----------------------------- MODULE EdgeProofs -----------------------------
(***************************************************************************)
(* What holds at the edge of the service for every number of requests,     *)
(* calls, permits, connections, sends and transfers and for every budget:  *)
(* webhook deliveries are accepted once (WhInv), storage transfers are     *)
(* told as they went (XferInv), requests are admitted, served and released *)
(* in order (EdgeInv), gRPC calls are accounted for (GrInv), and a cache   *)
(* connection carries one exchange at a time (LinkInv).                    *)
(***************************************************************************)
EXTENDS HttpEdge, GrpcCall, ObjectStorage, Webhooks, CacheLink, SequenceTheorems, FiniteSetTheorems, TLAPS

-----------------------------------------------------------------------------
(* Webhooks: a message is accepted once *)

WhSpec == WhInit /\ [][WhNext]_whVars

\* A request on its way, and the delivery job
WhRequest == [at: {"none", "sent", "verified", "answered", "over"} \cup InTx,
              id: Nat, ts: Nat, keys: SUBSET Nat, code: Nat, began: 0 .. WhClockEnd]
WhAdmission == [began: Nat, at: Nat]
WhJob == [st: {"none", "pending", "sending", "done", "failed"}, tries: 0 .. MaxSends, floor: Nat]

WhTyped ==
    /\ whClock \in 0 .. WhClockEnd
    /\ whOpen \in {"new", "refused", "open"}
    /\ whSender \in WhJob
    /\ whReq \in [Sends -> WhRequest]
    /\ whReceipt \in -1 .. WhClockEnd
    /\ whAccepted \in Seq(WhAdmission)
    /\ whDone \subseteq DOMAIN whAccepted
    /\ whRing \in [Sides -> [active: Nat, previous: Nat]]

\* The receipt that is kept is the last job's; every other job's is dated before the retention.
ReceiptStands ==
    /\ whReceipt >= 0 => whAccepted # <<>> /\ whAccepted[Len(whAccepted)].began = whReceipt
    /\ \A i \in DOMAIN whAccepted :
         whReceipt = -1 \/ i # Len(whAccepted) => whAccepted[i].began < whClock - Retention

JobsApart ==
    \A i, j \in DOMAIN whAccepted : i < j => whAccepted[j].at - whAccepted[i].began > Retention

\* An admission that inserted is alone and found no receipt; one that found one has a job, and
\* so has one that was told so.
AdmissionSays(n) ==
    /\ whReq[n].at # "none" => whReq[n].at = "over" \/ whReq[n].id = 1
    /\ whReq[n].at = "inserted" =>
          /\ whReceipt = -1
          /\ \A m \in Sends : whReq[m].at = "inserted" => m = n
    /\ whReq[n].at = "duplicate" => whAccepted # <<>>
    /\ whReq[n].at = "answered" /\ whReq[n].code = 204 => whAccepted # <<>>

WhInv ==
    /\ WhTyped /\ ReceiptStands /\ JobsApart
    /\ \A n \in Sends : AdmissionSays(n)
    /\ whSender.st = "done" => whAccepted # <<>>
    /\ whSender.st = "sending" => whSender.tries > 0

\* A receipt's date
LEMMA AdmittedIs ==
    ASSUME WhTyped, NEW i \in DOMAIN whAccepted
    PROVE  whAccepted[i].began \in Nat
<1>1. whAccepted[i] \in WhAdmission
  BY DEF WhTyped
<1> QED BY <1>1 DEF WhAdmission

\* Answers are written to the request of an attempt; nothing but where it is and the code changes.
LEMMA AnsweredIs ==
    ASSUME WhTyped, NEW n \in Sends, NEW code \in Nat, Answered(n, code)
    PROVE  \E q \in WhRequest : /\ whReq' = [whReq EXCEPT ![n] = q]
                                /\ q.at \in {"answered", "over"} /\ q.code = code /\ q.id = whReq[n].id
<1> DEFINE at == IF whSender.tries = n /\ whSender.st = "sending" THEN "answered" ELSE "over"
           q == [whReq[n] EXCEPT !.at = at, !.code = code]
<1>1. whReq[n] \in WhRequest /\ at \in {"answered", "over"}
  BY DEF WhTyped
<1>2. q \in WhRequest /\ q.at = at /\ q.code = code /\ q.id = whReq[n].id
  BY <1>1 DEF WhRequest
<1>3. whReq' = [whReq EXCEPT ![n] = q]
  BY DEF Answered, WhTyped
<1> QED BY <1>1, <1>2, <1>3

\* One request moves while receipt and jobs stay: what is left to show is about the request.
LEMMA RequestMoves ==
    ASSUME WhInv, NEW n \in Sends, NEW q \in WhRequest, whReq' = [whReq EXCEPT ![n] = q],
           whSender' \in WhJob, UNCHANGED <<whClock, whOpen, whRing, whReceipt, whAccepted, whDone>>,
           q.at # "none" => q.at = "over" \/ q.id = 1,
           q.at = "inserted" => /\ whReceipt = -1
                                /\ \A m \in Sends : whReq[m].at = "inserted" => m = n,
           q.at = "duplicate" => whAccepted # <<>>,
           q.at = "answered" /\ q.code = 204 => whAccepted # <<>>,
           whSender'.st = "done" => whAccepted # <<>>,
           whSender'.st = "sending" => whSender'.tries > 0
    PROVE  WhInv'
<1>1. WhTyped /\ ReceiptStands /\ JobsApart /\ \A m \in Sends : AdmissionSays(m)
  BY DEF WhInv
<1>2. whReq' \in [Sends -> WhRequest] /\ whReq'[n] = q /\ \A m \in Sends : m # n => whReq'[m] = whReq[m]
  BY <1>1 DEF WhTyped
<1>3. WhTyped' /\ ReceiptStands' /\ JobsApart'
  BY <1>1, <1>2 DEF WhTyped, ReceiptStands, JobsApart
<1>4. ASSUME NEW m \in Sends PROVE AdmissionSays(m)'
  <2>1. CASE m = n
    <3>1. q.at = "inserted" => \A k \in Sends : whReq'[k].at = "inserted" => k = n
      BY <1>2
    <3> QED BY <1>2, <2>1, <3>1 DEF AdmissionSays
  <2>2. CASE m # n
    <3>1. AdmissionSays(m) /\ whReq'[m] = whReq[m]
      BY <1>1, <1>2, <2>2
    <3>2. ASSUME whReq'[m].at = "inserted", NEW k \in Sends, whReq'[k].at = "inserted" PROVE k = m
      <4>1. whReq[m].at = "inserted"
        BY <3>1, <3>2
      <4>2. q.at # "inserted"
        BY <4>1, <2>2
      <4> QED BY <1>2, <3>1, <3>2, <4>1, <4>2 DEF AdmissionSays
    <3> QED BY <3>1, <3>2 DEF AdmissionSays
  <2> QED BY <2>1, <2>2
<1> QED BY <1>1, <1>3, <1>4 DEF WhInv

\* The requests stand as they are: what moves is the job, the keys or what is open.
LEMMA RequestsRest ==
    ASSUME WhInv, UNCHANGED <<whClock, whReq, whReceipt, whAccepted>>, whSender' \in WhJob,
           whOpen' \in {"new", "refused", "open"}, whDone' \subseteq DOMAIN whAccepted,
           whRing' \in [Sides -> [active: Nat, previous: Nat]],
           whSender'.st = "done" => whSender.st = "done",
           whSender'.st = "sending" => whSender'.tries > 0
    PROVE  WhInv'
<1>1. WhTyped /\ ReceiptStands /\ JobsApart /\ \A m \in Sends : AdmissionSays(m)
  BY DEF WhInv
<1>2. WhTyped' /\ ReceiptStands' /\ JobsApart'
  BY <1>1 DEF WhTyped, ReceiptStands, JobsApart
<1>3. \A m \in Sends : AdmissionSays(m)'
  BY <1>1 DEF AdmissionSays
<1> QED BY <1>1, <1>2, <1>3 DEF WhInv

\* A job that is tried again, or has run out of attempts
LEMMA RetryIs ==
    ASSUME WhTyped, NEW floor \in Nat, Retry(floor)
    PROVE  whSender' \in WhJob /\ whSender'.st \in {"failed", "pending"}
<1> DEFINE st == IF whSender.tries = MaxSends THEN "failed" ELSE "pending"
<1>1. st \in {"failed", "pending"} /\ whSender \in WhJob
  BY DEF WhTyped
<1>2. whSender' = [whSender EXCEPT !.st = st, !.floor = floor]
  BY DEF Retry
<1> HIDE DEF st
<1> QED BY <1>1, <1>2 DEF WhJob

\* The sender's steps keep the claims.
LEMMA SenderKeeps ==
    ASSUME WhInv,
           \/ EnqueueDelivery \/ DispatchDelivery \/ HearAnswer \/ LoseAnswer
           \/ \E reason \in {"missing_endpoint", "clock_unavailable", "invalid_payload"} : DispatchNothing(reason)
    PROVE  WhInv'
<1>0. /\ WhTyped /\ whSender \in WhJob /\ MaxSends \in Nat \ {0} /\ RetryCap \in Nat /\ whClock \in Nat
      /\ 0 \in 0 .. WhClockEnd
  BY WebhooksAssumption DEF WhInv, WhTyped
<1>1. CASE EnqueueDelivery
  <2>1. whSender' \in WhJob /\ whSender'.st = "pending"
    BY <1>0, <1>1 DEF EnqueueDelivery, WhJob
  <2> QED BY <1>0, <1>1, <2>1, RequestsRest DEF EnqueueDelivery, WhTyped
<1>2. CASE DispatchDelivery
  <2> DEFINE n == whSender.tries + 1
             q == [NoRequest EXCEPT !.at = "sent", !.id = MessageId(n), !.ts = whClock,
                                    !.keys = Signatures(whRing["sender"])]
  <2>1. n \in Sends
    BY <1>0, <1>2 DEF DispatchDelivery, WhJob, Sends
  <2>2. whSender' \in WhJob /\ whSender'.st = "sending" /\ whSender'.tries > 0
    <3>1. whSender' = [whSender EXCEPT !.st = "sending", !.tries = n] /\ n \in 0 .. MaxSends /\ n > 0
      BY <1>0, <1>2, <2>1 DEF DispatchDelivery, WhJob, Sends
    <3> HIDE DEF n
    <3> QED BY ONLY <1>0, <3>1 DEF WhJob
  <2>3. Signatures(whRing["sender"]) \in SUBSET Nat
    BY <1>0 DEF WhTyped, Signatures, RingKeys, Sides
  <2>4. q \in WhRequest /\ q.at = "sent" /\ q.id = 1
    BY <1>0, <2>3 DEF NoRequest, WhRequest, MessageId
  <2>5. /\ whReq' = [whReq EXCEPT ![n] = q]
        /\ UNCHANGED <<whClock, whOpen, whRing, whReceipt, whAccepted, whDone>>
    BY <1>2 DEF DispatchDelivery
  <2> HIDE DEF q, n
  <2> QED BY <2>1, <2>2, <2>4, <2>5, RequestMoves
<1>3. CASE HearAnswer
  <2> DEFINE n == whSender.tries
             q == [NoRequest EXCEPT !.at = "over"]
  <2>1. q \in WhRequest /\ q.at = "over" /\ n \in Sends
    BY <1>0, <1>3 DEF NoRequest, WhRequest, WhInv, HearAnswer, WhJob, Sends
  <2>2. PICK delay \in 0 .. RetryCap + 1 :
          CASE whReq[n].code = 204 -> whSender' = [whSender EXCEPT !.st = "done"]
            [] whReq[n].code = 410 -> whSender' = [whSender EXCEPT !.st = "failed"]
            [] OTHER -> Retry(whClock + RetryAfter(delay))
    BY <1>3 DEF HearAnswer
  <2>3. whClock + RetryAfter(delay) \in Nat
    BY <1>0 DEF RetryAfter
  <2>4. /\ whSender' \in WhJob
        /\ \/ whSender'.st \in {"failed", "pending"}
           \/ whReq[n].code = 204 /\ whSender'.st = "done"
    <3>1. CASE whReq[n].code = 204
      <4>1. whSender' = [whSender EXCEPT !.st = "done"]
        BY <2>2, <3>1
      <4> QED BY <1>0, <3>1, <4>1 DEF WhJob
    <3>2. CASE whReq[n].code # 204 /\ whReq[n].code = 410
      <4>1. whSender' = [whSender EXCEPT !.st = "failed"]
        BY <2>2, <3>2
      <4> QED BY <1>0, <4>1 DEF WhJob
    <3>3. CASE whReq[n].code # 204 /\ whReq[n].code # 410
      <4>1. Retry(whClock + RetryAfter(delay))
        BY <2>2, <3>3
      <4> QED BY <1>0, <2>3, <4>1, RetryIs
    <3> QED BY <3>1, <3>2, <3>3
  <2>5. whSender'.st = "done" => whAccepted # <<>>
    BY <1>3, <2>1, <2>4 DEF HearAnswer, WhInv, AdmissionSays
  <2>6. /\ whReq' = [whReq EXCEPT ![n] = q]
        /\ UNCHANGED <<whClock, whOpen, whRing, whReceipt, whAccepted, whDone>>
    BY <1>3 DEF HearAnswer
  <2> HIDE DEF q, n
  <2> QED BY <2>1, <2>4, <2>5, <2>6, RequestMoves
<1>4. CASE LoseAnswer
  <2> DEFINE n == whSender.tries
             q == [NoRequest EXCEPT !.at = "over"]
  <2>1. q \in WhRequest /\ q.at = "over" /\ n \in Sends
    BY <1>0, <1>4 DEF NoRequest, WhRequest, WhInv, LoseAnswer, WhJob, Sends
  <2>2. whSender' \in WhJob /\ whSender'.st \in {"failed", "pending"}
    BY <1>0, <1>4, RetryIs DEF LoseAnswer
  <2>3. CASE whReq' = whReq
    BY <1>0, <1>4, <2>2, <2>3, RequestsRest DEF LoseAnswer, WhTyped
  <2>4. CASE whReq' = [whReq EXCEPT ![n] = q]
    <3> HIDE DEF q, n
    <3> QED BY <1>4, <2>1, <2>2, <2>4, RequestMoves DEF LoseAnswer
  <2> QED BY <1>4, <2>3, <2>4 DEF LoseAnswer
<1>5. ASSUME NEW reason \in {"missing_endpoint", "clock_unavailable", "invalid_payload"}, DispatchNothing(reason)
      PROVE  WhInv'
  <2> DEFINE n == whSender.tries + 1
             st == IF reason = "invalid_payload" \/ n = MaxSends THEN "failed" ELSE whSender.st
  <2>1. n \in 0 .. MaxSends /\ st \in {"failed", "pending"}
    BY <1>0, <1>5 DEF DispatchNothing, WhJob
  <2>2. whSender' = [whSender EXCEPT !.tries = n, !.st = st]
    BY <1>0, <1>5 DEF DispatchNothing, WhJob
  <2> HIDE DEF n, st
  <2>3. whSender' \in WhJob /\ whSender'.st = st
    BY <1>0, <2>1, <2>2 DEF WhJob
  <2> QED BY <1>0, <1>5, <2>1, <2>3, RequestsRest DEF DispatchNothing, WhTyped
<1> QED BY <1>1, <1>2, <1>3, <1>4, <1>5

\* The receiver's steps that leave receipt and jobs alone
LEMMA ReceiverKeeps ==
    ASSUME WhInv, NEW n \in Sends, Receive(n) \/ BeginReceipt(n) \/ InsertReceipt(n) \/ AbandonReceipt(n)
    PROVE  WhInv'
<1>0. WhTyped /\ whReq[n] \in WhRequest /\ AdmissionSays(n) /\ whSender \in WhJob
  BY DEF WhInv, WhTyped
<1>a. ASSUME NEW code \in Nat, code # 204, Answered(n, code), whReq[n].at \in {"sent", "verified"} \cup InTx,
             UNCHANGED <<whClock, whOpen, whRing, whSender, whReceipt, whAccepted, whDone>>
      PROVE  WhInv'
  <2>1. PICK q \in WhRequest : /\ whReq' = [whReq EXCEPT ![n] = q]
                               /\ q.at \in {"answered", "over"} /\ q.code = code /\ q.id = whReq[n].id
    BY <1>0, <1>a, AnsweredIs
  <2>2. q.id = 1
    BY <1>0, <1>a, <2>1 DEF AdmissionSays, InTx
  <2> QED BY <1>0, <1>a, <2>1, <2>2, RequestMoves, ZenonT(40) DEF WhInv
<1>1. CASE Receive(n)
  <2>1. CASE whReq' = [whReq EXCEPT ![n].at = "verified"]
    <3> DEFINE q == [whReq[n] EXCEPT !.at = "verified"]
    <3>1. q \in WhRequest /\ q.at = "verified" /\ q.id = 1
      BY <1>0, <1>1 DEF WhRequest, Receive, AdmissionSays
    <3>2. whReq' = [whReq EXCEPT ![n] = q]
      BY <2>1
    <3> HIDE DEF q
    <3> QED BY <1>0, <1>1, <3>1, <3>2, RequestMoves, ZenonT(40) DEF Receive, WhInv
  <2>2. CASE \E code \in {404, 413, 400, 500, 503} : Answered(n, code)
    BY <1>1, <1>a, <2>2 DEF Receive
  <2> QED BY <1>1, <2>1, <2>2 DEF Receive
<1>b. CASE BeginReceipt(n)
  <2> DEFINE q == [whReq[n] EXCEPT !.at = "begun", !.began = whClock]
  <2>1. q \in WhRequest /\ q.at = "begun" /\ q.id = 1
    BY <1>0, <1>b DEF WhRequest, BeginReceipt, AdmissionSays, WhTyped, InTx
  <2>2. whReq' = [whReq EXCEPT ![n] = q]
    BY <1>b DEF BeginReceipt
  <2> HIDE DEF q
  <2> QED BY <1>0, <1>b, <2>1, <2>2, RequestMoves, ZenonT(40) DEF BeginReceipt, WhInv
<1>2. CASE InsertReceipt(n)
  <2> DEFINE at == IF whReceipt >= 0 /\ whReq[n].id = MessageId(1) THEN "duplicate" ELSE "inserted"
             q == [whReq[n] EXCEPT !.at = at]
  <2>1. whReq[n].at = "begun" /\ whReq[n].id = 1 /\ whReceipt \in -1 .. WhClockEnd
    BY <1>0, <1>2 DEF InsertReceipt, AdmissionSays, WhTyped
  <2>2. q \in WhRequest /\ q.at = at /\ q.id = 1 /\ at \in InTx
    BY <1>0, <2>1 DEF WhRequest, InTx
  <2>3. whReq' = [whReq EXCEPT ![n] = q]
    BY <1>2 DEF InsertReceipt
  <2>4. at = "inserted" => whReceipt = -1
    BY <2>1, WebhooksAssumption DEF MessageId
  <2>5. \A m \in Sends : whReq[m].at # "inserted"
    BY <1>2, <2>1 DEF InsertReceipt, WhInv, AdmissionSays
  <2>6. at = "duplicate" => whAccepted # <<>>
    BY DEF WhInv, ReceiptStands
  <2> HIDE DEF q, at
  <2> QED BY <1>0, <1>2, <2>2, <2>3, <2>4, <2>5, <2>6, RequestMoves, ZenonT(40) DEF InsertReceipt, WhInv, InTx
<1>3. CASE AbandonReceipt(n)
  BY <1>3, <1>a DEF AbandonReceipt
<1> QED BY <1>1, <1>b, <1>2, <1>3

\* The commit of an admission: with a receipt that was not there, or of nothing.
LEMMA CommitKeeps ==
    ASSUME WhInv, NEW n \in Sends, NEW durable \in BOOLEAN, NEW known \in BOOLEAN,
           EndReceipt(n, durable, known)
    PROVE  WhInv'
<1>0. /\ WhTyped /\ whReq[n] \in WhRequest /\ AdmissionSays(n) /\ whSender \in WhJob
      /\ whReq \in [Sends -> WhRequest] /\ ReceiptStands /\ JobsApart
      /\ Retention \in Nat /\ WhClockEnd \in Nat /\ whClock \in 0 .. WhClockEnd
  BY WebhooksAssumption DEF WhInv, WhTyped
<1> DEFINE code == IF durable /\ known THEN 204 ELSE 503
<1>1. code \in Nat
  OBVIOUS
<1>2. PICK q \in WhRequest : /\ whReq' = [whReq EXCEPT ![n] = q]
                             /\ q.at \in {"answered", "over"} /\ q.code = code /\ q.id = whReq[n].id
  BY <1>0, <1>1, AnsweredIs DEF EndReceipt
<1>3. q.id = 1
  BY <1>0, <1>2 DEF AdmissionSays, InTx, EndReceipt
<1>4. CASE durable /\ whReq[n].at = "inserted"
  <2> DEFINE job == [began |-> whReq[n].began, at |-> whClock]
  <2>1. whReceipt' = whReq[n].began /\ whAccepted' = Append(whAccepted, job) /\ whReceipt = -1
    BY <1>0, <1>4 DEF EndReceipt, CommitReceipt, AdmissionSays
  <2>2. \A i \in DOMAIN whAccepted : whAccepted[i].began < whClock - Retention
    BY <1>0, <2>1 DEF ReceiptStands
  <2>j. job \in WhAdmission /\ job.began = whReq[n].began /\ job.at = whClock /\ whReq[n].began \in 0 .. WhClockEnd
    BY <1>0 DEF WhRequest, WhAdmission
  <2> HIDE DEF job
  <2>3. /\ whAccepted' \in Seq(WhAdmission) /\ Len(whAccepted') = Len(whAccepted) + 1
        /\ DOMAIN whAccepted' = 1 .. Len(whAccepted) + 1 /\ DOMAIN whAccepted = 1 .. Len(whAccepted)
        /\ whAccepted'[Len(whAccepted) + 1] = job
        /\ \A i \in DOMAIN whAccepted : whAccepted'[i] = whAccepted[i]
        /\ Len(whAccepted) \in Nat /\ whAccepted' # <<>>
    BY <1>0, <2>1, <2>j DEF WhTyped
  <2>4. \A i \in DOMAIN whAccepted : whAccepted[i].began \in Nat
    BY <1>0, AdmittedIs
  <2>5. whReq' \in [Sends -> WhRequest] /\ whReq'[n] = q /\ \A m \in Sends : m # n => whReq'[m] = whReq[m]
    BY <1>0, <1>2
  <2>6. WhTyped'
    BY <1>0, <2>1, <2>3, <2>5, <2>j DEF WhTyped, EndReceipt
  <2>7. ReceiptStands'
    <3>1. whAccepted'[Len(whAccepted')].began = whReceipt' /\ whReceipt' >= 0
      BY <1>0, <2>1, <2>3, <2>j
    <3>2. whClock' = whClock
      BY DEF EndReceipt
    <3>3. ASSUME NEW i \in DOMAIN whAccepted', i # Len(whAccepted') PROVE whAccepted'[i].began < whClock' - Retention
      BY <2>2, <2>3, <3>2, <3>3
    <3> QED BY <1>0, <2>3, <3>1, <3>3 DEF ReceiptStands
  <2>8. JobsApart'
    <3> SUFFICES ASSUME NEW i \in DOMAIN whAccepted', NEW j \in DOMAIN whAccepted', i < j
                 PROVE  whAccepted'[j].at - whAccepted'[i].began > Retention
      BY DEF JobsApart
    <3>1. i \in DOMAIN whAccepted
      BY <2>3
    <3>2. CASE j \in DOMAIN whAccepted
      BY <1>0, <2>3, <3>1, <3>2 DEF JobsApart
    <3>3. CASE j = Len(whAccepted) + 1
      BY <1>0, <2>2, <2>3, <2>4, <2>j, <3>1, <3>3
    <3> QED BY <2>3, <3>2, <3>3
  <2>9. ASSUME NEW m \in Sends PROVE AdmissionSays(m)'
    <3>1. whReq'[m].at # "inserted"
      BY <1>0, <1>2, <1>4, <2>5 DEF AdmissionSays
    <3> QED BY <1>2, <1>3, <2>3, <2>5, <3>1 DEF AdmissionSays, WhInv
  <2> QED BY <2>3, <2>6, <2>7, <2>8, <2>9 DEF WhInv, EndReceipt
<1>5. CASE ~(durable /\ whReq[n].at = "inserted")
  <2>1. UNCHANGED <<whReceipt, whAccepted>>
    BY <1>5 DEF EndReceipt, CommitReceipt
  <2>2. q.code = 204 => whAccepted # <<>>
    BY <1>0, <1>2, <1>5 DEF EndReceipt, InTx, AdmissionSays
  <2> HIDE DEF code
  <2>3. UNCHANGED <<whClock, whOpen, whRing, whSender, whDone>>
    BY DEF EndReceipt
  <2>4. /\ whSender.st = "done" => whAccepted # <<>>
        /\ whSender.st = "sending" => whSender.tries > 0
    BY DEF WhInv
  <2> QED BY <1>0, <1>2, <1>3, <2>1, <2>2, <2>3, <2>4, RequestMoves, ZenonT(40)
<1> QED BY <1>4, <1>5

\* Every step keeps the claims.
LEMMA WhKeeps ==
    ASSUME WhInv, [WhNext]_whVars
    PROVE  WhInv'
<1>0. /\ WhTyped /\ whSender \in WhJob /\ ReceiptStands /\ JobsApart /\ \A n \in Sends : AdmissionSays(n)
      /\ Retention \in Nat /\ WhClockEnd \in Nat /\ LastKey \in Nat
  BY WebhooksAssumption DEF WhInv, WhTyped
<1>1. CASE PrepareWebhooks
  <2>1. whOpen' \in {"refused", "open"}
    BY <1>1 DEF PrepareWebhooks
  <2> QED BY <1>0, <1>1, <2>1, RequestsRest DEF PrepareWebhooks, WhTyped, WhInv
<1>2. ASSUME NEW side \in Sides, ChangeKeys(side) PROVE WhInv'
  <2> DEFINE next == [active |-> whRing[side].active + 1, previous |-> whRing[side].active]
  <2>1. next \in [active: Nat, previous: Nat]
    BY <1>0 DEF WhTyped
  <2>2. whRing' = [whRing EXCEPT ![side] = next]
    BY <1>2 DEF ChangeKeys
  <2> HIDE DEF next
  <2>3. whRing' \in [Sides -> [active: Nat, previous: Nat]]
    BY <1>0, <2>1, <2>2 DEF WhTyped
  <2> QED BY <1>0, <1>2, <2>3, RequestsRest DEF ChangeKeys, WhTyped, WhInv
<1>3. CASE RemoveExpired
  <2>1. whReceipt \in 0 .. WhClockEnd /\ whReceipt < whClock - Retention /\ whReceipt' = -1 /\ whClock \in Nat
    BY <1>0, <1>3 DEF RemoveExpired, WhTyped
  <2>2. whAccepted # <<>> /\ whAccepted[Len(whAccepted)].began = whReceipt
    BY <1>0, <2>1 DEF ReceiptStands
  <2>3. ASSUME NEW i \in DOMAIN whAccepted PROVE whAccepted[i].began < whClock - Retention
    BY <1>0, <2>1, <2>2 DEF ReceiptStands
  <2>4. WhTyped'
    BY <1>0, <1>3, <2>1 DEF WhTyped, RemoveExpired
  <2>5. ReceiptStands' /\ JobsApart'
    BY <1>0, <1>3, <2>1, <2>3 DEF ReceiptStands, JobsApart, RemoveExpired
  <2>6. \A n \in Sends : AdmissionSays(n)'
    BY <1>0, <1>3, <2>1 DEF AdmissionSays, RemoveExpired
  <2> QED BY <1>3, <2>4, <2>5, <2>6 DEF WhInv, RemoveExpired
<1>4. ASSUME NEW j \in DOMAIN whAccepted, ProcessIncoming(j) PROVE WhInv'
  <2>1. whDone' \subseteq DOMAIN whAccepted
    BY <1>0, <1>4 DEF ProcessIncoming, WhTyped
  <2> QED BY <1>0, <1>4, <2>1, RequestsRest DEF ProcessIncoming, WhTyped, WhInv
<1>5. CASE TickWebhooks
  <2>1. whClock \in Nat /\ whClock' = whClock + 1 /\ whClock' \in 0 .. WhClockEnd
    BY <1>0, <1>5 DEF TickWebhooks, WhTyped
  <2>2. \A i \in DOMAIN whAccepted : whAccepted[i].began \in Nat
    BY <1>0, AdmittedIs
  <2>3. WhTyped'
    BY <1>0, <1>5, <2>1 DEF WhTyped, TickWebhooks
  <2>4. ReceiptStands' /\ JobsApart'
    BY <1>0, <1>5, <2>1, <2>2 DEF ReceiptStands, JobsApart, TickWebhooks
  <2>5. \A n \in Sends : AdmissionSays(n)'
    BY <1>0, <1>5 DEF AdmissionSays, TickWebhooks
  <2> QED BY <1>5, <2>3, <2>4, <2>5 DEF WhInv, TickWebhooks
<1>6. CASE UNCHANGED whVars
  BY <1>0, <1>6, RequestsRest DEF whVars, WhTyped, WhInv
<1> QED BY <1>1, <1>2, <1>3, <1>4, <1>5, <1>6, SenderKeeps, ReceiverKeeps, CommitKeeps DEF WhNext

\* A sender that was told 204 has a processing job at the receiver, and a second job for the same
\* message is committed only when every earlier receipt, dated by the start of its transaction, has
\* outlived its retention, however many attempts are allowed and however attempts, transactions,
\* answers, cleanups and key changes interleave (infra-webhooks/src/inbound.rs: receive_inner and
\* remove_expired_pass; outbound.rs: Dispatcher).
THEOREM DeliverySafe == WhSpec => []DeliveredOnce
<1>1. ASSUME WhInit PROVE WhInv
  <2>1. /\ NoRequest \in WhRequest /\ NoRequest.at = "none"
        /\ {MaxSends, Retention, WhClockEnd} \subseteq Nat
    BY WebhooksAssumption DEF NoRequest, WhRequest
  <2>2. whReq \in [Sends -> WhRequest] /\ \A n \in Sends : whReq[n].at = "none"
    BY <1>1, <2>1 DEF WhInit
  <2>3. whSender \in WhJob /\ whSender.st = "none"
    BY <1>1, <2>1 DEF WhInit, WhJob
  <2>4. whAccepted \in Seq(WhAdmission) /\ DOMAIN whAccepted = {} /\ whDone = {}
    BY <1>1 DEF WhInit
  <2>5. whRing \in [Sides -> [active: Nat, previous: Nat]]
    BY <1>1 DEF WhInit
  <2>6. WhTyped
    BY <1>1, <2>1, <2>2, <2>3, <2>4, <2>5 DEF WhInit, WhTyped
  <2> QED BY <1>1, <2>2, <2>3, <2>4, <2>6 DEF WhInit, WhInv, ReceiptStands, JobsApart, AdmissionSays
<1>2. ASSUME WhInv PROVE DeliveredOnce
  <2>1. WhTypeOK
    BY <1>2 DEF WhInv, WhTyped, WhTypeOK, WhJob, WhRequest
  <2> QED BY <1>2, <2>1 DEF WhInv, JobsApart, DeliveredOnce
<1> QED BY <1>1, <1>2, WhKeeps, PTL DEF WhSpec

-----------------------------------------------------------------------------
(* Object storage: what a caller was told is true *)

XferSpec == XferInit /\ [][XferNext]_xferVars

XferStages == {"idle", "begun", "ready", "sent", "open", "done"}
XferResults == {"none", "ok", "Unavailable", "TooLarge", "Busy", "Rejected", "OutcomeUnknown", "Integrity",
                "NotFound", "AlreadyExists", "cancelled"}

\* An operation
XferRun == [stage: XferStages, kind: Mutations \cup Reads \cup Unslotted \cup {"none"}, cutoff: Nat,
            cancelled: BOOLEAN, held: BOOLEAN, sent: BOOLEAN, mismatch: BOOLEAN, applied: BOOLEAN,
            reply: SUBSET StoreAnswers, result: XferResults, records: Nat, size: Nat, remaining: Nat,
            last: Nat, items: Nat, got: Nat, finished: BOOLEAN]

\* The permit is held, and the outcome recorded, by where the operation is.
StageSays(o) ==
    /\ o.held <=> o.stage \in {"ready", "sent", "open"}
    /\ o.records = (IF o.stage = "done" THEN 1 ELSE 0)

\* What has not been sent has no answer; only a whole mutation that was sent is applied.
SendingSays(o) ==
    /\ o.stage \in {"idle", "begun", "ready"} => ~o.sent /\ ~o.mismatch /\ o.reply = {}
    /\ o.applied => o.kind \in Mutations /\ o.sent /\ ~o.mismatch

\* An answer tells whether the mutation was applied, unless it is one that tells nothing.
Unsure(reply) == reply.type = "Lost" \/ reply.status = 500

RepliesSay(o) ==
    o.kind \in Mutations => \A reply \in o.reply :
        /\ reply.type = "ok" \/ (reply.code = "NoSuchKey" /\ o.kind = "delete") => o.applied
        /\ o.applied => \/ reply.type = "ok" \/ Unsure(reply)
                        \/ reply.code = "NoSuchKey" /\ o.kind = "delete"
        /\ o.mismatch => reply.type = "Lost"

\* What was recorded of a mutation holds even when it is applied later.
MutationSays(o, result) ==
    o.kind \in Mutations =>
        /\ result = "ok" => o.applied
        /\ o.applied => result \in {"ok", "OutcomeUnknown", "cancelled"}
        /\ o.sent /\ ~o.mismatch /\ (\A reply \in o.reply : Unsure(reply)) =>
               result \in {"ok", "OutcomeUnknown", "cancelled"}

\* A body is complete only when it has ended well.
DownloadSays(o, result) ==
    o.kind = "get" =>
        /\ o.size > 0 /\ o.got = o.size => o.finished
        /\ result = "ok" => o.got = o.size

\* A body that is open withholds what completes it.
BodySays(o) ==
    /\ o.stage \in {"idle", "begun", "ready", "sent"} =>
          o.size = 0 /\ o.got = 0 /\ o.remaining = 0 /\ o.last = 0 /\ ~o.finished
    /\ o.stage = "open" =>
          /\ o.kind = "get" /\ o.got + o.remaining + o.last = o.size /\ ~o.finished
          /\ o.remaining > 0 => o.last = 0
          /\ o.size > 0 => o.remaining + o.last > 0

XferSays(o) ==
    /\ StageSays(o) /\ SendingSays(o) /\ RepliesSay(o) /\ BodySays(o)
    /\ o.stage = "done" => MutationSays(o, o.result) /\ DownloadSays(o, o.result)
    /\ o.stage # "done" => o.result = "none"

HoldSlots == {t \in Transfers : xfer[t].held}

XferInv ==
    /\ xfer \in [Transfers -> XferRun]
    /\ slots \in Nat /\ xclock \in 0 .. TransferEnd
    /\ IsFiniteSet(HoldSlots) /\ slots + Cardinality(HoldSlots) = TransferSlots
    /\ \A t \in Transfers : XferSays(xfer[t])

\* One operation moves, and takes or returns a permit: what is left to show is about its new self.
LEMMA XferMoves ==
    ASSUME XferInv, NEW t \in Transfers, NEW o \in XferRun, xfer' = [xfer EXCEPT ![t] = o], XferSays(o),
           slots' \in Nat, xclock' \in 0 .. TransferEnd,
           \/ o.held = xfer[t].held /\ slots' = slots
           \/ o.held /\ ~xfer[t].held /\ slots' = slots - 1
           \/ ~o.held /\ xfer[t].held /\ slots' = slots + 1
    PROVE  XferInv'
<1>0. xfer \in [Transfers -> XferRun] /\ slots \in Nat /\ TransferSlots \in Nat
  BY TransferAssumption DEF XferInv
<1>1. xfer' \in [Transfers -> XferRun] /\ xfer'[t] = o /\ \A u \in Transfers : u # t => xfer'[u] = xfer[u]
  BY <1>0
<1>2. \A u \in Transfers : XferSays(xfer'[u])
  BY <1>1 DEF XferInv
<1>3. IsFiniteSet(HoldSlots) /\ slots + Cardinality(HoldSlots) = TransferSlots /\ Cardinality(HoldSlots) \in Nat
  BY FS_CardinalityType DEF XferInv
<1>4. IsFiniteSet(HoldSlots') /\ slots' + Cardinality(HoldSlots') = TransferSlots
  <2>1. CASE o.held = xfer[t].held /\ slots' = slots
    <3>1. HoldSlots' = HoldSlots
      BY <1>1, <2>1 DEF HoldSlots
    <3> QED BY <1>3, <2>1, <3>1
  <2>2. CASE o.held /\ ~xfer[t].held /\ slots' = slots - 1
    <3>1. HoldSlots' = HoldSlots \cup {t} /\ t \notin HoldSlots
      BY <1>1, <2>2 DEF HoldSlots
    <3>2. IsFiniteSet(HoldSlots') /\ Cardinality(HoldSlots') = Cardinality(HoldSlots) + 1
      BY <1>3, <3>1, FS_AddElement
    <3> QED BY <1>0, <1>3, <2>2, <3>2
  <2>3. CASE ~o.held /\ xfer[t].held /\ slots' = slots + 1
    <3>1. HoldSlots' = HoldSlots \ {t} /\ t \in HoldSlots
      BY <1>1, <2>3 DEF HoldSlots
    <3>2. IsFiniteSet(HoldSlots') /\ Cardinality(HoldSlots') = Cardinality(HoldSlots) - 1
      BY <1>3, <3>1, FS_RemoveElement
    <3> QED BY <1>0, <1>3, <2>3, <3>2
  <2> QED BY <2>1, <2>2, <2>3
<1> QED BY <1>1, <1>2, <1>4 DEF XferInv

\* An operation that ends leaves a true record.
LEMMA ConcludeKeeps ==
    ASSUME XferInv, NEW t \in Transfers, NEW o \in XferRun, NEW result \in XferResults,
           Conclude(t, o, result), xclock' \in 0 .. TransferEnd, o.held = xfer[t].held, o.records = 0,
           SendingSays(o), RepliesSay(o), MutationSays(o, result), DownloadSays(o, result)
    PROVE  XferInv'
<1> DEFINE kept == IF o.kind \in Mutations THEN o.reply ELSE {}
           r == [o EXCEPT !.stage = "done", !.result = result, !.held = FALSE, !.records = 1, !.cutoff = 0,
                          !.cancelled = FALSE, !.items = 0, !.remaining = 0, !.last = 0, !.reply = kept]
<1>0. kept \in SUBSET StoreAnswers /\ slots \in Nat /\ o \in XferRun /\ result \in XferResults
  BY DEF XferRun, XferInv
<1>1. /\ r \in XferRun /\ r.stage = "done" /\ r.result = result /\ r.held = FALSE /\ r.records = 1
      /\ r.kind = o.kind /\ r.sent = o.sent /\ r.mismatch = o.mismatch /\ r.applied = o.applied /\ r.reply = kept
      /\ r.size = o.size /\ r.got = o.got /\ r.finished = o.finished
  <2> HIDE DEF kept
  <2> QED BY ONLY <1>0 DEF XferRun, XferStages
<1>2. xfer' = [xfer EXCEPT ![t] = r]
  BY DEF Conclude, XferRun
<1>3. o.kind \in Mutations => kept = o.reply
  OBVIOUS
<1> HIDE DEF r, kept
<1>4. StageSays(r) /\ SendingSays(r) /\ BodySays(r)
  BY <1>1 DEF StageSays, SendingSays, BodySays
<1>5. RepliesSay(r) /\ MutationSays(r, r.result) /\ DownloadSays(r, r.result)
  BY <1>1, <1>3 DEF RepliesSay, MutationSays, DownloadSays
<1>6. XferSays(r)
  BY <1>1, <1>4, <1>5 DEF XferSays
<1>7. slots' \in Nat /\ (xfer[t].held => slots' = slots + 1) /\ (~xfer[t].held => slots' = slots)
  BY <1>0 DEF Conclude
<1>8. xfer[t].held \in BOOLEAN
  BY DEF XferInv, XferRun
<1> QED BY <1>1, <1>2, <1>6, <1>7, <1>8, XferMoves

\* What an answer is taken for
LEMMA ClassifyIs ==
    ASSUME NEW call \in {"Read", "CreateOnly", "Mutation"}, NEW reply \in StoreAnswers
    PROVE  /\ Classify(call, reply) \in XferResults \ {"none", "ok", "cancelled"}
           /\ call # "Read" /\ Unsure(reply) => Classify(call, reply) = "OutcomeUnknown"
<1>1. \/ /\ reply.type \in {"ok", "NotSent", "NoCredentials", "Lost"}
         /\ reply.status \in {0, 200} /\ reply.code = "none"
      \/ reply.type = "Status" /\ reply.status = 404
      \/ reply.type = "Status" /\ reply.status \in {403, 409, 412, 500, 501} /\ reply.code = "none"
  <2>1. CASE \E s \in {403, 404, 409, 412, 500, 501} : reply = [type |-> "Status", status |-> s, code |-> "none"]
    BY <2>1
  <2> QED BY <2>1 DEF StoreAnswers
<1> DEFINE unsure == IF call = "Read" THEN "Unavailable" ELSE "OutcomeUnknown"
<1>2. Classify(call, reply) \in {"Rejected", "Unavailable", unsure, "NotFound", "AlreadyExists"}
  BY DEF Classify
<1>3. CASE reply.type = "Lost"
  <2>1. Classify(call, reply) = unsure
    BY <1>1, <1>3 DEF Classify
  <2> QED BY <1>2, <2>1 DEF XferResults
<1>4. CASE reply.type # "Lost" /\ reply.status = 500
  <2>1. reply.type = "Status" /\ reply.code = "none" /\ reply.status = 500
    BY <1>1, <1>4
  <2>2. Classify(call, reply) = unsure
    BY ONLY <2>1 DEF Classify
  <2> QED BY <1>2, <2>2 DEF XferResults
<1>5. CASE reply.type # "Lost" /\ reply.status # 500
  BY <1>2, <1>5 DEF XferResults, Unsure
<1> QED BY <1>3, <1>4, <1>5

\* What is known of an operation
LEMMA XferKnown ==
    ASSUME XferInv, NEW t \in Transfers
    PROVE  /\ xfer[t] \in XferRun /\ XferSays(xfer[t]) /\ StageSays(xfer[t]) /\ SendingSays(xfer[t])
           /\ RepliesSay(xfer[t]) /\ BodySays(xfer[t])
           /\ slots \in Nat /\ xclock \in 0 .. TransferEnd /\ xclock \in Nat /\ TransferEnd \in Nat
  BY TransferAssumption DEF XferInv, XferSays

\* An operation ends before anything was sent of it, or with its wait.
LEMMA EndsUnheard ==
    ASSUME XferInv, NEW t \in Transfers, xfer[t].stage \in {"begun", "ready", "sent"},
           NEW result \in XferResults \ {"none"}, Conclude(t, xfer[t], result), xclock' = xclock,
           result = "ok" => xfer[t].kind \notin Mutations \cup {"get"},
           xfer[t].stage = "sent" /\ xfer[t].kind \in Mutations =>
               xfer[t].mismatch \/ result \in {"OutcomeUnknown", "cancelled"}
    PROVE  XferInv'
<1> DEFINE o == xfer[t]
<1>1. /\ o \in XferRun /\ StageSays(o) /\ SendingSays(o) /\ RepliesSay(o) /\ BodySays(o)
      /\ xclock \in 0 .. TransferEnd /\ result \in XferResults
  BY XferKnown
<1>2. o.records = 0
  BY <1>1 DEF StageSays
<1>3. MutationSays(o, result)
  BY <1>1 DEF MutationSays, SendingSays
<1>4. DownloadSays(o, result)
  BY <1>1 DEF DownloadSays, BodySays, Mutations
<1> QED BY <1>1, <1>2, <1>3, <1>4, ConcludeKeeps

\* Up to the request's departure
LEMMA BeforeKeeps ==
    ASSUME XferInv, NEW t \in Transfers,
           BeginTransfer(t) \/ TakeSlot(t) \/ WithoutSlot(t) \/ PrepareEmptyStream(t) \/ SendRequest(t)
    PROVE  XferInv'
<1> DEFINE x == xfer[t]
<1>0. /\ x \in XferRun /\ StageSays(x) /\ SendingSays(x) /\ RepliesSay(x) /\ BodySays(x) /\ slots \in Nat
      /\ xclock \in 0 .. TransferEnd /\ xclock \in Nat /\ TransferTicks \in Nat /\ XferSays(x)
  BY XferKnown, TransferAssumption
<1>1. CASE BeginTransfer(t)
  <2>1. PICK kind \in Mutations \cup Reads \cup Unslotted, stopped \in BOOLEAN :
          LET o == [xfer[t] EXCEPT !.kind = kind, !.cutoff = xclock + TransferTicks, !.cancelled = stopped]
          IN IF stopped /\ kind # "probe" THEN Conclude(t, o, "Unavailable")
             ELSE xfer' = [xfer EXCEPT ![t] = [o EXCEPT !.stage = "begun"]] /\ UNCHANGED slots
    BY <1>1 DEF BeginTransfer
  <2> DEFINE cutoff == xclock + TransferTicks
             o == [xfer[t] EXCEPT !.kind = kind, !.cutoff = cutoff, !.cancelled = stopped]
             p == [o EXCEPT !.stage = "begun"]
  <2>2. cutoff \in Nat /\ kind \in Mutations \cup Reads \cup Unslotted /\ x.stage = "idle"
    <3>1. cutoff \in Nat
      BY <1>0
    <3>2. x.stage = "idle"
      BY <1>1 DEF BeginTransfer
    <3> QED BY <3>1, <3>2
  <2>3. IF stopped /\ kind # "probe" THEN Conclude(t, o, "Unavailable")
        ELSE xfer' = [xfer EXCEPT ![t] = p] /\ UNCHANGED slots
    BY <2>1
  <2> HIDE DEF cutoff
  <2>4. /\ o \in XferRun /\ o.stage = x.stage /\ o.kind = kind /\ o.held = x.held /\ o.sent = x.sent
        /\ o.mismatch = x.mismatch /\ o.applied = x.applied /\ o.reply = x.reply /\ o.result = x.result
        /\ o.records = x.records /\ o.size = x.size /\ o.remaining = x.remaining /\ o.last = x.last
        /\ o.got = x.got /\ o.finished = x.finished
    BY ONLY <1>0, <2>2, stopped \in BOOLEAN DEF XferRun
  <2> HIDE DEF o
  <2>5. /\ p \in XferRun /\ p.stage = "begun" /\ p.kind = kind /\ p.held = o.held /\ p.sent = o.sent
        /\ p.mismatch = o.mismatch /\ p.applied = o.applied /\ p.reply = o.reply /\ p.result = o.result
        /\ p.records = o.records /\ p.size = o.size /\ p.remaining = o.remaining /\ p.last = o.last
        /\ p.got = o.got /\ p.finished = o.finished
    BY ONLY <2>4 DEF XferRun, XferStages
  <2> HIDE DEF p, x
  <2>6. /\ ~x.held /\ x.records = 0 /\ ~x.sent /\ ~x.mismatch /\ x.reply = {} /\ ~x.applied
        /\ x.size = 0 /\ x.got = 0 /\ x.remaining = 0 /\ x.last = 0 /\ ~x.finished /\ x.result = "none"
    BY <1>0, <2>2 DEF StageSays, SendingSays, BodySays, XferSays
  <2>7. CASE stopped /\ kind # "probe"
    <3>1. SendingSays(o) /\ RepliesSay(o) /\ MutationSays(o, "Unavailable") /\ DownloadSays(o, "Unavailable")
      BY <2>2, <2>4, <2>6 DEF SendingSays, RepliesSay, MutationSays, DownloadSays
    <3>2. Conclude(t, o, "Unavailable") /\ xclock' = xclock /\ "Unavailable" \in XferResults
      BY <1>1, <2>3, <2>7 DEF BeginTransfer, XferResults
    <3>3. o.held = xfer[t].held /\ o.records = 0
      BY <2>4, <2>6 DEF x
    <3> QED BY <1>0, <2>4, <3>1, <3>2, <3>3, ConcludeKeeps
  <2>8. CASE ~(stopped /\ kind # "probe")
    <3>1. XferSays(p)
      BY <2>4, <2>5, <2>6 DEF XferSays, StageSays, SendingSays, RepliesSay, BodySays
    <3>2. xfer' = [xfer EXCEPT ![t] = p] /\ slots' = slots /\ xclock' = xclock /\ p.held = xfer[t].held
      BY <1>1, <2>3, <2>4, <2>5, <2>8 DEF BeginTransfer, x
    <3> QED BY <1>0, <2>5, <3>1, <3>2, XferMoves
  <2> QED BY <2>7, <2>8
<1>2. CASE TakeSlot(t)
  <2>1. CASE \E result \in {"TooLarge", "Busy"} : Conclude(t, xfer[t], result)
    <3>1. x.stage = "begun" /\ xclock' = xclock
      BY <1>2 DEF TakeSlot
    <3> QED BY <2>1, <3>1, EndsUnheard DEF XferResults
  <2>2. CASE /\ slots > 0 /\ slots' = slots - 1
             /\ xfer' = [xfer EXCEPT ![t].stage = "ready", ![t].held = TRUE]
    <3> DEFINE p == [x EXCEPT !.stage = "ready", !.held = TRUE]
    <3>1. xfer' = [xfer EXCEPT ![t] = p] /\ x.stage = "begun" /\ xclock' = xclock
      BY <1>2, <2>2 DEF TakeSlot, XferInv
    <3>2. /\ p \in XferRun /\ p.stage = "ready" /\ p.kind = x.kind /\ p.held = TRUE /\ p.sent = x.sent
          /\ p.mismatch = x.mismatch /\ p.applied = x.applied /\ p.reply = x.reply /\ p.result = x.result
          /\ p.records = x.records /\ p.size = x.size /\ p.remaining = x.remaining /\ p.last = x.last
          /\ p.got = x.got /\ p.finished = x.finished
      BY ONLY <1>0 DEF XferRun, XferStages
    <3> HIDE DEF p
    <3>3. XferSays(p)
      BY <1>0, <3>1, <3>2 DEF XferSays, StageSays, SendingSays, RepliesSay, BodySays
    <3>4. ~xfer[t].held /\ slots' \in Nat
      BY <1>0, <2>2, <3>1 DEF StageSays
    <3> QED BY <1>0, <2>2, <3>1, <3>2, <3>3, <3>4, XferMoves
  <2> QED BY <1>2, <2>1, <2>2 DEF TakeSlot
<1>3. CASE WithoutSlot(t)
  <2>1. x.stage = "begun" /\ xclock' = xclock /\ x.kind \in {"presign", "probe"}
    BY <1>3 DEF WithoutSlot, Unslotted
  <2>2. PICK result : Conclude(t, xfer[t], result) /\ result \in XferResults \ {"none"}
    <3>1. CASE \E reply \in StoreAnswers :
                 Conclude(t, xfer[t], IF reply.type = "ok" THEN "ok" ELSE Classify("Read", reply))
      BY <3>1, ClassifyIs DEF XferResults
    <3>2. CASE Conclude(t, xfer[t], "Unavailable")
      BY <3>2 DEF XferResults
    <3>3. CASE \E seconds \in {0, 1}, headers \in BOOLEAN, reply \in StoreAnswers :
                 Conclude(t, xfer[t], PresignGet(seconds, headers, reply))
      <4>1. PICK seconds \in {0, 1}, headers \in BOOLEAN, reply \in StoreAnswers :
              Conclude(t, xfer[t], PresignGet(seconds, headers, reply))
        BY <3>3
      <4> DEFINE last == 7 * 24 * 3600
      <4>2. Classify("Read", reply) \in XferResults \ {"none"}
        BY ClassifyIs
      <4>3. PresignGet(seconds, headers, reply) =
              CASE seconds \notin 1 .. last -> "Rejected"
                [] reply.type # "ok" -> Classify("Read", reply)
                [] headers -> "Rejected"
                [] OTHER -> "ok"
        BY DEF PresignGet
      <4> HIDE DEF last
      <4>4. PresignGet(seconds, headers, reply) \in {"Rejected", "ok", Classify("Read", reply)}
        BY <4>3
      <4> QED BY <4>1, <4>2, <4>4 DEF XferResults
    <3> QED BY <1>3, <3>1, <3>2, <3>3 DEF WithoutSlot
  <2>3. x.kind \notin Mutations \cup {"get"}
    BY <2>1 DEF Mutations
  <2> QED BY <2>1, <2>2, <2>3, EndsUnheard
<1>4. CASE PrepareEmptyStream(t)
  <2>1. x.stage = "ready" /\ xclock' = xclock /\ \E result \in {"Unavailable", "Rejected"} : Conclude(t, xfer[t], result)
    BY <1>4 DEF PrepareEmptyStream
  <2> QED BY <2>1, EndsUnheard DEF XferResults
<1>5. CASE SendRequest(t)
  <2>0. x.stage = "ready" /\ xclock' = xclock
    BY <1>5 DEF SendRequest
  <2>1. CASE Stopped(t)
    <3>1. Conclude(t, xfer[t], "Unavailable")
      BY <1>5, <2>1 DEF SendRequest
    <3> QED BY <2>0, <3>1, EndsUnheard DEF XferResults
  <2>2. CASE ~Stopped(t)
    <3>1. PICK mismatch \in BOOLEAN :
            /\ xfer' = [xfer EXCEPT ![t].stage = "sent", ![t].sent = TRUE, ![t].mismatch = mismatch]
            /\ slots' = slots
      BY <1>5, <2>2 DEF SendRequest
    <3> DEFINE p == [x EXCEPT !.stage = "sent", !.sent = TRUE, !.mismatch = mismatch]
    <3>2. xfer' = [xfer EXCEPT ![t] = p]
      BY <3>1 DEF XferInv
    <3>3. /\ p \in XferRun /\ p.stage = "sent" /\ p.kind = x.kind /\ p.held = x.held /\ p.sent = TRUE
          /\ p.mismatch = mismatch /\ p.applied = x.applied /\ p.reply = x.reply /\ p.result = x.result
          /\ p.records = x.records /\ p.size = x.size /\ p.remaining = x.remaining /\ p.last = x.last
          /\ p.got = x.got /\ p.finished = x.finished
      BY ONLY <1>0, mismatch \in BOOLEAN DEF XferRun, XferStages
    <3> HIDE DEF p
    <3>4. XferSays(p)
      BY <1>0, <2>0, <3>3 DEF XferSays, StageSays, SendingSays, RepliesSay, BodySays
    <3> QED BY <1>0, <2>0, <3>1, <3>2, <3>3, <3>4, XferMoves
  <2> QED BY <2>1, <2>2
<1> QED BY <1>1, <1>2, <1>3, <1>4, <1>5

\* The store applies and answers
LEMMA StoreKeeps ==
    ASSUME XferInv, NEW t \in Transfers, StoreApplies(t) \/ StoreReplies(t)
    PROVE  XferInv'
<1> DEFINE x == xfer[t]
<1>0. /\ x \in XferRun /\ StageSays(x) /\ SendingSays(x) /\ RepliesSay(x) /\ BodySays(x) /\ slots \in Nat
      /\ xclock \in 0 .. TransferEnd /\ XferSays(x)
  BY XferKnown
<1>1. CASE StoreApplies(t)
  <2> DEFINE p == [x EXCEPT !.applied = TRUE]
  <2>1. /\ xfer' = [xfer EXCEPT ![t] = p] /\ slots' = slots /\ xclock' = xclock
        /\ x.sent /\ x.kind \in Mutations /\ ~x.applied /\ ~x.mismatch /\ \A reply \in x.reply : Unsure(reply)
    BY <1>1 DEF StoreApplies, XferInv, Unsure
  <2>2. /\ p \in XferRun /\ p.stage = x.stage /\ p.kind = x.kind /\ p.held = x.held /\ p.sent = x.sent
        /\ p.mismatch = x.mismatch /\ p.applied = TRUE /\ p.reply = x.reply /\ p.result = x.result
        /\ p.records = x.records /\ p.size = x.size /\ p.remaining = x.remaining /\ p.last = x.last
        /\ p.got = x.got /\ p.finished = x.finished
    BY ONLY <1>0 DEF XferRun
  <2> HIDE DEF p, x
  <2>3. StageSays(p) /\ SendingSays(p) /\ BodySays(p)
    BY <1>0, <2>1, <2>2 DEF StageSays, SendingSays, BodySays
  <2>4. RepliesSay(p)
    BY <1>0, <2>1, <2>2 DEF RepliesSay
  <2>5. p.stage = "done" => MutationSays(p, p.result) /\ DownloadSays(p, p.result)
    BY <1>0, <2>1, <2>2 DEF XferSays, MutationSays, DownloadSays, Mutations
  <2>6. XferSays(p)
    BY <1>0, <2>2, <2>3, <2>4, <2>5 DEF XferSays
  <2>7. p.held = xfer[t].held
    BY <2>2 DEF x
  <2> QED BY <1>0, <2>1, <2>2, <2>6, <2>7, XferMoves
<1>2. CASE StoreReplies(t)
  <2>1. PICK reply \in StoreAnswers : MayReply(x, reply) /\ xfer' = [xfer EXCEPT ![t].reply = {reply}]
    BY <1>2 DEF StoreReplies
  <2> DEFINE p == [x EXCEPT !.reply = {reply}]
  <2>2. xfer' = [xfer EXCEPT ![t] = p] /\ slots' = slots /\ xclock' = xclock /\ x.stage = "sent"
    BY <1>2, <2>1 DEF StoreReplies, XferInv
  <2>3. /\ p \in XferRun /\ p.stage = x.stage /\ p.kind = x.kind /\ p.held = x.held /\ p.sent = x.sent
        /\ p.mismatch = x.mismatch /\ p.applied = x.applied /\ p.reply = {reply} /\ p.result = x.result
        /\ p.records = x.records /\ p.size = x.size /\ p.remaining = x.remaining /\ p.last = x.last
        /\ p.got = x.got /\ p.finished = x.finished
    BY ONLY <1>0, reply \in StoreAnswers DEF XferRun
  <2> HIDE DEF p, x
  <2>4. StageSays(p) /\ SendingSays(p) /\ BodySays(p)
    BY <1>0, <2>2, <2>3 DEF StageSays, SendingSays, BodySays
  <2>5. RepliesSay(p)
    <3> SUFFICES ASSUME x.kind \in Mutations PROVE RepliesSay(p)
      BY <2>3 DEF RepliesSay
    <3>1. x.kind \notin Reads
      BY DEF Mutations, Reads
    <3> QED BY <1>0, <2>1, <2>3, <3>1 DEF RepliesSay, MayReply, Unsure, SendingSays
  <2>6. XferSays(p)
    BY <1>0, <2>2, <2>3, <2>4, <2>5 DEF XferSays
  <2>7. p.held = xfer[t].held
    BY <2>3 DEF x
  <2> QED BY <1>0, <2>2, <2>3, <2>6, <2>7, XferMoves
<1> QED BY <1>1, <1>2

\* The answer to a mutation, the end of a wait, and the answer to a read
LEMMA AnswersKeep ==
    ASSUME XferInv, NEW t \in Transfers, MutationAnswered(t) \/ StopAwaiting(t) \/ ReadAnswered(t) \/ DropCaller(t)
    PROVE  XferInv'
<1> DEFINE x == xfer[t]
<1>0. /\ x \in XferRun /\ StageSays(x) /\ SendingSays(x) /\ RepliesSay(x) /\ BodySays(x) /\ slots \in Nat
      /\ xclock \in 0 .. TransferEnd /\ XferSays(x)
  BY XferKnown
<1>1. CASE MutationAnswered(t)
  <2> DEFINE Result(reply) == CASE reply.type = "ok" -> "ok"
                                [] xfer[t].kind = "delete" /\ reply.code = "NoSuchKey" -> "ok"
                                [] xfer[t].mismatch -> "Rejected"
                                [] OTHER -> Classify(CallOf(xfer[t].kind), reply)
  <2>1. PICK reply \in x.reply : Conclude(t, xfer[t], Result(reply))
    BY <1>1 DEF MutationAnswered
  <2>2. x.stage = "sent" /\ x.kind \in Mutations /\ xclock' = xclock /\ reply \in StoreAnswers
    BY <1>0, <1>1 DEF MutationAnswered, XferRun
  <2> DEFINE class == Classify(CallOf(x.kind), reply)
  <2>3. /\ class \in XferResults \ {"none", "ok", "cancelled"}
        /\ Unsure(reply) => class = "OutcomeUnknown"
    <3>1. CallOf(x.kind) \in {"CreateOnly", "Mutation"}
      BY <2>2 DEF CallOf, Mutations, Reads, Unslotted
    <3> QED BY <2>2, <3>1, ClassifyIs
  <2> HIDE DEF class
  <2>4. reply.type = "ok" \/ (x.kind = "delete" /\ reply.code = "NoSuchKey") => Result(reply) = "ok"
    BY <1>0, <2>2 DEF RepliesSay, SendingSays, class
  <2>5. ~(reply.type = "ok" \/ (x.kind = "delete" /\ reply.code = "NoSuchKey")) =>
          Result(reply) = IF x.mismatch THEN "Rejected" ELSE class
    BY DEF class
  <2> HIDE DEF Result, x
  <2>6. Result(reply) \in XferResults
    BY <2>3, <2>4, <2>5 DEF XferResults
  <2>7. MutationSays(x, Result(reply))
    <3>1. CASE reply.type = "ok" \/ (x.kind = "delete" /\ reply.code = "NoSuchKey")
      BY <1>0, <2>1, <2>2, <2>4, <3>1 DEF MutationSays, RepliesSay
    <3>2. CASE ~(reply.type = "ok" \/ (x.kind = "delete" /\ reply.code = "NoSuchKey"))
      BY <1>0, <2>1, <2>2, <2>3, <2>5, <3>2 DEF MutationSays, RepliesSay, SendingSays
    <3> QED BY <3>1, <3>2
  <2>8. DownloadSays(x, Result(reply)) /\ x.records = 0
    BY <1>0, <2>2 DEF DownloadSays, Mutations, StageSays
  <2> QED BY <1>0, <2>1, <2>2, <2>6, <2>7, <2>8, ConcludeKeeps DEF x
<1>2. CASE StopAwaiting(t)
  <2>1. x.stage = "sent" /\ xclock' = xclock
    BY <1>2 DEF StopAwaiting
  <2>2. \/ x.mismatch /\ Conclude(t, xfer[t], "Rejected")
        \/ x.kind \in Mutations /\ Conclude(t, xfer[t], "OutcomeUnknown")
        \/ x.kind \notin Mutations /\ Conclude(t, xfer[t], "Unavailable")
    BY <1>2 DEF StopAwaiting
  <2>3. {"Rejected", "OutcomeUnknown", "Unavailable"} \subseteq XferResults \ {"none"}
    BY DEF XferResults
  <2> QED BY <2>1, <2>2, <2>3, EndsUnheard
<1>3. CASE ReadAnswered(t)
  <2>0. x.stage = "sent" /\ x.kind \in Reads /\ xclock' = xclock /\ x.kind \notin Mutations
    BY <1>3 DEF ReadAnswered, Reads, Mutations
  <2>1. PICK reply \in x.reply :
          \/ reply.type # "ok" /\ Conclude(t, xfer[t], Classify("Read", reply))
          \/ reply.type = "ok" /\ Conclude(t, xfer[t], "Integrity")
          \/ reply.type = "ok" /\ xfer[t].kind = "get" /\ Conclude(t, xfer[t], "TooLarge")
          \/ reply.type = "ok" /\ xfer[t].kind = "head" /\ Conclude(t, xfer[t], "ok")
          \/ /\ reply.type = "ok" /\ xfer[t].kind = "get"
             /\ \E size \in Sizes :
                  xfer' = [xfer EXCEPT ![t].stage = "open", ![t].size = size, ![t].remaining = size]
             /\ UNCHANGED slots
    BY <1>3 DEF ReadAnswered
  <2>2. CASE \E result \in XferResults \ {"none"} :
               Conclude(t, xfer[t], result) /\ (result = "ok" => x.kind = "head")
    BY <2>0, <2>2, EndsUnheard DEF Mutations
  <2>3. CASE /\ x.kind = "get" /\ UNCHANGED slots
             /\ \E size \in Sizes :
                  xfer' = [xfer EXCEPT ![t].stage = "open", ![t].size = size, ![t].remaining = size]
    <3>1. PICK size \in Sizes : xfer' = [xfer EXCEPT ![t].stage = "open", ![t].size = size, ![t].remaining = size]
      BY <2>3
    <3> DEFINE p == [x EXCEPT !.stage = "open", !.size = size, !.remaining = size]
    <3>a. xfer' = [xfer EXCEPT ![t] = p]
      BY <3>1 DEF XferInv
    <3>b. size \in Nat
      BY DEF Sizes
    <3>2. xfer' = [xfer EXCEPT ![t] = p] /\ size \in Nat
      BY <3>a, <3>b
    <3>3. /\ p \in XferRun /\ p.stage = "open" /\ p.kind = x.kind /\ p.held = x.held /\ p.sent = x.sent
          /\ p.mismatch = x.mismatch /\ p.applied = x.applied /\ p.reply = x.reply /\ p.result = x.result
          /\ p.records = x.records /\ p.size = size /\ p.remaining = size /\ p.last = x.last
          /\ p.got = x.got /\ p.finished = x.finished
      BY ONLY <1>0, <3>2 DEF XferRun, XferStages
    <3> HIDE DEF p, x
    <3>4. StageSays(p) /\ SendingSays(p) /\ RepliesSay(p) /\ BodySays(p)
      BY <1>0, <2>0, <2>3, <3>2, <3>3 DEF StageSays, SendingSays, RepliesSay, BodySays
    <3>5. XferSays(p)
      BY <1>0, <2>0, <3>3, <3>4 DEF XferSays
    <3>6. p.held = xfer[t].held
      BY <3>3 DEF x
    <3> QED BY <1>0, <2>0, <2>3, <3>2, <3>3, <3>5, <3>6, XferMoves
  <2>4. {"Integrity", "TooLarge", "ok"} \subseteq XferResults \ {"none"}
    BY DEF XferResults
  <2>5. Classify("Read", reply) \in XferResults \ {"none", "ok"}
    BY <1>0, ClassifyIs DEF XferRun
  <2> QED BY <2>1, <2>2, <2>3, <2>4, <2>5
<1>4. CASE DropCaller(t)
  <2>1. x.stage \in {"begun", "ready", "sent"} /\ xclock' = xclock /\ Conclude(t, xfer[t], "cancelled")
    BY <1>4 DEF DropCaller
  <2>2. "cancelled" \in XferResults \ {"none"}
    BY DEF XferResults
  <2> QED BY <2>1, <2>2, EndsUnheard
<1> QED BY <1>1, <1>2, <1>3, <1>4

\* A body ends before it is whole.
LEMMA BodyBreaks ==
    ASSUME XferInv, NEW t \in Transfers, xfer[t].stage = "open", NEW items \in Nat,
           NEW result \in {"Integrity", "Unavailable", "cancelled"},
           Conclude(t, [xfer[t] EXCEPT !.items = items], result), xclock' \in 0 .. TransferEnd
    PROVE  XferInv'
<1> DEFINE x == xfer[t]
           o == [x EXCEPT !.items = items]
<1>0. x \in XferRun /\ StageSays(x) /\ SendingSays(x) /\ RepliesSay(x) /\ BodySays(x)
  BY XferKnown
<1>1. /\ o \in XferRun /\ o.stage = x.stage /\ o.kind = x.kind /\ o.held = x.held /\ o.sent = x.sent
      /\ o.mismatch = x.mismatch /\ o.applied = x.applied /\ o.reply = x.reply
      /\ o.records = x.records /\ o.size = x.size /\ o.got = x.got /\ o.finished = x.finished
  BY ONLY <1>0, items \in Nat DEF XferRun
<1>2. Conclude(t, o, result) /\ result \in XferResults
  BY DEF XferResults
<1> HIDE DEF o, x
<1>3. x.stage = "open" /\ o.held = xfer[t].held
  BY <1>1 DEF x
<1>4. SendingSays(o) /\ RepliesSay(o)
  BY <1>0, <1>1 DEF SendingSays, RepliesSay
<1>5. MutationSays(o, result) /\ o.records = 0
  BY <1>0, <1>1, <1>3 DEF MutationSays, BodySays, Mutations, StageSays
<1>6. DownloadSays(o, result)
  <2>1. x.got \in Nat /\ x.size \in Nat /\ x.remaining \in Nat /\ x.last \in Nat
    BY <1>0 DEF XferRun
  <2> QED BY <1>0, <1>1, <1>3, <2>1 DEF DownloadSays, BodySays
<1> QED BY <1>1, <1>2, <1>3, <1>4, <1>5, <1>6, ConcludeKeeps

\* A body is polled, stopped, left to its timer or dropped.
LEMMA BodyKeeps ==
    ASSUME XferInv, NEW t \in Transfers,
           PollBody(t) \/ PollCrossesCutoff(t) \/ StoppedRead(t) \/ TimerExits(t) \/ DropDownload(t)
    PROVE  XferInv'
<1> DEFINE x == xfer[t]
<1>0. /\ x \in XferRun /\ StageSays(x) /\ SendingSays(x) /\ RepliesSay(x) /\ BodySays(x) /\ slots \in Nat
      /\ xclock \in 0 .. TransferEnd /\ XferSays(x) /\ x.stage = "open"
  BY XferKnown DEF PollBody, PollCrossesCutoff, StoppedRead, TimerExits, DropDownload
<1>n. /\ x.items \in Nat /\ x.got \in Nat /\ x.size \in Nat /\ x.remaining \in Nat /\ x.last \in Nat
      /\ x.cutoff \in Nat /\ TransferEnd \in Nat
  BY <1>0, TransferAssumption DEF XferRun
<1>a. ASSUME NEW result \in {"Integrity", "Unavailable", "cancelled"}, TerminateDownload(t, xfer[t], result),
             xclock' \in 0 .. TransferEnd
      PROVE  XferInv'
  <2>1. x = [x EXCEPT !.items = x.items]
    BY ONLY <1>0 DEF XferRun
  <2>2. Conclude(t, xfer[t], result)
    BY <1>0, <1>a DEF TerminateDownload
  <2>3. Conclude(t, [xfer[t] EXCEPT !.items = x.items], result)
    BY <2>1, <2>2
  <2> QED BY <1>0, <1>n, <1>a, <2>3, BodyBreaks
<1>1. CASE PollBody(t)
  <2> DEFINE items == x.items + 1
             o == [xfer[t] EXCEPT !.items = items]
             e == [o EXCEPT !.got = o.got + o.last, !.last = 0, !.finished = TRUE]
  <2>0. xclock' = xclock /\ items \in Nat
    BY <1>n, <1>1 DEF PollBody
  <2>1. \/ \E length \in {1, 2} :
             IF length > o.remaining THEN TerminateDownload(t, o, "Integrity")
             ELSE xfer' = [xfer EXCEPT ![t] = ChunkRead(o, length)] /\ UNCHANGED slots
        \/ TerminateDownload(t, o, "Integrity")
        \/ TerminateDownload(t, o, "Unavailable")
        \/ o.remaining = 0 /\ TerminateDownload(t, e, "ok")
    BY <1>1 DEF PollBody
  <2> HIDE DEF items
  <2>2. /\ o \in XferRun /\ o.stage = x.stage /\ o.kind = x.kind /\ o.held = x.held /\ o.sent = x.sent
        /\ o.mismatch = x.mismatch /\ o.applied = x.applied /\ o.reply = x.reply /\ o.result = x.result
        /\ o.records = x.records /\ o.size = x.size /\ o.remaining = x.remaining /\ o.last = x.last
        /\ o.got = x.got /\ o.finished = x.finished
    BY ONLY <1>0, <2>0 DEF XferRun
  <2>3. CASE \E result \in {"Integrity", "Unavailable"} : TerminateDownload(t, o, result)
    <3>1. PICK result \in {"Integrity", "Unavailable"} : Conclude(t, o, result)
      BY <1>0, <2>2, <2>3 DEF TerminateDownload
    <3> QED BY <1>0, <2>0, <3>1, BodyBreaks
  <2>4. ASSUME NEW length \in {1, 2}, length <= o.remaining,
               xfer' = [xfer EXCEPT ![t] = ChunkRead(o, length)], UNCHANGED slots
        PROVE  XferInv'
    <3> HIDE DEF o, x
    <3>1. /\ length \in Nat /\ o.remaining \in Nat /\ o.remaining - length \in Nat /\ o.got + length \in Nat
          /\ o.last \in Nat /\ o.got \in Nat
      BY <1>n, <2>2, <2>4
    <3> DEFINE p == ChunkRead(o, length)
    <3>2. /\ p \in XferRun /\ p.stage = o.stage /\ p.kind = o.kind /\ p.held = o.held /\ p.sent = o.sent
          /\ p.mismatch = o.mismatch /\ p.applied = o.applied /\ p.reply = o.reply /\ p.result = o.result
          /\ p.records = o.records /\ p.size = o.size /\ p.finished = o.finished
          /\ \/ o.remaining = length /\ p.remaining = 0 /\ p.last = length /\ p.got = o.got
             \/ /\ o.remaining # length /\ p.remaining = o.remaining - length /\ p.last = o.last
                /\ p.got = o.got + length
      <4>1. CASE o.remaining = length
        <5>1. p = [o EXCEPT !.remaining = 0, !.last = length]
          BY <4>1 DEF ChunkRead
        <5> HIDE DEF p
        <5> QED BY ONLY <2>2, <3>1, <4>1, <5>1 DEF XferRun
      <4>2. CASE o.remaining # length
        <5> DEFINE left == o.remaining - length
                   given == o.got + length
        <5>1. p = [o EXCEPT !.remaining = left, !.got = given] /\ left \in Nat /\ given \in Nat
          BY <2>2, <3>1, <4>2 DEF ChunkRead, XferRun
        <5> HIDE DEF p, left, given
        <5>2. /\ p \in XferRun /\ p.stage = o.stage /\ p.kind = o.kind /\ p.held = o.held /\ p.sent = o.sent
              /\ p.mismatch = o.mismatch /\ p.applied = o.applied /\ p.reply = o.reply /\ p.result = o.result
              /\ p.records = o.records /\ p.size = o.size /\ p.finished = o.finished
              /\ p.remaining = left /\ p.last = o.last /\ p.got = given
          BY ONLY <2>2, <5>1 DEF XferRun
        <5> QED BY <4>2, <5>2 DEF left, given
      <4> QED BY <4>1, <4>2
    <3> HIDE DEF p
    <3>3. StageSays(p) /\ SendingSays(p) /\ RepliesSay(p)
      BY <1>0, <2>2, <3>2 DEF StageSays, SendingSays, RepliesSay
    <3>4. BodySays(p)
      <4>1. /\ p.stage = "open" /\ p.kind = "get" /\ ~p.finished /\ o.got + o.remaining + o.last = o.size
            /\ o.remaining > 0 => o.last = 0
        BY <1>0, <2>2, <3>2 DEF BodySays
      <4>2. length > 0
        BY <2>4
      <4>3. /\ p.got + p.remaining + p.last = p.size
            /\ p.remaining > 0 => p.last = 0
            /\ p.size > 0 => p.remaining + p.last > 0
        <5>1. CASE o.remaining = length
          BY ONLY <3>1, <3>2, <4>1, <4>2, <5>1
        <5>2. CASE o.remaining # length
          BY ONLY <2>4, <3>1, <3>2, <4>1, <4>2, <5>2
        <5> QED BY <5>1, <5>2
      <4> QED BY <4>1, <4>3 DEF BodySays
    <3>5. XferSays(p)
      BY <1>0, <2>2, <3>2, <3>3, <3>4 DEF XferSays
    <3>6. p.held = xfer[t].held /\ xfer' = [xfer EXCEPT ![t] = p]
      BY <2>2, <2>4, <3>2 DEF x, p
    <3> QED BY <1>0, <2>0, <2>4, <3>2, <3>5, <3>6, XferMoves
  <2>5. CASE o.remaining = 0 /\ TerminateDownload(t, e, "ok")
    <3> DEFINE given == o.got + o.last
    <3> HIDE DEF o, x
    <3>1. given \in Nat
      BY <1>n, <2>2
    <3> HIDE DEF given
    <3>2. /\ e \in XferRun /\ e.stage = o.stage /\ e.kind = o.kind /\ e.held = o.held /\ e.sent = o.sent
          /\ e.mismatch = o.mismatch /\ e.applied = o.applied /\ e.reply = o.reply
          /\ e.records = o.records /\ e.size = o.size /\ e.got = given /\ e.finished = TRUE
      <4>1. e = [o EXCEPT !.got = given, !.last = 0, !.finished = TRUE]
        BY DEF given
      <4> HIDE DEF e
      <4> QED BY ONLY <2>2, <3>1, <4>1 DEF XferRun
    <3> HIDE DEF e
    <3>3. Conclude(t, e, "ok") /\ "ok" \in XferResults /\ e.held = xfer[t].held
      BY <1>0, <2>2, <2>5, <3>2 DEF TerminateDownload, XferResults, x
    <3>4. SendingSays(e) /\ RepliesSay(e) /\ e.records = 0 /\ MutationSays(e, "ok")
      BY <1>0, <2>2, <3>2 DEF SendingSays, RepliesSay, StageSays, MutationSays, BodySays, Mutations
    <3>5. DownloadSays(e, "ok")
      BY <1>0, <1>n, <2>2, <2>5, <3>2 DEF DownloadSays, BodySays, given
    <3> QED BY <1>0, <2>0, <3>2, <3>3, <3>4, <3>5, ConcludeKeeps
  <2>6. \A length \in {1, 2} : length > o.remaining \/ length <= o.remaining
    BY <1>n, <2>2
  <2> HIDE DEF o, e
  <2> QED BY <2>1, <2>3, <2>4, <2>5, <2>6
<1>2. CASE PollCrossesCutoff(t)
  <2>1. xclock' \in 0 .. TransferEnd
    BY <1>n, <1>2 DEF PollCrossesCutoff
  <2> QED BY <1>2, <1>a, <2>1 DEF PollCrossesCutoff
<1>3. CASE StoppedRead(t)
  BY <1>0, <1>3, <1>a DEF StoppedRead
<1>4. CASE TimerExits(t)
  BY <1>0, <1>4, <1>a DEF TimerExits
<1>5. CASE DropDownload(t)
  BY <1>0, <1>5, <1>a DEF DropDownload
<1> QED BY <1>1, <1>2, <1>3, <1>4, <1>5

\* Every step keeps the claims.
LEMMA XferKeeps ==
    ASSUME XferInv, [XferNext]_xferVars
    PROVE  XferInv'
<1>1. CASE UNCHANGED xfer /\ UNCHANGED slots /\ xclock' \in 0 .. TransferEnd
  BY <1>1 DEF XferInv, HoldSlots
<1>2. CASE XferTick
  <2>1. xclock' \in 0 .. TransferEnd
    BY <1>2, TransferAssumption DEF XferTick, XferInv
  <2> QED BY <1>1, <1>2, <2>1 DEF XferTick
<1>3. ASSUME NEW t \in Transfers, CancelParent(t) PROVE XferInv'
  <2> DEFINE x == xfer[t]
             p == [x EXCEPT !.cancelled = TRUE]
  <2>1. x \in XferRun /\ XferSays(x) /\ slots \in Nat /\ xclock \in 0 .. TransferEnd
    BY XferKnown
  <2>2. xfer' = [xfer EXCEPT ![t] = p] /\ slots' = slots /\ xclock' = xclock
    BY <1>3 DEF CancelParent, XferInv
  <2>3. /\ p \in XferRun /\ p.stage = x.stage /\ p.kind = x.kind /\ p.held = x.held /\ p.sent = x.sent
        /\ p.mismatch = x.mismatch /\ p.applied = x.applied /\ p.reply = x.reply /\ p.result = x.result
        /\ p.records = x.records /\ p.size = x.size /\ p.remaining = x.remaining /\ p.last = x.last
        /\ p.got = x.got /\ p.finished = x.finished
    BY ONLY <2>1 DEF XferRun
  <2> HIDE DEF p, x
  <2>4. XferSays(p)
    BY <2>1, <2>3 DEF XferSays, StageSays, SendingSays, RepliesSay, BodySays, MutationSays, DownloadSays
  <2>5. p.held = xfer[t].held
    BY <2>3 DEF x
  <2> QED BY <2>1, <2>2, <2>3, <2>4, <2>5, XferMoves
<1>4. CASE UNCHANGED xferVars
  BY <1>1, <1>4 DEF xferVars, XferInv
<1> QED BY <1>2, <1>3, <1>4, BeforeKeeps, StoreKeeps, AnswersKeep, BodyKeeps DEF XferNext

\* Whatever the store applies late, whichever answers are lost, and however cutoffs, cancellations
\* and drops race with them: a mutation's result is never contradicted by what the store did, a
\* reader has all the bytes exactly when its download ended well, and permits and records are kept,
\* for every number of operations and permits (infra-object-storage/src/lib.rs, error.rs, download.rs).
THEOREM TransfersSafe == XferSpec => []TransfersTold
<1>1. ASSUME XferInit PROVE XferInv
  <2>1. /\ NewTransfer \in XferRun /\ XferSays(NewTransfer) /\ NewTransfer.held = FALSE
        /\ TransferSlots \in Nat /\ TransferEnd \in Nat
    BY TransferAssumption DEF NewTransfer, XferRun, XferStages, XferResults, XferSays, StageSays, SendingSays,
                              RepliesSay, BodySays, Mutations
  <2>2. HoldSlots = {}
    BY <1>1, <2>1 DEF XferInit, HoldSlots
  <2>3. xfer \in [Transfers -> XferRun] /\ \A t \in Transfers : xfer[t] = NewTransfer
    BY <1>1, <2>1 DEF XferInit
  <2> QED BY <1>1, <2>1, <2>2, <2>3, FS_EmptySet DEF XferInit, XferInv
<1>2. ASSUME XferInv PROVE TransfersTold
  <2>1. Cardinality(HoldSlots) \in Nat /\ slots \in Nat /\ slots + Cardinality(HoldSlots) = TransferSlots
        /\ TransferSlots \in Nat /\ xclock \in 0 .. TransferEnd
    BY <1>2, FS_CardinalityType, TransferAssumption DEF XferInv
  <2>2. slots \in 0 .. TransferSlots
    BY <2>1
  <2>3. ASSUME NEW t \in Transfers
        PROVE  LET o == xfer[t] IN
               /\ o.stage \in XferStages /\ o.records = (IF o.stage = "done" THEN 1 ELSE 0)
               /\ o.held <=> o.stage \in {"ready", "sent", "open"}
               /\ o.stage = "open" => o.got + SizeHint(o) = o.size
               /\ o.kind = "get" /\ o.size > 0 /\ o.got = o.size => o.finished
               /\ o.kind = "get" /\ o.result = "ok" => o.got = o.size
               /\ o.stage = "done" /\ o.kind \in Mutations =>
                    /\ o.result = "ok" => o.applied
                    /\ o.applied => o.result \in {"ok", "OutcomeUnknown", "cancelled"}
    <3> DEFINE o == xfer[t]
    <3>1. o \in XferRun /\ XferSays(o)
      BY <1>2, XferKnown
    <3> HIDE DEF o
    <3>2. o.got \in Nat /\ o.size \in Nat /\ o.remaining \in Nat /\ o.last \in Nat /\ o.stage \in XferStages
      BY <3>1 DEF XferRun
    <3>3. StageSays(o) /\ BodySays(o) /\ (o.stage # "done" => o.result = "none")
          /\ (o.stage = "done" => MutationSays(o, o.result) /\ DownloadSays(o, o.result))
      BY <3>1 DEF XferSays
    <3>4. o.stage = "open" => o.got + SizeHint(o) = o.size
      BY <3>2, <3>3 DEF BodySays, SizeHint
    <3>5. o.kind = "get" /\ o.size > 0 /\ o.got = o.size => o.finished
      BY <3>2, <3>3 DEF BodySays, DownloadSays, XferStages
    <3>6. o.kind = "get" /\ o.result = "ok" => o.got = o.size
      BY <3>3 DEF DownloadSays
    <3>7. o.stage = "done" /\ o.kind \in Mutations =>
            /\ o.result = "ok" => o.applied
            /\ o.applied => o.result \in {"ok", "OutcomeUnknown", "cancelled"}
      BY <3>3 DEF MutationSays
    <3> QED BY <3>2, <3>3, <3>4, <3>5, <3>6, <3>7 DEF StageSays, o
  <2>4. XferTypeOK
    BY <2>1, <2>2, <2>3 DEF XferTypeOK, XferStages
  <2>5. DownloadWhole
    BY <2>1, <2>3, <2>4 DEF DownloadWhole, HoldSlots
  <2>6. MutationTold
    BY <2>3 DEF MutationTold
  <2> QED BY <2>5, <2>6 DEF TransfersTold
<1> QED BY <1>1, <1>2, XferKeeps, PTL DEF XferSpec

-----------------------------------------------------------------------------
(* Queues of waiters *)

Queue(q, S) == q \in Seq(S) /\ \A i, j \in DOMAIN q : q[i] = q[j] => i = j
Members(q) == {q[i] : i \in DOMAIN q}

\* Who leaves is gone, and everybody else keeps a place.
LEMMA LeaveIs ==
    ASSUME NEW S, NEW q, Queue(q, S), NEW r
    PROVE  /\ Queue(Leave(q, r), S)
           /\ Members(Leave(q, r)) = Members(q) \ {r}
           /\ r \notin Members(q) => Leave(q, r) = q
<1> DEFINE places == {i \in DOMAIN q : q[i] = r}
           k == CHOOSE i \in places : TRUE
           left == [i \in 1 .. Len(q) - 1 |-> q[IF i < k THEN i ELSE i + 1]]
<1>0. q \in Seq(S) /\ Len(q) \in Nat /\ DOMAIN q = 1 .. Len(q)
  BY DEF Queue
<1>1. CASE places = {}
  <2>1. Leave(q, r) = q
    BY <1>1 DEF Leave
  <2>2. r \notin Members(q)
    BY <1>1 DEF Members
  <2> QED BY <2>1, <2>2
<1>2. CASE places # {}
  <2>1. k \in DOMAIN q /\ q[k] = r
    BY <1>2
  <2>2. Leave(q, r) = left
    BY <1>2 DEF Leave
  <2> HIDE DEF k
  <2>3. \A i \in DOMAIN q : q[i] = r => i = k
    BY <2>1 DEF Queue
  <2>4. k \in Nat /\ k >= 1 /\ k <= Len(q) /\ Len(q) - 1 \in Nat
    BY <1>0, <2>1
  <2>5. \A i \in 1 .. Len(q) - 1 : (IF i < k THEN i ELSE i + 1) \in DOMAIN q \ {k}
    BY <1>0, <2>4
  <2>6. left \in Seq(S) /\ DOMAIN left = 1 .. Len(q) - 1
    <3>1. left \in [1 .. Len(q) - 1 -> S]
      BY <1>0, <2>5, ElementOfSeq
    <3> QED BY <2>4, <3>1, SeqDef, ZenonT(40)
  <2>7. ASSUME NEW i \in DOMAIN left, NEW j \in DOMAIN left, left[i] = left[j] PROVE i = j
    <3>1. q[IF i < k THEN i ELSE i + 1] = q[IF j < k THEN j ELSE j + 1]
      BY <2>6, <2>7
    <3>2. (IF i < k THEN i ELSE i + 1) = (IF j < k THEN j ELSE j + 1)
      BY <2>5, <2>6, <3>1 DEF Queue
    <3>3. i \in Nat /\ j \in Nat
      BY <2>6
    <3> QED BY <2>4, <3>2, <3>3
  <2>8. Members(left) = Members(q) \ {r}
    <3>1. ASSUME NEW i \in DOMAIN left PROVE left[i] \in Members(q) \ {r}
      <4>1. left[i] = q[IF i < k THEN i ELSE i + 1]
        BY <2>6
      <4> QED BY <2>3, <2>5, <2>6, <4>1 DEF Members
    <3>2. ASSUME NEW m \in DOMAIN q, q[m] # r PROVE q[m] \in Members(left)
      <4>1. m \in Nat /\ m # k /\ m >= 1 /\ m <= Len(q)
        BY <1>0, <2>1, <3>2
      <4>2. CASE m < k
        <5>1. m \in DOMAIN left /\ left[m] = q[m]
          BY <2>4, <2>6, <4>1, <4>2
        <5> QED BY <5>1 DEF Members
      <4>3. CASE m > k
        <5>1. m - 1 \in DOMAIN left /\ ~(m - 1 < k) /\ m - 1 + 1 = m
          BY <2>4, <2>6, <4>1, <4>3
        <5>2. left[m - 1] = q[m]
          BY <2>6, <5>1
        <5> QED BY <5>1, <5>2 DEF Members
      <4> QED BY <2>4, <4>1, <4>2, <4>3
    <3> QED BY <3>1, <3>2 DEF Members
  <2>9. r \in Members(q)
    BY <2>1 DEF Members
  <2> HIDE DEF left
  <2> QED BY <2>2, <2>6, <2>7, <2>8, <2>9 DEF Queue
<1> QED BY <1>1, <1>2

\* The first in line leaves, and the others keep their places.
LEMMA FirstOut ==
    ASSUME NEW S, NEW q, Queue(q, S), q # <<>>
    PROVE  Head(q) \in Members(q) /\ Queue(Tail(q), S) /\ Members(Tail(q)) = Members(q) \ {Head(q)}
<1>1. /\ q \in Seq(S) /\ Len(q) \in Nat /\ DOMAIN q = 1 .. Len(q) /\ Len(q) > 0 /\ Head(q) = q[1]
  BY EmptySeq DEF Queue
<1>2. /\ Tail(q) \in Seq(S) /\ Len(Tail(q)) = Len(q) - 1 /\ DOMAIN Tail(q) = 1 .. Len(q) - 1
      /\ \A i \in 1 .. Len(q) - 1 : Tail(q)[i] = q[i + 1]
  BY <1>1, HeadTailProperties
<1>3. \A i \in 1 .. Len(q) - 1 : i + 1 \in DOMAIN q /\ i + 1 # 1
  BY <1>1
<1>4. Queue(Tail(q), S)
  <2>1. ASSUME NEW i \in DOMAIN Tail(q), NEW j \in DOMAIN Tail(q), Tail(q)[i] = Tail(q)[j] PROVE i = j
    <3>1. q[i + 1] = q[j + 1] /\ i \in Nat /\ j \in Nat
      BY <1>2, <2>1
    <3>2. i + 1 = j + 1
      BY <1>2, <1>3, <3>1 DEF Queue
    <3> QED BY <3>1, <3>2
  <2> QED BY <1>2, <2>1 DEF Queue
<1>5. 1 \in DOMAIN q
  BY <1>1
<1>6. ASSUME NEW i \in DOMAIN Tail(q) PROVE Tail(q)[i] \in Members(q) \ {Head(q)}
  <2>1. Tail(q)[i] = q[i + 1] /\ i + 1 \in DOMAIN q /\ i + 1 # 1
    BY <1>2, <1>3
  <2> QED BY <1>1, <1>5, <2>1 DEF Queue, Members
<1>7. ASSUME NEW m \in DOMAIN q, q[m] # Head(q) PROVE q[m] \in Members(Tail(q))
  <2>1. m - 1 \in DOMAIN Tail(q) /\ m - 1 + 1 = m
    BY <1>1, <1>2, <1>7
  <2>2. Tail(q)[m - 1] = q[m]
    BY <1>2, <2>1
  <2> QED BY <2>1, <2>2 DEF Members
<1>8. Head(q) \in Members(q)
  BY <1>1, <1>5 DEF Members
<1> QED BY <1>4, <1>6, <1>7, <1>8 DEF Members

\* Who joins is the last.
LEMMA JoinIs ==
    ASSUME NEW S, NEW q, Queue(q, S), NEW r \in S, r \notin Members(q)
    PROVE  /\ Queue(Append(q, r), S) /\ Members(Append(q, r)) = Members(q) \cup {r}
           /\ Append(q, r) # <<>>
<1>1. /\ q \in Seq(S) /\ Len(q) \in Nat /\ DOMAIN q = 1 .. Len(q)
      /\ Append(q, r) \in Seq(S) /\ DOMAIN Append(q, r) = 1 .. Len(q) + 1
      /\ \A i \in 1 .. Len(q) : Append(q, r)[i] = q[i]
      /\ Append(q, r)[Len(q) + 1] = r /\ Append(q, r) # <<>>
  BY DEF Queue
<1>2. \A i \in 1 .. Len(q) : q[i] # r
  BY <1>1 DEF Members
<1>3. ASSUME NEW i \in DOMAIN Append(q, r), NEW j \in DOMAIN Append(q, r), Append(q, r)[i] = Append(q, r)[j]
      PROVE  i = j
  <2>1. (i \in 1 .. Len(q) \/ i = Len(q) + 1) /\ (j \in 1 .. Len(q) \/ j = Len(q) + 1)
    BY <1>1
  <2> QED BY <1>1, <1>2, <1>3, <2>1 DEF Queue
<1>4. Members(Append(q, r)) = Members(q) \cup {r}
  <2>1. ASSUME NEW i \in DOMAIN Append(q, r) PROVE Append(q, r)[i] \in Members(q) \cup {r}
    <3>1. i \in 1 .. Len(q) \/ i = Len(q) + 1
      BY <1>1
    <3> QED BY <1>1, <3>1 DEF Members
  <2>2. ASSUME NEW i \in DOMAIN q PROVE q[i] \in Members(Append(q, r))
    <3>1. i \in DOMAIN Append(q, r) /\ Append(q, r)[i] = q[i]
      BY <1>1
    <3> QED BY <3>1 DEF Members
  <2>3. r \in Members(Append(q, r))
    <3>1. Len(q) + 1 \in DOMAIN Append(q, r)
      BY <1>1
    <3> QED BY <1>1, <3>1 DEF Members
  <2> QED BY <2>1, <2>2, <2>3 DEF Members
<1> QED BY <1>1, <1>3, <1>4 DEF Queue

\* An empty queue
LEMMA NoQueue ==
    ASSUME NEW S
    PROVE  Queue(<<>>, S) /\ Members(<<>>) = {}
BY DEF Queue, Members

LEMMA QueueMembers ==
    ASSUME NEW S, NEW q, Queue(q, S)
    PROVE  (q = <<>> <=> Members(q) = {}) /\ Members(q) \subseteq S
<1>1. q \in Seq(S) /\ Len(q) \in Nat /\ DOMAIN q = 1 .. Len(q)
  BY DEF Queue
<1>2. CASE q # <<>>
  <2>1. Head(q) \in Members(q)
    BY <1>2, FirstOut
  <2>2. \A i \in DOMAIN q : q[i] \in S
    BY <1>1, ElementOfSeq
  <2> QED BY <1>2, <2>1, <2>2 DEF Members
<1>3. CASE q = <<>>
  BY <1>3, NoQueue
<1> QED BY <1>2, <1>3

\* One member is exchanged for another.
LEMMA Exchange ==
    ASSUME NEW S, IsFiniteSet(S), NEW a \in S, NEW b, b \notin S
    PROVE  IsFiniteSet((S \ {a}) \cup {b}) /\ Cardinality((S \ {a}) \cup {b}) = Cardinality(S)
<1>1. IsFiniteSet(S \ {a}) /\ Cardinality(S \ {a}) = Cardinality(S) - 1 /\ Cardinality(S) \in Nat
  BY FS_RemoveElement, FS_CardinalityType
<1>2. b \notin S \ {a}
  OBVIOUS
<1>3. IsFiniteSet((S \ {a}) \cup {b}) /\ Cardinality((S \ {a}) \cup {b}) = Cardinality(S \ {a}) + 1
  BY <1>1, <1>2, FS_AddElement
<1> QED BY <1>1, <1>3

-----------------------------------------------------------------------------
(* HTTP: a request is served within its means *)

EdgeSpec == EdgeInit /\ [][EdgeNext]_edgeVars

\* What the outcome counter tells apart
Outcomes == {"abandoned", "executed", "replayed", "not_stored", "in_progress", "unavailable", "invalid_key"}

\* A request as it stands
EdgeReq == [at: Opened \cup {"out", "waiting", "admitted", "body", "done"}, route: Routes \cup {"none"},
            arrived: Nat, origin: Nat, holds: BOOLEAN, status: Nat, headAt: Nat, begun: Nat, told: Seq(Outcomes)]

\* A permit is held from admission to the head, by everything but probes.
PermitSays(x) ==
    /\ x.at \in {"out", "done"} <=> x.route = "none"
    /\ x.holds <=> x.at \in Opened \cup {"admitted"} /\ x.route # "probe"
    /\ x.at = "waiting" => x.route # "probe"

\* The budget runs from the arrival, and what was done within it says so.
BudgetSays(x) ==
    /\ x.at \in Opened /\ x.route # "probe" => x.origin = x.arrived
    /\ x.at \in {"out", "waiting", "admitted"} => x.origin = 0
    /\ x.route # "none" => x.arrived # 0
    /\ x.status # 0 => x.at = "body"
    /\ x.route \notin {"none", "probe"} =>
         /\ x.status # 0 => (x.headAt < x.arrived + Budget <=> x.origin # 0 /\ x.status # 504)
         /\ x.begun # 0 => x.begun + AttemptReserve < x.arrived + Budget

\* One outcome is counted, and only when the request is over.
OutcomeSays(x) ==
    /\ Len(x.told) <= 1
    /\ x.begun # 0 => x.at \in {"attempt", "pending", "body", "done"}
    /\ x.at \in {"body", "done"} /\ x.begun # 0 => Len(x.told) = 1
    /\ x.told # <<>> => x.at \in {"body", "done"}

ReqSays(x) == PermitSays(x) /\ BudgetSays(x) /\ OutcomeSays(x)

Holders == {r \in Requests : req[r].holds}
InChain == {r \in Requests : req[r].at \notin {"out", "done"}}
Waiters == {r \in Requests : req[r].at = "waiting"}

EdgeInv ==
    /\ req \in [Requests -> EdgeReq] /\ \A r \in Requests : ReqSays(req[r])
    /\ hclock \in Nat \ {0} /\ free \in Nat /\ active \in Nat
    /\ IsFiniteSet(Holders) /\ free + Cardinality(Holders) = InFlight
    /\ IsFiniteSet(InChain) /\ active = Cardinality(InChain)
    /\ Queue(line, Requests) /\ Members(line) = Waiters
    /\ line # <<>> => free = 0

\* What is known of a request
LEMMA ReqKnown ==
    ASSUME EdgeInv, NEW r \in Requests
    PROVE  /\ req[r] \in EdgeReq /\ PermitSays(req[r]) /\ BudgetSays(req[r]) /\ OutcomeSays(req[r])
           /\ ReqSays(req[r]) /\ hclock \in Nat /\ hclock # 0
           /\ Budget \in Nat /\ AttemptReserve \in Nat /\ InFlight \in Nat
           /\ r \in Members(line) <=> req[r].at = "waiting"
  BY HttpEdgeAssumption DEF EdgeInv, ReqSays, Waiters

\* A request moves and neither takes nor returns a permit, nor enters or leaves the line or the chain.
LEMMA ReqMoves ==
    ASSUME EdgeInv, NEW r \in Requests, NEW x \in EdgeReq, req' = [req EXCEPT ![r] = x], ReqSays(x),
           x.holds = req[r].holds, x.at = "waiting" <=> req[r].at = "waiting",
           x.at \in {"out", "done"} <=> req[r].at \in {"out", "done"}, UNCHANGED <<line, free, active, hclock>>
    PROVE  EdgeInv'
<1>1. req' \in [Requests -> EdgeReq] /\ req'[r] = x /\ \A q \in Requests : q # r => req'[q] = req[q]
  BY DEF EdgeInv
<1>2. Holders' = Holders /\ InChain' = InChain /\ Waiters' = Waiters
  BY <1>1 DEF Holders, InChain, Waiters
<1>3. \A q \in Requests : ReqSays(req'[q])
  BY <1>1 DEF EdgeInv
<1> QED BY <1>1, <1>2, <1>3 DEF EdgeInv

\* A request's head is out or its chain is dropped: its permit goes to the first in line or is free.
LEMMA PutAway ==
    ASSUME EdgeInv, NEW r \in Requests, NEW after \in EdgeReq, ReqSays(after), after.at \in {"body", "done"},
           req[r].at \notin {"out", "done"}, NEW freed, freed = Release(req[r].holds, Leave(line, r)),
           HandOn(r, after, freed), line' = freed.line, free' = freed.free, hclock' = hclock,
           active' = IF after.at = "done" THEN active - 1 ELSE active
    PROVE  EdgeInv'
<1> DEFINE W == Leave(line, r)
<1>0. /\ req \in [Requests -> EdgeReq] /\ free \in Nat /\ active \in Nat /\ hclock \in Nat \ {0}
      /\ IsFiniteSet(Holders) /\ free + Cardinality(Holders) = InFlight /\ Cardinality(Holders) \in Nat
      /\ IsFiniteSet(InChain) /\ active = Cardinality(InChain)
      /\ Queue(line, Requests) /\ Members(line) = Waiters /\ \A q \in Requests : ReqSays(req[q])
      /\ line # <<>> => free = 0
  BY FS_CardinalityType DEF EdgeInv
<1>1. /\ Queue(W, Requests) /\ Members(W) = Waiters \ {r}
      /\ W # <<>> => line # <<>>
  <2>1. Queue(W, Requests) /\ Members(W) = Waiters \ {r}
    BY <1>0, LeaveIs
  <2> QED BY <1>0, <2>1, QueueMembers
<1>2. ~after.holds
  BY DEF ReqSays, PermitSays, Opened
<1>3. req[r].holds \in BOOLEAN
  BY <1>0 DEF EdgeReq
<1>4. r \in InChain
  BY DEF InChain
<1>c. ASSUME InChain' = IF after.at = "done" THEN InChain \ {r} ELSE InChain
      PROVE  IsFiniteSet(InChain') /\ active' = Cardinality(InChain') /\ active' \in Nat
  <2>1. /\ IsFiniteSet(InChain \ {r}) /\ Cardinality(InChain \ {r}) = Cardinality(InChain) - 1
        /\ Cardinality(InChain \ {r}) \in Nat
    BY <1>0, <1>4, FS_RemoveElement, FS_CardinalityType
  <2> QED BY <1>0, <1>c, <2>1
<1>5. CASE ~req[r].holds \/ W = <<>>
  <2>1. freed = [line |-> W, free |-> IF req[r].holds THEN free + 1 ELSE free, next |-> {}]
    BY <1>3, <1>5 DEF Release
  <2>2. line' = W /\ free' = IF req[r].holds THEN free + 1 ELSE free
    BY <2>1
  <2>3. req' = [q \in Requests |-> IF q = r THEN after ELSE req[q]]
    BY <2>1 DEF HandOn
  <2>4. req' \in [Requests -> EdgeReq] /\ req'[r] = after /\ \A q \in Requests : q # r => req'[q] = req[q]
    BY <1>0, <2>3
  <2>5. Waiters' = Waiters \ {r} /\ InChain' = IF after.at = "done" THEN InChain \ {r} ELSE InChain
    BY <1>4, <2>4 DEF Waiters, InChain
  <2>6. IsFiniteSet(Holders') /\ free' + Cardinality(Holders') = InFlight /\ free' \in Nat
    <3>1. CASE req[r].holds
      <4>1. Holders' = Holders \ {r} /\ r \in Holders
        BY <1>2, <2>4, <3>1 DEF Holders
      <4>2. IsFiniteSet(Holders') /\ Cardinality(Holders') = Cardinality(Holders) - 1
        BY <1>0, <4>1, FS_RemoveElement
      <4> QED BY <1>0, <2>2, <3>1, <4>2
    <3>2. CASE ~req[r].holds
      <4>1. Holders' = Holders
        BY <1>2, <2>4, <3>2 DEF Holders
      <4> QED BY <1>0, <2>2, <3>2, <4>1
    <3> QED BY <3>1, <3>2
  <2>7. line' # <<>> => free' = 0
    BY <1>0, <1>1, <1>5, <2>2
  <2>8. \A q \in Requests : ReqSays(req'[q])
    BY <1>0, <2>4
  <2> QED BY <1>0, <1>1, <1>c, <2>2, <2>4, <2>5, <2>6, <2>7, <2>8 DEF EdgeInv
<1>6. CASE req[r].holds /\ W # <<>>
  <2> DEFINE h == Head(W)
             y == [req[h] EXCEPT !.at = "admitted", !.holds = TRUE]
  <2>1. h \in Waiters /\ h # r /\ Queue(Tail(W), Requests) /\ Members(Tail(W)) = Members(W) \ {h}
    BY <1>1, <1>6, FirstOut
  <2>2. freed = [line |-> Tail(W), free |-> free, next |-> {h}]
    BY <1>3, <1>6 DEF Release
  <2>3. line' = Tail(W) /\ free' = free
    BY <2>2
  <2> HIDE DEF h, W
  <2>a. freed.next = {h}
    BY <2>2
  <2>b. req' = [q \in Requests |-> req'[q]]
    <3> DEFINE G(q) == CASE q = r -> after
                         [] q \in freed.next -> [req[q] EXCEPT !.at = "admitted", !.holds = TRUE]
                         [] OTHER -> req[q]
    <3>1. req' = [q \in Requests |-> G(q)]
      BY Zenon DEF HandOn
    <3> HIDE DEF G
    <3> QED BY ONLY <3>1
  <2>c. ASSUME NEW q \in Requests
        PROVE  req'[q] = IF q = r THEN after
                         ELSE IF q = h THEN [req[q] EXCEPT !.at = "admitted", !.holds = TRUE] ELSE req[q]
    BY ONLY <2>1, <2>a, q \in Requests, HandOn(r, after, freed) DEF HandOn
  <2>4. req' = [q \in Requests |-> IF q = r THEN after ELSE IF q = h THEN [req[q] EXCEPT !.at = "admitted", !.holds = TRUE] ELSE req[q]]
    BY <2>b, <2>c
  <2>5. h \in Requests /\ req[h] \in EdgeReq /\ req[h].at = "waiting" /\ ReqSays(req[h])
    BY <1>0, <2>1 DEF Waiters
  <2>6. /\ y \in EdgeReq /\ y.at = "admitted" /\ y.holds = TRUE /\ y.route = req[h].route
        /\ y.arrived = req[h].arrived /\ y.origin = req[h].origin /\ y.status = req[h].status
        /\ y.headAt = req[h].headAt /\ y.begun = req[h].begun /\ y.told = req[h].told
    BY ONLY <2>5 DEF EdgeReq
  <2>7. /\ req' \in [Requests -> EdgeReq] /\ req'[r] = after /\ req'[h] = y
        /\ \A q \in Requests : q # r /\ q # h => req'[q] = req[q]
    BY <1>0, <2>1, <2>4, <2>5, <2>6
  <2> HIDE DEF y
  <2>8. ReqSays(y)
    BY <2>5, <2>6 DEF ReqSays, PermitSays, BudgetSays, OutcomeSays, Opened
  <2>9. \A q \in Requests : ReqSays(req'[q])
    BY <1>0, <2>7, <2>8
  <2>10. Waiters' = Waiters \ {r, h}
    BY <2>6, <2>7 DEF Waiters
  <2>11. InChain' = IF after.at = "done" THEN InChain \ {r} ELSE InChain
    BY <1>4, <2>5, <2>6, <2>7 DEF InChain
  <2>12. h \notin Holders /\ r \in Holders
    BY <1>6, <2>5 DEF Holders, ReqSays, PermitSays, Opened
  <2>13. Holders' = (Holders \ {r}) \cup {h}
    BY <1>2, <2>5, <2>6, <2>7 DEF Holders
  <2>14. IsFiniteSet(Holders') /\ Cardinality(Holders') = Cardinality(Holders)
    BY <1>0, <2>12, <2>13, Exchange
  <2>15. Queue(line', Requests) /\ Members(line') = Waiters'
    BY <1>1, <2>1, <2>3, <2>10 DEF W
  <2>16. free' = 0
    BY <1>0, <1>1, <1>6, <2>3 DEF W
  <2> QED BY <1>0, <1>c, <2>3, <2>7, <2>9, <2>11, <2>14, <2>15, <2>16 DEF EdgeInv
<1> QED BY <1>3, <1>5, <1>6

\* A head is out: the timeout exactly when the budget is over, and the outcome is counted once.
LEMMA AnswerKeeps ==
    ASSUME EdgeInv, NEW r \in Requests, NEW status \in Nat, NEW told \in Seq(Outcomes), Answer(r, status, told),
           req[r].at \in Opened \cup {"admitted"},
           req[r].route # "probe" => (hclock < req[r].arrived + Budget <=> req[r].origin # 0 /\ status # 504),
           Len(told) <= 1, req[r].begun # 0 => Len(told) = 1
    PROVE  EdgeInv'
<1> DEFINE x == req[r]
           after == [req[r] EXCEPT !.at = "body", !.holds = FALSE, !.status = status, !.headAt = hclock,
                                   !.told = told]
           freed == Release(req[r].holds, line)
<1>0. /\ x \in EdgeReq /\ ReqSays(x) /\ hclock \in Nat /\ hclock # 0
      /\ (r \in Members(line) <=> x.at = "waiting") /\ Queue(line, Requests) /\ status \in Nat /\ told \in Seq(Outcomes)
  BY ReqKnown DEF EdgeInv
<1>1. Leave(line, r) = line
  BY <1>0, LeaveIs DEF Opened
<1>2. HandOn(r, after, freed) /\ line' = freed.line /\ free' = freed.free /\ UNCHANGED <<active, hclock>>
  BY DEF Answer
<1>3. /\ after \in EdgeReq /\ after.at = "body" /\ after.holds = FALSE /\ after.status = status
      /\ after.headAt = hclock /\ after.told = told /\ after.route = x.route /\ after.arrived = x.arrived
      /\ after.origin = x.origin /\ after.begun = x.begun
  BY ONLY <1>0 DEF EdgeReq
<1> HIDE DEF after, freed
<1>4. ReqSays(after)
  BY <1>0, <1>3 DEF ReqSays, PermitSays, BudgetSays, OutcomeSays, Opened
<1>5. freed = Release(req[r].holds, Leave(line, r))
  BY <1>1 DEF freed
<1>6. x.at \notin {"out", "done"}
  BY DEF Opened
<1> QED BY <1>2, <1>3, <1>4, <1>5, <1>6, PutAway

\* The statuses the chain answers with: only the timeout is 504.
LEMMA Statuses ==
    /\ HttpStatus("ServiceUnavailable") = 503 /\ HttpStatus("GatewayTimeout") = 504
    /\ HttpStatus("IdempotencyUnavailable") = 503
    /\ HttpStatus("AuthenticationRequired") = 401 /\ HttpStatus("AuthenticationMalformed") = 400
    /\ HttpStatus("AuthenticationInvalid") = 401 /\ HttpStatus("AuthenticationUnavailable") = 503
    /\ HttpStatus("Forbidden") = 403
    /\ HttpStatus("BadRequest") = 400 /\ HttpStatus("RequestEntityTooLarge") = 413
    /\ HttpStatus("Conflict") = 409 /\ HttpStatus("IdempotencyRequestInProgress") = 409
    /\ HttpStatus("NotFound") = 404 /\ HttpStatus("InternalServerError") = 500
<1>1. HttpStatus("ServiceUnavailable") = 503 /\ HttpStatus("GatewayTimeout") = 504
  BY DEF HttpStatus
<1>2. HttpStatus("IdempotencyUnavailable") = 503
  BY DEF HttpStatus
<1>3. HttpStatus("AuthenticationInvalid") = 401 /\ HttpStatus("Forbidden") = 403
  BY DEF HttpStatus
<1>a. HttpStatus("AuthenticationRequired") = 401 /\ HttpStatus("AuthenticationMalformed") = 400
  BY DEF HttpStatus
<1>b. HttpStatus("AuthenticationUnavailable") = 503
  BY DEF HttpStatus
<1>4. HttpStatus("BadRequest") = 400 /\ HttpStatus("RequestEntityTooLarge") = 413
  BY DEF HttpStatus
<1>5. HttpStatus("Conflict") = 409 /\ HttpStatus("IdempotencyRequestInProgress") = 409
  BY DEF HttpStatus
<1>6. HttpStatus("NotFound") = 404 /\ HttpStatus("InternalServerError") = 500
  BY DEF HttpStatus
<1> QED BY <1>1, <1>2, <1>3, <1>a, <1>b, <1>4, <1>5, <1>6

\* Something is left of a budget exactly while its end is ahead.
LEMMA BudgetLeft ==
    ASSUME NEW origin \in Nat, NEW budget \in Nat \ {0}, NEW now \in Nat
    PROVE  RemainingAt(origin, budget, now) # 0 <=> now < origin + budget
BY DEF RemainingAt

HeadCodes == {"none", "AuthenticationRequired", "AuthenticationMalformed", "AuthenticationInvalid",
              "AuthenticationUnavailable", "Forbidden", "BadRequest", "RequestEntityTooLarge", "Conflict",
              "IdempotencyRequestInProgress", "NotFound", "InternalServerError", "IdempotencyUnavailable"}

\* The opening layer answers with the timeout exactly when the budget is over.
LEMMA HeadInTime ==
    ASSUME EdgeInv, NEW r \in Requests, req[r].at \in Opened, NEW code \in HeadCodes
    PROVE  /\ OpeningHead(r, code) \in Nat
           /\ req[r].route # "probe"
                => (hclock < req[r].arrived + Budget <=> req[r].origin # 0 /\ OpeningHead(r, code) # 504)
<1>0. /\ req[r].origin \in Nat /\ req[r].arrived \in Nat /\ hclock \in Nat /\ Budget \in Nat \ {0}
      /\ req[r].route # "probe" => req[r].origin = req[r].arrived /\ req[r].origin # 0
  BY ReqKnown, HttpEdgeAssumption DEF EdgeReq, BudgetSays, PermitSays, Opened
<1>1. ~OpeningExpired(r) <=> hclock < req[r].origin + Budget
  BY <1>0, BudgetLeft DEF OpeningExpired
<1>2. code # "none" => HttpStatus(code) \in Nat /\ HttpStatus(code) # 504
  BY Statuses DEF HeadCodes
<1>3. CASE OpeningExpired(r)
  BY <1>0, <1>1, <1>3, Statuses DEF OpeningHead
<1>4. CASE ~OpeningExpired(r)
  BY <1>0, <1>1, <1>2, <1>4 DEF OpeningHead
<1> QED BY <1>3, <1>4

\* The first outcome counted is the only one.
LEMMA FirstTold ==
    ASSUME NEW told, told = <<>>, NEW a \in Outcomes
    PROVE  /\ Append(told, a) \in Seq(Outcomes) /\ Len(Append(told, a)) = 1 /\ Append(told, a) # <<>>
           /\ told \in Seq(Outcomes) /\ Len(told) = 0
<1>1. told \in Seq(Outcomes) /\ Len(told) = 0
  BY EmptySeq
<1>2. Append(told, a) \in Seq(Outcomes) /\ Append(told, a) # <<>> /\ Len(Append(told, a)) = Len(told) + 1
  BY <1>1, AppendProperties
<1> QED BY <1>1, <1>2

\* A request that has not begun an attempt, or whose attempt runs, has no outcome yet.
LEMMA Untold ==
    ASSUME EdgeInv, NEW r \in Requests, req[r].at \notin {"body", "done"}
    PROVE  /\ req[r].told = <<>> /\ req[r].status = 0 /\ req[r].told \in Seq(Outcomes)
           /\ Dropped(r) \in Seq(Outcomes) /\ Len(Dropped(r)) <= 1
           /\ req[r].begun # 0 => Guarded(r) /\ Len(Dropped(r)) = 1
<1>1. req[r].told \in Seq(Outcomes) /\ req[r].told = <<>> /\ req[r].status = 0 /\ (req[r].begun # 0 => Guarded(r))
  BY ReqKnown DEF EdgeReq, OutcomeSays, BudgetSays, Guarded
<1>o. "abandoned" \in Outcomes
  BY DEF Outcomes
<1>2. /\ Append(req[r].told, "abandoned") \in Seq(Outcomes) /\ Len(Append(req[r].told, "abandoned")) = 1
      /\ Len(req[r].told) = 0
  BY <1>1, <1>o, FirstTold
<1>3. CASE Guarded(r)
  <2>1. Dropped(r) = Append(req[r].told, "abandoned")
    BY <1>3 DEF Dropped
  <2>2. Dropped(r) \in Seq(Outcomes) /\ Len(Dropped(r)) = 1
    BY <1>2, <2>1
  <2>3. Len(Dropped(r)) <= 1
    BY <2>2
  <2> QED BY <1>1, <1>3, <2>2, <2>3
<1>4. CASE ~Guarded(r)
  <2>1. Dropped(r) = req[r].told
    BY <1>4 DEF Dropped
  <2>2. Dropped(r) \in Seq(Outcomes) /\ Len(Dropped(r)) <= 1
    BY <1>1, <1>2, <2>1
  <2> QED BY <1>1, <1>4, <2>2
<1> QED BY <1>3, <1>4

\* A request arrives: it takes a permit, needs none or joins the line.
LEMMA ArriveKeeps ==
    ASSUME EdgeInv, NEW r \in Requests, NEW route \in Routes, EdgeArrive(r, route)
    PROVE  EdgeInv'
<1> DEFINE exempt == route = "probe"
           taken == ~exempt /\ free > 0
           x == [req[r] EXCEPT !.route = route, !.arrived = hclock, !.holds = taken,
                               !.at = IF exempt \/ taken THEN "admitted" ELSE "waiting"]
<1>0. /\ req \in [Requests -> EdgeReq] /\ free \in Nat /\ active \in Nat /\ hclock \in Nat \ {0}
      /\ IsFiniteSet(Holders) /\ free + Cardinality(Holders) = InFlight /\ Cardinality(Holders) \in Nat
      /\ IsFiniteSet(InChain) /\ active = Cardinality(InChain)
      /\ Queue(line, Requests) /\ Members(line) = Waiters /\ (\A q \in Requests : ReqSays(req[q]))
      /\ line # <<>> => free = 0
  BY FS_CardinalityType DEF EdgeInv
<1>1. /\ req[r] \in EdgeReq /\ req[r].at = "out" /\ ReqSays(req[r]) /\ req[r].told = <<>> /\ req[r].status = 0
      /\ req[r].begun = 0
  BY <1>0, Untold DEF EdgeArrive, Guarded
<1>2. exempt \in BOOLEAN /\ taken \in BOOLEAN /\ route \in Routes /\ hclock \in Nat /\ hclock # 0
  BY <1>0
<1>3. /\ req' = [req EXCEPT ![r] = x] /\ free' = (IF taken THEN free - 1 ELSE free)
      /\ line' = (IF exempt \/ taken THEN line ELSE Append(line, r)) /\ active' = active + 1 /\ hclock' = hclock
  BY <1>0 DEF EdgeArrive
<1>4. /\ x \in EdgeReq /\ x.at = (IF exempt \/ taken THEN "admitted" ELSE "waiting") /\ x.route = route
      /\ x.arrived = hclock /\ x.origin = req[r].origin /\ x.holds = taken /\ x.status = 0
      /\ x.headAt = req[r].headAt /\ x.begun = 0 /\ x.told = <<>>
  BY ONLY <1>1, <1>2 DEF EdgeReq, Routes
<1>5. exempt <=> route = "probe"
  OBVIOUS
<1>6. taken <=> ~exempt /\ free > 0
  OBVIOUS
<1> HIDE DEF x, exempt, taken
<1>7. ReqSays(x)
  BY <1>1, <1>2, <1>4, <1>5, <1>6 DEF ReqSays, PermitSays, BudgetSays, OutcomeSays, Opened, Routes
<1>8. req' \in [Requests -> EdgeReq] /\ req'[r] = x /\ \A q \in Requests : q # r => req'[q] = req[q]
  BY <1>0, <1>3, <1>4
<1>9. \A q \in Requests : ReqSays(req'[q])
  BY <1>0, <1>7, <1>8
<1>10. r \notin Holders /\ r \notin InChain /\ r \notin Waiters
  BY <1>1 DEF Holders, InChain, Waiters, ReqSays, PermitSays, Opened
<1>11. InChain' = InChain \cup {r}
  BY <1>4, <1>8 DEF InChain
<1>12. IsFiniteSet(InChain') /\ active' = Cardinality(InChain') /\ active' \in Nat
  BY <1>0, <1>3, <1>10, <1>11, FS_AddElement
<1>13. CASE taken
  <2>1. Holders' = Holders \cup {r} /\ Waiters' = Waiters /\ line' = line /\ free' = free - 1 /\ free > 0
    BY <1>3, <1>4, <1>6, <1>8, <1>10, <1>13 DEF Holders, Waiters
  <2>2. IsFiniteSet(Holders') /\ Cardinality(Holders') = Cardinality(Holders) + 1
    BY <1>0, <1>10, <2>1, FS_AddElement
  <2> QED BY <1>0, <1>3, <1>8, <1>9, <1>12, <2>1, <2>2 DEF EdgeInv
<1>14. CASE ~taken /\ exempt
  <2>1. Holders' = Holders /\ Waiters' = Waiters /\ line' = line /\ free' = free
    BY <1>3, <1>4, <1>8, <1>10, <1>14 DEF Holders, Waiters
  <2> QED BY <1>0, <1>3, <1>8, <1>9, <1>12, <2>1 DEF EdgeInv
<1>15. CASE ~taken /\ ~exempt
  <2>1. Holders' = Holders /\ Waiters' = Waiters \cup {r} /\ line' = Append(line, r) /\ free' = free
    BY <1>3, <1>4, <1>8, <1>10, <1>15 DEF Holders, Waiters
  <2>2. Queue(line', Requests) /\ Members(line') = Waiters'
    BY <1>0, <1>10, <2>1, JoinIs
  <2>3. free = 0
    BY <1>0, <1>6, <1>15
  <2> QED BY <1>0, <1>3, <1>8, <1>9, <1>12, <2>1, <2>2, <2>3 DEF EdgeInv
<1> QED BY <1>13, <1>14, <1>15

\* A wait is shed: it leaves the line, after the whole budget.
LEMMA ShedKeeps ==
    ASSUME EdgeInv, NEW r \in Requests, Shed(r)
    PROVE  EdgeInv'
<1> DEFINE s == HttpStatus("ServiceUnavailable")
           x == [req[r] EXCEPT !.at = "body", !.status = s, !.headAt = hclock]
<1>0. /\ req \in [Requests -> EdgeReq] /\ hclock \in Nat /\ Queue(line, Requests) /\ Members(line) = Waiters
      /\ (\A q \in Requests : ReqSays(req[q])) /\ req[r].at = "waiting" /\ hclock >= req[r].arrived + Budget
      /\ line' = Leave(line, r) /\ free' = free /\ active' = active /\ hclock' = hclock
  BY DEF EdgeInv, Shed
<1>1. /\ req[r] \in EdgeReq /\ ReqSays(req[r]) /\ req[r].told = <<>> /\ req[r].begun = 0 /\ req[r].holds = FALSE
  <2>1. req[r] \in EdgeReq /\ ReqSays(req[r])
    BY <1>0
  <2>2. ~req[r].holds /\ req[r].holds \in BOOLEAN
    BY <1>0, <2>1 DEF ReqSays, PermitSays, Opened, EdgeReq
  <2> QED BY <1>0, <2>1, <2>2, Untold DEF Guarded
<1>2. req' = [req EXCEPT ![r] = x]
  BY <1>0 DEF Shed
<1>s. s = 503
  BY Statuses
<1>n. s \in Nat
  BY <1>s
<1> HIDE DEF s
<1>3. /\ x \in EdgeReq /\ x.at = "body" /\ x.route = req[r].route
      /\ x.arrived = req[r].arrived /\ x.origin = req[r].origin /\ x.holds = FALSE /\ x.status = s
      /\ x.headAt = hclock /\ x.begun = 0 /\ x.told = <<>>
  BY ONLY <1>0, <1>1, <1>n DEF EdgeReq
<1> HIDE DEF x
<1>4. ReqSays(x)
  <2>1. PermitSays(x) /\ OutcomeSays(x)
    BY <1>0, <1>1, <1>3, EmptySeq DEF ReqSays, PermitSays, OutcomeSays, Opened
  <2>2. req[r].origin = 0 /\ ~(hclock < req[r].arrived + Budget) /\ (req[r].route # "none" => req[r].arrived # 0)
    <3>1. req[r].arrived \in Nat /\ Budget \in Nat
      BY <1>1, HttpEdgeAssumption DEF EdgeReq
    <3> QED BY <1>0, <1>1, <3>1 DEF ReqSays, BudgetSays
  <2>3. BudgetSays(x)
    BY <1>3, <2>2 DEF BudgetSays, Opened
  <2> QED BY <2>1, <2>3 DEF ReqSays
<1>5. req' \in [Requests -> EdgeReq] /\ req'[r] = x /\ \A q \in Requests : q # r => req'[q] = req[q]
  BY <1>0, <1>2, <1>3
<1>6. \A q \in Requests : ReqSays(req'[q])
  BY <1>0, <1>4, <1>5
<1>7. Holders' = Holders /\ InChain' = InChain /\ Waiters' = Waiters \ {r}
  BY <1>0, <1>1, <1>3, <1>5 DEF Holders, InChain, Waiters
<1>8. Queue(line', Requests) /\ Members(line') = Waiters'
  BY <1>0, <1>7, LeaveIs
<1>9. line' # <<>> => line # <<>>
  BY <1>0, <1>7, <1>8, QueueMembers
<1> QED BY <1>0, <1>5, <1>6, <1>7, <1>8, <1>9 DEF EdgeInv

\* A request moves inside its budget; an attempt begins only with its reserve still ahead.
LEMMA StepKeeps ==
    ASSUME EdgeInv, NEW r \in Requests, NEW at \in {"key", "attempt", "pending"}, Step(r, at),
           req[r].at \in {"authn", "key", "attempt"}, at = "key" => req[r].begun = 0,
           at = "attempt" => req[r].origin + Budget - AttemptReserve > hclock
    PROVE  EdgeInv'
<1> DEFINE b == IF at = "attempt" THEN hclock ELSE req[r].begun
           x == [req[r] EXCEPT !.at = at, !.begun = b]
<1>0. /\ req \in [Requests -> EdgeReq] /\ req[r] \in EdgeReq /\ ReqSays(req[r]) /\ hclock \in Nat
      /\ Budget \in Nat /\ AttemptReserve \in Nat
  BY ReqKnown DEF EdgeInv
<1>1. req' = [req EXCEPT ![r] = x] /\ UNCHANGED <<line, free, active, hclock>>
  BY <1>0 DEF Step
<1>2. b \in Nat /\ (at = "attempt" => b = hclock) /\ (at # "attempt" => b = req[r].begun)
  BY <1>0 DEF EdgeReq
<1> HIDE DEF b
<1>3. /\ x \in EdgeReq /\ x.at = at /\ x.route = req[r].route /\ x.arrived = req[r].arrived
      /\ x.origin = req[r].origin /\ x.holds = req[r].holds /\ x.status = req[r].status
      /\ x.headAt = req[r].headAt /\ x.begun = b /\ x.told = req[r].told
  BY ONLY <1>0, <1>2, at \in {"key", "attempt", "pending"} DEF EdgeReq, Opened
<1> HIDE DEF x
<1>4. /\ req[r].arrived \in Nat /\ req[r].origin \in Nat /\ req[r].at \in Opened /\ x.at \in Opened
      /\ req[r].at \notin {"out", "done", "body", "waiting"} /\ x.at \notin {"out", "done", "body", "waiting"}
  BY <1>0, <1>3 DEF EdgeReq, Opened
<1>5. PermitSays(x)
  BY <1>0, <1>3, <1>4 DEF ReqSays, PermitSays
<1>6. BudgetSays(x)
  BY <1>0, <1>2, <1>3, <1>4 DEF ReqSays, BudgetSays
<1>7. OutcomeSays(x)
  BY <1>0, <1>2, <1>3, <1>4 DEF ReqSays, OutcomeSays
<1> QED BY <1>1, <1>3, <1>4, <1>5, <1>6, <1>7, ReqMoves DEF ReqSays

\* A timeout
LEMMA TimeoutKeeps ==
    ASSUME EdgeInv, NEW r \in Requests, req[r].at \in Opened \cup {"admitted"}, NEW told \in Seq(Outcomes),
           Answer(r, HttpStatus("GatewayTimeout"), told), Len(told) <= 1, req[r].begun # 0 => Len(told) = 1,
           req[r].route # "probe" => ~(hclock < req[r].arrived + Budget)
    PROVE  EdgeInv'
<1>2. HttpStatus("GatewayTimeout") = 504 /\ HttpStatus("GatewayTimeout") \in Nat
  BY Statuses
<1> QED BY <1>2, AnswerKeeps

\* An opening that has expired
LEMMA ExpiredSays ==
    ASSUME EdgeInv, NEW r \in Requests, req[r].at \in Opened, OpeningExpired(r), req[r].route # "probe"
    PROVE  ~(hclock < req[r].arrived + Budget)
<1>0. /\ req[r].origin \in Nat /\ hclock \in Nat /\ Budget \in Nat \ {0} /\ req[r].origin = req[r].arrived
  BY ReqKnown, HttpEdgeAssumption DEF EdgeReq, BudgetSays
<1> QED BY <1>0, BudgetLeft DEF OpeningExpired

\* The opening context is made from what the wait left of the budget.
LEMMA OpenKeeps ==
    ASSUME EdgeInv, NEW r \in Requests, OpenRequest(r)
    PROVE  EdgeInv'
<1> DEFINE to == IF req[r].route = "idempotent" THEN "authn" ELSE "work"
           x == [req[r] EXCEPT !.origin = Origin(r), !.at = to]
<1>0. /\ req \in [Requests -> EdgeReq] /\ req[r] \in EdgeReq /\ ReqSays(req[r]) /\ hclock \in Nat
      /\ req[r].at = "admitted" /\ req[r].told = <<>> /\ req[r].begun = 0 /\ req[r].told \in Seq(Outcomes)
  BY ReqKnown, Untold DEF EdgeInv, OpenRequest, Guarded
<1>1. CASE RemainingAt(Origin(r), Budget, hclock) = 0
  <2>1. Answer(r, HttpStatus("GatewayTimeout"), req[r].told)
    BY <1>1 DEF OpenRequest, StoppedCode
  <2>4. Len(req[r].told) <= 1
    BY <1>0, EmptySeq
  <2>5. req[r].at \in Opened \cup {"admitted"} /\ ~(req[r].begun # 0)
    BY <1>0
  <2>6. req[r].route # "probe" => ~(hclock < req[r].arrived + Budget)
    <3>1. req[r].arrived \in Nat /\ Budget \in Nat \ {0}
      BY <1>0, HttpEdgeAssumption DEF EdgeReq
    <3> QED BY <1>0, <1>1, <3>1, BudgetLeft DEF Origin
  <2> QED BY <1>0, <2>1, <2>4, <2>5, <2>6, TimeoutKeeps
<1>2. CASE RemainingAt(Origin(r), Budget, hclock) # 0
  <2>1. req' = [req EXCEPT ![r] = x] /\ UNCHANGED <<line, free, active, hclock>>
    BY <1>0, <1>2 DEF OpenRequest
  <2>2. /\ Origin(r) \in Nat /\ to \in {"authn", "work"}
        /\ req[r].route # "probe" => Origin(r) = req[r].arrived
    BY <1>0 DEF EdgeReq, Origin
  <2> HIDE DEF to
  <2>3. /\ x \in EdgeReq /\ x.at = to /\ x.route = req[r].route /\ x.arrived = req[r].arrived
        /\ x.origin = Origin(r) /\ x.holds = req[r].holds /\ x.status = req[r].status
        /\ x.headAt = req[r].headAt /\ x.begun = 0 /\ x.told = <<>>
    BY ONLY <1>0, <2>2 DEF EdgeReq, Opened
  <2> HIDE DEF x
  <2>4. ReqSays(x)
    BY <1>0, <2>2, <2>3 DEF ReqSays, PermitSays, BudgetSays, OutcomeSays, Opened
  <2>5. x.at \notin {"out", "done", "waiting"} /\ req[r].at \notin {"out", "done", "waiting"}
    BY <1>0, <2>2, <2>3
  <2> QED BY <2>1, <2>3, <2>4, <2>5, ReqMoves
<1> QED BY <1>1, <1>2

\* An answer of the opening layer: an attempt is counted exactly once.
LEMMA HeadKeeps ==
    ASSUME EdgeInv, NEW r \in Requests, req[r].at \in Opened, NEW code \in HeadCodes, NEW told \in Seq(Outcomes),
           Answer(r, OpeningHead(r, code), told), Len(told) <= 1, req[r].begun # 0 => Len(told) = 1
    PROVE  EdgeInv'
<1>1. /\ OpeningHead(r, code) \in Nat
      /\ req[r].route # "probe"
           => (hclock < req[r].arrived + Budget <=> req[r].origin # 0 /\ OpeningHead(r, code) # 504)
  BY HeadInTime
<1> QED BY <1>1, AnswerKeeps

LEMMA AuthenticateKeeps ==
    ASSUME EdgeInv, NEW r \in Requests, NEW failure \in Failures \cup {"none"}, NEW granted \in BOOLEAN,
           AuthenticateRequest(r, failure, granted)
    PROVE  EdgeInv'
<1> DEFINE access == {[kind |-> "Protected", anyOf |-> {{"write"}}]}
           answer == [failure |-> failure, scopes |-> IF granted THEN {"write"} ELSE {}]
           code == AuthorizeCode(access, answer)
<1>0. /\ req[r].at = "authn" /\ req[r].at \in Opened /\ req[r].told = <<>> /\ req[r].begun = 0
      /\ req[r].told \in Seq(Outcomes) /\ Len(req[r].told) <= 1
  BY EmptySeq, Untold DEF AuthenticateRequest, Opened, Guarded
<1>1. code \in HeadCodes
  <2>1. failure # "none" => FailureCode(failure) \in {"AuthenticationRequired", "AuthenticationMalformed",
                                                     "AuthenticationInvalid", "AuthenticationUnavailable"}
    BY DEF FailureCode, Failures
  <2>2. code \in {"none", "Forbidden"} \cup {FailureCode(failure) : f \in {1}}
    BY DEF AuthorizeCode
  <2>3. failure = "none" => code \in {"none", "Forbidden"}
    BY DEF AuthorizeCode
  <2> QED BY <2>1, <2>2, <2>3 DEF HeadCodes
<1>2. \/ OpeningExpired(r) /\ Answer(r, HttpStatus("GatewayTimeout"), req[r].told)
      \/ Answer(r, OpeningHead(r, code), req[r].told)
      \/ Step(r, "key")
  <2> HIDE DEF code
  <2>1. /\ CASE OpeningExpired(r) -> Answer(r, HttpStatus("GatewayTimeout"), req[r].told)
             [] ~OpeningExpired(r) /\ code # "none" -> Answer(r, OpeningHead(r, code), req[r].told)
             [] OTHER -> Step(r, "key")
    BY Zenon DEF AuthenticateRequest, code
  <2> QED BY ONLY <2>1
<1> HIDE DEF code
<1>3. CASE OpeningExpired(r) /\ Answer(r, HttpStatus("GatewayTimeout"), req[r].told)
  BY <1>0, <1>3, ExpiredSays, TimeoutKeeps
<1>4. CASE Answer(r, OpeningHead(r, code), req[r].told)
  BY <1>0, <1>1, <1>4, HeadKeeps
<1>5. CASE Step(r, "key")
  BY <1>0, <1>5, StepKeeps
<1> QED BY <1>2, <1>3, <1>4, <1>5

LEMMA CaptureKeeps ==
    ASSUME EdgeInv, NEW r \in Requests, NEW faults \in {{}, {"bad_key"}, {"body_limit"}}, CaptureKey(r, faults)
    PROVE  EdgeInv'
<1> DEFINE kept == HandleKey(faults)
           told == IF kept.counted = "none" THEN req[r].told ELSE Append(req[r].told, kept.counted)
<1>0. /\ req[r].at = "key" /\ req[r].at \in Opened /\ req[r].told = <<>> /\ req[r].begun = 0
      /\ req[r].told \in Seq(Outcomes) /\ Len(req[r].told) <= 1
  BY EmptySeq, Untold DEF CaptureKey, Opened, Guarded
<1>1. \/ kept = [code |-> "none", counted |-> "none"]
      \/ kept = [code |-> "BadRequest", counted |-> "invalid_key"]
      \/ kept = [code |-> "RequestEntityTooLarge", counted |-> "not_stored"]
  BY DEF HandleKey
<1>2. /\ kept.code \in HeadCodes
      /\ kept.counted \in Outcomes \cup {"none"} /\ (kept.counted = "none" <=> kept.code = "none")
  BY <1>1 DEF HeadCodes, Outcomes
<1>3. told \in Seq(Outcomes) /\ Len(told) <= 1 /\ (kept.counted = "none" => told = <<>>)
  <2>1. CASE kept.counted = "none"
    BY <1>0, <2>1
  <2>2. CASE kept.counted # "none"
    <3>1. told = Append(req[r].told, kept.counted) /\ kept.counted \in Outcomes
      BY <1>2, <2>2
    <3>2. told \in Seq(Outcomes) /\ Len(told) = 1
      BY <1>0, <3>1, FirstTold
    <3> QED BY <2>2, <3>2
  <2> QED BY <2>1, <2>2
<1> HIDE DEF kept, told
<1>4. IF kept.code # "none" THEN Answer(r, OpeningHead(r, kept.code), told)
      ELSE IF PostgresAttemptEnd(r) # {} THEN Step(r, "attempt")
      ELSE IF OpeningExpired(r) THEN Step(r, "pending")
      ELSE Answer(r, OpeningHead(r, "IdempotencyUnavailable"), Append(told, "unavailable"))
  BY Zenon DEF CaptureKey, kept, told
<1>5. CASE kept.code # "none"
  <2>1. Answer(r, OpeningHead(r, kept.code), told)
    BY <1>4, <1>5
  <2> QED BY <1>0, <1>2, <1>3, <2>1, HeadKeeps
<1>6. CASE kept.code = "none" /\ PostgresAttemptEnd(r) # {}
  <2>1. Step(r, "attempt") /\ req[r].origin + Budget - AttemptReserve > hclock
    BY <1>4, <1>6 DEF PostgresAttemptEnd
  <2> QED BY <1>0, <2>1, StepKeeps
<1>7. CASE kept.code = "none" /\ PostgresAttemptEnd(r) = {} /\ OpeningExpired(r)
  <2>1. Step(r, "pending")
    BY <1>4, <1>7
  <2> QED BY <1>0, <2>1, StepKeeps
<1>8. CASE kept.code = "none" /\ PostgresAttemptEnd(r) = {} /\ ~OpeningExpired(r)
  <2>1. Answer(r, OpeningHead(r, "IdempotencyUnavailable"), Append(told, "unavailable"))
    BY <1>4, <1>8
  <2>2. told = <<>> /\ "unavailable" \in Outcomes /\ "IdempotencyUnavailable" \in HeadCodes
    BY <1>2, <1>3, <1>8 DEF Outcomes, HeadCodes
  <2>3. /\ Append(told, "unavailable") \in Seq(Outcomes) /\ Len(Append(told, "unavailable")) = 1
        /\ Append(told, "unavailable") # <<>>
    BY <2>2, FirstTold
  <2>4. Len(Append(told, "unavailable")) <= 1
    BY <2>3
  <2> QED BY <1>0, <2>1, <2>2, <2>3, <2>4, HeadKeeps
<1> QED BY <1>5, <1>6, <1>7, <1>8

LEMMA AttemptedKeeps ==
    ASSUME EdgeInv, NEW r \in Requests, NEW result \in Results, Attempted(r, result)
    PROVE  EdgeInv'
<1> DEFINE code == ResultCode(result)
           told == Append(req[r].told, ResultOutcome(result))
<1>0. /\ req[r].at = "attempt" /\ req[r].at \in Opened /\ req[r].told = <<>>
  BY Untold DEF Attempted, Opened
<1>1. code \in HeadCodes /\ ResultOutcome(result) \in Outcomes
  BY DEF ResultCode, ResultOutcome, Results, HeadCodes, Outcomes
<1>2. told \in Seq(Outcomes) /\ Len(told) = 1 /\ told # <<>>
  BY <1>0, <1>1, FirstTold
<1>3. Len(told) <= 1
  BY <1>2
<1>4. Step(r, "pending") \/ Answer(r, OpeningHead(r, code), told)
  BY DEF Attempted, Send
<1> HIDE DEF code, told
<1>5. CASE Step(r, "pending")
  BY <1>0, <1>5, StepKeeps
<1>6. CASE Answer(r, OpeningHead(r, code), told)
  BY <1>0, <1>1, <1>2, <1>3, <1>6, HeadKeeps
<1> QED BY <1>4, <1>5, <1>6

LEMMA FallbackKeeps ==
    ASSUME EdgeInv, NEW r \in Requests, Fallback(r)
    PROVE  EdgeInv'
<1> DEFINE code == IF req[r].route = "probe" THEN "none" ELSE "NotFound"
<1>0. /\ req[r].at = "work" /\ req[r].at \in Opened /\ req[r].told = <<>> /\ req[r].begun = 0
      /\ req[r].told \in Seq(Outcomes) /\ Len(req[r].told) <= 1
  BY EmptySeq, Untold DEF Fallback, Opened, Guarded
<1>1. code \in HeadCodes
  BY DEF HeadCodes
<1>2. Answer(r, OpeningHead(r, code), req[r].told)
  BY DEF Fallback
<1> HIDE DEF code
<1> QED BY <1>0, <1>1, <1>2, HeadKeeps

LEMMA PanicKeeps ==
    ASSUME EdgeInv, NEW r \in Requests, PanicToProblem(r)
    PROVE  EdgeInv'
<1>0. /\ req[r].at \in Opened /\ Answer(r, OpeningHead(r, "InternalServerError"), Dropped(r))
      /\ req[r].at \notin {"body", "done"}
  BY DEF PanicToProblem, Opened
<1>1. "InternalServerError" \in HeadCodes
  BY DEF HeadCodes
<1>2. Dropped(r) \in Seq(Outcomes) /\ Len(Dropped(r)) <= 1 /\ (req[r].begun # 0 => Len(Dropped(r)) = 1)
  BY <1>0, Untold
<1> QED BY <1>0, <1>1, <1>2, HeadKeeps

LEMMA OpeningTimeoutKeeps ==
    ASSUME EdgeInv, NEW r \in Requests, OpeningTimeout(r)
    PROVE  EdgeInv'
<1>0. /\ req[r].at \in Opened /\ OpeningExpired(r) /\ Answer(r, HttpStatus("GatewayTimeout"), Dropped(r))
      /\ req[r].at \notin {"body", "done"}
  BY DEF OpeningTimeout, Opened
<1>2. Dropped(r) \in Seq(Outcomes) /\ Len(Dropped(r)) <= 1 /\ (req[r].begun # 0 => Len(Dropped(r)) = 1)
  BY <1>0, Untold
<1> QED BY <1>0, <1>2, ExpiredSays, TimeoutKeeps

\* The body ends: the gauge falls, and the permit returned with the head.
LEMMA BodyEndsKeeps ==
    ASSUME EdgeInv, NEW r \in Requests, BodyEnds(r)
    PROVE  EdgeInv'
<1> DEFINE x == Cleared("done")
<1>0. /\ req \in [Requests -> EdgeReq] /\ req[r] \in EdgeReq /\ ReqSays(req[r]) /\ req[r].at = "body"
      /\ req' = [req EXCEPT ![r] = x] /\ active' = active - 1 /\ UNCHANGED <<line, free, hclock>>
      /\ active \in Nat /\ IsFiniteSet(InChain) /\ active = Cardinality(InChain)
      /\ \A q \in Requests : ReqSays(req[q])
  BY ReqKnown DEF EdgeInv, BodyEnds
<1>e. <<>> \in Seq(Outcomes) /\ Len(<<>>) = 0
  BY EmptySeq
<1>1. /\ x \in EdgeReq /\ x.at = "done" /\ x.route = "none" /\ x.holds = FALSE /\ x.status = 0
      /\ x.begun = 0 /\ x.told = <<>>
  BY ONLY <1>e DEF Cleared, EdgeReq
<1> HIDE DEF x
<1>2. ReqSays(x)
  BY <1>1, <1>e DEF ReqSays, PermitSays, BudgetSays, OutcomeSays, Opened
<1>3. req' \in [Requests -> EdgeReq] /\ req'[r] = x /\ \A q \in Requests : q # r => req'[q] = req[q]
  BY <1>0, <1>1
<1>4. ~req[r].holds
  BY <1>0 DEF ReqSays, PermitSays, Opened
<1>5. Holders' = Holders /\ Waiters' = Waiters
  BY <1>0, <1>1, <1>3, <1>4 DEF Holders, Waiters
<1>6. InChain' = InChain \ {r} /\ r \in InChain
  BY <1>0, <1>1, <1>3 DEF InChain
<1>7. IsFiniteSet(InChain') /\ active' = Cardinality(InChain') /\ active' \in Nat
  <2>1. /\ IsFiniteSet(InChain \ {r}) /\ Cardinality(InChain \ {r}) = Cardinality(InChain) - 1
        /\ Cardinality(InChain \ {r}) \in Nat
    BY <1>0, <1>6, FS_RemoveElement, FS_CardinalityType
  <2> QED BY <1>0, <1>6, <2>1
<1>8. \A q \in Requests : ReqSays(req'[q])
  BY <1>0, <1>2, <1>3
<1> QED BY <1>0, <1>3, <1>5, <1>7, <1>8 DEF EdgeInv

\* The caller hangs up: an attempt under way is counted as abandoned.
LEMMA HangUpKeeps ==
    ASSUME EdgeInv, NEW r \in Requests, HangUp(r)
    PROVE  EdgeInv'
<1> DEFINE freed == Release(req[r].holds, Leave(line, r))
           after == [Cleared("done") EXCEPT !.begun = req[r].begun, !.told = Dropped(r)]
<1>0. /\ HandOn(r, after, freed) /\ line' = freed.line /\ free' = freed.free /\ active' = active - 1
      /\ hclock' = hclock
  BY DEF HangUp
<1>1. req[r].at \notin {"out", "body", "done"}
  BY DEF HangUp, Opened
<1>2. /\ Dropped(r) \in Seq(Outcomes) /\ Len(Dropped(r)) <= 1 /\ (req[r].begun # 0 => Len(Dropped(r)) = 1)
      /\ req[r].begun \in Nat
  BY <1>1, Untold, ReqKnown DEF EdgeReq
<1>3. /\ after \in EdgeReq /\ after.at = "done" /\ after.route = "none" /\ after.holds = FALSE
      /\ after.status = 0 /\ after.begun = req[r].begun /\ after.told = Dropped(r)
  BY ONLY <1>2 DEF Cleared, EdgeReq
<1> HIDE DEF after, freed
<1>4. ReqSays(after)
  BY <1>2, <1>3 DEF ReqSays, PermitSays, BudgetSays, OutcomeSays, Opened
<1>5. freed = Release(req[r].holds, Leave(line, r))
  BY DEF freed
<1> QED BY <1>0, <1>1, <1>3, <1>4, <1>5, PutAway

LEMMA EdgeStarts == EdgeInit => EdgeInv
<1> SUFFICES ASSUME EdgeInit PROVE EdgeInv
  OBVIOUS
<1> DEFINE x == Cleared("out")
<1>e. <<>> \in Seq(Outcomes) /\ Len(<<>>) = 0
  BY EmptySeq
<1>1. /\ x \in EdgeReq /\ x.at = "out" /\ x.origin = 0 /\ x.route = "none" /\ x.holds = FALSE /\ x.status = 0
      /\ x.begun = 0 /\ x.told = <<>>
  BY ONLY <1>e DEF Cleared, EdgeReq
<1>2. req = [r \in Requests |-> x] /\ line = <<>> /\ free = InFlight /\ active = 0 /\ hclock = 1
  BY DEF EdgeInit
<1> HIDE DEF x
<1>3. ReqSays(x)
  BY <1>1, <1>e DEF ReqSays, PermitSays, BudgetSays, OutcomeSays, Opened
<1>4. Holders = {} /\ InChain = {} /\ Waiters = {}
  BY <1>1, <1>2 DEF Holders, InChain, Waiters
<1>5. IsFiniteSet({}) /\ Cardinality({}) = 0
  BY FS_EmptySet
<1>6. Queue(line, Requests) /\ Members(line) = {}
  BY <1>2, NoQueue
<1>7. InFlight \in Nat
  BY HttpEdgeAssumption
<1> QED BY <1>1, <1>2, <1>3, <1>4, <1>5, <1>6, <1>7 DEF EdgeInv

LEMMA EdgeKeeps == EdgeInv /\ [EdgeNext]_edgeVars => EdgeInv'
<1> SUFFICES ASSUME EdgeInv, [EdgeNext]_edgeVars PROVE EdgeInv'
  OBVIOUS
<1>1. CASE UNCHANGED edgeVars
  BY <1>1 DEF EdgeInv, edgeVars, Holders, InChain, Waiters
<1>2. CASE EdgeTick
  BY <1>2 DEF EdgeTick, EdgeInv, Holders, InChain, Waiters
<1>3. ASSUME NEW r \in Requests,
             \/ \E route \in Routes : EdgeArrive(r, route)
             \/ Shed(r) \/ OpenRequest(r)
             \/ \E failure \in Failures \cup {"none"}, granted \in BOOLEAN : AuthenticateRequest(r, failure, granted)
             \/ \E faults \in {{}, {"bad_key"}, {"body_limit"}} : CaptureKey(r, faults)
             \/ \E result \in Results : Attempted(r, result)
             \/ Fallback(r) \/ PanicToProblem(r) \/ OpeningTimeout(r) \/ BodyEnds(r) \/ HangUp(r)
      PROVE  EdgeInv'
  BY <1>3, ArriveKeeps, ShedKeeps, OpenKeeps, AuthenticateKeeps, CaptureKeeps, AttemptedKeeps, FallbackKeeps,
     PanicKeeps, OpeningTimeoutKeeps, BodyEndsKeeps, HangUpKeeps
<1> QED BY <1>1, <1>2, <1>3 DEF EdgeNext

LEMMA EdgeSays == EdgeInv => RequestsHonoured
<1> SUFFICES ASSUME EdgeInv PROVE RequestsHonoured
  OBVIOUS
<1>0. /\ free \in Nat /\ Cardinality(Holders) \in Nat /\ free + Cardinality(Holders) = InFlight /\ InFlight \in Nat
      /\ active \in Nat
  BY FS_CardinalityType, HttpEdgeAssumption DEF EdgeInv
<1>1. free \in 0 .. InFlight
  BY <1>0
<1>2. EdgeTypeOK
  BY <1>0, <1>1 DEF EdgeInv, EdgeTypeOK, EdgeReq
<1>3. \A r \in Requests : req[r].at \in Opened /\ req[r].route # "probe" => req[r].holds
  BY DEF EdgeInv, ReqSays, PermitSays
<1>4. {line[i] : i \in DOMAIN line} = {r \in Requests : req[r].at = "waiting"}
  BY DEF EdgeInv, Members, Waiters
<1>5. CapacityKept
  BY <1>2, <1>3, <1>4 DEF CapacityKept, EdgeInv, Count, Holders, InChain
<1>6. BudgetFromArrival
  BY DEF EdgeInv, ReqSays, BudgetSays, BudgetFromArrival
<1>7. OutcomeCounted
  BY Untold DEF EdgeInv, ReqSays, OutcomeSays, OutcomeCounted
<1> QED BY <1>5, <1>6, <1>7 DEF RequestsHonoured

\* Whatever number of requests arrive, wait, are shed, time out, panic or are hung up on: no permit of
\* the hardened chain is lost or made, the line and the gauge tell the truth, a request that was
\* opened is answered by the timeout exactly when the budget counted from its arrival is over, one that
\* was not opened only then, and every execution is counted once
\* (infra-http/src/harden.rs, context.rs and idempotency/execute.rs).
THEOREM RequestsSafe == EdgeSpec => []RequestsHonoured
<1>1. EdgeInit => EdgeInv
  BY EdgeStarts
<1>2. EdgeInv /\ [EdgeNext]_edgeVars => EdgeInv'
  BY EdgeKeeps
<1>3. EdgeInv => RequestsHonoured
  BY EdgeSays
<1> QED BY <1>1, <1>2, <1>3, PTL DEF EdgeSpec

-----------------------------------------------------------------------------
(* gRPC: a call gives everything back and ends once *)

GrSpec == GrInit /\ [][ServedNext \/ SentNext]_grVars

\* What the peer may be told, besides a status
GrWords == GrStatuses \cup {"eof", "error", "panic"}

GrPlaces == Unanswered \cup {"out", "handoff", "attach", "body", "over"}
GrAnswers == GrWords \cup {"none", "stream"}
GrFins == GrStatuses \cup {"none"}
GrTimers == {"none", "armed", "finishing", "ended"}
GrPolls == {"none", "ready", "parked", "locked", "returning"}
GrUploads == {"none", "open", "ended", "cut"}
GrPermits == SUBSET GrBounds

GrCall == [at: GrPlaces, open: Int, life: Int, wait: Int, holds: GrPermits, answer: GrAnswers, res: BOOLEAN,
           term: GrFins, fin: GrFins, count: Seq(GrStatuses), told: Seq(GrWords), stop: BOOLEAN,
           timer: GrTimers, poll: GrPolls, woke: BOOLEAN, upload: GrUploads]

\* The status behind what the peer is told
Meant(word) ==
    CASE word \in {"eof", "error"} -> "Unknown" [] word = "panic" -> "Cancelled" [] OTHER -> word

\* Permits by place: the opening's until the headers, the call's from the handler on.
PlaceSays(x) ==
    /\ x.at \in {"out", "opening", "prepared", "ready", "sent"} => x.holds = {}
    /\ x.at \in {"authn", "calls"} => x.holds = {"opening"}
    /\ x.at = "handler" => x.holds = {"opening", "calls"}
    /\ x.at = "reject" => x.holds \subseteq {"opening"} /\ x.answer \in GrStatuses
    /\ x.at \in {"handoff", "attach", "body", "over"} => x.holds \subseteq {"calls"}
    /\ x.at \in {"handoff", "attach"} => x.answer \in GrStatuses \cup {"stream"}
    /\ x.at \notin {"reject", "handoff", "attach", "body", "over"} => x.answer = "none"

\* Before the body nothing was recorded, told or taken.
FreshSays(x) ==
    x.at \notin {"body", "over"} =>
        /\ x.count = <<>> /\ x.told = <<>> /\ ~x.res /\ x.term = "none" /\ x.fin = "none"
        /\ x.timer = "none" /\ x.poll = "none"

\* The body: in custody, taken by a poll, taken by the timer, or recorded.
InCustody(x) ==
    /\ x.res /\ x.count = <<>> /\ x.told = <<>> /\ x.term = "none" /\ x.fin = "none"
    /\ x.timer = "armed" /\ x.poll \in {"ready", "parked", "locked"}
TakenByPoll(x) ==
    /\ ~x.res /\ x.count = <<>> /\ x.told = <<>> /\ x.term = "none" /\ x.fin \in GrStatuses
    /\ x.timer \in {"armed", "ended"} /\ x.poll = "returning" /\ x.answer \in GrWords /\ Meant(x.answer) = x.fin
TakenByTimer(x) ==
    /\ ~x.res /\ x.count = <<>> /\ x.fin \in GrStatuses /\ x.timer = "finishing"
Recorded(x) ==
    /\ ~x.res /\ Len(x.count) = 1 /\ x.fin = "none" /\ x.timer # "finishing"
    /\ x.stop /\ x.holds = {} /\ x.upload # "open"

\* The status that is, or is about to be, recorded
Record(x) == IF x.count = <<>> THEN x.fin ELSE x.count[1]

\* An ended stream has told the peer, or still holds the trailers.
ToldSays(x) ==
    /\ x.poll \in {"ready", "parked"} /\ x.timer # "armed"
    /\ \/ x.told = <<>> /\ x.term = Record(x) /\ x.term \in GrStatuses
       \/ x.term = "none" /\ Len(x.told) = 1 /\ Meant(x.told[1]) = Record(x)
    /\ x.poll = "parked" => x.woke \/ x.timer = "finishing"

BodySaysOf(x) ==
    \/ InCustody(x)
    \/ TakenByPoll(x)
    \/ (TakenByTimer(x) \/ Recorded(x)) /\ ToldSays(x)

OverSays(x) ==
    /\ TakenByTimer(x) \/ Recorded(x)
    /\ x.poll = "none" /\ x.term = "none"
    /\ Len(x.told) <= 1 /\ (x.told # <<>> => Meant(x.told[1]) = Record(x))

CallSays(c, x) ==
    /\ PlaceSays(x) /\ FreshSays(x)
    /\ x.at = "body" => BodySaysOf(x)
    /\ x.at = "over" => OverSays(x)
    /\ c \in GrServed /\ x.stop => x.count # <<>>

GrHolders(b) == {c \in GrCalls : b \in gcall[c].holds}
GrWaiters(b) == {c \in GrCalls : gcall[c].at = b}

GrInv ==
    /\ gcall \in [GrCalls -> GrCall] /\ \A c \in GrCalls : CallSays(c, gcall[c])
    /\ gfree \in [GrBounds -> Nat] /\ DOMAIN gline = GrBounds /\ gline = [b \in GrBounds |-> gline[b]]
    /\ \A b \in GrBounds :
         /\ IsFiniteSet(GrHolders(b)) /\ gfree[b] + Cardinality(GrHolders(b)) = GrLimit
         /\ Queue(gline[b], GrCalls) /\ Members(gline[b]) = GrWaiters(b)
         /\ gline[b] # <<>> => gfree[b] = 0

LEMMA CallKnown ==
    ASSUME GrInv, NEW c \in GrCalls
    PROVE  /\ gcall \in [GrCalls -> GrCall] /\ gcall[c] \in GrCall /\ CallSays(c, gcall[c])
           /\ PlaceSays(gcall[c]) /\ FreshSays(gcall[c])
  BY DEF GrInv, CallSays

\* A call moves: its permits and its place in the lines stay.
LEMMA CallMoves ==
    ASSUME GrInv, NEW c \in GrCalls, NEW x \in GrCall, gcall' = [gcall EXCEPT ![c] = x], CallSays(c, x),
           x.holds = gcall[c].holds, \A b \in GrBounds : x.at = b <=> gcall[c].at = b, UNCHANGED <<gline, gfree>>
    PROVE  GrInv'
<1>1. gcall' \in [GrCalls -> GrCall] /\ gcall'[c] = x /\ \A q \in GrCalls : q # c => gcall'[q] = gcall[q]
  BY DEF GrInv
<1>2. ASSUME NEW b \in GrBounds PROVE GrHolders(b)' = GrHolders(b) /\ GrWaiters(b)' = GrWaiters(b)
  BY <1>1 DEF GrHolders, GrWaiters
<1>3. \A q \in GrCalls : CallSays(q, gcall'[q])
  BY <1>1 DEF GrInv
<1> QED BY <1>1, <1>2, <1>3 DEF GrInv

\* What a freed permit makes of the first in line
LEMMA GrantedIs ==
    ASSUME NEW x \in GrCall, NEW c, CallSays(c, x), NEW b \in GrBounds, x.at = b \/ x.at = "out" \/ x.at = "authn",
           b = "opening" => x.at \in {"out", "opening"}, b = "calls" => x.at \in {"authn", "calls"}
    PROVE  /\ Granted(x, b) \in GrCall /\ CallSays(c, Granted(x, b))
           /\ Granted(x, b).holds = x.holds \cup {b} /\ b \notin x.holds
           /\ Granted(x, b).at \notin GrBounds
<1> DEFINE to == IF b = "opening" THEN "authn" ELSE "handler"
           hs == x.holds \cup {b}
           zero == 0
           y == [x EXCEPT !.holds = hs, !.wait = zero, !.at = to]
<1>1. Granted(x, b) = y
  BY DEF Granted
<1>2. to \in {"authn", "handler"} /\ (b = "opening" <=> to = "authn") /\ b \in {"opening", "calls"} /\ to \in GrPlaces
  BY DEF GrBounds, GrPlaces, Unanswered
<1>3. hs \in GrPermits /\ hs = x.holds \cup {b}
  BY DEF GrCall, GrPermits
<1>z. zero \in Int
  OBVIOUS
<1> HIDE DEF to, hs, zero
<1>a. y \in GrCall
  BY ONLY <1>2, <1>3, <1>z, x \in GrCall DEF GrCall
<1>4. /\ y \in GrCall /\ y.at = to /\ y.holds = x.holds \cup {b} /\ y.answer = x.answer /\ y.res = x.res
      /\ y.term = x.term /\ y.fin = x.fin /\ y.count = x.count /\ y.told = x.told /\ y.stop = x.stop
      /\ y.timer = x.timer /\ y.poll = x.poll
  BY ONLY <1>a, <1>3, x \in GrCall DEF GrCall
<1> HIDE DEF y
<1>5. x.holds = (IF b = "opening" THEN {} ELSE {"opening"})
  BY <1>2 DEF CallSays, PlaceSays
<1>b. x.answer = "none"
  BY <1>2 DEF CallSays, PlaceSays
<1>6. PlaceSays(y)
  BY <1>2, <1>4, <1>5, <1>b DEF PlaceSays
<1>7. FreshSays(y)
  BY <1>2, <1>4 DEF CallSays, FreshSays
<1>8. CallSays(c, y)
  BY <1>2, <1>4, <1>6, <1>7 DEF CallSays
<1> QED BY <1>1, <1>2, <1>4, <1>5, <1>8 DEF GrBounds

\* Whatever a call gives up goes to the first in line, or is free.
LEMMA SettleKeeps ==
    ASSUME GrInv, NEW c \in GrCalls, NEW after \in GrCall, Settle(c, after), CallSays(c, after),
           after.holds \subseteq gcall[c].holds, after.at \notin GrBounds
    PROVE  GrInv'
<1> DEFINE Gone(b) == b \in gcall[c].holds \ after.holds
           Left(b) == Leave(gline[b], c)
           Heir(b) == IF Gone(b) /\ Left(b) # <<>> THEN {Head(Left(b))} ELSE {}
<1>0. /\ gcall \in [GrCalls -> GrCall] /\ (\A q \in GrCalls : CallSays(q, gcall[q]))
      /\ gfree \in [GrBounds -> Nat] /\ DOMAIN gline = GrBounds
      /\ \A b \in GrBounds :
           /\ IsFiniteSet(GrHolders(b)) /\ gfree[b] + Cardinality(GrHolders(b)) = GrLimit
           /\ Cardinality(GrHolders(b)) \in Nat
           /\ Queue(gline[b], GrCalls) /\ Members(gline[b]) = GrWaiters(b)
           /\ gline[b] # <<>> => gfree[b] = 0
  BY FS_CardinalityType DEF GrInv
<1>1. ASSUME NEW b \in GrBounds
      PROVE  /\ Queue(Left(b), GrCalls) /\ Members(Left(b)) = GrWaiters(b) \ {c}
             /\ Left(b) # <<>> => gline[b] # <<>>
  <2>1. Queue(Left(b), GrCalls) /\ Members(Left(b)) = GrWaiters(b) \ {c}
    BY <1>0, LeaveIs
  <2> QED BY <1>0, <2>1, QueueMembers
<1>2. /\ gline' = [b \in GrBounds |-> IF Heir(b) = {} THEN Left(b) ELSE Tail(Left(b))]
      /\ gfree' = [b \in GrBounds |-> IF Gone(b) /\ Heir(b) = {} THEN gfree[b] + 1 ELSE gfree[b]]
  BY DEF Settle, GrBounds
<1>3. gcall' = [q \in GrCalls |->
                  CASE q = c -> after
                    [] q \in Heir("opening") -> Granted(gcall[q], "opening")
                    [] q \in Heir("calls") -> Granted(gcall[q], "calls")
                    [] OTHER -> gcall[q]]
  <2>1. after.at # "opening" /\ after.at # "calls"
    BY DEF GrBounds
  <2> QED BY <2>1 DEF Settle
<1>4. ASSUME NEW b \in GrBounds
      PROVE  /\ Heir(b) \subseteq GrWaiters(b) \ {c} /\ (Heir(b) # {} => Gone(b))
             /\ Heir(b) = {} /\ Gone(b) => Left(b) = <<>>
             /\ Heir(b) = {} \/ \E h \in GrWaiters(b) \ {c} :
                  /\ Heir(b) = {h} /\ Left(b) # <<>>
                  /\ Queue(Tail(Left(b)), GrCalls) /\ Members(Tail(Left(b))) = Members(Left(b)) \ {h}
  <2>1. CASE Gone(b) /\ Left(b) # <<>>
    <3>1. /\ Head(Left(b)) \in Members(Left(b)) /\ Queue(Tail(Left(b)), GrCalls)
          /\ Members(Tail(Left(b))) = Members(Left(b)) \ {Head(Left(b))}
      BY <1>1, <2>1, FirstOut
    <3>2. Heir(b) = {Head(Left(b))}
      BY <2>1
    <3> HIDE DEF Heir, Left
    <3> QED BY <1>1, <2>1, <3>1, <3>2
  <2>2. CASE ~(Gone(b) /\ Left(b) # <<>>)
    <3>1. Heir(b) = {}
      BY <2>2
    <3> HIDE DEF Heir, Left
    <3> QED BY <2>2, <3>1
  <2> QED BY <2>1, <2>2
<1> HIDE DEF Heir, Left
<1>5. "opening" \in GrBounds /\ "calls" \in GrBounds /\ \A b \in GrBounds : b = "opening" \/ b = "calls"
  BY DEF GrBounds
<1>6. \A q \in GrCalls : ~(q \in Heir("opening") /\ q \in Heir("calls"))
  BY <1>4, <1>5 DEF GrWaiters
<1>d. DOMAIN gcall' = GrCalls /\ gcall' = [q \in GrCalls |-> gcall'[q]]
  <2> DEFINE G(q) == CASE q = c -> after
                       [] q \in Heir("opening") -> Granted(gcall[q], "opening")
                       [] q \in Heir("calls") -> Granted(gcall[q], "calls")
                       [] OTHER -> gcall[q]
  <2>1. gcall' = [q \in GrCalls |-> G(q)]
    BY <1>3, Zenon
  <2> HIDE DEF G
  <2> QED BY ONLY <2>1
<1>7. gcall'[c] = after
  <2>1. c \notin Heir("opening") /\ c \notin Heir("calls")
    BY <1>4, <1>5
  <2> QED BY ONLY <1>3, <2>1, c \in GrCalls
<1>8. ASSUME NEW b \in GrBounds, NEW q \in Heir(b)
      PROVE  q \in GrCalls /\ q # c /\ gcall[q].at = b /\ gcall'[q] = Granted(gcall[q], b)
  <2>1. q \in GrCalls /\ q # c /\ gcall[q].at = b
    BY <1>4 DEF GrWaiters
  <2>2. \/ q \in Heir("opening") /\ q \notin Heir("calls") /\ b = "opening"
        \/ q \notin Heir("opening") /\ q \in Heir("calls") /\ b = "calls"
    BY <1>5, <1>6, <2>1
  <2> QED BY ONLY <1>3, <2>1, <2>2
<1>9. ASSUME NEW q \in GrCalls, q # c, \A b \in GrBounds : q \notin Heir(b)
      PROVE  gcall'[q] = gcall[q]
  <2>1. q \notin Heir("opening") /\ q \notin Heir("calls")
    BY <1>5, <1>9
  <2> QED BY ONLY <1>3, <2>1, q \in GrCalls, q # c
<1>10. ASSUME NEW b \in GrBounds, NEW q \in Heir(b)
       PROVE  /\ gcall'[q] \in GrCall /\ CallSays(q, gcall'[q]) /\ gcall'[q].at \notin GrBounds
              /\ gcall'[q].holds = gcall[q].holds \cup {b} /\ b \notin gcall[q].holds
  <2>1. q \in GrCalls /\ gcall[q].at = b /\ gcall'[q] = Granted(gcall[q], b)
    BY <1>8
  <2>2. gcall[q] \in GrCall /\ CallSays(q, gcall[q])
    BY <1>0, <2>1
  <2>3. (b = "opening" => gcall[q].at \in {"out", "opening"}) /\ (b = "calls" => gcall[q].at \in {"authn", "calls"})
    BY <2>1
  <2> QED BY <2>1, <2>2, <2>3, GrantedIs
<1>11. ASSUME NEW q \in GrCalls PROVE gcall'[q] \in GrCall /\ CallSays(q, gcall'[q])
  <2>1. CASE q = c
    BY <1>7, <2>1
  <2>2. CASE \E b \in GrBounds : q \in Heir(b)
    BY <1>10, <2>2
  <2>3. CASE q # c /\ \A b \in GrBounds : q \notin Heir(b)
    BY <1>0, <1>9, <2>3
  <2> QED BY <2>1, <2>2, <2>3
<1>12. gcall' \in [GrCalls -> GrCall] /\ \A q \in GrCalls : CallSays(q, gcall'[q])
  BY <1>11, <1>d
<1>13. ASSUME NEW b \in GrBounds PROVE GrWaiters(b)' = (GrWaiters(b) \ {c}) \ Heir(b)
  <2>1. ASSUME NEW q \in GrCalls
        PROVE  gcall'[q].at = b <=> gcall[q].at = b /\ q # c /\ q \notin Heir(b)
    <3>1. CASE q = c
      BY <1>7, <3>1
    <3>2. CASE \E d \in GrBounds : q \in Heir(d)
      <4>1. PICK d \in GrBounds : q \in Heir(d)
        BY <3>2
      <4>2. gcall'[q].at # b /\ gcall[q].at = d
        BY <1>8, <1>10, <4>1
      <4> QED BY <4>1, <4>2
    <3>3. CASE q # c /\ \A d \in GrBounds : q \notin Heir(d)
      BY <1>9, <3>3
    <3> QED BY <3>1, <3>2, <3>3
  <2> QED BY <2>1 DEF GrWaiters
<1>14. ASSUME NEW b \in GrBounds
       PROVE  GrHolders(b)' = (GrHolders(b) \ {q \in {c} : Gone(b)}) \cup Heir(b)
  <2>1. ASSUME NEW q \in GrCalls
        PROVE  b \in gcall'[q].holds <=> (b \in gcall[q].holds /\ ~(q = c /\ Gone(b))) \/ q \in Heir(b)
    <3>1. CASE q = c
      <4>1. q \notin Heir(b)
        BY <1>8, <3>1
      <4> QED BY <1>7, <3>1, <4>1
    <3>2. CASE \E d \in GrBounds : q \in Heir(d)
      <4>1. PICK d \in GrBounds : q \in Heir(d)
        BY <3>2
      <4>2. q # c /\ gcall'[q].holds = gcall[q].holds \cup {d} /\ gcall[q].at = d
        BY <1>8, <1>10, <4>1
      <4>3. q \in Heir(b) => b = d
        BY <1>8, <4>2
      <4> QED BY <4>1, <4>2, <4>3
    <3>3. CASE q # c /\ \A d \in GrBounds : q \notin Heir(d)
      BY <1>9, <3>3
    <3> QED BY <3>1, <3>2, <3>3
  <2>2. Heir(b) \subseteq GrCalls
    BY <1>8
  <2> QED BY <2>1, <2>2 DEF GrHolders
<1>15. ASSUME NEW b \in GrBounds
       PROVE  /\ IsFiniteSet(GrHolders(b)') /\ gfree'[b] + Cardinality(GrHolders(b)') = GrLimit /\ gfree'[b] \in Nat
              /\ Queue(gline'[b], GrCalls) /\ Members(gline'[b]) = GrWaiters(b)'
              /\ gline'[b] # <<>> => gfree'[b] = 0
  <2>0. Gone(b) => c \in GrHolders(b)
    BY DEF GrHolders
  <2>1. CASE ~Gone(b)
    <3>1. Heir(b) = {} /\ GrHolders(b)' = GrHolders(b)
      BY <1>4, <1>14, <2>1
    <3>2. gline'[b] = Left(b) /\ gfree'[b] = gfree[b]
      BY <1>2, <2>1, <3>1
    <3>3. Queue(gline'[b], GrCalls) /\ Members(gline'[b]) = GrWaiters(b)'
      BY <1>1, <1>13, <3>1, <3>2
    <3> QED BY <1>0, <1>1, <3>1, <3>2, <3>3
  <2>2. CASE Gone(b) /\ Heir(b) = {}
    <3>1. GrHolders(b)' = GrHolders(b) \ {c}
      BY <1>14, <2>2
    <3>2. gline'[b] = Left(b) /\ gfree'[b] = gfree[b] + 1 /\ Left(b) = <<>>
      BY <1>2, <1>4, <2>2
    <3>3. IsFiniteSet(GrHolders(b)') /\ Cardinality(GrHolders(b)') = Cardinality(GrHolders(b)) - 1
      BY <1>0, <2>0, <2>2, <3>1, FS_RemoveElement
    <3>4. Queue(gline'[b], GrCalls) /\ Members(gline'[b]) = GrWaiters(b)'
      BY <1>1, <1>13, <2>2, <3>2
    <3> HIDE DEF Gone
    <3>5. gfree[b] \in Nat /\ Cardinality(GrHolders(b)) \in Nat /\ gfree[b] + Cardinality(GrHolders(b)) = GrLimit
      BY <1>0
    <3> QED BY <3>2, <3>3, <3>4, <3>5
  <2>3. CASE Gone(b) /\ Heir(b) # {}
    <3>1. PICK h \in GrWaiters(b) \ {c} :
            /\ Heir(b) = {h} /\ Left(b) # <<>>
            /\ Queue(Tail(Left(b)), GrCalls) /\ Members(Tail(Left(b))) = Members(Left(b)) \ {h}
      BY <1>4, <2>3
    <3>2. gline'[b] = Tail(Left(b)) /\ gfree'[b] = gfree[b]
      BY <1>2, <2>3
    <3>3. h \notin GrHolders(b) /\ GrHolders(b)' = (GrHolders(b) \ {c}) \cup {h}
      BY <1>10, <1>14, <2>3, <3>1 DEF GrHolders
    <3>4. IsFiniteSet(GrHolders(b)') /\ Cardinality(GrHolders(b)') = Cardinality(GrHolders(b))
      BY <1>0, <2>0, <2>3, <3>3, Exchange
    <3>5. Queue(gline'[b], GrCalls) /\ Members(gline'[b]) = GrWaiters(b)'
      BY <1>1, <1>13, <3>1, <3>2
    <3>6. gfree[b] = 0
      BY <1>0, <1>1, <3>1
    <3> QED BY <1>0, <3>2, <3>4, <3>5, <3>6
  <2> QED BY <2>1, <2>2, <2>3
<1>16. /\ gfree' \in [GrBounds -> Nat] /\ DOMAIN gline' = GrBounds /\ gline' = [b \in GrBounds |-> gline'[b]]
  BY <1>2, <1>15
<1> HIDE DEF Gone
<1> QED BY <1>12, <1>15, <1>16 DEF GrInv

\* The first of a sequence
LEMMA FirstAppended ==
    ASSUME NEW S, NEW s, s = <<>>, NEW a \in S
    PROVE  Append(s, a) \in Seq(S) /\ Len(Append(s, a)) = 1 /\ Append(s, a)[1] = a /\ Append(s, a) # <<>>
<1>1. s \in Seq(S) /\ Len(s) = 0
  BY EmptySeq
<1>2. /\ Append(s, a) \in Seq(S) /\ Append(s, a) # <<>> /\ Len(Append(s, a)) = Len(s) + 1
      /\ Append(s, a)[Len(s) + 1] = a
  BY <1>1, AppendProperties
<1> QED BY <1>1, <1>2

\* The members of a call's fields
LEMMA GrValues ==
    /\ \A p \in {"opening", "authn", "calls", "handler", "reject", "prepared", "ready", "sent", "out", "handoff",
                 "attach", "body", "over"} : p \in GrPlaces
    /\ "none" \in GrFins /\ "none" \in GrAnswers /\ "stream" \in GrAnswers
    /\ \A s \in GrStatuses : s \in GrFins /\ s \in GrWords /\ s \in GrAnswers
    /\ \A w \in GrWords : w \in GrAnswers
    /\ \A s \in {"OK", "NotFound", "Unknown", "Internal", "Cancelled", "DeadlineExceeded", "ResourceExhausted",
                 "Unauthenticated", "Unavailable", "PermissionDenied"} : s \in GrStatuses
    /\ "eof" \in GrWords /\ "error" \in GrWords /\ "panic" \in GrWords
    /\ {} \in GrPermits
<1>1. \A p \in {"opening", "authn", "calls", "handler", "reject", "prepared", "ready", "sent", "out", "handoff",
                "attach", "body", "over"} : p \in GrPlaces
  BY DEF GrPlaces, Unanswered
<1>2. /\ "none" \in GrFins /\ "none" \in GrAnswers /\ "stream" \in GrAnswers
      /\ \A s \in GrStatuses : s \in GrFins /\ s \in GrWords /\ s \in GrAnswers
      /\ \A w \in GrWords : w \in GrAnswers
  BY DEF GrFins, GrAnswers, GrWords
<1>3. /\ \A s \in {"OK", "NotFound", "Unknown", "Internal", "Cancelled", "DeadlineExceeded", "ResourceExhausted",
                   "Unauthenticated", "Unavailable", "PermissionDenied"} : s \in GrStatuses
      /\ "eof" \in GrWords /\ "error" \in GrWords /\ "panic" \in GrWords
      /\ {} \in GrPermits
  BY DEF GrStatuses, GrWords, GrPermits
<1> QED BY <1>1, <1>2, <1>3

\* A status told as it is means itself.
LEMMA StatusMeant ==
    ASSUME NEW s \in GrStatuses
    PROVE  Meant(s) = s
<1>1. s \notin {"eof", "error"} /\ s # "panic"
  BY DEF GrStatuses
<1> QED BY <1>1 DEF Meant

\* A completed call gave everything up and recorded its status.
LEMMA CompletedIs ==
    ASSUME NEW x \in GrCall, x.fin \in GrStatuses, x.count = <<>>
    PROVE  /\ Completed(x) \in GrCall /\ Completed(x).holds = {} /\ Completed(x).stop = TRUE
           /\ Completed(x).res = FALSE /\ Completed(x).fin = "none" /\ Completed(x).upload # "open"
           /\ Completed(x).count = Append(x.count, x.fin) /\ Len(Completed(x).count) = 1
           /\ Completed(x).count # <<>> /\ Completed(x).count[1] = x.fin
           /\ Completed(x).at = x.at /\ Completed(x).answer = x.answer /\ Completed(x).term = x.term
           /\ Completed(x).told = x.told /\ Completed(x).timer = x.timer /\ Completed(x).poll = x.poll
           /\ Completed(x).woke = x.woke
<1> DEFINE z == 0
           m == -1
           e == {}
           n == "none"
           k == Append(x.count, x.fin)
           w == [x EXCEPT !.count = k]
           u == IF w.upload = "open" THEN "cut" ELSE w.upload
           y == [w EXCEPT !.holds = e, !.stop = TRUE, !.open = z, !.life = m, !.wait = z, !.res = FALSE,
                          !.fin = n, !.upload = u]
<1>0. Completed(x) = y
  BY DEF Completed, GivenUp
<1>1. k \in Seq(GrStatuses) /\ Len(k) = 1 /\ k # <<>> /\ k[1] = x.fin
  BY FirstAppended
<1>2. k = Append(x.count, x.fin)
  OBVIOUS
<1> HIDE DEF k
<1>3. w \in GrCall
  BY <1>1 DEF GrCall
<1>4. /\ w.at = x.at /\ w.answer = x.answer /\ w.term = x.term /\ w.told = x.told /\ w.timer = x.timer
      /\ w.poll = x.poll /\ w.woke = x.woke /\ w.count = k
  BY <1>1 DEF GrCall
<1> HIDE DEF w
<1>5. u \in GrUploads /\ u # "open"
  BY <1>3 DEF GrCall, GrUploads
<1>6. z \in Int /\ m \in Int /\ e \in GrPermits /\ n \in GrFins /\ e = {} /\ n = "none"
  BY GrValues
<1> HIDE DEF z, m, e, n, u
<1>7. y \in GrCall
  BY <1>3, <1>5, <1>6 DEF GrCall
<1>8. /\ y.holds = e /\ y.stop = TRUE /\ y.res = FALSE /\ y.fin = n /\ y.upload = u /\ y.at = w.at
      /\ y.answer = w.answer /\ y.term = w.term /\ y.told = w.told /\ y.timer = w.timer /\ y.poll = w.poll
      /\ y.woke = w.woke /\ y.count = w.count
  BY <1>3, <1>5, <1>6 DEF GrCall
<1> HIDE DEF y
<1> QED BY <1>0, <1>1, <1>2, <1>4, <1>5, <1>6, <1>7, <1>8

\* A call that has no body yet ends: one status is recorded, and told or not.
LEMMA RecordedOver ==
    ASSUME NEW c, NEW x \in GrCall, CallSays(c, x), x.at \notin {"body", "over"}, NEW status \in GrStatuses,
           NEW told \in Seq(GrWords), Len(told) <= 1, told # <<>> => Meant(told[1]) = status,
           NEW after, after = [Completed([x EXCEPT !.fin = status, !.told = told]) EXCEPT !.at = "over", !.answer = "none"]
    PROVE  after \in GrCall /\ CallSays(c, after) /\ after.holds = {} /\ after.at \notin GrBounds
<1> DEFINE w == [x EXCEPT !.fin = status, !.told = told]
           y == Completed(w)
           o == "over"
           n == "none"
           z == [y EXCEPT !.at = o, !.answer = n]
<1>0. after = z
  OBVIOUS
<1>1. /\ x.count = <<>> /\ x.term = "none" /\ x.timer = "none" /\ x.poll = "none"
  BY DEF CallSays, FreshSays
<1>2. status \in GrFins
  BY GrValues
<1>3. w \in GrCall
  BY <1>2 DEF GrCall
<1>4. /\ w.fin = status /\ w.told = told /\ w.count = x.count /\ w.term = x.term /\ w.timer = x.timer
      /\ w.poll = x.poll
  BY <1>2 DEF GrCall
<1> HIDE DEF w
<1>5. /\ y \in GrCall /\ y.holds = {} /\ y.stop = TRUE /\ y.res = FALSE /\ y.fin = "none" /\ y.upload # "open"
      /\ Len(y.count) = 1 /\ y.count # <<>> /\ y.count[1] = status /\ y.term = "none" /\ y.told = told
      /\ y.timer = "none" /\ y.poll = "none"
  BY <1>1, <1>3, <1>4, CompletedIs
<1> HIDE DEF y
<1>6. o \in GrPlaces /\ n \in GrAnswers /\ o = "over"
  BY GrValues
<1> HIDE DEF o, n
<1>7. z \in GrCall
  BY <1>5, <1>6 DEF GrCall
<1>8. /\ z.at = o /\ z.holds = y.holds /\ z.stop = y.stop /\ z.res = y.res /\ z.fin = y.fin /\ z.upload = y.upload
      /\ z.count = y.count /\ z.term = y.term /\ z.told = y.told /\ z.timer = y.timer /\ z.poll = y.poll
  BY <1>5, <1>6 DEF GrCall
<1> HIDE DEF z
<1>9. Recorded(z) /\ Record(z) = status
  BY <1>5, <1>8 DEF Recorded, Record
<1>10. OverSays(z)
  BY <1>5, <1>8, <1>9 DEF OverSays
<1>11. PlaceSays(z) /\ FreshSays(z)
  BY <1>5, <1>6, <1>8 DEF PlaceSays, FreshSays
<1>12. CallSays(c, z)
  BY <1>5, <1>6, <1>8, <1>10, <1>11 DEF CallSays
<1>13. z.at \notin GrBounds
  BY <1>6, <1>8 DEF GrBounds
<1> QED BY <1>0, <1>5, <1>7, <1>8, <1>12, <1>13

LEMMA EndKeeps ==
    ASSUME GrInv, NEW c \in GrCalls, gcall[c].at \notin {"body", "over"}, NEW status \in GrStatuses,
           NEW word \in GrWords, Meant(word) = status, EndWith(c, status, word)
    PROVE  GrInv'
<1> DEFINE x == gcall[c]
           told == Append(x.told, word)
           after == [Completed([x EXCEPT !.fin = status, !.told = told]) EXCEPT !.at = "over", !.answer = "none"]
<1>1. x \in GrCall /\ CallSays(c, x) /\ x.told = <<>>
  BY CallKnown DEF FreshSays
<1>2. told \in Seq(GrWords) /\ Len(told) <= 1 /\ told[1] = word
  <2>1. told \in Seq(GrWords) /\ Len(told) = 1 /\ told[1] = word
    BY <1>1, FirstAppended
  <2> QED BY <2>1
<1>3. Settle(c, after)
  BY DEF EndWith
<1> HIDE DEF told
<1>4. after = [Completed([x EXCEPT !.fin = status, !.told = told]) EXCEPT !.at = "over", !.answer = "none"]
  OBVIOUS
<1> HIDE DEF after
<1>5. after \in GrCall /\ CallSays(c, after) /\ after.holds = {} /\ after.at \notin GrBounds
  BY <1>1, <1>2, <1>4, RecordedOver
<1> QED BY <1>3, <1>5, SettleKeeps

\* Before the body a call only changes its place.
LEMMA StaysFresh ==
    ASSUME NEW c, NEW x \in GrCall, NEW y \in GrCall, CallSays(c, x), x.at \notin {"body", "over"},
           y.at \notin {"body", "over"}, PlaceSays(y), y.count = x.count, y.told = x.told, y.res = x.res,
           y.term = x.term, y.fin = x.fin, y.timer = x.timer, y.poll = x.poll, y.stop = x.stop
    PROVE  CallSays(c, y)
BY DEF CallSays, FreshSays

\* Only the times a call has left change.
LEMMA SameCall ==
    ASSUME NEW c, NEW x \in GrCall, NEW y \in GrCall, CallSays(c, x), y.at = x.at, y.holds = x.holds,
           y.answer = x.answer, y.count = x.count, y.told = x.told, y.res = x.res, y.term = x.term, y.fin = x.fin,
           y.timer = x.timer, y.poll = x.poll, y.stop = x.stop, y.woke = x.woke, y.upload = x.upload
    PROVE  CallSays(c, y)
<1>1. PlaceSays(y) /\ FreshSays(y) /\ (c \in GrServed /\ y.stop => y.count # <<>>)
  BY DEF CallSays, PlaceSays, FreshSays
<1>2. Record(y) = Record(x)
  BY DEF Record
<1>3. /\ InCustody(x) => InCustody(y)
      /\ TakenByPoll(x) => TakenByPoll(y)
      /\ TakenByTimer(x) => TakenByTimer(y)
      /\ Recorded(x) => Recorded(y)
  BY DEF InCustody, TakenByPoll, TakenByTimer, Recorded
<1>4. ToldSays(x) => ToldSays(y)
  BY <1>2 DEF ToldSays
<1>5. OverSays(x) => OverSays(y)
  BY <1>2, <1>3 DEF OverSays
<1> QED BY <1>1, <1>3, <1>4, <1>5 DEF CallSays, BodySaysOf

\* A refused call drains.
Refused(x, a) == [x EXCEPT !.at = "reject", !.answer = a]

LEMMA RefusedIs ==
    ASSUME NEW c, NEW x \in GrCall, CallSays(c, x), x.at \in {"out", "opening", "authn", "calls"},
           NEW a \in GrStatuses
    PROVE  /\ Refused(x, a) \in GrCall /\ CallSays(c, Refused(x, a)) /\ Refused(x, a).holds = x.holds
           /\ Refused(x, a).at \notin GrBounds
<1> DEFINE p == "reject"
           z == [x EXCEPT !.at = p, !.answer = a]
<1>0. Refused(x, a) = z
  BY DEF Refused
<1>1. p \in GrPlaces /\ a \in GrAnswers /\ p = "reject"
  BY GrValues
<1> HIDE DEF p
<1>2. z \in GrCall
  BY <1>1 DEF GrCall
<1>3. /\ z.at = p /\ z.answer = a /\ z.holds = x.holds /\ z.count = x.count /\ z.told = x.told /\ z.res = x.res
      /\ z.term = x.term /\ z.fin = x.fin /\ z.timer = x.timer /\ z.poll = x.poll /\ z.stop = x.stop
  BY <1>1 DEF GrCall
<1> HIDE DEF z
<1>4. PlaceSays(z)
  BY <1>1, <1>3 DEF CallSays, PlaceSays
<1>5. z.at \notin {"body", "over"} /\ z.at \notin GrBounds /\ x.at \notin {"body", "over"}
  BY <1>1, <1>3 DEF GrBounds
<1>6. CallSays(c, z)
  BY <1>2, <1>3, <1>4, <1>5, StaysFresh
<1> QED BY <1>0, <1>1, <1>2, <1>3, <1>5, <1>6

LEMMA Shortage == AtCapacity.code \in GrStatuses
  BY GrValues DEF AtCapacity

\* A permit is taken, waited for or refused.
LEMMA AcquireKeeps ==
    ASSUME GrInv, NEW c \in GrCalls, NEW call \in GrCall, CallSays(c, call), NEW b \in GrBounds,
           call.at = gcall[c].at, call.holds = gcall[c].holds,
           (b = "opening" /\ call.at = "out") \/ (b = "calls" /\ call.at = "authn"), AcquirePermit(c, call, b)
    PROVE  GrInv'
<1> DEFINE patience == Patience(call.open, GrDrain, GrMaxWait)
           waits == [call EXCEPT !.at = b, !.wait = patience]
           cap == AtCapacity.code
           refused == [call EXCEPT !.at = "reject", !.answer = cap]
<1>0. /\ gcall \in [GrCalls -> GrCall] /\ (\A q \in GrCalls : CallSays(q, gcall[q]))
      /\ gfree \in [GrBounds -> Nat] /\ DOMAIN gline = GrBounds /\ gline = [d \in GrBounds |-> gline[d]]
      /\ \A d \in GrBounds :
           /\ IsFiniteSet(GrHolders(d)) /\ gfree[d] + Cardinality(GrHolders(d)) = GrLimit
           /\ Cardinality(GrHolders(d)) \in Nat
           /\ Queue(gline[d], GrCalls) /\ Members(gline[d]) = GrWaiters(d)
           /\ gline[d] # <<>> => gfree[d] = 0
  BY FS_CardinalityType DEF GrInv
<1>1. \/ /\ gfree[b] > 0 /\ gcall' = [gcall EXCEPT ![c] = Granted(call, b)]
         /\ gfree' = [gfree EXCEPT ![b] = @ - 1] /\ UNCHANGED gline
      \/ /\ gfree[b] = 0 /\ gcall' = [gcall EXCEPT ![c] = waits]
         /\ gline' = [gline EXCEPT ![b] = Append(@, c)] /\ UNCHANGED gfree
      \/ gcall' = [gcall EXCEPT ![c] = refused] /\ UNCHANGED <<gline, gfree>>
  BY DEF AcquirePermit
<1>2. call.at \notin GrBounds
  BY DEF GrBounds
<1>3. CASE /\ gfree[b] > 0 /\ gcall' = [gcall EXCEPT ![c] = Granted(call, b)]
           /\ gfree' = [gfree EXCEPT ![b] = @ - 1] /\ UNCHANGED gline
  <2> DEFINE g == Granted(call, b)
  <2>1. g \in GrCall /\ CallSays(c, g) /\ g.holds = call.holds \cup {b} /\ b \notin call.holds /\ g.at \notin GrBounds
    BY GrantedIs
  <2> HIDE DEF g
  <2>2. gcall' \in [GrCalls -> GrCall] /\ gcall'[c] = g /\ \A q \in GrCalls : q # c => gcall'[q] = gcall[q]
    BY <1>0, <1>3, <2>1 DEF g
  <2>3. \A q \in GrCalls : CallSays(q, gcall'[q])
    BY <1>0, <2>1, <2>2
  <2>4. ASSUME NEW d \in GrBounds
        PROVE  /\ GrWaiters(d)' = GrWaiters(d)
               /\ GrHolders(d)' = IF d = b THEN GrHolders(d) \cup {c} ELSE GrHolders(d)
               /\ d = b => c \notin GrHolders(d)
    BY <1>2, <2>1, <2>2 DEF GrWaiters, GrHolders
  <2>5. /\ gfree[b] \in Nat /\ gfree'[b] = gfree[b] - 1 /\ \A d \in GrBounds : d # b => gfree'[d] = gfree[d]
    BY <1>0, <1>3
  <2>6. ASSUME NEW d \in GrBounds
        PROVE  /\ IsFiniteSet(GrHolders(d)') /\ gfree'[d] + Cardinality(GrHolders(d)') = GrLimit /\ gfree'[d] \in Nat
               /\ gline'[d] # <<>> => gfree'[d] = 0
    <3>1. CASE d = b
      <4>0. /\ GrHolders(b)' = GrHolders(b) \cup {c} /\ c \notin GrHolders(b) /\ IsFiniteSet(GrHolders(b))
            /\ gfree[b] + Cardinality(GrHolders(b)) = GrLimit /\ Cardinality(GrHolders(b)) \in Nat
            /\ gfree[b] > 0 /\ gline' = gline /\ (gline[b] # <<>> => gfree[b] = 0)
        BY <1>0, <1>3, <2>4
      <4>1. IsFiniteSet(GrHolders(b)') /\ Cardinality(GrHolders(b)') = Cardinality(GrHolders(b)) + 1
        BY <4>0, FS_AddElement
      <4>2. gfree'[b] + Cardinality(GrHolders(b)') = GrLimit /\ gfree'[b] \in Nat
        BY <2>5, <4>0, <4>1
      <4> QED BY <3>1, <4>0, <4>1, <4>2
    <3>2. CASE d # b
      BY <1>0, <1>3, <2>4, <2>5, <3>2
    <3> QED BY <3>1, <3>2
  <2>7. gfree' \in [GrBounds -> Nat]
    BY <1>0, <1>3, <2>6
  <2>8. \A d \in GrBounds : gline'[d] = gline[d]
    BY <1>3
  <2>9. DOMAIN gline' = GrBounds /\ gline' = [d \in GrBounds |-> gline'[d]]
    BY <1>0, <1>3
  <2> QED BY <1>0, <2>2, <2>3, <2>4, <2>6, <2>7, <2>8, <2>9 DEF GrInv
<1>4. CASE /\ gfree[b] = 0 /\ gcall' = [gcall EXCEPT ![c] = waits]
           /\ gline' = [gline EXCEPT ![b] = Append(@, c)] /\ UNCHANGED gfree
  <2>1. patience \in Int
    BY GrpcAssumption DEF Patience, GrCall
  <2>2. b \in GrPlaces
    BY GrValues
  <2> HIDE DEF patience
  <2>3. waits \in GrCall
    BY <2>1, <2>2 DEF GrCall
  <2>4. /\ waits.at = b /\ waits.holds = call.holds /\ waits.answer = call.answer /\ waits.count = call.count
        /\ waits.told = call.told /\ waits.res = call.res /\ waits.term = call.term /\ waits.fin = call.fin
        /\ waits.timer = call.timer /\ waits.poll = call.poll /\ waits.stop = call.stop
    BY <2>1, <2>2 DEF GrCall
  <2> HIDE DEF waits
  <2>5. PlaceSays(waits)
    BY <2>4 DEF CallSays, PlaceSays
  <2>6. waits.at \notin {"body", "over"} /\ call.at \notin {"body", "over"}
    BY <2>4
  <2>7. CallSays(c, waits)
    BY <2>3, <2>4, <2>5, <2>6, StaysFresh
  <2>8. gcall' \in [GrCalls -> GrCall] /\ gcall'[c] = waits /\ \A q \in GrCalls : q # c => gcall'[q] = gcall[q]
    BY <1>0, <1>4, <2>3
  <2>9. \A q \in GrCalls : CallSays(q, gcall'[q])
    BY <1>0, <2>7, <2>8
  <2>10. ASSUME NEW d \in GrBounds
         PROVE  /\ GrWaiters(d)' = (IF d = b THEN GrWaiters(d) \cup {c} ELSE GrWaiters(d))
                /\ GrHolders(d)' = GrHolders(d) /\ c \notin GrWaiters(d)
    BY <1>2, <2>4, <2>8 DEF GrWaiters, GrHolders
  <2>11. gline'[b] = Append(gline[b], c) /\ \A d \in GrBounds : d # b => gline'[d] = gline[d]
    BY <1>0, <1>4
  <2>12. ASSUME NEW d \in GrBounds
         PROVE  /\ Queue(gline'[d], GrCalls) /\ Members(gline'[d]) = GrWaiters(d)'
                /\ gline'[d] # <<>> => gfree[d] = 0
    <3>1. CASE d = b
      <4>1. Queue(gline'[b], GrCalls) /\ Members(gline'[b]) = Members(gline[b]) \cup {c}
        BY <1>0, <2>10, <2>11, JoinIs
      <4> QED BY <1>0, <1>4, <2>10, <3>1, <4>1
    <3>2. CASE d # b
      BY <1>0, <2>10, <2>11, <3>2
    <3> QED BY <3>1, <3>2
  <2>13. DOMAIN gline' = GrBounds /\ gline' = [d \in GrBounds |-> gline'[d]]
    BY <1>0, <1>4
  <2> QED BY <1>0, <1>4, <2>8, <2>9, <2>10, <2>12, <2>13 DEF GrInv
<1>5. CASE gcall' = [gcall EXCEPT ![c] = refused] /\ UNCHANGED <<gline, gfree>>
  <2>1. call.at \in {"out", "opening", "authn", "calls"}
    OBVIOUS
  <2>2. refused = Refused(call, cap) /\ cap \in GrStatuses
    BY Shortage DEF Refused
  <2> HIDE DEF refused, cap
  <2>3. refused \in GrCall /\ CallSays(c, refused) /\ refused.holds = call.holds /\ refused.at \notin GrBounds
    BY <2>1, <2>2, RefusedIs
  <2> QED BY <1>2, <1>5, <2>3, CallMoves, ZenonT(40)
<1> QED BY <1>1, <1>3, <1>4, <1>5

LEMMA StopValues ==
    ASSUME NEW expired \in BOOLEAN, NEW cancelled \in BOOLEAN
    PROVE  StopStatus(expired, cancelled) \in {"DeadlineExceeded", "Cancelled", "none"}
BY DEF StopStatus

\* A stop is a status of its own.
LEMMA StopsKnown ==
    ASSUME GrInv, NEW c \in GrCalls
    PROVE  /\ OpeningStatus(c) # "none" => OpeningStatus(c) \in GrStatuses /\ Meant(OpeningStatus(c)) = OpeningStatus(c)
                                           /\ OpeningStatus(c) \in GrWords
           /\ LifeStatus(c) # "none" => LifeStatus(c) \in GrStatuses /\ Meant(LifeStatus(c)) = LifeStatus(c)
                                        /\ LifeStatus(c) \in GrWords
<1>1. gcall[c].stop \in BOOLEAN
  BY CallKnown DEF GrCall
<1>2. (gcall[c].open = 0) \in BOOLEAN /\ (gcall[c].life = 0) \in BOOLEAN
  OBVIOUS
<1>3. OpeningStatus(c) \in {"DeadlineExceeded", "Cancelled", "none"}
  BY <1>1, <1>2, StopValues DEF OpeningStatus
<1>4. LifeStatus(c) \in {"DeadlineExceeded", "Cancelled", "none"}
  BY <1>1, <1>2, StopValues DEF LifeStatus
<1>5. "DeadlineExceeded" \in GrStatuses /\ "Cancelled" \in GrStatuses
  BY GrValues
<1>6. /\ Meant("DeadlineExceeded") = "DeadlineExceeded" /\ Meant("Cancelled") = "Cancelled"
      /\ "DeadlineExceeded" \in GrWords /\ "Cancelled" \in GrWords
  BY <1>5, StatusMeant, GrValues
<1> QED BY <1>3, <1>4, <1>5, <1>6

LEMMA OpeningStopsKeeps ==
    ASSUME GrInv, NEW c \in GrCalls, OpeningStops(c)
    PROVE  GrInv'
<1>1. OpeningStatus(c) # "none" /\ EndWith(c, OpeningStatus(c), OpeningStatus(c)) /\ gcall[c].at \notin {"body", "over"}
  BY DEF OpeningStops, Unanswered
<1> QED BY <1>1, StopsKnown, EndKeeps

\* observe, deadline, admit_opening
LEMMA ArriveCallKeeps ==
    ASSUME GrInv, NEW c \in GrCalls, NEW caller \in GrTimeouts, Arrive(c, caller)
    PROVE  GrInv'
<1> DEFINE deadlines == ServerDeadlines(caller, GrCap)
<1>0. gcall[c].at = "out" /\ gcall[c] \in GrCall /\ CallSays(c, gcall[c])
  BY CallKnown DEF Arrive
<1>1. PICK open \in deadlines.opening, life \in (IF deadlines.lifetime = {} THEN {-1} ELSE deadlines.lifetime) :
        IF open = 0 THEN EndWith(c, "DeadlineExceeded", "DeadlineExceeded")
        ELSE AcquirePermit(c, [gcall[c] EXCEPT !.open = open, !.life = life], "opening")
  BY DEF Arrive
<1>2. open \in Int /\ life \in Int
  <2>1. caller \subseteq Nat /\ GrCap \in Nat
    BY GrpcAssumption
  <2>2. deadlines.opening \subseteq caller \cup {GrCap} /\ deadlines.lifetime = caller
    BY DEF ServerDeadlines, Earliest
  <2>3. life \in caller \/ life = -1
    BY <2>2
  <2>4. open \in caller \/ open = GrCap
    BY <2>2
  <2> HIDE DEF deadlines
  <2>5. open \in Nat
    BY <2>1, <2>4
  <2>6. life \in Int
    BY <2>1, <2>3
  <2> QED BY <2>5, <2>6
<1>3. CASE open = 0
  <2>1. /\ "DeadlineExceeded" \in GrStatuses /\ "DeadlineExceeded" \in GrWords
        /\ Meant("DeadlineExceeded") = "DeadlineExceeded"
    BY GrValues, StatusMeant
  <2>2. EndWith(c, "DeadlineExceeded", "DeadlineExceeded")
    BY <1>1, <1>3
  <2> QED BY <1>0, <2>1, <2>2, EndKeeps
<1>4. CASE open # 0
  <2> DEFINE x == gcall[c]
             y == [x EXCEPT !.open = open, !.life = life]
  <2>1. y \in GrCall
    BY <1>0, <1>2 DEF GrCall
  <2>2. /\ y.at = x.at /\ y.holds = x.holds /\ y.answer = x.answer /\ y.count = x.count /\ y.told = x.told
        /\ y.res = x.res /\ y.term = x.term /\ y.fin = x.fin /\ y.timer = x.timer /\ y.poll = x.poll
        /\ y.stop = x.stop /\ y.woke = x.woke /\ y.upload = x.upload
    BY <1>0, <1>2 DEF GrCall
  <2>3. AcquirePermit(c, y, "opening") /\ "opening" \in GrBounds
    BY <1>1, <1>4 DEF GrBounds
  <2> HIDE DEF y
  <2>4. CallSays(c, y)
    BY <1>0, <2>1, <2>2, SameCall
  <2> QED BY <1>0, <2>1, <2>2, <2>3, <2>4, AcquireKeeps
<1> QED BY <1>3, <1>4

LEMMA PatienceKeeps ==
    ASSUME GrInv, NEW c \in GrCalls, PatienceEnds(c)
    PROVE  GrInv'
<1> DEFINE cap == AtCapacity.code
           y == Refused(gcall[c], cap)
<1>0. gcall[c].at \in {"out", "opening", "authn", "calls"} /\ gcall[c] \in GrCall /\ CallSays(c, gcall[c])
  BY CallKnown DEF PatienceEnds, GrBounds
<1>1. Settle(c, y) /\ cap \in GrStatuses
  BY Shortage DEF PatienceEnds, Refused
<1> HIDE DEF cap
<1>2. y \in GrCall /\ CallSays(c, y) /\ y.holds = gcall[c].holds /\ y.at \notin GrBounds
  BY <1>0, <1>1, RefusedIs
<1> QED BY <1>1, <1>2, SettleKeeps

LEMMA AuthenticateCallKeeps ==
    ASSUME GrInv, NEW c \in GrCalls, NEW f \in {"none", "Unauthenticated", "Unavailable", "PermissionDenied"},
           Authenticate(c, f)
    PROVE  GrInv'
<1>0. gcall[c].at = "authn" /\ gcall[c] \in GrCall /\ CallSays(c, gcall[c])
  BY CallKnown DEF Authenticate
<1>1. CASE OpeningStatus(c) # "none"
  <2>1. EndWith(c, OpeningStatus(c), OpeningStatus(c)) /\ gcall[c].at \notin {"body", "over"}
    BY <1>0, <1>1 DEF Authenticate
  <2> QED BY <1>1, <2>1, StopsKnown, EndKeeps
<1>2. CASE OpeningStatus(c) = "none" /\ f = "none"
  <2>1. AcquirePermit(c, gcall[c], "calls") /\ "calls" \in GrBounds
    BY <1>2 DEF Authenticate, GrBounds
  <2> QED BY <1>0, <2>1, AcquireKeeps
<1>3. CASE OpeningStatus(c) = "none" /\ f # "none"
  <2> DEFINE y == Refused(gcall[c], f)
  <2>1. Settle(c, y)
    BY <1>3 DEF Authenticate, Refused
  <2>2. f \in GrStatuses
    BY <1>3, GrValues
  <2>3. y \in GrCall /\ CallSays(c, y) /\ y.holds = gcall[c].holds /\ y.at \notin GrBounds
    BY <1>0, <2>2, RefusedIs
  <2> QED BY <2>1, <2>3, SettleKeeps
<1> QED BY <1>1, <1>2, <1>3

\* The headers are there: the opening's permit returns.
LEMMA AnswersKeeps ==
    ASSUME GrInv, NEW c \in GrCalls, NEW a \in {"stream", "NotFound", gcall[c].answer} \ {"none"}, Answers(c, a)
    PROVE  GrInv'
<1> DEFINE x == gcall[c]
           p == "handoff"
           hs == x.holds \ {"opening"}
           y == [x EXCEPT !.at = p, !.answer = a, !.holds = hs]
<1>0. x \in GrCall /\ CallSays(c, x) /\ PlaceSays(x)
  BY CallKnown
<1>1. (x.at = "handler" \/ (x.at = "reject" /\ a = x.answer)) /\ Settle(c, y)
  BY DEF Answers
<1>2. p \in GrPlaces /\ hs \in GrPermits /\ hs \subseteq x.holds /\ p = "handoff" /\ hs \subseteq {"calls"}
  BY <1>0, GrValues DEF GrCall, GrPermits, GrBounds
<1>3. a \in GrAnswers /\ a \in GrStatuses \cup {"stream"}
  <2>1. CASE x.at = "reject" /\ a = x.answer
    BY <1>0, <2>1, GrValues DEF PlaceSays
  <2>2. CASE x.at = "handler"
    <3>1. a = "stream" \/ a = "NotFound"
      BY <1>0, <2>2 DEF PlaceSays
    <3> QED BY <3>1, GrValues
  <2> QED BY <1>1, <2>1, <2>2
<1> HIDE DEF p, hs
<1>4. y \in GrCall
  BY <1>0, <1>2, <1>3 DEF GrCall
<1>5. /\ y.at = p /\ y.holds = hs /\ y.answer = a /\ y.count = x.count /\ y.told = x.told /\ y.res = x.res
      /\ y.term = x.term /\ y.fin = x.fin /\ y.timer = x.timer /\ y.poll = x.poll /\ y.stop = x.stop
  BY <1>0, <1>2, <1>3 DEF GrCall
<1> HIDE DEF y
<1>6. PlaceSays(y)
  BY <1>2, <1>3, <1>5 DEF PlaceSays
<1>7. y.at \notin {"body", "over"} /\ x.at \notin {"body", "over"} /\ y.at \notin GrBounds
  BY <1>1, <1>2, <1>5 DEF GrBounds
<1>8. CallSays(c, y)
  BY <1>0, <1>4, <1>5, <1>6, <1>7, StaysFresh
<1> QED BY <1>1, <1>2, <1>4, <1>5, <1>7, <1>8, SettleKeeps

LEMMA HandlerPanicsKeeps ==
    ASSUME GrInv, NEW c \in GrCalls, HandlerPanics(c)
    PROVE  GrInv'
<1>1. /\ "Internal" \in GrStatuses /\ "Internal" \in GrWords /\ Meant("Internal") = "Internal"
  BY GrValues, StatusMeant
<1>2. EndWith(c, "Internal", "Internal") /\ gcall[c].at \notin {"body", "over"}
  BY DEF HandlerPanics
<1> QED BY <1>1, <1>2, EndKeeps

\* A call of our own that has no body yet moves on.
LEMMA SentMoves ==
    ASSUME GrInv, NEW c \in GrCalls, NEW y \in GrCall, gcall' = [gcall EXCEPT ![c] = y], UNCHANGED <<gline, gfree>>,
           gcall[c].at \in {"out", "prepared", "ready", "sent", "handoff"},
           y.at \in {"prepared", "ready", "sent", "handoff", "attach"},
           PlaceSays(y), y.holds = gcall[c].holds, y.count = gcall[c].count, y.told = gcall[c].told,
           y.res = gcall[c].res, y.term = gcall[c].term, y.fin = gcall[c].fin, y.timer = gcall[c].timer,
           y.poll = gcall[c].poll, y.stop = gcall[c].stop
    PROVE  GrInv'
<1>1. gcall[c] \in GrCall /\ CallSays(c, gcall[c])
  BY CallKnown
<1>2. CallSays(c, y)
  BY <1>1, StaysFresh
<1>3. \A b \in GrBounds : y.at = b <=> gcall[c].at = b
  BY DEF GrBounds
<1> QED BY <1>2, <1>3, CallMoves

LEMMA PrepareKeeps ==
    ASSUME GrInv, NEW c \in GrCalls, NEW policy \in {"FullRpc", "OpeningOnly"}, NEW caller \in GrTimeouts,
           NEW parent \in GrTimeouts, PrepareCall(c, policy, caller, parent)
    PROVE  GrInv'
<1> DEFINE deadlines == ClientDeadlines(policy, GrCap, caller, parent)
           x == gcall[c]
           p == "prepared"
<1>0. x.at = "out" /\ x \in GrCall /\ PlaceSays(x) /\ gcall \in [GrCalls -> GrCall]
  BY CallKnown DEF PrepareCall
<1>1. PICK open \in deadlines.opening, life \in (IF deadlines.lifetime = {} THEN {-1} ELSE deadlines.lifetime) :
        gcall' = [gcall EXCEPT ![c].at = "prepared", ![c].open = open, ![c].life = life]
  BY DEF PrepareCall
<1>2. open \in Int /\ life \in Int
  <2>1. caller \subseteq Nat /\ parent \subseteq Nat /\ GrCap \in Nat
    BY GrpcAssumption
  <2>2. \A s, t : Earliest(s, t) \subseteq s \cup t
    BY DEF Earliest
  <2>a. Earliest(caller, {GrCap}) \subseteq caller \cup {GrCap}
    BY <2>2
  <2>3. Earliest(caller, {GrCap}) \subseteq Nat
    BY <2>1, <2>a
  <2>4. deadlines.opening \subseteq Nat /\ deadlines.lifetime \subseteq Nat
    BY <2>1, <2>2, <2>3, ZenonT(40) DEF ClientDeadlines
  <2>5. life \in Nat \/ life = -1
    BY <2>4
  <2> QED BY <2>4, <2>5
<1> DEFINE y == [x EXCEPT !.at = p, !.open = open, !.life = life]
<1>3. gcall' = [gcall EXCEPT ![c] = y]
  BY <1>0, <1>1
<1>4. p \in GrPlaces /\ p = "prepared" /\ UNCHANGED <<gline, gfree>>
  BY GrValues DEF PrepareCall
<1> HIDE DEF p
<1>5. y \in GrCall
  BY <1>0, <1>2, <1>4 DEF GrCall
<1>6. /\ y.at = p /\ y.holds = x.holds /\ y.answer = x.answer /\ y.count = x.count /\ y.told = x.told
      /\ y.res = x.res /\ y.term = x.term /\ y.fin = x.fin /\ y.timer = x.timer /\ y.poll = x.poll
      /\ y.stop = x.stop
  BY <1>0, <1>2, <1>4 DEF GrCall
<1> HIDE DEF y
<1>7. PlaceSays(y)
  BY <1>0, <1>4, <1>6 DEF PlaceSays
<1> QED BY <1>0, <1>3, <1>4, <1>5, <1>6, <1>7, SentMoves

LEMMA SendKeeps ==
    ASSUME GrInv, NEW c \in GrCalls, SendPrepared(c)
    PROVE  GrInv'
<1> DEFINE x == gcall[c]
           p == "ready"
           u == "open"
           y == [x EXCEPT !.at = p, !.upload = u]
<1>0. x.at = "prepared" /\ x \in GrCall /\ PlaceSays(x) /\ gcall \in [GrCalls -> GrCall]
  BY CallKnown DEF SendPrepared
<1>1. CASE OpeningStatus(c) # "none"
  <2>1. EndWith(c, OpeningStatus(c), OpeningStatus(c)) /\ gcall[c].at \notin {"body", "over"}
    BY <1>0, <1>1 DEF SendPrepared
  <2> QED BY <1>1, <2>1, StopsKnown, EndKeeps
<1>2. CASE OpeningStatus(c) = "none"
  <2>1. gcall' = [gcall EXCEPT ![c] = y] /\ UNCHANGED <<gline, gfree>>
    BY <1>0, <1>2 DEF SendPrepared
  <2>2. p \in GrPlaces /\ p = "ready" /\ u \in GrUploads
    BY GrValues DEF GrUploads
  <2> HIDE DEF p, u
  <2>3. y \in GrCall
    BY <1>0, <2>2 DEF GrCall
  <2>4. /\ y.at = p /\ y.holds = x.holds /\ y.answer = x.answer /\ y.count = x.count /\ y.told = x.told
        /\ y.res = x.res /\ y.term = x.term /\ y.fin = x.fin /\ y.timer = x.timer /\ y.poll = x.poll
        /\ y.stop = x.stop
    BY <1>0, <2>2 DEF GrCall
  <2> HIDE DEF y
  <2>5. PlaceSays(y)
    BY <1>0, <2>2, <2>4 DEF PlaceSays
  <2> QED BY <1>0, <2>1, <2>2, <2>3, <2>4, <2>5, SentMoves
<1> QED BY <1>1, <1>2

LEMMA ChannelKeeps ==
    ASSUME GrInv, NEW c \in GrCalls, ChannelReady(c)
    PROVE  GrInv'
<1> DEFINE x == gcall[c]
           p == "sent"
           y == [x EXCEPT !.at = p]
<1>0. x.at = "ready" /\ x \in GrCall /\ PlaceSays(x) /\ gcall \in [GrCalls -> GrCall]
  BY CallKnown DEF ChannelReady
<1>1. CASE OpeningStatus(c) # "none"
  <2>1. EndWith(c, OpeningStatus(c), OpeningStatus(c)) /\ gcall[c].at \notin {"body", "over"}
    BY <1>0, <1>1 DEF ChannelReady
  <2> QED BY <1>1, <2>1, StopsKnown, EndKeeps
<1>2. CASE OpeningStatus(c) = "none"
  <2>1. gcall' = [gcall EXCEPT ![c] = y] /\ UNCHANGED <<gline, gfree>>
    BY <1>0, <1>2 DEF ChannelReady
  <2>2. p \in GrPlaces /\ p = "sent"
    BY GrValues
  <2> HIDE DEF p
  <2>3. y \in GrCall
    BY <1>0, <2>2 DEF GrCall
  <2>4. /\ y.at = p /\ y.holds = x.holds /\ y.answer = x.answer /\ y.count = x.count /\ y.told = x.told
        /\ y.res = x.res /\ y.term = x.term /\ y.fin = x.fin /\ y.timer = x.timer /\ y.poll = x.poll
        /\ y.stop = x.stop
    BY <1>0, <2>2 DEF GrCall
  <2> HIDE DEF y
  <2>5. PlaceSays(y)
    BY <1>0, <2>2, <2>4 DEF PlaceSays
  <2> QED BY <1>0, <2>1, <2>2, <2>3, <2>4, <2>5, SentMoves
<1> QED BY <1>1, <1>2

LEMMA Transport == \A a \in TransportFailures : a \in GrStatuses /\ a \in GrWords /\ Meant(a) = a
<1> SUFFICES ASSUME NEW a \in TransportFailures PROVE a \in GrStatuses /\ a \in GrWords /\ Meant(a) = a
  OBVIOUS
<1>1. a \in {"DeadlineExceeded", "Unavailable"}
  BY DEF TransportFailures, TransportStatus
<1> QED BY <1>1, GrValues, StatusMeant

LEMMA RespondsKeeps ==
    ASSUME GrInv, NEW c \in GrCalls, NEW a \in {"stream", "NotFound"} \cup TransportFailures, Responds(c, a)
    PROVE  GrInv'
<1> DEFINE x == gcall[c]
           p == "handoff"
           y == [x EXCEPT !.at = p, !.answer = a]
<1>0. x.at \in {"sent", "ready"} /\ x \in GrCall /\ PlaceSays(x) /\ gcall \in [GrCalls -> GrCall]
  BY CallKnown DEF Responds
<1>1. gcall' = [gcall EXCEPT ![c] = y] /\ UNCHANGED <<gline, gfree>>
  BY <1>0 DEF Responds
<1>2. p \in GrPlaces /\ p = "handoff" /\ a \in GrAnswers /\ a \in GrStatuses \cup {"stream"}
  BY GrValues, Transport
<1> HIDE DEF p
<1>3. y \in GrCall
  BY <1>0, <1>2 DEF GrCall
<1>4. /\ y.at = p /\ y.holds = x.holds /\ y.answer = a /\ y.count = x.count /\ y.told = x.told
      /\ y.res = x.res /\ y.term = x.term /\ y.fin = x.fin /\ y.timer = x.timer /\ y.poll = x.poll
      /\ y.stop = x.stop
  BY <1>0, <1>2 DEF GrCall
<1> HIDE DEF y
<1>5. PlaceSays(y)
  BY <1>0, <1>2, <1>4 DEF PlaceSays
<1> QED BY <1>0, <1>1, <1>2, <1>3, <1>4, <1>5, SentMoves

LEMMA HandoffKeeps ==
    ASSUME GrInv, NEW c \in GrCalls, Handoff(c)
    PROVE  GrInv'
<1> DEFINE x == gcall[c]
           p == "attach"
           y == [x EXCEPT !.at = p]
<1>0. x.at = "handoff" /\ x \in GrCall /\ PlaceSays(x) /\ gcall \in [GrCalls -> GrCall]
  BY CallKnown DEF Handoff
<1>1. CASE OpeningStatus(c) # "none"
  <2>1. EndWith(c, OpeningStatus(c), OpeningStatus(c)) /\ gcall[c].at \notin {"body", "over"}
    BY <1>0, <1>1 DEF Handoff
  <2> QED BY <1>1, <2>1, StopsKnown, EndKeeps
<1>2. CASE OpeningStatus(c) = "none" /\ c \in GrSent /\ x.answer \in TransportFailures
  <2>1. EndWith(c, x.answer, x.answer) /\ gcall[c].at \notin {"body", "over"}
    BY <1>0, <1>2 DEF Handoff
  <2> QED BY <1>2, <2>1, Transport, EndKeeps
<1>3. CASE OpeningStatus(c) = "none" /\ ~(c \in GrSent /\ x.answer \in TransportFailures)
  <2>1. gcall' = [gcall EXCEPT ![c] = y] /\ UNCHANGED <<gline, gfree>>
    BY <1>0, <1>3 DEF Handoff
  <2>2. p \in GrPlaces /\ p = "attach"
    BY GrValues
  <2> HIDE DEF p
  <2>3. y \in GrCall
    BY <1>0, <2>2 DEF GrCall
  <2>4. /\ y.at = p /\ y.holds = x.holds /\ y.answer = x.answer /\ y.count = x.count /\ y.told = x.told
        /\ y.res = x.res /\ y.term = x.term /\ y.fin = x.fin /\ y.timer = x.timer /\ y.poll = x.poll
        /\ y.stop = x.stop
    BY <1>0, <2>2 DEF GrCall
  <2> HIDE DEF y
  <2>5. PlaceSays(y)
    BY <1>0, <2>2, <2>4 DEF PlaceSays
  <2> QED BY <1>0, <2>1, <2>2, <2>3, <2>4, <2>5, SentMoves
<1> QED BY <1>1, <1>2, <1>3

\* attach and ResponseBody::new: a response with a body is in custody.
LEMMA AttachKeeps ==
    ASSUME GrInv, NEW c \in GrCalls, NEW ended \in BOOLEAN, Attach(c, ended)
    PROVE  GrInv'
<1> DEFINE x == gcall[c]
           p == "body"
           z == 0
           n == "none"
           t == "armed"
           r == "ready"
           y == [x EXCEPT !.at = p, !.open = z, !.answer = n, !.res = TRUE, !.timer = t, !.poll = r]
<1>0. /\ x.at = "attach" /\ x \in GrCall /\ CallSays(c, x) /\ PlaceSays(x) /\ FreshSays(x)
      /\ gcall \in [GrCalls -> GrCall] /\ x.at \notin {"body", "over"}
  BY CallKnown DEF Attach
<1>1. CASE LifeStatus(c) # "none"
  <2>1. EndWith(c, LifeStatus(c), LifeStatus(c))
    BY <1>1 DEF Attach
  <2> QED BY <1>0, <1>1, <2>1, StopsKnown, EndKeeps
<1>2. CASE LifeStatus(c) = "none" /\ x.answer # "stream"
  <2>1. EndWith(c, x.answer, x.answer)
    BY <1>2 DEF Attach
  <2>2. x.answer \in GrStatuses
    BY <1>0, <1>2 DEF PlaceSays
  <2>3. x.answer \in GrWords /\ Meant(x.answer) = x.answer
    BY <2>2, GrValues, StatusMeant
  <2> QED BY <1>0, <2>1, <2>2, <2>3, EndKeeps
<1>3. CASE LifeStatus(c) = "none" /\ x.answer = "stream" /\ ended
  <2>1. EndWith(c, "Unknown", "eof")
    BY <1>3 DEF Attach
  <2>2. "Unknown" \in GrStatuses /\ "eof" \in GrWords /\ Meant("eof") = "Unknown"
    BY GrValues DEF Meant
  <2> QED BY <1>0, <2>1, <2>2, EndKeeps
<1>4. CASE LifeStatus(c) = "none" /\ x.answer = "stream" /\ ~ended
  <2>1. gcall' = [gcall EXCEPT ![c] = y] /\ UNCHANGED <<gline, gfree>>
    BY <1>0, <1>4 DEF Attach
  <2>2. /\ p \in GrPlaces /\ p = "body" /\ z \in Int /\ n \in GrAnswers /\ t \in GrTimers /\ t = "armed"
        /\ r \in GrPolls /\ r = "ready"
    BY GrValues DEF GrTimers, GrPolls
  <2> HIDE DEF p, z, n, t, r
  <2>3. y \in GrCall
    BY <1>0, <2>2 DEF GrCall
  <2>4. /\ y.at = p /\ y.holds = x.holds /\ y.count = x.count /\ y.told = x.told /\ y.res = TRUE
        /\ y.term = x.term /\ y.fin = x.fin /\ y.timer = t /\ y.poll = r /\ y.stop = x.stop
    BY <1>0, <2>2 DEF GrCall
  <2> HIDE DEF y
  <2>5. PlaceSays(y) /\ FreshSays(y)
    BY <1>0, <2>2, <2>4 DEF PlaceSays, FreshSays
  <2>6. InCustody(y)
    BY <1>0, <2>2, <2>4 DEF FreshSays, InCustody
  <2>7. CallSays(c, y)
    BY <1>0, <2>2, <2>4, <2>5, <2>6 DEF CallSays, BodySaysOf
  <2>8. \A b \in GrBounds : y.at = b <=> x.at = b
    BY <1>0, <2>2, <2>4 DEF GrBounds
  <2> QED BY <2>1, <2>3, <2>4, <2>7, <2>8, CallMoves
<1> QED BY <1>1, <1>2, <1>3, <1>4

\* A call in its body moves under the lock.
LEMMA BodyMoves ==
    ASSUME GrInv, NEW c \in GrCalls, NEW y \in GrCall, gcall' = [gcall EXCEPT ![c] = y], UNCHANGED <<gline, gfree>>,
           gcall[c].at = "body", y.at = "body", BodySaysOf(y), y.holds = gcall[c].holds, y.stop = gcall[c].stop,
           y.count = gcall[c].count
    PROVE  GrInv'
<1>1. CallSays(c, gcall[c])
  BY CallKnown
<1>2. PlaceSays(y) /\ FreshSays(y)
  BY <1>1 DEF CallSays, PlaceSays, FreshSays
<1>3. CallSays(c, y)
  BY <1>1, <1>2 DEF CallSays
<1>4. \A b \in GrBounds : y.at = b <=> gcall[c].at = b
  OBVIOUS
<1> QED BY <1>3, <1>4, CallMoves

\* What the body's state says of who ended it
LEMMA BodyKnown ==
    ASSUME GrInv, NEW c \in GrCalls, gcall[c].at = "body"
    PROVE  /\ gcall \in [GrCalls -> GrCall] /\ gcall[c] \in GrCall /\ BodySaysOf(gcall[c])
           /\ gcall[c].res => InCustody(gcall[c])
           /\ gcall[c].poll = "returning" => TakenByPoll(gcall[c])
           /\ gcall[c].timer = "finishing" => TakenByTimer(gcall[c]) /\ ToldSays(gcall[c])
           /\ ~gcall[c].res /\ gcall[c].poll \in {"ready", "parked"} =>
                (TakenByTimer(gcall[c]) \/ Recorded(gcall[c])) /\ ToldSays(gcall[c])
           /\ gcall[c].timer = "armed" /\ ~gcall[c].res => TakenByPoll(gcall[c])
<1>1. gcall \in [GrCalls -> GrCall] /\ gcall[c] \in GrCall /\ BodySaysOf(gcall[c])
  BY CallKnown DEF CallSays
<1>2. CASE InCustody(gcall[c])
  BY <1>1, <1>2 DEF InCustody
<1>3. CASE TakenByPoll(gcall[c])
  BY <1>1, <1>3 DEF TakenByPoll
<1>4. CASE (TakenByTimer(gcall[c]) \/ Recorded(gcall[c])) /\ ToldSays(gcall[c])
  BY <1>1, <1>4 DEF TakenByTimer, Recorded, ToldSays
<1> QED BY <1>1, <1>2, <1>3, <1>4 DEF BodySaysOf

\* The poll takes the resources.
LEMMA EndsKeeps ==
    ASSUME GrInv, NEW c \in GrCalls, gcall[c].at = "body", gcall[c].res, NEW status \in GrStatuses, NEW word \in GrWords,
           Meant(word) = status, gcall' = [gcall EXCEPT ![c] = Ends(gcall[c], status, word)],
           UNCHANGED <<gline, gfree>>
    PROVE  GrInv'
<1> DEFINE x == gcall[c]
           w == [x EXCEPT !.res = FALSE, !.fin = status]
           r == "returning"
           y == [w EXCEPT !.poll = r, !.answer = word]
<1>0. x \in GrCall /\ InCustody(x)
  BY BodyKnown
<1>1. Ends(x, status, word) = y
  BY DEF Ends, Taken
<1>2. status \in GrFins /\ word \in GrAnswers /\ r \in GrPolls /\ r = "returning"
  BY GrValues DEF GrPolls
<1> HIDE DEF r
<1>3. w \in GrCall
  BY <1>0, <1>2 DEF GrCall
<1>4. /\ w.at = x.at /\ w.holds = x.holds /\ w.count = x.count /\ w.told = x.told /\ w.res = FALSE
      /\ w.term = x.term /\ w.fin = status /\ w.timer = x.timer /\ w.stop = x.stop
  BY <1>0, <1>2 DEF GrCall
<1> HIDE DEF w
<1>5. y \in GrCall
  BY <1>2, <1>3 DEF GrCall
<1>6. /\ y.at = w.at /\ y.holds = w.holds /\ y.count = w.count /\ y.told = w.told /\ y.res = w.res
      /\ y.term = w.term /\ y.fin = w.fin /\ y.timer = w.timer /\ y.stop = w.stop /\ y.poll = r /\ y.answer = word
  BY <1>2, <1>3 DEF GrCall
<1> HIDE DEF y
<1>7. TakenByPoll(y)
  BY <1>0, <1>2, <1>4, <1>6 DEF InCustody, TakenByPoll
<1>8. BodySaysOf(y)
  BY <1>7 DEF BodySaysOf
<1>9. gcall' = [gcall EXCEPT ![c] = y]
  BY <1>1
<1> QED BY <1>4, <1>5, <1>6, <1>8, <1>9, BodyMoves, ZenonT(40)

\* The polling task enters.
LEMMA PollStartsKeeps ==
    ASSUME GrInv, NEW c \in GrCalls, PollStarts(c)
    PROVE  GrInv'
<1> DEFINE x == gcall[c]
<1>0. x.at = "body" /\ x.poll \in {"ready", "parked"} /\ UNCHANGED <<gline, gfree>>
  BY DEF PollStarts
<1>1. x \in GrCall /\ x.res \in BOOLEAN /\ gcall \in [GrCalls -> GrCall]
  BY <1>0, BodyKnown DEF GrCall
<1>2. CASE x.res /\ LifeStatus(c) # "none"
  <2>1. gcall' = [gcall EXCEPT ![c] = Ends(gcall[c], LifeStatus(c), LifeStatus(c))]
    BY <1>2 DEF PollStarts
  <2> QED BY <1>0, <1>2, <2>1, StopsKnown, EndsKeeps
<1>3. CASE x.res /\ LifeStatus(c) = "none"
  <2> DEFINE l == "locked"
             y == [x EXCEPT !.poll = l, !.woke = FALSE]
  <2>1. gcall' = [gcall EXCEPT ![c] = y]
    BY <1>3 DEF PollStarts
  <2>2. l \in GrPolls /\ l = "locked"
    BY DEF GrPolls
  <2> HIDE DEF l
  <2>3. y \in GrCall
    BY <1>1, <2>2 DEF GrCall
  <2>4. /\ y.at = x.at /\ y.holds = x.holds /\ y.count = x.count /\ y.told = x.told /\ y.res = x.res
        /\ y.term = x.term /\ y.fin = x.fin /\ y.timer = x.timer /\ y.stop = x.stop /\ y.poll = l
    BY <1>1, <2>2 DEF GrCall
  <2> HIDE DEF y
  <2>5. InCustody(x)
    BY <1>0, <1>3, BodyKnown
  <2>6. BodySaysOf(y)
    BY <2>2, <2>4, <2>5 DEF BodySaysOf, InCustody
  <2> QED BY <1>0, <2>1, <2>3, <2>4, <2>6, BodyMoves
<1>4. CASE ~x.res
  <2> DEFINE r == "ready"
             n == "none"
             told == IF x.term # "none" THEN Append(x.told, x.term)
                     ELSE IF x.told = <<>> THEN <<"eof">> ELSE x.told
             y == [x EXCEPT !.poll = r, !.woke = FALSE, !.term = n, !.told = told]
  <2>1. gcall' = [gcall EXCEPT ![c] = y]
    BY <1>4 DEF PollStarts
  <2>2. r \in GrPolls /\ r = "ready" /\ n \in GrFins /\ n = "none"
    BY GrValues DEF GrPolls
  <2>3. (TakenByTimer(x) \/ Recorded(x)) /\ ToldSays(x)
    BY <1>0, <1>4, BodyKnown
  <2>4. told \in Seq(GrWords) /\ Len(told) = 1 /\ Meant(told[1]) = Record(x)
    <3>1. CASE x.told = <<>> /\ x.term = Record(x) /\ x.term \in GrStatuses
      <4>1. x.term # "none" /\ x.term \in GrWords /\ Meant(x.term) = x.term
        BY <3>1, GrValues, StatusMeant DEF GrStatuses
      <4>2. told = Append(x.told, x.term)
        BY <4>1
      <4>3. told \in Seq(GrWords) /\ Len(told) = 1 /\ told[1] = x.term
        BY <3>1, <4>1, <4>2, FirstAppended
      <4> QED BY <3>1, <4>1, <4>3
    <3>2. CASE x.term = "none" /\ Len(x.told) = 1 /\ Meant(x.told[1]) = Record(x)
      <4>1. x.told \in Seq(GrWords) /\ x.told # <<>>
        BY <1>1, <3>2, EmptySeq DEF GrCall
      <4>2. told = x.told
        BY <3>2, <4>1
      <4> QED BY <3>2, <4>1, <4>2
    <3> QED BY <2>3, <3>1, <3>2 DEF ToldSays
  <2> HIDE DEF r, n, told
  <2>5. y \in GrCall
    BY <1>1, <2>2, <2>4 DEF GrCall
  <2>6. /\ y.at = x.at /\ y.holds = x.holds /\ y.count = x.count /\ y.told = told /\ y.res = x.res
        /\ y.term = n /\ y.fin = x.fin /\ y.timer = x.timer /\ y.stop = x.stop /\ y.poll = r /\ y.upload = x.upload
    BY <1>1, <2>2, <2>4 DEF GrCall
  <2> HIDE DEF y
  <2>7. TakenByTimer(y) \/ Recorded(y)
    BY <2>3, <2>6 DEF TakenByTimer, Recorded
  <2>8. Record(y) = Record(x)
    BY <2>6 DEF Record
  <2>9. ToldSays(y)
    BY <2>2, <2>3, <2>4, <2>6, <2>8 DEF ToldSays
  <2>10. BodySaysOf(y)
    BY <2>7, <2>9 DEF BodySaysOf
  <2> QED BY <1>0, <2>1, <2>5, <2>6, <2>10, BodyMoves
<1> QED BY <1>1, <1>2, <1>3, <1>4

\* What a poll brings is recorded as what it means.
LEMMA PolledMeant ==
    ASSUME NEW c, NEW what \in Polled(c), what[1] # "none"
    PROVE  what[1] \in GrStatuses /\ what[2] \in GrWords /\ Meant(what[2]) = what[1]
<1>1. \/ what = <<"OK", "OK">> \/ what = <<"Unknown", "Unknown">> \/ what = <<"Unknown", "eof">>
      \/ what = <<"Unknown", "error">> \/ what = <<"Internal", "Internal">>
      \/ what = <<"Unavailable", "Unavailable">> \/ what = <<"Cancelled", "panic">>
  BY DEF Polled
<1>2. /\ {"OK", "Unknown", "Internal", "Unavailable", "Cancelled"} \subseteq GrStatuses
      /\ {"eof", "error", "panic"} \subseteq GrWords
  BY GrValues
<1>3. \A s \in {"OK", "Unknown", "Internal", "Unavailable", "Cancelled"} : s \in GrWords /\ Meant(s) = s
  BY <1>2, GrValues, StatusMeant
<1>4. Meant("eof") = "Unknown" /\ Meant("error") = "Unknown" /\ Meant("panic") = "Cancelled"
  BY DEF Meant
<1> QED BY <1>1, <1>2, <1>3, <1>4

LEMMA PollEndsKeeps ==
    ASSUME GrInv, NEW c \in GrCalls, NEW what \in Polled(c), PollEnds(c, what)
    PROVE  GrInv'
<1> DEFINE x == gcall[c]
           cut == LifeStatus(c) # "none" /\ what \notin {<<"Internal", "Internal">>, <<"Cancelled", "panic">>}
<1>0. x.at = "body" /\ x.poll = "locked" /\ UNCHANGED <<gline, gfree>>
  BY DEF PollEnds
<1>1. x \in GrCall /\ InCustody(x) /\ x.res
  <2>1. x \in GrCall /\ BodySaysOf(x)
    BY <1>0, BodyKnown
  <2> QED BY <1>0, <2>1 DEF BodySaysOf, InCustody, TakenByPoll, ToldSays
<1>2. gcall' = [gcall EXCEPT ![c] =
         IF cut THEN Ends(x, LifeStatus(c), LifeStatus(c))
         ELSE IF what[1] # "none" THEN Ends(x, what[1], what[2])
         ELSE [x EXCEPT !.poll = IF what[2] = "pending" THEN "parked" ELSE "ready"]]
  BY DEF PollEnds
<1>3. cut => LifeStatus(c) # "none"
  OBVIOUS
<1> HIDE DEF cut
<1>4. CASE cut
  <2>1. gcall' = [gcall EXCEPT ![c] = Ends(gcall[c], LifeStatus(c), LifeStatus(c))]
    BY <1>2, <1>4
  <2> QED BY <1>0, <1>1, <1>3, <1>4, <2>1, StopsKnown, EndsKeeps
<1>5. CASE ~cut /\ what[1] # "none"
  <2>1. gcall' = [gcall EXCEPT ![c] = Ends(gcall[c], what[1], what[2])]
    BY <1>2, <1>5
  <2>2. what[1] \in GrStatuses /\ what[2] \in GrWords /\ Meant(what[2]) = what[1]
    BY <1>5, PolledMeant
  <2> QED BY <1>0, <1>1, <2>1, <2>2, EndsKeeps
<1>6. CASE ~cut /\ what[1] = "none"
  <2> DEFINE p == IF what[2] = "pending" THEN "parked" ELSE "ready"
             y == [x EXCEPT !.poll = p]
  <2>1. gcall' = [gcall EXCEPT ![c] = y]
    BY <1>2, <1>6
  <2>2. p \in GrPolls /\ p \in {"parked", "ready"}
    BY DEF GrPolls
  <2> HIDE DEF p
  <2>3. y \in GrCall
    BY <1>1, <2>2 DEF GrCall
  <2>4. /\ y.at = x.at /\ y.holds = x.holds /\ y.count = x.count /\ y.told = x.told /\ y.res = x.res
        /\ y.term = x.term /\ y.fin = x.fin /\ y.timer = x.timer /\ y.stop = x.stop /\ y.poll = p
    BY <1>1, <2>2 DEF GrCall
  <2> HIDE DEF y
  <2>5. BodySaysOf(y)
    BY <1>1, <2>2, <2>4 DEF BodySaysOf, InCustody
  <2> QED BY <1>0, <2>1, <2>3, <2>4, <2>5, BodyMoves
<1> QED BY <1>4, <1>5, <1>6

\* Outside the lock: the poll that took the resources records the status and returns its frame.
LEMMA PollReturnsKeeps ==
    ASSUME GrInv, NEW c \in GrCalls, PollReturns(c)
    PROVE  GrInv'
<1> DEFINE x == gcall[c]
           t == IF x.timer = "armed" THEN "ended" ELSE x.timer
           w == [x EXCEPT !.timer = t]
           y == Completed(w)
           r == "ready"
           n == "none"
           told == Append(y.told, x.answer)
           z == [y EXCEPT !.poll = r, !.answer = n, !.told = told]
<1>0. x.at = "body" /\ x.poll = "returning" /\ Settle(c, z)
  BY DEF PollReturns
<1>1. x \in GrCall /\ TakenByPoll(x) /\ CallSays(c, x)
  BY <1>0, BodyKnown, CallKnown
<1>2. t \in GrTimers /\ t = "ended"
  BY <1>1 DEF TakenByPoll, GrTimers
<1> HIDE DEF t
<1>3. w \in GrCall
  BY <1>1, <1>2 DEF GrCall
<1>4. /\ w.at = x.at /\ w.count = x.count /\ w.told = x.told /\ w.term = x.term /\ w.fin = x.fin /\ w.timer = t
  BY <1>1, <1>2 DEF GrCall
<1> HIDE DEF w
<1>5. /\ y \in GrCall /\ y.holds = {} /\ y.stop = TRUE /\ y.res = FALSE /\ y.fin = "none" /\ y.upload # "open"
      /\ Len(y.count) = 1 /\ y.count # <<>> /\ y.count[1] = x.fin /\ y.term = "none" /\ y.told = <<>>
      /\ y.timer = "ended" /\ y.at = "body"
  BY <1>0, <1>1, <1>2, <1>3, <1>4, CompletedIs DEF TakenByPoll
<1> HIDE DEF y
<1>6. /\ r \in GrPolls /\ r = "ready" /\ n \in GrAnswers
  BY GrValues DEF GrPolls
<1>7. told \in Seq(GrWords) /\ Len(told) = 1 /\ told[1] = x.answer /\ Meant(x.answer) = x.fin
  BY <1>1, <1>5, FirstAppended DEF TakenByPoll
<1> HIDE DEF r, n, told
<1>8. z \in GrCall
  BY <1>5, <1>6, <1>7 DEF GrCall
<1>9. /\ z.at = y.at /\ z.holds = y.holds /\ z.stop = y.stop /\ z.res = y.res /\ z.fin = y.fin /\ z.upload = y.upload
      /\ z.count = y.count /\ z.term = y.term /\ z.told = told /\ z.timer = y.timer /\ z.poll = r
  BY <1>5, <1>6, <1>7 DEF GrCall
<1> HIDE DEF z
<1>10. Recorded(z) /\ Record(z) = x.fin
  BY <1>5, <1>9 DEF Recorded, Record
<1>11. ToldSays(z)
  BY <1>5, <1>6, <1>7, <1>9, <1>10 DEF ToldSays
<1>12. PlaceSays(z) /\ FreshSays(z) /\ z.at \notin GrBounds
  BY <1>5, <1>9 DEF PlaceSays, FreshSays, GrBounds
<1>13. CallSays(c, z)
  BY <1>5, <1>9, <1>10, <1>11, <1>12 DEF CallSays, BodySaysOf
<1>14. z.holds \subseteq gcall[c].holds
  BY <1>5, <1>9
<1> QED BY <1>0, <1>8, <1>12, <1>13, <1>14, SettleKeeps

\* The timer: the first to come takes the resources and leaves the trailers.
LEMMA TimerFiresKeeps ==
    ASSUME GrInv, NEW c \in GrCalls, NEW panicked \in BOOLEAN, TimerFires(c, panicked)
    PROVE  GrInv'
<1> DEFINE x == gcall[c]
           status == IF panicked THEN "Internal" ELSE LifeStatus(c)
<1>0. /\ x.at = "body" /\ x.timer = "armed" /\ x.poll # "locked" /\ status # "none"
      /\ gcall' = [gcall EXCEPT ![c] = Terminate(c, status)] /\ UNCHANGED <<gline, gfree>>
  BY DEF TimerFires
<1>1. x \in GrCall /\ x.res \in BOOLEAN
  BY <1>0, BodyKnown DEF GrCall
<1>2. status \in GrStatuses
  BY <1>0, StopsKnown, GrValues
<1> HIDE DEF status
<1>3. CASE x.res
  <2> DEFINE w == [x EXCEPT !.res = FALSE, !.fin = status]
             f == "finishing"
             y == [w EXCEPT !.term = status, !.timer = f]
  <2>1. Terminate(c, status) = y
    BY <1>3 DEF Terminate, Taken
  <2>2. status \in GrFins /\ f \in GrTimers /\ f = "finishing"
    BY <1>2, GrValues DEF GrTimers
  <2> HIDE DEF f
  <2>3. w \in GrCall
    BY <1>1, <2>2 DEF GrCall
  <2>4. /\ w.at = x.at /\ w.holds = x.holds /\ w.count = x.count /\ w.told = x.told /\ w.res = FALSE
        /\ w.fin = status /\ w.stop = x.stop /\ w.poll = x.poll
    BY <1>1, <2>2 DEF GrCall
  <2> HIDE DEF w
  <2>5. y \in GrCall
    BY <2>2, <2>3 DEF GrCall
  <2>6. /\ y.at = w.at /\ y.holds = w.holds /\ y.count = w.count /\ y.told = w.told /\ y.res = w.res
        /\ y.term = status /\ y.fin = w.fin /\ y.timer = f /\ y.stop = w.stop /\ y.poll = w.poll
    BY <2>2, <2>3 DEF GrCall
  <2> HIDE DEF y
  <2>7. InCustody(x)
    BY <1>0, <1>3, BodyKnown
  <2>8. TakenByTimer(y)
    BY <1>2, <2>2, <2>4, <2>6, <2>7 DEF InCustody, TakenByTimer
  <2>9. ToldSays(y)
    BY <1>0, <1>2, <2>2, <2>4, <2>6, <2>7 DEF InCustody, ToldSays, Record
  <2>10. BodySaysOf(y)
    BY <2>8, <2>9 DEF BodySaysOf
  <2>11. gcall' = [gcall EXCEPT ![c] = y]
    BY <1>0, <2>1
  <2> QED BY <1>0, <2>4, <2>5, <2>6, <2>10, <2>11, BodyMoves
<1>4. CASE ~x.res
  <2> DEFINE e == "ended"
             y == [x EXCEPT !.timer = e]
  <2>1. Terminate(c, status) = y
    BY <1>4 DEF Terminate
  <2>2. e \in GrTimers /\ e = "ended"
    BY DEF GrTimers
  <2> HIDE DEF e
  <2>3. y \in GrCall
    BY <1>1, <2>2 DEF GrCall
  <2>4. /\ y.at = x.at /\ y.holds = x.holds /\ y.count = x.count /\ y.told = x.told /\ y.res = x.res
        /\ y.term = x.term /\ y.fin = x.fin /\ y.timer = e /\ y.stop = x.stop /\ y.poll = x.poll /\ y.answer = x.answer
    BY <1>1, <2>2 DEF GrCall
  <2> HIDE DEF y
  <2>5. TakenByPoll(x)
    BY <1>0, <1>4, BodyKnown
  <2>6. BodySaysOf(y)
    BY <2>2, <2>4, <2>5 DEF TakenByPoll, BodySaysOf
  <2>7. gcall' = [gcall EXCEPT ![c] = y]
    BY <1>0, <2>1
  <2> QED BY <1>0, <2>3, <2>4, <2>6, <2>7, BodyMoves
<1> QED BY <1>1, <1>3, <1>4

\* Outside the lock: the timer records the status and wakes a parked task.
LEMMA TimerFinishesKeeps ==
    ASSUME GrInv, NEW c \in GrCalls, TimerFinishes(c)
    PROVE  GrInv'
<1> DEFINE x == gcall[c]
           y == Completed(x)
           e == "ended"
           k == (x.poll = "parked")
           z == [y EXCEPT !.timer = e, !.woke = k]
<1>0. x.timer = "finishing" /\ Settle(c, z)
  BY DEF TimerFinishes
<1>1. x \in GrCall /\ CallSays(c, x)
  BY CallKnown
<1>2. x.at \in {"body", "over"}
  BY <1>0, <1>1 DEF CallSays, FreshSays
<1>3. TakenByTimer(x) /\ (x.at = "body" => ToldSays(x)) /\ (x.at = "over" => OverSays(x))
  <2>1. CASE x.at = "body"
    BY <1>0, <2>1, BodyKnown
  <2>2. CASE x.at = "over"
    BY <1>0, <1>1, <2>2 DEF CallSays, OverSays, Recorded
  <2> QED BY <1>2, <2>1, <2>2
<1>4. /\ y \in GrCall /\ y.holds = {} /\ y.stop = TRUE /\ y.res = FALSE /\ y.fin = "none" /\ y.upload # "open"
      /\ Len(y.count) = 1 /\ y.count # <<>> /\ y.count[1] = x.fin /\ y.term = x.term /\ y.told = x.told
      /\ y.poll = x.poll /\ y.at = x.at
  BY <1>1, <1>3, CompletedIs DEF TakenByTimer
<1> HIDE DEF y
<1>5. e \in GrTimers /\ e = "ended" /\ k \in BOOLEAN /\ (x.poll = "parked" => k)
  BY DEF GrTimers
<1> HIDE DEF e, k
<1>6. z \in GrCall
  BY <1>4, <1>5 DEF GrCall
<1>7. /\ z.at = y.at /\ z.holds = y.holds /\ z.stop = y.stop /\ z.res = y.res /\ z.fin = y.fin /\ z.upload = y.upload
      /\ z.count = y.count /\ z.term = y.term /\ z.told = y.told /\ z.timer = e /\ z.poll = y.poll /\ z.woke = k
  BY <1>4, <1>5 DEF GrCall
<1> HIDE DEF z
<1>8. Recorded(z) /\ Record(z) = Record(x)
  BY <1>3, <1>4, <1>5, <1>7 DEF Recorded, Record, TakenByTimer
<1>9. x.at = "body" => ToldSays(z)
  BY <1>3, <1>4, <1>5, <1>7, <1>8 DEF ToldSays
<1>10. x.at = "over" => OverSays(z)
  BY <1>3, <1>4, <1>5, <1>7, <1>8 DEF OverSays
<1>11. PlaceSays(z) /\ FreshSays(z) /\ z.at \notin GrBounds
  BY <1>2, <1>4, <1>7 DEF PlaceSays, FreshSays, GrBounds
<1>12. CallSays(c, z)
  BY <1>2, <1>4, <1>7, <1>8, <1>9, <1>10, <1>11 DEF CallSays, BodySaysOf
<1>13. z.holds \subseteq gcall[c].holds
  BY <1>4, <1>7
<1> QED BY <1>0, <1>6, <1>11, <1>12, <1>13, SettleKeeps

\* The caller leaves before the headers.
LEMMA LeavesUnanswered ==
    ASSUME GrInv, NEW c \in GrCalls, gcall[c].at \in Unanswered,
           Settle(c, [Completed([gcall[c] EXCEPT !.fin = "Cancelled"]) EXCEPT !.at = "over", !.answer = "none"])
    PROVE  GrInv'
<1> DEFINE x == gcall[c]
           s == "Cancelled"
           told == x.told
           after == [Completed([x EXCEPT !.fin = s, !.told = told]) EXCEPT !.at = "over", !.answer = "none"]
<1>1. x \in GrCall /\ CallSays(c, x) /\ FreshSays(x) /\ x.at \notin {"body", "over"}
  BY CallKnown DEF Unanswered
<1>e. <<>> \in Seq(GrWords) /\ Len(<<>>) = 0
  BY EmptySeq
<1>t. told = <<>>
  BY <1>1 DEF FreshSays
<1>2. told = <<>> /\ told \in Seq(GrWords) /\ Len(told) <= 1
  BY <1>e, <1>t
<1>3. s \in GrStatuses
  BY GrValues
<1>4. [x EXCEPT !.fin = s, !.told = told] = [x EXCEPT !.fin = s]
  BY <1>1 DEF GrCall
<1>5. Settle(c, after)
  BY <1>4
<1> HIDE DEF told, s
<1>6. after = [Completed([x EXCEPT !.fin = s, !.told = told]) EXCEPT !.at = "over", !.answer = "none"]
  OBVIOUS
<1> HIDE DEF after
<1>7. after \in GrCall /\ CallSays(c, after) /\ after.holds = {} /\ after.at \notin GrBounds
  BY <1>1, <1>2, <1>3, <1>6, RecordedOver
<1> QED BY <1>5, <1>7, SettleKeeps

\* The body is dropped: in custody the call is recorded as cancelled, otherwise it was ended already.
LEMMA LeavesBody ==
    ASSUME GrInv, NEW c \in GrCalls, gcall[c].at = "body", gcall[c].poll \in {"ready", "parked"}, NEW gone,
           gone = [gcall[c] EXCEPT !.at = "over", !.poll = "none", !.woke = FALSE, !.term = "none", !.answer = "none",
                                   !.timer = IF gcall[c].timer = "armed" THEN "ended" ELSE gcall[c].timer],
           Settle(c, IF gcall[c].res THEN Completed([gone EXCEPT !.fin = "Cancelled"]) ELSE gone)
    PROVE  GrInv'
<1> DEFINE x == gcall[c]
           o == "over"
           n == "none"
           t == IF x.timer = "armed" THEN "ended" ELSE x.timer
           g == [x EXCEPT !.at = o, !.poll = n, !.woke = FALSE, !.term = n, !.answer = n, !.timer = t]
<1>0. gone = g
  OBVIOUS
<1>1. x \in GrCall /\ CallSays(c, x) /\ PlaceSays(x) /\ x.res \in BOOLEAN
  BY CallKnown DEF GrCall
<1>2. /\ o \in GrPlaces /\ o = "over" /\ n \in GrPolls /\ n \in GrFins /\ n \in GrAnswers /\ n = "none"
      /\ t \in GrTimers /\ t # "armed" /\ (t = "finishing" <=> x.timer = "finishing")
  BY <1>1, GrValues DEF GrPolls, GrTimers, GrCall
<1> HIDE DEF o, n, t
<1>3. g \in GrCall
  BY <1>1, <1>2 DEF GrCall
<1>4. /\ g.at = o /\ g.holds = x.holds /\ g.count = x.count /\ g.told = x.told /\ g.res = x.res /\ g.term = n
      /\ g.fin = x.fin /\ g.timer = t /\ g.stop = x.stop /\ g.poll = n /\ g.upload = x.upload
  BY <1>1, <1>2 DEF GrCall
<1> HIDE DEF g
<1>h. g.holds \subseteq {"calls"}
  BY <1>1, <1>4 DEF PlaceSays
<1>5. CASE x.res
  <2> DEFINE s == "Cancelled"
             w == [g EXCEPT !.fin = s]
             y == Completed(w)
  <2>1. Settle(c, y)
    BY <1>0, <1>5
  <2>2. s \in GrStatuses /\ s \in GrFins
    BY GrValues
  <2> HIDE DEF s
  <2>3. w \in GrCall
    BY <1>3, <2>2 DEF GrCall
  <2>4. w.at = g.at /\ w.count = g.count /\ w.told = g.told /\ w.term = g.term /\ w.fin = s /\ w.timer = g.timer
        /\ w.poll = g.poll
    BY <1>3, <2>2 DEF GrCall
  <2> HIDE DEF w
  <2>5. InCustody(x)
    BY <1>5, BodyKnown
  <2>a. /\ w.fin \in GrStatuses /\ w.count = <<>> /\ w.told = <<>> /\ w.term = "none" /\ w.poll = "none"
        /\ w.timer # "finishing" /\ w.at = "over"
    BY <1>2, <1>4, <2>2, <2>4, <2>5 DEF InCustody
  <2>6. /\ y \in GrCall /\ y.holds = {} /\ y.stop = TRUE /\ y.res = FALSE /\ y.fin = "none" /\ y.upload # "open"
        /\ Len(y.count) = 1 /\ y.count # <<>> /\ y.term = "none" /\ y.told = <<>> /\ y.poll = "none"
        /\ y.timer # "finishing" /\ y.at = "over"
    BY <2>3, <2>a, CompletedIs
  <2> HIDE DEF y
  <2>7. OverSays(y) /\ PlaceSays(y) /\ FreshSays(y) /\ y.at \notin GrBounds
    <3>1. Recorded(y)
      BY <2>6 DEF Recorded
    <3>2. Len(y.told) <= 1
      BY <2>6, EmptySeq
    <3>3. OverSays(y)
      BY <2>6, <3>1, <3>2 DEF OverSays
    <3> QED BY <2>6, <3>3 DEF PlaceSays, FreshSays, GrBounds
  <2>8. CallSays(c, y)
    BY <2>6, <2>7 DEF CallSays
  <2> QED BY <2>1, <2>6, <2>7, <2>8, SettleKeeps
<1>6. CASE ~x.res
  <2>1. Settle(c, g)
    BY <1>0, <1>6
  <2>2. (TakenByTimer(x) \/ Recorded(x)) /\ ToldSays(x)
    BY <1>6, BodyKnown
  <2>3. TakenByTimer(g) \/ Recorded(g)
    BY <1>2, <1>4, <2>2 DEF TakenByTimer, Recorded
  <2>4. Record(g) = Record(x)
    BY <1>4 DEF Record
  <2>e. Len(<<>>) = 0
    BY EmptySeq
  <2>5. Len(x.told) <= 1 /\ (x.told # <<>> => Meant(x.told[1]) = Record(x))
    <3>1. CASE x.told = <<>>
      BY <2>e, <3>1
    <3>2. CASE Len(x.told) = 1 /\ Meant(x.told[1]) = Record(x)
      BY <3>2
    <3> QED BY <2>2, <3>1, <3>2 DEF ToldSays
  <2>6. OverSays(g) /\ PlaceSays(g) /\ FreshSays(g) /\ g.at \notin GrBounds
    <3>1. OverSays(g)
      BY <1>2, <1>4, <2>3, <2>4, <2>5 DEF OverSays
    <3> QED BY <1>2, <1>4, <1>h, <3>1 DEF PlaceSays, FreshSays, GrBounds
  <2>7. CallSays(c, g)
    BY <1>1, <1>2, <1>4, <2>6 DEF CallSays
  <2>8. g.holds \subseteq gcall[c].holds
    BY <1>4
  <2> QED BY <1>3, <2>1, <2>6, <2>7, <2>8, SettleKeeps
<1> QED BY <1>1, <1>5, <1>6

LEMMA PeerLeavesKeeps ==
    ASSUME GrInv, NEW c \in GrCalls, PeerLeaves(c)
    PROVE  GrInv'
<1> DEFINE gone == [gcall[c] EXCEPT !.at = "over", !.poll = "none", !.woke = FALSE, !.term = "none", !.answer = "none",
                                    !.timer = IF gcall[c].timer = "armed" THEN "ended" ELSE gcall[c].timer]
<1>0. gone = [gcall[c] EXCEPT !.at = "over", !.poll = "none", !.woke = FALSE, !.term = "none", !.answer = "none",
                              !.timer = IF gcall[c].timer = "armed" THEN "ended" ELSE gcall[c].timer]
  OBVIOUS
<1>1. \/ /\ gcall[c].at \in Unanswered
         /\ Settle(c, [Completed([gcall[c] EXCEPT !.fin = "Cancelled"]) EXCEPT !.at = "over", !.answer = "none"])
      \/ /\ gcall[c].at = "body" /\ gcall[c].poll \in {"ready", "parked"}
         /\ Settle(c, IF gcall[c].res THEN Completed([gone EXCEPT !.fin = "Cancelled"]) ELSE gone)
  BY DEF PeerLeaves
<1>2. CASE /\ gcall[c].at \in Unanswered
           /\ Settle(c, [Completed([gcall[c] EXCEPT !.fin = "Cancelled"]) EXCEPT !.at = "over", !.answer = "none"])
  BY <1>2, LeavesUnanswered
<1> HIDE DEF gone
<1>3. CASE /\ gcall[c].at = "body" /\ gcall[c].poll \in {"ready", "parked"}
           /\ Settle(c, IF gcall[c].res THEN Completed([gone EXCEPT !.fin = "Cancelled"]) ELSE gone)
  BY <1>0, <1>3, LeavesBody
<1> QED BY <1>1, <1>2, <1>3

LEMMA UploadKeeps ==
    ASSUME GrInv, NEW c \in GrCalls, UploadEnds(c)
    PROVE  GrInv'
<1> DEFINE x == gcall[c]
           u == "ended"
           y == [x EXCEPT !.upload = u]
<1>0. x \in GrCall /\ CallSays(c, x) /\ gcall \in [GrCalls -> GrCall]
  BY CallKnown
<1>1. gcall' = [gcall EXCEPT ![c] = y] /\ UNCHANGED <<gline, gfree>>
  BY <1>0 DEF UploadEnds
<1>2. u \in GrUploads /\ u # "open"
  BY DEF GrUploads
<1> HIDE DEF u
<1>3. y \in GrCall
  BY <1>0, <1>2 DEF GrCall
<1>4. /\ y.at = x.at /\ y.holds = x.holds /\ y.answer = x.answer /\ y.count = x.count /\ y.told = x.told
      /\ y.res = x.res /\ y.term = x.term /\ y.fin = x.fin /\ y.timer = x.timer /\ y.poll = x.poll
      /\ y.stop = x.stop /\ y.woke = x.woke /\ y.upload = u
  BY <1>0, <1>2 DEF GrCall
<1> HIDE DEF y
<1>5. CallSays(c, y)
  <2>1. PlaceSays(y) /\ FreshSays(y) /\ (c \in GrServed /\ y.stop => y.count # <<>>)
    BY <1>0, <1>4 DEF CallSays, PlaceSays, FreshSays
  <2>2. Record(y) = Record(x)
    BY <1>4 DEF Record
  <2>3. /\ InCustody(x) => InCustody(y)
        /\ TakenByPoll(x) => TakenByPoll(y)
        /\ TakenByTimer(x) => TakenByTimer(y)
        /\ Recorded(x) => Recorded(y)
    BY <1>2, <1>4 DEF InCustody, TakenByPoll, TakenByTimer, Recorded
  <2>4. ToldSays(x) => ToldSays(y)
    BY <1>4, <2>2 DEF ToldSays
  <2>5. OverSays(x) => OverSays(y)
    BY <1>4, <2>2, <2>3 DEF OverSays
  <2> QED BY <1>0, <1>4, <2>1, <2>3, <2>4, <2>5 DEF CallSays, BodySaysOf
<1> QED BY <1>1, <1>3, <1>4, <1>5, CallMoves

\* A parent's cancellation reaches only calls of our own.
LEMMA ParentKeeps ==
    ASSUME GrInv, NEW c \in GrSent, ParentCancels(c)
    PROVE  GrInv'
<1> DEFINE x == gcall[c]
           y == [x EXCEPT !.stop = TRUE]
<1>s. c \in GrCalls /\ c \notin GrServed
  BY GrpcAssumption DEF GrCalls
<1>0. x \in GrCall /\ CallSays(c, x) /\ gcall \in [GrCalls -> GrCall]
  BY <1>s, CallKnown
<1>1. gcall' = [gcall EXCEPT ![c] = y] /\ UNCHANGED <<gline, gfree>>
  BY <1>0 DEF ParentCancels
<1>3. y \in GrCall
  BY <1>0 DEF GrCall
<1>4. /\ y.at = x.at /\ y.holds = x.holds /\ y.answer = x.answer /\ y.count = x.count /\ y.told = x.told
      /\ y.res = x.res /\ y.term = x.term /\ y.fin = x.fin /\ y.timer = x.timer /\ y.poll = x.poll
      /\ y.stop = TRUE /\ y.woke = x.woke /\ y.upload = x.upload
  BY <1>0 DEF GrCall
<1> HIDE DEF y
<1>5. CallSays(c, y)
  <2>1. PlaceSays(y) /\ FreshSays(y)
    BY <1>0, <1>4 DEF CallSays, PlaceSays, FreshSays
  <2>2. Record(y) = Record(x)
    BY <1>4 DEF Record
  <2>3. /\ InCustody(x) => InCustody(y)
        /\ TakenByPoll(x) => TakenByPoll(y)
        /\ TakenByTimer(x) => TakenByTimer(y)
        /\ Recorded(x) => Recorded(y)
    BY <1>4 DEF InCustody, TakenByPoll, TakenByTimer, Recorded
  <2>4. ToldSays(x) => ToldSays(y)
    BY <1>4, <2>2 DEF ToldSays
  <2>5. OverSays(x) => OverSays(y)
    BY <1>4, <2>2, <2>3 DEF OverSays
  <2> QED BY <1>0, <1>s, <1>4, <2>1, <2>3, <2>4, <2>5 DEF CallSays, BodySaysOf
<1> QED BY <1>s, <1>1, <1>3, <1>4, <1>5, CallMoves

\* Time passes: nothing else changes.
LEMMA GrTickKeeps ==
    ASSUME GrInv, GrTick
    PROVE  GrInv'
<1> DEFINE Less(n) == IF n > 0 THEN n - 1 ELSE n
<1>0. gcall \in [GrCalls -> GrCall] /\ \A q \in GrCalls : CallSays(q, gcall[q])
  BY DEF GrInv
<1>1. /\ gcall' = [q \in GrCalls |-> [gcall[q] EXCEPT !.open = Less(gcall[q].open), !.life = Less(gcall[q].life),
                                                      !.wait = Less(gcall[q].wait)]]
      /\ UNCHANGED <<gline, gfree>>
  BY DEF GrTick
<1>2. \A n \in Int : Less(n) \in Int
  OBVIOUS
<1> HIDE DEF Less
<1>3. ASSUME NEW q \in GrCalls
      PROVE  /\ gcall'[q] \in GrCall /\ CallSays(q, gcall'[q])
             /\ gcall'[q].holds = gcall[q].holds /\ gcall'[q].at = gcall[q].at
  <2> DEFINE x == gcall[q]
             o == Less(x.open)
             l == Less(x.life)
             w == Less(x.wait)
             y == [x EXCEPT !.open = o, !.life = l, !.wait = w]
  <2>1. x \in GrCall /\ CallSays(q, x) /\ gcall'[q] = y
    BY <1>0, <1>1
  <2>2. o \in Int /\ l \in Int /\ w \in Int
    BY <1>2, <2>1 DEF GrCall
  <2> HIDE DEF o, l, w
  <2>3. y \in GrCall
    BY <2>1, <2>2 DEF GrCall
  <2>4. /\ y.at = x.at /\ y.holds = x.holds /\ y.answer = x.answer /\ y.count = x.count /\ y.told = x.told
        /\ y.res = x.res /\ y.term = x.term /\ y.fin = x.fin /\ y.timer = x.timer /\ y.poll = x.poll
        /\ y.stop = x.stop /\ y.woke = x.woke /\ y.upload = x.upload
    BY <2>1, <2>2 DEF GrCall
  <2> HIDE DEF y
  <2>5. CallSays(q, y)
    BY <2>1, <2>3, <2>4, SameCall
  <2> QED BY <2>1, <2>3, <2>4, <2>5
<1>4. gcall' \in [GrCalls -> GrCall]
  <2>1. gcall' = [q \in GrCalls |-> gcall'[q]]
    BY <1>1
  <2> QED BY <1>3, <2>1
<1>5. ASSUME NEW b \in GrBounds PROVE GrHolders(b)' = GrHolders(b) /\ GrWaiters(b)' = GrWaiters(b)
  BY <1>3 DEF GrHolders, GrWaiters
<1>6. \A q \in GrCalls : CallSays(q, gcall'[q])
  BY <1>3
<1> QED BY <1>1, <1>4, <1>5, <1>6 DEF GrInv

LEMMA GrStarts == GrInit => GrInv
<1> SUFFICES ASSUME GrInit PROVE GrInv
  OBVIOUS
<1>0. gcall = [c \in GrCalls |-> NoCall] /\ gline = [b \in GrBounds |-> <<>>] /\ gfree = [b \in GrBounds |-> GrLimit]
  BY DEF GrInit
<1>1. /\ NoCall.at = "out" /\ NoCall.holds = {} /\ NoCall.answer = "none" /\ NoCall.res = FALSE
      /\ NoCall.term = "none" /\ NoCall.fin = "none" /\ NoCall.count = <<>> /\ NoCall.told = <<>>
      /\ NoCall.stop = FALSE /\ NoCall.timer = "none" /\ NoCall.poll = "none"
  BY DEF NoCall
<1>2. NoCall \in GrCall
  <2> DEFINE o == "out"
             z == 0
             m == -1
             e == {}
             n == "none"
             q == <<>>
  <2>1. NoCall = [at |-> o, open |-> z, life |-> m, wait |-> z, holds |-> e, answer |-> n,
                  res |-> FALSE, term |-> n, fin |-> n, count |-> q, told |-> q,
                  stop |-> FALSE, timer |-> n, poll |-> n, woke |-> FALSE, upload |-> n]
    BY DEF NoCall
  <2>2. /\ o \in GrPlaces /\ z \in Int /\ m \in Int /\ e \in GrPermits /\ n \in GrAnswers /\ n \in GrFins
        /\ n \in GrTimers /\ n \in GrPolls /\ n \in GrUploads /\ q \in Seq(GrStatuses) /\ q \in Seq(GrWords)
    BY GrValues, EmptySeq DEF GrTimers, GrPolls, GrUploads
  <2> HIDE DEF o, z, m, e, n, q
  <2> QED BY <2>1, <2>2 DEF GrCall
<1>3. ASSUME NEW c PROVE CallSays(c, NoCall)
  BY <1>1 DEF CallSays, PlaceSays, FreshSays
<1>4. ASSUME NEW b \in GrBounds PROVE GrHolders(b) = {} /\ GrWaiters(b) = {}
  BY <1>0, <1>1 DEF GrHolders, GrWaiters, GrBounds
<1>5. IsFiniteSet({}) /\ Cardinality({}) = 0
  BY FS_EmptySet
<1>6. GrLimit \in Nat
  BY GrpcAssumption
<1>7. gcall \in [GrCalls -> GrCall] /\ \A c \in GrCalls : CallSays(c, gcall[c])
  BY <1>0, <1>2, <1>3
<1>8. \A b \in GrBounds : gline[b] = <<>> /\ Queue(gline[b], GrCalls) /\ Members(gline[b]) = {}
  BY <1>0, NoQueue
<1>9. gfree \in [GrBounds -> Nat] /\ DOMAIN gline = GrBounds /\ gline = [b \in GrBounds |-> gline[b]]
  BY <1>0, <1>6
<1>10. \A b \in GrBounds : gfree[b] + 0 = GrLimit
  BY <1>0, <1>6
<1> QED BY <1>4, <1>5, <1>7, <1>8, <1>9, <1>10 DEF GrInv

LEMMA CustodyKeeps ==
    ASSUME GrInv, NEW c \in GrCalls, CustodyStep(c)
    PROVE  GrInv'
BY OpeningStopsKeeps, PeerLeavesKeeps, HandoffKeeps, AttachKeeps, PollStartsKeeps, PollReturnsKeeps, PollEndsKeeps,
   TimerFiresKeeps, TimerFinishesKeeps DEF CustodyStep

LEMMA GrKeeps == GrInv /\ [ServedNext \/ SentNext]_grVars => GrInv'
<1> SUFFICES ASSUME GrInv, [ServedNext \/ SentNext]_grVars PROVE GrInv'
  OBVIOUS
<1>1. CASE UNCHANGED grVars
  <2>1. gcall' = gcall /\ gline' = gline /\ gfree' = gfree
    BY <1>1 DEF grVars
  <2> QED BY <2>1 DEF GrInv, GrHolders, GrWaiters
<1>2. CASE GrTick
  BY <1>2, GrTickKeeps
<1>3. ASSUME NEW c \in GrServed,
             \/ \E t \in GrTimeouts : Arrive(c, t)
             \/ PatienceEnds(c)
             \/ \E f \in {"none", "Unauthenticated", "Unavailable", "PermissionDenied"} : Authenticate(c, f)
             \/ \E a \in {"stream", "NotFound", gcall[c].answer} \ {"none"} : Answers(c, a)
             \/ HandlerPanics(c)
             \/ CustodyStep(c)
      PROVE  GrInv'
  <2>1. c \in GrCalls
    BY DEF GrCalls
  <2> QED BY <1>3, <2>1, ArriveCallKeeps, PatienceKeeps, AuthenticateCallKeeps, AnswersKeeps, HandlerPanicsKeeps,
             CustodyKeeps
<1>4. ASSUME NEW c \in GrSent,
             \/ \E p \in {"FullRpc", "OpeningOnly"}, t, parent \in GrTimeouts : PrepareCall(c, p, t, parent)
             \/ SendPrepared(c) \/ ChannelReady(c) \/ UploadEnds(c) \/ ParentCancels(c)
             \/ \E a \in {"stream", "NotFound"} \cup TransportFailures : Responds(c, a)
             \/ CustodyStep(c)
      PROVE  GrInv'
  <2>1. c \in GrCalls
    BY DEF GrCalls
  <2> QED BY <1>4, <2>1, PrepareKeeps, SendKeeps, ChannelKeeps, UploadKeeps, ParentKeeps, RespondsKeeps, CustodyKeeps
<1> QED BY <1>1, <1>2, <1>3, <1>4 DEF ServedNext, SentNext

\* A length is at most one exactly when it is none or one.
LEMMA AtMostOne ==
  ASSUME NEW n \in Nat
  PROVE  n <= 1 <=> n = 0 \/ n = 1
OBVIOUS

LEMMA GrSays == GrInv => CallsAccounted
<1> SUFFICES ASSUME GrInv PROVE CallsAccounted
  OBVIOUS
<1>1. GrTypeOK
  <2>1. ASSUME NEW b \in GrBounds PROVE gfree[b] \in 0 .. GrLimit
    <3>1. /\ gfree[b] \in Nat /\ Cardinality(GrHolders(b)) \in Nat /\ gfree[b] + Cardinality(GrHolders(b)) = GrLimit
          /\ GrLimit \in Nat
      BY FS_CardinalityType, GrpcAssumption DEF GrInv
    <3> QED BY <3>1
  <2>2. gfree \in [GrBounds -> 0 .. GrLimit]
    BY <2>1 DEF GrInv
  <2>3. ASSUME NEW c \in GrCalls
        PROVE  /\ gcall[c].at \in Unanswered \cup {"out", "handoff", "attach", "body", "over"}
               /\ gcall[c].fin \in GrStatuses \cup {"none"} /\ gcall[c].term \in GrStatuses \cup {"none"}
               /\ gcall[c].timer \in {"none", "armed", "finishing", "ended"}
               /\ gcall[c].poll \in {"none", "ready", "parked", "locked", "returning"}
               /\ gcall[c].upload \in {"none", "open", "ended", "cut"}
    <3>1. /\ gcall[c].at \in GrPlaces /\ gcall[c].fin \in GrFins /\ gcall[c].term \in GrFins
          /\ gcall[c].timer \in GrTimers /\ gcall[c].poll \in GrPolls /\ gcall[c].upload \in GrUploads
      BY CallKnown DEF GrCall
    <3> QED BY <3>1 DEF GrPlaces, GrFins, GrTimers, GrPolls, GrUploads
  <2> QED BY <2>2, <2>3 DEF GrTypeOK
<1>2. PermitsFollow
  <2>1. ASSUME NEW b \in GrBounds
        PROVE  /\ gfree[b] + Cardinality({c \in GrCalls : b \in gcall[c].holds}) = GrLimit
               /\ gline[b] # <<>> => gfree[b] = 0
               /\ {gline[b][i] : i \in DOMAIN gline[b]} = {c \in GrCalls : gcall[c].at = b}
    BY DEF GrInv, GrHolders, GrWaiters, Members
  <2>2. \A c \in GrCalls : gcall[c].at \in {"attach", "body", "over"} => "opening" \notin gcall[c].holds
    BY CallKnown DEF PlaceSays
  <2> QED BY <2>1, <2>2 DEF PermitsFollow
<1>e. Len(<<>>) = 0 /\ DOMAIN <<>> = {}
  BY EmptySeq
<1>3. ASSUME NEW c \in GrCalls
      PROVE  LET call == gcall[c]
                 recorded == IF call.count = <<>> THEN call.fin ELSE call.count[1]
             IN /\ Len(call.count) <= 1 /\ Len(call.told) <= 1
                /\ call.at = "over" => call.count # <<>> \/ call.timer = "finishing"
                /\ call.count # <<>> => ~call.res /\ call.stop /\ call.holds = {} /\ call.upload # "open"
                /\ c \in GrServed /\ call.stop => call.count # <<>>
                /\ \A i \in DOMAIN call.told :
                      recorded = CASE call.told[i] \in {"eof", "error"} -> "Unknown"
                                   [] call.told[i] = "panic" -> "Cancelled"
                                   [] OTHER -> call.told[i]
  <2> DEFINE x == gcall[c]
  <2>0. x \in GrCall /\ CallSays(c, x) /\ x.told \in Seq(GrWords) /\ x.count \in Seq(GrStatuses)
    BY CallKnown DEF GrCall
  <2>1. /\ x.told = <<>> \/ (Len(x.told) = 1 /\ Meant(x.told[1]) = Record(x))
        /\ x.count = <<>> \/ Recorded(x)
        /\ x.at = "over" => x.count # <<>> \/ x.timer = "finishing"
    <3>t. Len(x.told) <= 1 /\ x.told # <<>> => Len(x.told) = 1
      <4>1. Len(x.told) \in Nat /\ (Len(x.told) = 0 => x.told = <<>>)
        BY <2>0, EmptySeq
      <4> QED BY <4>1, AtMostOne
    <3>r. Recorded(x) => x.count # <<>>
      BY <1>e DEF Recorded
    <3>1. CASE x.at \notin {"body", "over"}
      BY <2>0, <3>1 DEF CallSays, FreshSays
    <3>2. CASE x.at = "body"
      BY <2>0, <3>2 DEF CallSays, BodySaysOf, InCustody, TakenByPoll, TakenByTimer, ToldSays
    <3>3. CASE x.at = "over"
      BY <2>0, <3>3, <3>t, <3>r DEF CallSays, OverSays, TakenByTimer
    <3> QED BY <3>1, <3>2, <3>3
  <2>2. Len(x.count) <= 1 /\ Len(x.told) <= 1
    <3>1. Len(x.count) = 0 \/ Len(x.count) = 1
      BY <1>e, <2>1 DEF Recorded
    <3>2. Len(x.told) = 0 \/ Len(x.told) = 1
      BY <1>e, <2>1
    <3>0. Len(x.count) \in Nat /\ Len(x.told) \in Nat
      BY <2>0
    <3>3. Len(x.count) <= 1
      BY <3>0, <3>1, AtMostOne
    <3>4. Len(x.told) <= 1
      BY <3>0, <3>2, AtMostOne
    <3> QED BY <3>3, <3>4
  <2>3. x.count # <<>> => ~x.res /\ x.stop /\ x.holds = {} /\ x.upload # "open"
    BY <2>1 DEF Recorded
  <2>4. c \in GrServed /\ x.stop => x.count # <<>>
    BY <2>0 DEF CallSays
  <2>5. ASSUME NEW i \in DOMAIN x.told PROVE Record(x) = Meant(x.told[i])
    <3>1. x.told # <<>>
      BY <1>e
    <3>2. Len(x.told) = 1 /\ Meant(x.told[1]) = Record(x) /\ DOMAIN x.told = 1 .. Len(x.told)
      BY <2>0, <2>1, <3>1
    <3>3. i = 1
      BY <3>2
    <3> QED BY <3>2, <3>3
  <2> QED BY <2>1, <2>2, <2>3, <2>4, <2>5 DEF Record, Meant
<1>4. EndedOnce
  BY <1>3 DEF EndedOnce
<1>5. ParkedWoken
  <2>1. ASSUME NEW c \in GrCalls, gcall[c].poll = "parked", ~gcall[c].res
        PROVE  gcall[c].woke \/ gcall[c].timer = "finishing"
    <3>0. CallSays(c, gcall[c])
      BY CallKnown
    <3>1. gcall[c].at = "body"
      BY <2>1, <3>0 DEF CallSays, FreshSays, OverSays
    <3>2. ToldSays(gcall[c])
      BY <2>1, <3>1, BodyKnown
    <3> QED BY <2>1, <3>2 DEF ToldSays
  <2> QED BY <2>1 DEF ParkedWoken
<1> QED BY <1>1, <1>2, <1>4, <1>5 DEF CallsAccounted

\* Whatever calls are served and sent, and whoever ends each (the body's poll, the timer, the caller who
\* leaves, a refusal, a panic): no permit of the two bounds is lost or made, one status is recorded for a
\* call and everything it owned is given back exactly then, the peer is told at most once and what was
\* recorded, and a task parked on an ended body is woken (infra-grpc/src/router.rs, call.rs).
THEOREM CallsSafe == GrSpec => []CallsAccounted
<1>1. GrInit => GrInv
  BY GrStarts
<1>2. GrInv /\ [ServedNext \/ SentNext]_grVars => GrInv'
  BY GrKeeps
<1>3. GrInv => CallsAccounted
  BY GrSays
<1> QED BY <1>1, <1>2, <1>3, PTL DEF GrSpec

-----------------------------------------------------------------------------
(* The cache link: which generation a command runs on *)

CacheSpec == CacheInit /\ [][CacheNext]_cacheVars

CmdStates == {"idle", "acquire", "looked", "wait", "got", "sent"}
CacheCmds == [st: CmdStates, gen: Gen, woken: BOOLEAN]
LinkStates == [current: Gen, closed: BOOLEAN, error: Errors \cup {"none"}]
Supervisors == [st: {"pause", "connect", "maintain", "gone"}, gen: Gen]

\* A command that acquired a generation has one, a given-up dispatch retired its own, and
\* what is current is the generation the supervisor maintains, and only a client that was opened has one.
LinkHolds ==
    /\ \A c \in CacheTasks : cacheCmd[c].st \in {"got", "sent"} => cacheCmd[c].gen # NoGeneration
    /\ cacheDirty \subseteq cacheRetired
    /\ cacheSup.st \in {"connect", "maintain"} => cacheSup.gen # NoGeneration
    /\ cacheState.current # NoGeneration => cacheSup.st = "maintain" /\ cacheState.current = cacheSup.gen
    /\ cacheLink.st = "new" => cacheSup.st = "gone"

\* Whoever looked and was not notified since has nothing to see.
NothingNew == ~Live(cacheState.current) /\ ~cacheState.closed /\ cacheState.error = "none"
LookersWait ==
    \A c \in CacheTasks : cacheCmd[c].st \in {"looked", "wait"} /\ ~cacheCmd[c].woken => NothingNew

LinkInv == CacheTypeOK /\ LinkHolds /\ LookersWait

\* What one step may do: the two clauses of LinkCustody
SendsClean ==
    \A c \in CacheTasks :
       cacheCmd[c].st # "sent" /\ cacheCmd'[c].st = "sent" => cacheCmd'[c].gen \notin cacheDirty
SuccessorStays ==
    cacheState'.current # cacheState.current => cacheState.current \in cacheRetired' \cup {NoGeneration}
LinkStep == SendsClean /\ SuccessorStays

LEMMA LinkRecords ==
  ASSUME CacheTypeOK
  PROVE  /\ cacheState \in LinkStates /\ cacheSup \in Supervisors /\ cacheCmd \in [CacheTasks -> CacheCmds]
         /\ cacheState.current \in Gen /\ cacheState.closed \in BOOLEAN /\ cacheSup.gen \in Gen
         /\ cacheSup.st \in {"pause", "connect", "maintain", "gone"}
         /\ cacheState.error \in Errors \cup {"none"}
         /\ \A c \in CacheTasks : /\ cacheCmd[c] \in CacheCmds /\ cacheCmd[c].st \in CmdStates
                                  /\ cacheCmd[c].gen \in Gen /\ cacheCmd[c].woken \in BOOLEAN
         /\ cacheRetired \subseteq Generations /\ cacheDirty \subseteq Generations
         /\ NoGeneration \notin Generations
<1>1. cacheState \in LinkStates /\ cacheSup \in Supervisors /\ cacheCmd \in [CacheTasks -> CacheCmds]
  BY DEF CacheTypeOK, LinkStates, Supervisors, CacheCmds, CmdStates
<1>2. \A y \in CacheCmds : y.st \in CmdStates /\ y.gen \in Gen /\ y.woken \in BOOLEAN
  BY DEF CacheCmds
<1>3. /\ cacheState.current \in Gen /\ cacheState.closed \in BOOLEAN /\ cacheSup.gen \in Gen
      /\ cacheSup.st \in {"pause", "connect", "maintain", "gone"}
      /\ cacheState.error \in Errors \cup {"none"}
  BY <1>1 DEF LinkStates, Supervisors
<1>4. \A c \in CacheTasks : cacheCmd[c] \in CacheCmds
  BY <1>1
<1>5. cacheRetired \subseteq Generations /\ cacheDirty \subseteq Generations
  BY DEF CacheTypeOK
<1> QED BY <1>1, <1>2, <1>3, <1>4, <1>5, CacheAssumption

LEMMA LinkTypeIs ==
  ASSUME CacheTypeOK, cacheState' \in LinkStates, cacheSup' \in Supervisors, cacheRetired' \subseteq Generations,
         cacheDirty' \subseteq Generations, cacheCmd' \in [CacheTasks -> CacheCmds],
         UNCHANGED <<cacheLink, cacheFile>>
  PROVE  CacheTypeOK'
BY DEF CacheTypeOK, LinkStates, Supervisors, CacheCmds, CmdStates

\* One command moves.
LEMMA OneCmd ==
  ASSUME LinkInv, NEW c \in CacheTasks, NEW y \in CacheCmds, cacheCmd' = [cacheCmd EXCEPT ![c] = y],
         y.st \in {"got", "sent"} => y.gen # NoGeneration,
         y.st \in {"looked", "wait"} /\ ~y.woken => NothingNew,
         y.st = "sent" => y.gen \notin cacheDirty,
         UNCHANGED <<cacheLink, cacheState, cacheRetired, cacheSup, cacheFile, cacheDirty>>
  PROVE  LinkInv' /\ LinkStep
<1>1. cacheCmd \in [CacheTasks -> CacheCmds] /\ CacheTypeOK
  BY LinkRecords DEF LinkInv
<1>2. cacheCmd' \in [CacheTasks -> CacheCmds] /\ \A x \in CacheTasks : cacheCmd'[x] = IF x = c THEN y ELSE cacheCmd[x]
  BY <1>1
<1>3. CacheTypeOK'
  BY <1>1, <1>2, LinkRecords, LinkTypeIs
<1>4. LinkHolds'
  BY <1>2 DEF LinkInv, LinkHolds
<1>5. LookersWait'
  BY <1>2 DEF LinkInv, LookersWait, NothingNew, Live
<1>6. SendsClean
  BY <1>2 DEF SendsClean
<1>7. SuccessorStays
  BY DEF SuccessorStays
<1> QED BY <1>3, <1>4, <1>5, <1>6, <1>7 DEF LinkInv, LinkStep

LEMMA NoCmdIs == NoCmd \in CacheCmds /\ NoCmd.st = "idle" /\ NoCmd.gen = NoGeneration /\ ~NoCmd.woken
<1>1. NoGeneration \in Gen /\ "idle" \in CmdStates
  BY DEF Gen, CmdStates
<1> QED BY <1>1 DEF NoCmd, CacheCmds

\* A command that is over leaves the rest as it is.
LEMMA EndedKeeps ==
  ASSUME LinkInv, NEW c \in CacheTasks, cacheCmd' = Ended(c),
         UNCHANGED <<cacheLink, cacheState, cacheRetired, cacheSup, cacheFile, cacheDirty>>
  PROVE  LinkInv' /\ LinkStep
BY NoCmdIs, OneCmd DEF Ended

\* A notification changes who is woken, and reaches everyone who registered.
LEMMA NotifyIs ==
  ASSUME NEW cmds \in [CacheTasks -> CacheCmds]
  PROVE  /\ NotifyWaiters(cmds) \in [CacheTasks -> CacheCmds]
         /\ \A c \in CacheTasks :
              /\ NotifyWaiters(cmds)[c].st = cmds[c].st /\ NotifyWaiters(cmds)[c].gen = cmds[c].gen
              /\ NotifyWaiters(cmds)[c].st \in {"looked", "wait"} => NotifyWaiters(cmds)[c].woken
<1> DEFINE w(c) == cmds[c].woken \/ cmds[c].st \in {"acquire", "looked", "wait"}
           y(c) == [cmds[c] EXCEPT !.woken = w(c)]
<1>1. \A c \in CacheTasks : /\ cmds[c] \in CacheCmds /\ w(c) \in BOOLEAN
                            /\ (cmds[c].st \in {"looked", "wait"} => w(c))
  BY DEF CacheCmds
<1>2. NotifyWaiters(cmds) = [c \in CacheTasks |-> y(c)]
  BY DEF NotifyWaiters
<1> HIDE DEF w
<1>3. ASSUME NEW c \in CacheTasks
      PROVE  y(c) \in CacheCmds /\ y(c).st = cmds[c].st /\ y(c).gen = cmds[c].gen /\ y(c).woken = w(c)
  BY <1>1 DEF CacheCmds
<1> HIDE DEF y
<1>4. \A c \in CacheTasks : NotifyWaiters(cmds)[c] = y(c)
  BY <1>2
<1>5. NotifyWaiters(cmds) \in [CacheTasks -> CacheCmds]
  BY <1>2, <1>3
<1> QED BY <1>1, <1>3, <1>4, <1>5

\* The commands after a step that ends at most one of them and notifies the others
EndedOne(cmds) ==
    /\ cmds \in [CacheTasks -> CacheCmds]
    /\ \A c \in CacheTasks : cmds[c] = cacheCmd[c] \/ cmds[c] = NoCmd

LEMMA EndedIs ==
  ASSUME LinkInv
  PROVE  EndedOne(cacheCmd) /\ \A c \in CacheTasks : EndedOne(Ended(c))
BY LinkRecords, NoCmdIs DEF LinkInv, EndedOne, Ended

\* Notifying leaves a good state good: nobody is sent, nobody sleeps.
LEMMA NotifiedKeeps ==
  ASSUME LinkInv, NEW cmds, EndedOne(cmds), cacheCmd' = NotifyWaiters(cmds)
  PROVE  /\ cacheCmd' \in [CacheTasks -> CacheCmds]
         /\ \A c \in CacheTasks : cacheCmd'[c].st \in {"got", "sent"} => cacheCmd'[c].gen # NoGeneration
         /\ LookersWait' /\ SendsClean
<1>1. /\ cacheCmd' \in [CacheTasks -> CacheCmds]
      /\ \A c \in CacheTasks : /\ cacheCmd'[c].st = cmds[c].st /\ cacheCmd'[c].gen = cmds[c].gen
                               /\ cacheCmd'[c].st \in {"looked", "wait"} => cacheCmd'[c].woken
  BY NotifyIs DEF EndedOne
<1>2. \A c \in CacheTasks : cacheCmd'[c].st \in {"got", "sent"} => cacheCmd'[c].gen # NoGeneration
  BY <1>1, NoCmdIs DEF EndedOne, LinkInv, LinkHolds
<1>3. LookersWait'
  BY <1>1 DEF LookersWait
<1>4. SendsClean
  BY <1>1, NoCmdIs DEF EndedOne, SendsClean
<1> QED BY <1>1, <1>2, <1>3, <1>4

\* Shared::retire
LEMMA RetireKeeps ==
  ASSUME LinkInv, NEW g \in Generations, NEW cmds, EndedOne(cmds), Retire(g, cmds),
         cacheDirty' \in {cacheDirty, cacheDirty \cup {g}},
         \/ cacheSup' = cacheSup
         \/ cacheSup.gen = g /\ cacheSup.st = "maintain" /\ cacheSup' \in Supervisors /\ cacheSup'.st = "pause",
         UNCHANGED <<cacheLink, cacheFile>>
  PROVE  LinkInv' /\ LinkStep
<1> DEFINE cur == IF cacheState.current = g THEN NoGeneration ELSE cacheState.current
<1>1. CacheTypeOK /\ LinkHolds
  BY DEF LinkInv
<1>2. /\ cacheState \in LinkStates /\ cacheSup \in Supervisors /\ cacheState.current \in Gen
      /\ cacheRetired \subseteq Generations /\ cacheDirty \subseteq Generations /\ NoGeneration \notin Generations
  BY <1>1, LinkRecords
<1>3. /\ cacheState' = [cacheState EXCEPT !.current = cur] /\ cacheRetired' = cacheRetired \cup {g}
      /\ cacheCmd' = NotifyWaiters(cmds)
  BY DEF Retire
<1>4. cur \in Gen /\ (cur = NoGeneration \/ (cur = cacheState.current /\ cur # g)) /\ (cur # cacheState.current => cacheState.current = g)
  BY <1>2 DEF Gen
<1> HIDE DEF cur
<1>5. cacheState' \in LinkStates /\ cacheState'.current = cur
  BY <1>2, <1>3, <1>4 DEF LinkStates
<1>6. /\ cacheCmd' \in [CacheTasks -> CacheCmds]
      /\ \A c \in CacheTasks : cacheCmd'[c].st \in {"got", "sent"} => cacheCmd'[c].gen # NoGeneration
      /\ LookersWait' /\ SendsClean
  BY <1>3, NotifiedKeeps
<1>7. CacheTypeOK'
  BY <1>1, <1>2, <1>3, <1>5, <1>6, LinkTypeIs
<1>8. LinkHolds'
  <2>1. cacheDirty' \subseteq cacheRetired'
    BY <1>1, <1>3 DEF LinkHolds
  <2>2. cacheSup'.st \in {"connect", "maintain"} => cacheSup'.gen # NoGeneration
    BY <1>1 DEF LinkHolds
  <2>3. cacheState'.current # NoGeneration => cacheSup'.st = "maintain" /\ cacheState'.current = cacheSup'.gen
    BY <1>1, <1>4, <1>5 DEF LinkHolds
  <2>4. cacheLink'.st = "new" => cacheSup'.st = "gone"
    BY <1>1 DEF LinkHolds
  <2> QED BY <1>6, <2>1, <2>2, <2>3, <2>4 DEF LinkHolds
<1>9. SuccessorStays
  BY <1>3, <1>4, <1>5 DEF SuccessorStays
<1> QED BY <1>6, <1>7, <1>8, <1>9 DEF LinkInv, LinkStep

\* Shared::close, with the supervisor gone
LEMMA CloseKeeps ==
  ASSUME LinkInv, Close(cacheCmd), cacheSup' = [cacheSup EXCEPT !.st = "gone", !.gen = NoGeneration],
         UNCHANGED <<cacheFile, cacheDirty>>, cacheLink' \in [st: {"new", "open", "dropped"} \cup {"refused"}, file: BOOLEAN]
  PROVE  LinkInv' /\ LinkStep
<1>1. CacheTypeOK /\ LinkHolds
  BY DEF LinkInv
<1>2. /\ cacheState \in LinkStates /\ cacheSup \in Supervisors /\ cacheState.current \in Gen
      /\ cacheRetired \subseteq Generations /\ cacheDirty \subseteq Generations /\ NoGeneration \notin Generations
      /\ NoGeneration \in Gen
  BY <1>1, LinkRecords DEF Gen
<1>3. /\ cacheState' = [cacheState EXCEPT !.closed = TRUE, !.current = NoGeneration]
      /\ cacheRetired' = cacheRetired \cup ({cacheState.current} \ {NoGeneration})
      /\ cacheCmd' = NotifyWaiters(cacheCmd)
  BY DEF Close
<1>4. cacheState' \in LinkStates /\ cacheState'.current = NoGeneration
  BY <1>2, <1>3 DEF LinkStates
<1>5. cacheSup' \in Supervisors /\ cacheSup'.st = "gone"
  BY <1>2 DEF Supervisors
<1>6. /\ cacheCmd' \in [CacheTasks -> CacheCmds]
      /\ \A c \in CacheTasks : cacheCmd'[c].st \in {"got", "sent"} => cacheCmd'[c].gen # NoGeneration
      /\ LookersWait' /\ SendsClean
  BY <1>3, EndedIs, NotifiedKeeps
<1>7. cacheRetired' \subseteq Generations
  BY <1>2, <1>3 DEF Gen
<1>8. CacheTypeOK'
  BY <1>1, <1>2, <1>4, <1>5, <1>6, <1>7 DEF CacheTypeOK, LinkStates, Supervisors, CacheCmds, CmdStates
<1>9. LinkHolds'
  BY <1>1, <1>3, <1>4, <1>5, <1>6 DEF LinkHolds
<1>10. SuccessorStays
  BY <1>3 DEF SuccessorStays
<1> QED BY <1>6, <1>8, <1>9, <1>10 DEF LinkInv, LinkStep

\* One command acquires, waits, is woken, sends, and is over.
LEMMA CommandKeeps ==
  ASSUME LinkInv, NEW c \in CacheTasks, CommandStep(c)
  PROVE  LinkInv' /\ LinkStep
<1>0. /\ CacheTypeOK /\ LinkHolds /\ LookersWait /\ cacheCmd[c] \in CacheCmds /\ cacheCmd[c].gen \in Gen
      /\ cacheState.current \in Gen /\ cacheCmd[c].woken \in BOOLEAN
  BY LinkRecords DEF LinkInv
<1>1. CASE Start(c)
  <2> DEFINE y == [NoCmd EXCEPT !.st = "acquire"]
  <2>1. y \in CacheCmds /\ y.st = "acquire"
    BY NoCmdIs DEF CacheCmds, CmdStates
  <2>2. /\ cacheCmd' = [cacheCmd EXCEPT ![c] = y]
        /\ UNCHANGED <<cacheLink, cacheState, cacheRetired, cacheSup, cacheFile, cacheDirty>>
    BY <1>1 DEF Start, LinkUnchanged
  <2> HIDE DEF y
  <2> QED BY <2>1, <2>2, OneCmd
<1>2. CASE Acquire(c)
  <2>1. UNCHANGED <<cacheLink, cacheState, cacheRetired, cacheSup, cacheFile, cacheDirty>>
    BY <1>2 DEF Acquire, LinkUnchanged
  <2>2. CASE ~cacheState.closed /\ Live(cacheState.current)
    <3> DEFINE y == [cacheCmd[c] EXCEPT !.st = "got", !.gen = cacheState.current]
    <3>1. cacheCmd' = [cacheCmd EXCEPT ![c] = y]
      BY <1>2, <2>2 DEF Acquire
    <3>2. y \in CacheCmds /\ y.st = "got" /\ y.gen = cacheState.current
      BY <1>0 DEF CacheCmds, CmdStates
    <3> HIDE DEF y
    <3> QED BY <2>1, <2>2, <3>1, <3>2, OneCmd DEF Live
  <2>3. CASE ~(~cacheState.closed /\ Live(cacheState.current)) /\ (cacheState.closed \/ cacheState.error # "none")
    BY <1>2, <2>1, <2>3, EndedKeeps DEF Acquire
  <2>4. CASE ~(~cacheState.closed /\ Live(cacheState.current)) /\ ~(cacheState.closed \/ cacheState.error # "none")
    <3> DEFINE y == [cacheCmd[c] EXCEPT !.st = "looked"]
    <3>1. cacheCmd' = [cacheCmd EXCEPT ![c] = y]
      BY <1>2, <2>4 DEF Acquire
    <3>2. y \in CacheCmds /\ y.st = "looked"
      BY <1>0 DEF CacheCmds, CmdStates
    <3> HIDE DEF y
    <3> QED BY <2>1, <2>4, <3>1, <3>2, OneCmd DEF NothingNew
  <2> QED BY <2>2, <2>3, <2>4
<1>3. CASE Await(c)
  <2> DEFINE y == [cacheCmd[c] EXCEPT !.st = "wait"]
  <2>1. y \in CacheCmds /\ y.st = "wait" /\ y.woken = cacheCmd[c].woken
    BY <1>0 DEF CacheCmds, CmdStates
  <2>2. /\ cacheCmd' = [cacheCmd EXCEPT ![c] = y] /\ cacheCmd[c].st = "looked"
        /\ UNCHANGED <<cacheLink, cacheState, cacheRetired, cacheSup, cacheFile, cacheDirty>>
    BY <1>3 DEF Await, LinkUnchanged
  <2> HIDE DEF y
  <2> QED BY <1>0, <2>1, <2>2, OneCmd DEF LookersWait
<1>4. CASE Wake(c)
  <2> DEFINE y == [cacheCmd[c] EXCEPT !.st = "acquire", !.woken = FALSE]
  <2>1. y \in CacheCmds /\ y.st = "acquire"
    BY <1>0 DEF CacheCmds, CmdStates
  <2>2. /\ cacheCmd' = [cacheCmd EXCEPT ![c] = y]
        /\ UNCHANGED <<cacheLink, cacheState, cacheRetired, cacheSup, cacheFile, cacheDirty>>
    BY <1>4 DEF Wake, LinkUnchanged
  <2> HIDE DEF y
  <2> QED BY <2>1, <2>2, OneCmd
<1>5. CASE GiveUpWaiting(c) \/ Reply(c)
  BY <1>5, EndedKeeps DEF GiveUpWaiting, Reply, LinkUnchanged
<1>6. CASE Dispatch(c)
  <2>1. /\ cacheCmd[c].st = "got" /\ cacheCmd[c].gen # NoGeneration /\ cacheCmd[c].gen \in Generations
        /\ UNCHANGED <<cacheLink, cacheSup, cacheFile, cacheDirty>>
    BY <1>0, <1>6 DEF Dispatch, LinkUnchanged, LinkHolds, Gen
  <2>2. CASE Live(cacheCmd[c].gen)
    <3> DEFINE y == [cacheCmd[c] EXCEPT !.st = "sent"]
    <3>1. cacheCmd' = [cacheCmd EXCEPT ![c] = y] /\ UNCHANGED <<cacheState, cacheRetired>>
      BY <1>6, <2>2 DEF Dispatch
    <3>2. y \in CacheCmds /\ y.st = "sent" /\ y.gen = cacheCmd[c].gen
      BY <1>0 DEF CacheCmds, CmdStates
    <3> HIDE DEF y
    <3>3. y.gen \notin cacheDirty
      BY <1>0, <2>2, <3>2 DEF Live, LinkHolds
    <3> QED BY <2>1, <3>1, <3>2, <3>3, OneCmd
  <2>3. CASE ~Live(cacheCmd[c].gen)
    BY <1>6, <2>1, <2>3, EndedIs, RetireKeeps DEF Dispatch
  <2> QED BY <2>2, <2>3
<1>7. CASE GiveUpSent(c)
  <2>1. /\ cacheCmd[c].gen \in Generations /\ Retire(cacheCmd[c].gen, Ended(c))
        /\ cacheDirty' = cacheDirty \cup {cacheCmd[c].gen}
        /\ UNCHANGED <<cacheLink, cacheSup, cacheFile>>
    BY <1>0, <1>7 DEF GiveUpSent, LinkUnchanged, LinkHolds, Gen
  <2> QED BY <2>1, EndedIs, RetireKeeps
<1> QED BY <1>1, <1>2, <1>3, <1>4, <1>5, <1>6, <1>7 DEF CommandStep

\* The supervisor dials, publishes, fails, abandons, and is cut off or gone.
LEMMA SupervisorKeeps ==
  ASSUME LinkInv, SupervisorStep
  PROVE  LinkInv' /\ LinkStep
<1>0. /\ CacheTypeOK /\ LinkHolds /\ LookersWait /\ cacheState \in LinkStates /\ cacheSup \in Supervisors
      /\ cacheSup.gen \in Gen /\ cacheState.current \in Gen /\ cacheRetired \subseteq Generations
      /\ cacheDirty \subseteq Generations /\ NoGeneration \notin Generations /\ NoGeneration \in Gen
      /\ cacheCmd \in [CacheTasks -> CacheCmds]
  BY LinkRecords DEF LinkInv, Gen
<1>1. ASSUME NEW g \in Generations, Dial(g) PROVE LinkInv' /\ LinkStep
  <2>1. /\ cacheSup.st = "pause" /\ cacheState.current # g
        /\ cacheState' = [cacheState EXCEPT !.error = "none"]
        /\ cacheSup' = [cacheSup EXCEPT !.st = "connect", !.gen = g]
        /\ cacheRetired' = cacheRetired \ {g} /\ cacheDirty' = cacheDirty \ {g}
        /\ UNCHANGED <<cacheLink, cacheFile, cacheCmd>>
    BY <1>1 DEF Dial, InUse
  <2>2. /\ cacheState' \in LinkStates /\ cacheState'.current = cacheState.current
        /\ cacheState'.closed = cacheState.closed /\ cacheState'.error = "none"
    BY <1>0, <2>1 DEF LinkStates
  <2>3. cacheSup' \in Supervisors /\ cacheSup'.st = "connect" /\ cacheSup'.gen = g
    BY <1>0, <2>1 DEF Supervisors, Gen
  <2>4. cacheState.current = NoGeneration
    BY <1>0, <2>1 DEF LinkHolds
  <2>5. CacheTypeOK'
    BY <1>0, <2>1, <2>2, <2>3, LinkTypeIs
  <2>6. LinkHolds'
    BY <1>0, <2>1, <2>2, <2>3, <2>4 DEF LinkHolds
  <2>7. LookersWait'
    BY <1>0, <2>1, <2>2, <2>4 DEF LookersWait, NothingNew, Live
  <2>8. LinkStep
    BY <2>1, <2>2 DEF LinkStep, SendsClean, SuccessorStays
  <2> QED BY <2>5, <2>6, <2>7, <2>8 DEF LinkInv
<1>2. ASSUME Publish PROVE LinkInv' /\ LinkStep
  <2>1. /\ cacheSup.st = "connect"
        /\ cacheState' = [cacheState EXCEPT !.current = cacheSup.gen]
        /\ cacheSup' = [cacheSup EXCEPT !.st = "maintain"]
        /\ cacheFile' = "same" /\ cacheCmd' = NotifyWaiters(cacheCmd)
        /\ UNCHANGED <<cacheLink, cacheRetired, cacheDirty>>
    BY <1>2 DEF Publish
  <2>2. cacheState' \in LinkStates /\ cacheState'.current = cacheSup.gen
    BY <1>0, <2>1 DEF LinkStates
  <2>3. cacheSup' \in Supervisors /\ cacheSup'.st = "maintain" /\ cacheSup'.gen = cacheSup.gen
    BY <1>0, <2>1 DEF Supervisors
  <2>4. cacheState.current = NoGeneration /\ cacheSup.gen # NoGeneration
    BY <1>0, <2>1 DEF LinkHolds
  <2>5. /\ cacheCmd' \in [CacheTasks -> CacheCmds]
        /\ \A c \in CacheTasks : cacheCmd'[c].st \in {"got", "sent"} => cacheCmd'[c].gen # NoGeneration
        /\ LookersWait' /\ SendsClean
    BY <2>1, EndedIs, NotifiedKeeps
  <2>6. CacheTypeOK'
    BY <1>0, <2>1, <2>2, <2>3, <2>5 DEF CacheTypeOK, LinkStates, Supervisors, CacheCmds, CmdStates
  <2>7. LinkHolds'
    BY <1>0, <2>1, <2>2, <2>3, <2>4, <2>5 DEF LinkHolds
  <2>8. SuccessorStays
    BY <2>4 DEF SuccessorStays
  <2> QED BY <2>5, <2>6, <2>7, <2>8 DEF LinkInv, LinkStep
<1>3. ASSUME NEW e \in Errors, DialFails(e) PROVE LinkInv' /\ LinkStep
  <2>1. /\ cacheSup.st = "connect"
        /\ cacheState' = [cacheState EXCEPT !.error = e]
        /\ cacheSup' = [cacheSup EXCEPT !.st = "pause", !.gen = NoGeneration]
        /\ cacheCmd' = NotifyWaiters(cacheCmd)
        /\ UNCHANGED <<cacheLink, cacheRetired, cacheFile, cacheDirty>>
    BY <1>3 DEF DialFails
  <2>2. cacheState' \in LinkStates /\ cacheState'.current = cacheState.current
    BY <1>0, <2>1 DEF LinkStates
  <2>3. cacheSup' \in Supervisors /\ cacheSup'.st = "pause"
    BY <1>0, <2>1 DEF Supervisors
  <2>4. cacheState.current = NoGeneration
    BY <1>0, <2>1 DEF LinkHolds
  <2>5. /\ cacheCmd' \in [CacheTasks -> CacheCmds]
        /\ \A c \in CacheTasks : cacheCmd'[c].st \in {"got", "sent"} => cacheCmd'[c].gen # NoGeneration
        /\ LookersWait' /\ SendsClean
    BY <2>1, EndedIs, NotifiedKeeps
  <2>6. CacheTypeOK'
    BY <1>0, <2>1, <2>2, <2>3, <2>5, LinkTypeIs
  <2>7. LinkHolds'
    BY <1>0, <2>1, <2>2, <2>3, <2>4, <2>5 DEF LinkHolds
  <2>8. SuccessorStays
    BY <2>2 DEF SuccessorStays
  <2> QED BY <2>5, <2>6, <2>7, <2>8 DEF LinkInv, LinkStep
<1>4. ASSUME Abandon PROVE LinkInv' /\ LinkStep
  <2>1. /\ cacheSup.gen \in Generations /\ cacheSup.st = "maintain" /\ Retire(cacheSup.gen, cacheCmd)
        /\ cacheSup' = [cacheSup EXCEPT !.st = "pause", !.gen = NoGeneration]
        /\ UNCHANGED <<cacheLink, cacheFile, cacheDirty>>
    BY <1>0, <1>4 DEF Abandon, LinkHolds, Gen
  <2>2. cacheSup' \in Supervisors /\ cacheSup'.st = "pause"
    BY <1>0, <2>1 DEF Supervisors
  <2> QED BY <2>1, <2>2, EndedIs, RetireKeeps
<1>5. ASSUME Disconnect PROVE LinkInv' /\ LinkStep
  <2>1. /\ cacheSup.gen \in Generations /\ cacheRetired' = cacheRetired \cup {cacheSup.gen}
        /\ UNCHANGED <<cacheLink, cacheState, cacheSup, cacheFile, cacheCmd, cacheDirty>>
    BY <1>0, <1>5 DEF Disconnect, LinkHolds, Gen
  <2>2. CacheTypeOK'
    BY <1>0, <2>1, LinkTypeIs
  <2>3. LinkHolds'
    BY <1>0, <2>1 DEF LinkHolds
  <2>4. LookersWait'
    BY <1>0, <2>1 DEF LookersWait, NothingNew, Live
  <2>5. LinkStep
    BY <2>1 DEF LinkStep, SendsClean, SuccessorStays
  <2> QED BY <2>2, <2>3, <2>4, <2>5 DEF LinkInv
<1>6. ASSUME SupervisorExits PROVE LinkInv' /\ LinkStep
  <2>1. cacheLink' \in [st: {"new", "open", "dropped"} \cup {"refused"}, file: BOOLEAN]
    BY <1>0, <1>6 DEF SupervisorExits, CacheTypeOK
  <2> QED BY <1>6, <2>1, CloseKeeps DEF SupervisorExits
<1>7. ASSUME NEW a \in BOOLEAN, Refresh(a) PROVE LinkInv' /\ LinkStep
  <2>1. /\ cacheFile' \in {"same", "rotated", "unreadable"}
        /\ UNCHANGED <<cacheLink, cacheState, cacheRetired, cacheSup, cacheCmd, cacheDirty>>
    BY <1>0, <1>7 DEF Refresh, CacheTypeOK
  <2>2. LinkInv'
    BY <1>0, <2>1 DEF LinkInv, CacheTypeOK, LinkHolds, LookersWait, NothingNew, Live
  <2> QED BY <2>1, <2>2 DEF LinkStep, SendsClean, SuccessorStays
<1> QED BY <1>1, <1>2, <1>3, <1>4, <1>5, <1>6, <1>7 DEF SupervisorStep

LEMMA LinkNext ==
  ASSUME LinkInv, CacheNext
  PROVE  LinkInv' /\ LinkStep
<1>0. /\ CacheTypeOK /\ LinkHolds /\ LookersWait /\ cacheSup \in Supervisors
  BY LinkRecords DEF LinkInv
<1>1. ASSUME NEW o \in CacheOptions, OpenCache(o) PROVE LinkInv' /\ LinkStep
  <2>1. UNCHANGED <<cacheState, cacheRetired, cacheFile, cacheCmd, cacheDirty>>
    BY <1>1 DEF OpenCache
  <2>2. cacheLink' \in [st: {"new", "open", "dropped"} \cup {"refused"}, file: BOOLEAN]
    <3>1. CASE ConnectLazy(o) = "ok"
      <4> DEFINE f == o.file # "none"
      <4>1. cacheLink' = [st |-> "open", file |-> f]
        BY <1>1, <3>1 DEF OpenCache
      <4>2. f \in BOOLEAN
        OBVIOUS
      <4> HIDE DEF f
      <4> QED BY <4>1, <4>2
    <3>2. CASE ConnectLazy(o) # "ok"
      BY <1>0, <1>1, <3>2 DEF OpenCache, CacheTypeOK
    <3> QED BY <3>1, <3>2
  <2>3. cacheSup' = cacheSup \/ cacheSup' = [cacheSup EXCEPT !.st = "pause"]
    BY <1>1 DEF OpenCache
  <2>4. /\ cacheSup' \in Supervisors
        /\ cacheSup' = cacheSup \/ cacheSup'.st = "pause"
    BY <1>0, <2>3 DEF Supervisors
  <2>5. CASE cacheSup' = cacheSup
    <3>1. cacheSup'.st = "gone"
      BY <1>0, <1>1, <2>5 DEF OpenCache, LinkHolds
    <3> QED BY <1>0, <2>1, <2>2, <2>5, <3>1
       DEF LinkInv, CacheTypeOK, LinkHolds, LookersWait, NothingNew, Live, LinkStep, SendsClean, SuccessorStays
  <2>6. CASE cacheSup' # cacheSup
    <3>1. cacheSup.st \in {"gone", "pause", "connect", "maintain"} /\ cacheSup'.st = "pause"
      BY <1>0, <2>4, <2>6 DEF Supervisors
    <3>2. cacheState.current = NoGeneration \/ cacheSup.st = "maintain"
      BY <1>0 DEF LinkHolds
    <3>3. cacheSup.st = "gone"
      BY <1>0, <1>1 DEF OpenCache, LinkHolds
    <3>4. cacheLink'.st = "open"
      BY <1>1, <2>6 DEF OpenCache
    <3> QED BY <1>0, <2>1, <2>2, <2>4, <3>1, <3>2, <3>3, <3>4
         DEF LinkInv, CacheTypeOK, LinkHolds, LookersWait, NothingNew, Live, LinkStep, SendsClean, SuccessorStays,
             Supervisors
  <2> QED BY <2>5, <2>6
<1>2. ASSUME NEW p \in {"rotated", "unreadable"}, RotatePassword(p) PROVE LinkInv' /\ LinkStep
  BY <1>0, <1>2 DEF RotatePassword, LinkInv, CacheTypeOK, LinkHolds, LookersWait, NothingNew, Live, LinkStep,
                    SendsClean, SuccessorStays
<1>3. ASSUME DropLink PROVE LinkInv' /\ LinkStep
  <2>1. cacheLink' \in [st: {"new", "open", "dropped"} \cup {"refused"}, file: BOOLEAN]
    BY <1>0, <1>3 DEF DropLink, CacheTypeOK
  <2> QED BY <1>3, <2>1, CloseKeeps DEF DropLink
<1> QED BY <1>1, <1>2, <1>3, CommandKeeps, SupervisorKeeps DEF CacheNext

LEMMA LinkStarts == CacheInit => LinkInv
<1> SUFFICES ASSUME CacheInit PROVE LinkInv
  OBVIOUS
<1>1. \A c \in CacheTasks : cacheCmd[c] = NoCmd
  BY DEF CacheInit
<1>2. cacheCmd \in [CacheTasks -> CacheCmds]
  BY NoCmdIs DEF CacheInit
<1>3. CacheTypeOK
  BY <1>2 DEF CacheInit, CacheTypeOK, CacheCmds, CmdStates, Gen
<1>4. LinkHolds /\ LookersWait
  BY <1>1, NoCmdIs DEF CacheInit, LinkHolds, LookersWait
<1> QED BY <1>3, <1>4 DEF LinkInv

\* Whatever the callers, the supervisor and the server do, and whenever a context stops or a connection breaks:
\* a task that waits is told of every change it waits for, nobody sends on a generation whose dispatch was given
\* up, and only the generation that was retired stops being current (infra-cache/src/connection.rs).
THEOREM LinkSafe == CacheSpec => LinkCustody
<1>1. CacheInit => LinkInv
  BY LinkStarts
<1>2. LinkInv /\ [CacheNext]_cacheVars => LinkInv' /\ [LinkStep]_cacheVars
  <2>1. ASSUME LinkInv, UNCHANGED cacheVars PROVE LinkInv'
    BY <2>1 DEF cacheVars, LinkInv, CacheTypeOK, LinkHolds, LookersWait, NothingNew, Live
  <2> QED BY <2>1, LinkNext
<1>3. LinkInv => NewsReachesWaiters
  BY DEF LinkInv, NewsReachesWaiters, LookersWait, NothingNew
<1> QED BY <1>1, <1>2, <1>3, PTL DEF CacheSpec, LinkCustody, LinkStep, SendsClean, SuccessorStays
=============================================================================
