------------------------------ MODULE HttpEdge ------------------------------
(***************************************************************************)
(* The hardened chain of src/crates/infra-http, one request after another  *)
(* and many at once: observation holds the active gauge until the body     *)
(* ends, admission waits in line for a permit, opening spends one budget   *)
(* counted from the arrival, authentication and the idempotency boundary   *)
(* run inside it, and a caller may hang up at any point.  Timers may fire  *)
(* late: the clock never waits for a step.                                 *)
(***************************************************************************)
EXTENDS HttpRules

CONSTANTS
    Requests,       \* the requests that may arrive
    InFlight,       \* http.max_in_flight
    Budget,         \* http.request_timeout: the patience at admission and the opening budget
    AttemptReserve, \* what a PostgreSQL attempt leaves of the budget for its answer
    EdgeEnd         \* bound on the clock

ASSUME HttpEdgeAssumption ==
    /\ {InFlight, Budget, AttemptReserve} \subseteq Nat \ {0}
    /\ EdgeEnd \in Nat

VARIABLES
    req,    \* each request: where it is, its times, its head, what was counted for it
    line,   \* the requests that wait for a permit, in arrival order
    free,   \* permits nobody holds
    active, \* the gauge of active requests
    hclock

edgeVars == <<req, line, free, active, hclock>>

Routes == {"probe", "unmatched", "idempotent"}

\* Where a request is once its opening context exists and its head is not out.
Opened == {"authn", "key", "attempt", "pending", "work"}

\* Why a verifier refuses a caller, or cannot tell.
Failures == {"Missing", "Malformed", "Invalid", "Unavailable"}

\* Results of one store attempt, as the boundary maps them.
Results == {"Committed", "Replay", "Rejected", "InProgress", "Unavailable"}

\* What is known of a request that is not in the chain.
Cleared(at) == [at |-> at, route |-> "none", arrived |-> 0, origin |-> 0, holds |-> FALSE,
                  status |-> 0, headAt |-> 0, begun |-> 0, told |-> <<>>]

EdgeInit ==
    /\ req = [r \in Requests |-> Cleared("out")]
    /\ line = <<>>
    /\ free = InFlight
    /\ active = 0
    /\ hclock = 1

-----------------------------------------------------------------------------
(* Deadlines: src/crates/operation-context *)

\* What is left at `now` of a budget counted from `origin`.
RemainingAt(origin, budget, now) ==
    LET spent == IF now > origin THEN now - origin ELSE 0
    IN IF budget > spent THEN budget - spent ELSE 0

OpeningExpired(r) == RemainingAt(req[r].origin, Budget, hclock) = 0

\* An expired deadline is reported before a cancellation.
StoppedReason(expired, cancelled) ==
    CASE expired -> "Deadline" [] ~expired /\ cancelled -> "Cancelled" [] OTHER -> "none"

StoppedCode(reason) == IF reason = "Deadline" THEN "GatewayTimeout" ELSE "ServiceUnavailable"

\* The instant a PostgreSQL attempt must end by; none when it is not ahead.
PostgresAttemptEnd(r) ==
    {end \in {req[r].origin + Budget - AttemptReserve} : end > hclock}

-----------------------------------------------------------------------------
(* Permits and heads *)

\* A returned permit goes to the first in line, or is free.
Release(holds, waiting) ==
    IF ~holds THEN [line |-> waiting, free |-> free, next |-> {}]
    ELSE IF waiting = <<>> THEN [line |-> waiting, free |-> free + 1, next |-> {}]
    ELSE [line |-> Tail(waiting), free |-> free, next |-> {Head(waiting)}]

\* `next` got the permit `r` held; r's record becomes `after`.
HandOn(r, after, freed) ==
    req' = [q \in Requests |->
              CASE q = r -> after
                [] q \in freed.next -> [req[q] EXCEPT !.at = "admitted", !.holds = TRUE]
                [] OTHER -> req[q]]

\* The outcome guard counts an execution once: by its answer, or as abandoned when dropped.
Guarded(r) == req[r].at \in {"attempt", "pending"}
Dropped(r) == IF Guarded(r) THEN Append(req[r].told, "abandoned") ELSE req[r].told

\* The head of r's response is ready: the permit returns, the gauge stays until the body ends.
Answer(r, status, told) ==
    LET freed == Release(req[r].holds, line)
    IN /\ HandOn(r, [req[r] EXCEPT !.at = "body", !.holds = FALSE, !.status = status,
                                   !.headAt = hclock, !.told = told], freed)
       /\ line' = freed.line
       /\ free' = freed.free
       /\ UNCHANGED <<active, hclock>>

\* The opening layer's last word: past the budget every answer becomes the timeout.
OpeningHead(r, code) ==
    IF OpeningExpired(r) THEN HttpStatus("GatewayTimeout")
    ELSE IF code = "none" THEN 200 ELSE HttpStatus(code)

-----------------------------------------------------------------------------
(* Admission *)

EdgeArrive(r, route) ==
    LET exempt == route = "probe"
        taken == ~exempt /\ free > 0
    IN /\ req[r].at = "out"
       /\ req' = [req EXCEPT ![r].route = route, ![r].arrived = hclock, ![r].holds = taken,
                             ![r].at = IF exempt \/ taken THEN "admitted" ELSE "waiting"]
       /\ free' = IF taken THEN free - 1 ELSE free
       /\ line' = IF exempt \/ taken THEN line ELSE Append(line, r)
       /\ active' = active + 1
       /\ UNCHANGED hclock

\* Mutation: a shed request keeps its place in the line.
ShedInLine(r) ==
    /\ req[r].at = "waiting"
    /\ hclock >= req[r].arrived + Budget
    /\ req' = [req EXCEPT ![r].at = "body", ![r].status = HttpStatus("ServiceUnavailable"),
                          ![r].headAt = hclock]
    /\ UNCHANGED <<line, free, active, hclock>>

\* No permit came in time: the wait leaves the line and answers 503.
Shed(r) ==
    /\ req[r].at = "waiting"
    /\ hclock >= req[r].arrived + Budget
    /\ req' = [req EXCEPT ![r].at = "body", ![r].status = HttpStatus("ServiceUnavailable"),
                          ![r].headAt = hclock]
    /\ line' = Leave(line, r)
    /\ UNCHANGED <<free, active, hclock>>

\* Mutation: the opening budget starts over when the permit comes.
OriginAtOpening(r) == hclock

\* The budget counts from the arrival at admission; a probe, which skips it, from its opening.
Origin(r) == IF req[r].route = "probe" THEN hclock ELSE req[r].arrived

\* The opening context is made; a budget the wait used up is answered before the handler runs.
OpenRequest(r) ==
    /\ req[r].at = "admitted"
    /\ IF RemainingAt(Origin(r), Budget, hclock) = 0
       THEN Answer(r, HttpStatus(StoppedCode("Deadline")), req[r].told)
       ELSE /\ req' = [req EXCEPT ![r].origin = Origin(r),
                                  ![r].at = IF req[r].route = "idempotent" THEN "authn" ELSE "work"]
            /\ UNCHANGED <<line, free, active, hclock>>

-----------------------------------------------------------------------------
(* Inside the budget *)

Step(r, at) ==
    /\ req' = [req EXCEPT ![r].at = at, ![r].begun = IF at = "attempt" THEN hclock ELSE @]
    /\ UNCHANGED <<line, free, active, hclock>>

\* The verifier answered; whether the budget is over is asked again before anything is used.
AuthenticateRequest(r, failure, granted) ==
    LET access == {[kind |-> "Protected", anyOf |-> {{"write"}}]}
        answer == [failure |-> failure, scopes |-> IF granted THEN {"write"} ELSE {}]
        code == AuthorizeCode(access, answer)
    IN /\ req[r].at = "authn"
       /\ CASE OpeningExpired(r) -> Answer(r, HttpStatus("GatewayTimeout"), req[r].told)
            [] ~OpeningExpired(r) /\ code # "none" -> Answer(r, OpeningHead(r, code), req[r].told)
            [] OTHER -> Step(r, "key")

\* The key is read and the body collected; then the handler runs up to the seam.
CaptureKey(r, faults) ==
    LET kept == HandleKey(faults)
        told == IF kept.counted = "none" THEN req[r].told ELSE Append(req[r].told, kept.counted)
    IN /\ req[r].at = "key"
       /\ IF kept.code # "none" THEN Answer(r, OpeningHead(r, kept.code), told)
          ELSE IF PostgresAttemptEnd(r) # {} THEN Step(r, "attempt")
          ELSE IF OpeningExpired(r) THEN Step(r, "pending")
          ELSE Answer(r, OpeningHead(r, "IdempotencyUnavailable"),
                      Append(told, "unavailable"))

ResultCode(result) ==
    CASE result \in {"Committed", "Replay"} -> "none"
      [] result = "Rejected" -> "Conflict"
      [] result = "InProgress" -> "IdempotencyRequestInProgress"
      [] result = "Unavailable" -> "IdempotencyUnavailable"

ResultOutcome(result) ==
    CASE result = "Committed" -> "executed"
      [] result = "Replay" -> "replayed"
      [] result = "Rejected" -> "not_stored"
      [] result = "InProgress" -> "in_progress"
      [] result = "Unavailable" -> "unavailable"

\* Only a problem made at this boundary yields to the outer timeout.
YieldsToTimeout(result) == result \in {"InProgress", "Unavailable"}

\* Mutation: a boundary problem past the deadline is counted before it waits for the timeout.
SendEarly(r, result) ==
    IF YieldsToTimeout(result) /\ OpeningExpired(r)
    THEN /\ req' = [req EXCEPT ![r].at = "pending", ![r].told = Append(@, ResultOutcome(result))]
         /\ UNCHANGED <<line, free, active, hclock>>
    ELSE Answer(r, OpeningHead(r, ResultCode(result)),
                Append(req[r].told, ResultOutcome(result)))

\* An answer of the boundary, or a wait for the timeout that will replace it.
Send(r, result) ==
    IF YieldsToTimeout(result) /\ OpeningExpired(r) THEN Step(r, "pending")
    ELSE Answer(r, OpeningHead(r, ResultCode(result)),
                Append(req[r].told, ResultOutcome(result)))

\* The store attempt ends by itself, or is cut at the end it was given.
Attempted(r, result) ==
    /\ req[r].at = "attempt"
    /\ Send(r, result)

\* A probe or a fallback answers without waiting.
Fallback(r) ==
    /\ req[r].at = "work"
    /\ Answer(r, OpeningHead(r, IF req[r].route = "probe" THEN "none" ELSE "NotFound"), req[r].told)

\* The handler panics: a sanitized 500, and the dropped guard counts the execution.
PanicToProblem(r) ==
    /\ req[r].at \in {"attempt", "key"}
    /\ Answer(r, OpeningHead(r, "InternalServerError"), Dropped(r))

\* The opening layer stops waiting: everything inside is dropped.
OpeningTimeout(r) ==
    /\ req[r].at \in Opened
    /\ OpeningExpired(r)
    /\ Answer(r, HttpStatus("GatewayTimeout"), Dropped(r))

\* The body is read to its end or dropped: the gauge falls.
BodyEnds(r) ==
    /\ req[r].at = "body"
    /\ req' = [req EXCEPT ![r] = Cleared("done")]
    /\ active' = active - 1
    /\ UNCHANGED <<line, free, hclock>>

\* The caller hangs up: the whole chain is dropped where it stands.
HangUp(r) ==
    LET freed == Release(req[r].holds, Leave(line, r))
    IN /\ req[r].at \in Opened \cup {"waiting", "admitted"}
       /\ HandOn(r, [Cleared("done") EXCEPT !.begun = req[r].begun, !.told = Dropped(r)], freed)
       /\ line' = freed.line
       /\ free' = freed.free
       /\ active' = active - 1
       /\ UNCHANGED hclock

EdgeTick ==
    /\ hclock < EdgeEnd
    /\ hclock' = hclock + 1
    /\ UNCHANGED <<req, line, free, active>>

EdgeNext ==
    \/ \E r \in Requests :
         \/ \E route \in Routes : EdgeArrive(r, route)
         \/ Shed(r)
         \/ OpenRequest(r)
         \/ \E failure \in Failures \cup {"none"}, granted \in BOOLEAN :
              AuthenticateRequest(r, failure, granted)
         \/ \E faults \in {{}, {"bad_key"}, {"body_limit"}} : CaptureKey(r, faults)
         \/ \E result \in Results : Attempted(r, result)
         \/ Fallback(r)
         \/ PanicToProblem(r)
         \/ OpeningTimeout(r)
         \/ BodyEnds(r)
         \/ HangUp(r)
    \/ EdgeTick

-----------------------------------------------------------------------------
Count(set) == Cardinality(set)

EdgeTypeOK ==
    /\ \A r \in Requests : req[r].at \in Opened \cup {"out", "waiting", "admitted", "body", "done"}
    /\ free \in 0 .. InFlight
    /\ active \in Nat

\* Whoever sheds, times out, panics or hangs up, no permit is lost and none is made: the permits
\* free and held are always the configured number, nobody waits beside a free one, the line holds
\* exactly the requests that wait, and the gauge counts every request whose body has not ended.
CapacityKept ==
    /\ EdgeTypeOK
    /\ free + Count({r \in Requests : req[r].holds}) = InFlight
    /\ line # <<>> => free = 0
    /\ {line[i] : i \in DOMAIN line} = {r \in Requests : req[r].at = "waiting"}
    /\ \A r \in Requests : req[r].at \in Opened /\ req[r].route # "probe" => req[r].holds
    /\ active = Count({r \in Requests : req[r].at \notin {"out", "done"}})

\* The wait for a permit is spent from the request's one budget: a request that was opened is
\* answered by the timeout exactly when the budget counted from its arrival is over, one that was
\* never opened, shed or late, only then, and a store attempt begins with its reserve still ahead.
BudgetFromArrival ==
    \A r \in Requests : req[r].route \notin {"none", "probe"} =>
        /\ req[r].status # 0 => (req[r].headAt < req[r].arrived + Budget
                                   <=> req[r].origin # 0 /\ req[r].status # 504)
        /\ req[r].begun # 0 => req[r].begun + AttemptReserve < req[r].arrived + Budget

\* Every request that reached the idempotency boundary is counted exactly once by the time it is
\* over, and one dropped inside it as abandoned: the 504 a caller sees never hides a second count.
OutcomeCounted ==
    \A r \in Requests :
        /\ Len(req[r].told) <= 1
        /\ req[r].at \in {"body", "done"} /\ req[r].begun # 0 => Len(req[r].told) = 1
        /\ req[r].at \in {"attempt", "pending"} => req[r].told = <<>>

\* A request is served within its means, whoever else sheds, times out, panics or hangs up: the
\* permits are kept, its one budget runs from its arrival, and its idempotency outcome is counted
\* once (infra-http/src/harden.rs: shed, context.rs and idempotency/execute.rs).
RequestsHonoured == CapacityKept /\ BudgetFromArrival /\ OutcomeCounted
=============================================================================
