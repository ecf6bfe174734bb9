------------------------------ MODULE Lifecycle ------------------------------
(***************************************************************************)
(* The service process from configuration to exit code: admission of the   *)
(* configuration, startup, serving, and the ordered teardown under one     *)
(* process deadline (src/crates/service/src/bootstrap/mod.rs, shutdown.rs) *)
(* with the listener it drains (src/crates/infra-http/src/server.rs).      *)
(*                                                                         *)
(* Time is counted in ticks left; timers fire when they reach zero.        *)
(***************************************************************************)
EXTENDS Naturals, FiniteSets

CONSTANTS
    Tasks,          \* background tasks startup registers
    Reqs,           \* requests clients send
    Slow,           \* requests whose response outlives http.request_timeout
    Configs,        \* configurations an operator may deploy
    Diagnostics,    \* DIAGNOSTICS_SHUTDOWN
    BackgroundJoin, \* BACKGROUND_JOIN
    DependencyClose,\* DEPENDENCY_CLOSE
    TelemetryFlush, \* TELEMETRY_FLUSH
    JoinSlack,      \* SHUTDOWN_JOIN_SLACK
    RuntimeTimeout, \* RUNTIME_SHUTDOWN_TIMEOUT
    LogReserve,     \* the logger's share of the telemetry allotment
    MaxSignals      \* stop signals, bound

\* http.grace_period, drain_timeout, readiness_propagation_delay, request_timeout
Config == [grace: Nat, drain: Nat, propagation: Nat, request: Nat]

ASSUME LifecycleAssumption ==
    /\ Slow \subseteq Reqs
    /\ Configs \subseteq Config
    /\ {Diagnostics, BackgroundJoin, DependencyClose, TelemetryFlush,
        JoinSlack, RuntimeTimeout, LogReserve, MaxSignals} \subseteq Nat

VARIABLES
    cfg,        \* the deployed configuration
    stage,      \* where the process is
    left,       \* ticks to the process deadline
    outer,      \* ticks to the deadline the current stages share
    timer,      \* ticks to the end of the current stage
    task,       \* each background task
    latch,      \* the first background failure is recorded
    bad,        \* tasks that stopped early, failed or reported a failure
    accept,     \* the accept loop
    req,        \* each request
    age,        \* ticks left to each request's timeout
    pool,       \* the PostgreSQL pool
    admitted,   \* service_ready was reached
    pending,    \* a stop signal waits to be received
    stops,      \* stop signals so far
    failure,    \* the boot or serving failure the process reports
    degraded,   \* some teardown stage was not clean
    panicked,   \* a teardown stage unwound
    code        \* exit code, once decided

vars == <<cfg, stage, left, outer, timer, task, latch, bad, accept, req, age, pool,
          admitted, pending, stops, failure, degraded, panicked, code>>

Running == {"starting", "serving"}
Teardown == {"propagate", "drain", "diagnostics", "join", "forced", "close", "trace", "log"}

TypeOK ==
    /\ cfg \in Configs
    /\ stage \in Running \cup Teardown \cup {"runtime", "exited"}
    /\ left \in Nat /\ outer \in Nat /\ timer \in Nat
    /\ task \in [Tasks -> {"none", "run", "aborting", "ended"}]
    /\ latch \in BOOLEAN
    /\ bad \subseteq Tasks
    /\ accept \in {"none", "up", "failed", "stopped"}
    /\ req \in [Reqs -> {"none", "open", "done", "cut"}]
    /\ age \in [Reqs -> Nat]
    /\ pool \in {"none", "open", "closed", "abandoned"}
    /\ {admitted, pending, failure, degraded, panicked} \subseteq BOOLEAN
    /\ stops \in Nat
    /\ code \in {"none", "0", "1", "3"}

-----------------------------------------------------------------------------
(* Configuration *)

SHUTDOWN_TAIL == Diagnostics + BackgroundJoin + DependencyClose + TelemetryFlush + JoinSlack
                 + RuntimeTimeout

ValidGrace(c) == c.grace >= c.drain + SHUTDOWN_TAIL

EffectiveDrain(c) == IF c.drain > c.propagation THEN c.drain - c.propagation ELSE 0

\* Mutation: the request timeout is compared with the whole drain timeout.
ValidHttpWholeDrain(c) ==
    /\ c.drain <= c.grace
    /\ c.propagation < c.drain
    /\ c.request <= c.drain

ValidHttp(c) ==
    /\ c.drain <= c.grace
    /\ c.propagation < c.drain
    /\ c.request <= EffectiveDrain(c)

\* run: a configuration that is not valid ends the process at once.
Init ==
    /\ cfg \in Configs
    /\ stage = IF ValidHttp(cfg) /\ ValidGrace(cfg) THEN "starting" ELSE "exited"
    /\ code = IF stage = "starting" THEN "none" ELSE "1"
    /\ left = cfg.grace /\ outer = 0 /\ timer = 0
    /\ task = [t \in Tasks |-> "none"]
    /\ bad = {}
    /\ accept = "none"
    /\ req = [r \in Reqs |-> "none"]
    /\ age = [r \in Reqs |-> 0]
    /\ pool = "none"
    /\ stops = 0
    /\ latch = FALSE /\ admitted = FALSE /\ pending = FALSE
    /\ failure = FALSE /\ degraded = FALSE /\ panicked = FALSE

-----------------------------------------------------------------------------
(* Startup: what it opens is owned by the teardown before the next await *)

OpenPool ==
    /\ stage = "starting" /\ pool = "none"
    /\ pool' = "open"
    /\ UNCHANGED <<cfg, stage, left, outer, timer, task, latch, bad, accept, req, age,
                   admitted, pending, stops, failure, degraded, panicked, code>>

Spawn(t) ==
    /\ stage = "starting" /\ task[t] = "none"
    /\ task' = [task EXCEPT ![t] = "run"]
    /\ UNCHANGED <<cfg, stage, left, outer, timer, latch, bad, accept, req, age, pool,
                   admitted, pending, stops, failure, degraded, panicked, code>>

Bind ==
    /\ stage = "starting" /\ accept = "none"
    /\ pool = "open" /\ \A t \in Tasks : task[t] # "none"
    /\ accept' = "up"
    /\ UNCHANGED <<cfg, stage, left, outer, timer, task, latch, bad, req, age, pool,
                   admitted, pending, stops, failure, degraded, panicked, code>>

\* pending_failure: the latch, or a listener whose accept loop failed.
PendingFailure == latch \/ accept = "failed"

\* service_ready, unless a failure or a stop came during startup.
Ready ==
    /\ stage = "starting" /\ accept = "up"
    /\ ~PendingFailure /\ ~pending
    /\ stage' = "serving"
    /\ admitted' = TRUE
    /\ UNCHANGED <<cfg, left, outer, timer, task, latch, bad, accept, req, age, pool,
                   pending, stops, failure, degraded, panicked, code>>

-----------------------------------------------------------------------------
(* Budgets *)

Min2(a, b) == IF a < b THEN a ELSE b
Less(a, b) == IF a > b THEN a - b ELSE 0

\* Budget::remaining, with l ticks to the process deadline.
Remaining(l, want) == Min2(want, Less(l, RuntimeTimeout))

\* Allotments that start when their stage is entered; forced and close share one,
\* and so do trace and log.
Want == [diagnostics |-> Diagnostics, join |-> BackgroundJoin,
         forced |-> DependencyClose, trace |-> TelemetryFlush + JoinSlack]

Allot(next) == outer' = IF next \in DOMAIN Want THEN Remaining(left, Want[next]) ELSE outer

\* Ends the current stage; bad stages make the outcome degraded.
Enter(next, unclean) ==
    /\ stage' = next
    /\ degraded' = (degraded \/ unclean)
    /\ Allot(next)
    /\ timer' = IF next = "trace" THEN outer' - Min2(LogReserve, outer') ELSE outer'
    /\ UNCHANGED <<cfg, left, admitted>>

-----------------------------------------------------------------------------
(* Teardown *)

Open == {r \in Reqs : req[r] = "open"}

\* Server::drop, or the forced end of a drain.
Cut == [r \in Reqs |-> IF req[r] = "open" THEN "cut" ELSE req[r]]

StopAccepting == IF accept = "up" THEN "stopped" ELSE accept

\* serve: a stop signal, a background failure or a startup error ends serving.
\* Failures are sticky even when the signal won: other is a startup error, or a
\* readiness progress loss that stop_progress finds and nobody reported yet.
BeginTeardown(other) ==
    /\ stage \in Running
    /\ pending \/ PendingFailure \/ (other /\ stage = "starting")
    /\ failure' = (PendingFailure \/ other)
    /\ pending' = FALSE
    /\ left' = cfg.grace
    /\ outer' = Remaining(left', cfg.drain)
    /\ stage' = IF admitted THEN "propagate" ELSE "drain"
    /\ timer' = IF admitted THEN Remaining(left', cfg.propagation) ELSE outer'
    /\ accept' = IF admitted THEN accept ELSE StopAccepting
    /\ UNCHANGED <<cfg, task, latch, bad, req, age, pool, admitted, stops, degraded,
                   panicked, code>>

\* Mutation: the drain takes its whole timeout after the propagation delay.
EndPropagationFullDrain ==
    /\ stage = "propagate"
    /\ timer = 0 \/ pending
    /\ pending' = FALSE
    /\ stage' = "drain"
    /\ timer' = cfg.drain
    /\ accept' = StopAccepting
    /\ UNCHANGED <<cfg, left, outer, task, latch, bad, req, age, pool, admitted, stops,
                   failure, degraded, panicked, code>>

\* stop_serving: the propagation delay passed, or a second signal skips it.
EndPropagation ==
    /\ stage = "propagate"
    /\ timer = 0 \/ pending
    /\ pending' = FALSE
    /\ stage' = "drain"
    /\ timer' = Min2(EffectiveDrain(cfg), outer)
    /\ accept' = StopAccepting
    /\ UNCHANGED <<cfg, left, outer, task, latch, bad, req, age, pool, admitted, stops,
                   failure, degraded, panicked, code>>

\* Server::drain returned: complete, or forced at its deadline, or with the
\* accept loop's failure.  A request that arrived before the drain has the
\* earlier timer, so its timeout answers it first.
EndDrain ==
    /\ stage = "drain"
    /\ Open = {} \/ timer = 0
    /\ \A r \in Open \ Slow : age[r] > 0
    /\ \E stuck \in BOOLEAN :
          /\ stuck => timer = 0
          /\ Enter("diagnostics", stuck \/ Open # {} \/ accept = "failed")
    /\ req' = Cut
    /\ UNCHANGED <<task, latch, bad, accept, age, pool, pending, stops, failure, panicked, code>>

\* Mutation: dependencies close before the background tasks are joined.
EndDiagnosticsThenClose(fails) ==
    /\ stage = "diagnostics"
    /\ Enter("close", fails)
    /\ req' = Cut
    /\ accept' = StopAccepting
    /\ UNCHANGED <<task, latch, bad, age, pool, pending, stops, failure, panicked, code>>

\* A forced scrape is not a degraded outcome; a failed accept loop is.  Then
\* whatever listener is left is dropped.
EndDiagnostics(fails) ==
    /\ stage = "diagnostics"
    /\ Enter("join", fails)
    /\ req' = Cut
    /\ accept' = StopAccepting
    /\ UNCHANGED <<task, latch, bad, age, pool, pending, stops, failure, panicked, code>>

Live == {t \in Tasks : task[t] \in {"run", "aborting"}}

Aborted == [t \in Tasks |-> IF task[t] = "run" THEN "aborting" ELSE task[t]]

\* Mutation: the join looks at its own errors only, not at the latch.
EndJoinNoLatch ==
    /\ stage = "join"
    /\ Live = {} \/ timer = 0
    /\ Enter("forced", Live # {})
    /\ task' = Aborted
    /\ UNCHANGED <<latch, bad, accept, req, age, pool, pending, stops, failure, panicked, code>>

\* join_until: every task ended, or the rest is aborted.
EndJoin ==
    /\ stage = "join"
    /\ Live = {} \/ timer = 0
    /\ Enter("forced", latch \/ Live # {})
    /\ task' = Aborted
    /\ UNCHANGED <<latch, bad, accept, req, age, pool, pending, stops, failure, panicked, code>>

\* Mutation: aborted tasks are awaited without a deadline.
EndForcedWaits ==
    /\ stage = "forced"
    /\ Live = {}
    /\ Enter("close", FALSE)
    /\ UNCHANGED <<task, latch, bad, accept, req, age, pool, pending, stops, failure, panicked, code>>

\* background_forced: aborted tasks acknowledge, or stay unconfirmed.  There are
\* some only after an expired or unwound join, which was degraded already.
EndForced ==
    /\ stage = "forced"
    /\ Live = {} \/ timer = 0
    /\ Enter("close", Live # {})
    /\ UNCHANGED <<task, latch, bad, accept, req, age, pool, pending, stops, failure, panicked, code>>

\* Dependencies::close: every pooled connection came back, or the budget ended.
EndClose(expired) ==
    /\ stage = "close"
    /\ expired => timer = 0 /\ pool = "open"
    /\ Enter("trace", expired)
    /\ pool' = IF pool = "none" THEN "none" ELSE IF expired THEN "abandoned" ELSE "closed"
    /\ UNCHANGED <<task, latch, bad, accept, req, age, pending, stops, failure, panicked, code>>

EndTrace(incomplete) ==
    /\ stage = "trace"
    /\ Enter("log", incomplete)
    /\ pending' = FALSE
    /\ UNCHANGED <<task, latch, bad, accept, req, age, pool, stops, failure, panicked, code>>

\* The outcome is final; the runtime drops what is still running.
EndLog(incomplete) ==
    /\ stage = "log"
    /\ stage' = "runtime"
    /\ degraded' = (degraded \/ incomplete)
    /\ code' = IF failure THEN "1" ELSE IF degraded' THEN "3" ELSE "0"
    /\ timer' = Min2(RuntimeTimeout, left)
    /\ outer' = timer'
    /\ UNCHANGED <<cfg, left, task, latch, bad, accept, req, age, pool, admitted, pending,
                   stops, failure, panicked>>

\* runtime.shutdown_timeout
Exit ==
    /\ stage = "runtime"
    /\ Live = {} \/ timer = 0
    /\ stage' = "exited"
    /\ UNCHANGED <<cfg, left, outer, timer, task, latch, bad, accept, req, age, pool,
                   admitted, pending, stops, failure, degraded, panicked, code>>

After == [propagate |-> "diagnostics", drain |-> "diagnostics", diagnostics |-> "join",
          join |-> "forced", forced |-> "close", close |-> "trace", trace |-> "log"]

\* A stage unwinds: the later owners still run.  Dropping the listeners
\* forces their connections; tasks nobody joined are aborted next.
StagePanics ==
    /\ stage \in DOMAIN After
    /\ ~panicked /\ panicked' = TRUE
    /\ Enter(After[stage], TRUE)
    /\ req' = IF stage = "diagnostics" THEN Cut ELSE req
    /\ accept' = IF stage = "diagnostics" THEN StopAccepting ELSE accept
    /\ task' = IF stage = "join" THEN Aborted ELSE task
    /\ UNCHANGED <<latch, bad, age, pool, pending, stops, failure, code>>

-----------------------------------------------------------------------------
(* Background tasks, requests, signals and time *)

\* background.cancel is cancelled between the diagnostics and the join stage.
Cancelled == stage \in {"join", "forced", "close", "trace", "log", "runtime"}

\* Completion::drop: an end before cancellation, or with an error, is a failure.
TaskEnds(t, fails) ==
    /\ stage # "exited" /\ task[t] = "run"
    /\ task' = [task EXCEPT ![t] = "ended"]
    /\ latch' = (latch \/ fails \/ ~Cancelled)
    /\ bad' = IF fails \/ ~Cancelled THEN bad \cup {t} ELSE bad
    /\ UNCHANGED <<cfg, stage, left, outer, timer, accept, req, age, pool, admitted,
                   pending, stops, failure, degraded, panicked, code>>

\* BackgroundFailureReporter::report: the task lives on.
Report(t) ==
    /\ stage # "exited" /\ task[t] = "run"
    /\ latch' = TRUE
    /\ bad' = bad \cup {t}
    /\ UNCHANGED <<cfg, stage, left, outer, timer, task, accept, req, age, pool, admitted,
                   pending, stops, failure, degraded, panicked, code>>

AbortEnds(t) ==
    /\ stage # "exited" /\ task[t] = "aborting"
    /\ task' = [task EXCEPT ![t] = "ended"]
    /\ UNCHANGED <<cfg, stage, left, outer, timer, latch, bad, accept, req, age, pool,
                   admitted, pending, stops, failure, degraded, panicked, code>>

\* The accept loop panics or stops by itself.
AcceptFails ==
    /\ \/ accept = "up"
       \/ stage = "drain" /\ accept = "stopped"
    /\ accept' = "failed"
    /\ UNCHANGED <<cfg, stage, left, outer, timer, task, latch, bad, req, age, pool,
                   admitted, pending, stops, failure, degraded, panicked, code>>

Arrive(r) ==
    /\ accept = "up" /\ req[r] = "none"
    /\ req' = [req EXCEPT ![r] = "open"]
    /\ age' = [age EXCEPT ![r] = cfg.request]
    /\ UNCHANGED <<cfg, stage, left, outer, timer, task, latch, bad, accept, pool,
                   admitted, pending, stops, failure, degraded, panicked, code>>

Answer(r) ==
    /\ req[r] = "open"
    /\ req' = [req EXCEPT ![r] = "done"]
    /\ UNCHANGED <<cfg, stage, left, outer, timer, task, latch, bad, accept, age, pool,
                   admitted, pending, stops, failure, degraded, panicked, code>>

Signal ==
    /\ stage # "exited"
    /\ stops < MaxSignals /\ stops' = stops + 1
    /\ pending' = TRUE
    /\ UNCHANGED <<cfg, stage, left, outer, timer, task, latch, bad, accept, req, age, pool,
                   admitted, failure, degraded, panicked, code>>

\* The request timeout answers every request it covers.
Tick ==
    /\ stage # "exited"
    /\ stage \notin Running => timer > 0
    /\ \A r \in Open \ Slow : age[r] > 0
    /\ age' = [r \in Reqs |-> IF req[r] = "open" THEN Less(age[r], 1) ELSE age[r]]
    /\ IF stage \in Running
       THEN UNCHANGED <<left, outer, timer>>
       ELSE left' = Less(left, 1) /\ outer' = Less(outer, 1) /\ timer' = Less(timer, 1)
    /\ UNCHANGED <<cfg, stage, task, latch, bad, accept, req, pool, admitted, pending,
                   stops, failure, degraded, panicked, code>>

Startup == OpenPool \/ Bind \/ Ready \/ \E t \in Tasks : Spawn(t)

Stage == \/ \E b \in BOOLEAN : BeginTeardown(b)
         \/ EndPropagation
         \/ EndDrain
         \/ \E b \in BOOLEAN : EndDiagnostics(b)
         \/ EndJoin
         \/ EndForced
         \/ \E b \in BOOLEAN : EndClose(b) \/ EndTrace(b) \/ EndLog(b)
         \/ Exit

Environment ==
    \/ \E t \in Tasks : \/ \E b \in BOOLEAN : TaskEnds(t, b)
                        \/ Report(t)
                        \/ AbortEnds(t)
    \/ AcceptFails
    \/ \E r \in Reqs : Arrive(r) \/ Answer(r)
    \/ Signal

Next == Startup \/ Stage \/ StagePanics \/ Environment \/ Tick

Spec == Init /\ [][Next]_vars

\* The runtime polls the root and its timers, the request timeout included; tasks,
\* streaming responses and clients may hang.
FairSpec == /\ Spec
            /\ WF_vars(Tick) /\ WF_vars(Stage)
            /\ \A r \in Reqs \ Slow : WF_vars(age[r] = 0 /\ Answer(r))

-----------------------------------------------------------------------------
(* Properties *)

\* Budgets still to be granted after the current allotment.
Later == LET t == TelemetryFlush + JoinSlack
             c == DependencyClose + t
             j == BackgroundJoin + c
             d == Diagnostics + j
         IN [propagate |-> d, drain |-> d, diagnostics |-> j, join |-> c,
             forced |-> t, close |-> t, trace |-> 0, log |-> 0]

\* The time left to the process deadline always covers the current allotment,
\* every later one and the runtime's (validate_grace_budget, Budget).
DeadlineCovers ==
    /\ TypeOK
    /\ stage \in Running => ValidHttp(cfg) /\ ValidGrace(cfg)
    /\ stage \in DOMAIN Later => left >= RuntimeTimeout + outer + Later[stage]
    /\ stage \in DOMAIN Later => timer <= outer

\* Whatever the earlier stages spent, a teardown stage starts with its whole
\* allotment: no stage can starve a later owner (Budget::stage_deadline).
FullAllotment ==
    [][stage' # stage =>
          /\ stage' \in DOMAIN Want => outer' = Want[stage']
          /\ stage \in Running /\ stage' \in Teardown => outer' = cfg.drain]_vars

\* Exit code 0 hides nothing: no task stopped early or failed, none was left
\* running, no request was cut, no connection abandoned (run, join_until).
CleanExit == code = "0" => /\ bad = {}
                           /\ Live = {}
                           /\ \A r \in Reqs : req[r] # "cut"
                           /\ accept # "failed"
                           /\ pool # "abandoned"

\* Dependencies close after every background task ended and no request is being
\* served; when that cannot be confirmed the outcome is already degraded
\* (shutdown.rs Dependencies, run).
DependenciesLast ==
    stage \in {"close", "trace", "log", "runtime"} => degraded \/ (Live = {} /\ Open = {})

\* A request that obeys http.request_timeout is never cut by the drain, even one
\* accepted at the end of the propagation delay or when a second signal skips
\* it (HttpConfig::validate, stop_serving).
InFlightServed == ~panicked => \A r \in Reqs \ Slow : req[r] # "cut"

\* A stop signal or a failure ends the process, whatever hangs.
Stops == (stage \in Running /\ (pending \/ PendingFailure)) ~> stage = "exited"

\* The shutdown is ordered: its deadline covers the stages to come, dependencies
\* close last, and exit code 0 hides nothing (shutdown.rs Budget, run).
ShutdownOrdered == DeadlineCovers /\ DependenciesLast /\ CleanExit
=============================================================================
