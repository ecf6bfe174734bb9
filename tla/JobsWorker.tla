----------------------------- MODULE JobsWorker -----------------------------
(***************************************************************************)
(* The jobs worker process from its configuration to its exit code:        *)
(* registration, admission of the pool and of the broker, the engines and  *)
(* the consumer it starts, what stops it, and the staged teardown under    *)
(* one process deadline (src/crates/jobs-worker/src/{lib,main,bootstrap,   *)
(* shutdown}.rs with Started of src/crates/infra-jobs/src/engine.rs).      *)
(*                                                                         *)
(* Time is counted in ticks left; timers fire when they reach zero.        *)
(***************************************************************************)
EXTENDS Integers, FiniteSets, Refusals

CONSTANTS
    WkTasks,        \* background tasks registered or spawned by startup
    WkSettings,     \* configurations and registrations an operator may deploy
    WkCleanup,      \* CLEANUP
    WkListeners,    \* LISTENERS
    WkJoin,         \* BACKGROUND_JOIN
    WkClose,        \* DEPENDENCY_CLOSE
    WkFlush,        \* TELEMETRY_FLUSH
    WkSlack,        \* SHUTDOWN_JOIN_SLACK
    WkRuntime,      \* RUNTIME_SHUTDOWN_TIMEOUT
    WkLogReserve,   \* the logger's share of the telemetry stage
    WkSignals,      \* bound: stop signals
    WkFaults        \* bound: owners, tasks, listeners and stages that fail

\* What runs work: the engine of the registered kinds, the outbox publisher's
\* engine and the message consumer.
WkEngines == {"ordinary", "outbox"}
WorkOwners  == WkEngines \cup {"consumer"}

\* jobs, messages, factory: what register declared; faults: what is wrong with
\* the deployment, each named by the error it causes.
WkSetting == [grace: Nat, drain: Nat, jobs: BOOLEAN, messages: BOOLEAN,
              factory: BOOLEAN, faults: SUBSET STRING]

ASSUME WorkerAssumption ==
    /\ {WkCleanup, WkListeners, WkJoin, WkClose, WkFlush, WkSlack, WkRuntime,
        WkLogReserve, WkSignals, WkFaults} \subseteq Nat
    /\ WkSettings \subseteq WkSetting

VARIABLES
    wk,     \* the process: its stage, deadline and what it will report
    own,    \* resources the teardown owns, and the listeners that failed
    work,   \* each owner of work: its loop, its work in flight, its failure
    bg      \* background tasks and the first failure they recorded

wkVars == <<wk, own, work, bg>>

WkStages == {"prepare", "start", "serve", "drain", "cleanup", "listeners", "join", "abort",
             "close", "trace", "log", "runtime", "exited"}

WkTypeOK ==
    /\ wk.stage \in WkStages
    /\ wk.left \in Nat /\ wk.outer \in Nat /\ wk.timer \in Nat
    /\ wk.code \in {"none", "0", "1", "3"}
    /\ own.failed \subseteq {"health", "diagnostics"}
    /\ work \in [WorkOwners -> [loop: {"none", "ready", "up", "stopping", "ended"},
                            flight: 0..1, failed: BOOLEAN]]
    /\ bg.task \in [WkTasks -> {"none", "run", "aborting", "ended"}]

-----------------------------------------------------------------------------
(* Configuration *)

\* SHUTDOWN_TAIL
WkTail == WkCleanup + WkListeners + WkJoin + WkClose + WkFlush + WkSlack + WkRuntime

\* Mutation: the tail is not reserved.
GraceCoversDrain(s) == s.grace >= s.drain

\* validate_grace_budget
ValidateGraceBudget(s) == s.grace >= s.drain + WkTail

\* start, as far as the runtime and the signal handlers: nothing is open yet.
WkRefused(s) ==
    First(<< <<"config" \in s.faults, "Load">>,
             <<~ValidateGraceBudget(s), "GraceBudget">>,
             <<"runtime" \in s.faults, "Runtime">>,
             <<"signals" \in s.faults, "Signals">> >>)

Unowned == [loop |-> "none", flight |-> 0, failed |-> FALSE]

WkInit ==
    /\ \E s \in WkSettings :
          wk = [cfg |-> s, step |-> 1, left |-> s.grace, outer |-> 0, timer |-> 0,
                stage |-> IF WkRefused(s) = "ok" THEN "prepare" ELSE "exited",
                code |-> IF WkRefused(s) = "ok" THEN "none" ELSE "1",
                pending |-> FALSE, stops |-> 0, failure |-> FALSE, degraded |-> FALSE,
                panicked |-> FALSE, lost |-> FALSE, faults |-> 0]
    /\ own = [open |-> {}, failed |-> {}]
    /\ work = [o \in WorkOwners |-> Unowned]
    /\ bg = [task |-> [t \in WkTasks |-> "none"], failure |-> FALSE]

-----------------------------------------------------------------------------
(* Startup.  Each step puts what it opens under the teardown's ownership     *)
(* before it awaits, so a step that fails leaves it there.                   *)

WkSteps == <<"observe", "register", "pool", "history", "activate", "connect", "admit",
           "consumer", "engines", "outbox", "bind", "progress">>

WkStep == WkSteps[wk.step]

\* Handlers, or a factory that will add them once the pool is there.
ConsumesMessages(s) == s.messages \/ s.factory

\* main's register: every outbound endpoint has a signing key and a client, and
\* every inbound endpoint a consumer.  Then the kinds, the handlers and the
\* consumer's settings are validated; the outbox always has its own kind.
RegisterCapabilities(s) ==
    First(<< <<"factory" \in s.faults /\ s.factory, "Registration">>,
             <<"outbound_key" \in s.faults, "Registration">>,
             <<"outbound_endpoint" \in s.faults, "Registration">>,
             <<"inbound_endpoint" \in s.faults, "Registration">>,
             <<"kinds" \in s.faults /\ s.jobs, "Kinds">>,
             <<"messaging" \in s.faults /\ ConsumesMessages(s), "Config">> >>)

\* admit_pool: the outbox needs the pool whatever was registered.
AdmitPool(s) ==
    First(<< <<"postgres" \in s.faults, "PostgresDisabled">>,
             <<"capacity" \in s.faults, "Config">>,
             <<"producer" \in s.faults, "Config">>,
             <<"dsn" \in s.faults, "PostgresDsn">> >>)

\* messaging_options and Messaging::prepare
MessagingOptions(s) ==
    First(<< <<"source_stream" \in s.faults, "MessagingConfigRequired">>,
             <<ConsumesMessages(s) /\ "durable" \in s.faults, "MessagingConfigRequired">>,
             <<"payload" \in s.faults, "MessagingPayloadBound">> >>)

\* activate_postgres_messages: the factory fills the registry of the messages.
ActivatePostgresMessages(s) ==
    First(<< <<s.factory /\ "factory_build" \in s.faults, "Registration">>,
             <<s.factory /\ ~s.messages /\ "factory_empty" \in s.faults, "MessagingRegistry">> >>)

\* outbox_publisher: the publication kind is reserved.
OutboxPublisher(s) == First(<< <<s.jobs /\ "reserved_kind" \in s.faults, "PublisherKindConflict">> >>)

\* What a step refuses before it opens anything.
StepRefused ==
    LET s == wk.cfg
    IN  CASE WkStep = "register" -> RegisterCapabilities(s)
          [] WkStep = "pool"     -> AdmitPool(s)
          [] WkStep = "connect"  -> MessagingOptions(s)
          [] WkStep = "activate" -> ActivatePostgresMessages(s)
          [] WkStep = "outbox"   -> OutboxPublisher(s)
          [] OTHER -> "ok"

\* install_observability, open_pool, connect_messaging and bind_listeners
StepOpens == CASE WkStep = "observe"  -> {"tracer", "logger"}
               [] WkStep = "pool"     -> {"pool"}
               [] WkStep = "connect"  -> {"messaging"}
               [] WkStep = "bind"     -> {"readiness", "health", "diagnostics"}
               [] OTHER -> {}

\* The owner a step prepares; nothing claims or pulls before startup ended.
StepPrepares ==
    {o \in WorkOwners :
        \/ WkStep = "engines" /\ o = "ordinary" /\ wk.cfg.jobs
        \/ WkStep = "outbox" /\ o = "outbox"
        \/ WkStep = "consumer" /\ o = "consumer" /\ ConsumesMessages(wk.cfg)}

\* spawn_metrics_tasks, the registered tasks and the readiness refresher
WkSpawned == IF WkStep = "register" THEN [t \in WkTasks |-> "run"] ELSE bg.task

\* The step begins: what it opens is owned.
StepBegins ==
    /\ wk.stage = "prepare" /\ StepRefused = "ok"
    /\ ~(StepOpens \subseteq own.open)
    /\ own' = [own EXCEPT !.open = @ \cup StepOpens]
    /\ UNCHANGED <<wk, work, bg>>

\* The step ends well.  prepare ends with the last one.
StepEnds ==
    /\ wk.stage = "prepare" /\ StepRefused = "ok"
    /\ StepOpens \subseteq own.open
    /\ work' = [o \in WorkOwners |-> IF o \in StepPrepares THEN [Unowned EXCEPT !.loop = "ready"]
                                 ELSE work[o]]
    /\ bg' = [bg EXCEPT !.task = WkSpawned]
    /\ wk' = IF wk.step < Len(WkSteps) THEN [wk EXCEPT !.step = @ + 1]
             ELSE [wk EXCEPT !.stage = "start"]
    /\ UNCHANGED own

-----------------------------------------------------------------------------
(* What stops the worker *)

\* pending_failure: a background task, a listener, an engine, the consumer, or
\* the readiness progress.
WkPendingFailure == \/ bg.failure
                    \/ own.failed # {}
                    \/ \E o \in WorkOwners : work[o].failed
                    \/ wk.lost

\* Before every engine and the consumer starts: pending_end.
StartOwner(o) ==
    /\ wk.stage = "start" /\ ~WkPendingFailure /\ ~wk.pending
    /\ work[o].loop = "ready"
    /\ o = "consumer" => \A e \in WkEngines : work[e].loop # "ready"
    /\ work' = [work EXCEPT ![o].loop = "up"]
    /\ UNCHANGED <<wk, own, bg>>

\* jobs_worker_ready
ServeWork ==
    /\ wk.stage = "start" /\ ~WkPendingFailure /\ ~wk.pending
    /\ \A o \in WorkOwners : work[o].loop # "ready"
    /\ wk' = [wk EXCEPT !.stage = "serve"]
    /\ UNCHANGED <<own, work, bg>>

Lower(a, b) == IF a > b THEN a - b ELSE 0
Lesser(a, b) == IF a < b THEN a ELSE b

\* Budget::remaining
WkRemaining(want) == Lesser(want, Lower(wk.left, WkRuntime))

\* stop_work: readiness drains and nothing new is claimed or pulled.  Prepared
\* owners were never started and are dropped.
StopWork == [o \in WorkOwners |->
    IF work[o].loop = "up" THEN [work[o] EXCEPT !.loop = "stopping"]
    ELSE IF work[o].loop = "ready" THEN Unowned ELSE work[o]]

WorkStarted == \E o \in WorkOwners : work[o].loop \in {"up", "stopping", "ended"}

\* stop_progress, then the plan of the teardown: a failure that is already
\* recorded wins over a signal.  error: startup was refused or is not ready, or
\* the lifecycle panicked.  stalled: the loss only stop_progress finds.
StopWorker(error, stalled) ==
    /\ wk.stage \in {"prepare", "start", "serve"}
    /\ stalled => "readiness" \in own.open /\ wk.stage # "prepare"
    /\ error \/ wk.pending \/ WkPendingFailure
    /\ LET left == wk.cfg.grace
           budget == IF WorkStarted THEN Lesser(wk.cfg.drain, Lower(left, WkRuntime)) ELSE 0
       IN  wk' = [wk EXCEPT !.stage = "drain", !.pending = FALSE, !.left = left,
                            !.failure = error \/ stalled \/ WkPendingFailure,
                            !.outer = budget, !.timer = budget]
    /\ work' = StopWork
    /\ UNCHANGED <<own, bg>>

-----------------------------------------------------------------------------
(* Teardown *)

\* Allotments that start when their stage is entered; the abort and the close
\* share one, and so do trace and log.
WkWant == [cleanup |-> WkCleanup, listeners |-> WkListeners, join |-> WkJoin,
           abort |-> WkClose, trace |-> WkFlush + WkSlack]

WkEnter(next, unclean) ==
    LET outer == IF next \in DOMAIN WkWant THEN WkRemaining(WkWant[next]) ELSE wk.outer
    IN  wk' = [wk EXCEPT !.stage = next, !.degraded = @ \/ unclean, !.outer = outer,
                         !.timer = IF next = "trace" THEN Lower(outer, WkLogReserve) ELSE outer,
                         !.pending = FALSE]

\* Mutation: an engine is drained when nothing is in flight.
DrainedNow(o) == work[o].flight = 0

\* Started::drained: the claim loop exited and every supervisor ended.
OwnerDrained(o) == work[o].flight = 0 /\ work[o].loop \in {"none", "ended"}

AllDrained == \A o \in WorkOwners : OwnerDrained(o)

\* drain ends by itself.
DrainEnds ==
    /\ wk.stage = "drain" /\ AllDrained
    /\ WkEnter(IF work["consumer"].failed THEN "cleanup" ELSE "listeners", work["consumer"].failed)
    /\ UNCHANGED <<own, work, bg>>

\* drain is forced, by its budget or by a second signal.
DrainForced ==
    /\ wk.stage = "drain" /\ ~AllDrained
    /\ wk.timer = 0 \/ wk.pending
    /\ WkEnter("cleanup", TRUE)
    /\ UNCHANGED <<own, work, bg>>

\* finish_work: the cancelled handlers and the aborted consumer are done, or
\* the cleanup deadline passed.  The consumer is dropped after it.
CleanupEnds ==
    /\ wk.stage = "cleanup"
    /\ AllDrained \/ wk.timer = 0
    /\ WkEnter("listeners", ~AllDrained)
    /\ work' = [work EXCEPT !["consumer"].loop = IF @ = "none" THEN @ ELSE "ended",
                            !["consumer"].flight = 0]
    /\ UNCHANGED <<own, bg>>

ClosingOf(rs) == [own EXCEPT !.open = @ \ rs]

\* close_health and close_diagnostics: a failed accept loop is not clean, nor
\* is a health listener that outlives its budget; a late scrape is.
ListenersEnd(late) ==
    /\ wk.stage = "listeners"
    /\ late => wk.timer = 0 /\ "health" \in own.open
    /\ WkEnter("join", late \/ own.failed # {})
    /\ own' = ClosingOf({"health", "diagnostics"})
    /\ UNCHANGED <<work, bg>>

WkLiveTasks == {t \in WkTasks : bg.task[t] \in {"run", "aborting"}}
LiveLoops == {e \in WkEngines : work[e].loop \in {"up", "stopping"}}

WkAborting == [t \in WkTasks |-> IF bg.task[t] = "run" THEN "aborting" ELSE bg.task[t]]

\* join_background: the token is cancelled; every task and every loop ended, or
\* the rest is aborted.
JoinEnds ==
    /\ wk.stage = "join"
    /\ (WkLiveTasks = {} /\ LiveLoops = {}) \/ wk.timer = 0
    /\ WkEnter("abort", bg.failure \/ WkLiveTasks # {} \/ LiveLoops # {})
    /\ bg' = [bg EXCEPT !.task = WkAborting]
    /\ UNCHANGED <<own, work>>

\* Mutation: the engines' failures are not asked for after the join.
WkAbortEndsBlind ==
    /\ wk.stage = "abort"
    /\ (WkLiveTasks = {} /\ LiveLoops = {}) \/ wk.timer = 0
    /\ WkEnter("close", WkLiveTasks # {} \/ LiveLoops # {})
    /\ UNCHANGED <<own, work, bg>>

\* finish_background, then the failures of the engines.
WkAbortEnds ==
    /\ wk.stage = "abort"
    /\ (WkLiveTasks = {} /\ LiveLoops = {}) \/ wk.timer = 0
    /\ WkEnter("close", \/ WkLiveTasks # {} \/ LiveLoops # {}
                        \/ \E e \in WkEngines : work[e].failed)
    /\ UNCHANGED <<own, work, bg>>

\* close_dependencies: the pool and the broker connection close together, with
\* what is left of one allotment.  late: those that did not confirm in time.
DependenciesEnd(late) ==
    /\ wk.stage = "close"
    /\ late \subseteq own.open \cap {"pool", "messaging"}
    /\ late # {} => wk.timer = 0
    /\ WkEnter("trace", late # {} \/ bg.failure)
    /\ own' = ClosingOf({"pool", "messaging"} \ late)
    /\ UNCHANGED <<work, bg>>

\* finish_telemetry: the tracer, then the logger.
TraceEnds(incomplete) ==
    /\ wk.stage = "trace"
    /\ WkEnter("log", incomplete /\ "tracer" \in own.open)
    /\ own' = ClosingOf({"tracer", "readiness"})
    /\ UNCHANGED <<work, bg>>

\* exit_code, and the runtime is shut down with what is left.
LogEnds(incomplete) ==
    /\ wk.stage = "log"
    /\ LET degraded == wk.degraded \/ (incomplete /\ "logger" \in own.open)
       IN  wk' = [wk EXCEPT !.stage = "runtime", !.degraded = degraded,
                            !.code = IF wk.failure THEN "1" ELSE IF degraded THEN "3" ELSE "0",
                            !.timer = Lesser(WkRuntime, wk.left), !.outer = 0]
    /\ own' = ClosingOf({"logger"})
    /\ UNCHANGED <<work, bg>>

RuntimeEnds ==
    /\ wk.stage = "runtime"
    /\ (WkLiveTasks = {} /\ LiveLoops = {}) \/ wk.timer = 0
    /\ wk' = [wk EXCEPT !.stage = "exited"]
    /\ UNCHANGED <<own, work, bg>>

WkAfter == [drain |-> "cleanup", cleanup |-> "listeners", listeners |-> "join",
            join |-> "abort", abort |-> "close", close |-> "trace", trace |-> "log"]

\* stage: an unwound stage is degraded, and the next owner still runs.
WkStagePanics ==
    /\ wk.stage \in DOMAIN WkAfter
    /\ wk.faults < WkFaults
    /\ LET outer == IF WkAfter[wk.stage] \in DOMAIN WkWant
                    THEN WkRemaining(WkWant[WkAfter[wk.stage]]) ELSE wk.outer
       IN  wk' = [wk EXCEPT !.stage = WkAfter[wk.stage], !.degraded = TRUE,
                            !.panicked = TRUE, !.faults = @ + 1, !.outer = outer, !.timer = outer]
    /\ own' = CASE wk.stage = "listeners" -> ClosingOf({"health", "diagnostics"})
                [] OTHER -> own
    /\ work' = IF wk.stage = "cleanup"
               THEN [work EXCEPT !["consumer"].loop = IF @ = "none" THEN @ ELSE "ended",
                                 !["consumer"].flight = 0]
               ELSE work
    /\ bg' = IF wk.stage = "join" THEN [bg EXCEPT !.task = WkAborting] ELSE bg

-----------------------------------------------------------------------------
(* WkEngines, consumer, tasks, listeners, signals and time *)

WkAlive == wk.stage # "exited"

\* One more failure, within the bound.
WkFault == wk.faults < WkFaults /\ wk' = [wk EXCEPT !.faults = @ + 1]

\* A round or a pull that was sent brings work, also one sent before the stop.
ClaimLands(o) ==
    /\ WkAlive /\ work[o].loop \in {"up", "stopping"} /\ work[o].flight = 0
    /\ work' = [work EXCEPT ![o].flight = 1]
    /\ UNCHANGED <<wk, own, bg>>

\* The supervisor recorded the outcome, or gave up at the cleanup deadline.
AttemptEnds(o) ==
    /\ WkAlive /\ work[o].flight = 1
    /\ work' = [work EXCEPT ![o].flight = 0]
    /\ UNCHANGED <<wk, own, bg>>

\* The loop saw its cancelled token.
LoopExits(o) ==
    /\ WkAlive /\ work[o].loop = "stopping"
    /\ work' = [work EXCEPT ![o].loop = "ended"]
    /\ UNCHANGED <<wk, own, bg>>

\* Guard and SupervisorGuard: a loop or a supervisor ended or panicked on its
\* own; the consumer lost its subscription.  Work in flight may be left.
OwnerFails(o) ==
    /\ WkAlive /\ work[o].loop \in {"up", "stopping"} /\ ~work[o].failed
    /\ WkFault
    /\ work' = [work EXCEPT ![o].failed = TRUE, ![o].loop = "stopping"]
    /\ UNCHANGED <<own, bg>>

\* The root token is cancelled by join_background.
WkCancelled == wk.stage \in {"join", "abort", "close", "trace", "log", "runtime"}

\* ReportUnlessCancelled: an end before cancellation, or a panic, is a failure.
WkTaskEnds(t, panics) ==
    /\ WkAlive /\ bg.task[t] = "run"
    /\ bg' = [task |-> [bg.task EXCEPT ![t] = "ended"],
              failure |-> bg.failure \/ panics \/ ~WkCancelled]
    /\ IF panics \/ ~WkCancelled THEN WkFault ELSE UNCHANGED wk
    /\ UNCHANGED <<own, work>>

WkAbortLands(t) ==
    /\ WkAlive /\ bg.task[t] = "aborting"
    /\ bg' = [bg EXCEPT !.task[t] = "ended"]
    /\ UNCHANGED <<wk, own, work>>

\* watch_listener: the accept loop failed; the watcher task ends with it.
ListenerFails(l) ==
    /\ WkAlive /\ l \in {"health", "diagnostics"} \cap own.open
    /\ own' = [own EXCEPT !.failed = @ \cup {l}]
    /\ bg' = [bg EXCEPT !.failure = @ \/ ~WkCancelled]
    /\ WkFault
    /\ UNCHANGED work

\* start_progress: the readiness refresher fell behind.
ProgressLost ==
    /\ wk.stage \in {"start", "serve"} /\ ~wk.lost
    /\ wk.faults < WkFaults
    /\ wk' = [wk EXCEPT !.lost = TRUE, !.faults = @ + 1]
    /\ UNCHANGED <<own, work, bg>>

\* Signals::wait; a signal after the drain is consumed without effect.
StopSignal ==
    /\ wk.stage \in {"prepare", "start", "serve", "drain"} /\ wk.stops < WkSignals
    /\ wk' = [wk EXCEPT !.pending = TRUE, !.stops = @ + 1]
    /\ UNCHANGED <<own, work, bg>>

WkTick ==
    /\ wk.stage \notin {"prepare", "start", "serve", "exited"} /\ wk.timer > 0
    /\ wk' = [wk EXCEPT !.left = Lower(@, 1), !.outer = Lower(@, 1), !.timer = @ - 1]
    /\ UNCHANGED <<own, work, bg>>

WkNext ==
    \/ StepBegins \/ StepEnds \/ ServeWork
    \/ \E o \in WorkOwners : StartOwner(o) \/ ClaimLands(o) \/ AttemptEnds(o) \/ LoopExits(o)
                            \/ OwnerFails(o)
    \/ \E error, stalled \in BOOLEAN : StopWorker(error, stalled)
    \/ DrainEnds \/ DrainForced \/ CleanupEnds \/ JoinEnds \/ WkAbortEnds \/ RuntimeEnds
    \/ \E late \in BOOLEAN : ListenersEnd(late) \/ TraceEnds(late) \/ LogEnds(late)
    \/ \E late \in SUBSET {"pool", "messaging"} : DependenciesEnd(late)
    \/ WkStagePanics
    \/ \E t \in WkTasks : WkAbortLands(t) \/ \E panics \in BOOLEAN : WkTaskEnds(t, panics)
    \/ \E l \in {"health", "diagnostics"} : ListenerFails(l)
    \/ ProgressLost \/ StopSignal \/ WkTick

-----------------------------------------------------------------------------
(* Properties *)

\* The pool never closes under an attempt the worker calls finished: when
\* close_dependencies begins with an attempt still in flight or a claim loop
\* still alive, the shutdown was degraded already, whatever forced it.
PoolOutlivesAttempts ==
    wk.stage = "close" /\ ~wk.degraded => AllDrained

\* Exit code 0 means a clean stop: no engine, consumer, listener or background
\* task ever failed, nothing was cut, and everything startup opened was closed.
\* Exit code 3 never hides a failure that was recorded before the stop.
WorkerExitHonest ==
    /\ WkTypeOK
    /\ wk.code = "0" => /\ ~WkPendingFailure /\ ~wk.panicked
                        /\ AllDrained /\ WkLiveTasks = {}
                        /\ own.open = {}
    /\ wk.code \in {"0", "3"} => ~wk.failure

\* The grace the configuration was admitted with covers the stages: the drain
\* leaves the whole tail, so a forced one leaves the cancelled attempts their
\* whole cleanup time and those after it theirs.
GraceCovers ==
    /\ wk.stage = "drain" => wk.left >= wk.timer + WkTail
    /\ wk.stage = "cleanup" => wk.left >= wk.timer + WkTail - WkCleanup

\* A worker stops in order and says how it did, whatever forces the drain, fails
\* beside it or lands after it (jobs-worker/src/shutdown.rs, run).
WorkerStopsInOrder == PoolOutlivesAttempts /\ WorkerExitHonest /\ GraceCovers
=============================================================================
