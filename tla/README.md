# A verification project for rust-service-template-rest

TLA+ models of the stateful parts of the service template, TLC runs that check
them on small instances, and TLAPS proofs for every instance. `PROJECT.json`
lists components, runs, the map from definitions to source lines, hazards and
theorems.

## 1. The system

The repository is a Rust workspace for a REST/gRPC service and a background
worker over PostgreSQL, NATS JetStream, a Redis-compatible cache, object storage
and OAuth2 providers. What makes it hard is at its edges: statements and
settlements that execute late, twice or with a lost answer; leases and timers
that race; futures dropped between two steps; results shared by callers with
unlike deadlines; a process that must stop in time without hiding what it cut.

| Component | State | Operations | What makes it correct |
|---|---|---|---|
| `infra-jobs` queue | rows of `background_jobs`: state, attempts, errors, generation, lease | enqueue, claim, handle, complete / retry / snooze / fail / release, redrive, discard, retention | one handler per job, exact attempt accounting, an effect at most once, every job ends |
| `infra-jobs` completions | queue of one engine, writer lock, replies | register, take a batch, write, prune, retire, reply, drop | nobody waits for ever or is told of another row |
| `infra-jobs` engine | peers, claim loops, wake-ups, permits, the published sample | claim loop, notify, listen, sample, forced cleanup | claims fit slots; no due job is slept through; a sample covers every kind |
| `infra-idempotency-store` | a record per scope, an advisory lock per key | read, lock, read again, work, write, commit, cleanup | work at most once per retention, honest answers |
| `infra-messaging` consumer | deliveries, slots, the durable, the dead-letter stream | pull, handle, ack, nak, transfer, drain, abort | settle last, bounded handling, one copy |
| `infra-messaging` producer, outbox | the publishing job, publications in flight, the stream | enqueue in a transaction, publish, retry, redrive, close | published if committed, once in the duplicate window |
| `service` lifecycle | stage, budgets, tasks, requests, exit code | start, serve, drain, join, close, flush | in time, in order, nothing hidden |
| `health` | verdict, streak, drain flag, progress obligation, gauge | refresh, expire, drain, observe, watch | fresh evidence, losses never hidden, watchers told |
| `infra-oauth2-client-credentials` | cached token, shared failure, refresh slot, exchange cache | acquire, refresh ahead, 401 eviction, exchange, close | no needless request, no lost token, nobody fails by another's budget |
| `infra-bearerauthn` | key set with tickets, introspection cache | verify, join or start a fetch, fill, take over | no stale verdict, every joiner answered |
| `infra-serviceauth` | the source's token, the receiver's memory | sign, reuse, verify, remember | a handed-out token is never refused, nothing forged is served |
| `infra-cache` | connection generations | connect, command, retire, probe, close | only the failed generation is retired, nobody sleeps through news |
| `infra-http` chain | permits, the line, budgets, counts | admit, shed, authenticate, arbitrate, answer, hang up | permits return, one budget from the arrival, one count per request |
| `infra-grpc` | registered services and rules; two bounds on calls; a call's resources, trailers, timer and upload | register, build; admit, authenticate, answer, poll, time out, drop; prepare and send | a call ends once, whoever ends it, and everything it held returns |
| `infra-webhooks` | receipts, key rings, delivery and processing jobs | sign, send, verify, receive, clean up | a 204 means a job, one job per receipt |
| `infra-object-storage` | slots, an operation's outcome, withheld bytes | put, delete, get, poll, time out, drop | the told outcome is true, a whole download or none |
| `infra-postgres` | pooled connection, transaction outcome, counters | run, prove, commit, clean up, sample | an unknown commit is named so, counters never claim too much |
| `jobs-worker` | stage, budgets, engines, operator receipts | start, drain, force, close; redrive and discard commands | as the service's lifecycle; a receipt is true whenever it is read |
| `migrate` | applied history, schema, lock | apply, build outside a transaction, verify | an interrupted run is visible |
| `config` | carriers, files, the snapshot | scan, merge, decode, validate | the strongest carrier wins, values stay hidden |
| `operation-context`, `service-failure` | none between calls | | used by the models of their callers |
| `infra-outbound-http`, `infra-telemetry`, contracts, `domain-events` | none between calls, or I/O | | see section 5 |

Interactions: handlers, the idempotency store, webhook receipts and the outbox
share transactions (`infra-postgres`); outbox and webhook deliveries are kinds of
the job queue; lifecycle starts and joins the readiness refresher, the consumer,
the refresh drivers and the cleanup loops, and reads readiness for its first
serving step; gRPC health watches readiness; the HTTP chain calls authentication
and the idempotency boundary inside one request's budget; worker, service and
migrator admit a release by the history the migrator wrote.

## 2. Modules

| Module | Role |
|---|---|
| `JobQueue`, `JobQueueProofs`, `MCJobQueue` | the durable queue; its theorems; instances |
| `Completions` | batched completions of one engine |
| `OncePerScope` | abstract promise: one commit per scope and retention period |
| `Idempotency`, `IdempotencyProofs`, `MCIdempotency` | arbitration; implements `OncePerScope` |
| `Consumer`, `ConsumerProofs`, `MCConsumer` | the JetStream pull consumer |
| `Lifecycle`, `LifecycleProofs`, `MCLifecycle` | one process from startup to exit |
| `Readiness`, `ReadinessProofs` | readiness and its followers; its theorems |
| `ServiceToken`, `TokenExchange` | one OAuth2 owner's service token; its exchange for one subject |
| `BearerAuthn`, `KeyRefresh`, `Introspection` | what is decided about one token; JWT keys; opaque tokens |
| `ServiceAuth` | caller-signed tokens between services |
| `CacheLink` | connection generations of the cache client |
| `HttpRules`, `HttpEdge` | decisions of the HTTP chain; requests on their way through it |
| `GrpcCall` | decisions of the gRPC crate; served and sent calls from arrival to end |
| `ConfigSections`, `ConfigLoad` | every section's defaults and checks; one load |
| `ObjectStorage` | operations on one bucket |
| `Webhooks` | one message from its sender to the receiver's job |
| `MessagingRules`, `Outbox` | decisions of the messaging crate; the outbox and its producer |
| `JobEngine` | when a process looks for jobs |
| `JobsWorker` | the worker process |
| `PostgresRules`, `PgTransaction`, `OperatorCommand` | decisions of the PostgreSQL crate; the transaction seam; a recovery command over it |
| `Migrations` | migrators of two releases |
| `Maintenance` | cleanup passes and the population sampler |
| `Refusals` | a validation as its list of early returns |
| `TokenProofs`, `EdgeProofs`, `BackendProofs` | theorems about the components of the last three runs and about `Completions` |
| `MCTokens`, `MCEdge`, `MCBackends` | instances of several independent components; named facts about the stateless operators |

Conventions. An action is one step that nobody can interrupt: a SQL statement, a
section under a mutex, the code between two awaits. Where a call crosses the
network it is three steps, sent, executed and answered, and each may not
happen. Time is counted in ticks that remain on timers wherever the code keeps no
instant, so there is no clock to bound; `Tick` waits for timers at zero where the
code's timer would fire. Where instants are stored (receipts, duplicate windows,
token issue times, request origins) there is a clock with a named end. Values
that are only compared saturate just past the comparison, which is exact.
A run whose constants are plain values checks its component's module itself.
Operators commented `Mutation:` are plausible faults; each replaces the operator
after it in one run, which must then fail (`mutants` in `PROJECT.json`).

Stateless decisions (validations, classifications, policies, mappings) are
operators. `First` of `Refusals` keeps the order of the early returns, which
decides what an operator of the system is told. What is wrong with an input is a
set of named faults; bytes that no decision tells apart are not modelled.
`MCEdge` and `MCBackends` state, as named assumptions that TLC evaluates,
what these operators compute against a second description of it over bounded
inputs.

### JobQueue

`row` is a row of `background_jobs`; `slot` the supervisor of an attempt
(`attempt.rs`), `eng` a worker's claim loop (`claim.rs`), `wire` the outcome
statements on their way, `seq` the generation sequence, `effects` the commits of
business transactions. `SendClaim`, `ExecClaim`, `AckClaim` and `LoseClaim` split
the claim; a claim that executes after its client gave up is `ExecClaim`, then
`LoseClaim`. The handler's end, `persist`'s sends, their execution (`Fenced`) and
answers are separate, and a statement may be lost or executed again. Crashes,
forced drains, redrives, discards and retention interleave with everything.

One kind per instance; which of several due rows a claim draws is left open.
`MaxLag < Margin` is the assumption that the runtime polls an elapsed timer
within `CANCEL_MARGIN`. Unique keys are modelled; the instances use none.

### Completions

`queued`, `batch`, `lock`, `waiting` and `reply` are the queue, the batch of the
writer, the tokio mutex with its FIFO waiters, and the oneshots. A supervisor can
be dropped at every await; its registration retires itself (`Drop`). A slot
names a supervisor because the registration keeps the slot.

### Idempotency and OncePerScope

`tx` is a request's transaction, `lock` the advisory locks, `rec` the records
with their remaining life, `answer` what the caller is told, `seen` whose record
it was told of. Step 1 reads and tries the lock, step 2 reads again; a client may
give up at each step, while the server still finishes what it was sent, and the
answer to COMMIT may be lost. Lock keys may collide; the instance gives one scope
to all requests, the proofs cover collisions. `record_not_written` is unreachable
(`WorkUnderLock`). Failover is only a failure of the attempt.

`OncePerScope` knows commits, the record kept for a scope, and decisions by it;
`ImplementsOnce` is the refinement.

### Consumer

`src` is the broker's view of a message, `dlv` a slot's delivery, `rep` a
replica's pull loop, `wire` settlements on their way, `dlq` copies, `gen` and
`exists` the durable. JetStream is external: an acknowledgement settles whatever
delivery is pending, redelivery follows ACK_WAIT or a nak, the duplicate window
may forget an identity. `Prompt` says whether a message may outlive the budget
its sender waits. `ConsumerLost` drops the deliveries in progress. Deliveries
without metadata cannot occur here. The panic of a delivery task is not modelled.

### Lifecycle

`stage` follows `run` and `shutdown::run`; `outer` and `timer` are the current
allotment, `left` the time to the process deadline, `bad` the tasks with a latched
failure. Configurations that `HttpConfig::validate` or `validate_grace_budget`
refuse never serve. HTTP and gRPC drain together under one budget, so there is
one listener. Requests in `Slow` are streaming responses. Each stage may panic,
hang or finish at any tick of its allotment.

### Readiness

Each publication is one step under the watch lock: `Refresh`, `StartDrain`,
`ArmProgress`, `StopProgress`, expiry. The refresher that keeps its schedule
(`ref.kept`) and the one that may hang are both initial states. `obs` is
`wait_for_progress_loss`, `watch` a Watch stream with the wake-ups it can miss.

### ServiceToken

`cached`, `due`, `failure` and `pending` are `Cached`; `lock` is `Inner::refresh`;
`request` the queue of one; `driver` the `RefreshDriver`, whose `closed` state is
the closed channel. A token's `id` stands for the allocation compared by
`Arc::ptr_eq`, `life` for the provider's expiry, which the code does not keep.
`quiet` is a history variable: the time a completed failure is to be shared.
Callers bring deadlines, may be dropped at every await, and end with a response
or a 401.

### TokenExchange

`exCached` is the subject's cache entry, `exLeader` the caller whose exchange is in
flight, `exCall` each caller with its budget. A turn in `exchanged_or_fetch` fixes
`fetch_deadline` once, when it begins (`Entering`): a waiter that takes over an
exchange has only what is left of it, and when it runs out its timeout is the
result everyone who waits receives. `in` is a history: how long the turn has
lasted. Joining, the leader's timeout or drop, takeover by a waiter, single-use
answers, evictions by 401 and the owner's end are actions. Timers fire at their
instant here. A token is known by its number.

### BearerAuthn, KeyRefresh, Introspection

`BearerAuthn` holds the decisions about a header, a JWS, claims, an introspection
answer and a JWKS document, in the code's order. `KeyRefresh` adds the installed
keys and tickets (`jwtStore`), the one worker with its wake permit (`jwtWorker`),
requests (`jwtCall`) and an issuer that publishes and withdraws keys
(`jwtPublished`). The startup fetch is a state of its own: the document is read at
some instant of it, and the first cooldown begins when it has ended and
`RefreshState::new` runs, so the first keys may be an exchange old already when
they start to answer (`KnownAfter`). `Introspection` has the retained result (`insRetained`), the
shared fill (`insFill`), requests (`insCall`) and a token that expires or is
revoked (`insToken`). A signature is good or not.

### ServiceAuth

`saClock` is the caller's clock and how far it differs from the receiver's,
`saCached` the reused token, `saSeen` the receiver's memory, `saCall` the call on
its way, whose token may be forged or meant for another receiver, or one that was
served before.

### CacheLink

`cacheState` is `State` (current generation, error, closed), `cacheRetired` the
cancelled `retired` tokens, `cacheSup` the supervisor, `cacheCmd` each command
with its permit and exchange, `cacheDirty` a history of generations on which a
dispatched exchange was given up. A command may stop at every await.

### HttpRules, HttpEdge

`HttpRules` has the problem catalogue, access policy, replayed successes and
idempotency keys. In `HttpEdge`, `req` is a request's place in the chain with its
arrival, origin and counted outcomes, `line` the FIFO semaphore, `free` its
permits, `active` the gauge. Authentication may succeed, find the credential
missing, malformed or invalid, or find its backend unavailable, which is answered
with 503 at once: a 503 alone therefore says nothing of the budget, and
`BudgetFromArrival` distinguishes requests by whether they were opened. Results of
the store are those `Idempotency` gives. Timers may fire late: the clock never
waits for a step.

### GrpcCall

Its first part has the registry and what a router may be built from, timeouts and the
deadlines that follow from them, statuses and labels. In the second, `gcall` is a
call: where it is, the ticks left of its opening, its lifetime and its wait, the
permits it holds, `res` (`State.resources`), `term` (`State.terminal`), `fin` (the
`Completion` taken but not finished), the statuses recorded and told, its
cancellation token, its timer task, who polls its body, and its upload. `gline` and
`gfree` are the two semaphores, FIFO as tokio's are. `State` changes under a lock
and `Completion::finish` runs outside it, so taking the resources and finishing are
two steps: between them the timer, the poll and the drop meet. A frame that is
ready when the cutoff passed loses to it; timers may be late.

### ConfigSections, ConfigLoad

One operator per section validates it, one gives its defaults. `source` is what
the variables, the secrets directory and the files hold now, `load` how far the
load has come and what it read. A file is read twice and may be replaced between
the two. The decoder is external.

### ObjectStorage

`xfer` is each operation with what was sent, applied, given and withheld, `slots`
the free permits. A mutation may be applied at any time after it was sent; a body
may be shorter or longer than announced.

### Webhooks

`whSender` is the delivery job, `whReq` the request of each attempt, `whRing` both
key rings, `whReceipt` the receiver's receipt, `whAccepted` its processing jobs,
`whDone` the processed ones. The admission's transaction begins (`BeginReceipt`),
inserts and ends in steps of their own, since `received_at DEFAULT now()` is the
transaction's start: a receipt is dated by it, and cleanup goes by that date, so a
job that was committed late may be followed by a second one sooner than a retention
after its own commit. `DeliveredOnce` counts from the date. The commit of a receipt
may be unknown to the receiver and its answer lost.

### Outbox

`obTx` is each writer's transaction, `obRow` the publishing job, `obSlot` the
publication of the job and of a redrive, `obNet` publications on their way (the
abandoned too), `obStream` the copies, `obDlq` the dead-letter records, `obOwed`
what committed writers were promised. Job mechanics are those of `JobQueue`,
reduced to claim, settle and lose.

### JobEngine, JobsWorker

`JobEngine`: `loop` is each claim loop with tick, cooldown, wake and busy slots
(a loop starts inside its cooldown), `je_permit` the permit shared by sampler and
retention, `ear` the LISTEN connection, `due` each kind's due job, how long nobody
has looked for it (history), its running attempts and its `max_running`, `sample`
the one being read and the published one. A claim asks only for kinds that have a
place, and the end of an attempt that was the last its kind allowed wakes the
loop (`KindSlot::drop`). `JobsWorker`: `wk` is the process with stage and deadline, `own` the
resources teardown owns, `work` the engines and the consumer, `bg` background
tasks. Deployments (`WkSettings`) include ones that must be refused.

### PgTransaction, OperatorCommand

`conn` is one connection with what the server does on it, `seam` the running
`transaction()`, `durable` whether its write is committed, `op` the command over
it. The server runs BEGIN and COMMIT also after the client left.

### Migrations, Maintenance

`hist` and `schema` are the history rows and what statements really left, `mrun`
each runner with its session, which lives on in the server when the runner is cut.
A dirty row or a bookkeeping statement that fails ends the run where it occurs
(`ReadHistory`, `BookkeepingFails`), a build that fails leaves what PostgreSQL
leaves of it.
`cleaning` is each pass with the rows its batch locked: `SKIP LOCKED` gives it only
what no other pass holds. A COMMIT that was sent may still run after its pass was
dropped. `shown` are the metrics, `gone` and `unheard` histories of deleted rows,
`probe` the sampler.

## 3. Runs

| Run | Instance | Shows |
|---|---|---|
| `job_queue` | 1 job, 2 workers of unlike `max_attempts`, a crash, a redrive | `FencedCustody`, `EffectsHeld`, `TerminalIsFinal`, `EveryJobEnds` |
| `job_slots` | 2 jobs, 1 worker with 2 slots, a snooze, repeated sends | `ClaimFitsSlots` |
| `completions` | 2 slots | `AnsweredTruly`, `EveryCompletionRecorded` |
| `idempotency` | 3 requests with one key, one of another fingerprint; retention 2 | `OnceAndTrue`, `LockReleased`, `ImplementsOnce` |
| `consumer_settle` | 1 message, 2 replicas, settlements arbitrarily late | `SettlementOrder` |
| `consumer_prompt` | the same within budgets, with crashes and restarts | `WorkBounded` |
| `consumer_live` | 1 replica with 2 slots, a replaced durable | `PullsBounded`, `EveryMessageSettled` |
| `lifecycle` | 3 configurations: exact fit, one tick short, long request; 1 task, 2 requests, 2 signals | `ShutdownOrdered`, `InFlightServed`, `Stops` |
| `readiness` | threshold 2, a refresher late by up to a period or hung, 1 stream | `VerdictHonest`, `NoFalseLoss`, `EveryoneTold` |
| `tokens` | 2 callers of the service token and of introspection, 3 of an exchange; 1 request beside the key worker's periodic fetches, 2 keys and a forger; 1 call at a time between services | `SharedTokensLive`, `SharedFairly`, `RefreshSlotFreed`, `VerdictsJustified`, `JoinersAnswered`, `RevocationBound`, `ServiceTokensHold`, `SharingHurtsNobody` |
| `edge` | 2 cache callers and a prober over 2 generations, 2 requests for 1 permit, 2 served gRPC calls for 1 permit of each bound and 1 sent, 2 transfers for 1 slot, every pair of variables, 2 webhook attempts over a key change | `LinkCustody`, `RequestsHonoured`, `CallsAccounted`, `LoadSound`, `TransfersTold`, `DeliveredOnce` |
| `backends` | 2 writers of 1 event, 5 worker deployments, 2 engines of 2 slots of which one has a kind limited to 1 attempt or not at all, 2 releases of which one has a migration more, 2 passes | `EventsCarried`, `WorkerStopsInOrder`, `EngineServes`, `OperatorReceipt`, `SchemaAdmitted`, `CleanupEvidence` |

Several names are conjunctions of parts that are stated and explained one by one
in their module: `FencedCustody` (with `AttemptAccounting`), `EffectsHeld`
(`LeaseCoversHandler`, `EffectOnce`), `AnsweredTruly` (`OneMembership`,
`AnswerAtHand`, `ToldTheTruth`), `OnceAndTrue` (`AtMostOnce`, `AnswersHold`,
`Arbitrated`), `WorkBounded` (`OneCopy`, `OneWorker`, `HandlerBound`),
`ShutdownOrdered` (`DeadlineCovers`, `FullAllotment`, `CleanExit`,
`DependenciesLast`), `VerdictHonest` (`GapRetained`, `GaugeHonest`,
`EvidenceBound`), `EveryoneTold` (`LossReported`, `WatchersTold`, `WatchersEnd`),
`SharedFairly` (`TokenKept`, `RequestsJustified`), `LinkCustody` (with
`NewsReachesWaiters`), `RequestsHonoured` (`CapacityKept`, `BudgetFromArrival`,
`OutcomeCounted`), `CallsAccounted` (`PermitsFollow`, `EndedOnce`, `ParkedWoken`),
`LoadSound`
(`SnapshotAdmitted`, `ValuesHidden`), `TransfersTold` (`MutationTold`,
`DownloadWhole`), `EventsCarried` (`IntentCarried`, `CopiesApart`),
`WorkerStopsInOrder` (`PoolOutlivesAttempts`, `WorkerExitHonest`, `GraceCovers`),
`EngineServes` (`DueJobsPolled`, `FreshSampleCovers`).

The last three runs cover several components that share no state. `focus` is
chosen initially and names the one that moves, so the behaviours are the union of
the components' own; nothing is gained by interleaving them.

Why the bounds are enough. The races of the queue are between one row's current
and earlier claims: two workers, one crash and one redrive give three custodies
of a row, and one statement on the wire can be late for each. Several rows matter
only for what a claim draws, which `job_slots` covers. Completions need a writer
and a waiter. Three requests give a winner, a retry and a mismatch, and a retention
of two lets each meet a live and an expired record. The consumer's races are
between two deliveries of one message. A coalesced result needs one who leads and
one who waits, takes over or comes late; an exchange needs a third, who waits for the
one that took over, and budgets of `FETCH_TIMEOUT` and above it. For the keys the
periodic fetch is the other party, since a request never leads a fetch but only takes
its ticket, as the period does; an exchange of two ticks lets a key be published
between the document's reading and its installation, and a cooldown of three is
longer than that. Two generations are the one that fails
and its successor, an id is used again once nobody refers to it. One permit and
two requests, or two calls, make a line; the timeouts a gRPC caller brings are none,
zero, below the cap and above it. Two attempts, two keys and a clock of three ticks let a
message be sent again after its receipt expired and its key was replaced; the
outbox's clock of two with a window of two lets a copy be forgotten. Two releases
and two cuts leave an invalid index behind that the other release must see.
The durations keep the order the code's constants have
(`Backstop + Margin <= Reserve`, `Transit < Slack`, one caller deadline below
`FetchTimeout` and one at it, `ReuseTicks + TransitTicks <= TokenLife`), with one
tick for the small ones. Where a bound limits behaviour it is a named constant
(`MaxSends`, `MaxWire`, `MaxSnoozes`, `MaxStops`, `MaxRedrives`, `MaxGen`,
`MaxFaults`, `MaxSignals`, `MaxTokens`, `ClockEnd`, `EdgeEnd`, `TransferEnd`,
`MaxItems`, `MaxReplaced`, `LastKey`, `WhClockEnd`, `ObClockEnd`, `MaxCopies`,
`WkSignals`, `WkFaults`, `MaxStatements`, `MaxCuts`, `MtRows`), and the
theorems hold for all values of theirs. Deadlock is checked in the runs of one
component but for `lifecycle`, where the process exits; in the last three runs
processes, loads and commands end and clocks reach their bound.

Fairness. Time passes; a ready task is polled; a timer that fired is acted on; a
statement that reached the server finishes. The writer and the row lock serve
waiters again and again (strong fairness in `Completions`, on a claim that finds
work in `JobQueue`, on admission and the awaited transfer in `Consumer`): tokio's
mutex is FIFO, the claim's order is by due time, and the budgets retry. In
`tokens`, each call is a task that is polled (one condition per call over its
deadlines and its end), the refresh driver and the key worker are polled, a key
fetch ends at its timeout at the latest, and a request that was answered resumes. Nothing makes a producer, operator, provider, probe,
client, crash or retention pass act. `EveryCompletionRecorded` is conditional on
deadlines that stop passing. `EveryMessageSettled` needs replicas that stay up;
`EveryJobEnds` a bounded number of crashes, redrives and snoozes.

No run shows a disagreement between the code and its documentation.

## 4. Proofs

Every safety invariant and every action property of every run is also a theorem:
for every number of jobs, workers, slots, requests, replicas, tasks, keys, tokens,
rows and streams, every duration and every bound, from the named assumptions of
its module. The specifications of the theorems are those of the runs without
fairness; for the components of the last three runs they are written beside the
theorem (`OpSpec`, `GrSpec`, ...) since `focus` lets one component move at a time.

Few of the properties are inductive. What each proof adds:

- `JobQueueProofs`. `FencedCustody`: attempts are accounted for; every generation
  in use was drawn and belongs to one slot or claim (`GensDrawn`, `GensUnique`);
  whoever holds the row's generation has a local deadline below the row's lease
  (`LeaseLeads`). `LeaseCoversHandler` alone is not inductive: it needs the lease to
  lead while the claim's answer is still on its way. From it `LeaseSafe`,
  `AccountingSafe`, `EffectsSafe` and the action property `TerminalSafe`.
  `ClaimsFit` counts the rows of an answer against the slots that wait for it.
- `IdempotencyProofs`. `Arbitrated` ties lock, transaction and record together;
  a record is the latest commit of its scope and expires with it, and every commit
  within its retention still has its record (`RecordHeld`). From it
  `AnswersAreTrue`, `OnceInRetention`, `WorkIsGuarded` and the step simulation
  `Refinement`.
- `ConsumerProofs`. `SettlementOrder` with its conjuncts on slots and wire.
  `PullsSafe` follows from `PullInv`, what a replica may still be sent and what it
  knows of the durable. `RunsSafe` follows from `RunInv`, by which the runs so far and the
  buffered deliveries that may still run are paid for by the broker's count, and
  from `CopyInv`, by which the dead-letter stream remembers each copy it holds.
  `WorkSafe` (one worker at a time) follows from `WorkInv`: whatever is still to be
  done for a delivery, from buffer to settlement, ends before its ack timer.
- `LifecycleProofs`. `DeadlineCovers`: what is left covers the current allotment and
  all later ones; hence `Allotted`. `Honest` keeps the link between latched
  failures, live tasks and the outcome through the stages; hence `CleanExitSafe` and
  `DependenciesLastSafe`. `InFlightSafe` relates each request's remaining time to the drain.
  `LoadSafe` follows from `LoadInv`: what was merged so far is what the variables and
  files said when they were read (`LoadSays`), and what was printed holds no value
  (`ValuesHidden`). Underneath are lemmas on every section's list of checks.
- `ReadinessProofs`. `EvidenceBound` needs to know how the threshold absorbs
  failures: while a ready verdict is fresh the last success is at most one stale
  bound per absorbed failure older than the check (`Fresh`). With it
  `GapRetainedSafe`, `GaugeSafe` and `EvidenceSafe` follow by one induction.
  `OnScheduleSafe` bounds the age of the check by what is left of the refresher's
  timer, its lateness and its probe.
- `TokenProofs`. `TokenInv`: the cached token's schedule, holders of one allocation
  hold the same token, the lock's owner is at work, a refresh was asked for; hence
  `SharedTokensSafe` and `SharedFairlySafe`. `SaInv` bounds the age of a token in
  transit (`ServiceTokensSafe`). `InsInv` bounds how long after a revocation an
  answer may be retained, on its way or held (`RevocationSafe`). `ExInv` says who
  leads an exchange, that only one holder has a fresh one-time token and that what is
  left of a turn's `fetch_deadline` and the time it has lasted make up FETCH_TIMEOUT
  unless the budget ends it (`SharingSafe`). `JwtInv` says what the store must know of
  a rotated key by the age of the fetch, the startup fetch included, by what is left
  of the cooldown, and by a served request's wait (`VerdictsSafe`).
- `EdgeProofs`. `EdgeInv` and `GrInv`: free permits and holders add up to the
  limit, the line has each waiter once, and somebody waits only if nothing is
  free; with what is known of a call by its place (`RequestsSafe`, `CallsSafe`).
  `XferInv` adds what a mutation's client may say (`TransfersSafe`). `WhInv`: the kept
  receipt has the last job's date, an admission that inserted found none and is alone
  in that, and each job was committed more than a retention after the dates of those
  before it (`DeliverySafe`). `LinkInv`: the supervisor maintains what is current, a given-up
  dispatch retired its generation, and whoever looked and was not notified has
  nothing to see (`LinkSafe`).
- `BackendProofs`. `PgInv`, by stage of the transaction, and `OpInv` over it
  (`ReceiptSafe`). `MgInv`: whoever builds holds the lock, and the history follows
  the schema (`SchemaSafe`). `JeInv`: how long ago a loop looked plus what is left of
  its timer or, once a wake-up ends the wait, of its cooldown; an engine that has not
  started owes and runs nothing; kinds belong to one engine, which the worker refuses
  otherwise (`EngineSafe`). `WkInv`: which resources each stage still has, and that
  the grace covers the stages to come (`WorkerSafe`). `ObInv`: an intent is with its
  writer, its row, the net or a stream (`EventsSafe`). `CompletionInv`: an entry is in one
  queue, and every answer at hand is true (`CompletionsSafe`). `MtInv`: batches hold
  disjoint rows that still exist, and a deletion nobody heard of belongs to a pass that waits
  or to a failure that was shown (`EvidenceTrue`).

Two theorems have a hypothesis. `WorkSafe` assumes `Prompt`: no message
outlives the budget its sender waits. `ack_wait` is computed from these budgets, and
without them JetStream may redeliver whatever the code does (`consumer_settle`
checks what then still holds). `OnScheduleSafe` assumes `Lag <= Period`, since
`stale_after` allows for a missed tick and no more; a refresher that hangs is the
subject of `LossReported`. `MigrationsAssumption` has positive versions only, which
the migrator's own test enforces.

How the proofs are laid out. One lemma per record update keeps records opaque in
the step lemmas, of which there is one per action. Where one of many processes
moves, a lemma says what its new self must satisfy for the whole invariant to hold
(`XferMoves`, `LoopMoves`, `OtherRun`), and the action's lemma shows that. Lists of
early returns (`First`) and the filter `Kept` are functions on a sequence; that
they return what is expected follows from the least counterexample (`LeastNat`, a
case of the library's `WFMin`) and not from an induction theorem. Theorems that
state a run's property as a whole (`EffectsHeldSafe`, `OnceAndTrueSafe`,
`ShutdownOrderedSafe`, `VerdictHonestSafe`) join the theorems of its parts.

Only model-checked: liveness, since fairness and ENABLED are outside the prover
(`EveryCompletionRecorded`, `EveryJobEnds`, `EveryMessageSettled`, `EveryoneTold`,
`JoinersAnswered`, `LockReleased`, `RefreshSlotFreed`, `Stops`), and the facts about
stateless operators in `MCEdge` and `MCBackends`, which compare whole
classifications over bounded inputs.

Two limits of what is shown. `LoadSound` speaks of a file that was replaced between
its scan and its reading only through the clauses on values and budgets: that it
gives no credential is claimed of files that were not replaced, since the code does
not scan the second reading. In `CleanupEvidence` the
sampler of populations is only typed; which samples it accepts is checked in
`MCBackends`.

## 5. Not modelled

- `infra-outbound-http`: limits and redirects of single exchanges through a
  client library.
- `infra-telemetry` apart from the stages that flush it: formatting, subscribers
  and exporters are output.
- Generated contracts and the `domain-events` trait.
- Cryptography (a signature is good or not, a key fits or not), TLS, codecs and
  header bytes, SQL text beyond its conditions, metrics and logs but for the
  readiness gauge, the request gauge and the cleanup counters.
- Libraries and servers (PostgreSQL, JetStream, Redis, S3, providers, the
  configuration decoder) appear only as what the code may observe of them.

## 6. Plan

1. Done: queue, completions, idempotency, consumer, lifecycle, readiness, service
   token; then authentication, cache, HTTP chain, gRPC calls, configuration, object storage,
   webhooks, outbox, engine, worker, operator commands, transactions, migrations
   and maintenance.
2. Done: theorems for every safety invariant and action property of the runs.
3. An abstract job queue that runs each job until it succeeds or is exhausted,
   implemented by `JobQueue` and used by `Outbox` and `Webhooks` in place of their
   reduced one.
