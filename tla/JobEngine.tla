------------------------------ MODULE JobEngine ------------------------------
(***************************************************************************)
(* When a worker process looks for jobs: enqueue and its throttled wake-up *)
(* notification, the listener that may lose it, the claim loops of the     *)
(* process's engines with their poll tick and cooldown, and the sampler    *)
(* and retention that share an engine's permit (src/crates/infra-jobs/src/ *)
(* {enqueue,claim,engine,kind,maintenance,trace_context}.rs).  What a      *)
(* claim does to the rows is module JobQueue's.                            *)
(***************************************************************************)
EXTENDS Integers, FiniteSets, Refusals

CONSTANTS
    JobKinds,       \* the kinds a process registers
    Enqueued,       \* the kinds jobs arrive for
    JePeers,        \* the engines of the process; the first owns its duties
    JeDuties,       \* the engine made with Engine::new
    KindsOf,        \* the kinds each engine registers
    EngineSlots,    \* max_workers of each engine
    MaxRunning,     \* what each kind's Policy::max_running may be; 0: unset
    Poll,           \* POLL_INTERVAL, ticks
    ClaimCooldown,  \* CLAIM_COOLDOWN, ticks
    WakeInterval    \* WAKE_INTERVAL, ticks

ASSUME JobEngineAssumption ==
    /\ JeDuties \in JePeers /\ Enqueued \subseteq JobKinds /\ IsFiniteSet(JobKinds)
    /\ KindsOf \in [JePeers -> SUBSET JobKinds] /\ MaxRunning \in [JobKinds -> SUBSET Nat]
    \* WorkerError::PublisherKindConflict
    /\ \A d, e \in JePeers : d # e => KindsOf[d] \cap KindsOf[e] = {}
    /\ {Poll, ClaimCooldown, WakeInterval, EngineSlots} \subseteq Nat \ {0}

VARIABLES
    peers,    \* engines built so far: Shared::peers
    loop,     \* each engine's claim loop
    je_permit,\* who holds each engine's permit
    tx,       \* the open transaction that enqueued a job of a kind
    due,      \* each kind: its committed due job, how long nobody looked for it, its attempts
              \* under way and how many there may be
    lastwake, \* ticks since the last notification of a kind
    ear,      \* the LISTEN connection
    sample    \* the sample being read, and the kinds of the published one

jeVars == <<peers, loop, je_permit, tx, due, lastwake, ear, sample>>

JeTypeOK ==
    /\ peers \subseteq JePeers
    /\ loop \in [JePeers -> [at: {"off", "idle", "cool", "ready"}, wake: BOOLEAN,
                             tick: 0..Poll, cool: 0..ClaimCooldown, busy: 0..EngineSlots]]
    /\ je_permit \in [JePeers -> {"free", "sample", "retention"}]
    /\ tx \in [JobKinds -> {"none", "quiet", "loud"}]
    /\ lastwake \in [JobKinds -> 0..WakeInterval]
    /\ sample.published \subseteq JobKinds

-----------------------------------------------------------------------------
(* Kinds, policies, payloads and errors *)

\* Kinds::validate, in registration order: name, duplicate, policy.
KindFaults == {"name", "duplicate", "max_attempts", "timeout"}
ValidateKind(faults) ==
    First(<< <<"name" \in faults, "InvalidName">>,
             <<"duplicate" \in faults, "Duplicate">>,
             <<"max_attempts" \in faults, "InvalidPolicy">>,
             <<"timeout" \in faults, "InvalidPolicy">> >>)

\* check_startup: the session's encoding, then writability, then isolation.
SessionFaults == {"unavailable", "encoding", "read_only", "isolation"}
CheckJobsStartup(faults) ==
    First(<< <<"unavailable" \in faults, "Unavailable">>,
             <<"encoding" \in faults, "UnsupportedEncoding">>,
             <<"read_only" \in faults, "NotWritable">>,
             <<"isolation" \in faults, "UnsupportedIsolation">> >>)

\* prepare: a refused job has sent nothing.
PayloadFaults == {"kind", "unique_key", "delay", "serialize", "size", "nul"}
PrepareJob(faults) ==
    First(<< <<"kind" \in faults, "InvalidKind">>,
             <<"unique_key" \in faults, "InvalidUniqueKey">>,
             <<"delay" \in faults, "InvalidDelay">>,
             <<"serialize" \in faults, "Serialize">>,
             <<"size" \in faults, "PayloadTooLarge">>,
             <<"nul" \in faults, "PayloadContainsNul">> >>)

\* PayloadWriter keeps a prefix and counts the whole.
Retained(writes, limit) ==
    LET total[i \in 0..Len(writes)] == IF i = 0 THEN 0 ELSE total[i - 1] + writes[i]
        n == total[Len(writes)]
    IN  [total |-> n, kept |-> IF n < limit THEN n ELSE limit]

\* contains_decoded_nul over bytes: "b" a backslash, "u" the text u0000, "x" any
\* other byte.  A backslash consumes what follows it.
DecodedNul(bytes) ==
    LET live[i \in 0..Len(bytes)] ==     \* byte i + 1 is not consumed by a backslash
            IF i = 0 THEN TRUE ELSE ~(live[i - 1] /\ bytes[i] = "b")
    IN  \E i \in 1..(Len(bytes) - 1) : live[i - 1] /\ bytes[i] = "b" /\ bytes[i + 1] = "u"

\* Carrier::from_stored: both values are bounded and valid, or both absent.
StoredTrace(parent, state) ==
    IF parent = "bad" \/ state = "bad" THEN [parent |-> "none", state |-> "none"]
    ELSE [parent |-> parent, state |-> IF state = "empty" THEN "none" ELSE state]

\* link: a stored context the propagator cannot read adds nothing.
LinkAdded(parent, state) == StoredTrace(parent, state).parent = "valid"

\* JobError: what a handler's error becomes.  An acquire timeout anywhere in the
\* chain of sources is the pool's refusal, not the job's failure.
ErrorDisposition(chain) ==
    IF \E i \in DOMAIN chain : chain[i] = "pool_timed_out" THEN "snooze" ELSE "retry"

-----------------------------------------------------------------------------
(* Engines *)

RegisteredKinds == UNION {KindsOf[e] : e \in peers}

JeInit ==
    /\ peers = {}
    /\ loop = [e \in JePeers |-> [at |-> "off", wake |-> FALSE, tick |-> 0, cool |-> 0, busy |-> 0]]
    /\ je_permit = [e \in JePeers |-> "free"]
    /\ tx = [k \in JobKinds |-> "none"]
    /\ due \in [JobKinds -> [job: {FALSE}, age: {0}, running: {0}, limit: UNION {MaxRunning[k] : k \in JobKinds}]]
    /\ \A k \in JobKinds : due[k].limit \in MaxRunning[k]
    /\ lastwake = [k \in JobKinds |-> WakeInterval]
    /\ ear = [on |-> FALSE, mail |-> {}, next |-> 0]
    /\ sample = [st |-> "none", kinds |-> {}, published |-> {}]

\* Engine::new, then Engine::beside: a new peer invalidates what was published.
BuildEngine(e, faults) ==
    /\ e \notin peers /\ (e = JeDuties \/ JeDuties \in peers)
    /\ ValidateKind(faults) = "ok"
    /\ peers' = peers \cup {e}
    /\ sample' = [sample EXCEPT !.published = {}]
    /\ UNCHANGED <<loop, je_permit, tx, due, lastwake, ear>>

\* check_startup passed; the first tick of the interval is immediate, the first cooldown is not over.
StartLoop(e, faults) ==
    /\ e \in peers /\ loop[e].at = "off"
    /\ CheckJobsStartup(faults) = "ok"
    /\ loop' = [loop EXCEPT ![e].at = "idle", ![e].tick = 0, ![e].cool = ClaimCooldown]
    /\ UNCHANGED <<peers, je_permit, tx, due, lastwake, ear, sample>>

\* Mutation: a wake-up resets the ticker and the loop waits on.
AwaitWake(e) ==
    /\ loop[e].at = "idle"
    /\ loop[e].wake \/ loop[e].tick = 0
    /\ loop' = [loop EXCEPT ![e].at = IF loop[e].wake THEN "idle" ELSE "cool",
                            ![e].wake = FALSE, ![e].tick = Poll]
    /\ UNCHANGED <<peers, je_permit, tx, due, lastwake, ear, sample>>

\* await_tick: a wake-up resets the ticker; a missed tick only delays the next.
AwaitTick(e) ==
    /\ loop[e].at = "idle"
    /\ loop[e].wake \/ loop[e].tick = 0
    /\ loop' = [loop EXCEPT ![e].at = "cool", ![e].wake = FALSE, ![e].tick = Poll]
    /\ UNCHANGED <<peers, je_permit, tx, due, lastwake, ear, sample>>

\* cooldown, since the last claim was sent
Cooled(e) ==
    /\ loop[e].at = "cool" /\ loop[e].cool = 0
    /\ loop' = [loop EXCEPT ![e].at = "ready"]
    /\ UNCHANGED <<peers, je_permit, tx, due, lastwake, ear, sample>>

\* take_slots and engine_permit
MayClaim(e) == loop[e].busy < EngineSlots /\ je_permit[e] = "free"

\* No place is left of the kind's max_running.
KindFull(k) == due[k].limit # 0 /\ due[k].running >= due[k].limit

\* policy_binds: the jobs a claim of the engine may draw
Claimable(e) == {k \in KindsOf[e] : due[k].job /\ ~KindFull(k)}

\* What the next claim waits for.
NextRound(found, free) == IF found = free THEN "ready" ELSE IF found = 0 THEN "idle" ELSE "cool"

\* One round with the free slots: the found jobs of a random choice of kinds are
\* dispatched; a failed round found nothing.
ClaimRound(e, kinds) ==
    /\ loop[e].at = "ready" /\ MayClaim(e)
    /\ LET free == EngineSlots - loop[e].busy
       IN  /\ \/ kinds = {}    \* the statement failed
              \/ /\ kinds \subseteq Claimable(e) /\ Cardinality(kinds) <= free
                 /\ kinds # Claimable(e) => Cardinality(kinds) = free
           /\ loop' = [loop EXCEPT ![e].at = NextRound(Cardinality(kinds), free),
                                   ![e].cool = ClaimCooldown,
                                   ![e].busy = @ + Cardinality(kinds)]
    /\ due' = [k \in JobKinds |->
                 IF k \in kinds THEN [due[k] EXCEPT !.job = FALSE, !.age = 0, !.running = @ + 1]
                 ELSE IF k \in KindsOf[e] THEN [due[k] EXCEPT !.age = 0] ELSE due[k]]
    /\ UNCHANGED <<peers, je_permit, tx, lastwake, ear, sample>>

\* Mutation: the place is given back and nobody is told.
AttemptDoneQuietly(e, k) ==
    /\ loop[e].busy > 0 /\ due[k].running > 0
    /\ loop' = [loop EXCEPT ![e].busy = @ - 1]
    /\ due' = [due EXCEPT ![k].running = @ - 1, ![k].age = IF KindFull(k) /\ due[k].job THEN Poll ELSE @]
    /\ UNCHANGED <<peers, je_permit, tx, lastwake, ear, sample>>

\* The attempt's slot is free again, and KindSlot::drop wakes the loop when its kind was full.  The
\* job that waited for the place is owed no more than a cooldown: its age goes on from the poll's.
AttemptDone(e, k) ==
    /\ loop[e].busy > 0 /\ due[k].running > 0
    /\ loop' = [loop EXCEPT ![e].busy = @ - 1, ![e].wake = @ \/ KindFull(k)]
    /\ due' = [due EXCEPT ![k].running = @ - 1, ![k].age = IF KindFull(k) /\ due[k].job THEN Poll ELSE @]
    /\ UNCHANGED <<peers, je_permit, tx, lastwake, ear, sample>>

-----------------------------------------------------------------------------
(* Enqueue and wake-ups *)

\* enqueue without a delay: wake_due decides whether this transaction notifies.
EnqueueJob(k, faults) ==
    /\ tx[k] = "none" /\ ~due[k].job
    /\ PrepareJob(faults) = "ok"
    /\ tx' = [tx EXCEPT ![k] = IF lastwake[k] < WakeInterval THEN "quiet" ELSE "loud"]
    /\ lastwake' = [lastwake EXCEPT ![k] = IF @ < WakeInterval THEN @ ELSE 0]
    /\ UNCHANGED <<peers, loop, je_permit, due, ear, sample>>

\* The notification leaves with the commit, and only an attached listener gets it.
CommitJob(k) ==
    /\ tx[k] # "none"
    /\ tx' = [tx EXCEPT ![k] = "none"]
    /\ due' = [due EXCEPT ![k].job = TRUE, ![k].age = 0]
    /\ ear' = IF tx[k] = "loud" /\ ear.on THEN [ear EXCEPT !.mail = @ \cup {k}] ELSE ear
    /\ UNCHANGED <<peers, loop, je_permit, lastwake, sample>>

RollbackJob(k) ==
    /\ tx[k] # "none"
    /\ tx' = [tx EXCEPT ![k] = "none"]
    /\ UNCHANGED <<peers, loop, je_permit, due, lastwake, ear, sample>>

WakePeers(es) == [e \in JePeers |-> IF e \in es THEN [loop[e] EXCEPT !.wake = TRUE] ELSE loop[e]]

\* listen: at most one subscription per poll interval, with the pool's current
\* options; what was committed while nobody listened is due now.
Subscribe(ok) ==
    /\ loop[JeDuties].at # "off" /\ ~ear.on /\ ear.next = 0
    /\ ear' = [on |-> ok, mail |-> {}, next |-> Poll]
    /\ loop' = IF ok THEN WakePeers(peers) ELSE loop
    /\ UNCHANGED <<peers, je_permit, tx, due, lastwake, sample>>

\* The connection is lost with the notifications on it.
LoseListener ==
    /\ ear.on
    /\ ear' = [ear EXCEPT !.on = FALSE, !.mail = {}]
    /\ UNCHANGED <<peers, loop, je_permit, tx, due, lastwake, sample>>

\* wake_peers: the engines that register the kind.
Notified(k) ==
    /\ ear.on /\ k \in ear.mail
    /\ ear' = [ear EXCEPT !.mail = @ \ {k}]
    /\ loop' = WakePeers({e \in peers : k \in KindsOf[e]})
    /\ UNCHANGED <<peers, je_permit, tx, due, lastwake, sample>>

-----------------------------------------------------------------------------
(* Sampling and retention hold the permit of the engine with the duties *)

SampleBegins ==
    /\ loop[JeDuties].at # "off" /\ je_permit[JeDuties] = "free" /\ sample.st = "none"
    /\ je_permit' = [je_permit EXCEPT ![JeDuties] = "sample"]
    /\ sample' = [sample EXCEPT !.st = "reading", !.kinds = RegisteredKinds]
    /\ UNCHANGED <<peers, loop, tx, due, lastwake, ear>>

\* The statement is over and the permit back; publication takes the peers' lock.
SampleRead(ok) ==
    /\ sample.st = "reading" /\ je_permit[JeDuties] = "sample"
    /\ je_permit' = [je_permit EXCEPT ![JeDuties] = "free"]
    /\ sample' = [sample EXCEPT !.st = IF ok THEN "read" ELSE "none"]
    /\ UNCHANGED <<peers, loop, tx, due, lastwake, ear>>

\* Mutation: a sample of the kinds there were is published.
PublishAnySample ==
    /\ sample.st = "read"
    /\ sample' = [st |-> "none", kinds |-> {}, published |-> sample.kinds]
    /\ UNCHANGED <<peers, loop, je_permit, tx, due, lastwake, ear>>

\* publish_for_kinds
PublishSample ==
    /\ sample.st = "read"
    /\ sample' = [st |-> "none", kinds |-> {},
                  published |-> IF sample.kinds = RegisteredKinds THEN sample.kinds
                                ELSE sample.published]
    /\ UNCHANGED <<peers, loop, je_permit, tx, due, lastwake, ear>>

\* delete_batch and read_population
RetentionBegins ==
    /\ loop[JeDuties].at # "off" /\ je_permit[JeDuties] = "free"
    /\ je_permit' = [je_permit EXCEPT ![JeDuties] = "retention"]
    /\ UNCHANGED <<peers, loop, tx, due, lastwake, ear, sample>>

RetentionEnds ==
    /\ je_permit[JeDuties] = "retention"
    /\ je_permit' = [je_permit EXCEPT ![JeDuties] = "free"]
    /\ UNCHANGED <<peers, loop, tx, due, lastwake, ear, sample>>

-----------------------------------------------------------------------------
(* Time *)

Counted(n) == IF n > 0 THEN n - 1 ELSE 0

\* A loop whose wait is over moves before time does.
LoopRests(e) ==
    CASE loop[e].at = "idle"  -> ~loop[e].wake /\ loop[e].tick > 0
      [] loop[e].at = "cool"  -> loop[e].cool > 0
      [] loop[e].at = "ready" -> ~MayClaim(e)
      [] OTHER -> TRUE

\* A due job waits while its kind has a place and its engine a free slot and its permit.
Waits(k) == \E e \in peers : loop[e].at # "off" /\ k \in Claimable(e) /\ MayClaim(e)

JeTick ==
    /\ \A e \in JePeers : LoopRests(e)
    /\ loop' = [e \in JePeers |-> [loop[e] EXCEPT !.tick = Counted(@), !.cool = Counted(@)]]
    /\ lastwake' = [k \in JobKinds |-> IF lastwake[k] < WakeInterval THEN lastwake[k] + 1
                                       ELSE lastwake[k]]
    /\ due' = [k \in JobKinds |-> IF Waits(k) THEN [due[k] EXCEPT !.age = @ + 1] ELSE due[k]]
    /\ ear' = [ear EXCEPT !.next = Counted(@)]
    /\ UNCHANGED <<peers, je_permit, tx, sample>>

JeNext ==
    \/ \E e \in JePeers : \/ AwaitTick(e) \/ Cooled(e)
                          \/ \E k \in KindsOf[e] : AttemptDone(e, k)
                          \/ \E f \in {{}, {"name"}} : BuildEngine(e, f)
                          \/ \E f \in {{}, {"read_only"}} : StartLoop(e, f)
                          \/ \E kinds \in SUBSET KindsOf[e] : ClaimRound(e, kinds)
    \/ \E k \in Enqueued : \/ CommitJob(k) \/ RollbackJob(k) \/ Notified(k)
                           \/ \E f \in {{}, {"size"}} : EnqueueJob(k, f)
    \/ \E ok \in BOOLEAN : Subscribe(ok) \/ SampleRead(ok)
    \/ LoseListener \/ SampleBegins \/ PublishSample \/ RetentionBegins \/ RetentionEnds
    \/ JeTick

-----------------------------------------------------------------------------
(* Properties *)

\* While its kind has a place and its engine can claim, no due job waits longer
\* than one poll interval and one cooldown for a claim to be sent, whichever
\* notification was throttled away, rolled back or lost with the listener; one
\* that waited for a place waits only the cooldown once a place is free.
DueJobsPolled ==
    /\ JeTypeOK
    /\ \A k \in JobKinds : due[k].age <= Poll + ClaimCooldown

\* A published sample, fresh by its timestamp, covers every kind the process
\* registers: one read before an engine was added never survives its addition.
FreshSampleCovers == sample.published # {} => sample.published = RegisteredKinds

\* What the engines of one process owe its jobs: due ones are claimed for in time, and a sample
\* of the backlog that looks fresh covers them all (infra-jobs/src/engine.rs).
EngineServes == DueJobsPolled /\ FreshSampleCovers
=============================================================================
