------------------------------ MODULE Readiness ------------------------------
(***************************************************************************)
(* The readiness verdict of src/crates/health/src/lib.rs: one refresher    *)
(* publishes probe rounds, the process arms a progress obligation, drain   *)
(* and stop close it, an observer waits for its loss, and gRPC health      *)
(* Watch streams (src/crates/infra-grpc/src/health.rs) follow the verdict. *)
(*                                                                         *)
(* Every publication happens under the watch channel's write lock and is   *)
(* one step.  Ages are ticks and stop counting one past the stale bound.   *)
(***************************************************************************)
EXTENDS Naturals

CONSTANTS
    Watchers,       \* open Watch streams
    Interval,       \* RefreshPolicy::interval
    ProbeBudget,    \* RefreshPolicy::probe_budget
    Threshold,      \* RefreshPolicy::failure_threshold
    Lag             \* how late a refresher that keeps its schedule may be

Period == IF Interval > ProbeBudget THEN Interval ELSE ProbeBudget

\* Mutation: the stale bound is sized from the interval alone.
StaleAfterInterval == Interval + Interval

StaleAfter == ProbeBudget + 3 * Period

ASSUME ReadinessAssumption ==
    /\ {Interval, ProbeBudget, Threshold, Lag} \subseteq Nat
    /\ Interval > 0 /\ Threshold > 0

VARIABLES
    evaluated,  \* a check was published
    check,      \* the last published check
    draining,
    progress,   \* the progress obligation
    gauge,      \* the readiness_ready metric is 1
    ref,        \* the refresher
    obs,        \* the progress observer
    watch,      \* each Watch stream
    life,       \* how far the process's stop is
    gap,        \* an armed obligation outlived the stale bound
    sinceOk     \* ticks since a probe round succeeded

vars == <<evaluated, check, draining, progress, gauge, ref, obs, watch, life, gap, sinceOk>>

Ages == 0..(StaleAfter + 1)
Evidence == Threshold * StaleAfter + 1

Check == [age: Ages, ready: BOOLEAN, fails: 0..Threshold]

\* first: the admission round.  admit: its verdict is read.  kept: it keeps its
\* schedule; otherwise it may hang.
Refresher == [kept: BOOLEAN,
              st: {"first", "admit", "wait", "probing", "stopped"},
              timer: 0..Interval, left: 0..ProbeBudget, late: Nat]

Observer == [st: {"off", "look", "wait", "reported", "done"},
             unseen: BOOLEAN, timed: BOOLEAN, left: Ages]

Stream == [st: {"read", "park", "wait", "ended"},
           told: {"none", "serving", "not_serving"},
           unseen: BOOLEAN, edge: BOOLEAN, timed: BOOLEAN, left: Ages]

TypeOK ==
    /\ evaluated \in BOOLEAN /\ draining \in BOOLEAN /\ gauge \in BOOLEAN /\ gap \in BOOLEAN
    /\ check \in Check
    /\ progress \in {"unarmed", "armed", "expired", "stopped"}
    /\ ref \in Refresher
    /\ obs \in Observer
    /\ watch \in [Watchers -> Stream]
    /\ life \in {"run", "stopping", "draining", "cancelled"}
    /\ sinceOk \in 0..Evidence

Init ==
    /\ evaluated = FALSE /\ draining = FALSE /\ gauge = FALSE /\ gap = FALSE
    /\ check = [age |-> 0, ready |-> FALSE, fails |-> 0]
    /\ progress = "unarmed"
    /\ \E kept \in BOOLEAN : ref = [kept |-> kept, st |-> "first", timer |-> 0,
                                    left |-> ProbeBudget, late |-> 0]
    /\ obs = [st |-> "off", unseen |-> FALSE, timed |-> FALSE, left |-> 0]
    /\ watch = [w \in Watchers |-> [st |-> "read", told |-> "none", unseen |-> FALSE,
                                    edge |-> FALSE, timed |-> FALSE, left |-> 0]]
    /\ life = "run"
    /\ sinceOk = Evidence

-----------------------------------------------------------------------------
(* The state under the lock *)

Stale == check.age > StaleAfter

\* State::expire_progress would retain a loss now.
Expires == progress = "armed" /\ evaluated /\ Stale

Expired == Expires \/ progress = "expired"

\* ReadinessReader::verdict
Verdict == IF draining THEN "draining"
           ELSE IF progress = "expired" THEN "lost"
           ELSE IF ~evaluated THEN "not_evaluated"
           ELSE IF Stale THEN "stale"
           ELSE IF check.ready THEN "ready" ELSE "failed"

\* send_if_modified and send_modify: every receiver has something unseen.
Notify(happens) ==
    /\ obs' = IF happens THEN [obs EXCEPT !.unseen = TRUE] ELSE obs
    /\ watch' = IF happens THEN [w \in Watchers |-> [watch[w] EXCEPT !.unseen = TRUE]] ELSE watch

-----------------------------------------------------------------------------
(* The refresher *)

\* RefreshPolicy's cadence, MissedTickBehavior::Delay.
BeginProbe ==
    /\ ref.st = "wait" /\ ref.timer = 0
    /\ ref' = [ref EXCEPT !.st = "probing", !.timer = Interval, !.left = ProbeBudget, !.late = 0]
    /\ UNCHANGED <<evaluated, check, draining, progress, gauge, obs, watch, life, gap, sinceOk>>

\* Mutation: a failed round holds a ready verdict that already expired.
ApplyFailureThresholdAnyAge(ok) ==
    LET fails == IF ok THEN 0 ELSE IF check.fails < Threshold THEN check.fails + 1 ELSE Threshold
    IN [age |-> 0, fails |-> fails,
        ready |-> ok \/ (evaluated /\ check.ready /\ fails < Threshold)]

\* apply_failure_threshold: a fresh ready verdict survives failures below the
\* threshold.  The streak stops counting at the threshold.
ApplyFailureThreshold(ok) ==
    LET fails == IF ok THEN 0 ELSE IF check.fails < Threshold THEN check.fails + 1 ELSE Threshold
    IN [age |-> 0, fails |-> fails,
        ready |-> ok \/ (evaluated /\ check.ready /\ ~Stale /\ fails < Threshold)]

\* Mutation: the gauge is written from the round alone.
RefreshGaugeOfRound(ok) ==
    /\ ref.st \in {"first", "probing"}
    /\ evaluated' = TRUE
    /\ check' = ApplyFailureThreshold(ok)
    /\ progress' = IF Expires THEN "expired" ELSE progress
    /\ gauge' = check'.ready
    /\ ref' = [ref EXCEPT !.st = IF @ = "first" THEN "admit" ELSE "wait", !.late = 0]
    /\ sinceOk' = IF ok THEN 0 ELSE sinceOk
    /\ obs' = [obs EXCEPT !.unseen = TRUE]
    /\ watch' = [w \in Watchers |-> [watch[w] EXCEPT !.unseen = TRUE, !.edge = FALSE]]
    /\ UNCHANGED <<draining, life, gap>>

\* refresh: a round completes, by its probes or by the budget.
Refresh(ok) ==
    /\ ref.st \in {"first", "probing"}
    /\ evaluated' = TRUE
    /\ check' = ApplyFailureThreshold(ok)
    /\ progress' = IF Expires THEN "expired" ELSE progress
    /\ gauge' = (~draining /\ progress' # "expired" /\ check'.ready)
    /\ ref' = [ref EXCEPT !.st = IF @ = "first" THEN "admit" ELSE "wait", !.late = 0]
    /\ sinceOk' = IF ok THEN 0 ELSE sinceOk
    /\ obs' = [obs EXCEPT !.unseen = TRUE]
    /\ watch' = [w \in Watchers |-> [watch[w] EXCEPT !.unseen = TRUE, !.edge = FALSE]]
    /\ UNCHANGED <<draining, life, gap>>

\* arm_progress after a ready admission; then the refresher and the observer start.
ArmProgress ==
    /\ ref.st = "admit" /\ progress = "unarmed" /\ ~draining
    /\ check.ready
    /\ progress' = IF Stale THEN "expired" ELSE "armed"
    /\ gauge' = (gauge /\ ~Stale)
    /\ ref' = [ref EXCEPT !.st = IF Stale THEN "stopped" ELSE "wait", !.timer = Interval]
    /\ obs' = IF Stale THEN obs ELSE [obs EXCEPT !.st = "look", !.unseen = TRUE]
    /\ watch' = [w \in Watchers |-> [watch[w] EXCEPT !.unseen = TRUE]]
    /\ UNCHANGED <<evaluated, check, draining, life, gap, sinceOk>>

\* Admission refused: startup fails.
RefuseAdmission ==
    /\ ref.st = "admit" /\ (Verdict # "ready" \/ progress # "unarmed")
    /\ ref' = [ref EXCEPT !.st = "stopped"]
    /\ UNCHANGED <<evaluated, check, draining, progress, gauge, obs, watch, life, gap, sinceOk>>

-----------------------------------------------------------------------------
(* Stop, drain and cancellation, in the order the process takes them *)

\* Mutation: stopping forgets a gap nobody looked at.
StopProgressForgets ==
    /\ life = "run" /\ life' = "stopping"
    /\ progress' = IF progress = "expired" THEN "expired" ELSE "stopped"
    /\ gauge' = gauge
    /\ Notify(progress \in {"unarmed", "armed"})
    /\ UNCHANGED <<evaluated, check, draining, ref, gap, sinceOk>>

StopProgress ==
    /\ life = "run" /\ life' = "stopping"
    /\ progress' = IF Expired THEN "expired" ELSE "stopped"
    /\ gauge' = (gauge /\ ~Expires)
    /\ Notify(progress \in {"unarmed", "armed"})
    /\ UNCHANGED <<evaluated, check, draining, ref, gap, sinceOk>>

\* Mutation: only a new loss is published.
StartDrainSilent ==
    /\ life = "stopping" /\ life' = "draining"
    /\ progress' = IF Expired THEN "expired" ELSE "stopped"
    /\ draining' = TRUE
    /\ gauge' = FALSE
    /\ Notify(Expires)
    /\ UNCHANGED <<evaluated, check, ref, gap, sinceOk>>

StartDrain ==
    /\ life = "stopping" /\ life' = "draining"
    /\ progress' = IF Expired THEN "expired" ELSE "stopped"
    /\ draining' = TRUE
    /\ gauge' = FALSE
    /\ Notify(~draining \/ Expires)
    /\ UNCHANGED <<evaluated, check, ref, gap, sinceOk>>

\* The token drops an in-flight round and ends the observer's wait.
Cancel ==
    /\ life = "draining" /\ life' = "cancelled"
    /\ ref' = [ref EXCEPT !.st = "stopped"]
    /\ obs' = [obs EXCEPT !.st = IF @ = "reported" THEN @ ELSE "done"]
    /\ UNCHANGED <<evaluated, check, draining, progress, gauge, watch, gap, sinceOk>>

-----------------------------------------------------------------------------
(* wait_for_progress_loss *)

\* Mutation: the observer waits for publications only.
ObserverLooksUntimed ==
    /\ obs.st = "look"
    /\ progress' = IF Expired THEN "expired" ELSE progress
    /\ gauge' = (gauge /\ ~Expires)
    /\ obs' = IF Expired THEN [obs EXCEPT !.st = "reported"]
              ELSE [st |-> "wait", unseen |-> FALSE, timed |-> FALSE, left |-> 0]
    /\ watch' = IF Expires THEN [w \in Watchers |-> [watch[w] EXCEPT !.unseen = TRUE]] ELSE watch
    /\ UNCHANGED <<evaluated, check, draining, ref, life, gap, sinceOk>>

ObserverLooks ==
    /\ obs.st = "look"
    /\ progress' = IF Expired THEN "expired" ELSE progress
    /\ gauge' = (gauge /\ ~Expires)
    /\ obs' = IF Expired THEN [obs EXCEPT !.st = "reported"]
              ELSE [st |-> "wait", unseen |-> FALSE, timed |-> progress = "armed" /\ evaluated,
                    left |-> StaleAfter + 1 - check.age]
    /\ watch' = IF Expires THEN [w \in Watchers |-> [watch[w] EXCEPT !.unseen = TRUE]] ELSE watch
    /\ UNCHANGED <<evaluated, check, draining, ref, life, gap, sinceOk>>

ObserverWakes ==
    /\ obs.st = "wait"
    /\ obs.unseen \/ (obs.timed /\ obs.left = 0)
    /\ obs' = [obs EXCEPT !.st = "look"]
    /\ UNCHANGED <<evaluated, check, draining, progress, gauge, ref, watch, life, gap, sinceOk>>

-----------------------------------------------------------------------------
(* A Watch stream: read, tell a change, wait for an event *)

Status == IF Verdict = "ready" THEN "serving" ELSE "not_serving"

Reads(w) ==
    /\ watch[w].st = "read"
    /\ watch' = [watch EXCEPT ![w].told = Status,
                              ![w].st = IF Verdict = "draining" THEN "ended"
                                        ELSE IF watch[w].told # Status THEN "read"
                                        ELSE "park"]
    /\ UNCHANGED <<evaluated, check, draining, progress, gauge, ref, obs, life, gap, sinceOk>>

\* Mutation: no timer for the stale boundary.
ParksUntimed(w) ==
    /\ watch[w].st = "park"
    /\ watch' = IF watch[w].unseen
                THEN [watch EXCEPT ![w].st = "read", ![w].unseen = FALSE]
                ELSE [watch EXCEPT ![w].st = "wait", ![w].timed = FALSE, ![w].left = 0]
    /\ UNCHANGED <<evaluated, check, draining, progress, gauge, ref, obs, life, gap, sinceOk>>

\* wait_for_verdict_event: an unseen publication, else wait for one or for the
\* stale boundary of the current check, which each check crosses once.
Parks(w) ==
    /\ watch[w].st = "park"
    /\ watch' = IF watch[w].unseen
                THEN [watch EXCEPT ![w].st = "read", ![w].unseen = FALSE]
                ELSE [watch EXCEPT ![w].st = "wait",
                                   ![w].timed = evaluated /\ ~draining /\ ~watch[w].edge,
                                   ![w].left = StaleAfter + 1 - check.age]
    /\ UNCHANGED <<evaluated, check, draining, progress, gauge, ref, obs, life, gap, sinceOk>>

Wakes(w) ==
    /\ watch[w].st = "wait"
    /\ \/ watch[w].unseen /\ watch' = [watch EXCEPT ![w].st = "read", ![w].unseen = FALSE]
       \/ /\ ~watch[w].unseen /\ watch[w].timed /\ watch[w].left = 0
          /\ watch' = [watch EXCEPT ![w].st = "read", ![w].edge = TRUE]
    /\ UNCHANGED <<evaluated, check, draining, progress, gauge, ref, obs, life, gap, sinceOk>>

-----------------------------------------------------------------------------
Less1(n) == IF n > 0 THEN n - 1 ELSE 0
Plus1(n, cap) == IF n < cap THEN n + 1 ELSE cap

\* The refresher's next step is due: its tick, or the end of its round.
Due == (ref.st = "wait" /\ ref.timer = 0) \/ (ref.st \in {"first", "probing"} /\ ref.left = 0)

Tick ==
    /\ ref.kept /\ Due => ref.late < Lag
    /\ ref.kept => ref.st # "admit"
    /\ check' = [check EXCEPT !.age = IF evaluated THEN Plus1(@, StaleAfter + 1) ELSE 0]
    /\ ref' = [ref EXCEPT !.timer = Less1(@), !.left = Less1(@),
                          !.late = IF ref.kept /\ Due THEN @ + 1 ELSE @]
    /\ obs' = [obs EXCEPT !.left = Less1(@)]
    /\ watch' = [w \in Watchers |-> [watch[w] EXCEPT !.left = Less1(@)]]
    /\ gap' = (gap \/ (progress = "armed" /\ evaluated /\ check'.age > StaleAfter))
    /\ sinceOk' = Plus1(sinceOk, Evidence)
    /\ UNCHANGED <<evaluated, draining, progress, gauge, life>>

Observe == ObserverLooks \/ ObserverWakes
Follow(w) == Reads(w) \/ Parks(w) \/ Wakes(w)

Next == \/ BeginProbe
        \/ \E ok \in BOOLEAN : Refresh(ok)
        \/ ArmProgress
        \/ RefuseAdmission
        \/ StopProgress \/ StartDrain \/ Cancel
        \/ Observe
        \/ \E w \in Watchers : Follow(w)
        \/ Tick

Spec == Init /\ [][Next]_vars

\* Timers and woken tasks run.  Nothing makes a probe round end: a hung refresher
\* is the case the observer and the stale boundary are there for.
FairSpec == /\ Spec
            /\ WF_vars(Tick)
            /\ WF_vars(Observe)
            /\ \A w \in Watchers : WF_vars(Follow(w))

-----------------------------------------------------------------------------
(* Properties *)

\* A missed completion bound is never hidden: no late success, stop or drain
\* replaces the loss, observed or not (expire_progress before every change).
GapRetained == gap => progress = "expired" \/ (progress = "armed" /\ evaluated /\ Stale)

\* The readiness_ready metric never stays 1 beside a verdict that drain,
\* progress loss or a failed round withdrew, whichever wrote last (refresh,
\* start_drain, expire_progress).
GaugeHonest == gauge <=> evaluated /\ check.ready /\ ~draining /\ progress # "expired"

\* A ready answer rests on a successful round at most failure_threshold stale
\* bounds old, however failed rounds and delays mix (apply_failure_threshold).
EvidenceBound == Verdict = "ready" => sinceOk <= Threshold * StaleAfter

\* A refresher that is never late by more than a period keeps a verdict fresh
\* and its obligation met: stale_after leaves room for a missed tick.
NoFalseLoss ==
    /\ TypeOK
    /\ ref.kept /\ ref.st \in {"wait", "probing"} => ~Stale /\ ~gap /\ progress # "expired"

\* A gap is reported to the process, though no probe, reader or publication
\* ever happens again (wait_for_progress_loss).
LossReported == gap ~> obs.st = "reported" \/ life = "cancelled"

\* Every Watch stream learns that the service is not ready when that lasts, even
\* from a hung refresher (wait_for_verdict_event, watch).
WatchersTold == \A w \in Watchers :
    <>[](Verdict # "ready") => <>[](watch[w].told = "not_serving")

\* A Watch stream ends once the service drains: it never holds the listener.
WatchersEnd == \A w \in Watchers : draining ~> watch[w].st = "ended"

\* What readiness shows is honest: a missed bound is never hidden, the gauge agrees
\* with the verdict, and a ready answer rests on recent evidence (health lib.rs
\* refresh, expire_progress, apply_failure_threshold).
VerdictHonest == GapRetained /\ GaugeHonest /\ EvidenceBound

\* Everyone who has to know of the end learns of it: the process of a gap, every
\* Watch stream of a lasting loss, and no stream outlives the drain (health lib.rs
\* wait_for_progress_loss, wait_for_verdict_event).
EveryoneTold == LossReported /\ WatchersTold /\ WatchersEnd
=============================================================================
