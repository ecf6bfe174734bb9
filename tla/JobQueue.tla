------------------------------ MODULE JobQueue ------------------------------
(***************************************************************************)
(* The background job queue: the background_jobs table of one job kind,    *)
(* the worker engines that claim from it, and the attempt supervisors that *)
(* run a handler under a lease and record its outcome                      *)
(* (src/crates/infra-jobs/src/{enqueue,claim,attempt,kind,operator,        *)
(* maintenance}.rs).                                                       *)
(*                                                                         *)
(* Time is relative.  A row, a slot and an outstanding claim each carry    *)
(* the ticks left until (or passed since) their own instant, and Tick      *)
(* moves all of them together, so no clock has to be capped.  Every        *)
(* statement is sent, executed by the database and acknowledged in         *)
(* separate steps, and can be lost before or after it executes.            *)
(***************************************************************************)
EXTENDS Integers, FiniteSets

CONSTANTS
    Jobs,         \* the ids enqueue may draw; a UUIDv7 is never drawn twice
    NoJob,        \* the job of an idle slot
    Keys,         \* unique keys
    NoKey,        \* a job enqueued without a key
    Workers,      \* worker processes (engines)
    Slots,        \* attempt slots of all workers (max_workers permits)
    Owner,        \* the worker a slot belongs to
    MaxAttempts,  \* policy.max_attempts as each worker registers the kind
    Timeout,      \* policy.timeout, ticks
    Reserve,      \* LEASE_RESERVE, ticks
    Margin,       \* CANCEL_MARGIN, ticks
    MaxLag,       \* how late the runtime may poll an elapsed timer, ticks
    Backstop,     \* OPERATION_BACKSTOP, ticks
    Retention,    \* RETAIN_COMPLETED_FOR, ticks
    MaxDelay,     \* bound: longest backoff, snooze or enqueue delay, ticks
    MaxSends,     \* bound: outcome statements one supervisor sends
    MaxWire,      \* bound: outcome statements in flight together
    MaxSnoozes,   \* bound: snoozes of all handlers together
    MaxStops,     \* bound: crashes and forced drains together
    MaxRedrives   \* bound: operator redrives

Lease == Timeout + Reserve

ASSUME SetsAssumption == /\ NoJob \notin Jobs
                         /\ NoKey \notin Keys
                         /\ Owner \in [Slots -> Workers]
                         /\ IsFiniteSet(Jobs)
                         /\ IsFiniteSet(Slots)

ASSUME PolicyAssumption == MaxAttempts \in [Workers -> Nat \ {0}]

\* The constants of engine.rs and of a registered policy, and how they compare:
\* 12 s of backstop fit in the reserve of 60 s less the margin of 2 s.
ASSUME TimeAssumption == /\ Timeout \in Nat \ {0}
                         /\ Reserve \in Nat
                         /\ Margin \in Nat
                         /\ MaxLag \in Nat
                         /\ Backstop \in Nat
                         /\ Retention \in Nat
                         /\ MaxDelay \in Nat
                         /\ MaxLag < Margin
                         /\ Backstop + Margin <= Reserve

ASSUME BoundAssumption == /\ MaxSends \in Nat
                          /\ MaxWire \in Nat
                          /\ MaxSnoozes \in Nat
                          /\ MaxStops \in Nat
                          /\ MaxRedrives \in Nat

VARIABLES
    row,      \* the background_jobs table
    seq,      \* the last value of background_jobs_claim_generation
    eng,      \* each engine and its outstanding claim
    slot,     \* each attempt slot and the supervisor that holds it
    wire,     \* outcome statements sent and not yet executed
    effects,  \* business transactions committed through complete_in_tx
    target,   \* the failed cycle the operator inspected
    spent     \* how much of each bound is used

vars == <<row, seq, eng, slot, wire, effects, target, spent>>

-----------------------------------------------------------------------------
(* Types *)

States      == {"absent", "pending", "running", "completed", "failed", "deleted"}
Transitions == {"complete", "retry", "snooze", "release", "exhausted", "permanent"}

\* timer: ticks left to not_before (pending), claim_expires_at (running) or
\* the end of retention (completed).  gen is claim_generation, 0 when never
\* claimed.  errs is the length of errors.
Row   == [st: States, key: Keys \cup {NoKey}, tries: Nat, gen: Nat, timer: Nat, errs: Nat]
Claim == [job: Jobs, gen: Nat, att: Nat]

\* req: the slots the claim asked for.  age: ticks since it was sent.
Engine == [st: {"up", "forced", "down"}, ph: {"idle", "sent", "executed"},
           req: Nat, age: Nat, drawn: SUBSET Claim]

\* local: ticks left to the local deadline.  left: ticks left to the attempt
\* deadline.  sends: outcome statements sent.  tx: complete_in_tx was called.
Slot == [ph: {"free", "run", "record"}, job: Jobs \cup {NoJob}, gen: Nat, att: Nat,
         local: Int, left: Nat, out: Transitions, sends: Nat, tx: BOOLEAN]

\* copy tells a retried statement from the one sent before it.
Statement == [job: Jobs, gen: Nat, tr: Transitions \cup {"tx"}, copy: Nat]

NoRow   == [st |-> "absent", key |-> NoKey, tries |-> 0, gen |-> 0, timer |-> 0, errs |-> 0]
Idle    == [st |-> "up", ph |-> "idle", req |-> 0, age |-> 0, drawn |-> {}]
Free    == [ph |-> "free", job |-> NoJob, gen |-> 0, att |-> 0, local |-> 0, left |-> 0,
            out |-> "complete", sends |-> 0, tx |-> FALSE]

TypeOK ==
    /\ row \in [Jobs -> Row]
    /\ seq \in Nat
    /\ eng \in [Workers -> Engine]
    /\ slot \in [Slots -> Slot]
    /\ wire \subseteq Statement
    /\ effects \in [Jobs -> Nat]
    /\ target \in [job: Jobs \cup {NoJob}, gen: Nat]
    /\ spent \in [snoozes: Nat, stops: Nat, redrives: Nat]

Init ==
    /\ row = [j \in Jobs |-> NoRow]
    /\ seq = 0
    /\ eng = [w \in Workers |-> Idle]
    /\ slot = [s \in Slots |-> Free]
    /\ wire = {}
    /\ effects = [j \in Jobs |-> 0]
    /\ target = [job |-> NoJob, gen |-> 0]
    /\ spent = [snoozes |-> 0, stops |-> 0, redrives |-> 0]

-----------------------------------------------------------------------------
(* Producers *)

Live(r) == r.st \in {"pending", "running"}

\* The partial unique index background_jobs_live_unique_key.
KeyTaken(key) == key # NoKey /\ \E i \in Jobs : Live(row[i]) /\ row[i].key = key

\* ON CONFLICT ... DO NOTHING: with a live holder of the key nothing changes.
Enqueue(j, key, delay) ==
    /\ row[j].st = "absent"
    /\ ~KeyTaken(key)
    /\ row' = [row EXCEPT ![j] = [NoRow EXCEPT !.st = "pending", !.key = key, !.timer = delay]]
    /\ UNCHANGED <<seq, eng, slot, wire, effects, target, spent>>

-----------------------------------------------------------------------------
(* The claim loop *)

SlotsOf(w)   == {s \in Slots : Owner[s] = w}
FreeSlots(w) == {s \in SlotsOf(w) : slot[s].ph = "free"}
\* Mutation: expired leases are not scanned.
DuePendingOnly(j) == row[j].st = "pending" /\ row[j].timer = 0
Due(j)       == Live(row[j]) /\ row[j].timer = 0

\* Mutation: the claim asks for every slot, busy ones included.
SendClaimForAll(w) ==
    /\ eng[w].st = "up"
    /\ eng[w].ph = "idle"
    /\ FreeSlots(w) # {}
    /\ eng' = [eng EXCEPT ![w] = [@ EXCEPT !.ph = "sent", !.req = Cardinality(SlotsOf(w))]]
    /\ UNCHANGED <<row, seq, slot, wire, effects, target, spent>>

\* take_slots and send_claim: all free slots, at least one.
SendClaim(w) ==
    /\ eng[w].st = "up"
    /\ eng[w].ph = "idle"
    /\ FreeSlots(w) # {}
    /\ eng' = [eng EXCEPT ![w] = [@ EXCEPT !.ph = "sent", !.req = Cardinality(FreeSlots(w))]]
    /\ UNCHANGED <<row, seq, slot, wire, effects, target, spent>>

\* Mutation: the lease lacks its reserve.
ClaimedRowNoReserve(r, g, w) ==
    [r EXCEPT !.st = "running", !.timer = Timeout, !.tries = @ + 1, !.gen = g]

\* The row CLAIM writes: an exhausted job fails, any other runs; an expired
\* running job also records that its lease was rescued.
ClaimedRow(r, g, w) ==
    LET rescued   == r.st = "running"
        exhausted == r.tries >= MaxAttempts[w]
    IN  [r EXCEPT !.st    = IF exhausted THEN "failed" ELSE "running",
                  !.timer = IF exhausted THEN 0 ELSE Lease,
                  !.tries = IF exhausted THEN r.tries ELSE r.tries + 1,
                  !.errs  = IF rescued THEN r.errs + 1 ELSE r.errs,
                  !.gen   = g]

\* Any due rows up to the requested number: SKIP LOCKED passes over a row
\* another session holds, and nextval numbers the rows in any order.
Numberings(D) == {g \in [D -> (seq + 1)..(seq + Cardinality(D))] :
                      \A i, j \in D : g[i] = g[j] => i = j}

\* The rows that run; an exhausted one is only reported.
Drawn(D, g, w) == {[job |-> j, gen |-> g[j], att |-> row[j].tries + 1] :
                      j \in {i \in D : row[i].tries < MaxAttempts[w]}}

ExecClaim(w, D) ==
    /\ eng[w].ph = "sent"
    /\ \A j \in D : Due(j)
    /\ Cardinality(D) <= eng[w].req
    /\ \E g \in Numberings(D) :
          /\ row' = [j \in Jobs |-> IF j \in D THEN ClaimedRow(row[j], g[j], w) ELSE row[j]]
          /\ eng' = [eng EXCEPT ![w] = [@ EXCEPT !.ph = "executed", !.drawn = Drawn(D, g, w)]]
    /\ seq' = seq + Cardinality(D)
    /\ UNCHANGED <<slot, wire, effects, target, spent>>

\* Mutation: the deadline counts from the acknowledgement.
LocalDeadlineFromAck(age) == Lease - Margin

\* local_deadline counts from the moment the claim was sent.
LocalDeadline(age) == Lease - Margin - age

Started(c, age) ==
    [ph |-> "run", job |-> c.job, gen |-> c.gen, att |-> c.att,
     local |-> LocalDeadline(age),
     left |-> IF LocalDeadline(age) < Timeout THEN LocalDeadline(age) ELSE Timeout,
     out |-> "complete", sends |-> 0, tx |-> FALSE]

\* finish_round and dispatch_known: every claimed row gets a slot and a
\* supervisor of its own, also when the engine was stopped meanwhile.
Placements(w) == {f \in [eng[w].drawn -> FreeSlots(w)] :
                      \A c, d \in eng[w].drawn : f[c] = f[d] => c = d}

AckClaim(w) ==
    /\ eng[w].ph = "executed"
    /\ \E f \in Placements(w) :
          slot' = [s \in Slots |->
                      IF \E c \in eng[w].drawn : f[c] = s
                      THEN Started(CHOOSE c \in eng[w].drawn : f[c] = s, eng[w].age)
                      ELSE slot[s]]
    /\ eng' = [eng EXCEPT ![w] = [Idle EXCEPT !.st = eng[w].st]]
    /\ UNCHANGED <<row, seq, wire, effects, target, spent>>

\* ClaimRound::Failed: refused, timed out, or executed with its answer lost.
\* The claimed rows stay running until their lease expires.
LoseClaim(w) ==
    /\ eng[w].ph # "idle"
    /\ eng' = [eng EXCEPT ![w] = [Idle EXCEPT !.st = eng[w].st]]
    /\ UNCHANGED <<row, seq, slot, wire, effects, target, spent>>

-----------------------------------------------------------------------------
(* Attempt supervisors *)

\* map_outcome and retry.
OutcomeOf(ended, att, w) ==
    CASE ended = "success"   -> "complete"
      [] ended = "cancelled" -> "release"
      [] ended = "snooze"    -> "snooze"
      [] ended = "permanent" -> "permanent"
      [] OTHER               -> IF att >= MaxAttempts[w] THEN "exhausted" ELSE "retry"

Expired(s) == slot[s].local <= 0

Ends(s, ended) ==
    slot' = [slot EXCEPT ![s] = [@ EXCEPT !.ph  = "record",
                                          !.out = OutcomeOf(ended, slot[s].att, Owner[s])]]

\* drive: the handler's own result wins whenever it is ready.  "error" also
\* stands for a panic and for a payload that does not decode.
HandlerEnds(s, ended) ==
    /\ slot[s].ph = "run"
    /\ ended \in {"success", "error", "permanent", "snooze"}
    /\ ended = "snooze" => spent.snoozes < MaxSnoozes
    /\ Ends(s, ended)
    /\ spent' = IF ended = "snooze" THEN [spent EXCEPT !.snoozes = @ + 1] ELSE spent
    /\ UNCHANGED <<row, seq, eng, wire, effects, target>>

\* drive after cancellation, by force or at the attempt deadline: a success
\* within the grace still wins, anything else takes the cancellation's reason.
\* The handler is destroyed, and the result counts only before the deadline.
CancelHandler(s, ended) ==
    /\ slot[s].ph = "run"
    /\ ~Expired(s)
    /\ \/ eng[Owner[s]].st = "forced" /\ ended \in {"cancelled", "success"}
       \/ slot[s].left = 0 /\ ended \in {"timeout", "success"}
    /\ Ends(s, ended)
    /\ UNCHANGED <<row, seq, eng, wire, effects, target, spent>>

\* complete_in_tx: the handler commits its own transaction with a fenced
\* completion inside it.
CompleteInTx(s) ==
    /\ slot[s].ph = "run"
    /\ ~slot[s].tx
    /\ Cardinality(wire) < MaxWire
    /\ wire' = wire \cup {[job |-> slot[s].job, gen |-> slot[s].gen, tr |-> "tx", copy |-> 0]}
    /\ slot' = [slot EXCEPT ![s].tx = TRUE]
    /\ UNCHANGED <<row, seq, eng, effects, target, spent>>

\* persist: send the outcome, and again after every statement that failed or
\* timed out; the earlier statement may still execute.
SendOutcome(s) ==
    /\ slot[s].ph = "record"
    /\ ~Expired(s)
    /\ slot[s].sends < MaxSends
    /\ Cardinality(wire) < MaxWire
    /\ slot' = [slot EXCEPT ![s].sends = @ + 1]
    /\ wire' = wire \cup {[job |-> slot[s].job, gen |-> slot[s].gen,
                           tr |-> slot[s].out, copy |-> slot[s].sends + 1]}
    /\ UNCHANGED <<row, seq, eng, effects, target, spent>>

\* uncertain: the local deadline or the cleanup budget passed.  The handler
\* is dropped and the row is left to lease expiry.
Abandon(s) ==
    /\ slot[s].ph # "free"
    /\ Expired(s) \/ eng[Owner[s]].st = "forced"
    /\ slot' = [slot EXCEPT ![s] = Free]
    /\ UNCHANGED <<row, seq, eng, wire, effects, target, spent>>

-----------------------------------------------------------------------------
(* The database executes outcome statements *)

\* Mutation: the id alone.
FencedById(m) == row[m.job].st # "deleted"

\* WHERE id = .. AND claim_generation = .. AND claim_expires_at IS NOT NULL.
Fenced(m) == row[m.job].gen = m.gen /\ row[m.job].st = "running"

Applied(r, tr, delay) ==
    CASE tr \in {"complete", "tx"} -> [r EXCEPT !.st = "completed", !.timer = Retention]
      [] tr = "retry"   -> [r EXCEPT !.st = "pending", !.timer = delay, !.errs = @ + 1]
      [] tr = "snooze"  -> [r EXCEPT !.st = "pending", !.timer = delay, !.tries = @ - 1]
      [] tr = "release" -> [r EXCEPT !.st = "pending", !.timer = 0, !.tries = @ - 1]
      [] OTHER          -> [r EXCEPT !.st = "failed", !.timer = 0, !.errs = @ + 1]

Awaits(s, m) == /\ slot[s].ph = "record"
                /\ slot[s].gen = m.gen
                /\ slot[s].sends = m.copy
                /\ m.tr # "tx"

\* The answer, one row or none, ends the supervisor that waits for it; the
\* answer may also be lost.
ExecOutcome(m, delay, acked) ==
    /\ m \in wire
    /\ wire' = wire \ {m}
    /\ row' = IF Fenced(m) THEN [row EXCEPT ![m.job] = Applied(@, m.tr, delay)] ELSE row
    /\ effects' = IF Fenced(m) /\ m.tr = "tx" THEN [effects EXCEPT ![m.job] = @ + 1] ELSE effects
    /\ slot' = [s \in Slots |-> IF acked /\ Awaits(s, m) THEN Free ELSE slot[s]]
    /\ UNCHANGED <<seq, eng, target, spent>>

\* A statement lost before it executes, or a transaction rolled back.
DropOutcome(m) ==
    /\ m \in wire
    /\ wire' = wire \ {m}
    /\ UNCHANGED <<row, seq, eng, slot, effects, target, spent>>

-----------------------------------------------------------------------------
(* Retention and the operator *)

DeleteExpired(D) ==
    /\ D # {}
    /\ \A j \in D : row[j].st = "completed" /\ row[j].timer = 0
    /\ row' = [j \in Jobs |-> IF j \in D THEN [row[j] EXCEPT !.st = "deleted"] ELSE row[j]]
    /\ UNCHANGED <<seq, eng, slot, wire, effects, target, spent>>

\* inspect shows a failed job and its claim_generation as the version.
Inspect(j) ==
    /\ row[j].st = "failed"
    /\ target' = [job |-> j, gen |-> row[j].gen]
    /\ UNCHANGED <<row, seq, eng, slot, wire, effects, spent>>

\* lock_failed refuses a target whose row moved on since it was inspected.
LockFailed == /\ target.job # NoJob
              /\ row[target.job].st = "failed"
              /\ row[target.job].gen = target.gen

\* Mutation: the redriven row keeps the generation of its failed cycle.
RedriveKeepsGeneration ==
    /\ LockFailed
    /\ spent.redrives < MaxRedrives
    /\ ~KeyTaken(row[target.job].key)
    /\ row' = [row EXCEPT ![target.job] = [NoRow EXCEPT !.st  = "pending",
                                                       !.key = row[target.job].key,
                                                       !.gen = row[target.job].gen]]
    /\ spent' = [spent EXCEPT !.redrives = @ + 1]
    /\ UNCHANGED <<seq, eng, slot, wire, effects, target>>

Redrive ==
    /\ LockFailed
    /\ spent.redrives < MaxRedrives
    /\ ~KeyTaken(row[target.job].key)
    /\ row' = [row EXCEPT ![target.job] = [NoRow EXCEPT !.st  = "pending",
                                                       !.key = row[target.job].key,
                                                       !.gen = seq + 1]]
    /\ seq' = seq + 1
    /\ spent' = [spent EXCEPT !.redrives = @ + 1]
    /\ UNCHANGED <<eng, slot, wire, effects, target>>

Discard ==
    /\ LockFailed
    /\ row' = [row EXCEPT ![target.job].st = "deleted"]
    /\ UNCHANGED <<seq, eng, slot, wire, effects, target, spent>>

-----------------------------------------------------------------------------
(* Engine shutdown, crashes and time *)

\* cancel_and_finish: stop claiming, cancel every handler.
CancelAndFinish(w) ==
    /\ eng[w].st = "up"
    /\ spent.stops < MaxStops
    /\ eng' = [eng EXCEPT ![w].st = "forced"]
    /\ spent' = [spent EXCEPT !.stops = @ + 1]
    /\ UNCHANGED <<row, seq, slot, wire, effects, target>>

Down(w) ==
    /\ eng' = [eng EXCEPT ![w] = [Idle EXCEPT !.st = "down"]]
    /\ slot' = [s \in Slots |-> IF Owner[s] = w THEN Free ELSE slot[s]]

\* The process exits when a forced cleanup is over, drained or timed out.
Exit(w) ==
    /\ eng[w].st = "forced"
    /\ Down(w)
    /\ UNCHANGED <<row, seq, wire, effects, target, spent>>

Crash(w) ==
    /\ eng[w].st = "up"
    /\ spent.stops < MaxStops
    /\ Down(w)
    /\ spent' = [spent EXCEPT !.stops = @ + 1]
    /\ UNCHANGED <<row, seq, wire, effects, target>>

Restart(w) ==
    /\ eng[w].st = "down"
    /\ eng' = [eng EXCEPT ![w] = Idle]
    /\ UNCHANGED <<row, seq, slot, wire, effects, target, spent>>

Less1(n) == IF n > 0 THEN n - 1 ELSE 0

\* A supervisor notices its local deadline within MaxLag ticks, and a claim
\* is over after Backstop ticks.
Tick ==
    /\ \A s \in Slots : slot[s].ph # "free" => slot[s].local > -MaxLag
    /\ \A w \in Workers : eng[w].ph # "idle" => eng[w].age < Backstop
    /\ row' = [j \in Jobs |-> [row[j] EXCEPT !.timer = Less1(@)]]
    /\ slot' = [s \in Slots |-> IF slot[s].ph = "free" THEN slot[s]
                                ELSE [slot[s] EXCEPT !.local = @ - 1, !.left = Less1(@)]]
    /\ eng' = [w \in Workers |-> IF eng[w].ph = "idle" THEN eng[w]
                                 ELSE [eng[w] EXCEPT !.age = @ + 1]]
    /\ UNCHANGED <<seq, wire, effects, target, spent>>

-----------------------------------------------------------------------------
Producer == \E j \in Jobs, key \in Keys \cup {NoKey}, delay \in 0..MaxDelay : Enqueue(j, key, delay)

ClaimLoop(w) == \/ SendClaim(w)
                \/ \E D \in SUBSET Jobs : ExecClaim(w, D)
                \/ AckClaim(w)
                \/ LoseClaim(w)

Supervisor(s) == \/ \E ended \in {"success", "error", "permanent", "snooze"} : HandlerEnds(s, ended)
                 \/ \E ended \in {"cancelled", "timeout", "success"} : CancelHandler(s, ended)
                 \/ CompleteInTx(s)
                 \/ SendOutcome(s)
                 \/ Abandon(s)

Database == \E m \in wire : \/ \E delay \in 0..MaxDelay, acked \in BOOLEAN :
                                   ExecOutcome(m, delay, acked)
                            \/ DropOutcome(m)

Maintenance == \E D \in SUBSET Jobs : DeleteExpired(D)

Operator == (\E j \in Jobs : Inspect(j)) \/ Redrive \/ Discard

Process(w) == CancelAndFinish(w) \/ Exit(w) \/ Crash(w) \/ Restart(w)

Next == \/ Producer
        \/ \E w \in Workers : ClaimLoop(w) \/ Process(w)
        \/ \E s \in Slots : Supervisor(s)
        \/ Database
        \/ Maintenance
        \/ Operator
        \/ Tick

Spec == Init /\ [][Next]_vars

-----------------------------------------------------------------------------
(* Safety *)

\* Lease custody: while a supervisor polls a handler, nobody has claimed its
\* job again, so two handlers of one job never run together.  It needs the
\* local deadline to lead claim_expires_at however late the claim executed
\* and was acknowledged (claim.rs local_deadline, attempt.rs drive/persist).
LeaseCoversHandler ==
    \A s \in Slots : slot[s].ph = "run" => row[slot[s].job].gen = slot[s].gen

\* Attempt accounting: every spent attempt left exactly one error entry, but
\* for the one that is running or succeeded.  A refund applied twice, a
\* rescue without its entry, or a late outcome of an earlier claim breaks it
\* (attempt.rs execute, claim.rs claim, operator.rs redrive).
AttemptAccounting ==
    \A j \in Jobs :
        /\ row[j].st \in {"running", "completed"} => row[j].tries = row[j].errs + 1
        /\ row[j].st \in {"absent", "pending", "failed"} => row[j].tries = row[j].errs

\* The business transaction of complete_in_tx commits at most once per job,
\* however often the job is claimed, and only with the job's completion
\* (kind.rs complete_in_tx).
EffectOnce ==
    \A j \in Jobs : /\ effects[j] <= 1
                    /\ effects[j] = 1 => row[j].st \in {"completed", "deleted"}

\* A claim never draws more rows than the slots it holds, so each of them
\* gets a supervisor (claim.rs dispatch_known, job_claim_exceeded_slots).
ClaimFitsSlots ==
    \A w \in Workers : Cardinality(eng[w].drawn) <= Cardinality(FreeSlots(w))

FinalStep ==
    \A j \in Jobs :
        /\ row[j].st = "completed" => row'[j].st \in {"completed", "deleted"}
        /\ row[j].st = "failed" => \/ row'[j].st \in {"failed", "deleted"}
                                   \/ row'[j].st = "pending" /\ row'[j].gen > seq
        /\ row[j].st = "deleted" => row'[j].st = "deleted"

\* A job outcome is final: only retention removes a completed job, and only
\* the operator moves a failed one, under a generation never used before, so
\* no late statement or claim of an earlier cycle can match it (attempt.rs
\* execute, operator.rs redrive and discard, maintenance.rs delete_batch).
TerminalIsFinal == [][FinalStep]_vars

-----------------------------------------------------------------------------
(* The inductive invariant behind the safety properties *)

Busy(s) == slot[s].ph # "free"

\* A claim in flight is younger than its backstop; only an executed one has
\* drawn rows, and a busy slot has a job.
Bookkeeping ==
    /\ \A w \in Workers : /\ eng[w].age <= Backstop
                          /\ eng[w].ph # "executed" => eng[w].drawn = {}
                          /\ eng[w].ph = "idle" => eng[w].age = 0
    /\ \A s \in Slots : Busy(s) => slot[s].job \in Jobs /\ slot[s].local >= -MaxLag

\* nextval never repeats: every generation anyone holds was drawn before.
GensDrawn ==
    /\ \A j \in Jobs : row[j].gen <= seq
    /\ \A s \in Slots : Busy(s) => slot[s].gen <= seq
    /\ \A w \in Workers : \A c \in eng[w].drawn : c.gen <= seq
    /\ \A m \in wire : m.gen <= seq

\* A generation has one holder: an undelivered claim or a slot, and only the
\* holder's own statements carry it.
GensUnique ==
    /\ \A s, t \in Slots : Busy(s) /\ Busy(t) /\ slot[s].gen = slot[t].gen => s = t
    /\ \A s \in Slots, w \in Workers : \A c \in eng[w].drawn : Busy(s) => c.gen # slot[s].gen
    /\ \A w, v \in Workers : \A c \in eng[w].drawn, d \in eng[v].drawn :
           c.gen = d.gen => w = v /\ c = d
    /\ \A m \in wire, w \in Workers : \A c \in eng[w].drawn : m.gen # c.gen
    /\ \A m \in wire, s \in Slots :
           slot[s].ph = "run" /\ m.gen = slot[s].gen => m.tr = "tx"

\* The database lease outlasts the local deadline of whoever holds the claim,
\* and a handler being polled belongs to the row's current claim.
LeaseLeads ==
    /\ \A w \in Workers : \A c \in eng[w].drawn :
           /\ row[c.job].gen = c.gen
           /\ row[c.job].st = "running"
           /\ row[c.job].timer >= Lease - eng[w].age
    /\ \A s \in Slots :
           (Busy(s) /\ row[slot[s].job].gen = slot[s].gen /\ row[slot[s].job].st = "running")
               => row[slot[s].job].timer >= slot[s].local + Margin
    /\ \A s \in Slots : slot[s].ph = "run" =>
           /\ row[slot[s].job].gen = slot[s].gen
           /\ row[slot[s].job].st \in {"running", "completed", "deleted"}

\* Fenced custody, the inductive invariant: whoever polls a handler or waits
\* for a claim's answer holds the row's current generation under a lease that
\* outlasts its own deadline, and the attempts of every row are accounted for.
FencedCustody ==
    TypeOK /\ AttemptAccounting /\ Bookkeeping /\ GensDrawn /\ GensUnique /\ LeaseLeads

-----------------------------------------------------------------------------
(* Liveness *)

\* The engine's own steps and time go on; producers, operators, failures and
\* retention need not happen.  A handler ends because it is cancelled at its
\* attempt deadline at the latest.  The platform restarts a stopped worker.
\* A claim sent again every poll reaches the database eventually, and finds
\* some due row unlocked: strong fairness, as each one alone may be lost.
Fairness ==
    /\ WF_vars(Tick)
    /\ WF_vars(Database)
    /\ \A w \in Workers : /\ WF_vars(SendClaim(w))
                          /\ SF_vars(\E D \in (SUBSET Jobs) \ {{}} : ExecClaim(w, D))
                          /\ WF_vars(AckClaim(w))
                          /\ WF_vars(Exit(w))
                          /\ WF_vars(Restart(w))
                          /\ WF_vars(eng[w].age = Backstop /\ LoseClaim(w))
    /\ \A s \in Slots : /\ WF_vars(CancelHandler(s, "timeout"))
                        /\ WF_vars(SendOutcome(s))
                        /\ WF_vars(Abandon(s))

FairSpec == Spec /\ Fairness

\* Every job that is enqueued ends: completed, or failed with its budget
\* spent.  A crashed worker, a lost claim and a lost outcome only delay it.
EveryJobEnds ==
    \A j \in Jobs : Live(row[j]) ~> ~Live(row[j])

\* A handler that believes it holds its job does hold it, and what it commits with
\* its completion is committed once (attempt.rs execute, complete_in_tx).
EffectsHeld == LeaseCoversHandler /\ EffectOnce
=============================================================================
