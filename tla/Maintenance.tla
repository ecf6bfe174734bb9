----------------------------- MODULE Maintenance -----------------------------
(***************************************************************************)
(* Cleanup passes over expired rows and the population sampler: what the   *)
(* process counts and publishes about work that other passes share, that   *)
(* may be cancelled anywhere, and whose commit answer may be lost          *)
(* (src/crates/infra-postgres/src/observe.rs).  The rows and the           *)
(* statement that skips locked ones are external.                          *)
(***************************************************************************)
EXTENDS Integers, FiniteSets, Refusals

CONSTANTS
    Passes,        \* scheduled and direct cleanup passes of one process
    BatchRows,     \* rows of one batch
    MtRows,        \* the rows that may expire
    FirstExpired,  \* the expired ones at the start
    ClockSlack     \* tolerated disagreement of the clocks, ticks

ASSUME MaintenanceAssumption ==
    /\ IsFiniteSet(Passes) /\ IsFiniteSet(MtRows) /\ FirstExpired \subseteq MtRows
    /\ BatchRows \in Nat \ {0} /\ ClockSlack \in Nat

VARIABLES
    expired,   \* expired rows in the table, the locked ones included
    gone,      \* rows durably deleted (history)
    unheard,   \* rows whose deletion no pass was told of (history)
    cleaning,  \* each pass
    shown,     \* the metrics
    probe      \* the population sampler

mtVars == <<expired, gone, unheard, cleaning, shown, probe>>

PassOutcomes == {"completed", "budget_exhausted", "failed", "cancelled"}

PassStages == {"idle", "admit", "delete", "commit", "answer"}

MtTypeOK ==
    /\ {expired, gone, unheard} \subseteq SUBSET MtRows
    /\ cleaning \in [Passes -> [at: PassStages, rows: SUBSET MtRows]]
    /\ shown \in [rows: Nat, batches: {0, 1}, active: Nat, ends: SUBSET PassOutcomes]
    /\ probe \in [at: {"idle", "reading"}, good: BOOLEAN, last: {"none", "success", "failed", "cancelled"},
                  seen: Int, read: Int]

MtInit ==
    /\ expired = FirstExpired /\ gone = {} /\ unheard = {}
    /\ cleaning = [p \in Passes |-> [at |-> "idle", rows |-> {}]]
    /\ shown = [rows |-> 0, batches |-> 0, active |-> 0, ends |-> {}]
    /\ probe = [at |-> "idle", good |-> FALSE, last |-> "none", seen |-> -1, read |-> -1]

-----------------------------------------------------------------------------
(* The sampler's clocks *)

\* MaintenanceClock::agrees_with; a wall clock before the epoch reads as none.
ClocksAgree(now, before) ==
    /\ now.wall >= 0 /\ before.wall >= 0
    /\ LET drift == (now.wall - before.wall) - (now.mono - before.mono)
       IN  drift <= ClockSlack /\ drift >= -ClockSlack

\* succeeded_at: the read is published only when no clock stepped since the last
\* attempt and the database's date falls into the attempt; oldest 0 is none.
SampleValid(previous, requested, received, observed, oldest) ==
    /\ ClocksAgree(requested, previous) /\ ClocksAgree(received, requested)
    /\ observed > 0
    /\ observed >= requested.wall - ClockSlack /\ observed <= received.wall + ClockSlack
    /\ oldest # 0 => oldest > 0 /\ oldest <= observed

\* MaintenanceFailure, from the transaction's or the statement's error
FailureOf(error) ==
    IF error \in {"acquire_failed", "begin_failed", "commit_failed", "commit_unknown", "permit"}
    THEN error ELSE "statement"

-----------------------------------------------------------------------------
(* Cleanup *)

LockedRows == UNION {cleaning[p].rows : p \in {q \in Passes : cleaning[q].at = "commit"}}

ExpireRow ==
    /\ \E r \in MtRows \ (expired \cup gone) : expired' = expired \cup {r}
    /\ UNCHANGED <<gone, unheard, cleaning, shown, probe>>

\* CleanupPass::start
StartPass(p) ==
    /\ cleaning[p].at = "idle"
    /\ cleaning' = [cleaning EXCEPT ![p].at = "admit"]
    /\ shown' = [shown EXCEPT !.active = @ + 1]
    /\ UNCHANGED <<expired, gone, unheard, probe>>

\* Dropping the pass records how it ended; that is "cancelled" until it is marked.
PassEnds(p, outcome) ==
    /\ cleaning' = [cleaning EXCEPT ![p] = [at |-> "idle", rows |-> {}]]
    /\ shown' = [shown EXCEPT !.active = @ - 1, !.ends = @ \cup {outcome}]

\* CleanupBudget::admit: no admission budget and no pause are set, so a full
\* batch is always followed by the next.
AdmitBatch(p) ==
    /\ cleaning[p].at = "admit"
    /\ cleaning' = [cleaning EXCEPT ![p].at = "delete"]
    /\ UNCHANGED <<expired, gone, unheard, shown, probe>>

\* The batch takes what no other pass has locked.
DeleteBatch(p) ==
    /\ cleaning[p].at = "delete"
    /\ LET free == expired \ LockedRows
       IN  \E batch \in SUBSET free :
             /\ Cardinality(batch) = BatchRows \/ (Cardinality(batch) < BatchRows /\ batch = free)
             /\ cleaning' = [cleaning EXCEPT ![p] = [at |-> "commit", rows |-> batch]]
    /\ UNCHANGED <<expired, gone, unheard, shown, probe>>

\* External: the server commits the batch, which nobody has been told of yet.
BatchCommits(p) ==
    /\ cleaning[p].at = "commit"
    /\ expired' = expired \ cleaning[p].rows /\ gone' = gone \cup cleaning[p].rows
    /\ unheard' = unheard \cup cleaning[p].rows

CommitBatch(p) ==
    /\ BatchCommits(p)
    /\ cleaning' = [cleaning EXCEPT ![p].at = "answer"]
    /\ UNCHANGED <<shown, probe>>

\* Mutation: the batch is published when its statement returns.
BatchAnsweredEarly(p) ==
    /\ cleaning[p].at \in {"commit", "answer"}
    /\ unheard' = unheard \ cleaning[p].rows
    /\ LET rows == Cardinality(cleaning[p].rows)
       IN  /\ cleaning' = [cleaning EXCEPT ![p] = [at |-> IF rows < BatchRows THEN "idle" ELSE "admit", rows |-> {}]]
           /\ shown' = [shown EXCEPT !.rows = @ + rows, !.batches = 1,
                                     !.active = IF rows < BatchRows THEN @ - 1 ELSE @]
    /\ UNCHANGED <<expired, gone, probe>>

\* CleanupPass::committed, before the next wait; a short batch completes the pass.
BatchAnswered(p) ==
    /\ cleaning[p].at = "answer"
    /\ unheard' = unheard \ cleaning[p].rows
    /\ LET rows == Cardinality(cleaning[p].rows)
           counted == [shown EXCEPT !.rows = @ + rows, !.batches = 1]
       IN  IF rows < BatchRows
           THEN /\ shown' = [counted EXCEPT !.active = @ - 1, !.ends = @ \cup {"completed"}]
                /\ cleaning' = [cleaning EXCEPT ![p] = [at |-> "idle", rows |-> {}]]
           ELSE /\ shown' = counted
                /\ cleaning' = [cleaning EXCEPT ![p] = [at |-> "admit", rows |-> {}]]
    /\ UNCHANGED <<expired, gone, probe>>

\* A batch fails before it committed, or its answer is lost; or the pass's owner
\* is cancelled.  A COMMIT that was already sent may still run.
PassStops(p, outcome) ==
    /\ outcome = "failed" => cleaning[p].at \in {"delete", "commit", "answer"}
    /\ cleaning[p].at # "idle"
    /\ PassEnds(p, outcome)
    /\ BatchCommits(p) \/ UNCHANGED <<expired, gone, unheard>>
    /\ UNCHANGED probe

-----------------------------------------------------------------------------
(* The population sampler *)

\* Two attempts never overlap; the statement sees committed rows.
ProbeReads ==
    /\ probe.at = "idle"
    /\ probe' = [probe EXCEPT !.at = "reading", !.read = Cardinality(expired)]
    /\ UNCHANGED <<expired, gone, unheard, cleaning, shown>>

\* MaintenanceAttempt::succeeded: only a sample with valid clocks is published, all
\* of it before its success marker.  Its age starts over (history: seen is what
\* the table held when the last published sample was read).
ProbePublishes(valid) ==
    /\ probe.at = "reading"
    /\ probe' = IF valid THEN [probe EXCEPT !.at = "idle", !.good = TRUE, !.last = "success", !.seen = probe.read]
                ELSE [probe EXCEPT !.at = "idle", !.last = "failed"]
    /\ UNCHANGED <<expired, gone, unheard, cleaning, shown>>

\* MaintenanceAttempt::failed and its Drop: the last good sample stays.
ProbeFails(how) ==
    /\ probe.at = "reading"
    /\ probe' = [probe EXCEPT !.at = "idle", !.last = how]
    /\ UNCHANGED <<expired, gone, unheard, cleaning, shown>>

MtNext ==
    \/ ExpireRow \/ ProbeReads
    \/ \E valid \in BOOLEAN : ProbePublishes(valid)
    \/ \E how \in {"failed", "cancelled"} : ProbeFails(how)
    \/ \E p \in Passes : \/ StartPass(p) \/ AdmitBatch(p) \/ DeleteBatch(p) \/ CommitBatch(p)
                         \/ BatchAnswered(p)
                         \/ \E outcome \in {"failed", "cancelled"} : PassStops(p, outcome)

-----------------------------------------------------------------------------
(* Properties *)

\* The removed-rows counter never claims a row that was not durably deleted and
\* misses only rows whose commit answer nobody heard, whatever passes overlap,
\* fail or are cancelled; the active gauge returns to the passes that run.
CleanupEvidence ==
    /\ MtTypeOK
    /\ shown.rows = Cardinality(gone \ unheard)
    /\ shown.active = Cardinality({p \in Passes : cleaning[p].at # "idle"})
    /\ {"failed", "cancelled"} \cap shown.ends = {} /\ shown.active = 0 => unheard = {}
=============================================================================
