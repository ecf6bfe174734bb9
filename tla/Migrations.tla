----------------------------- MODULE Migrations -----------------------------
(***************************************************************************)
(* The migration runner and the startup check: lock, history, one          *)
(* transaction per migration, the migrations that run outside one, and a   *)
(* runner that may be cut anywhere while its session lives on in the       *)
(* server (src/crates/migrate/src/{lib,main}.rs).  The database, its       *)
(* advisory lock and its concurrent index builds are external.             *)
(***************************************************************************)
EXTENDS Integers, FiniteSets, Refusals

CONSTANTS
    Runners,     \* migrator processes, of one or several releases
    NoRunner,
    Embedded,    \* the versions each runner's release embeds
    NoTx,        \* the versions marked -- no-transaction
    MaxCuts      \* bound on interrupted runs

MgVersions == UNION {Embedded[m] : m \in Runners}

ASSUME MigrationsAssumption ==
    /\ NoRunner \notin Runners
    /\ \A m \in Runners : Embedded[m] \subseteq Nat \ {0}    \* a release's own test refuses the rest
    /\ NoTx \subseteq MgVersions /\ MaxCuts \in Nat

VARIABLES
    hist,     \* the history rows: version -> "none", "applied" or "changed"
    schema,   \* what each version's statement left in the database
    adlock,   \* the session that holds the advisory lock
    mrun,     \* each runner
    cuts

mgVars == <<hist, schema, adlock, mrun, cuts>>

MgTypeOK ==
    /\ hist \in [MgVersions -> {"none", "applied", "changed"}]
    /\ schema \in [MgVersions -> {"none", "invalid", "built"}]
    /\ adlock \in Runners \cup {NoRunner}
    /\ mrun \in [Runners -> [at: {"idle", "connect", "lock", "history", "next", "build", "row", "end"},
                             session: BOOLEAN, building: MgVersions \cup {0},
                             stmt: {"none", "sent", "working", "done", "failed"},
                             applied: SUBSET MgVersions,
                             result: {"none", "success", "no_change", "config", "runtime", "signals",
                                      "connect", "lock", "history", "execute", "deadline", "interrupted"}]]
    /\ cuts \in 0..MaxCuts

MgInit ==
    /\ hist \in [MgVersions -> {"none", "applied"}]
    /\ \A v, w \in MgVersions : v < w /\ hist[w] = "applied" => hist[v] = "applied"
    /\ schema = [v \in MgVersions |-> IF hist[v] = "applied" THEN "built" ELSE "none"]
    /\ adlock = NoRunner
    /\ mrun = [m \in Runners |-> [at |-> "idle", session |-> FALSE, building |-> 0, stmt |-> "none",
                                  applied |-> {}, result |-> "none"]]
    /\ cuts = 0

-----------------------------------------------------------------------------
(* The history rule, shared by the runner and the startup check *)

\* pending: a changed checksum, or an unknown version inside the embedded range,
\* is divergent; a version above the newest belongs to a later release.
HistoryDiverges(embedded) ==
    \E v \in MgVersions :
        \/ v \in embedded /\ hist[v] = "changed"
        \/ v \notin embedded /\ hist[v] # "none" /\ \E newest \in embedded : v < newest

PendingOf(embedded) == {v \in embedded : hist[v] = "none"}

\* verify_history, from one snapshot; read is how the bounded read ended.
VerifyHistory(embedded, read) ==
    First(<< <<read = "dirty", "Mismatch">>, <<read = "unavailable", "Unavailable">>,
             <<read = "answered" /\ HistoryDiverges(embedded), "Mismatch">>,
             <<read = "undefined_table" \/ PendingOf(embedded) # {}, "Pending">> >>)

-----------------------------------------------------------------------------
(* The runner *)

\* finish: the outcome decides the exit code and nothing after it does.
MgEnds(m, result) ==
    mrun' = [mrun EXCEPT ![m] = [@ EXCEPT !.at = "end", !.result = result]]

\* main and apply: configuration, runtime, signals and DSN come before any access.
StartRun(m, refusal) ==
    /\ mrun[m].at = "idle"
    /\ IF refusal = "none"
       THEN mrun' = [mrun EXCEPT ![m] = [@ EXCEPT !.at = "connect", !.result = "none",
                                                  !.applied = {}]]
       ELSE MgEnds(m, refusal)
    /\ UNCHANGED <<hist, schema, adlock, cuts>>

\* connect_session within its own timeout.
ConnectRun(m, ok) ==
    /\ mrun[m].at = "connect" /\ ~mrun[m].session
    /\ IF ok THEN mrun' = [mrun EXCEPT ![m] = [@ EXCEPT !.at = "lock", !.session = TRUE]]
       ELSE MgEnds(m, "connect")
    /\ UNCHANGED <<hist, schema, adlock, cuts>>

\* pg_advisory_lock, or lock_timeout while another session holds it.
LockRun(m) ==
    /\ mrun[m].at = "lock"
    /\ IF adlock = NoRunner
       THEN mrun' = [mrun EXCEPT ![m].at = "history"] /\ adlock' = m
       ELSE MgEnds(m, "lock") /\ UNCHANGED adlock
    /\ UNCHANGED <<hist, schema, cuts>>

\* RunError::stage of a bookkeeping statement that fails: the session dropped, a lock_timeout, or
\* any other error.
BookkeepingStages == {"connect", "lock", "history"}

\* ensure_migrations_table, applied_history, pending: a failed statement, a dirty row and a
\* divergent history end the run.
ReadHistory(m, failure) ==
    /\ mrun[m].at = "history"
    /\ IF failure # "none" THEN MgEnds(m, failure)
       ELSE IF HistoryDiverges(Embedded[m]) THEN MgEnds(m, "history")
       ELSE mrun' = [mrun EXCEPT ![m].at = "next"]
    /\ UNCHANGED <<hist, schema, adlock, cuts>>

\* The index query, the session's timeouts before and after a build, the row or the unlock fails.
BookkeepingFails(m, stage) ==
    /\ mrun[m].at \in {"next", "row"}
    /\ MgEnds(m, stage)
    /\ UNCHANGED <<hist, schema, adlock, cuts>>

\* The next migration in version order.
NextVersion(m) ==
    LET left == PendingOf(Embedded[m]) \ mrun[m].applied
    IN  IF left = {} THEN 0 ELSE CHOOSE v \in left : \A w \in left : v <= w

\* A transactional migration and its row commit together, or neither does.
ApplyInTransaction(m, ok) ==
    /\ mrun[m].at = "next" /\ NextVersion(m) \notin NoTx \cup {0}
    /\ IF ok
       THEN LET v == NextVersion(m)
            IN  /\ hist' = [hist EXCEPT ![v] = "applied"]
                /\ schema' = [schema EXCEPT ![v] = "built"]
                /\ mrun' = [mrun EXCEPT ![m].applied = @ \cup {v}]
       ELSE MgEnds(m, "execute") /\ UNCHANGED <<hist, schema>>
    /\ UNCHANGED <<adlock, cuts>>

\* Mutation: the statement's IF NOT EXISTS is trusted.
BuildUnchecked(m) ==
    /\ mrun[m].at = "next" /\ NextVersion(m) \in NoTx
    /\ mrun' = [mrun EXCEPT ![m] = [@ EXCEPT !.at = "build", !.stmt = "sent",
                                                     !.building = NextVersion(m)]]
    /\ UNCHANGED <<hist, schema, adlock, cuts>>

\* apply_outside_transaction refuses while the database holds an invalid index.
StartBuild(m) ==
    /\ mrun[m].at = "next" /\ NextVersion(m) \in NoTx
    /\ IF \E v \in MgVersions : schema[v] = "invalid" THEN MgEnds(m, "execute")
       ELSE mrun' = [mrun EXCEPT ![m] = [@ EXCEPT !.at = "build", !.stmt = "sent",
                                                     !.building = NextVersion(m)]]
    /\ UNCHANGED <<hist, schema, adlock, cuts>>

\* External: CREATE INDEX CONCURRENTLY IF NOT EXISTS leaves an invalid index
\* until it has finished; an index that exists is kept as it is.  The statement
\* goes on while its client is gone.
ServerBuilds(m) ==
    /\ mrun[m].session
    /\ LET v == mrun[m].building
       IN  \/ /\ mrun[m].stmt = "sent" /\ schema[v] = "none"
              /\ schema' = [schema EXCEPT ![v] = "invalid"]
              /\ mrun' = [mrun EXCEPT ![m].stmt = "working"]
           \/ /\ mrun[m].stmt = "sent" /\ schema[v] # "none"
              /\ mrun' = [mrun EXCEPT ![m].stmt = "done"] /\ UNCHANGED schema
           \/ /\ mrun[m].stmt = "working"
              /\ \/ /\ schema' = [schema EXCEPT ![v] = "built"]
                    /\ mrun' = [mrun EXCEPT ![m].stmt = "done"]
                 \/ mrun' = [mrun EXCEPT ![m].stmt = "failed"] /\ UNCHANGED schema
    /\ UNCHANGED <<hist, adlock, cuts>>

\* conn.apply outside a transaction: the row follows the statement's answer.
BuildAnswered(m) ==
    /\ mrun[m].at = "build" /\ mrun[m].stmt \in {"done", "failed"}
    /\ IF mrun[m].stmt = "done"
       THEN mrun' = [mrun EXCEPT ![m] = [@ EXCEPT !.at = "row", !.stmt = "none"]]
       ELSE mrun' = [mrun EXCEPT ![m] = [@ EXCEPT !.at = "end", !.result = "execute", !.stmt = "none"]]
    /\ UNCHANGED <<hist, schema, adlock, cuts>>

BuildRecorded(m) ==
    /\ mrun[m].at = "row"
    /\ hist' = [hist EXCEPT ![mrun[m].building] = "applied"]
    /\ mrun' = [mrun EXCEPT ![m] = [@ EXCEPT !.at = "next", !.building = 0,
                                             !.applied = mrun[m].applied \cup {mrun[m].building}]]
    /\ UNCHANGED <<schema, adlock, cuts>>

\* unlock, close, and the terminal record
FinishRun(m) ==
    /\ mrun[m].at = "next" /\ NextVersion(m) = 0
    /\ adlock' = NoRunner
    /\ mrun' = [mrun EXCEPT ![m] = [@ EXCEPT !.at = "end", !.session = FALSE,
                 !.result = IF mrun[m].applied = {} THEN "no_change" ELSE "success"]]
    /\ UNCHANGED <<hist, schema, cuts>>

\* The deadline or a stop signal drops the run, or the process dies.
CutRun(m, cause) ==
    /\ mrun[m].at \in {"connect", "lock", "history", "next", "build", "row"} /\ cuts < MaxCuts
    /\ cause = "deadline" => mrun[m].session
    /\ MgEnds(m, cause) /\ cuts' = cuts + 1
    /\ UNCHANGED <<hist, schema, adlock>>

\* A dropped session ends on the server once it notices, its statement and its
\* lock with it.
MgSessionEnds(m) ==
    /\ mrun[m].session /\ mrun[m].at = "end"
    /\ mrun' = [mrun EXCEPT ![m] = [@ EXCEPT !.session = FALSE, !.stmt = "none", !.building = 0]]
    /\ adlock' = IF adlock = m THEN NoRunner ELSE adlock
    /\ UNCHANGED <<hist, schema, cuts>>

\* A new process of the same release.
RunAgain(m) ==
    /\ mrun[m].at = "end" /\ ~mrun[m].session
    /\ mrun' = [mrun EXCEPT ![m].at = "idle"]
    /\ UNCHANGED <<hist, schema, adlock, cuts>>

\* An operator drops the index the error names; nobody may be building it.
DropInvalidIndex(v) ==
    /\ schema[v] = "invalid" /\ \A m \in Runners : mrun[m].building # v
    /\ schema' = [schema EXCEPT ![v] = "none"]
    /\ UNCHANGED <<hist, adlock, mrun, cuts>>

\* A released migration file was edited after it was applied.
EditMigration(v) ==
    /\ hist[v] = "applied" /\ cuts < MaxCuts
    /\ hist' = [hist EXCEPT ![v] = "changed"] /\ cuts' = cuts + 1
    /\ UNCHANGED <<schema, adlock, mrun>>

MgNext ==
    \/ \E m \in Runners :
          \/ LockRun(m) \/ StartBuild(m) \/ ServerBuilds(m) \/ BuildAnswered(m)
          \/ BuildRecorded(m) \/ FinishRun(m) \/ MgSessionEnds(m) \/ RunAgain(m)
          \/ \E ok \in BOOLEAN : ConnectRun(m, ok) \/ ApplyInTransaction(m, ok)
          \/ \E refusal \in {"none", "config", "runtime", "signals"} : StartRun(m, refusal)
          \/ \E failure \in BookkeepingStages \cup {"none"} : ReadHistory(m, failure)
          \/ \E stage \in BookkeepingStages : BookkeepingFails(m, stage)
          \/ \E cause \in {"deadline", "interrupted"} : CutRun(m, cause)
    \/ \E v \in MgVersions : DropInvalidIndex(v) \/ EditMigration(v)

-----------------------------------------------------------------------------
(* Properties *)

\* A release whose startup check admits the history, or whose run reported
\* success, finds every migration it embeds completely in the schema: an index an
\* interrupted build left behind never passes for a built one.
SchemaAdmitted ==
    /\ MgTypeOK
    /\ \A m \in Runners :
          VerifyHistory(Embedded[m], "answered") = "ok" \/ mrun[m].result \in {"success", "no_change"} =>
              \A v \in Embedded[m] : schema[v] = "built"
=============================================================================
