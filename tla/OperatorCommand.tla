--------------------------- MODULE OperatorCommand ---------------------------
(***************************************************************************)
(* One recovery command of jobs-worker: its input, the stages it passes    *)
(* before it touches a job, the one transaction it runs, the receipt and   *)
(* the exit code (src/crates/jobs-worker/src/{cli,operator,lib}.rs and the *)
(* inputs and results of src/crates/infra-jobs/src/operator.rs).  A        *)
(* feature's transaction is the other caller of the seam.                  *)
(***************************************************************************)
EXTENDS PgTransaction

VARIABLE op     \* the command

opVars == <<op, pgVars>>

-----------------------------------------------------------------------------
(* Inputs and results *)

\* parse_id refuses a nil UUID; a version is decimal digits within bigint.
OperatorInputs == {"id", "kind", "version", "cursor", "limit", "handled_kinds"}
RequestOf(command, faults) ==
    CASE command = "inspect" -> First(<< <<"id" \in faults, "Id">> >>)
      [] command = "failed" -> First(<< <<"limit" \in faults, "Limit">>,
                                        <<"cursor" \in faults, "Cursor">> >>)
      [] command = "unhandled" -> First(<< <<"handled_kinds" \in faults, "HandledKinds">>,
                                           <<"limit" \in faults, "Limit">>,
                                           <<"cursor" \in faults, "Cursor">> >>)
      [] OTHER -> First(<< <<"id" \in faults, "Id">>, <<"kind" \in faults, "Kind">>,
                           <<"version" \in faults, "Version">> >>)

\* A snapshot of a row whose state or reason this release does not know fails.
SnapshotKnown(row) ==
    /\ row.state \in {"pending", "running", "completed", "failed"}
    /\ row.reason \in {"none", "permanent", "exhausted"}

PageFilter(row, filter, handled) ==
    IF filter = "failed" THEN row.state = "failed"
    ELSE row.state \in {"pending", "running"} /\ row.kind \notin handled

\* inspect: the page bounds the rows scanned, not the rows that pass the filter,
\* so its cursor is the last row scanned.  rows is the table in id order.
Page(rows, after, limit, filter, handled) ==
    LET scanned == {i \in DOMAIN rows : i > after /\ i <= after + limit}
    IN  IF \E i \in scanned : ~SnapshotKnown(rows[i]) THEN [ok |-> FALSE]
        ELSE [ok |-> TRUE,
              items |-> {i \in scanned : PageFilter(rows[i], filter, handled)},
              complete |-> Cardinality(scanned) < limit,
              next |-> IF Cardinality(scanned) < limit THEN 0 ELSE after + limit]

-----------------------------------------------------------------------------
(* The command *)

OpStages == <<"arguments", "config", "runtime", "signals", "dsn", "connect", "history",
              "startup", "execute">>
Interruptible == {"connect", "history", "startup", "execute"}

OpTypeOK ==
    /\ op \in [at: {"feature", "usage", "running", "close", "write", "exit"} \cup
                   {OpStages[i] : i \in DOMAIN OpStages},
               mutation: BOOLEAN, outcome: {"none", "failed", "unknown", "unavailable", "missing",
                                            "stale", "conflict", "done", "ok"},
               success: BOOLEAN, code: {"none", "0", "1", "2"}]

OpInit ==
    /\ PgInit
    /\ op \in [at: {"arguments", "feature"}, mutation: BOOLEAN, outcome: {"none"},
               success: {FALSE}, code: {"none"}]

NextStage(stage) ==
    OpStages[1 + CHOOSE i \in DOMAIN OpStages : OpStages[i] = stage]

\* Request::failed
FailedOutcome(invoked) ==
    IF ~op.mutation THEN "unavailable" ELSE IF invoked THEN "unknown" ELSE "failed"

\* The pool exists from history on and is closed before the receipt is written.
Reported(outcome, success) ==
    [op EXCEPT !.outcome = outcome, !.success = success,
               !.at = IF op.at \in {"history", "startup", "execute", "running"}
                      THEN "close" ELSE "write"]

\* Request::try_new: refused input is a usage error, before any access.
OpArguments(command, faults) ==
    /\ op.at = "arguments"
    /\ op.mutation = (command \in {"redrive", "discard"})
    /\ op' = IF RequestOf(command, faults) = "ok" THEN [op EXCEPT !.at = "config"]
             ELSE [op EXCEPT !.at = "exit", !.code = "2"]
    /\ UNCHANGED pgVars

\* run, run_configured, serve, admitted: a stage passes, is refused, or is cut
\* by its budget or a stop signal.
OpStage(result) ==
    /\ op.at \in {OpStages[i] : i \in 2..Len(OpStages)} \ {"execute"}
    /\ result \in {"timeout", "interrupted"} => op.at \in Interruptible
    /\ op' = IF result = "ok" THEN [op EXCEPT !.at = NextStage(op.at)]
             ELSE Reported(FailedOutcome(FALSE), FALSE)
    /\ UNCHANGED pgVars

\* bounded: a pending stop prevents the invocation; else the first poll invokes.
OpInvoke(pending) ==
    /\ op.at = "execute"
    /\ IF pending THEN /\ op' = Reported(FailedOutcome(FALSE), FALSE) /\ UNCHANGED pgVars
       ELSE /\ op' = [op EXCEPT !.at = "running"] /\ StartTransaction(~op.mutation)

\* Mutation: an interrupted mutation is reported as failed.
OpCutAsFailed ==
    /\ op.at = "running" /\ CancelTransaction
    /\ op' = Reported(FailedOutcome(FALSE), FALSE)

\* The operation timeout or a stop signal drops the running operation.
OpCut ==
    /\ op.at = "running" /\ CancelTransaction
    /\ op' = Reported(FailedOutcome(TRUE), FALSE)

\* lock_failed, redrive, discard, inspect propagate every refusal out of the
\* transaction: a missing or stale target, a live key, the statement's own error.
OpRefused(cause) ==
    /\ op.at = "running" /\ seam.at = "body"
    /\ cause \in {"missing", "stale", "conflict"} => op.mutation
    /\ BodyFails
    /\ op' = Reported(IF ~op.mutation THEN "unavailable"
                      ELSE IF cause = "database" THEN "failed" ELSE cause, FALSE)

\* execute's statements all answered.
OpWorked ==
    /\ op.at = "running" /\ seam.statements > 0 /\ seam.proof
    /\ BodyEnds /\ UNCHANGED op

\* database_error for the seam's own failures, and the success receipt.
OpAnswered ==
    /\ op.at = "running" /\ seam.at = "done"
    /\ op' = IF seam.result = "committed" THEN Reported(IF op.mutation THEN "done" ELSE "ok", TRUE)
             ELSE Reported(IF ~op.mutation THEN "unavailable"
                           ELSE IF seam.result = "commit_unknown" THEN "unknown" ELSE "failed",
                           FALSE)
    /\ UNCHANGED pgVars

\* A missing close acknowledgement never changes a known outcome.
OpClose(complete) ==
    /\ op.at = "close"
    /\ op' = [op EXCEPT !.at = "write", !.success = @ /\ complete]
    /\ UNCHANGED pgVars

\* run and exit_code: a receipt that cannot be written is a failure.
OpWrite(written) ==
    /\ op.at = "write"
    /\ op' = [op EXCEPT !.at = "exit", !.code = IF written /\ op.success THEN "0" ELSE "1"]
    /\ UNCHANGED pgVars

\* A feature's own transaction, whose closure may swallow what fails in it.
FeatureCalls ==
    /\ op.at = "feature"
    /\ \/ StartTransaction(FALSE) \/ BodyFails \/ BodyEnds \/ CancelTransaction
    /\ UNCHANGED op

\* The seam between the caller's steps, for either caller.
SeamSteps ==
    /\ \/ \E ok \in BOOLEAN : AcquireEnds(ok) \/ CheckEnds(ok)
       \/ BeginEnds \/ CommitEnds \/ CommitLost
       \/ \E ends \in {"answered", "failed", "unproved"} : RunStatement(ends)
       \/ PgBackground
    /\ UNCHANGED op

OpNext ==
    \/ \E command \in {"inspect", "failed", "unhandled", "redrive", "discard"} :
          \E faults \in {{}, {"id"}, {"cursor"}} : OpArguments(command, faults)
    \/ \E result \in {"ok", "refused", "timeout", "interrupted"} : OpStage(result)
    \/ \E pending \in BOOLEAN : OpInvoke(pending)
    \/ OpCut \/ OpWorked \/ OpAnswered
    \/ \E cause \in {"missing", "stale", "conflict", "database"} : OpRefused(cause)
    \/ \E ok \in BOOLEAN : OpClose(ok) \/ OpWrite(ok)
    \/ FeatureCalls \/ SeamSteps

-----------------------------------------------------------------------------
(* Properties *)

\* The transaction seam reports what happened and pools no open transaction, and a
\* receipt a person acts on is true whenever it is read: "failed" and the
\* refusals mean that nothing was and nothing will be committed, success means it
\* was, and only a written receipt of a known success exits with 0.
OperatorReceipt ==
    /\ OpTypeOK /\ OutcomeTruth /\ PooledClean
    /\ op.outcome \in {"failed", "missing", "stale", "conflict"} => ~durable /\ conn.sent # "commit"
    /\ op.outcome = "done" => durable
    /\ op.code = "0" => op.outcome \in {"done", "ok"}
=============================================================================
