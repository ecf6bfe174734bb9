---------------------------- MODULE BackendProofs ----------------------------
(***************************************************************************)
(* What holds behind the service for every number of attempts, rows,       *)
(* migrations, batches and events: the operator's receipt over the         *)
(* transaction seam (PgInv, OpInv), the admission of a schema (MgInv), the *)
(* engine's tasks (JeInv), the worker's stop (WkInv), events from the      *)
(* outbox to their dead letters (ObInv), batched completions               *)
(* (CompletionInv) and the evidence of table maintenance (MtInv).          *)
(***************************************************************************)
EXTENDS Completions, Outbox, JobsWorker, JobEngine, OperatorCommand, Migrations, Maintenance,
        NaturalsInduction, WellFoundedInduction, FiniteSetTheorems, TLAPS

-----------------------------------------------------------------------------
(* Least elements *)

\* A set of natural numbers that is not empty has a least member: what an induction would use.
LEMMA LeastNat ==
    ASSUME NEW T \in SUBSET Nat, T # {}
    PROVE  \E n \in T : \A k \in T : n <= k
<1>1. IsWellFoundedOn(OpToRel(<, Nat), Nat)
  BY NatLessThanWellFounded
<1>2. PICK n \in T : \A k \in T : ~(<<k, n>> \in OpToRel(<, Nat))
  BY <1>1, WFMin
<1>3. \A k \in T : ~(k < n)
  BY <1>2 DEF OpToRel
<1> QED BY <1>3

-----------------------------------------------------------------------------
(* The transaction seam and the operator's receipt *)

OpSpec == OpInit /\ [][OpNext]_opVars

\* Nothing has been sent and nothing is owed.
Untouched ==
    /\ conn.place = "pool" /\ conn.tx = "none" /\ conn.sent = "none" /\ conn.reply = "none"
    /\ ~conn.written /\ ~conn.rollback /\ ~durable /\ ~seam.wrote /\ seam.statements = 0

\* Each stage of transaction() knows what is on the connection.
AcquireStage == seam.at \in {"off", "acquire"} => Untouched

BeginStage ==
    seam.at = "begin" =>
        /\ conn.place = "held" /\ ~conn.rollback /\ ~conn.written /\ ~durable
        /\ ~seam.wrote /\ seam.statements = 0
        /\ \/ conn.sent = "begin" /\ conn.reply = "none" /\ conn.tx = "none"
           \/ conn.sent = "none" /\ conn.reply = "ok" /\ conn.tx = "open"
           \/ conn.sent = "none" /\ conn.reply = "Io" /\ conn.tx = "none"

BodyStage ==
    seam.at \in {"body", "check"} =>
        /\ conn.place = "held" /\ ~conn.rollback /\ ~durable
        /\ conn.sent = "none" /\ conn.reply = "none"
        /\ conn.tx \in {"open", "aborted"}
        /\ seam.proof => conn.tx = "open"
        /\ seam.wrote => conn.written \/ conn.tx = "aborted"

CommitStage ==
    seam.at = "commit" =>
        /\ conn.place = "held" /\ ~conn.rollback
        /\ \/ /\ conn.sent = "commit" /\ conn.reply = "none" /\ ~durable
              /\ conn.tx = "open" \/ seam.readOnly
              /\ conn.tx # "none"
              /\ seam.wrote => conn.written /\ conn.tx = "open"
           \/ /\ conn.sent = "none" /\ conn.reply # "none" /\ conn.tx = "none"
              /\ conn.reply = "ok" /\ seam.wrote => durable
              /\ conn.reply = "23505" => ~durable

\* Only an abandoned or an unanswered commit is still to be run.
DoneStage ==
    seam.at = "done" =>
        /\ seam.result \notin {"cancelled", "commit_unknown"} => conn.sent = "none"
        /\ conn.sent # "none" => ~durable
        /\ conn.place = "pool" => conn.tx = "none" /\ conn.sent = "none"
        /\ conn.place = "held" => conn.sent # "begin" /\ (conn.rollback \/ conn.tx = "none")

\* What the seam's own flags say.
SeamFlags ==
    /\ seam.discard <=> seam.at = "begin"
    /\ seam.result = "none" <=> seam.at # "done"
    /\ conn.written \/ seam.wrote => ~seam.readOnly
    /\ conn.written => conn.tx = "open" /\ conn.sent # "begin"
    /\ seam.proof /\ seam.statements > 0 /\ ~seam.readOnly => seam.wrote

PgInv ==
    /\ OutcomeTruth /\ PooledClean
    /\ AcquireStage /\ BeginStage /\ BodyStage /\ CommitStage /\ DoneStage /\ SeamFlags

\* The command and its transaction: it is the only caller, it commits only what was written,
\* and it says nothing while the answer is open.
CommandStage ==
    /\ op.at \notin {"feature", "running", "close", "write", "exit"} => seam.at = "off"
    /\ op.at \in {"close", "write", "exit"} => seam.at \in {"off", "done"}
    /\ op.at \notin {"close", "write", "exit"} =>
          op.outcome = "none" /\ ~op.success /\ op.code = "none"
    /\ op.at = "running" =>
          /\ seam.at \notin {"off", "check"}
          /\ seam.readOnly = ~op.mutation
          /\ seam.at = "done" => seam.result \notin {"cancelled", "rolled_back"}
          /\ op.mutation /\ (seam.at = "commit" \/ seam.result = "committed") => seam.wrote

CommandSays ==
    /\ op.outcome \in {"failed", "missing", "stale", "conflict"} =>
          \/ seam.at = "off"
          \/ seam.result \in {"rolled_back", "acquire_failed", "begin_failed", "commit_failed"}
    /\ op.outcome = "done" => seam.result = "committed" /\ seam.wrote
    /\ op.success => op.outcome \in {"done", "ok"}
    /\ op.code = "0" => op.outcome \in {"done", "ok"}

OpInv == OpTypeOK /\ PgInv /\ CommandStage /\ CommandSays

\* What a dropped transaction leaves is a connection, and its end an end.
LEMMA DropTyped ==
    ASSUME PgTypeOK
    PROVE  DropConnection \in [place: {"pool", "held", "closed"}, tx: {"none", "open", "aborted"},
                               written: BOOLEAN, sent: {"none", "begin", "commit"}, rollback: BOOLEAN,
                               reply: {"none", "ok", "23505", "40003", "Io"}]
BY DEF PgTypeOK, DropConnection

LEMMA EndTyped ==
    ASSUME PgTypeOK, NEW result \in SeamResults
    PROVE  SeamEnds(result) \in [at: {"off", "acquire", "begin", "body", "check", "commit", "done"},
                                 readOnly: BOOLEAN, proof: BOOLEAN, discard: BOOLEAN, wrote: BOOLEAN,
                                 statements: 0..MaxStatements, result: SeamResults]
BY DEF PgTypeOK, SeamEnds

\* Every step of the seam keeps what its stages know.
LEMMA SeamStep ==
    ASSUME PgInv, MaxStatements \in Nat
    PROVE  /\ \A readOnly \in BOOLEAN : StartTransaction(readOnly) => PgInv'
           /\ \A ok \in BOOLEAN : (AcquireEnds(ok) \/ CheckEnds(ok)) => PgInv'
           /\ BeginEnds \/ CommitEnds \/ CommitLost \/ BodyFails \/ BodyEnds \/ CancelTransaction => PgInv'
           /\ \A ends \in {"answered", "failed", "unproved"} : RunStatement(ends) => PgInv'
           /\ PgBackground => PgInv'
<1> USE DEF PgInv, OutcomeTruth, PgTypeOK, SeamResults, PooledClean, AcquireStage, Untouched, BeginStage,
            BodyStage, CommitStage, DoneStage, SeamFlags, SeamEnds, DropConnection
<1>1. ASSUME NEW readOnly \in BOOLEAN, StartTransaction(readOnly) PROVE PgInv'
  <2>1. PgTypeOK'
    BY ONLY PgTypeOK, <1>1, MaxStatements \in Nat DEF PgTypeOK, SeamResults, StartTransaction, SeamEnds, DropConnection
  <2>2. OutcomeTruth'
    BY <2>1, <1>1 DEF StartTransaction
  <2>3. PooledClean'
    BY <1>1 DEF StartTransaction
  <2>4. AcquireStage'
    BY <1>1 DEF StartTransaction
  <2>5. BeginStage'
    BY <1>1 DEF StartTransaction
  <2>6. BodyStage'
    BY <1>1 DEF StartTransaction
  <2>7. CommitStage'
    BY <1>1 DEF StartTransaction
  <2>8. DoneStage'
    BY <1>1 DEF StartTransaction
  <2>9. SeamFlags'
    BY <1>1 DEF StartTransaction
  <2> QED BY ONLY <2>1, <2>2, <2>3, <2>4, <2>5, <2>6, <2>7, <2>8, <2>9 DEF PgInv
<1>2. ASSUME NEW ok \in BOOLEAN, AcquireEnds(ok) PROVE PgInv'
  <2>1. PgTypeOK'
    BY ONLY PgTypeOK, <1>2, MaxStatements \in Nat, ZenonT(40) DEF PgTypeOK, SeamResults, AcquireEnds, SeamEnds, DropConnection
  <2>2. OutcomeTruth'
    BY <2>1, <1>2 DEF AcquireEnds
  <2>3. PooledClean'
    BY <1>2 DEF AcquireEnds
  <2>4. AcquireStage'
    BY <1>2, ZenonT(40) DEF AcquireEnds
  <2>5. BeginStage'
    BY <1>2, ZenonT(40) DEF AcquireEnds
  <2>6. BodyStage'
    BY <1>2 DEF AcquireEnds
  <2>7. CommitStage'
    BY <1>2 DEF AcquireEnds
  <2>8. DoneStage'
    BY <1>2 DEF AcquireEnds
  <2>9. SeamFlags'
    BY <1>2, ZenonT(40) DEF AcquireEnds
  <2> QED BY ONLY <2>1, <2>2, <2>3, <2>4, <2>5, <2>6, <2>7, <2>8, <2>9 DEF PgInv
<1>3. ASSUME NEW ok \in BOOLEAN, CheckEnds(ok) PROVE PgInv'
  <2>1. PgTypeOK'
    <3>1. CASE ok
      BY ONLY PgTypeOK, <1>3, <3>1, MaxStatements \in Nat DEF PgTypeOK, SeamResults, CheckEnds, SeamEnds, DropConnection
    <3>2. CASE ~ok
      <4>1. seam' = SeamEnds("commit_failed") /\ conn' = DropConnection /\ durable' = durable
        BY ONLY <1>3, <3>2 DEF CheckEnds
      <4> QED BY ONLY PgTypeOK, <4>1, DropTyped, EndTyped DEF PgTypeOK
    <3> QED BY ONLY <3>1, <3>2, <1>3 DEF CheckEnds
  <2>2. OutcomeTruth'
    BY <2>1, <1>3, ZenonT(40) DEF CheckEnds
  <2>3. PooledClean'
    BY <1>3 DEF CheckEnds
  <2>4. AcquireStage'
    BY <1>3 DEF CheckEnds
  <2>5. BeginStage'
    BY <1>3 DEF CheckEnds
  <2>6. BodyStage'
    BY <1>3 DEF CheckEnds
  <2>7. CommitStage'
    BY <1>3 DEF CheckEnds
  <2>8. DoneStage'
    BY <1>3 DEF CheckEnds
  <2>9. SeamFlags'
    BY <1>3, ZenonT(40) DEF CheckEnds
  <2> QED BY ONLY <2>1, <2>2, <2>3, <2>4, <2>5, <2>6, <2>7, <2>8, <2>9 DEF PgInv
<1>4. ASSUME BeginEnds PROVE PgInv'
  <2>1. PgTypeOK'
    <3>1. CASE conn.reply = "ok"
      BY ONLY PgTypeOK, <1>4, <3>1, MaxStatements \in Nat, ZenonT(40) DEF PgTypeOK, SeamResults, BeginEnds, SeamEnds, DropConnection
    <3>2. CASE conn.reply # "ok"
      BY ONLY PgTypeOK, <1>4, <3>2, MaxStatements \in Nat, ZenonT(40) DEF PgTypeOK, SeamResults, BeginEnds, SeamEnds, DropConnection
    <3> QED BY ONLY <3>1, <3>2, <1>4 DEF BeginEnds
  <2>2. OutcomeTruth'
    BY <2>1, <1>4, ZenonT(40) DEF BeginEnds
  <2>3. PooledClean'
    BY <1>4 DEF BeginEnds
  <2>4. AcquireStage'
    BY <1>4 DEF BeginEnds
  <2>5. BeginStage'
    BY <1>4 DEF BeginEnds
  <2>6. BodyStage'
    BY <1>4, ZenonT(40) DEF BeginEnds
  <2>7. CommitStage'
    BY <1>4, ZenonT(40) DEF BeginEnds
  <2>8. DoneStage'
    BY <1>4 DEF BeginEnds
  <2>9. SeamFlags'
    <3>1. SeamFlags!1'
      BY <1>4, ZenonT(40) DEF BeginEnds
    <3>2. SeamFlags!2'
      BY <1>4 DEF BeginEnds
    <3>3. SeamFlags!3'
      BY <1>4 DEF BeginEnds
    <3>4. SeamFlags!4'
      BY <1>4 DEF BeginEnds
    <3>5. SeamFlags!5'
      <4>1. seam.statements = 0
        BY <1>4 DEF BeginEnds
      <4>2. seam'.statements = seam.statements
        BY ONLY PgTypeOK, <1>4 DEF PgTypeOK, BeginEnds, SeamEnds
      <4> QED BY ONLY <4>1, <4>2
    <3> QED BY ONLY <3>1, <3>2, <3>3, <3>4, <3>5 DEF SeamFlags
  <2> QED BY ONLY <2>1, <2>2, <2>3, <2>4, <2>5, <2>6, <2>7, <2>8, <2>9 DEF PgInv
<1>5. ASSUME CommitEnds PROVE PgInv'
  BY <1>5 DEF CommitEnds, ClassifyCommit
<1>6. ASSUME CommitLost PROVE PgInv'
  BY <1>6 DEF CommitLost, ClassifyCommit
<1>7. ASSUME BodyFails PROVE PgInv'
  BY <1>7 DEF BodyFails
<1>8. ASSUME BodyEnds PROVE PgInv'
  BY <1>8 DEF BodyEnds
<1>9. ASSUME CancelTransaction PROVE PgInv'
  BY <1>9, ZenonT(40) DEF CancelTransaction
<1>10. ASSUME NEW ends \in {"answered", "failed", "unproved"}, RunStatement(ends) PROVE PgInv'
  <2>1. PgTypeOK'
    <3> DEFINE more == seam.statements + 1
               said == (ends = "answered")
               wrote == seam.wrote \/ (said /\ ~seam.readOnly)
    <3>1. seam' = [seam EXCEPT !.statements = more, !.proof = said, !.wrote = wrote]
      BY ONLY <1>10 DEF RunStatement
    <3>2. more \in 0..MaxStatements /\ said \in BOOLEAN /\ wrote \in BOOLEAN
      BY ONLY PgTypeOK, <1>10, MaxStatements \in Nat DEF PgTypeOK, RunStatement
    <3> HIDE DEF more, said, wrote
    <3>3. PgTypeOK!2'
      BY ONLY PgTypeOK, <3>1, <3>2 DEF PgTypeOK
    <3>4. PgTypeOK!1'
      BY ONLY PgTypeOK, <1>10 DEF PgTypeOK, RunStatement
    <3> QED BY ONLY PgTypeOK, <3>3, <3>4, <1>10 DEF PgTypeOK, RunStatement
  <2>2. OutcomeTruth'
    BY <2>1, <1>10 DEF RunStatement
  <2>3. PooledClean'
    BY <1>10 DEF RunStatement
  <2>4. AcquireStage'
    BY <1>10 DEF RunStatement
  <2>5. BeginStage'
    BY <1>10 DEF RunStatement
  <2>6. BodyStage'
    BY <1>10, ZenonT(40) DEF RunStatement
  <2>7. CommitStage'
    BY <1>10 DEF RunStatement
  <2>8. DoneStage'
    BY <1>10 DEF RunStatement
  <2>9. SeamFlags'
    BY <1>10 DEF RunStatement
  <2> QED BY ONLY <2>1, <2>2, <2>3, <2>4, <2>5, <2>6, <2>7, <2>8, <2>9 DEF PgInv
<1>11. ASSUME NEW answer \in {"ok", "23505", "40003", "Io"}, ServerRuns(answer) PROVE PgInv'
  <2>1. PgTypeOK'
    <3>1. PgTypeOK!1'
      BY ONLY PgTypeOK, <1>11 DEF PgTypeOK, ServerRuns
    <3>2. durable' \in BOOLEAN
      BY ONLY PgTypeOK, <1>11 DEF PgTypeOK, ServerRuns
    <3> QED BY ONLY PgTypeOK, <3>1, <3>2, <1>11 DEF PgTypeOK, ServerRuns
  <2>2. OutcomeTruth'
    BY <2>1, <1>11 DEF ServerRuns
  <2>3. PooledClean'
    BY <1>11 DEF ServerRuns
  <2>4. AcquireStage'
    BY <1>11 DEF ServerRuns
  <2>5. BeginStage'
    BY <1>11 DEF ServerRuns
  <2>6. BodyStage'
    BY <1>11 DEF ServerRuns
  <2>7. CommitStage'
    BY <1>11 DEF ServerRuns
  <2>8. DoneStage'
    BY <1>11 DEF ServerRuns
  <2>9. SeamFlags'
    <3>1. SeamFlags!1'
      BY <1>11 DEF ServerRuns
    <3>2. SeamFlags!2'
      BY <1>11 DEF ServerRuns
    <3>3. SeamFlags!3'
      BY <1>11 DEF ServerRuns
    <3>4. SeamFlags!4'
      BY <1>11 DEF ServerRuns
    <3>5. SeamFlags!5'
      BY <1>11 DEF ServerRuns
    <3> QED BY ONLY <3>1, <3>2, <3>3, <3>4, <3>5 DEF SeamFlags
  <2> QED BY ONLY <2>1, <2>2, <2>3, <2>4, <2>5, <2>6, <2>7, <2>8, <2>9 DEF PgInv
<1>12. ASSUME ReturnConnection PROVE PgInv'
  BY <1>12, ZenonT(40) DEF ReturnConnection
<1>13. ASSUME SessionEnds PROVE PgInv'
  BY <1>13 DEF SessionEnds
<1> QED
  BY ONLY <1>1, <1>2, <1>3, <1>4, <1>5, <1>6, <1>7, <1>8, <1>9, <1>10, <1>11, <1>12, <1>13 DEF PgBackground

\* The stages a command passes before its transaction, as a set.
LEMMA StageNames ==
    /\ {OpStages[i] : i \in DOMAIN OpStages} =
          {"arguments", "config", "runtime", "signals", "dsn", "connect", "history", "startup", "execute"}
    /\ {OpStages[i] : i \in 2..Len(OpStages)} =
          {"config", "runtime", "signals", "dsn", "connect", "history", "startup", "execute"}
BY DEF OpStages

LEMMA NextStageIs ==
    ASSUME NEW stage \in {"config", "runtime", "signals", "dsn", "connect", "history", "startup"}
    PROVE  NextStage(stage) \in {"runtime", "signals", "dsn", "connect", "history", "startup", "execute"}
<1> DEFINE Hit == {i \in DOMAIN OpStages : OpStages[i] = stage}
<1>1. PICK i \in 2..8 : OpStages[i] = stage
  BY DEF OpStages
<1>2. \A j \in DOMAIN OpStages : OpStages[j] = stage => j = i
  BY <1>1 DEF OpStages
<1>3. DOMAIN OpStages = 1..9
  BY DEF OpStages
<1>4. (CHOOSE j \in DOMAIN OpStages : OpStages[j] = stage) = i
  BY <1>1, <1>2, <1>3
<1>5. NextStage(stage) = OpStages[1 + i]
  BY <1>4 DEF NextStage
<1> QED BY <1>1, <1>5 DEF OpStages

\* What the seam's own steps leave alone: a step is taken by a running seam, and only the
\* caller's steps end it as cancelled or rolled back.
SeamOnly ==
    /\ seam' = seam \/ (seam.at \notin {"off", "done"} /\ seam'.at # "off")
    /\ seam'.readOnly = seam.readOnly
    /\ seam.wrote => seam'.wrote
    /\ seam.at # "check" => seam'.at # "check"
    /\ seam'.at = "commit" /\ seam.at # "check" => seam.at = "commit"
    /\ seam'.result = "committed" => seam.at = "commit" \/ seam.result = "committed"
    /\ seam'.result \in {"cancelled", "rolled_back"} => seam' = seam

LEMMA SeamMoves ==
    ASSUME PgInv,
           \/ \E ok \in BOOLEAN : AcquireEnds(ok) \/ CheckEnds(ok)
           \/ BeginEnds \/ CommitEnds \/ CommitLost
           \/ \E ends \in {"answered", "failed", "unproved"} : RunStatement(ends)
           \/ PgBackground
    PROVE  SeamOnly
<1>0. PgTypeOK /\ SeamFlags
  BY DEF PgInv, OutcomeTruth
<1> USE DEF PgTypeOK, SeamOnly, SeamEnds
<1>1. ASSUME NEW ok \in BOOLEAN, AcquireEnds(ok) PROVE SeamOnly
  BY ONLY <1>0, <1>1 DEF AcquireEnds, SeamFlags
<1>2. ASSUME NEW ok \in BOOLEAN, CheckEnds(ok) PROVE SeamOnly
  BY ONLY <1>0, <1>2 DEF CheckEnds, SeamFlags
<1>3. ASSUME BeginEnds PROVE SeamOnly
  BY ONLY <1>0, <1>3, ZenonT(40) DEF BeginEnds, SeamFlags
<1>4. ASSUME CommitEnds PROVE SeamOnly
  BY ONLY <1>0, <1>4 DEF CommitEnds, SeamFlags, ClassifyCommit
<1>5. ASSUME CommitLost PROVE SeamOnly
  BY ONLY <1>0, <1>5 DEF CommitLost, SeamFlags, ClassifyCommit
<1>6. ASSUME NEW ends \in {"answered", "failed", "unproved"}, RunStatement(ends) PROVE SeamOnly
  BY ONLY <1>0, <1>6 DEF RunStatement, SeamFlags
<1>7. ASSUME PgBackground PROVE SeamOnly
  BY ONLY <1>0, <1>7 DEF PgBackground, ServerRuns, ReturnConnection, SessionEnds, SeamFlags
<1> QED BY <1>1, <1>2, <1>3, <1>4, <1>5, <1>6, <1>7

\* Every step of the command, of a feature's transaction or of the seam keeps the claims.
LEMMA OpKeeps ==
    ASSUME OpInv, [OpNext]_opVars, MaxStatements \in Nat
    PROVE  OpInv'
<1>0. OpTypeOK /\ PgInv /\ CommandStage /\ CommandSays
  BY DEF OpInv
<1>a. PgTypeOK /\ SeamFlags
  BY <1>0 DEF PgInv, OutcomeTruth
<1> USE DEF OpTypeOK, CommandStage, CommandSays
<1>1. ASSUME NEW command \in {"inspect", "failed", "unhandled", "redrive", "discard"},
             NEW faults \in {{}, {"id"}, {"cursor"}}, OpArguments(command, faults)
      PROVE  OpInv'
  <2>1. PgInv' /\ seam' = seam
    BY ONLY <1>0, <1>1 DEF OpArguments, pgVars, PgInv, OutcomeTruth, PooledClean, PgTypeOK, AcquireStage, BeginStage,
       BodyStage, CommitStage, DoneStage, SeamFlags, Untouched
  <2>2. (OpTypeOK /\ CommandStage /\ CommandSays)'
    BY ONLY <1>0, <1>1, <2>1, StageNames DEF OpArguments
  <2> QED BY ONLY <2>1, <2>2 DEF OpInv
<1>2. ASSUME NEW result \in {"ok", "refused", "timeout", "interrupted"}, OpStage(result) PROVE OpInv'
  <2>1. PgInv' /\ seam' = seam
    BY ONLY <1>0, <1>2 DEF OpStage, pgVars, PgInv, OutcomeTruth, PooledClean, PgTypeOK, AcquireStage, BeginStage,
       BodyStage, CommitStage, DoneStage, SeamFlags, Untouched
  <2>2. op.at \in {"config", "runtime", "signals", "dsn", "connect", "history", "startup"}
    BY ONLY <1>2, StageNames DEF OpStage
  <2>3. NextStage(op.at) \in {"runtime", "signals", "dsn", "connect", "history", "startup", "execute"}
    BY ONLY <2>2, NextStageIs
  <2>4. (OpTypeOK /\ CommandStage /\ CommandSays)'
    BY ONLY <1>0, <1>2, <2>1, <2>2, <2>3, StageNames, ZenonT(40) DEF OpStage, Reported, FailedOutcome
  <2> QED BY ONLY <2>1, <2>4 DEF OpInv
<1>3. ASSUME NEW pending \in BOOLEAN, OpInvoke(pending) PROVE OpInv'
  <2>1. CASE pending
    <3>1. PgInv' /\ seam' = seam
      BY ONLY <1>0, <1>3, <2>1 DEF OpInvoke, pgVars, PgInv, OutcomeTruth, PooledClean, PgTypeOK, AcquireStage,
         BeginStage, BodyStage, CommitStage, DoneStage, SeamFlags, Untouched
    <3>2. (OpTypeOK /\ CommandStage /\ CommandSays)'
      BY ONLY <1>0, <1>3, <2>1, <3>1, StageNames, ZenonT(40) DEF OpInvoke, Reported, FailedOutcome
    <3> QED BY ONLY <3>1, <3>2 DEF OpInv
  <2>2. CASE ~pending
    <3>1. StartTransaction(~op.mutation) /\ op' = [op EXCEPT !.at = "running"] /\ op.at = "execute"
      BY ONLY <1>3, <2>2 DEF OpInvoke
    <3>2. PgInv'
      BY ONLY <1>0, <3>1, SeamStep, MaxStatements \in Nat
    <3>3. seam'.at = "acquire" /\ seam'.readOnly = ~op.mutation /\ seam'.result = "none"
      BY ONLY <1>a, <3>1 DEF StartTransaction, PgTypeOK, SeamFlags
    <3>4. (OpTypeOK /\ CommandStage /\ CommandSays)'
      BY ONLY <1>0, <3>1, <3>3, StageNames
    <3> QED BY ONLY <3>2, <3>4 DEF OpInv
  <2> QED BY ONLY <2>1, <2>2
<1>4. ASSUME OpCut PROVE OpInv'
  <2>1. PgInv'
    BY ONLY <1>0, <1>4, SeamStep, MaxStatements \in Nat DEF OpCut
  <2>2. seam'.at = "done" /\ seam'.result = "cancelled"
    BY ONLY <1>a, <1>4 DEF OpCut, CancelTransaction, SeamEnds, PgTypeOK
  <2>3. (OpTypeOK /\ CommandStage /\ CommandSays)'
    BY ONLY <1>0, <1>4, <2>2, StageNames DEF OpCut, Reported, FailedOutcome
  <2> QED BY ONLY <2>1, <2>3 DEF OpInv
<1>5. ASSUME OpWorked PROVE OpInv'
  <2>1. PgInv'
    BY ONLY <1>0, <1>5, SeamStep, MaxStatements \in Nat DEF OpWorked
  <2>2. /\ seam'.at = "commit" /\ seam'.result = seam.result /\ seam'.wrote = seam.wrote
        /\ seam'.readOnly = seam.readOnly /\ seam.result = "none"
        /\ ~seam.readOnly => seam.wrote
    BY ONLY <1>a, <1>5 DEF OpWorked, BodyEnds, PgTypeOK, SeamFlags
  <2>3. (OpTypeOK /\ CommandStage /\ CommandSays)'
    BY ONLY <1>0, <1>5, <2>2, StageNames DEF OpWorked
  <2> QED BY ONLY <2>1, <2>3 DEF OpInv
<1>6. ASSUME OpAnswered PROVE OpInv'
  <2>1. PgInv' /\ seam' = seam
    BY ONLY <1>0, <1>6 DEF OpAnswered, pgVars, PgInv, OutcomeTruth, PooledClean, PgTypeOK, AcquireStage, BeginStage,
       BodyStage, CommitStage, DoneStage, SeamFlags, Untouched
  <2>2. seam.result \in {"committed", "acquire_failed", "begin_failed", "commit_failed", "commit_unknown"}
    BY ONLY <1>0, <1>a, <1>6 DEF OpAnswered, PgTypeOK, SeamResults, SeamFlags
  <2>3. (OpTypeOK /\ CommandStage /\ CommandSays)'
    BY ONLY <1>0, <1>6, <2>1, <2>2, StageNames DEF OpAnswered, Reported
  <2> QED BY ONLY <2>1, <2>3 DEF OpInv
<1>7. ASSUME NEW cause \in {"missing", "stale", "conflict", "database"}, OpRefused(cause) PROVE OpInv'
  <2>1. PgInv'
    BY ONLY <1>0, <1>7, SeamStep, MaxStatements \in Nat DEF OpRefused
  <2>2. seam'.at = "done" /\ seam'.result = "rolled_back"
    BY ONLY <1>a, <1>7 DEF OpRefused, BodyFails, SeamEnds, PgTypeOK
  <2>3. (OpTypeOK /\ CommandStage /\ CommandSays)'
    BY ONLY <1>0, <1>7, <2>2, StageNames DEF OpRefused, Reported
  <2> QED BY ONLY <2>1, <2>3 DEF OpInv
<1>8. ASSUME NEW ok \in BOOLEAN, OpClose(ok) \/ OpWrite(ok) PROVE OpInv'
  <2>1. PgInv' /\ seam' = seam
    BY ONLY <1>0, <1>8 DEF OpClose, OpWrite, pgVars, PgInv, OutcomeTruth, PooledClean, PgTypeOK, AcquireStage,
       BeginStage, BodyStage, CommitStage, DoneStage, SeamFlags, Untouched
  <2>2. (OpTypeOK /\ CommandStage /\ CommandSays)'
    BY ONLY <1>0, <1>8, <2>1, StageNames, ZenonT(40) DEF OpClose, OpWrite
  <2> QED BY ONLY <2>1, <2>2 DEF OpInv
<1>9. ASSUME FeatureCalls PROVE OpInv'
  <2>1. PgInv'
    BY ONLY <1>0, <1>9, SeamStep, MaxStatements \in Nat DEF FeatureCalls
  <2>2. (OpTypeOK /\ CommandStage /\ CommandSays)'
    BY ONLY <1>0, <1>9 DEF FeatureCalls
  <2> QED BY ONLY <2>1, <2>2 DEF OpInv
<1>10. ASSUME SeamSteps PROVE OpInv'
  <2>1. PgInv'
    BY ONLY <1>0, <1>10, SeamStep, MaxStatements \in Nat DEF SeamSteps
  <2>2. SeamOnly
    BY ONLY <1>0, <1>10, SeamMoves DEF SeamSteps
  <2>3. op' = op
    BY ONLY <1>10 DEF SeamSteps
  <2>4. OpTypeOK' /\ CommandSays'
    BY ONLY <1>0, <1>a, <2>2, <2>3 DEF SeamOnly, SeamFlags
  <2>5. CommandStage'
    BY ONLY <1>0, <1>a, <2>2, <2>3 DEF SeamOnly, SeamFlags
  <2> QED BY ONLY <2>1, <2>4, <2>5 DEF OpInv
<1>11. CASE UNCHANGED opVars
  BY ONLY <1>0, <1>11 DEF OpInv, opVars, pgVars, PgInv, OutcomeTruth, PooledClean, PgTypeOK, AcquireStage,
     BeginStage, BodyStage, CommitStage, DoneStage, SeamFlags, Untouched
<1> QED
  BY <1>1, <1>2, <1>3, <1>4, <1>5, <1>6, <1>7, <1>8, <1>9, <1>10, <1>11 DEF OpNext

\* The receipt a person acts on is true whenever it is read, for closures of any number of
\* statements: "failed" and the refusals mean that nothing was and nothing will be committed,
\* success means it was, and no open transaction waits in the pool, wherever the command is cut
\* (jobs-worker/src/operator.rs: run, bounded; infra-postgres/src/transaction.rs: transaction).
THEOREM ReceiptSafe == OpSpec => []OperatorReceipt
<1>1. OpInit => OpInv
  <2> SUFFICES ASSUME OpInit PROVE OpInv
    OBVIOUS
  <2>1. OpTypeOK /\ CommandStage /\ CommandSays
    BY StageNames DEF OpInit, PgInit, OpTypeOK, CommandStage, CommandSays
  <2>2. PgTypeOK
    <3>1. 0 \in 0..MaxStatements
      BY PgTransactionAssumption
    <3>2. PgTypeOK!1 /\ durable \in BOOLEAN
      BY DEF OpInit, PgInit, PgTypeOK
    <3>3. PgTypeOK!2
      BY <3>1 DEF OpInit, PgInit, PgTypeOK, SeamResults
    <3> QED BY <3>2, <3>3 DEF PgTypeOK
  <2>3. PgInv
    BY <2>2 DEF OpInit, PgInit, PgInv, OutcomeTruth, PooledClean, AcquireStage, BeginStage, BodyStage, CommitStage,
       DoneStage, SeamFlags, Untouched
  <2> QED BY <2>1, <2>3 DEF OpInv
<1>2. OpInv /\ [OpNext]_opVars => OpInv'
  BY OpKeeps, PgTransactionAssumption
<1>3. OpInv => OperatorReceipt
  BY DEF OpInv, OperatorReceipt, PgInv, CommandSays, OutcomeTruth, AcquireStage, Untouched
<1> QED BY <1>1, <1>2, <1>3, PTL DEF OpSpec

-----------------------------------------------------------------------------
(* The schema a release finds *)

MgSpec == MgInit /\ [][MgNext]_mgVars

\* What the history names is in the schema.
Recorded == \A v \in MgVersions : hist[v] # "none" => schema[v] = "built"

\* A statement, and everything from the reading of the history to its last row, belongs to
\* the session that holds the advisory lock.
LockOwns(m) ==
    /\ adlock = m => mrun[m].session
    /\ \/ mrun[m].building # 0 \/ mrun[m].stmt # "none"
       \/ mrun[m].at \in {"history", "next", "build", "row"}
       => adlock = m
    /\ mrun[m].at \in {"idle", "connect"} => ~mrun[m].session
    /\ mrun[m].at = "lock" => mrun[m].session

\* A build was begun in a database without an invalid index, and its row follows a whole one.
BuildSound(m) ==
    /\ mrun[m].at \in {"history", "next"} => mrun[m].building = 0 /\ mrun[m].stmt = "none"
    /\ mrun[m].at \in {"build", "row"} \/ mrun[m].stmt # "none" => mrun[m].building \in MgVersions
    /\ mrun[m].stmt = "sent" => \A v \in MgVersions : schema[v] # "invalid"
    /\ mrun[m].stmt = "done" => schema[mrun[m].building] = "built"
    /\ mrun[m].at = "row" => schema[mrun[m].building] = "built" /\ mrun[m].stmt = "none"

RunTold(m) ==
    /\ \A v \in mrun[m].applied : hist[v] # "none"
    /\ mrun[m].result \in {"success", "no_change"} => \A v \in Embedded[m] : schema[v] = "built"

MgInv ==
    /\ MgTypeOK /\ Recorded
    /\ \A m \in Runners : LockOwns(m) /\ BuildSound(m) /\ RunTold(m)

\* Versions grow into the history and the schema, and never leave them.
Grows ==
    \A v \in MgVersions : /\ hist[v] # "none" => hist'[v] # "none"
                          /\ schema[v] = "built" => schema'[v] = "built"

\* A runner that did not move keeps its claims: whoever adds an invalid index holds the lock.
LEMMA OtherRun ==
    ASSUME MgInv, NEW k \in Runners, mrun'[k] = mrun[k], Grows,
           adlock' = k <=> adlock = k,
           adlock # k \/ \A v \in MgVersions : schema'[v] = "invalid" => schema[v] = "invalid"
    PROVE  LockOwns(k)' /\ BuildSound(k)' /\ RunTold(k)'
<1>0. MgTypeOK /\ LockOwns(k) /\ BuildSound(k) /\ RunTold(k)
  BY DEF MgInv
<1>1. LockOwns(k)'
  BY <1>0 DEF LockOwns
<1>2. mrun[k].applied \subseteq MgVersions /\ Embedded[k] \subseteq MgVersions
  BY <1>0 DEF MgTypeOK, MgVersions
<1>3. RunTold(k)'
  BY <1>0, <1>2 DEF RunTold, Grows
<1>4. BuildSound(k)'
  BY <1>0 DEF BuildSound, LockOwns, Grows
<1> QED BY <1>1, <1>3, <1>4

\* The next migration is one of the runner's own, and there is none only when the history
\* names them all.
LEMMA NextIs ==
    ASSUME MgInv, NEW m \in Runners
    PROVE  /\ NextVersion(m) # 0 =>
                NextVersion(m) \in MgVersions /\ hist[NextVersion(m)] = "none"
           /\ NextVersion(m) = 0 => \A v \in Embedded[m] : hist[v] # "none"
<1> DEFINE left == PendingOf(Embedded[m]) \ mrun[m].applied
<1>1. left \subseteq Embedded[m] /\ left \in SUBSET Nat /\ 0 \notin left /\ \A v \in left : hist[v] = "none"
  BY MigrationsAssumption DEF PendingOf
<1>2. CASE left = {}
  <2>1. NextVersion(m) = 0
    BY <1>2 DEF NextVersion
  <2>2. \A v \in Embedded[m] : hist[v] # "none" \/ v \in mrun[m].applied
    BY <1>2 DEF PendingOf
  <2> QED BY <2>1, <2>2 DEF MgInv, RunTold
<1>3. CASE left # {}
  <2>1. PICK n \in left : \A w \in left : n <= w
    BY <1>1, <1>3, LeastNat
  <2>2. NextVersion(m) \in left
    BY <1>3, <2>1 DEF NextVersion
  <2> QED BY <1>1, <2>2 DEF MgVersions
<1> QED BY <1>2, <1>3

\* A list of checks that admits found none of its conditions to hold.
LEMMA FirstOk ==
    ASSUME NEW checks, NEW n \in Nat, DOMAIN checks = 1..n, \A i \in 1..n : checks[i][2] # "ok",
           First(checks) = "ok"
    PROVE  \A i \in 1..n : ~checks[i][1]
<1> DEFINE hit == {i \in DOMAIN checks : checks[i][1]}
<1> SUFFICES ASSUME hit # {} PROVE FALSE
  OBVIOUS
<1>1. hit \in SUBSET Nat /\ hit \subseteq 1..n
  OBVIOUS
<1>2. PICK k \in hit : \A j \in hit : k <= j
  BY <1>1, LeastNat
<1>3. (CHOOSE i \in hit : \A j \in hit : i <= j) \in hit
  BY <1>2
<1>4. First(checks) = checks[CHOOSE i \in hit : \A j \in hit : i <= j][2]
  BY DEF First
<1> QED BY <1>1, <1>3, <1>4

\* The verdict of a list of checks is "ok" or that of one of them.
LEMMA FirstIn ==
    ASSUME NEW checks, NEW n \in Nat, DOMAIN checks = 1..n
    PROVE  First(checks) = "ok" \/ \E i \in 1..n : First(checks) = checks[i][2]
<1> DEFINE hit == {i \in DOMAIN checks : checks[i][1]}
<1>1. CASE hit = {}
  BY <1>1 DEF First
<1>2. CASE hit # {}
  <2>1. hit \in SUBSET Nat /\ hit \subseteq 1..n
    OBVIOUS
  <2>2. PICK k \in hit : \A j \in hit : k <= j
    BY <1>2, <2>1, LeastNat
  <2>3. (CHOOSE i \in hit : \A j \in hit : i <= j) \in hit
    BY <2>2
  <2>4. First(checks) = checks[CHOOSE i \in hit : \A j \in hit : i <= j][2]
    BY <1>2 DEF First
  <2> QED BY <2>1, <2>3, <2>4
<1> QED BY <1>1, <1>2

\* A startup check that admits the history found nothing pending.
LEMMA VerifiedIs ==
    ASSUME NEW embedded, VerifyHistory(embedded, "answered") = "ok"
    PROVE  PendingOf(embedded) = {}
<1> DEFINE checks == << <<"answered" = "dirty", "Mismatch">>, <<"answered" = "unavailable", "Unavailable">>,
             <<"answered" = "answered" /\ HistoryDiverges(embedded), "Mismatch">>,
             <<"answered" = "undefined_table" \/ PendingOf(embedded) # {}, "Pending">> >>
<1>1. DOMAIN checks = 1..4 /\ \A i \in 1..4 : checks[i][2] # "ok"
  OBVIOUS
<1>2. checks[4][1] <=> PendingOf(embedded) # {}
  OBVIOUS
<1>3. First(checks) = "ok"
  BY DEF VerifyHistory
<1> HIDE DEF checks
<1>4. \A i \in 1..4 : ~checks[i][1]
  BY <1>1, <1>3, FirstOk
<1> QED BY <1>2, <1>4

\* A runner as it stands
MgRun == [at: {"idle", "connect", "lock", "history", "next", "build", "row", "end"},
          session: BOOLEAN, building: MgVersions \cup {0},
          stmt: {"none", "sent", "working", "done", "failed"},
          applied: SUBSET MgVersions,
          result: {"none", "success", "no_change", "config", "runtime", "signals",
                   "connect", "lock", "history", "execute", "deadline", "interrupted"}]

\* One runner moves: what is left to show is about its new self, the history and the schema.
LEMMA RunMoves ==
    ASSUME MgInv, NEW m \in Runners, NEW r \in MgRun, mrun' = [mrun EXCEPT ![m] = r],
           hist' \in [MgVersions -> {"none", "applied", "changed"}],
           schema' \in [MgVersions -> {"none", "invalid", "built"}],
           cuts' \in 0..MaxCuts, Recorded', Grows,
           adlock' = adlock \/ (adlock = NoRunner /\ adlock' = m) \/ (adlock = m /\ adlock' = NoRunner),
           adlock = m \/ schema' = schema,
           mrun'[m] = r => LockOwns(m)' /\ BuildSound(m)' /\ RunTold(m)'
    PROVE  MgInv'
<1>0. MgTypeOK /\ mrun \in [Runners -> MgRun] /\ NoRunner \notin Runners
  BY MigrationsAssumption DEF MgInv, MgTypeOK, MgRun
<1>1. mrun' \in [Runners -> MgRun] /\ mrun'[m] = r /\ \A k \in Runners : k # m => mrun'[k] = mrun[k]
  BY <1>0
<1>2. MgTypeOK'
  BY <1>0, <1>1 DEF MgTypeOK, MgRun
<1>3. ASSUME NEW k \in Runners, k # m PROVE LockOwns(k)' /\ BuildSound(k)' /\ RunTold(k)'
  <2>1. adlock' = k <=> adlock = k
    BY <1>0, <1>3
  <2>2. adlock # k \/ \A v \in MgVersions : schema'[v] = "invalid" => schema[v] = "invalid"
    BY <1>3
  <2> QED BY <1>1, <1>3, <2>1, <2>2, OtherRun
<1> QED BY <1>1, <1>2, <1>3 DEF MgInv

\* A run that fails keeps what it has on the server.
LEMMA RunFails ==
    ASSUME MgInv, NEW m \in Runners,
           NEW result \in {"config", "runtime", "signals", "connect", "lock", "history", "execute", "deadline",
                           "interrupted"},
           MgEnds(m, result), UNCHANGED <<hist, schema, adlock>>, cuts' \in 0..MaxCuts
    PROVE  MgInv'
<1> DEFINE r == [mrun[m] EXCEPT !.at = "end", !.result = result]
<1>0. MgTypeOK /\ mrun[m] \in MgRun /\ LockOwns(m) /\ BuildSound(m) /\ RunTold(m) /\ Recorded
  BY DEF MgInv, MgTypeOK, MgRun
<1>1. /\ r \in MgRun /\ r.at = "end" /\ r.result = result /\ r.session = mrun[m].session
      /\ r.building = mrun[m].building /\ r.stmt = mrun[m].stmt /\ r.applied = mrun[m].applied
  BY <1>0 DEF MgRun
<1>2. mrun' = [mrun EXCEPT ![m] = r]
  BY DEF MgEnds
<1> HIDE DEF r
<1>3. Recorded' /\ Grows
  BY <1>0 DEF Recorded, Grows
<1>4. mrun'[m] = r => LockOwns(m)' /\ BuildSound(m)' /\ RunTold(m)'
  BY <1>0, <1>1 DEF LockOwns, BuildSound, RunTold
<1> QED BY <1>0, <1>1, <1>2, <1>3, <1>4, RunMoves DEF MgTypeOK

\* Every step of a runner, of its session in the server or of an operator keeps the claims.
LEMMA MgKeeps ==
    ASSUME MgInv, [MgNext]_mgVars
    PROVE  MgInv'
<1>0. MgTypeOK /\ Recorded /\ MaxCuts \in Nat /\ NoRunner \notin Runners
  BY MigrationsAssumption DEF MgInv
<1>a. \A m \in Runners : LockOwns(m) /\ BuildSound(m) /\ RunTold(m) /\ Embedded[m] \subseteq MgVersions
  BY DEF MgInv, MgVersions
<1>b. 0 \notin MgVersions
  BY MigrationsAssumption DEF MgVersions
<1>c. \A m \in Runners : mrun[m] \in MgRun
  BY <1>0 DEF MgTypeOK, MgRun
<1>1. ASSUME NEW m \in Runners, NEW refusal \in {"none", "config", "runtime", "signals"},
            StartRun(m, refusal) PROVE MgInv'
  <2>1. CASE ~(refusal = "none")
    <3>1. MgEnds(m, refusal) /\ UNCHANGED <<hist, schema, adlock>> /\ cuts' = cuts
      BY <1>1, <2>1 DEF StartRun
    <3> QED BY <2>1, <3>1, <1>0, RunFails DEF MgTypeOK
  <2>2. CASE refusal = "none"
    <3> DEFINE r == [mrun[m] EXCEPT !.at = "connect", !.result = "none", !.applied = {}]
    <3>1. mrun' = [mrun EXCEPT ![m] = r]
      BY <1>1, <2>2 DEF StartRun
    <3>2. /\ r \in MgRun /\ r.at = "connect" /\ r.session = mrun[m].session /\ r.building = mrun[m].building
          /\ r.stmt = mrun[m].stmt /\ r.applied = {} /\ r.result = "none"
      BY <1>1, <1>c, <2>2 DEF MgRun, StartRun
    <3> HIDE DEF r
    <3>3. Recorded' /\ Grows
      BY <1>1, <1>0, <1>a, <2>2 DEF MgTypeOK, Recorded, Grows, BuildSound, StartRun
    <3>4. mrun'[m] = r => LockOwns(m)' /\ BuildSound(m)' /\ RunTold(m)'
      BY <1>1, <1>0, <1>a, <1>b, <3>2, <3>3, <2>2 DEF MgTypeOK, Recorded, Grows, LockOwns, BuildSound, RunTold, StartRun
    <3>5. /\ hist' \in [MgVersions -> {"none", "applied", "changed"}]
          /\ schema' \in [MgVersions -> {"none", "invalid", "built"}]
          /\ cuts' \in 0..MaxCuts
      BY <1>1, <1>0, <1>a, <2>2 DEF MgTypeOK, BuildSound, StartRun
    <3>6. /\ adlock' = adlock \/ (adlock = NoRunner /\ adlock' = m) \/ (adlock = m /\ adlock' = NoRunner)
          /\ adlock = m \/ schema' = schema
      BY <1>1, <1>0, <1>a, <2>2 DEF LockOwns, StartRun
    <3> QED BY <3>1, <3>2, <3>3, <3>4, <3>5, <3>6, RunMoves
  <2> QED BY <2>1, <2>2
<1>2. ASSUME NEW m \in Runners, NEW ok \in BOOLEAN, ConnectRun(m, ok) PROVE MgInv'
  <2>1. CASE ~(ok)
    <3>1. MgEnds(m, "connect") /\ UNCHANGED <<hist, schema, adlock>> /\ cuts' = cuts
      BY <1>2, <2>1 DEF ConnectRun
    <3> QED BY <2>1, <3>1, <1>0, RunFails DEF MgTypeOK
  <2>2. CASE ok
    <3> DEFINE r == [mrun[m] EXCEPT !.at = "lock", !.session = TRUE]
    <3>1. mrun' = [mrun EXCEPT ![m] = r]
      BY <1>2, <2>2 DEF ConnectRun
    <3>2. /\ r \in MgRun /\ r.at = "lock" /\ r.session = TRUE /\ r.building = mrun[m].building
          /\ r.stmt = mrun[m].stmt /\ r.applied = mrun[m].applied /\ r.result = mrun[m].result
      BY <1>2, <1>c, <2>2 DEF MgRun, ConnectRun
    <3> HIDE DEF r
    <3>3. Recorded' /\ Grows
      BY <1>2, <1>0, <1>a, <2>2 DEF MgTypeOK, Recorded, Grows, BuildSound, ConnectRun
    <3>4. mrun'[m] = r => LockOwns(m)' /\ BuildSound(m)' /\ RunTold(m)'
      BY <1>2, <1>0, <1>a, <1>b, <3>2, <3>3, <2>2 DEF MgTypeOK, Recorded, Grows, LockOwns, BuildSound, RunTold, ConnectRun
    <3>5. /\ hist' \in [MgVersions -> {"none", "applied", "changed"}]
          /\ schema' \in [MgVersions -> {"none", "invalid", "built"}]
          /\ cuts' \in 0..MaxCuts
      BY <1>2, <1>0, <1>a, <2>2 DEF MgTypeOK, BuildSound, ConnectRun
    <3>6. /\ adlock' = adlock \/ (adlock = NoRunner /\ adlock' = m) \/ (adlock = m /\ adlock' = NoRunner)
          /\ adlock = m \/ schema' = schema
      BY <1>2, <1>0, <1>a, <2>2 DEF LockOwns, ConnectRun
    <3> QED BY <3>1, <3>2, <3>3, <3>4, <3>5, <3>6, RunMoves
  <2> QED BY <2>1, <2>2
<1>3. ASSUME NEW m \in Runners, LockRun(m) PROVE MgInv'
  <2>1. CASE ~(adlock = NoRunner)
    <3>1. MgEnds(m, "lock") /\ UNCHANGED <<hist, schema, adlock>> /\ cuts' = cuts
      BY <1>3, <2>1 DEF LockRun
    <3> QED BY <2>1, <3>1, <1>0, RunFails DEF MgTypeOK
  <2>2. CASE adlock = NoRunner
    <3> DEFINE r == [mrun[m] EXCEPT !.at = "history"]
    <3>1. mrun' = [mrun EXCEPT ![m] = r]
      BY <1>3, <2>2 DEF LockRun
    <3>2. /\ r \in MgRun /\ r.at = "history" /\ r.session = mrun[m].session /\ r.building = mrun[m].building
          /\ r.stmt = mrun[m].stmt /\ r.applied = mrun[m].applied /\ r.result = mrun[m].result
      BY <1>3, <1>c, <2>2 DEF MgRun, LockRun
    <3> HIDE DEF r
    <3>3. Recorded' /\ Grows
      BY <1>3, <1>0, <1>a, <2>2 DEF MgTypeOK, Recorded, Grows, BuildSound, LockRun
    <3>4. mrun'[m] = r => LockOwns(m)' /\ BuildSound(m)' /\ RunTold(m)'
      BY <1>3, <1>0, <1>a, <1>b, <3>2, <3>3, <2>2 DEF MgTypeOK, Recorded, Grows, LockOwns, BuildSound, RunTold, LockRun
    <3>5. /\ hist' \in [MgVersions -> {"none", "applied", "changed"}]
          /\ schema' \in [MgVersions -> {"none", "invalid", "built"}]
          /\ cuts' \in 0..MaxCuts
      BY <1>3, <1>0, <1>a, <2>2 DEF MgTypeOK, BuildSound, LockRun
    <3>6. /\ adlock' = adlock \/ (adlock = NoRunner /\ adlock' = m) \/ (adlock = m /\ adlock' = NoRunner)
          /\ adlock = m \/ schema' = schema
      BY <1>3, <1>0, <1>a, <2>2 DEF LockOwns, LockRun
    <3> QED BY <3>1, <3>2, <3>3, <3>4, <3>5, <3>6, RunMoves
  <2> QED BY <2>1, <2>2
<1>4. ASSUME NEW m \in Runners, NEW failure \in BookkeepingStages \cup {"none"}, ReadHistory(m, failure)
      PROVE  MgInv'
  <2>1. CASE ~(failure = "none" /\ ~HistoryDiverges(Embedded[m]))
    <3>1. PICK stage \in BookkeepingStages : MgEnds(m, stage)
      BY <1>4, <2>1 DEF ReadHistory, BookkeepingStages
    <3>2. UNCHANGED <<hist, schema, adlock>> /\ cuts' = cuts
      BY <1>4 DEF ReadHistory
    <3> QED BY <3>1, <3>2, <1>0, RunFails DEF MgTypeOK, BookkeepingStages
  <2>2. CASE failure = "none" /\ ~HistoryDiverges(Embedded[m])
    <3> DEFINE r == [mrun[m] EXCEPT !.at = "next"]
    <3>1. mrun' = [mrun EXCEPT ![m] = r]
      BY <1>4, <2>2 DEF ReadHistory
    <3>2. /\ r \in MgRun /\ r.at = "next" /\ r.session = mrun[m].session /\ r.building = mrun[m].building
          /\ r.stmt = mrun[m].stmt /\ r.applied = mrun[m].applied /\ r.result = mrun[m].result
      BY <1>4, <1>c, <2>2 DEF MgRun, ReadHistory
    <3> HIDE DEF r
    <3>3. Recorded' /\ Grows
      BY <1>4, <1>0, <1>a, <2>2 DEF MgTypeOK, Recorded, Grows, BuildSound, ReadHistory
    <3>4. mrun'[m] = r => LockOwns(m)' /\ BuildSound(m)' /\ RunTold(m)'
      BY <1>4, <1>0, <1>a, <1>b, <3>2, <3>3, <2>2 DEF MgTypeOK, Recorded, Grows, LockOwns, BuildSound, RunTold, ReadHistory
    <3>5. /\ hist' \in [MgVersions -> {"none", "applied", "changed"}]
          /\ schema' \in [MgVersions -> {"none", "invalid", "built"}]
          /\ cuts' \in 0..MaxCuts
      BY <1>4, <1>0, <1>a, <2>2 DEF MgTypeOK, BuildSound, ReadHistory
    <3>6. /\ adlock' = adlock \/ (adlock = NoRunner /\ adlock' = m) \/ (adlock = m /\ adlock' = NoRunner)
          /\ adlock = m \/ schema' = schema
      BY <1>4, <1>0, <1>a, <2>2 DEF LockOwns, ReadHistory
    <3> QED BY <3>1, <3>2, <3>3, <3>4, <3>5, <3>6, RunMoves
  <2> QED BY <2>1, <2>2
<1>5. ASSUME NEW m \in Runners, NEW ok \in BOOLEAN, ApplyInTransaction(m, ok) PROVE MgInv'
  <2>1. CASE ~(ok)
    <3>1. MgEnds(m, "execute") /\ UNCHANGED <<hist, schema, adlock>> /\ cuts' = cuts
      BY <1>5, <2>1 DEF ApplyInTransaction
    <3> QED BY <2>1, <3>1, <1>0, RunFails DEF MgTypeOK
  <2>2. CASE ok
    <3> DEFINE r == [mrun[m] EXCEPT !.applied = mrun[m].applied \cup {NextVersion(m)}]
    <3>1. mrun' = [mrun EXCEPT ![m] = r]
      BY <1>5, <2>2 DEF ApplyInTransaction
    <3>2. /\ r \in MgRun /\ r.at = mrun[m].at /\ r.session = mrun[m].session /\ r.building = mrun[m].building
          /\ r.stmt = mrun[m].stmt /\ r.applied = mrun[m].applied \cup {NextVersion(m)} /\ r.result = mrun[m].result
      BY <1>5, <1>c, <2>2, NextIs DEF MgRun, ApplyInTransaction
    <3> HIDE DEF r
    <3>3. Recorded' /\ Grows
      BY <1>5, <1>0, <1>a, <2>2, NextIs DEF MgTypeOK, Recorded, Grows, BuildSound, ApplyInTransaction
    <3>4. mrun'[m] = r => LockOwns(m)' /\ BuildSound(m)' /\ RunTold(m)'
      BY <1>5, <1>0, <1>a, <1>b, <3>2, <3>3, <2>2, NextIs DEF MgTypeOK, Recorded, Grows, LockOwns, BuildSound, RunTold, ApplyInTransaction
    <3>5. /\ hist' \in [MgVersions -> {"none", "applied", "changed"}]
          /\ schema' \in [MgVersions -> {"none", "invalid", "built"}]
          /\ cuts' \in 0..MaxCuts
      BY <1>5, <1>0, <1>a, <2>2, NextIs DEF MgTypeOK, BuildSound, ApplyInTransaction
    <3>6. /\ adlock' = adlock \/ (adlock = NoRunner /\ adlock' = m) \/ (adlock = m /\ adlock' = NoRunner)
          /\ adlock = m \/ schema' = schema
      BY <1>5, <1>0, <1>a, <2>2 DEF LockOwns, ApplyInTransaction
    <3> QED BY <3>1, <3>2, <3>3, <3>4, <3>5, <3>6, RunMoves
  <2> QED BY <2>1, <2>2
<1>6. ASSUME NEW m \in Runners, StartBuild(m) PROVE MgInv'
  <2>1. CASE ~(~\E v \in MgVersions : schema[v] = "invalid")
    <3>1. MgEnds(m, "execute") /\ UNCHANGED <<hist, schema, adlock>> /\ cuts' = cuts
      BY <1>6, <2>1 DEF StartBuild
    <3> QED BY <2>1, <3>1, <1>0, RunFails DEF MgTypeOK
  <2>2. CASE ~\E v \in MgVersions : schema[v] = "invalid"
    <3> DEFINE r == [mrun[m] EXCEPT !.at = "build", !.stmt = "sent", !.building = NextVersion(m)]
    <3>1. mrun' = [mrun EXCEPT ![m] = r]
      BY <1>6, <2>2 DEF StartBuild
    <3>2. /\ r \in MgRun /\ r.at = "build" /\ r.session = mrun[m].session /\ r.building = NextVersion(m)
          /\ r.stmt = "sent" /\ r.applied = mrun[m].applied /\ r.result = mrun[m].result
      BY <1>6, <1>c, <2>2, NextIs, MigrationsAssumption DEF MgRun, StartBuild
    <3> HIDE DEF r
    <3>3. Recorded' /\ Grows
      BY <1>6, <1>0, <1>a, <2>2, NextIs, MigrationsAssumption DEF MgTypeOK, Recorded, Grows, BuildSound, StartBuild
    <3>4. mrun'[m] = r => LockOwns(m)' /\ BuildSound(m)' /\ RunTold(m)'
      <4> SUFFICES ASSUME mrun'[m] = r PROVE LockOwns(m)' /\ BuildSound(m)' /\ RunTold(m)'
        OBVIOUS
      <4>1. LockOwns(m)'
        BY <1>6, <1>0, <1>a, <1>b, <3>2, <3>3, <2>2, NextIs, MigrationsAssumption DEF MgTypeOK, LockOwns, StartBuild
      <4>2. BuildSound(m)'
        BY <1>6, <1>0, <1>a, <1>b, <3>2, <3>3, <2>2, NextIs, MigrationsAssumption DEF MgTypeOK, LockOwns, BuildSound, StartBuild
      <4>3. RunTold(m)'
        BY <1>6, <1>0, <1>a, <1>b, <3>2, <3>3, <2>2, NextIs, MigrationsAssumption DEF MgTypeOK, LockOwns, BuildSound, RunTold, Grows, Recorded, StartBuild
      <4> QED BY <4>1, <4>2, <4>3
    <3>5. /\ hist' \in [MgVersions -> {"none", "applied", "changed"}]
          /\ schema' \in [MgVersions -> {"none", "invalid", "built"}]
          /\ cuts' \in 0..MaxCuts
      BY <1>6, <1>0, <1>a, <2>2, NextIs, MigrationsAssumption DEF MgTypeOK, BuildSound, StartBuild
    <3>6. /\ adlock' = adlock \/ (adlock = NoRunner /\ adlock' = m) \/ (adlock = m /\ adlock' = NoRunner)
          /\ adlock = m \/ schema' = schema
      BY <1>6, <1>0, <1>a, <2>2 DEF LockOwns, StartBuild
    <3> QED BY <3>1, <3>2, <3>3, <3>4, <3>5, <3>6, RunMoves
  <2> QED BY <2>1, <2>2
<1>7. ASSUME NEW m \in Runners, ServerBuilds(m) PROVE MgInv'
  <2>1. PICK stmt \in {"working", "done", "failed"} : mrun' = [mrun EXCEPT ![m].stmt = stmt]
    BY <1>7 DEF ServerBuilds
  <2> DEFINE v == mrun[m].building
             r == [mrun[m] EXCEPT !.stmt = stmt]
  <2>2. mrun' = [mrun EXCEPT ![m] = r]
    BY <2>1
  <2>3. /\ r \in MgRun /\ r.at = mrun[m].at /\ r.session = mrun[m].session /\ r.building = mrun[m].building
        /\ r.stmt = stmt /\ r.applied = mrun[m].applied /\ r.result = mrun[m].result
    BY <1>c, <2>1 DEF MgRun
  <2>4. v \in MgVersions /\ adlock = m
    BY <1>7, <1>a DEF ServerBuilds, LockOwns, BuildSound
  <2>5. stmt = mrun'[m].stmt
    BY <1>c, <2>2, <2>3, <1>0 DEF MgTypeOK
  <2> HIDE DEF r
  <2>6. /\ mrun[m].stmt # "none"
        /\ \A w \in MgVersions : w # v => schema'[w] = schema[w]
        /\ schema[v] = "built" => schema'[v] = "built"
        /\ stmt = "done" => schema'[v] = "built"
        /\ mrun[m].stmt \in {"sent", "working"}
        /\ hist' = hist /\ adlock' = adlock /\ cuts' = cuts
    <3>1. CASE mrun[m].stmt = "sent" /\ schema[v] = "none"
      BY <1>7, <3>1, <1>0, <2>3, <2>4, <2>5 DEF ServerBuilds, MgTypeOK
    <3>2. CASE mrun[m].stmt = "sent" /\ schema[v] # "none"
      BY <1>7, <1>a, <3>2, <1>0, <2>3, <2>4, <2>5 DEF ServerBuilds, MgTypeOK, BuildSound
    <3>3. CASE mrun[m].stmt = "working"
      BY <1>7, <3>3, <1>0, <2>3, <2>4, <2>5 DEF ServerBuilds, MgTypeOK
    <3> QED BY <3>1, <3>2, <3>3, <1>7 DEF ServerBuilds
  <2>7. schema' \in [MgVersions -> {"none", "invalid", "built"}]
    BY <1>7, <1>0 DEF ServerBuilds, MgTypeOK
  <2>8. Recorded' /\ Grows
    BY <1>0, <2>6 DEF Recorded, Grows
  <2>9. mrun'[m] = r => LockOwns(m)' /\ BuildSound(m)' /\ RunTold(m)'
    BY <1>a, <2>1, <2>3, <2>4, <2>6, <2>8 DEF LockOwns, BuildSound, RunTold, Grows
  <2> QED BY <1>0, <2>2, <2>3, <2>4, <2>6, <2>7, <2>8, <2>9, RunMoves DEF MgTypeOK
<1>8. ASSUME NEW m \in Runners, BuildAnswered(m) PROVE MgInv'
  <2>1. CASE mrun[m].stmt = "done"
    <3> DEFINE r == [mrun[m] EXCEPT !.at = "row", !.stmt = "none"]
    <3>1. mrun' = [mrun EXCEPT ![m] = r]
      BY <1>8, <2>1 DEF BuildAnswered
    <3>2. /\ r \in MgRun /\ r.at = "row" /\ r.session = mrun[m].session /\ r.building = mrun[m].building
          /\ r.stmt = "none" /\ r.applied = mrun[m].applied /\ r.result = mrun[m].result
      BY <1>8, <1>c, <2>1 DEF MgRun, BuildAnswered
    <3> HIDE DEF r
    <3>3. Recorded' /\ Grows
      BY <1>8, <1>0, <1>a, <2>1 DEF MgTypeOK, Recorded, Grows, BuildSound, BuildAnswered
    <3>4. mrun'[m] = r => LockOwns(m)' /\ BuildSound(m)' /\ RunTold(m)'
      BY <1>8, <1>0, <1>a, <1>b, <3>2, <3>3, <2>1 DEF MgTypeOK, Recorded, Grows, LockOwns, BuildSound, RunTold, BuildAnswered
    <3>5. /\ hist' \in [MgVersions -> {"none", "applied", "changed"}]
          /\ schema' \in [MgVersions -> {"none", "invalid", "built"}]
          /\ cuts' \in 0..MaxCuts
      BY <1>8, <1>0, <1>a, <2>1 DEF MgTypeOK, BuildSound, BuildAnswered
    <3>6. /\ adlock' = adlock \/ (adlock = NoRunner /\ adlock' = m) \/ (adlock = m /\ adlock' = NoRunner)
          /\ adlock = m \/ schema' = schema
      BY <1>8, <1>0, <1>a, <2>1 DEF LockOwns, BuildAnswered
    <3> QED BY <3>1, <3>2, <3>3, <3>4, <3>5, <3>6, RunMoves
  <2>2. CASE mrun[m].stmt # "done"
    <3> DEFINE r == [mrun[m] EXCEPT !.at = "end", !.result = "execute", !.stmt = "none"]
    <3>1. mrun' = [mrun EXCEPT ![m] = r]
      BY <1>8, <2>2 DEF BuildAnswered
    <3>2. /\ r \in MgRun /\ r.at = "end" /\ r.session = mrun[m].session /\ r.building = mrun[m].building
          /\ r.stmt = "none" /\ r.applied = mrun[m].applied /\ r.result = "execute"
      BY <1>8, <1>c, <2>2 DEF MgRun, BuildAnswered
    <3> HIDE DEF r
    <3>3. Recorded' /\ Grows
      BY <1>8, <1>0, <1>a, <2>2 DEF MgTypeOK, Recorded, Grows, BuildSound, BuildAnswered
    <3>4. mrun'[m] = r => LockOwns(m)' /\ BuildSound(m)' /\ RunTold(m)'
      BY <1>8, <1>0, <1>a, <1>b, <3>2, <3>3, <2>2 DEF MgTypeOK, Recorded, Grows, LockOwns, BuildSound, RunTold, BuildAnswered
    <3>5. /\ hist' \in [MgVersions -> {"none", "applied", "changed"}]
          /\ schema' \in [MgVersions -> {"none", "invalid", "built"}]
          /\ cuts' \in 0..MaxCuts
      BY <1>8, <1>0, <1>a, <2>2 DEF MgTypeOK, BuildSound, BuildAnswered
    <3>6. /\ adlock' = adlock \/ (adlock = NoRunner /\ adlock' = m) \/ (adlock = m /\ adlock' = NoRunner)
          /\ adlock = m \/ schema' = schema
      BY <1>8, <1>0, <1>a, <2>2 DEF LockOwns, BuildAnswered
    <3> QED BY <3>1, <3>2, <3>3, <3>4, <3>5, <3>6, RunMoves
  <2> QED BY <2>1, <2>2
<1>9. ASSUME NEW m \in Runners, BuildRecorded(m) PROVE MgInv'
  <2> DEFINE r == [mrun[m] EXCEPT !.at = "next", !.building = 0, !.applied = mrun[m].applied \cup {mrun[m].building}]
  <2>1. mrun' = [mrun EXCEPT ![m] = r]
    BY <1>9 DEF BuildRecorded
  <2>2. /\ r \in MgRun /\ r.at = "next" /\ r.session = mrun[m].session /\ r.building = 0
        /\ r.stmt = mrun[m].stmt /\ r.applied = mrun[m].applied \cup {mrun[m].building} /\ r.result = mrun[m].result
    BY <1>9, <1>c, <1>a DEF MgRun, BuildSound, BuildRecorded
  <2> HIDE DEF r
  <2>3. Recorded' /\ Grows
    BY <1>9, <1>0, <1>a, <1>a DEF MgTypeOK, Recorded, Grows, BuildSound, BuildRecorded
  <2>4. mrun'[m] = r => LockOwns(m)' /\ BuildSound(m)' /\ RunTold(m)'
    <3> SUFFICES ASSUME mrun'[m] = r PROVE LockOwns(m)' /\ BuildSound(m)' /\ RunTold(m)'
      OBVIOUS
    <3>1. LockOwns(m)'
      BY <1>9, <1>0, <1>a, <1>b, <2>2, <2>3, <1>a DEF MgTypeOK, LockOwns, BuildRecorded
    <3>2. BuildSound(m)'
      BY <1>9, <1>0, <1>a, <1>b, <2>2, <2>3, <1>a DEF MgTypeOK, LockOwns, BuildSound, BuildRecorded
    <3>3. RunTold(m)'
      BY <1>9, <1>0, <1>a, <1>b, <2>2, <2>3, <1>a DEF MgTypeOK, LockOwns, BuildSound, RunTold, Grows, Recorded, BuildRecorded
    <3> QED BY <3>1, <3>2, <3>3
  <2>5. /\ hist' \in [MgVersions -> {"none", "applied", "changed"}]
        /\ schema' \in [MgVersions -> {"none", "invalid", "built"}]
        /\ cuts' \in 0..MaxCuts
    BY <1>9, <1>0, <1>a, <1>a DEF MgTypeOK, BuildSound, BuildRecorded
  <2>6. /\ adlock' = adlock \/ (adlock = NoRunner /\ adlock' = m) \/ (adlock = m /\ adlock' = NoRunner)
        /\ adlock = m \/ schema' = schema
    BY <1>9, <1>0, <1>a DEF LockOwns, BuildRecorded
  <2> QED BY <2>1, <2>2, <2>3, <2>4, <2>5, <2>6, RunMoves
<1>10. ASSUME NEW m \in Runners, FinishRun(m) PROVE MgInv'
  <2> DEFINE r == [mrun[m] EXCEPT !.at = "end", !.session = FALSE, !.result = IF mrun[m].applied = {} THEN "no_change" ELSE "success"]
  <2>1. mrun' = [mrun EXCEPT ![m] = r]
    BY <1>10 DEF FinishRun
  <2>2. /\ r \in MgRun /\ r.at = "end" /\ r.session = FALSE /\ r.building = mrun[m].building
        /\ r.stmt = mrun[m].stmt /\ r.applied = mrun[m].applied /\ r.result = IF mrun[m].applied = {} THEN "no_change" ELSE "success"
    BY <1>10, <1>c, NextIs DEF MgRun, FinishRun
  <2> HIDE DEF r
  <2>3. Recorded' /\ Grows
    BY <1>10, <1>0, <1>a, NextIs DEF MgTypeOK, Recorded, Grows, BuildSound, FinishRun
  <2>4. mrun'[m] = r => LockOwns(m)' /\ BuildSound(m)' /\ RunTold(m)'
    BY <1>10, <1>0, <1>a, <1>b, <2>2, <2>3, NextIs DEF MgTypeOK, Recorded, Grows, LockOwns, BuildSound, RunTold, FinishRun
  <2>5. /\ hist' \in [MgVersions -> {"none", "applied", "changed"}]
        /\ schema' \in [MgVersions -> {"none", "invalid", "built"}]
        /\ cuts' \in 0..MaxCuts
    BY <1>10, <1>0, <1>a, NextIs DEF MgTypeOK, BuildSound, FinishRun
  <2>6. /\ adlock' = adlock \/ (adlock = NoRunner /\ adlock' = m) \/ (adlock = m /\ adlock' = NoRunner)
        /\ adlock = m \/ schema' = schema
    BY <1>10, <1>0, <1>a DEF LockOwns, FinishRun
  <2> QED BY <2>1, <2>2, <2>3, <2>4, <2>5, <2>6, RunMoves
<1>11. ASSUME NEW m \in Runners, NEW cause \in {"deadline", "interrupted"}, CutRun(m, cause) PROVE MgInv'
  <2>1. MgEnds(m, cause) /\ UNCHANGED <<hist, schema, adlock>> /\ cuts' \in 0..MaxCuts
    BY <1>11, <1>0 DEF CutRun, MgTypeOK
  <2> QED BY <2>1, RunFails
<1>12. ASSUME NEW m \in Runners, MgSessionEnds(m) PROVE MgInv'
  <2> DEFINE r == [mrun[m] EXCEPT !.session = FALSE, !.stmt = "none", !.building = 0]
  <2>1. mrun' = [mrun EXCEPT ![m] = r]
    BY <1>12 DEF MgSessionEnds
  <2>2. /\ r \in MgRun /\ r.at = mrun[m].at /\ r.session = FALSE /\ r.building = 0
        /\ r.stmt = "none" /\ r.applied = mrun[m].applied /\ r.result = mrun[m].result
    BY <1>12, <1>c DEF MgRun, MgSessionEnds
  <2> HIDE DEF r
  <2>3. Recorded' /\ Grows
    BY <1>12, <1>0, <1>a DEF MgTypeOK, Recorded, Grows, BuildSound, MgSessionEnds
  <2>4. mrun'[m] = r => LockOwns(m)' /\ BuildSound(m)' /\ RunTold(m)'
    BY <1>12, <1>0, <1>a, <1>b, <2>2, <2>3 DEF MgTypeOK, Recorded, Grows, LockOwns, BuildSound, RunTold, MgSessionEnds
  <2>5. /\ hist' \in [MgVersions -> {"none", "applied", "changed"}]
        /\ schema' \in [MgVersions -> {"none", "invalid", "built"}]
        /\ cuts' \in 0..MaxCuts
    BY <1>12, <1>0, <1>a DEF MgTypeOK, BuildSound, MgSessionEnds
  <2>6. /\ adlock' = adlock \/ (adlock = NoRunner /\ adlock' = m) \/ (adlock = m /\ adlock' = NoRunner)
        /\ adlock = m \/ schema' = schema
    BY <1>12, <1>0, <1>a DEF LockOwns, MgSessionEnds
  <2> QED BY <2>1, <2>2, <2>3, <2>4, <2>5, <2>6, RunMoves
<1>13. ASSUME NEW m \in Runners, RunAgain(m) PROVE MgInv'
  <2> DEFINE r == [mrun[m] EXCEPT !.at = "idle"]
  <2>1. mrun' = [mrun EXCEPT ![m] = r]
    BY <1>13 DEF RunAgain
  <2>2. /\ r \in MgRun /\ r.at = "idle" /\ r.session = mrun[m].session /\ r.building = mrun[m].building
        /\ r.stmt = mrun[m].stmt /\ r.applied = mrun[m].applied /\ r.result = mrun[m].result
    BY <1>13, <1>c DEF MgRun, RunAgain
  <2> HIDE DEF r
  <2>3. Recorded' /\ Grows
    BY <1>13, <1>0, <1>a DEF MgTypeOK, Recorded, Grows, BuildSound, RunAgain
  <2>4. mrun'[m] = r => LockOwns(m)' /\ BuildSound(m)' /\ RunTold(m)'
    BY <1>13, <1>0, <1>a, <1>b, <2>2, <2>3 DEF MgTypeOK, Recorded, Grows, LockOwns, BuildSound, RunTold, RunAgain
  <2>5. /\ hist' \in [MgVersions -> {"none", "applied", "changed"}]
        /\ schema' \in [MgVersions -> {"none", "invalid", "built"}]
        /\ cuts' \in 0..MaxCuts
    BY <1>13, <1>0, <1>a DEF MgTypeOK, BuildSound, RunAgain
  <2>6. /\ adlock' = adlock \/ (adlock = NoRunner /\ adlock' = m) \/ (adlock = m /\ adlock' = NoRunner)
        /\ adlock = m \/ schema' = schema
    BY <1>13, <1>0, <1>a DEF LockOwns, RunAgain
  <2> QED BY <2>1, <2>2, <2>3, <2>4, <2>5, <2>6, RunMoves
<1>14. ASSUME NEW v \in MgVersions, DropInvalidIndex(v) \/ EditMigration(v) PROVE MgInv'
  <2>1. MgTypeOK' /\ Recorded' /\ Grows
    BY <1>14, <1>0 DEF MgTypeOK, Recorded, Grows, DropInvalidIndex, EditMigration
  <2>2. ASSUME NEW k \in Runners PROVE LockOwns(k)' /\ BuildSound(k)' /\ RunTold(k)'
    <3>1. mrun'[k] = mrun[k] /\ adlock' = adlock
      BY <1>14 DEF DropInvalidIndex, EditMigration
    <3>2. \A w \in MgVersions : schema'[w] = "invalid" => schema[w] = "invalid"
      BY <1>14, <1>0 DEF MgTypeOK, DropInvalidIndex, EditMigration
    <3> QED BY <3>1, <3>2, <2>1, OtherRun
  <2> QED BY <2>1, <2>2 DEF MgInv
<1>15. CASE UNCHANGED mgVars
  <2>1. MgTypeOK' /\ Recorded' /\ Grows
    BY <1>15, <1>0 DEF MgTypeOK, Recorded, Grows, mgVars
  <2>2. ASSUME NEW k \in Runners PROVE LockOwns(k)' /\ BuildSound(k)' /\ RunTold(k)'
    BY <1>15, <2>1, OtherRun DEF mgVars
  <2> QED BY <2>1, <2>2 DEF MgInv
<1>16. ASSUME NEW m \in Runners, NEW stage \in BookkeepingStages, BookkeepingFails(m, stage) PROVE MgInv'
  <2>1. MgEnds(m, stage) /\ UNCHANGED <<hist, schema, adlock>> /\ cuts' = cuts
    BY <1>16 DEF BookkeepingFails
  <2> QED BY <2>1, <1>0, RunFails DEF MgTypeOK, BookkeepingStages
<1> QED
  BY <1>1, <1>2, <1>3, <1>4, <1>5, <1>6, <1>7, <1>8, <1>9, <1>10, <1>11, <1>12, <1>13, <1>14, <1>15,
     <1>16 DEF MgNext

\* A release whose startup check admits the history, or whose run reported success, finds every
\* migration it embeds completely in the schema, for any releases, runners and number of cut
\* runs: an index an interrupted build left behind never passes for a built one
\* (migrate/src/lib.rs: apply, apply_outside_transaction, verify_history).
THEOREM SchemaSafe == MgSpec => []SchemaAdmitted
<1>1. MgInit => MgInv
  <2> SUFFICES ASSUME MgInit PROVE MgInv
    OBVIOUS
  <2>1. MgTypeOK
    BY MigrationsAssumption DEF MgInit, MgTypeOK
  <2>2. Recorded /\ \A m \in Runners : LockOwns(m) /\ BuildSound(m) /\ RunTold(m)
    BY MigrationsAssumption DEF MgInit, Recorded, LockOwns, BuildSound, RunTold
  <2> QED BY <2>1, <2>2 DEF MgInv
<1>2. MgInv /\ [MgNext]_mgVars => MgInv'
  BY MgKeeps
<1>3. MgInv => SchemaAdmitted
  <2> SUFFICES ASSUME MgInv, NEW m \in Runners, VerifyHistory(Embedded[m], "answered") = "ok"
               PROVE  \A v \in Embedded[m] : schema[v] = "built"
    BY DEF MgInv, SchemaAdmitted, RunTold
  <2>1. PendingOf(Embedded[m]) = {}
    BY VerifiedIs
  <2> QED BY <2>1 DEF MgInv, Recorded, PendingOf, MgVersions
<1> QED BY <1>1, <1>2, <1>3, PTL DEF MgSpec

-----------------------------------------------------------------------------
(* When the engines of a process look for jobs *)

JeSpec == JeInit /\ [][JeNext]_jeVars

JeLoop == [at: {"off", "idle", "cool", "ready"}, wake: BOOLEAN,
           tick: 0..Poll, cool: 0..ClaimCooldown, busy: 0..EngineSlots]

JeDue == [job: BOOLEAN, age: Nat, running: Nat, limit: Nat]

JeTyped ==
    /\ JeTypeOK
    /\ due \in [JobKinds -> JeDue]
    /\ sample \in [st: {"none", "reading", "read"}, kinds: SUBSET JobKinds, published: SUBSET JobKinds]

\* An engine that has started looks for the jobs of its kinds before they have waited too
\* long: what is left of its wait fits into what is left of theirs, and a wake-up it has not
\* seen yet ends the wait.  One that has not started owes and runs nothing.
LooksInTime(e) ==
    \A k \in KindsOf[e] :
          /\ loop[e].at = "off" => due[k].age = 0 /\ due[k].running = 0
          /\ loop[e].at = "idle" /\ ~loop[e].wake => due[k].age + loop[e].tick <= Poll + ClaimCooldown
          /\ loop[e].at \in {"idle", "cool"} => due[k].age + loop[e].cool <= Poll + ClaimCooldown

JeInv ==
    /\ JeTyped
    /\ \A k \in JobKinds : due[k].age <= Poll + ClaimCooldown
    /\ \A e \in JePeers : LooksInTime(e)
    /\ FreshSampleCovers

\* One engine's loop moves: what is left to show is that the moved loop looks in time.
LEMMA LoopMoves ==
    ASSUME JeInv, NEW e \in JePeers, NEW l \in JeLoop, loop' = [loop EXCEPT ![e] = l],
           UNCHANGED <<peers, je_permit, tx, due, lastwake, ear, sample>>,
           l.at # "off",
           \A k \in KindsOf[e] :
              /\ l.at = "idle" /\ ~l.wake => due[k].age + l.tick <= Poll + ClaimCooldown
              /\ l.at \in {"idle", "cool"} => due[k].age + l.cool <= Poll + ClaimCooldown
    PROVE  JeInv'
<1>0. loop \in [JePeers -> JeLoop] /\ JeTyped /\ \A d \in JePeers : LooksInTime(d)
  BY DEF JeInv, JeTyped, JeTypeOK, JeLoop
<1>1. loop' \in [JePeers -> JeLoop] /\ loop'[e] = l /\ \A d \in JePeers : d # e => loop'[d] = loop[d]
  BY <1>0
<1>2. JeTyped'
  BY <1>0, <1>1 DEF JeTyped, JeTypeOK, JeLoop
<1>3. \A d \in JePeers : LooksInTime(d)'
  BY <1>0, <1>1 DEF LooksInTime
<1> QED BY <1>2, <1>3 DEF JeInv, FreshSampleCovers, RegisteredKinds

\* A wake-up moves no deadline.
LEMMA WakeKeeps ==
    ASSUME JeInv, NEW es \in SUBSET JePeers, NEW next, next = WakePeers(es)
    PROVE  /\ next \in [JePeers -> JeLoop]
           /\ \A e \in JePeers : /\ next[e].at = loop[e].at /\ next[e].tick = loop[e].tick
                                 /\ next[e].cool = loop[e].cool /\ (loop[e].wake => next[e].wake)
BY ZenonT(40) DEF JeInv, JeTyped, JeTypeOK, JeLoop, WakePeers

LEMMA ListenKeeps ==
    ASSUME JeInv, UNCHANGED <<peers, je_permit, tx, due, lastwake, sample>>,
           loop' = loop \/ \E es \in SUBSET JePeers : loop' = WakePeers(es)
    PROVE  JeInv'
<1>0. loop \in [JePeers -> JeLoop] /\ JeTyped /\ \A d \in JePeers : LooksInTime(d)
  BY DEF JeInv, JeTyped, JeTypeOK, JeLoop
<1>1. /\ loop' \in [JePeers -> JeLoop]
      /\ \A e \in JePeers : /\ loop'[e].at = loop[e].at /\ loop'[e].tick = loop[e].tick
                            /\ loop'[e].cool = loop[e].cool /\ (loop[e].wake => loop'[e].wake)
  BY <1>0, WakeKeeps
<1>2. JeTyped'
  BY <1>0, <1>1 DEF JeTyped, JeTypeOK, JeLoop
<1>3. \A d \in JePeers : LooksInTime(d)'
  BY <1>0, <1>1 DEF LooksInTime
<1> QED BY <1>2, <1>3 DEF JeInv, FreshSampleCovers, RegisteredKinds

\* The loops rest, and so do the ages: everything else may change within its type.
LEMMA RestKeeps ==
    ASSUME JeInv, JeTyped', UNCHANGED loop, FreshSampleCovers',
           \A k \in JobKinds : /\ due'[k].age = 0 \/ due'[k].age = due[k].age
                               /\ due'[k].running = due[k].running
    PROVE  JeInv'
<1>0. loop \in [JePeers -> JeLoop] /\ JeTyped /\ \A d \in JePeers : LooksInTime(d) /\ KindsOf[d] \subseteq JobKinds
  BY JobEngineAssumption DEF JeInv, JeTyped, JeTypeOK, JeLoop
<1>1. {Poll, ClaimCooldown} \subseteq Nat
  BY JobEngineAssumption
<1>2. \A k \in JobKinds : due'[k].age <= Poll + ClaimCooldown
  BY <1>1 DEF JeInv
<1>3. ASSUME NEW d \in JePeers PROVE LooksInTime(d)'
  <2>1. loop[d].tick \in 0..Poll /\ loop[d].cool \in 0..ClaimCooldown
    BY <1>0 DEF JeLoop
  <2> QED BY <1>0, <1>1, <2>1 DEF LooksInTime
<1> QED BY <1>2, <1>3 DEF JeInv

\* One round: the ages of the engine's kinds start over, and its next round is near enough.
LEMMA RoundKeeps ==
    ASSUME JeInv, NEW e \in JePeers, NEW kinds \in SUBSET KindsOf[e], ClaimRound(e, kinds)
    PROVE  JeInv'
<1>0. /\ loop \in [JePeers -> JeLoop] /\ JeTyped /\ KindsOf[e] \subseteq JobKinds
      /\ due \in [JobKinds -> JeDue]
      /\ \A d \in JePeers : LooksInTime(d) /\ KindsOf[d] \subseteq JobKinds
  BY JobEngineAssumption DEF JeInv, JeTyped, JeTypeOK, JeLoop
<1>1. {Poll, ClaimCooldown, EngineSlots} \subseteq Nat
  BY JobEngineAssumption
<1> DEFINE n == Cardinality(kinds)
           free == EngineSlots - loop[e].busy
           l == [loop[e] EXCEPT !.at = NextRound(n, free), !.cool = ClaimCooldown, !.busy = loop[e].busy + n]
<1>2. n \in Nat /\ n <= free
  <2>1. IsFiniteSet(kinds)
    BY <1>0, JobEngineAssumption, FS_Subset
  <2>2. n \in Nat
    BY <2>1, FS_CardinalityType
  <2>3. kinds = {} => n = 0
    BY FS_EmptySet
  <2>4. free \in Nat /\ free > 0
    <3>1. loop[e].busy \in 0..EngineSlots
      BY <1>0 DEF JeLoop
    <3>2. loop[e].busy < EngineSlots
      BY DEF ClaimRound, MayClaim
    <3> QED BY <1>1, <3>1, <3>2
  <2>5. kinds = {} \/ n <= free
    BY DEF ClaimRound
  <2> HIDE DEF n, free
  <2> QED BY <2>2, <2>3, <2>4, <2>5
<1>3. loop' = [loop EXCEPT ![e] = l]
  BY <1>0 DEF ClaimRound, JeLoop
<1>4. /\ l \in JeLoop /\ l.at \in {"idle", "cool", "ready"} /\ l.cool = ClaimCooldown
      /\ l.tick = loop[e].tick
  <2>1. loop[e].busy + n \in 0..EngineSlots
    <3>1. loop[e].busy \in 0..EngineSlots
      BY <1>0 DEF JeLoop
    <3> HIDE DEF n
    <3> QED BY <1>1, <1>2, <3>1
  <2>2. NextRound(n, free) \in {"idle", "cool", "ready"}
    BY DEF NextRound
  <2>3. ClaimCooldown \in 0..ClaimCooldown
    BY <1>1
  <2> DEFINE at == NextRound(n, free)
             busy == loop[e].busy + n
  <2>4. l = [loop[e] EXCEPT !.at = at, !.cool = ClaimCooldown, !.busy = busy]
    OBVIOUS
  <2>5. at \in {"idle", "cool", "ready"} /\ busy \in 0..EngineSlots
    BY <2>1, <2>2
  <2> HIDE DEF l, at, busy
  <2> QED BY <1>0, <2>3, <2>4, <2>5 DEF JeLoop
<1> HIDE DEF l
<1>5. loop' \in [JePeers -> JeLoop] /\ loop'[e] = l /\ \A d \in JePeers : d # e => loop'[d] = loop[d]
  BY <1>0, <1>3, <1>4
<1>6. /\ due' \in [JobKinds -> JeDue]
      /\ \A k \in JobKinds : due'[k].age = 0 \/ due'[k].age = due[k].age
      /\ \A k \in JobKinds \ KindsOf[e] : due'[k] = due[k]
      /\ \A k \in KindsOf[e] : due'[k].age = 0
  <2>1. due' = [k \in JobKinds |->
                 IF k \in kinds THEN [due[k] EXCEPT !.job = FALSE, !.age = 0, !.running = due[k].running + 1]
                 ELSE IF k \in KindsOf[e] THEN [due[k] EXCEPT !.age = 0] ELSE due[k]]
    BY <1>0 DEF ClaimRound, JeDue
  <2>2. ASSUME NEW k \in JobKinds
        PROVE  /\ [due[k] EXCEPT !.age = 0] \in JeDue /\ [due[k] EXCEPT !.age = 0].age = 0
               /\ [due[k] EXCEPT !.job = FALSE, !.age = 0, !.running = due[k].running + 1] \in JeDue
               /\ [due[k] EXCEPT !.job = FALSE, !.age = 0, !.running = due[k].running + 1].age = 0
    <3> DEFINE more == due[k].running + 1
    <3>1. due[k] \in JeDue /\ more \in Nat /\ 0 \in Nat
      BY <1>0 DEF JeDue
    <3> HIDE DEF more
    <3> SUFFICES /\ [due[k] EXCEPT !.age = 0] \in JeDue /\ [due[k] EXCEPT !.age = 0].age = 0
                 /\ [due[k] EXCEPT !.job = FALSE, !.age = 0, !.running = more] \in JeDue
                 /\ [due[k] EXCEPT !.job = FALSE, !.age = 0, !.running = more].age = 0
      BY DEF more
    <3> QED BY ONLY <3>1 DEF JeDue
  <2> QED BY <1>0, <2>1, <2>2, Zenon
<1>7. JeTyped'
  BY <1>0, <1>5, <1>6 DEF JeTyped, JeTypeOK, JeLoop, ClaimRound
<1>8. \A k \in JobKinds : due'[k].age <= Poll + ClaimCooldown
  BY <1>1, <1>6 DEF JeInv
<1>9. ASSUME NEW d \in JePeers PROVE LooksInTime(d)'
  <2>1. loop[d].tick \in 0..Poll /\ loop[d].cool \in 0..ClaimCooldown
    BY <1>0 DEF JeLoop
  <2>2. CASE d = e
    BY <1>1, <1>4, <1>5, <1>6, <2>1, <2>2 DEF LooksInTime
  <2>3. CASE d # e
    <3>1. loop'[d] = loop[d] /\ LooksInTime(d)
      BY <1>0, <1>5, <2>3
    <3>2. KindsOf[d] \cap KindsOf[e] = {}
      BY <2>3, JobEngineAssumption
    <3>3. \A k \in KindsOf[d] : due'[k] = due[k]
      BY <1>0, <1>6, <3>2
    <3> QED BY <3>1, <3>3 DEF LooksInTime
  <2> QED BY <2>2, <2>3
<1> QED BY <1>7, <1>8, <1>9 DEF JeInv, FreshSampleCovers, RegisteredKinds, ClaimRound

\* Time passes only while every loop rests, so a job that waits has an engine whose own wait
\* goes down with it.
LEMMA TimeKeeps ==
    ASSUME JeInv, JeTick
    PROVE  JeInv'
<1>0. /\ loop \in [JePeers -> JeLoop] /\ JeTyped
      /\ due \in [JobKinds -> JeDue]
      /\ \A d \in JePeers : LooksInTime(d) /\ KindsOf[d] \subseteq JobKinds
      /\ peers \subseteq JePeers /\ \A k \in JobKinds : due[k].age \in Nat
  BY JobEngineAssumption DEF JeInv, JeTyped, JeTypeOK, JeLoop, JeDue
<1>1. {Poll, ClaimCooldown, EngineSlots, WakeInterval} \subseteq Nat
  BY JobEngineAssumption
<1>2. \A e \in JePeers : /\ loop[e].tick \in 0..Poll /\ loop[e].cool \in 0..ClaimCooldown
                         /\ loop[e].at \in {"off", "idle", "cool", "ready"}
  BY <1>0 DEF JeLoop
<1>3. /\ loop' \in [JePeers -> JeLoop]
      /\ \A e \in JePeers : /\ loop'[e].at = loop[e].at /\ loop'[e].tick = Counted(loop[e].tick)
                            /\ loop'[e].cool = Counted(loop[e].cool) /\ loop'[e].wake = loop[e].wake
  <2>1. \A e \in JePeers : Counted(loop[e].tick) \in 0..Poll /\ Counted(loop[e].cool) \in 0..ClaimCooldown
    BY <1>1, <1>2 DEF Counted
  <2>2. loop' = [e \in JePeers |-> [loop[e] EXCEPT !.tick = Counted(loop[e].tick), !.cool = Counted(loop[e].cool)]]
    BY <1>0 DEF JeTick, JeLoop
  <2> QED BY <1>0, <2>1, <2>2 DEF JeLoop
<1>4. ASSUME NEW k \in JobKinds, Waits(k) PROVE due[k].age + 1 <= Poll + ClaimCooldown
  <2>1. PICK e \in peers : loop[e].at # "off" /\ k \in KindsOf[e] /\ MayClaim(e)
    BY <1>4 DEF Waits, Claimable
  <2>2. e \in JePeers /\ LoopRests(e) /\ LooksInTime(e)
    BY <1>0, <2>1 DEF JeTick
  <2>3. \/ loop[e].at = "idle" /\ ~loop[e].wake /\ loop[e].tick > 0
        \/ loop[e].at = "cool" /\ loop[e].cool > 0
    BY <1>2, <2>1, <2>2 DEF LoopRests
  <2> QED BY <1>0, <1>1, <1>2, <2>1, <2>2, <2>3 DEF LooksInTime
<1>5. /\ due' \in [JobKinds -> JeDue]
      /\ \A k \in JobKinds : /\ \/ due'[k].age = due[k].age
                                \/ due'[k].age = due[k].age + 1 /\ Waits(k)
                             /\ due'[k].running = due[k].running
  <2>1. due' = [k \in JobKinds |-> IF Waits(k) THEN [due[k] EXCEPT !.age = due[k].age + 1] ELSE due[k]]
    BY <1>0 DEF JeTick, JeDue
  <2>2. ASSUME NEW k \in JobKinds
        PROVE  /\ [due[k] EXCEPT !.age = due[k].age + 1] \in JeDue
               /\ [due[k] EXCEPT !.age = due[k].age + 1].age = due[k].age + 1
               /\ [due[k] EXCEPT !.age = due[k].age + 1].running = due[k].running
    BY <1>0 DEF JeDue
  <2> QED BY <1>0, <2>1, <2>2, Zenon
<1>6. JeTyped'
  <2>1. lastwake' \in [JobKinds -> 0..WakeInterval]
    <3>1. lastwake \in [JobKinds -> 0..WakeInterval]
      BY <1>0 DEF JeTyped, JeTypeOK
    <3>2. \A n \in 0..WakeInterval : n < WakeInterval => n + 1 \in 0..WakeInterval
      BY <1>1
    <3>3. lastwake' = [k \in JobKinds |-> IF lastwake[k] < WakeInterval THEN lastwake[k] + 1 ELSE lastwake[k]]
      BY DEF JeTick
    <3> QED BY <3>1, <3>2, <3>3
  <2> QED BY <1>0, <1>3, <1>5, <2>1 DEF JeTyped, JeTypeOK, JeLoop, JeTick
<1>7. \A k \in JobKinds : due'[k].age <= Poll + ClaimCooldown
  BY <1>4, <1>5 DEF JeInv
<1>8. ASSUME NEW e \in JePeers PROVE LooksInTime(e)'
  <2>1. LoopRests(e) /\ LooksInTime(e) /\ KindsOf[e] \subseteq JobKinds
    BY <1>0 DEF JeTick
  <2>2. ASSUME NEW k \in KindsOf[e], loop[e].at = "off"
        PROVE  due'[k].age = 0 /\ due'[k].running = 0
    <3>1. ~Waits(k)
      <4> SUFFICES ASSUME NEW d \in peers, loop[d].at # "off", k \in KindsOf[d] PROVE FALSE
        BY DEF Waits, Claimable
      <4>1. d \in JePeers /\ d # e
        BY <1>0, <2>2
      <4> QED BY <2>2, <4>1, JobEngineAssumption
    <3>2. k \in JobKinds /\ due[k].age = 0 /\ due[k].running = 0
      BY <2>1, <2>2 DEF LooksInTime
    <3> QED BY <1>5, <3>1, <3>2
  <2>3. ASSUME NEW k \in KindsOf[e], loop[e].at = "idle"
        PROVE  /\ due'[k].age + loop'[e].tick <= Poll + ClaimCooldown
               /\ due'[k].age + loop'[e].cool <= Poll + ClaimCooldown
    <3>1. loop[e].tick > 0 /\ ~loop[e].wake
      BY <2>1, <2>3 DEF LoopRests
    <3> QED BY <1>0, <1>1, <1>2, <1>3, <1>5, <2>1, <2>3, <3>1, SMTT(30) DEF LooksInTime, Counted
  <2>4. ASSUME NEW k \in KindsOf[e], loop[e].at = "cool"
        PROVE  due'[k].age + loop'[e].cool <= Poll + ClaimCooldown
    <3>1. loop[e].cool > 0
      BY <2>1, <2>4 DEF LoopRests
    <3> QED BY <1>0, <1>1, <1>2, <1>3, <1>5, <2>1, <2>4, <3>1 DEF LooksInTime, Counted
  <2> QED BY <1>3, <2>2, <2>3, <2>4 DEF LooksInTime
<1> QED BY <1>6, <1>7, <1>8 DEF JeInv, FreshSampleCovers, RegisteredKinds, JeTick

\* An attempt ends: its slot and its kind's place are free, and when the kind was full the loop is
\* woken, so that what waited for the place waits for the cooldown only.
LEMMA DoneKeeps ==
    ASSUME JeInv, NEW e \in JePeers, NEW k \in KindsOf[e], AttemptDone(e, k)
    PROVE  JeInv'
<1>0. /\ loop \in [JePeers -> JeLoop] /\ JeTyped /\ k \in JobKinds
      /\ due \in [JobKinds -> JeDue] /\ due[k] \in JeDue /\ loop[e] \in JeLoop
      /\ \A d \in JePeers : LooksInTime(d) /\ KindsOf[d] \subseteq JobKinds
  BY JobEngineAssumption DEF JeInv, JeTyped, JeTypeOK, JeLoop
<1>1. {Poll, ClaimCooldown, EngineSlots} \subseteq Nat
  BY JobEngineAssumption
<1> DEFINE age == IF KindFull(k) /\ due[k].job THEN Poll ELSE due[k].age
           wake == loop[e].wake \/ KindFull(k)
           l == [loop[e] EXCEPT !.busy = loop[e].busy - 1, !.wake = wake]
           u == [due[k] EXCEPT !.running = due[k].running - 1, !.age = age]
<1>2. loop' = [loop EXCEPT ![e] = l]
  BY <1>0 DEF AttemptDone, JeLoop
<1>3. due' = [due EXCEPT ![k] = u]
  BY <1>0 DEF AttemptDone, JeDue
<1>4. l \in JeLoop /\ l.at = loop[e].at /\ l.cool = loop[e].cool /\ l.tick = loop[e].tick /\ l.wake = wake
  <2>1. loop[e].busy \in 0..EngineSlots /\ loop[e].busy > 0
    BY <1>0 DEF AttemptDone, JeLoop
  <2>2. loop[e].busy - 1 \in 0..EngineSlots
    BY <1>1, <2>1
  <2>3. wake \in BOOLEAN
    BY <1>0 DEF JeLoop, KindFull
  <2> HIDE DEF wake
  <2> QED BY <1>0, <2>2, <2>3 DEF JeLoop
<1>5. u \in JeDue /\ u.age = age
  <2>1. age \in Nat
    BY <1>0, <1>1 DEF JeDue
  <2>2. due[k].running - 1 \in Nat
    BY <1>0 DEF AttemptDone, JeDue
  <2> HIDE DEF age
  <2> QED BY <1>0, <2>1, <2>2 DEF JeDue
<1>6. loop[e].at # "off"
  BY <1>0 DEF AttemptDone, LooksInTime
<1> HIDE DEF l, u
<1>7. /\ loop' \in [JePeers -> JeLoop] /\ loop'[e] = l /\ \A d \in JePeers : d # e => loop'[d] = loop[d]
      /\ due' \in [JobKinds -> JeDue] /\ due'[k] = u /\ \A j \in JobKinds : j # k => due'[j] = due[j]
  BY <1>0, <1>2, <1>3, <1>4, <1>5
<1>8. JeTyped'
  BY <1>0, <1>7 DEF JeTyped, JeTypeOK, JeLoop, AttemptDone
<1>9. \A j \in JobKinds : due'[j].age <= Poll + ClaimCooldown
  BY <1>1, <1>5, <1>7 DEF JeInv
<1>10. ASSUME NEW d \in JePeers PROVE LooksInTime(d)'
  <2>1. CASE d # e
    <3>1. \A j \in KindsOf[d] : due'[j] = due[j]
      BY <1>0, <1>7, <2>1, JobEngineAssumption
    <3> QED BY <1>0, <1>7, <2>1, <3>1 DEF LooksInTime
  <2>2. CASE d = e
    <3>1. ASSUME NEW j \in KindsOf[e]
          PROVE  /\ loop[e].at = "idle" /\ ~wake => due'[j].age + loop[e].tick <= Poll + ClaimCooldown
                 /\ loop[e].at \in {"idle", "cool"} => due'[j].age + loop[e].cool <= Poll + ClaimCooldown
      <4>1. loop[e].tick \in 0..Poll /\ loop[e].cool \in 0..ClaimCooldown /\ j \in JobKinds
        BY <1>0 DEF JeLoop
      <4>2. /\ loop[e].at = "idle" /\ ~loop[e].wake => due[j].age + loop[e].tick <= Poll + ClaimCooldown
            /\ loop[e].at \in {"idle", "cool"} => due[j].age + loop[e].cool <= Poll + ClaimCooldown
        BY <1>0 DEF LooksInTime
      <4>3. CASE j # k
        BY <1>7, <4>1, <4>2, <4>3
      <4>4. CASE j = k
        BY <1>1, <1>5, <1>7, <4>1, <4>2, <4>4
      <4> QED BY <4>3, <4>4
    <3> QED BY <1>4, <1>6, <1>7, <2>2, <3>1 DEF LooksInTime
  <2> QED BY <2>1, <2>2
<1> QED BY <1>8, <1>9, <1>10 DEF JeInv, FreshSampleCovers, RegisteredKinds, AttemptDone

LEMMA JeKeeps ==
    ASSUME JeInv, [JeNext]_jeVars
    PROVE  JeInv'
<1>0. /\ JeTyped /\ loop \in [JePeers -> JeLoop] /\ \A d \in JePeers : LooksInTime(d) /\ KindsOf[d] \subseteq JobKinds
      /\ due \in [JobKinds -> JeDue] /\ FreshSampleCovers
      /\ \A k \in JobKinds : due[k].age <= Poll + ClaimCooldown
  BY JobEngineAssumption DEF JeInv, JeTyped, JeTypeOK, JeLoop
<1>1. /\ {Poll, ClaimCooldown, EngineSlots, WakeInterval} \subseteq Nat /\ Enqueued \subseteq JobKinds
      /\ EngineSlots > 0 /\ JeDuties \in JePeers
  BY JobEngineAssumption
<1>2. RegisteredKinds \subseteq JobKinds
  BY <1>0 DEF RegisteredKinds, JeTyped, JeTypeOK
<1>3. ASSUME NEW e \in JePeers, NEW f, BuildEngine(e, f) PROVE JeInv'
  BY <1>0, <1>3, RestKeeps DEF BuildEngine, JeTyped, JeTypeOK, FreshSampleCovers
<1>4. ASSUME NEW e \in JePeers, NEW f, StartLoop(e, f) PROVE JeInv'
  <2> DEFINE l == [loop[e] EXCEPT !.at = "idle", !.tick = 0, !.cool = ClaimCooldown]
  <2>1. loop' = [loop EXCEPT ![e] = l]
    BY <1>0, <1>4 DEF StartLoop, JeLoop
  <2>0. loop[e] \in JeLoop /\ 0 \in 0..Poll /\ ClaimCooldown \in 0..ClaimCooldown
    BY <1>0, <1>1
  <2>2. l \in JeLoop /\ l.at = "idle" /\ l.tick = 0 /\ l.cool = ClaimCooldown
    BY ONLY <2>0 DEF JeLoop
  <2>3. \A k \in KindsOf[e] : due[k].age = 0
    BY <1>0, <1>4 DEF StartLoop, LooksInTime
  <2> HIDE DEF l
  <2>4. \A k \in KindsOf[e] : /\ due[k].age + 0 <= Poll + ClaimCooldown
                              /\ due[k].age + ClaimCooldown <= Poll + ClaimCooldown
    BY <1>0, <1>1, <2>3
  <2> QED BY <1>4, <2>1, <2>2, <2>3, <2>4, LoopMoves DEF StartLoop
<1>5. ASSUME NEW e \in JePeers, AwaitTick(e) PROVE JeInv'
  <2> DEFINE l == [loop[e] EXCEPT !.at = "cool", !.wake = FALSE, !.tick = Poll]
  <2>1. loop' = [loop EXCEPT ![e] = l]
    BY <1>0, <1>5 DEF AwaitTick, JeLoop
  <2>0. loop[e] \in JeLoop /\ Poll \in 0..Poll
    BY <1>0, <1>1
  <2>2. l \in JeLoop /\ l.at = "cool" /\ l.cool = loop[e].cool
    BY ONLY <2>0 DEF JeLoop
  <2> HIDE DEF l
  <2>3. \A k \in KindsOf[e] : due[k].age + loop[e].cool <= Poll + ClaimCooldown
    BY <1>0, <1>5 DEF AwaitTick, LooksInTime
  <2> QED BY <1>5, <2>1, <2>2, <2>3, LoopMoves DEF AwaitTick
<1>6. ASSUME NEW e \in JePeers, Cooled(e) PROVE JeInv'
  <2> DEFINE l == [loop[e] EXCEPT !.at = "ready"]
  <2>1. loop' = [loop EXCEPT ![e] = l]
    BY <1>0, <1>6 DEF Cooled, JeLoop
  <2>2. l \in JeLoop /\ l.at = "ready"
    BY <1>0 DEF JeLoop
  <2> HIDE DEF l
  <2> QED BY <1>6, <2>1, <2>2, LoopMoves DEF Cooled
<1>7. ASSUME NEW e \in JePeers, NEW k \in KindsOf[e], AttemptDone(e, k) PROVE JeInv'
  BY <1>7, DoneKeeps
<1>8. ASSUME NEW k \in JobKinds, NEW f, EnqueueJob(k, f) PROVE JeInv'
  <2>1. lastwake' \in [JobKinds -> 0..WakeInterval] /\ tx' \in [JobKinds -> {"none", "quiet", "loud"}]
    BY <1>0, <1>1, <1>8 DEF EnqueueJob, JeTyped, JeTypeOK
  <2>2. JeTyped'
    BY <1>0, <1>8, <2>1 DEF EnqueueJob, JeTyped, JeTypeOK
  <2> QED BY <1>0, <1>8, <2>2, RestKeeps DEF EnqueueJob, FreshSampleCovers, RegisteredKinds
<1>9. ASSUME NEW k \in JobKinds, CommitJob(k) PROVE JeInv'
  <2>1. /\ due' \in [JobKinds -> JeDue]
        /\ \A j \in JobKinds : /\ due'[j].age = 0 \/ due'[j].age = due[j].age
                               /\ due'[j].running = due[j].running
    BY <1>0, <1>9 DEF CommitJob, JeDue
  <2>2. JeTyped'
    BY <1>0, <1>9, <2>1 DEF CommitJob, JeTyped, JeTypeOK
  <2> QED BY <1>0, <1>9, <2>1, <2>2, RestKeeps DEF CommitJob, FreshSampleCovers, RegisteredKinds
<1>10. ASSUME NEW k \in JobKinds, RollbackJob(k) PROVE JeInv'
  <2>1. JeTyped'
    BY <1>0, <1>10 DEF RollbackJob, JeTyped, JeTypeOK
  <2> QED BY <1>0, <1>10, <2>1, RestKeeps DEF RollbackJob, FreshSampleCovers, RegisteredKinds
<1>11. ASSUME NEW k \in JobKinds, Notified(k) PROVE JeInv'
  <2>1. {e \in peers : k \in KindsOf[e]} \in SUBSET JePeers
    BY <1>0 DEF JeTyped, JeTypeOK
  <2> QED BY <1>11, <2>1, ListenKeeps DEF Notified
<1>12. ASSUME NEW ok \in BOOLEAN, Subscribe(ok) PROVE JeInv'
  <2>1. peers \in SUBSET JePeers
    BY <1>0 DEF JeTyped, JeTypeOK
  <2> QED BY <1>12, <2>1, ListenKeeps DEF Subscribe
<1>13. CASE LoseListener
  BY <1>13, ListenKeeps DEF LoseListener
<1>14. CASE SampleBegins
  <2>1. JeTyped' /\ sample'.published = sample.published
    BY <1>0, <1>1, <1>2, <1>14 DEF SampleBegins, JeTyped, JeTypeOK
  <2> QED BY <1>0, <1>14, <2>1, RestKeeps DEF SampleBegins, FreshSampleCovers, RegisteredKinds
<1>15. ASSUME NEW ok \in BOOLEAN, SampleRead(ok) PROVE JeInv'
  <2>1. JeTyped' /\ sample'.published = sample.published
    BY <1>0, <1>1, <1>15 DEF SampleRead, JeTyped, JeTypeOK
  <2> QED BY <1>0, <1>15, <2>1, RestKeeps DEF SampleRead, FreshSampleCovers, RegisteredKinds
<1>16. CASE PublishSample
  <2>1. JeTyped'
    BY <1>0, <1>16 DEF PublishSample, JeTyped, JeTypeOK
  <2>2. FreshSampleCovers'
    BY <1>0, <1>16 DEF PublishSample, FreshSampleCovers, RegisteredKinds
  <2> QED BY <1>0, <1>16, <2>1, <2>2, RestKeeps DEF PublishSample
<1>17. CASE RetentionBegins \/ RetentionEnds
  <2>1. JeTyped'
    BY <1>0, <1>1, <1>17 DEF RetentionBegins, RetentionEnds, JeTyped, JeTypeOK
  <2> QED BY <1>0, <1>17, <2>1, RestKeeps DEF RetentionBegins, RetentionEnds, FreshSampleCovers, RegisteredKinds
<1>18. CASE UNCHANGED jeVars
  <2>1. JeTyped'
    BY <1>0, <1>18 DEF jeVars, JeTyped, JeTypeOK
  <2> QED BY <1>0, <1>18, <2>1, RestKeeps DEF jeVars, FreshSampleCovers, RegisteredKinds
<1> QED BY <1>1, <1>3, <1>4, <1>5, <1>6, <1>7, <1>8, <1>9, <1>10, <1>11, <1>12, <1>13, <1>14, <1>15, <1>16, <1>17,
           <1>18, RoundKeeps, TimeKeeps DEF JeNext

\* However enqueues, notifications, lost listeners, claims, samples and retention interleave, no
\* due job waits longer than a poll interval and a cooldown for a claim while its kind has a place
\* and its engine can claim, and a published backlog sample covers every registered kind
\* (infra-jobs/src/engine.rs, claim.rs).
THEOREM EngineSafe == JeSpec => []EngineServes
<1>1. JeInit => JeInv
  <2>1. {Poll, ClaimCooldown, EngineSlots, WakeInterval} \subseteq Nat
    BY JobEngineAssumption
  <2>2. ASSUME JeInit PROVE JeTyped
    <3>1. due \in [JobKinds -> JeDue]
      <4>1. UNION {MaxRunning[k] : k \in JobKinds} \subseteq Nat
        BY JobEngineAssumption
      <4>2. [job: {FALSE}, age: {0}, running: {0}, limit: UNION {MaxRunning[k] : k \in JobKinds}] \subseteq JeDue
        <5> SUFFICES ASSUME NEW u \in [job: {FALSE}, age: {0}, running: {0}, limit: Nat] PROVE u \in JeDue
          BY <4>1
        <5>1. u = [job |-> u.job, age |-> u.age, running |-> u.running, limit |-> u.limit]
          OBVIOUS
        <5>2. u.job = FALSE /\ u.age = 0 /\ u.running = 0 /\ u.limit \in Nat /\ 0 \in Nat
          OBVIOUS
        <5> QED BY <5>1, <5>2, Zenon DEF JeDue
      <4> QED BY <2>2, <4>2 DEF JeInit
    <3> QED BY <2>1, <2>2, <3>1 DEF JeInit, JeTyped, JeTypeOK
  <2>3. ASSUME JeInit PROVE \A k \in JobKinds : due[k].age = 0 /\ due[k].running = 0
    BY <2>3 DEF JeInit
  <2>4. ASSUME JeInit PROVE \A e \in JePeers : LooksInTime(e)
    <3>1. \A e \in JePeers : loop[e].at = "off" /\ KindsOf[e] \subseteq JobKinds
      BY <2>4, JobEngineAssumption DEF JeInit
    <3> QED BY <2>3, <2>4, <3>1 DEF LooksInTime
  <2>5. ASSUME JeInit PROVE FreshSampleCovers /\ \A k \in JobKinds : due[k].age <= Poll + ClaimCooldown
    <3>1. FreshSampleCovers
      BY <2>5 DEF JeInit, FreshSampleCovers
    <3> QED BY <2>1, <2>3, <2>5, <3>1
  <2> QED BY <2>2, <2>4, <2>5 DEF JeInv
<1>2. JeInv /\ [JeNext]_jeVars => JeInv'
  BY JeKeeps
<1>3. JeInv => EngineServes
  BY DEF JeInv, JeTyped, EngineServes, DueJobsPolled
<1> QED BY <1>1, <1>2, <1>3, PTL DEF JeSpec

-----------------------------------------------------------------------------
(* How the jobs worker stops *)

WkSpec == WkInit /\ [][WkNext]_wkVars

WkProc == [cfg: WkSettings, step: Nat, left: Nat, outer: Nat, timer: Nat, stage: WkStages,
           code: {"none", "0", "1", "3"}, pending: BOOLEAN, stops: Nat, failure: BOOLEAN,
           degraded: BOOLEAN, panicked: BOOLEAN, lost: BOOLEAN, faults: Nat]
WkHeld == {"tracer", "logger", "pool", "messaging", "readiness", "health", "diagnostics"}
WkOwner == [loop: {"none", "ready", "up", "stopping", "ended"}, flight: 0..1, failed: BOOLEAN]

WkTyped ==
    /\ wk \in WkProc
    /\ own \in [open: SUBSET WkHeld, failed: SUBSET {"health", "diagnostics"}]
    /\ work \in [WorkOwners -> WkOwner]
    /\ bg \in [task: [WkTasks -> {"none", "run", "aborting", "ended"}], failure: BOOLEAN]

\* The stages of the teardown from the one that is named on
Early == {"prepare", "start", "serve"}
FromLog == {"log", "runtime", "exited"}
FromTrace == {"trace"} \cup FromLog
FromClose == {"close"} \cup FromTrace
FromAbort == {"abort"} \cup FromClose
FromJoin == {"join"} \cup FromAbort
FromListeners == {"listeners"} \cup FromJoin

\* Once the listeners stop, a teardown that is not degraded has no work left; once the
\* dependencies close, none of its owners ever failed.
WorkClean ==
    /\ wk.stage = "cleanup" => wk.degraded
    /\ wk.stage \in FromListeners /\ ~wk.degraded => AllDrained /\ ~work["consumer"].failed
    /\ wk.stage \in FromClose /\ ~wk.degraded => \A o \in WorkOwners : ~work[o].failed

\* What each stage closed stays closed, and no listener failed before its stage.
OwnClean ==
    /\ wk.stage \in FromJoin => own.open \cap {"health", "diagnostics"} = {}
    /\ wk.stage \in FromJoin /\ ~wk.degraded => own.failed = {}
    /\ wk.stage \in FromTrace /\ ~wk.degraded => own.open \cap {"pool", "messaging"} = {}
    /\ wk.stage \in FromLog /\ ~wk.degraded => own.open \subseteq {"logger"}
    /\ wk.stage \in {"runtime", "exited"} /\ ~wk.degraded => own.open = {}

\* After the join no background task runs, and none failed before it.
BgClean ==
    /\ wk.stage \in FromAbort => \A t \in WkTasks : bg.task[t] # "run"
    /\ wk.stage \in FromAbort /\ ~wk.degraded => ~bg.failure /\ WkLiveTasks = {}

\* What the process will report.
WkTold ==
    /\ wk.stage \in Early => ~wk.failure /\ ~wk.degraded
    /\ wk.stage \notin {"runtime", "exited"} => wk.code = "none"
    /\ wk.code \in {"0", "3"} => ~wk.failure
    /\ wk.code = "0" => ~wk.degraded
    /\ wk.panicked => wk.degraded
    /\ wk.stage \notin Early /\ ~wk.failure => ~wk.lost

WkGrace == (wk.stage # "exited" => ValidateGraceBudget(wk.cfg)) /\ GraceCovers

WkInv == WkTyped /\ WorkClean /\ OwnClean /\ BgClean /\ WkTold /\ WkGrace

LEMMA WkNats ==
    /\ {WkCleanup, WkListeners, WkJoin, WkClose, WkFlush, WkSlack, WkRuntime, WkLogReserve} \subseteq Nat
    /\ WkTail \in Nat /\ WkTail >= WkCleanup + WkRuntime
    /\ \A s \in WkSettings : s.grace \in Nat /\ s.drain \in Nat
BY WorkerAssumption DEF WkTail, WkSetting

\* An admitted configuration has its whole tail in the grace.
LEMMA AdmittedGrace ==
    ASSUME NEW s, WkRefused(s) = "ok"
    PROVE  ValidateGraceBudget(s)
<1> DEFINE checks == << <<"config" \in s.faults, "Load">>,
             <<~ValidateGraceBudget(s), "GraceBudget">>,
             <<"runtime" \in s.faults, "Runtime">>,
             <<"signals" \in s.faults, "Signals">> >>
<1>1. DOMAIN checks = 1..4 /\ \A i \in 1..4 : checks[i][2] # "ok"
  OBVIOUS
<1>2. checks[2][1] <=> ~ValidateGraceBudget(s)
  OBVIOUS
<1>3. First(checks) = "ok"
  BY DEF WkRefused
<1> HIDE DEF checks
<1>4. \A i \in 1..4 : ~checks[i][1]
  BY <1>1, <1>3, FirstOk
<1> QED BY <1>2, <1>4

\* The allotments of the teardown
LEMMA WkWantIs ==
    /\ DOMAIN WkWant = {"cleanup", "listeners", "join", "abort", "trace"}
    /\ \A s \in DOMAIN WkWant : WkWant[s] \in Nat
    /\ WkWant["cleanup"] = WkCleanup
BY WkNats DEF WkWant

LEMMA WkAfterIs ==
    /\ DOMAIN WkAfter = {"drain", "cleanup", "listeners", "join", "abort", "close", "trace"}
    /\ WkAfter["drain"] = "cleanup" /\ WkAfter["cleanup"] = "listeners" /\ WkAfter["listeners"] = "join"
    /\ WkAfter["join"] = "abort" /\ WkAfter["abort"] = "close" /\ WkAfter["close"] = "trace"
    /\ WkAfter["trace"] = "log"
BY DEF WkAfter

\* What a stage is given fits into what is left.
LEMMA WkAllotted ==
    ASSUME wk \in WkProc, NEW want \in Nat
    PROVE  WkRemaining(want) \in Nat /\ WkRemaining(want) <= want
<1>1. wk.left \in Nat /\ WkRuntime \in Nat
  BY WkNats DEF WkProc
<1> QED BY <1>1 DEF WkRemaining, Lesser, Lower

\* The next stage begins: what it is given, and what it takes over.
LEMMA EnterIs ==
    ASSUME wk \in WkProc, NEW next \in WkStages, NEW unclean \in BOOLEAN, WkEnter(next, unclean)
    PROVE  /\ wk' \in WkProc
           /\ wk'.stage = next /\ (wk'.degraded <=> wk.degraded \/ unclean)
           /\ wk'.cfg = wk.cfg /\ wk'.left = wk.left /\ wk'.code = wk.code
           /\ wk'.failure = wk.failure /\ wk'.panicked = wk.panicked /\ wk'.lost = wk.lost
           /\ next = "cleanup" => wk'.timer <= WkCleanup
<1> DEFINE given == IF next \in DOMAIN WkWant THEN WkRemaining(WkWant[next]) ELSE wk.outer
           timer == IF next = "trace" THEN Lower(given, WkLogReserve) ELSE given
           unclear == wk.degraded \/ unclean
<1>1. given \in Nat /\ (next = "cleanup" => given <= WkCleanup)
  <2>1. wk.outer \in Nat
    BY DEF WkProc
  <2> QED BY <2>1, WkWantIs, WkAllotted
<1>2. timer \in Nat /\ (next = "cleanup" => timer <= WkCleanup)
  <2> HIDE DEF given
  <2> QED BY <1>1, WkNats DEF Lower
<1>3. unclear \in BOOLEAN
  OBVIOUS
<1>4. wk' = [wk EXCEPT !.stage = next, !.degraded = unclear, !.outer = given, !.timer = timer, !.pending = FALSE]
  BY DEF WkEnter, WkProc
<1> HIDE DEF given, timer, unclear
<1>5. wk' \in WkProc /\ wk'.stage = next /\ wk'.degraded = unclear /\ wk'.timer = timer
      /\ wk'.cfg = wk.cfg /\ wk'.left = wk.left /\ wk'.code = wk.code
      /\ wk'.failure = wk.failure /\ wk'.panicked = wk.panicked /\ wk'.lost = wk.lost
  BY <1>1, <1>2, <1>3, <1>4 DEF WkProc
<1> QED BY <1>2, <1>5 DEF unclear

\* While startup and service last there is nothing to claim yet.
LEMMA EarlyKeeps ==
    ASSUME WkInv, WkTyped', wk.stage \in Early, wk'.stage \in Early,
           wk'.cfg = wk.cfg, wk'.failure = wk.failure, wk'.degraded = wk.degraded,
           wk'.panicked = wk.panicked, wk'.code = wk.code
    PROVE  WkInv'
<1>1. WorkClean' /\ OwnClean' /\ BgClean'
  BY DEF WorkClean, OwnClean, BgClean, Early, FromListeners, FromJoin, FromAbort, FromClose, FromTrace, FromLog
<1>2. WkTold'
  BY DEF WkInv, WkTold, Early
<1>3. WkGrace'
  BY DEF WkInv, WkGrace, GraceCovers, Early, ValidateGraceBudget
<1> QED BY <1>1, <1>2, <1>3 DEF WkInv

\* What may happen beside a stage: an owner that has drained stays as it is, a task that does
\* not run never will, and a failure has someone to fail.
LEMMA BesideKeeps ==
    ASSUME WkInv, WkTyped', wk'.stage = wk.stage, wk'.degraded = wk.degraded,
           \A o \in WorkOwners : OwnerDrained(o) => work'[o] = work[o],
           own'.open = own.open,
           own'.failed = own.failed \/ own.open \cap {"health", "diagnostics"} # {},
           \A t \in WkTasks : bg'.task[t] = bg.task[t] \/ (bg.task[t] \in {"run", "aborting"} /\ bg'.task[t] = "ended"),
           \/ bg'.failure = bg.failure \/ \E t \in WkTasks : bg.task[t] = "run"
           \/ own.open \cap {"health", "diagnostics"} # {}
    PROVE  WorkClean' /\ OwnClean' /\ BgClean'
<1>1. FromClose \subseteq FromListeners /\ FromAbort \subseteq FromJoin
  BY DEF FromListeners, FromJoin, FromAbort, FromClose
<1>2. WorkClean'
  BY <1>1 DEF WkInv, WorkClean, AllDrained, OwnerDrained, WorkOwners
<1>3. OwnClean'
  BY DEF WkInv, OwnClean
<1>4. BgClean'
  BY <1>1 DEF WkInv, BgClean, OwnClean, WkLiveTasks
<1> QED BY <1>2, <1>3, <1>4

\* The process as far as its report and its deadline go
LEMMA ProcKeeps ==
    ASSUME WkInv, wk'.stage = wk.stage, wk'.cfg = wk.cfg, wk'.left = wk.left, wk'.timer = wk.timer,
           wk'.failure = wk.failure, wk'.degraded = wk.degraded, wk'.panicked = wk.panicked,
           wk'.code = wk.code, wk'.lost = wk.lost
    PROVE  WkTold' /\ WkGrace'
BY DEF WkInv, WkTold, WkGrace, GraceCovers, ValidateGraceBudget

\* Startup and service
LEMMA StartupKeeps ==
    ASSUME WkInv, StepBegins \/ StepEnds \/ ServeWork \/ ProgressLost \/ \E o \in WorkOwners : StartOwner(o)
    PROVE  WkInv'
<1>0. WkTyped /\ wk.stage \in Early
  BY DEF WkInv, Early, StepBegins, StepEnds, ServeWork, ProgressLost, StartOwner
<1>1. CASE StepBegins
  <2>1. StepOpens \subseteq WkHeld
    BY DEF StepOpens, WkHeld
  <2>2. WkTyped'
    BY <1>0, <1>1, <2>1 DEF StepBegins, WkTyped
  <2> QED BY <1>0, <1>1, <2>2, EarlyKeeps DEF StepBegins
<1>2. CASE StepEnds
  <2>1. work' \in [WorkOwners -> WkOwner]
    <3>1. [Unowned EXCEPT !.loop = "ready"] \in WkOwner
      <4>1. Unowned \in WkOwner
        BY DEF Unowned, WkOwner
      <4> QED BY ONLY <4>1 DEF WkOwner
    <3> QED BY <1>0, <1>2, <3>1 DEF StepEnds, WkTyped
  <2>2. bg' \in [task: [WkTasks -> {"none", "run", "aborting", "ended"}], failure: BOOLEAN]
    <3>1. WkSpawned \in [WkTasks -> {"none", "run", "aborting", "ended"}]
      BY <1>0 DEF WkSpawned, WkTyped
    <3> QED BY <1>0, <1>2, <3>1 DEF StepEnds, WkTyped
  <2>3. /\ wk' \in WkProc /\ wk'.stage \in Early
        /\ wk'.cfg = wk.cfg /\ wk'.failure = wk.failure /\ wk'.degraded = wk.degraded
        /\ wk'.panicked = wk.panicked /\ wk'.code = wk.code
    <3>1. wk \in WkProc /\ wk.step + 1 \in Nat
      BY <1>0 DEF WkTyped, WkProc
    <3>2. wk' = [wk EXCEPT !.step = wk.step + 1] \/ wk' = [wk EXCEPT !.stage = "start"]
      BY <1>2 DEF StepEnds
    <3>3. wk.stage \in Early
      BY <1>0
    <3> QED BY ONLY <3>1, <3>2, <3>3 DEF WkProc, WkStages, Early
  <2>4. WkTyped'
    BY <1>0, <1>2, <2>1, <2>2, <2>3 DEF StepEnds, WkTyped
  <2> QED BY <1>0, <2>3, <2>4, EarlyKeeps
<1>3. CASE ServeWork
  <2>1. /\ wk' \in WkProc /\ wk'.stage = "serve"
        /\ wk'.cfg = wk.cfg /\ wk'.failure = wk.failure /\ wk'.degraded = wk.degraded
        /\ wk'.panicked = wk.panicked /\ wk'.code = wk.code
    BY <1>0, <1>3 DEF ServeWork, WkTyped, WkProc, WkStages
  <2>2. WkTyped'
    BY <1>0, <1>3, <2>1 DEF ServeWork, WkTyped
  <2> QED BY <1>0, <2>1, <2>2, EarlyKeeps DEF Early
<1>4. CASE ProgressLost
  <2>1. /\ wk' \in WkProc /\ wk'.stage = wk.stage
        /\ wk'.cfg = wk.cfg /\ wk'.failure = wk.failure /\ wk'.degraded = wk.degraded
        /\ wk'.panicked = wk.panicked /\ wk'.code = wk.code
    <3>1. wk \in WkProc /\ wk.faults + 1 \in Nat
      BY <1>0 DEF WkTyped, WkProc
    <3>2. wk' = [wk EXCEPT !.lost = TRUE, !.faults = wk.faults + 1]
      BY <1>4 DEF ProgressLost
    <3> QED BY ONLY <3>1, <3>2 DEF WkProc
  <2>2. WkTyped'
    BY <1>0, <1>4, <2>1 DEF ProgressLost, WkTyped
  <2> QED BY <1>0, <2>1, <2>2, EarlyKeeps
<1>5. CASE \E o \in WorkOwners : StartOwner(o)
  <2>1. PICK o \in WorkOwners : StartOwner(o)
    BY <1>5
  <2>2. work' \in [WorkOwners -> WkOwner]
    BY <1>0, <2>1 DEF StartOwner, WkTyped, WkOwner
  <2>3. WkTyped'
    BY <1>0, <2>1, <2>2 DEF StartOwner, WkTyped
  <2> QED BY <1>0, <2>1, <2>3, EarlyKeeps DEF StartOwner
<1> QED BY <1>1, <1>2, <1>3, <1>4, <1>5

\* The worker stops: a failure that is on record is part of the plan, and the drain leaves the
\* whole tail.
LEMMA StopKeeps ==
    ASSUME WkInv, NEW error \in BOOLEAN, NEW stalled \in BOOLEAN, StopWorker(error, stalled)
    PROVE  WkInv'
<1>0. WkTyped /\ wk.stage \in Early /\ wk \in WkProc
  BY DEF WkInv, WkTyped, Early, StopWorker
<1> DEFINE budget == IF WorkStarted THEN Lesser(wk.cfg.drain, Lower(wk.cfg.grace, WkRuntime)) ELSE 0
           failure == error \/ stalled \/ WkPendingFailure
<1>1. wk' = [wk EXCEPT !.stage = "drain", !.pending = FALSE, !.left = wk.cfg.grace,
                       !.failure = failure, !.outer = budget, !.timer = budget]
  BY DEF StopWorker
<1>2. wk.cfg.grace \in Nat /\ wk.cfg.drain \in Nat /\ wk.cfg.grace >= wk.cfg.drain + WkTail
  <2>1. wk.cfg \in WkSettings
    BY <1>0 DEF WkProc
  <2>2. ValidateGraceBudget(wk.cfg)
    BY <1>0 DEF WkInv, WkGrace, Early
  <2> QED BY <2>1, <2>2, WkNats DEF ValidateGraceBudget
<1>3. budget \in Nat /\ budget <= wk.cfg.drain
  BY <1>2, WkNats DEF Lesser, Lower
<1>4. failure \in BOOLEAN /\ (~failure => ~wk.lost)
  <2>1. failure \in BOOLEAN
    BY Zenon
  <2>2. wk.lost => WkPendingFailure
    BY DEF WkPendingFailure
  <2> QED BY <2>1, <2>2, Zenon
<1> HIDE DEF budget, failure
<1>5. /\ wk' \in WkProc /\ wk'.stage = "drain" /\ wk'.failure = failure /\ wk'.timer = budget
      /\ wk'.cfg = wk.cfg /\ wk'.left = wk.cfg.grace /\ wk'.lost = wk.lost
      /\ wk'.degraded = wk.degraded /\ wk'.panicked = wk.panicked /\ wk'.code = wk.code
  BY <1>0, <1>1, <1>2, <1>3, <1>4 DEF WkProc, WkStages
<1>6. WkTyped'
  <2>1. StopWork \in [WorkOwners -> WkOwner]
    BY <1>0 DEF StopWork, WkTyped, WkOwner, Unowned
  <2> QED BY <1>0, <1>5, <2>1 DEF StopWorker, WkTyped
<1>7. WorkClean' /\ OwnClean' /\ BgClean'
  BY <1>5 DEF WorkClean, OwnClean, BgClean, FromListeners, FromJoin, FromAbort, FromClose, FromTrace, FromLog
<1>8. WkTold'
  BY <1>0, <1>4, <1>5 DEF WkInv, WkTold, Early
<1>9. WkGrace'
  BY <1>2, <1>3, <1>5, WkNats DEF WkGrace, GraceCovers, ValidateGraceBudget
<1> QED BY <1>6, <1>7, <1>8, <1>9 DEF WkInv

\* Signals and time
LEMMA ClockKeeps ==
    ASSUME WkInv, StopSignal \/ WkTick
    PROVE  WkInv'
<1>0. WkTyped /\ wk \in WkProc
  BY DEF WkInv, WkTyped
<1>1. CASE StopSignal
  <2>1. /\ wk' \in WkProc /\ wk'.stage = wk.stage /\ wk'.cfg = wk.cfg /\ wk'.left = wk.left
        /\ wk'.timer = wk.timer /\ wk'.failure = wk.failure /\ wk'.degraded = wk.degraded
        /\ wk'.panicked = wk.panicked /\ wk'.code = wk.code /\ wk'.lost = wk.lost
    <3>1. wk.stops + 1 \in Nat
      BY <1>0 DEF WkProc
    <3>2. wk' = [wk EXCEPT !.pending = TRUE, !.stops = wk.stops + 1]
      BY <1>1 DEF StopSignal
    <3> QED BY ONLY <1>0, <3>1, <3>2 DEF WkProc
  <2>2. WkTyped'
    BY <1>0, <1>1, <2>1 DEF StopSignal, WkTyped
  <2>3. WorkClean' /\ OwnClean' /\ BgClean'
    BY <1>0, <1>1, <2>1, <2>2, BesideKeeps DEF StopSignal
  <2>4. WkTold' /\ WkGrace'
    BY <2>1, ProcKeeps
  <2> QED BY <2>2, <2>3, <2>4 DEF WkInv
<1>2. CASE WkTick
  <2>1. wk.left \in Nat /\ wk.outer \in Nat /\ wk.timer \in Nat /\ wk.timer > 0
    BY <1>0, <1>2 DEF WkTick, WkProc
  <2>2. Lower(wk.left, 1) \in Nat /\ Lower(wk.outer, 1) \in Nat /\ wk.timer - 1 \in Nat
    BY <2>1 DEF Lower
  <2>3. /\ wk' \in WkProc /\ wk'.stage = wk.stage /\ wk'.cfg = wk.cfg /\ wk'.left = Lower(wk.left, 1)
        /\ wk'.timer = wk.timer - 1 /\ wk'.failure = wk.failure /\ wk'.degraded = wk.degraded
        /\ wk'.panicked = wk.panicked /\ wk'.code = wk.code /\ wk'.lost = wk.lost
    BY <1>0, <1>2, <2>2 DEF WkTick, WkProc
  <2>4. WkTyped'
    BY <1>0, <1>2, <2>3 DEF WkTick, WkTyped
  <2>5. WorkClean' /\ OwnClean' /\ BgClean'
    BY <1>0, <1>2, <2>3, <2>4, BesideKeeps DEF WkTick
  <2>6. WkTold'
    BY <2>3 DEF WkInv, WkTold
  <2>7. WkGrace'
    BY <2>1, <2>3, WkNats DEF WkInv, WkGrace, GraceCovers, ValidateGraceBudget, Lower
  <2> QED BY <2>4, <2>5, <2>6, <2>7 DEF WkInv
<1> QED BY <1>1, <1>2

\* A counted failure changes nothing else of the process.
LEMMA FaultIs ==
    ASSUME wk \in WkProc, WkFault \/ UNCHANGED wk
    PROVE  /\ wk' \in WkProc /\ wk'.stage = wk.stage /\ wk'.cfg = wk.cfg /\ wk'.left = wk.left
           /\ wk'.timer = wk.timer /\ wk'.failure = wk.failure /\ wk'.degraded = wk.degraded
           /\ wk'.panicked = wk.panicked /\ wk'.code = wk.code /\ wk'.lost = wk.lost
<1>1. wk.faults + 1 \in Nat
  BY DEF WkProc
<1>2. wk' = wk \/ wk' = [wk EXCEPT !.faults = wk.faults + 1]
  BY DEF WkFault
<1>3. wk \in WkProc
  OBVIOUS
<1> QED BY ONLY <1>1, <1>2, <1>3 DEF WkProc

\* An owner of work moves, beside any stage.
LEMMA OwnerKeeps ==
    ASSUME WkInv, NEW o \in WorkOwners, ClaimLands(o) \/ AttemptEnds(o) \/ LoopExits(o) \/ OwnerFails(o)
    PROVE  WkInv'
<1>0. WkTyped /\ wk \in WkProc /\ work \in [WorkOwners -> WkOwner]
  BY DEF WkInv, WkTyped
<1>1. UNCHANGED <<own, bg>> /\ (WkFault \/ UNCHANGED wk)
  BY DEF ClaimLands, AttemptEnds, LoopExits, OwnerFails
<1>2. /\ wk' \in WkProc /\ wk'.stage = wk.stage /\ wk'.cfg = wk.cfg /\ wk'.left = wk.left
      /\ wk'.timer = wk.timer /\ wk'.failure = wk.failure /\ wk'.degraded = wk.degraded
      /\ wk'.panicked = wk.panicked /\ wk'.code = wk.code /\ wk'.lost = wk.lost
  BY <1>0, <1>1, FaultIs
<1>3. PICK r \in WkOwner : work' = [work EXCEPT ![o] = r]
  <2>1. CASE ClaimLands(o)
    <3>1. work' = [work EXCEPT ![o] = [work[o] EXCEPT !.flight = 1]] /\ [work[o] EXCEPT !.flight = 1] \in WkOwner
      BY <1>0, <2>1 DEF ClaimLands, WkOwner
    <3> QED BY <3>1
  <2>2. CASE AttemptEnds(o)
    <3>1. work' = [work EXCEPT ![o] = [work[o] EXCEPT !.flight = 0]] /\ [work[o] EXCEPT !.flight = 0] \in WkOwner
      BY <1>0, <2>2 DEF AttemptEnds, WkOwner
    <3> QED BY <3>1
  <2>3. CASE LoopExits(o)
    <3>1. work' = [work EXCEPT ![o] = [work[o] EXCEPT !.loop = "ended"]] /\ [work[o] EXCEPT !.loop = "ended"] \in WkOwner
      BY <1>0, <2>3 DEF LoopExits, WkOwner
    <3> QED BY <3>1
  <2>4. CASE OwnerFails(o)
    <3> DEFINE r == [work[o] EXCEPT !.failed = TRUE, !.loop = "stopping"]
    <3>1. work' = [work EXCEPT ![o] = r]
      BY <1>0, <2>4 DEF OwnerFails, WkOwner
    <3>2. r \in WkOwner
      BY <1>0 DEF WkOwner
    <3> QED BY <3>1, <3>2
  <2> QED BY <2>1, <2>2, <2>3, <2>4
<1>4. ~OwnerDrained(o)
  BY <1>0 DEF ClaimLands, AttemptEnds, LoopExits, OwnerFails, OwnerDrained
<1>5. WkTyped' /\ \A d \in WorkOwners : OwnerDrained(d) => work'[d] = work[d]
  BY <1>0, <1>1, <1>2, <1>3, <1>4 DEF WkTyped
<1>6. WorkClean' /\ OwnClean' /\ BgClean'
  BY <1>1, <1>2, <1>5, BesideKeeps
<1>7. WkTold' /\ WkGrace'
  BY <1>2, ProcKeeps
<1> QED BY <1>5, <1>6, <1>7 DEF WkInv

\* A background task ends, is aborted, or a listener fails, beside any stage.
LEMMA TaskKeeps ==
    ASSUME WkInv,
           \/ \E t \in WkTasks : WkAbortLands(t) \/ \E panics \in BOOLEAN : WkTaskEnds(t, panics)
           \/ \E l \in {"health", "diagnostics"} : ListenerFails(l)
    PROVE  WkInv'
<1>0. /\ WkTyped /\ wk \in WkProc /\ own \in [open: SUBSET WkHeld, failed: SUBSET {"health", "diagnostics"}]
      /\ bg \in [task: [WkTasks -> {"none", "run", "aborting", "ended"}], failure: BOOLEAN]
  BY DEF WkInv, WkTyped
<1>1. UNCHANGED work /\ (WkFault \/ UNCHANGED wk)
  BY DEF WkAbortLands, WkTaskEnds, ListenerFails
<1>2. /\ wk' \in WkProc /\ wk'.stage = wk.stage /\ wk'.cfg = wk.cfg /\ wk'.left = wk.left
      /\ wk'.timer = wk.timer /\ wk'.failure = wk.failure /\ wk'.degraded = wk.degraded
      /\ wk'.panicked = wk.panicked /\ wk'.code = wk.code /\ wk'.lost = wk.lost
  BY <1>0, <1>1, FaultIs
<1>3. /\ own' \in [open: SUBSET WkHeld, failed: SUBSET {"health", "diagnostics"}]
      /\ own'.open = own.open
      /\ own'.failed = own.failed \/ own.open \cap {"health", "diagnostics"} # {}
  BY <1>0 DEF WkAbortLands, WkTaskEnds, ListenerFails
<1>4. /\ bg' \in [task: [WkTasks -> {"none", "run", "aborting", "ended"}], failure: BOOLEAN]
      /\ \A t \in WkTasks : bg'.task[t] = bg.task[t] \/ (bg.task[t] \in {"run", "aborting"} /\ bg'.task[t] = "ended")
      /\ \/ bg'.failure = bg.failure \/ \E t \in WkTasks : bg.task[t] = "run"
         \/ own.open \cap {"health", "diagnostics"} # {}
  <2>1. ASSUME NEW t \in WkTasks, WkAbortLands(t) PROVE <1>4!1 /\ <1>4!2 /\ <1>4!3
    BY <1>0, <2>1 DEF WkAbortLands
  <2>2. ASSUME NEW t \in WkTasks, NEW panics \in BOOLEAN, WkTaskEnds(t, panics) PROVE <1>4!1 /\ <1>4!2 /\ <1>4!3
    <3>1. (bg.failure \/ panics \/ ~WkCancelled) \in BOOLEAN
      BY Zenon
    <3> QED BY <1>0, <2>2, <3>1 DEF WkTaskEnds
  <2>3. ASSUME NEW l \in {"health", "diagnostics"}, ListenerFails(l) PROVE <1>4!1 /\ <1>4!2 /\ <1>4!3
    <3>1. (bg.failure \/ ~WkCancelled) \in BOOLEAN
      BY Zenon
    <3> QED BY <1>0, <2>3, <3>1 DEF ListenerFails
  <2> QED BY <2>1, <2>2, <2>3
<1>5. WkTyped'
  BY <1>0, <1>1, <1>2, <1>3, <1>4 DEF WkTyped
<1>6. WorkClean' /\ OwnClean' /\ BgClean'
  BY <1>1, <1>2, <1>3, <1>4, <1>5, BesideKeeps
<1>7. WkTold' /\ WkGrace'
  BY <1>2, ProcKeeps
<1> QED BY <1>5, <1>6, <1>7 DEF WkInv

\* The consumer is dropped after the cleanup.
LEMMA ConsumerDropped ==
    ASSUME WkTyped,
           work' = [work EXCEPT !["consumer"].loop = IF @ = "none" THEN @ ELSE "ended", !["consumer"].flight = 0]
    PROVE  /\ work' \in [WorkOwners -> WkOwner]
           /\ AllDrained => /\ AllDrained'
                            /\ \A o \in WorkOwners : work'[o].failed = work[o].failed
<1> DEFINE old == work["consumer"]
           last == IF old.loop = "none" THEN old.loop ELSE "ended"
           r == [old EXCEPT !.loop = last, !.flight = 0]
<1>0. work \in [WorkOwners -> WkOwner] /\ "consumer" \in WorkOwners
  BY DEF WkTyped, WorkOwners
<1>1. work' = [work EXCEPT !["consumer"] = r]
  BY <1>0 DEF WkOwner
<1>2. r \in WkOwner /\ r.failed = old.failed /\ r.flight = 0 /\ r.loop \in {"none", "ended"}
  <2>1. old \in WkOwner /\ last \in {"none", "ended"} /\ 0 \in 0..1
    BY <1>0
  <2> HIDE DEF last, old
  <2> QED BY ONLY <2>1 DEF WkOwner, r
<1> HIDE DEF r
<1> QED BY <1>0, <1>1, <1>2 DEF AllDrained, OwnerDrained

\* A stage of the teardown hands over to the next one: what is left to show is what that one
\* may count on.
LEMMA HandOver ==
    ASSUME WkInv, wk' \in WkProc, wk'.cfg = wk.cfg, wk'.left = wk.left, wk'.code = wk.code,
           wk'.failure = wk.failure, wk'.lost = wk.lost,
           wk.degraded => wk'.degraded, wk'.panicked => wk'.degraded,
           \/ wk.stage = "drain" /\ wk'.stage \in {"cleanup", "listeners"}
           \/ wk.stage = "cleanup" /\ wk'.stage = "listeners"
           \/ wk.stage = "listeners" /\ wk'.stage = "join"
           \/ wk.stage = "join" /\ wk'.stage = "abort"
           \/ wk.stage = "abort" /\ wk'.stage = "close"
           \/ wk.stage = "close" /\ wk'.stage = "trace"
           \/ wk.stage = "trace" /\ wk'.stage = "log",
           wk'.stage = "cleanup" => wk'.timer <= WkCleanup
    PROVE  WkTold' /\ WkGrace'
<1>1. WkTold'
  BY DEF WkInv, WkTold, Early
<1>2. ValidateGraceBudget(wk'.cfg)
  BY DEF WkInv, WkGrace
<1>3. GraceCovers'
  <2>1. CASE wk'.stage = "cleanup"
    <3>1. wk.left \in Nat /\ wk.timer \in Nat /\ wk'.timer \in Nat
      BY DEF WkInv, WkTyped, WkProc
    <3>2. wk.left >= wk.timer + WkTail
      BY <2>1 DEF WkInv, WkGrace, GraceCovers
    <3>3. WkCleanup \in Nat /\ WkTail \in Nat
      BY WkNats
    <3> QED BY <2>1, <3>1, <3>2, <3>3 DEF GraceCovers
  <2>2. CASE wk'.stage # "cleanup"
    BY <2>2 DEF GraceCovers
  <2> QED BY <2>1, <2>2
<1> QED BY <1>1, <1>2, <1>3 DEF WkGrace, ValidateGraceBudget

LEMMA TeardownKeeps ==
    ASSUME WkInv,
           \/ DrainEnds \/ DrainForced \/ CleanupEnds \/ JoinEnds \/ WkAbortEnds
           \/ \E overran \in BOOLEAN : ListenersEnd(overran) \/ TraceEnds(overran)
           \/ \E overran \in SUBSET {"pool", "messaging"} : DependenciesEnd(overran)
    PROVE  WkInv'
<1> USE DEF FromListeners, FromJoin, FromAbort, FromClose, FromTrace, FromLog
<1>0. /\ WkTyped /\ wk \in WkProc /\ own \in [open: SUBSET WkHeld, failed: SUBSET {"health", "diagnostics"}]
      /\ work \in [WorkOwners -> WkOwner]
      /\ bg \in [task: [WkTasks -> {"none", "run", "aborting", "ended"}], failure: BOOLEAN]
      /\ WorkClean /\ OwnClean /\ BgClean /\ WkTold
      /\ (wk.panicked => wk.degraded)
  BY DEF WkInv, WkTyped, WkTold
<1>1. CASE DrainEnds
  <2> DEFINE next == IF work["consumer"].failed THEN "cleanup" ELSE "listeners"
             unclean == work["consumer"].failed
  <2>1. unclean \in BOOLEAN /\ next \in {"cleanup", "listeners"}
    BY <1>0 DEF WkOwner, WorkOwners
  <2>2. WkEnter(next, unclean) /\ wk.stage = "drain" /\ AllDrained /\ UNCHANGED <<own, work, bg>>
    BY <1>1 DEF DrainEnds
  <2>3. /\ wk' \in WkProc /\ wk'.stage = next /\ (wk'.degraded <=> wk.degraded \/ unclean)
        /\ wk'.cfg = wk.cfg /\ wk'.left = wk.left /\ wk'.code = wk.code
        /\ wk'.failure = wk.failure /\ wk'.panicked = wk.panicked /\ wk'.lost = wk.lost
        /\ next = "cleanup" => wk'.timer <= WkCleanup
    BY <1>0, <2>1, <2>2, EnterIs DEF WkStages
  <2>4. WkTold' /\ WkGrace'
    BY <1>0, <2>1, <2>2, <2>3, HandOver
  <2>5. WkTyped'
    BY <1>0, <2>2, <2>3 DEF WkTyped
  <2>6. WorkClean' /\ OwnClean' /\ BgClean'
    BY <2>2, <2>3 DEF WorkClean, OwnClean, BgClean, AllDrained, OwnerDrained
  <2> QED BY <2>4, <2>5, <2>6 DEF WkInv
<1>2. CASE DrainForced
  <2>1. WkEnter("cleanup", TRUE) /\ wk.stage = "drain" /\ UNCHANGED <<own, work, bg>>
    BY <1>2 DEF DrainForced
  <2>2. /\ wk' \in WkProc /\ wk'.stage = "cleanup" /\ wk'.degraded
        /\ wk'.cfg = wk.cfg /\ wk'.left = wk.left /\ wk'.code = wk.code
        /\ wk'.failure = wk.failure /\ wk'.panicked = wk.panicked /\ wk'.lost = wk.lost
        /\ wk'.timer <= WkCleanup
    BY <1>0, <2>1, EnterIs DEF WkStages
  <2>3. WkTold' /\ WkGrace'
    BY <1>0, <2>1, <2>2, HandOver
  <2>4. WkTyped'
    BY <1>0, <2>1, <2>2 DEF WkTyped
  <2>5. WorkClean' /\ OwnClean' /\ BgClean'
    BY <2>2 DEF WorkClean, OwnClean, BgClean
  <2> QED BY <2>3, <2>4, <2>5 DEF WkInv
<1>3. CASE CleanupEnds
  <2>1. /\ WkEnter("listeners", ~AllDrained) /\ wk.stage = "cleanup" /\ wk.degraded /\ UNCHANGED <<own, bg>>
        /\ (~AllDrained) \in BOOLEAN
    BY <1>0, <1>3 DEF CleanupEnds, WorkClean
  <2>2. /\ wk' \in WkProc /\ wk'.stage = "listeners" /\ wk'.degraded
        /\ wk'.cfg = wk.cfg /\ wk'.left = wk.left /\ wk'.code = wk.code
        /\ wk'.failure = wk.failure /\ wk'.panicked = wk.panicked /\ wk'.lost = wk.lost
    BY <1>0, <2>1, EnterIs DEF WkStages
  <2>3. WkTold' /\ WkGrace'
    BY <1>0, <2>1, <2>2, HandOver
  <2>4. work' \in [WorkOwners -> WkOwner]
    BY <1>0, <1>3, ConsumerDropped DEF CleanupEnds
  <2>5. WkTyped'
    BY <1>0, <2>1, <2>2, <2>4 DEF WkTyped
  <2>6. WorkClean' /\ OwnClean' /\ BgClean'
    BY <2>2 DEF WorkClean, OwnClean, BgClean
  <2> QED BY <2>3, <2>5, <2>6 DEF WkInv
<1>4. ASSUME NEW overran \in BOOLEAN, ListenersEnd(overran) PROVE WkInv'
  <2> DEFINE unclean == overran \/ own.failed # {}
  <2>1. WkEnter("join", unclean) /\ wk.stage = "listeners" /\ UNCHANGED <<work, bg>> /\ unclean \in BOOLEAN
    BY <1>4 DEF ListenersEnd
  <2>2. /\ wk' \in WkProc /\ wk'.stage = "join" /\ (wk'.degraded <=> wk.degraded \/ unclean)
        /\ wk'.cfg = wk.cfg /\ wk'.left = wk.left /\ wk'.code = wk.code
        /\ wk'.failure = wk.failure /\ wk'.panicked = wk.panicked /\ wk'.lost = wk.lost
    BY <1>0, <2>1, EnterIs DEF WkStages
  <2>3. WkTold' /\ WkGrace'
    BY <1>0, <2>1, <2>2, HandOver
  <2>4. /\ own' \in [open: SUBSET WkHeld, failed: SUBSET {"health", "diagnostics"}]
        /\ own'.open = own.open \ {"health", "diagnostics"} /\ own'.failed = own.failed
    BY <1>0, <1>4 DEF ListenersEnd, ClosingOf
  <2>5. WkTyped'
    BY <1>0, <2>1, <2>2, <2>4 DEF WkTyped
  <2>6. WorkClean' /\ OwnClean' /\ BgClean'
    BY <1>0, <2>1, <2>2, <2>4 DEF WorkClean, OwnClean, BgClean, AllDrained, OwnerDrained
  <2> QED BY <2>3, <2>5, <2>6 DEF WkInv
<1>5. CASE JoinEnds
  <2> DEFINE unclean == bg.failure \/ WkLiveTasks # {} \/ LiveLoops # {}
  <2>1. WkEnter("abort", unclean) /\ wk.stage = "join" /\ UNCHANGED <<own, work>> /\ unclean \in BOOLEAN
    BY <1>5 DEF JoinEnds
  <2>2. /\ wk' \in WkProc /\ wk'.stage = "abort" /\ (wk'.degraded <=> wk.degraded \/ unclean)
        /\ wk'.cfg = wk.cfg /\ wk'.left = wk.left /\ wk'.code = wk.code
        /\ wk'.failure = wk.failure /\ wk'.panicked = wk.panicked /\ wk'.lost = wk.lost
    BY <1>0, <2>1, EnterIs DEF WkStages
  <2>3. WkTold' /\ WkGrace'
    BY <1>0, <2>1, <2>2, HandOver
  <2>4. /\ bg' \in [task: [WkTasks -> {"none", "run", "aborting", "ended"}], failure: BOOLEAN]
        /\ bg'.failure = bg.failure /\ \A t \in WkTasks : bg'.task[t] # "run"
        /\ WkLiveTasks = {} => WkLiveTasks' = {}
    BY <1>0, <1>5 DEF JoinEnds, WkAborting, WkLiveTasks
  <2>5. WkTyped'
    BY <1>0, <2>1, <2>2, <2>4 DEF WkTyped
  <2>6. WorkClean' /\ OwnClean'
    BY <1>0, <2>1, <2>2 DEF WorkClean, OwnClean, AllDrained, OwnerDrained
  <2>7. BgClean'
    BY <2>2, <2>4 DEF BgClean
  <2> QED BY <2>3, <2>5, <2>6, <2>7 DEF WkInv
<1>6. CASE WkAbortEnds
  <2> DEFINE unclean == \/ WkLiveTasks # {} \/ LiveLoops # {}
                        \/ \E e \in WkEngines : work[e].failed
  <2>1. WkEnter("close", unclean) /\ wk.stage = "abort" /\ UNCHANGED <<own, work, bg>> /\ unclean \in BOOLEAN
    BY <1>6 DEF WkAbortEnds
  <2>2. /\ wk' \in WkProc /\ wk'.stage = "close" /\ (wk'.degraded <=> wk.degraded \/ unclean)
        /\ wk'.cfg = wk.cfg /\ wk'.left = wk.left /\ wk'.code = wk.code
        /\ wk'.failure = wk.failure /\ wk'.panicked = wk.panicked /\ wk'.lost = wk.lost
    BY <1>0, <2>1, EnterIs DEF WkStages
  <2>3. WkTold' /\ WkGrace'
    BY <1>0, <2>1, <2>2, HandOver
  <2>4. WkTyped'
    BY <1>0, <2>1, <2>2 DEF WkTyped
  <2>5. WorkClean' /\ OwnClean' /\ BgClean'
    BY <1>0, <2>1, <2>2 DEF WorkClean, OwnClean, BgClean, AllDrained, OwnerDrained, WkLiveTasks, WorkOwners
  <2> QED BY <2>3, <2>4, <2>5 DEF WkInv
<1>7. ASSUME NEW overran \in SUBSET {"pool", "messaging"}, DependenciesEnd(overran) PROVE WkInv'
  <2> DEFINE unclean == overran # {} \/ bg.failure
  <2>1. WkEnter("trace", unclean) /\ wk.stage = "close" /\ UNCHANGED <<work, bg>> /\ unclean \in BOOLEAN
    BY <1>7 DEF DependenciesEnd
  <2>2. /\ wk' \in WkProc /\ wk'.stage = "trace" /\ (wk'.degraded <=> wk.degraded \/ unclean)
        /\ wk'.cfg = wk.cfg /\ wk'.left = wk.left /\ wk'.code = wk.code
        /\ wk'.failure = wk.failure /\ wk'.panicked = wk.panicked /\ wk'.lost = wk.lost
    BY <1>0, <2>1, EnterIs DEF WkStages
  <2>3. WkTold' /\ WkGrace'
    BY <1>0, <2>1, <2>2, HandOver
  <2>4. /\ own' \in [open: SUBSET WkHeld, failed: SUBSET {"health", "diagnostics"}]
        /\ own'.open = own.open \ ({"pool", "messaging"} \ overran) /\ own'.failed = own.failed
    BY <1>0, <1>7 DEF DependenciesEnd, ClosingOf
  <2>5. WkTyped'
    BY <1>0, <2>1, <2>2, <2>4 DEF WkTyped
  <2>6. WorkClean' /\ OwnClean' /\ BgClean'
    BY <1>0, <2>1, <2>2, <2>4 DEF WorkClean, OwnClean, BgClean, AllDrained, OwnerDrained, WkLiveTasks
  <2> QED BY <2>3, <2>5, <2>6 DEF WkInv
<1>8. ASSUME NEW incomplete \in BOOLEAN, TraceEnds(incomplete) PROVE WkInv'
  <2> DEFINE unclean == incomplete /\ "tracer" \in own.open
  <2>1. WkEnter("log", unclean) /\ wk.stage = "trace" /\ UNCHANGED <<work, bg>> /\ unclean \in BOOLEAN
    BY <1>8 DEF TraceEnds
  <2>2. /\ wk' \in WkProc /\ wk'.stage = "log" /\ (wk'.degraded <=> wk.degraded \/ unclean)
        /\ wk'.cfg = wk.cfg /\ wk'.left = wk.left /\ wk'.code = wk.code
        /\ wk'.failure = wk.failure /\ wk'.panicked = wk.panicked /\ wk'.lost = wk.lost
    BY <1>0, <2>1, EnterIs DEF WkStages
  <2>3. WkTold' /\ WkGrace'
    BY <1>0, <2>1, <2>2, HandOver
  <2>4. /\ own' \in [open: SUBSET WkHeld, failed: SUBSET {"health", "diagnostics"}]
        /\ own'.open = own.open \ {"tracer", "readiness"} /\ own'.failed = own.failed
    BY <1>0, <1>8 DEF TraceEnds, ClosingOf
  <2>5. WkTyped'
    BY <1>0, <2>1, <2>2, <2>4 DEF WkTyped
  <2>6. own.open \subseteq WkHeld
    BY <1>0
  <2>7. WorkClean' /\ OwnClean' /\ BgClean'
    BY <1>0, <2>1, <2>2, <2>4, <2>6 DEF WorkClean, OwnClean, BgClean, AllDrained, OwnerDrained, WkLiveTasks, WkHeld
  <2> QED BY <2>3, <2>5, <2>7 DEF WkInv
<1> QED BY <1>1, <1>2, <1>3, <1>4, <1>5, <1>6, <1>7, <1>8

\* The exit code is decided, and the runtime ends.
LEMMA ExitKeeps ==
    ASSUME WkInv, RuntimeEnds \/ \E incomplete \in BOOLEAN : LogEnds(incomplete)
    PROVE  WkInv'
<1> USE DEF FromListeners, FromJoin, FromAbort, FromClose, FromTrace, FromLog
<1>0. /\ WkTyped /\ wk \in WkProc /\ own \in [open: SUBSET WkHeld, failed: SUBSET {"health", "diagnostics"}]
      /\ WorkClean /\ OwnClean /\ BgClean /\ WkTold
  BY DEF WkInv, WkTyped
<1>1. CASE RuntimeEnds
  <2>1. wk.stage = "runtime" /\ wk' = [wk EXCEPT !.stage = "exited"] /\ UNCHANGED <<own, work, bg>>
    BY <1>1 DEF RuntimeEnds
  <2>2. /\ wk' \in WkProc /\ wk'.stage = "exited" /\ wk'.degraded = wk.degraded
        /\ wk'.failure = wk.failure /\ wk'.panicked = wk.panicked /\ wk'.lost = wk.lost /\ wk'.code = wk.code
    BY <1>0, <2>1 DEF WkProc, WkStages
  <2>3. WkTyped'
    BY <1>0, <2>1, <2>2 DEF WkTyped
  <2>4. WorkClean' /\ OwnClean' /\ BgClean'
    BY <1>0, <2>1, <2>2 DEF WorkClean, OwnClean, BgClean, AllDrained, OwnerDrained, WkLiveTasks
  <2>5. WkTold' /\ WkGrace'
    BY <1>0, <2>1, <2>2 DEF WkTold, WkGrace, GraceCovers, Early
  <2> QED BY <2>3, <2>4, <2>5 DEF WkInv
<1>2. ASSUME NEW incomplete \in BOOLEAN, LogEnds(incomplete) PROVE WkInv'
  <2> DEFINE degraded == wk.degraded \/ (incomplete /\ "logger" \in own.open)
             code == IF wk.failure THEN "1" ELSE IF degraded THEN "3" ELSE "0"
             timer == Lesser(WkRuntime, wk.left)
  <2>1. /\ wk.stage = "log" /\ UNCHANGED <<work, bg>>
        /\ wk' = [wk EXCEPT !.stage = "runtime", !.degraded = degraded, !.code = code, !.timer = timer, !.outer = 0]
    BY <1>2 DEF LogEnds
  <2>2. timer \in Nat
    <3>1. wk.left \in Nat /\ WkRuntime \in Nat
      BY <1>0, WkNats DEF WkProc
    <3> QED BY <3>1 DEF Lesser
  <2>3. degraded \in BOOLEAN /\ (wk.degraded => degraded)
    BY Zenon
  <2>4. /\ code \in {"none", "0", "1", "3"} /\ (code \in {"0", "3"} => ~wk.failure)
        /\ (code = "0" => ~degraded)
    BY Zenon
  <2> HIDE DEF degraded, code, timer
  <2>5. /\ wk' \in WkProc /\ wk'.stage = "runtime" /\ wk'.degraded = degraded /\ wk'.code = code
        /\ wk'.failure = wk.failure /\ wk'.panicked = wk.panicked /\ wk'.lost = wk.lost /\ wk'.cfg = wk.cfg
    BY <1>0, <2>1, <2>2, <2>3, <2>4 DEF WkProc, WkStages
  <2>6. /\ own' \in [open: SUBSET WkHeld, failed: SUBSET {"health", "diagnostics"}]
        /\ own'.open = own.open \ {"logger"} /\ own'.failed = own.failed
    BY <1>0, <1>2 DEF LogEnds, ClosingOf
  <2>7. WkTyped'
    BY <1>0, <2>1, <2>5, <2>6 DEF WkTyped
  <2>8. WorkClean' /\ OwnClean' /\ BgClean'
    BY <1>0, <2>1, <2>3, <2>5, <2>6 DEF WorkClean, OwnClean, BgClean, AllDrained, OwnerDrained, WkLiveTasks
  <2>9. WkTold'
    BY <1>0, <2>1, <2>3, <2>4, <2>5 DEF WkTold, Early
  <2>10. WkGrace'
    BY <2>1, <2>5 DEF WkInv, WkGrace, GraceCovers, ValidateGraceBudget
  <2> QED BY <2>7, <2>8, <2>9, <2>10 DEF WkInv
<1> QED BY <1>1, <1>2

\* A stage that unwinds is degraded, and its successor still finds closed what it counts on.
LEMMA PanicKeeps ==
    ASSUME WkInv, WkStagePanics
    PROVE  WkInv'
<1> USE DEF FromListeners, FromJoin, FromAbort, FromClose, FromTrace, FromLog
<1>0. /\ WkTyped /\ wk \in WkProc /\ own \in [open: SUBSET WkHeld, failed: SUBSET {"health", "diagnostics"}]
      /\ work \in [WorkOwners -> WkOwner]
      /\ bg \in [task: [WkTasks -> {"none", "run", "aborting", "ended"}], failure: BOOLEAN]
      /\ WorkClean /\ OwnClean /\ BgClean /\ WkTold
  BY DEF WkInv, WkTyped
<1> DEFINE next == WkAfter[wk.stage]
           outer == IF next \in DOMAIN WkWant THEN WkRemaining(WkWant[next]) ELSE wk.outer
<1>1. /\ wk.stage \in {"drain", "cleanup", "listeners", "join", "abort", "close", "trace"}
      /\ wk' = [wk EXCEPT !.stage = next, !.degraded = TRUE, !.panicked = TRUE,
                          !.faults = wk.faults + 1, !.outer = outer, !.timer = outer]
  BY WkAfterIs DEF WkStagePanics
<1>2. \/ wk.stage = "drain" /\ next = "cleanup"
      \/ wk.stage = "cleanup" /\ next = "listeners"
      \/ wk.stage = "listeners" /\ next = "join"
      \/ wk.stage = "join" /\ next = "abort"
      \/ wk.stage = "abort" /\ next = "close"
      \/ wk.stage = "close" /\ next = "trace"
      \/ wk.stage = "trace" /\ next = "log"
  BY <1>1, WkAfterIs
<1>3. outer \in Nat /\ (next = "cleanup" => outer <= WkCleanup) /\ wk.faults + 1 \in Nat
  <2>1. wk.outer \in Nat /\ wk.faults + 1 \in Nat
    BY <1>0 DEF WkProc
  <2> QED BY <1>0, <2>1, WkWantIs, WkAllotted
<1> HIDE DEF next, outer
<1>4. /\ wk' \in WkProc /\ wk'.stage = next /\ wk'.degraded /\ wk'.panicked /\ wk'.timer = outer
      /\ wk'.cfg = wk.cfg /\ wk'.left = wk.left /\ wk'.code = wk.code
      /\ wk'.failure = wk.failure /\ wk'.lost = wk.lost
  BY <1>0, <1>1, <1>2, <1>3 DEF WkProc, WkStages
<1>5. WkTold' /\ WkGrace'
  BY <1>2, <1>3, <1>4, HandOver
<1>6. /\ own' \in [open: SUBSET WkHeld, failed: SUBSET {"health", "diagnostics"}]
      /\ own'.open \subseteq own.open
      /\ wk.stage = "listeners" => own'.open \cap {"health", "diagnostics"} = {}
  BY <1>0 DEF WkStagePanics, ClosingOf
<1>7. work' \in [WorkOwners -> WkOwner]
  BY <1>0, ConsumerDropped DEF WkStagePanics
<1>8. /\ bg' \in [task: [WkTasks -> {"none", "run", "aborting", "ended"}], failure: BOOLEAN]
      /\ wk.stage = "join" => \A t \in WkTasks : bg'.task[t] # "run"
      /\ wk.stage # "join" => bg' = bg
  BY <1>0 DEF WkStagePanics, WkAborting
<1>9. WkTyped'
  BY <1>4, <1>6, <1>7, <1>8 DEF WkTyped
<1>10. WorkClean'
  BY <1>4 DEF WorkClean
<1>11. OwnClean'
  BY <1>0, <1>2, <1>4, <1>6 DEF OwnClean
<1>12. BgClean'
  BY <1>0, <1>2, <1>4, <1>8 DEF BgClean
<1> QED BY <1>5, <1>9, <1>10, <1>11, <1>12 DEF WkInv

LEMMA WkKeeps ==
    ASSUME WkInv, [WkNext]_wkVars
    PROVE  WkInv'
<1>1. CASE UNCHANGED wkVars
  <2>1. WkTyped' /\ WorkClean' /\ OwnClean' /\ BgClean'
    BY <1>1 DEF wkVars, WkInv, WkTyped, WorkClean, OwnClean, BgClean, AllDrained, OwnerDrained, WkLiveTasks
  <2>2. WkTold' /\ WkGrace'
    BY <1>1, ProcKeeps DEF wkVars
  <2> QED BY <2>1, <2>2 DEF WkInv
<1> QED BY <1>1, StartupKeeps, StopKeeps, ClockKeeps, OwnerKeeps, TaskKeeps, TeardownKeeps, ExitKeeps,
           PanicKeeps DEF WkNext

\* Whatever stops a jobs worker, fails beside its teardown, panics in one of its stages or lands
\* after the stop: the pool closes under no attempt that a shutdown it calls clean left behind,
\* its exit code is honest, and the admitted grace covers the drain and the cleanup
\* (jobs-worker/src/shutdown.rs, run; bootstrap.rs, validate_grace_budget).
THEOREM WorkerSafe == WkSpec => []WorkerStopsInOrder
<1> USE DEF FromListeners, FromJoin, FromAbort, FromClose, FromTrace, FromLog
<1>1. WkInit => WkInv
  <2> SUFFICES ASSUME WkInit PROVE WkInv
    OBVIOUS
  <2>1. PICK s \in WkSettings :
          wk = [cfg |-> s, step |-> 1, left |-> s.grace, outer |-> 0, timer |-> 0,
                stage |-> IF WkRefused(s) = "ok" THEN "prepare" ELSE "exited",
                code |-> IF WkRefused(s) = "ok" THEN "none" ELSE "1",
                pending |-> FALSE, stops |-> 0, failure |-> FALSE, degraded |-> FALSE,
                panicked |-> FALSE, lost |-> FALSE, faults |-> 0]
    BY DEF WkInit
  <2>2. /\ wk \in WkProc
        /\ wk.cfg = s /\ ~wk.failure /\ ~wk.degraded /\ ~wk.panicked /\ ~wk.lost
        /\ \/ wk.stage = "prepare" /\ WkRefused(s) = "ok" /\ wk.code = "none"
           \/ wk.stage = "exited" /\ wk.code = "1"
    BY <2>1, WkNats DEF WkProc, WkStages
  <2>3. WkTyped
    BY <2>2 DEF WkInit, WkTyped, WkOwner, Unowned
  <2>4. WorkClean
    BY <2>2 DEF WkInit, WorkClean, AllDrained, OwnerDrained, Unowned, WorkOwners
  <2>5. OwnClean /\ BgClean
    BY <2>2 DEF WkInit, OwnClean, BgClean, WkLiveTasks
  <2>6. WkTold
    BY <2>2 DEF WkTold, Early
  <2>7. WkGrace
    BY <2>2, AdmittedGrace DEF WkGrace, GraceCovers
  <2> QED BY <2>3, <2>4, <2>5, <2>6, <2>7 DEF WkInv
<1>2. WkInv /\ [WkNext]_wkVars => WkInv'
  BY WkKeeps
<1>3. WkInv => WorkerStopsInOrder
  <2> SUFFICES ASSUME WkInv PROVE WorkerStopsInOrder
    OBVIOUS
  <2>1. PoolOutlivesAttempts
    BY DEF WkInv, WorkClean, PoolOutlivesAttempts
  <2>2. WkTypeOK
    BY DEF WkInv, WkTyped, WkTypeOK, WkProc, WkOwner
  <2>3. wk.code = "0" => /\ ~WkPendingFailure /\ ~wk.panicked /\ AllDrained /\ WkLiveTasks = {} /\ own.open = {}
    <3>1. ASSUME wk.code = "0" PROVE wk.stage \in {"runtime", "exited"} /\ ~wk.degraded /\ ~wk.failure
      BY <3>1 DEF WkInv, WkTold
    <3> QED BY <3>1 DEF WkInv, WkTold, WorkClean, OwnClean, BgClean, WkPendingFailure, Early
  <2>4. WorkerExitHonest
    BY <2>2, <2>3 DEF WkInv, WkTold, WorkerExitHonest
  <2> QED BY <2>1, <2>4 DEF WkInv, WkGrace, WorkerStopsInOrder
<1> QED BY <1>1, <1>2, <1>3, PTL DEF WkSpec

-----------------------------------------------------------------------------
(* How a committed event reaches the stream *)

ObSpec == ObInit /\ [][ObNext]_obVars

ObSaid == ObContents \cup {"none"}
ObIntent == [event: {TheEvent}, pub: {<<"event", TheEvent>>}, content: ObSaid]
ObEvent == [event: {TheEvent}, pub: ({"event"} \X {TheEvent}) \cup ({"redrive"} \X Nat), content: ObSaid]
ObWriter == [at: {"idle", "insert", "inserted", "duplicate", "compared", "told"}, content: ObSaid,
             told: {"none", "Created", "Duplicate", "LiveIdentityChanged", "EventIdConflict"}]
ObSending == [at: {"idle", "sent", "acked", "Rejected", "Ambiguous"}, tries: Nat]
ObRecord == [state: LiveStates \cup {"none", "done", "failed"}, intent: ObIntent, tries: 0 .. MaxTries,
             lock: ObWriters \cup {NoWriter}]

\* A broker that was admitted forgets nothing.
ObLinked == obLink \in [phase: {"new", "refused", "admitted", "up", "closed"}, faults: {{}}, draining: BOOLEAN,
                       outcome: {obLink.outcome}]

ObTyped ==
    /\ obClock \in 0 .. ObClockEnd
    /\ ObLinked
    /\ obRow \in ObRecord
    /\ obTx \in [ObWriters -> ObWriter]
    /\ obSlot \in [Publishers -> ObSending]
    /\ obNet \subseteq [by: Publishers, tries: Nat, event: ObEvent]
    /\ obStream \subseteq [event: ObEvent, at: Nat, seq: Nat]
    /\ obDlq \subseteq [seq: Nat, event: ObEvent]

\* The job of the event: it runs while its publication is under way, has a try left while it
\* waits, and ends well only with a copy in the stream; who holds its row has compared it.
RowSays ==
    /\ obSlot["outbox"].at # "idle" <=> obRow.state = "running"
    /\ obRow.state = "pending" => obRow.tries < MaxTries
    /\ obRow.lock # NoWriter => obRow.state \in LiveStates /\ obTx[obRow.lock].at = "compared"
    /\ obRow.state = "done" \/ obSlot["outbox"].at = "acked" => obStream # {}

\* A writer that inserted is alone and the row is free; one that was told "Duplicate" holds the
\* row, which says what it said.
WriterSays(w) ==
    /\ obTx[w].at = "inserted" => /\ obRow.state \notin LiveStates /\ obTx[w].told = "Created"
                                  /\ \A v \in ObWriters : obTx[v].at = "inserted" => v = w
    /\ obTx[w].at = "compared" => obTx[w].told # "Created"
    /\ obTx[w].at = "compared" /\ obTx[w].told = "Duplicate" =>
          obRow.lock = w /\ obRow.intent.content = obTx[w].content

OwedSays == obOwed # {} => obRow.state \in LiveStates /\ obOwed = {obRow.intent.content}

\* Every publication under way or in the stream has one of two identities: the event's or that
\* of the one dead letter.
Identified(e) == e.pub = <<"event", TheEvent>> \/ \E d \in obDlq : e.pub = RecordId("redrive", d)

CopiesSay ==
    /\ IsFiniteSet(obStream) /\ Cardinality(obStream) <= MaxCopies
    /\ \A c \in obStream : c.at <= obClock /\ c.seq <= Cardinality(obStream) /\ Identified(c.event)
    /\ \A m \in obNet : Identified(m.event)
    /\ \A c, d \in obDlq : c = d
    /\ CopiesApart

ObInv == ObTyped /\ RowSays /\ (\A w \in ObWriters : WriterSays(w)) /\ OwedSays /\ CopiesSay

\* What Producer::publish may do: send, or refuse.
LEMMA SendIs ==
    ASSUME ObTyped, NEW p \in Publishers, NEW intent, NEW tries \in Nat, Send(p, intent, tries)
    PROVE  /\ \E r \in ObSending : r.at \in {"sent", "Rejected"} /\ obSlot' = [obSlot EXCEPT ![p] = r]
           /\ obNet' = obNet \/ obNet' = obNet \cup {[by |-> p, tries |-> tries, event |-> intent]}
<1> DEFINE gate == << <<obLink.draining, "Rejected">> >>
           source(faults) == << <<"large" \in faults, "Rejected">>,
                                <<"large_headers" \in faults, EncodePrepared(faults)>> >>
           verdict(faults, over) == Then(First(gate), Then(SourceMessage(faults), IF over THEN "Rejected" ELSE "ok"))
<1>1. PICK faults \in {{}, {"large"}}, over \in BOOLEAN :
         /\ obSlot' = [obSlot EXCEPT ![p].at = IF verdict(faults, over) = "ok" THEN "sent" ELSE verdict(faults, over),
                                     ![p].tries = tries]
         /\ obNet' = IF verdict(faults, over) = "ok"
                     THEN obNet \cup {[by |-> p, tries |-> tries, event |-> intent]} ELSE obNet
  BY DEF Send, Publication
<1>2. First(gate) \in {"ok", "Rejected"}
  <2>1. DOMAIN gate = 1..1 /\ \A i \in 1..1 : gate[i][2] = "Rejected"
    OBVIOUS
  <2> HIDE DEF gate
  <2> QED BY <2>1, FirstIn
<1>3. SourceMessage(faults) \in {"ok", "Rejected"}
  <2>1. EncodePrepared(faults) \in {"ok", "Rejected"}
    BY DEF EncodePrepared
  <2>2. DOMAIN source(faults) = 1..2 /\ \A i \in 1..2 : source(faults)[i][2] \in {"ok", "Rejected"}
    BY <2>1
  <2>3. SourceMessage(faults) = First(source(faults))
    BY DEF SourceMessage
  <2> HIDE DEF source
  <2> QED BY <2>2, <2>3, FirstIn
<1>4. verdict(faults, over) \in {"ok", "Rejected"}
  BY <1>2, <1>3 DEF Then
<1> DEFINE at == IF verdict(faults, over) = "ok" THEN "sent" ELSE verdict(faults, over)
<1>5. at \in {"sent", "Rejected"}
  BY <1>4
<1>6. obSlot' = [obSlot EXCEPT ![p].at = at, ![p].tries = tries]
  BY <1>1
<1> HIDE DEF at
<1>7. obSlot \in [Publishers -> ObSending]
  BY DEF ObTyped
<1>8. obSlot' = [obSlot EXCEPT ![p] = [obSlot[p] EXCEPT !.at = at, !.tries = tries]]
  BY <1>6, <1>7
<1>9. /\ [obSlot[p] EXCEPT !.at = at, !.tries = tries] \in ObSending
      /\ [obSlot[p] EXCEPT !.at = at, !.tries = tries].at = at
  BY <1>5, <1>7 DEF ObSending
<1> QED BY <1>1, <1>5, <1>8, <1>9

\* An admitted broker acknowledges what it stores and stores it on disk.
LEMMA AdmittedKeeps ==
    ASSUME NEW faults, NEW consumes, AdmitTopology(faults, consumes) = "ok"
    PROVE  faults \cap Forgetful = {}
<1> DEFINE checks == << <<"no_ack" \in faults, "Topology">>,
             <<"memory" \in faults, "Topology">>,
             <<"async" \in faults, "Topology">> >>
<1>1. DOMAIN checks = 1..3 /\ \A i \in 1..3 : checks[i][2] # "ok"
  OBVIOUS
<1>2. (checks[2][1] <=> "memory" \in faults) /\ (checks[3][1] <=> "async" \in faults)
  OBVIOUS
<1>3. First(checks) = "ok"
  BY DEF AdmitTopology, Then, ValidateStreamPublication
<1> HIDE DEF checks
<1>4. \A i \in 1..3 : ~checks[i][1]
  BY <1>1, <1>3, FirstOk
<1> QED BY <1>2, <1>4 DEF Forgetful

\* The connection moves and time passes: publications may be lost on their way, nothing else is.
LEMMA LinkKeeps ==
    ASSUME ObInv, ObLinked', obClock' \in 0 .. ObClockEnd, obClock' >= obClock, obNet' \subseteq obNet,
           UNCHANGED <<obRow, obTx, obSlot, obStream, obDlq, obOwed>>
    PROVE  ObInv'
<1>1. ObTyped'
  BY DEF ObInv, ObTyped
<1>2. RowSays' /\ (\A w \in ObWriters : WriterSays(w)') /\ OwedSays'
  BY DEF ObInv, RowSays, WriterSays, OwedSays
<1>3. CopiesSay'
  <2>1. ObClockEnd \in Nat
    BY OutboxAssumption
  <2>2. obClock \in Nat /\ obClock' \in Nat /\ \A c \in obStream : c.at \in Nat /\ c.at <= obClock
    BY <2>1 DEF ObInv, ObTyped, CopiesSay
  <2>3. \A c \in obStream : c.at <= obClock'
    BY <2>2
  <2> QED BY <2>3 DEF ObInv, CopiesSay, Identified, CopiesApart
<1> QED BY <1>1, <1>2, <1>3 DEF ObInv

LEMMA LinkActions ==
    ASSUME ObInv,
           \/ ConnectMessaging \/ ProbeMessaging \/ DrainMessaging \/ CloseMessaging \/ TickOutbox
           \/ \E restart \in BOOLEAN : LoseBroker(restart)
    PROVE  ObInv'
<1>0. ObLinked /\ obClock \in 0 .. ObClockEnd /\ ObClockEnd \in Nat
  BY OutboxAssumption DEF ObInv, ObTyped
<1>1. CASE ConnectMessaging
  <2> DEFINE told(f, k, c) ==
         Then(PrepareMessaging(f, MAX_PAYLOAD_BYTES),
         Then(ConnectOptions(f), Then(IF k = "connected" THEN "ok" ELSE ConnectFailure(k), AdmitTopology(f, c))))
  <2>0. \E f \in Brokers, k \in ConnectKinds \cup {"connected"}, c \in BOOLEAN :
           obLink' = [obLink EXCEPT !.phase = IF told(f, k, c) = "ok" THEN "admitted" ELSE "refused",
                                    !.faults = IF told(f, k, c) = "ok" THEN f \cap Forgetful ELSE {},
                                    !.outcome = told(f, k, c)]
    BY <1>1 DEF ConnectMessaging
  <2>a. PICK faults \in Brokers, kind \in ConnectKinds \cup {"connected"}, consumes \in BOOLEAN :
           obLink' = [obLink EXCEPT !.phase = IF told(faults, kind, consumes) = "ok" THEN "admitted" ELSE "refused",
                                    !.faults = IF told(faults, kind, consumes) = "ok" THEN faults \cap Forgetful ELSE {},
                                    !.outcome = told(faults, kind, consumes)]
    BY <2>0
  <2> DEFINE verdict == told(faults, kind, consumes)
  <2>1. verdict = "ok" => AdmitTopology(faults, consumes) = "ok"
    BY DEF Then
  <2>b. obLink' = [obLink EXCEPT !.phase = IF verdict = "ok" THEN "admitted" ELSE "refused",
                                 !.faults = IF verdict = "ok" THEN faults \cap Forgetful ELSE {},
                                 !.outcome = verdict]
    BY <2>a
  <2> HIDE DEF verdict, told
  <2> DEFINE phase == IF verdict = "ok" THEN "admitted" ELSE "refused"
  <2>2. (IF verdict = "ok" THEN faults \cap Forgetful ELSE {}) = {}
    BY <2>1, AdmittedKeeps
  <2>3. obLink' = [obLink EXCEPT !.phase = phase, !.faults = {}, !.outcome = verdict]
    BY <2>b, <2>2
  <2>4. phase \in {"admitted", "refused"}
    OBVIOUS
  <2> HIDE DEF phase
  <2>5. ObLinked'
    BY <1>0, <2>3, <2>4 DEF ObLinked
  <2>6. UNCHANGED <<obClock, obRow, obTx, obSlot, obNet, obStream, obDlq, obOwed>>
    BY <1>1 DEF ConnectMessaging
  <2> QED BY <1>0, <2>5, <2>6, LinkKeeps
<1>2. CASE ProbeMessaging
  <2>1. ObLinked'
    BY <1>0, <1>2 DEF ProbeMessaging, ObLinked
  <2> QED BY <1>0, <1>2, <2>1, LinkKeeps DEF ProbeMessaging
<1>3. CASE DrainMessaging
  <2>1. ObLinked'
    BY <1>0, <1>3 DEF DrainMessaging, ObLinked
  <2> QED BY <1>0, <1>3, <2>1, LinkKeeps DEF DrainMessaging
<1>4. CASE CloseMessaging
  <2>1. PICK outcome : obLink' = [obLink EXCEPT !.phase = "closed", !.outcome = outcome]
    BY <1>4 DEF CloseMessaging
  <2>2. ObLinked'
    BY <1>0, <2>1 DEF ObLinked
  <2>3. UNCHANGED <<obClock, obRow, obTx, obSlot, obStream, obDlq, obOwed>> /\ obNet' \subseteq obNet
    BY <1>4 DEF CloseMessaging
  <2> QED BY <1>0, <2>2, <2>3, LinkKeeps
<1>5. CASE TickOutbox
  <2>1. ObLinked' /\ obClock' = obClock + 1 /\ obClock < ObClockEnd
    BY <1>0, <1>5 DEF TickOutbox, ObLinked
  <2>2. obClock' \in 0 .. ObClockEnd /\ obClock' >= obClock
    BY <1>0, <2>1
  <2> QED BY <1>5, <2>1, <2>2, LinkKeeps DEF TickOutbox
<1>6. ASSUME NEW restart \in BOOLEAN, LoseBroker(restart) PROVE ObInv'
  <2>1. ObLinked' /\ obLink.faults = {}
    BY <1>0, <1>6 DEF LoseBroker, ObLinked
  <2> QED BY <1>0, <1>6, <2>1, LinkKeeps DEF LoseBroker
<1> QED BY <1>1, <1>2, <1>3, <1>4, <1>5, <1>6

\* A writer's transaction moves: the stream and what is on its way to it rest.
LEMMA WriterMoves ==
    ASSUME ObInv, NEW w \in ObWriters, NEW r \in ObWriter, obTx' = [obTx EXCEPT ![w] = r],
           UNCHANGED <<obClock, obLink, obSlot, obNet, obStream, obDlq>>,
           obRow' \in ObRecord, RowSays', OwedSays', \A v \in ObWriters : WriterSays(v)'
    PROVE  ObInv'
<1>1. ObTyped'
  BY DEF ObInv, ObTyped, ObLinked
<1>2. CopiesSay'
  BY DEF ObInv, CopiesSay, Identified, CopiesApart
<1> QED BY <1>1, <1>2 DEF ObInv

\* One writer's move leaves what the others were told, as long as the row stays as they saw it.
LEMMA OthersTold ==
    ASSUME ObInv, NEW w \in ObWriters, NEW r \in ObWriter, obTx' = [obTx EXCEPT ![w] = r],
           NEW v \in ObWriters, v # w,
           obTx[v].at = "inserted" => obRow'.state \notin LiveStates,
           obRow.lock = v => obRow'.lock = v /\ obRow'.intent = obRow.intent,
           r.at = "inserted" => obTx[v].at # "inserted"
    PROVE  WriterSays(v)'
<1>1. obTx'[v] = obTx[v] /\ obTx'[w] = r /\ \A u \in ObWriters : u # w => obTx'[u] = obTx[u]
  BY DEF ObInv, ObTyped
<1>2. WriterSays(v)
  BY DEF ObInv
<1> QED BY <1>1, <1>2 DEF WriterSays

LEMMA WriterActions ==
    ASSUME ObInv, NEW w \in ObWriters,
           \/ \E c \in ObContents : BeginEvent(w, c)
           \/ EnqueueEvent(w) \/ CompareLivePayload(w) \/ CommitEvent(w) \/ RollbackEvent(w)
    PROVE  ObInv'
<1>0. /\ obTx \in [ObWriters -> ObWriter] /\ obRow \in ObRecord /\ RowSays /\ OwedSays
      /\ \A v \in ObWriters : WriterSays(v)
      /\ NoWriter \notin ObWriters
  BY OutboxAssumption DEF ObInv, ObTyped
<1>1. ASSUME NEW c \in ObContents, BeginEvent(w, c) PROVE ObInv'
  <2>1. [Idle EXCEPT !.at = "insert", !.content = c] \in ObWriter /\ [Idle EXCEPT !.at = "insert", !.content = c].at = "insert"
    BY DEF Idle, ObWriter, ObSaid
  <2>2. [Idle EXCEPT !.at = "told"] \in ObWriter /\ [Idle EXCEPT !.at = "told"].at = "told"
    BY DEF Idle, ObWriter, ObSaid
  <2>3. \/ obTx' = [obTx EXCEPT ![w] = [Idle EXCEPT !.at = "insert", !.content = c]]
        \/ obTx' = [obTx EXCEPT ![w] = [Idle EXCEPT !.at = "told"]]
    BY <1>1, Zenon DEF BeginEvent
  <2>4. PICK r \in ObWriter : r.at \in {"insert", "told"} /\ obTx' = [obTx EXCEPT ![w] = r]
    BY <2>1, <2>2, <2>3
  <2>5. obTx[w].at = "idle" /\ UNCHANGED <<obClock, obLink, obRow, obSlot, obNet, obStream, obDlq, obOwed>>
    BY <1>1 DEF BeginEvent
  <2>6. obTx'[w] = r /\ \A v \in ObWriters : v # w => obTx'[v] = obTx[v]
    BY <1>0, <2>4
  <2>7. RowSays' /\ OwedSays'
    <3>1. obRow.lock # w
      BY <1>0, <2>5 DEF RowSays
    <3>2. obRow.lock # NoWriter => obRow.lock \in ObWriters
      BY <1>0 DEF ObRecord
    <3> QED BY <1>0, <2>5, <2>6, <3>1, <3>2 DEF RowSays, OwedSays
  <2>8. \A v \in ObWriters : WriterSays(v)'
    BY <1>0, <2>4, <2>5, <2>6, OthersTold DEF WriterSays
  <2> QED BY <1>0, <2>4, <2>5, <2>7, <2>8, WriterMoves
<1>2. CASE EnqueueEvent(w)
  <2> DEFINE live == obRow.state \in LiveStates
             r == [obTx[w] EXCEPT !.at = IF live THEN "duplicate" ELSE "inserted",
                                  !.told = IF live THEN "none" ELSE "Created"]
  <2>1. obTx' = [obTx EXCEPT ![w] = r]
    BY <1>0, <1>2 DEF EnqueueEvent, ObWriter
  <2>2. r \in ObWriter /\ (live => r.at = "duplicate") /\ (~live => r.at = "inserted" /\ r.told = "Created")
    BY <1>0 DEF ObWriter
  <2> HIDE DEF r
  <2>3. /\ obTx[w].at = "insert" /\ UNCHANGED <<obClock, obLink, obRow, obSlot, obNet, obStream, obDlq, obOwed>>
        /\ \A v \in ObWriters : obTx[v].at # "inserted"
    BY <1>2 DEF EnqueueEvent
  <2>4. obTx'[w] = r /\ \A v \in ObWriters : v # w => obTx'[v] = obTx[v]
    BY <1>0, <2>1, <2>2
  <2>5. RowSays' /\ OwedSays'
    <3>1. obRow.lock # w
      BY <1>0, <2>3 DEF RowSays
    <3>2. obRow.lock # NoWriter => obRow.lock \in ObWriters
      BY <1>0 DEF ObRecord
    <3> QED BY <1>0, <2>3, <2>4, <3>1, <3>2 DEF RowSays, OwedSays
  <2>6. WriterSays(w)'
    BY <2>2, <2>3, <2>4 DEF WriterSays
  <2>7. \A v \in ObWriters : WriterSays(v)'
    BY <1>0, <2>1, <2>2, <2>3, <2>6, OthersTold
  <2> QED BY <1>0, <2>1, <2>2, <2>3, <2>5, <2>7, WriterMoves
<1>3. CASE CompareLivePayload(w)
  <2> DEFINE told == ComparedTo(w)
             r == [obTx[w] EXCEPT !.at = "compared", !.told = told]
  <2>1. obTx' = [obTx EXCEPT ![w] = r]
    BY <1>0, <1>3 DEF CompareLivePayload, ObWriter
  <2>2. /\ told \in {"LiveIdentityChanged", "Duplicate", "EventIdConflict"}
        /\ told = "Duplicate" => obRow.state \in LiveStates /\ obRow.intent.content = obTx[w].content
    BY DEF ComparedTo
  <2> HIDE DEF told
  <2>3. r \in ObWriter /\ r.at = "compared" /\ r.told = told /\ r.content = obTx[w].content
    BY <1>0, <2>2 DEF ObWriter
  <2> HIDE DEF r
  <2>4. /\ obTx[w].at = "duplicate" /\ obRow.lock = NoWriter
        /\ UNCHANGED <<obClock, obLink, obSlot, obNet, obStream, obDlq, obOwed>>
        /\ obRow' = IF obRow.state \in LiveStates THEN [obRow EXCEPT !.lock = w] ELSE obRow
    BY <1>3 DEF CompareLivePayload
  <2>5. /\ obRow' \in ObRecord /\ obRow'.state = obRow.state /\ obRow'.intent = obRow.intent
        /\ obRow'.tries = obRow.tries
        /\ obRow.state \in LiveStates => obRow'.lock = w
        /\ obRow.state \notin LiveStates => obRow'.lock = NoWriter
    BY <1>0, <2>4 DEF ObRecord
  <2>6. obTx'[w] = r /\ \A v \in ObWriters : v # w => obTx'[v] = obTx[v]
    BY <1>0, <2>1, <2>3
  <2>7. RowSays' /\ OwedSays'
    BY <1>0, <2>3, <2>4, <2>5, <2>6 DEF RowSays, OwedSays
  <2>8. WriterSays(w)'
    BY <2>2, <2>3, <2>5, <2>6 DEF WriterSays
  <2>9. \A v \in ObWriters : WriterSays(v)'
    <3>1. ASSUME NEW v \in ObWriters, v # w PROVE WriterSays(v)'
      <4>1. obTx[v].at = "inserted" => obRow'.state \notin LiveStates
        BY <1>0, <2>5 DEF WriterSays
      <4>2. obRow.lock # v /\ r.at # "inserted"
        BY <1>0, <2>3, <2>4
      <4> QED BY <2>1, <2>3, <3>1, <4>1, <4>2, OthersTold
    <3> QED BY <2>8, <3>1
  <2> QED BY <2>1, <2>3, <2>4, <2>5, <2>7, <2>9, WriterMoves
<1>4. CASE CommitEvent(w)
  <2> DEFINE r == [Idle EXCEPT !.at = "told"]
             fresh == [NoRow EXCEPT !.state = "pending", !.intent = Prepared(TheEvent, obTx[w].content)]
  <2>1. r \in ObWriter /\ r.at = "told"
    BY DEF Idle, ObWriter, ObSaid
  <2>2. /\ obTx[w].at \in {"inserted", "compared"} /\ obTx[w].told \in {"Created", "Duplicate"}
        /\ UNCHANGED <<obClock, obLink, obSlot, obNet, obStream, obDlq>>
        /\ obTx' = [obTx EXCEPT ![w] = r] /\ obOwed' = obOwed \cup {obTx[w].content}
        /\ obTx[w].at = "inserted" => obRow' = fresh
        /\ obTx[w].at = "compared" => obRow' = Unlocked(w)
    BY <1>4 DEF CommitEvent, Settled
  <2> HIDE DEF r
  <2>3. obTx'[w] = r /\ \A v \in ObWriters : v # w => obTx'[v] = obTx[v]
    BY <1>0, <2>1, <2>2
  <2>4. CASE obTx[w].at = "inserted"
    <3>1. /\ fresh \in ObRecord /\ fresh.state = "pending" /\ fresh.tries = 0 /\ fresh.lock = NoWriter
          /\ fresh.intent.content = obTx[w].content
      <4>1. obTx[w].content \in ObSaid /\ 0 \in 0 .. MaxTries /\ "none" \in ObSaid
        BY <1>0, OutboxAssumption DEF ObWriter, ObSaid
      <4>2. Prepared(TheEvent, obTx[w].content) \in ObIntent /\ Prepared(TheEvent, "none") \in ObIntent
            /\ Prepared(TheEvent, obTx[w].content).content = obTx[w].content
        BY <4>1 DEF Prepared, ObIntent
      <4> HIDE DEF ObIntent
      <4>3. NoRow \in ObRecord /\ NoRow.lock = NoWriter /\ NoRow.tries = 0
        BY <4>1, <4>2 DEF NoRow, ObRecord
      <4>4. "pending" \in LiveStates
        BY DEF LiveStates
      <4> QED BY <4>2, <4>3, <4>4 DEF ObRecord
    <3> HIDE DEF fresh
    <3>2. /\ obRow' = fresh /\ obRow.state \notin LiveStates /\ obOwed = {}
          /\ \A v \in ObWriters : obTx[v].at = "inserted" => v = w
      BY <1>0, <2>2, <2>4 DEF WriterSays, OwedSays
    <3>3. RowSays'
      <4>1. obRow.state # "running" /\ 0 < MaxTries
        BY <3>2, OutboxAssumption DEF LiveStates
      <4>2. obSlot["outbox"].at = "idle"
        BY <1>0, <4>1 DEF RowSays
      <4> QED BY <2>2, <3>1, <3>2, <4>1, <4>2 DEF RowSays
    <3>4. OwedSays'
      BY <2>2, <3>1, <3>2 DEF OwedSays, LiveStates
    <3>5. \A v \in ObWriters : WriterSays(v)'
      <4>1. ASSUME NEW v \in ObWriters, v # w PROVE WriterSays(v)'
        <5>1. obTx[v].at # "inserted" /\ obRow.lock # v /\ r.at # "inserted"
          BY <1>0, <2>1, <3>2, <4>1 DEF RowSays
        <5> QED BY <2>1, <2>2, <4>1, <5>1, OthersTold
      <4> QED BY <2>1, <2>3, <4>1 DEF WriterSays
    <3> QED BY <2>1, <2>2, <3>1, <3>2, <3>3, <3>4, <3>5, WriterMoves
  <2>5. CASE obTx[w].at = "compared"
    <3>1. obRow.lock = w /\ obRow.intent.content = obTx[w].content /\ obRow.state \in LiveStates
      BY <1>0, <2>2, <2>5 DEF WriterSays, RowSays
    <3>2. /\ obRow' \in ObRecord /\ obRow'.state = obRow.state /\ obRow'.intent = obRow.intent
          /\ obRow'.tries = obRow.tries /\ obRow'.lock = NoWriter
      BY <1>0, <2>2, <2>5, <3>1 DEF Unlocked, ObRecord
    <3>3. RowSays' /\ OwedSays'
      BY <1>0, <2>2, <3>1, <3>2 DEF RowSays, OwedSays
    <3>4. \A v \in ObWriters : WriterSays(v)'
      <4>1. ASSUME NEW v \in ObWriters, v # w PROVE WriterSays(v)'
        <5>1. obTx[v].at = "inserted" => obRow'.state \notin LiveStates
          BY <1>0, <3>2 DEF WriterSays
        <5> QED BY <2>1, <2>2, <3>1, <4>1, <5>1, OthersTold
      <4> QED BY <2>1, <2>3, <4>1 DEF WriterSays
    <3> QED BY <2>1, <2>2, <3>2, <3>3, <3>4, WriterMoves
  <2> QED BY <2>2, <2>4, <2>5
<1>5. CASE RollbackEvent(w)
  <2>1. Idle \in ObWriter /\ Idle.at = "idle"
    BY DEF Idle, ObWriter, ObSaid
  <2>2. /\ obTx' = [obTx EXCEPT ![w] = Idle] /\ obRow' = Unlocked(w)
        /\ UNCHANGED <<obClock, obLink, obSlot, obNet, obStream, obDlq, obOwed>>
    BY <1>5 DEF RollbackEvent
  <2> HIDE DEF Idle
  <2>3. obTx'[w] = Idle /\ \A v \in ObWriters : v # w => obTx'[v] = obTx[v]
    BY <1>0, <2>1, <2>2
  <2>4. /\ obRow' \in ObRecord /\ obRow'.state = obRow.state /\ obRow'.intent = obRow.intent
        /\ obRow'.tries = obRow.tries
        /\ obRow.lock = w => obRow'.lock = NoWriter
        /\ obRow.lock # w => obRow'.lock = obRow.lock
    BY <1>0, <2>2 DEF Unlocked, ObRecord
  <2>5. RowSays' /\ OwedSays'
    <3>1. obRow.lock # NoWriter => obRow.lock \in ObWriters
      BY <1>0 DEF ObRecord
    <3> QED BY <1>0, <2>2, <2>3, <2>4, <3>1 DEF RowSays, OwedSays
  <2>6. \A v \in ObWriters : WriterSays(v)'
    <3>1. ASSUME NEW v \in ObWriters, v # w PROVE WriterSays(v)'
      <4>1. obTx[v].at = "inserted" => obRow'.state \notin LiveStates
        BY <1>0, <2>4 DEF WriterSays
      <4> QED BY <2>1, <2>2, <2>4, <3>1, <4>1, OthersTold
    <3> QED BY <2>1, <2>3, <3>1 DEF WriterSays
  <2> QED BY <2>1, <2>2, <2>4, <2>5, <2>6, WriterMoves
<1> QED BY <1>1, <1>2, <1>3, <1>4, <1>5

\* While no writer holds the live row, nobody counts on its state.
LEMMA RowFree ==
    ASSUME ObInv, obRow.lock = NoWriter, obRow.state \in LiveStates, UNCHANGED obTx
    PROVE  \A w \in ObWriters : WriterSays(w)'
<1>1. ASSUME NEW w \in ObWriters PROVE WriterSays(w)'
  <2>1. WriterSays(w) /\ w # NoWriter
    BY OutboxAssumption DEF ObInv
  <2> QED BY <2>1 DEF WriterSays
<1> QED BY <1>1

\* A publication of either publisher leaves under a known identity.
LEMMA SentKeeps ==
    ASSUME ObInv, NEW p \in Publishers, NEW intent \in ObEvent, NEW tries \in Nat, Send(p, intent, tries),
           Identified(intent), UNCHANGED <<obClock, obLink, obStream, obDlq>>
    PROVE  /\ obNet' \subseteq [by: Publishers, tries: Nat, event: ObEvent] /\ CopiesSay'
           /\ obSlot' \in [Publishers -> ObSending] /\ obSlot'[p].at \in {"sent", "Rejected"}
           /\ \A q \in Publishers : q # p => obSlot'[q] = obSlot[q]
<1>0. ObTyped /\ CopiesSay
  BY DEF ObInv
<1>1. /\ \E r \in ObSending : r.at \in {"sent", "Rejected"} /\ obSlot' = [obSlot EXCEPT ![p] = r]
      /\ obNet' = obNet \/ obNet' = obNet \cup {[by |-> p, tries |-> tries, event |-> intent]}
  BY <1>0, SendIs
<1>2. /\ obSlot' \in [Publishers -> ObSending] /\ obSlot'[p].at \in {"sent", "Rejected"}
      /\ \A q \in Publishers : q # p => obSlot'[q] = obSlot[q]
  BY <1>0, <1>1 DEF ObTyped
<1>3. obNet' \subseteq [by: Publishers, tries: Nat, event: ObEvent] /\ \A m \in obNet' : Identified(m.event)
  <2> DEFINE msg == [by |-> p, tries |-> tries, event |-> intent]
  <2>1. msg \in [by: Publishers, tries: Nat, event: ObEvent] /\ msg.event = intent
    OBVIOUS
  <2> HIDE DEF msg
  <2>2. obNet' \subseteq obNet \cup {msg}
    BY <1>1 DEF msg
  <2> QED BY <1>0, <2>1, <2>2 DEF ObTyped, CopiesSay
<1>4. CopiesSay'
  BY <1>0, <1>3 DEF CopiesSay, Identified, CopiesApart
<1> QED BY <1>2, <1>3, <1>4

LEMMA PublishKeeps ==
    ASSUME ObInv, PublishClaimed
    PROVE  ObInv'
<1>0. /\ ObTyped /\ obRow \in ObRecord /\ RowSays /\ OwedSays /\ "outbox" \in Publishers
      /\ obRow.state = "pending" /\ obRow.lock = NoWriter /\ obRow.state \in LiveStates
      /\ UNCHANGED <<obClock, obLink, obTx, obStream, obDlq, obOwed>>
  BY DEF ObInv, ObTyped, PublishClaimed, Publishers, LiveStates
<1>1. obRow.tries \in Nat /\ obRow.tries + 1 \in Nat /\ obRow.tries + 1 \in 0 .. MaxTries
  <2>1. obRow.tries \in 0 .. MaxTries /\ obRow.tries < MaxTries /\ MaxTries \in Nat
    BY <1>0, OutboxAssumption DEF RowSays, ObRecord
  <2> QED BY <2>1
<1>2. obRow' = [obRow EXCEPT !.state = "running", !.tries = obRow.tries + 1]
  BY DEF PublishClaimed
<1>3. /\ obRow' \in ObRecord /\ obRow'.state = "running" /\ obRow'.lock = NoWriter
      /\ obRow'.intent = obRow.intent
  <2>1. "running" \in LiveStates
    BY DEF LiveStates
  <2> QED BY <1>0, <1>1, <1>2, <2>1 DEF ObRecord
<1>4. obRow.intent \in ObEvent /\ Identified(obRow.intent)
  BY <1>0 DEF ObRecord, ObIntent, ObEvent, Identified
<1>5. /\ obNet' \subseteq [by: Publishers, tries: Nat, event: ObEvent] /\ CopiesSay'
      /\ obSlot' \in [Publishers -> ObSending] /\ obSlot'["outbox"].at \in {"sent", "Rejected"}
  BY <1>0, <1>1, <1>4, SentKeeps DEF PublishClaimed
<1>6. ObTyped'
  BY <1>0, <1>3, <1>5 DEF ObTyped, ObLinked
<1>7. RowSays' /\ OwedSays'
  BY <1>0, <1>3, <1>5 DEF RowSays, OwedSays, LiveStates
<1>8. \A w \in ObWriters : WriterSays(w)'
  BY <1>0, RowFree
<1> QED BY <1>5, <1>6, <1>7, <1>8 DEF ObInv

\* The outcome of the job is recorded: it ends, or waits with a try left.
LEMMA SettleKeeps ==
    ASSUME ObInv, obRow.state = "running", obRow.lock = NoWriter, NEW state \in {"pending", "done", "failed"},
           Ended(state), obSlot' = [obSlot EXCEPT !["outbox"].at = "idle"],
           state = "pending" => obRow.tries # MaxTries,
           state = "done" => obSlot["outbox"].at = "acked",
           UNCHANGED <<obClock, obLink, obTx, obNet, obStream, obDlq>>
    PROVE  ObInv'
<1>0. /\ ObTyped /\ obRow \in ObRecord /\ obSlot \in [Publishers -> ObSending] /\ RowSays /\ OwedSays /\ CopiesSay
      /\ "outbox" \in Publishers /\ obRow.state \in LiveStates
  BY DEF ObInv, ObTyped, Publishers, LiveStates
<1>1. /\ obRow' \in ObRecord /\ obRow'.state = state /\ obRow'.lock = NoWriter
      /\ obRow'.intent = obRow.intent /\ obRow'.tries = obRow.tries
  <2>1. state \in LiveStates \cup {"none", "done", "failed"}
    BY DEF LiveStates
  <2> QED BY <1>0, <2>1 DEF Ended, ObRecord
<1>2. obSlot' \in [Publishers -> ObSending] /\ obSlot'["outbox"].at = "idle"
  BY <1>0 DEF ObSending
<1>3. ObTyped'
  BY <1>0, <1>1, <1>2 DEF ObTyped, ObLinked
<1>4. RowSays'
  <2>1. obRow.tries \in 0 .. MaxTries /\ MaxTries \in Nat
    BY <1>0, OutboxAssumption DEF ObRecord
  <2> QED BY <1>0, <1>1, <1>2, <2>1 DEF RowSays
<1>5. OwedSays'
  BY <1>0, <1>1 DEF Ended, OwedSays, LiveStates
<1>6. \A w \in ObWriters : WriterSays(w)'
  BY <1>0, RowFree
<1>7. CopiesSay'
  BY <1>0 DEF CopiesSay, Identified, CopiesApart
<1> QED BY <1>3, <1>4, <1>5, <1>6, <1>7 DEF ObInv

LEMMA SettleActions ==
    ASSUME ObInv, SettlePublication \/ LosePublisher
    PROVE  ObInv'
<1>0. RowSays
  BY DEF ObInv
<1>1. CASE SettlePublication
  <2> DEFINE state == CASE obSlot["outbox"].at = "acked" -> "done"
                        [] obRow.tries = MaxTries -> "failed"
                        [] OTHER -> "pending"
  <2>1. /\ obSlot["outbox"].at # "idle" /\ obRow.lock = NoWriter /\ Ended(state)
        /\ obSlot' = [obSlot EXCEPT !["outbox"].at = "idle"]
        /\ UNCHANGED <<obClock, obLink, obTx, obNet, obStream, obDlq>>
    BY <1>1 DEF SettlePublication
  <2>2. /\ state \in {"pending", "done", "failed"} /\ (state = "pending" => obRow.tries # MaxTries)
        /\ (state = "done" => obSlot["outbox"].at = "acked")
    <3>1. CASE obSlot["outbox"].at = "acked"
      <4>1. state \in {"done", "failed"}
        BY <3>1
      <4> QED BY <3>1, <4>1
    <3>2. CASE obSlot["outbox"].at # "acked" /\ obRow.tries = MaxTries
      BY <3>2
    <3>3. CASE obSlot["outbox"].at # "acked" /\ obRow.tries # MaxTries
      BY <3>3
    <3> QED BY <3>1, <3>2, <3>3
  <2> HIDE DEF state
  <2>3. obRow.state = "running"
    BY <1>0, <2>1 DEF RowSays
  <2> QED BY <2>1, <2>2, <2>3, SettleKeeps
<1>2. CASE LosePublisher
  <2>1. PICK faults \in {{}, {"other_version"}} :
          Ended(IF StoredIntent(faults) # "ok" \/ obRow.tries = MaxTries THEN "failed" ELSE "pending")
    BY <1>2 DEF LosePublisher
  <2> DEFINE state == IF StoredIntent(faults) # "ok" \/ obRow.tries = MaxTries THEN "failed" ELSE "pending"
  <2>2. state \in {"pending", "done", "failed"} /\ (state = "pending" => obRow.tries # MaxTries) /\ state # "done"
    OBVIOUS
  <2>3. Ended(state)
    BY <2>1
  <2> HIDE DEF state
  <2>4. /\ obRow.state = "running" /\ obRow.lock = NoWriter /\ obSlot' = [obSlot EXCEPT !["outbox"].at = "idle"]
        /\ UNCHANGED <<obClock, obLink, obTx, obNet, obStream, obDlq>>
    BY <1>2 DEF LosePublisher
  <2> QED BY <2>2, <2>3, <2>4, SettleKeeps
<1> QED BY <1>1, <1>2

\* An answer moves a publication that was sent; the job it belongs to runs on.
LEMMA AnswerKeeps ==
    ASSUME ObInv, NEW p \in Publishers, NEW at \in {"acked", "Rejected", "Ambiguous"},
           obSlot' = obSlot \/ (obSlot[p].at = "sent" /\ obSlot' = [obSlot EXCEPT ![p].at = at]),
           obNet' \subseteq obNet, obStream' \subseteq [event: ObEvent, at: Nat, seq: Nat],
           obStream # {} \/ at = "acked" => obStream' # {}, CopiesSay',
           UNCHANGED <<obClock, obLink, obRow, obTx, obDlq, obOwed>>
    PROVE  ObInv'
<1>0. ObTyped /\ obSlot \in [Publishers -> ObSending] /\ RowSays /\ "outbox" \in Publishers
  BY DEF ObInv, ObTyped, Publishers
<1>1. /\ obSlot' \in [Publishers -> ObSending]
      /\ \A q \in Publishers : \/ obSlot'[q].at = obSlot[q].at
                               \/ obSlot[q].at = "sent" /\ obSlot'[q].at = at
  <2>1. CASE obSlot' = obSlot
    BY <1>0, <2>1
  <2>2. CASE obSlot[p].at = "sent" /\ obSlot' = [obSlot EXCEPT ![p].at = at]
    <3>1. obSlot' = [obSlot EXCEPT ![p] = [obSlot[p] EXCEPT !.at = at]]
      BY <1>0, <2>2
    <3>2. [obSlot[p] EXCEPT !.at = at] \in ObSending /\ [obSlot[p] EXCEPT !.at = at].at = at
      BY <1>0 DEF ObSending
    <3> QED BY <1>0, <2>2, <3>1, <3>2
  <2> QED BY <2>1, <2>2
<1>2. ObTyped'
  BY <1>0, <1>1 DEF ObTyped, ObLinked
<1>3. RowSays'
  <2>1. obSlot'["outbox"].at # "idle" <=> obRow'.state = "running"
    BY <1>0, <1>1 DEF RowSays
  <2>2. obRow'.state = "done" \/ obSlot'["outbox"].at = "acked" => obStream' # {}
    BY <1>0, <1>1 DEF RowSays
  <2> QED BY <1>0, <2>1, <2>2 DEF RowSays
<1>4. (\A w \in ObWriters : WriterSays(w)') /\ OwedSays'
  BY DEF ObInv, WriterSays, OwedSays
<1> QED BY <1>2, <1>3, <1>4 DEF ObInv

\* The stream takes a publication it has not seen within its window.
LEMMA StoredKeeps ==
    ASSUME ObInv, NEW e \in ObEvent, Identified(e), ~Seen(e), Cardinality(obStream) < MaxCopies,
           obStream' = obStream \cup {[event |-> e, at |-> obClock, seq |-> Cardinality(obStream) + 1]},
           obNet' \subseteq obNet, UNCHANGED <<obClock, obDlq>>
    PROVE  CopiesSay' /\ obStream' \subseteq [event: ObEvent, at: Nat, seq: Nat]
<1> DEFINE n == Cardinality(obStream)
           new == [event |-> e, at |-> obClock, seq |-> n + 1]
<1>0. /\ CopiesSay /\ obStream \subseteq [event: ObEvent, at: Nat, seq: Nat]
      /\ obClock \in Nat /\ {MaxCopies, Window} \subseteq Nat
  BY OutboxAssumption DEF ObInv, ObTyped
<1>1. IsFiniteSet(obStream) /\ n \in Nat /\ n < MaxCopies
  BY <1>0, FS_CardinalityType DEF CopiesSay
<1>2. new \in [event: ObEvent, at: Nat, seq: Nat] /\ new.event = e /\ new.at = obClock /\ new.seq = n + 1
  BY <1>0, <1>1
<1>3. obStream' = obStream \cup {new}
  OBVIOUS
<1> HIDE DEF new
<1>4. \A c \in obStream : c.at \in Nat /\ c.seq \in Nat /\ c.at <= obClock /\ c.seq <= n /\ Identified(c.event)
  BY <1>0 DEF CopiesSay
<1>5. new \notin obStream
  BY <1>1, <1>2, <1>4
<1>6. IsFiniteSet(obStream') /\ Cardinality(obStream') = n + 1
  BY <1>1, <1>3, <1>5, FS_AddElement
<1> HIDE DEF n
<1>7. \A c \in obStream' : c.at <= obClock /\ c.seq <= n + 1 /\ Identified(c.event)
  BY <1>0, <1>1, <1>2, <1>3, <1>4
<1>8. ASSUME NEW c \in obStream, c.event.pub[1] = e.pub[1] PROVE obClock - c.at >= Window
  <2>1. \A f \in ObEvent : Identified(f) => \/ f.pub = <<"event", TheEvent>>
                                            \/ \E d \in obDlq : f.pub = <<"redrive", d.seq>>
    BY DEF Identified, RecordId
  <2>2. \A x, y \in obDlq : x = y
    BY <1>0 DEF CopiesSay
  <2>3. c.event \in ObEvent /\ Identified(c.event)
    BY <1>0, <1>4
  <2>4. c.event.pub = e.pub
    <3>1. CASE e.pub = <<"event", TheEvent>>
      <4>1. c.event.pub[1] = "event"
        BY <1>8, <3>1
      <4> QED BY <2>1, <2>3, <3>1, <4>1
    <3>2. CASE \E d \in obDlq : e.pub = <<"redrive", d.seq>>
      <4>1. c.event.pub[1] = "redrive"
        BY <1>8, <3>2
      <4> QED BY <2>1, <2>2, <2>3, <3>2, <4>1
    <3> QED BY <2>1, <3>1, <3>2
  <2>5. ~(obClock - c.at < Window)
    BY <2>4 DEF Seen
  <2> QED BY <1>0, <1>4, <2>5
<1>9. CopiesApart'
  <2> SUFFICES ASSUME NEW c \in obStream', NEW d \in obStream', c.seq < d.seq, c.event.pub[1] = d.event.pub[1]
               PROVE  d.at - c.at >= Window
    BY DEF CopiesApart
  <2>1. CASE c \in obStream /\ d \in obStream
    BY <1>0, <2>1 DEF CopiesSay, CopiesApart
  <2>2. CASE c \in obStream /\ d = new
    BY <1>2, <1>8, <2>2
  <2>3. CASE c = new
    <3>1. d.seq <= n + 1 /\ d.seq \in Nat
      BY <1>0, <1>1, <1>2, <1>3, <1>7
    <3> QED BY <1>1, <1>2, <2>3, <3>1
  <2> QED BY <1>3, <2>1, <2>2, <2>3
<1>10. CopiesSay'
  <2>1. \A m \in obNet' : Identified(m.event)
    BY <1>0 DEF CopiesSay
  <2>2. n + 1 <= MaxCopies
    BY <1>0, <1>1
  <2> QED BY <1>0, <1>6, <1>7, <1>9, <2>1, <2>2 DEF CopiesSay, Identified
<1> QED BY <1>0, <1>2, <1>3, <1>10

LEMMA BrokerActions ==
    ASSUME ObInv,
           \/ \E m \in obNet, answered \in BOOLEAN : BrokerStores(m, answered)
           \/ \E m \in obNet : BrokerRefuses(m)
           \/ \E p \in Publishers : StopWaiting(p)
    PROVE  ObInv'
<1>0. /\ ObTyped /\ obSlot \in [Publishers -> ObSending] /\ CopiesSay
      /\ obNet \subseteq [by: Publishers, tries: Nat, event: ObEvent]
      /\ obStream \subseteq [event: ObEvent, at: Nat, seq: Nat]
  BY DEF ObInv, ObTyped
<1>1. ASSUME NEW m \in obNet, NEW answered \in BOOLEAN, BrokerStores(m, answered) PROVE ObInv'
  <2>1. m.by \in Publishers /\ m.event \in ObEvent /\ Identified(m.event)
    BY <1>0 DEF CopiesSay
  <2>2. /\ obNet' \subseteq obNet /\ UNCHANGED <<obClock, obLink, obRow, obTx, obDlq, obOwed>>
        /\ obSlot' = obSlot \/ (obSlot[m.by].at = "sent" /\ obSlot' = [obSlot EXCEPT ![m.by].at = "acked"])
    BY <1>1 DEF BrokerStores
  <2>3. CASE Seen(m.event)
    <3>1. obStream' = obStream /\ obStream # {}
      BY <1>1, <2>3 DEF BrokerStores, Seen
    <3>2. CopiesSay'
      BY <1>0, <2>2, <3>1 DEF CopiesSay, Identified, CopiesApart
    <3> QED BY <1>0, <2>1, <2>2, <3>1, <3>2, AnswerKeeps
  <2>4. CASE ~Seen(m.event)
    <3>1. /\ obStream' = obStream \cup {[event |-> m.event, at |-> obClock, seq |-> Cardinality(obStream) + 1]}
          /\ Cardinality(obStream) < MaxCopies
      BY <1>1, <2>4 DEF BrokerStores
    <3>2. CopiesSay' /\ obStream' \subseteq [event: ObEvent, at: Nat, seq: Nat]
      BY <2>1, <2>2, <2>4, <3>1, StoredKeeps
    <3>3. obStream' # {}
      BY <3>1
    <3> QED BY <2>1, <2>2, <3>2, <3>3, AnswerKeeps
  <2> QED BY <2>3, <2>4
<1>2. ASSUME NEW m \in obNet, BrokerRefuses(m) PROVE ObInv'
  <2>1. m.by \in Publishers
    BY <1>0
  <2>2. PICK at \in {"Rejected", "Ambiguous"} :
           obSlot' = obSlot \/ (obSlot[m.by].at = "sent" /\ obSlot' = [obSlot EXCEPT ![m.by].at = at])
    BY <1>2 DEF BrokerRefuses, ClassifyPublish
  <2>3. obNet' \subseteq obNet /\ UNCHANGED <<obClock, obLink, obRow, obTx, obStream, obDlq, obOwed>>
    BY <1>2 DEF BrokerRefuses
  <2>4. CopiesSay'
    BY <1>0, <2>3 DEF CopiesSay, Identified, CopiesApart
  <2> QED BY <1>0, <2>1, <2>2, <2>3, <2>4, AnswerKeeps
<1>3. ASSUME NEW p \in Publishers, StopWaiting(p) PROVE ObInv'
  <2>1. CopiesSay'
    BY <1>0, <1>3 DEF StopWaiting, CopiesSay, Identified, CopiesApart
  <2> QED BY <1>0, <1>3, <2>1, AnswerKeeps DEF StopWaiting
<1> QED BY <1>1, <1>2, <1>3

\* The one dead letter, and its redrives under the identity of its record.
LEMMA LetterActions ==
    ASSUME ObInv, (\E c \in obStream : TransferDeadLetter(c)) \/ (\E d \in obDlq : Redrive(d))
    PROVE  ObInv'
<1>0. /\ ObTyped /\ RowSays /\ CopiesSay /\ obSlot \in [Publishers -> ObSending]
      /\ obStream \subseteq [event: ObEvent, at: Nat, seq: Nat] /\ obDlq \subseteq [seq: Nat, event: ObEvent]
      /\ {"outbox", "redrive"} \subseteq Publishers
  BY DEF ObInv, ObTyped, Publishers
<1>1. ASSUME NEW c \in obStream, TransferDeadLetter(c) PROVE ObInv'
  <2> DEFINE letter == [seq |-> c.seq, event |-> c.event]
  <2>1. /\ obDlq = {} /\ obDlq' = {letter}
        /\ UNCHANGED <<obClock, obLink, obRow, obTx, obSlot, obNet, obStream, obOwed>>
    BY <1>1 DEF TransferDeadLetter
  <2>2. letter \in [seq: Nat, event: ObEvent]
    BY <1>0
  <2> HIDE DEF letter
  <2>3. ObTyped'
    BY <1>0, <2>1, <2>2 DEF ObTyped, ObLinked
  <2>4. RowSays' /\ (\A w \in ObWriters : WriterSays(w)') /\ OwedSays'
    BY <2>1 DEF ObInv, RowSays, WriterSays, OwedSays
  <2>5. CopiesSay'
    BY <1>0, <2>1 DEF CopiesSay, Identified, CopiesApart
  <2> QED BY <2>3, <2>4, <2>5 DEF ObInv
<1>2. ASSUME NEW d \in obDlq, Redrive(d) PROVE ObInv'
  <2> DEFINE event == [d.event EXCEPT !.pub = RecordId("redrive", d)]
             tries == obSlot["redrive"].tries + 1
  <2>1. /\ Send("redrive", event, tries)
        /\ UNCHANGED <<obClock, obLink, obRow, obTx, obStream, obDlq, obOwed>>
    BY <1>2 DEF Redrive
  <2>2. event \in ObEvent /\ event.pub = RecordId("redrive", d)
    <3>1. d.event \in ObEvent /\ d.seq \in Nat
      BY <1>0
    <3>2. RecordId("redrive", d) \in {"redrive"} \X Nat
      BY <3>1 DEF RecordId
    <3> QED BY <3>1, <3>2 DEF ObEvent
  <2>3. tries \in Nat
    BY <1>0 DEF ObSending
  <2> HIDE DEF event, tries
  <2>4. Identified(event)
    BY <2>2 DEF Identified
  <2>5. /\ obNet' \subseteq [by: Publishers, tries: Nat, event: ObEvent] /\ CopiesSay'
        /\ obSlot' \in [Publishers -> ObSending]
        /\ \A q \in Publishers : q # "redrive" => obSlot'[q] = obSlot[q]
    BY <1>0, <2>1, <2>2, <2>3, <2>4, SentKeeps
  <2>6. obSlot'["outbox"] = obSlot["outbox"]
    BY <1>0, <2>5
  <2>7. ObTyped'
    BY <1>0, <2>1, <2>5 DEF ObTyped, ObLinked
  <2>8. RowSays' /\ (\A w \in ObWriters : WriterSays(w)') /\ OwedSays'
    BY <2>1, <2>6 DEF ObInv, RowSays, WriterSays, OwedSays
  <2> QED BY <2>5, <2>7, <2>8 DEF ObInv
<1> QED BY <1>1, <1>2

LEMMA ObKeeps ==
    ASSUME ObInv, [ObNext]_obVars
    PROVE  ObInv'
<1>1. CASE UNCHANGED obVars
  <2>1. ObLinked' /\ obClock' \in 0 .. ObClockEnd /\ obClock' >= obClock
    BY <1>1, OutboxAssumption DEF obVars, ObInv, ObTyped, ObLinked
  <2> QED BY <1>1, <2>1, LinkKeeps DEF obVars
<1> QED BY <1>1, LinkActions, WriterActions, PublishKeeps, BrokerActions, SettleActions, LetterActions DEF ObNext

\* However writers, the publisher, its retries, lost answers, broker restarts and redrives
\* interleave: what a committed writer was promised is what the live job says, a job that ended
\* well has its event in the stream, and copies of one publication lie a duplicate window apart
\* (infra-messaging/src/outbox.rs, producer.rs, dlq.rs).
THEOREM EventsSafe == ObSpec => []EventsCarried
<1>1. ObInit => ObInv
  <2> SUFFICES ASSUME ObInit PROVE ObInv
    OBVIOUS
  <2>0. {Window, MaxTries, MaxRedrives, MaxCopies, ObClockEnd} \subseteq Nat /\ "none" \in ObSaid
    BY OutboxAssumption DEF ObSaid
  <2>1. NoRow \in ObRecord /\ NoRow.state = "none" /\ NoRow.lock = NoWriter
    <3>1. Prepared(TheEvent, "none") \in ObIntent
      BY <2>0 DEF Prepared, ObIntent
    <3>2. 0 \in 0 .. MaxTries
      BY <2>0
    <3> HIDE DEF ObIntent
    <3> QED BY <3>1, <3>2 DEF NoRow, ObRecord
  <2>2. Idle \in ObWriter /\ Idle.at = "idle"
    BY <2>0 DEF Idle, ObWriter
  <2>3. ObLinked
    BY DEF ObInit, ObLinked
  <2>4. obSlot \in [Publishers -> ObSending] /\ obSlot["outbox"].at = "idle"
    BY DEF ObInit, ObSending, Publishers
  <2>5. ObTyped
    BY <2>0, <2>1, <2>2, <2>3, <2>4 DEF ObInit, ObTyped
  <2>6. RowSays /\ OwedSays
    BY <2>1, <2>4 DEF ObInit, RowSays, OwedSays
  <2>7. \A w \in ObWriters : WriterSays(w)
    BY <2>2 DEF ObInit, WriterSays
  <2>8. CopiesSay
    BY <2>0, FS_EmptySet DEF ObInit, CopiesSay, CopiesApart
  <2> QED BY <2>5, <2>6, <2>7, <2>8 DEF ObInv
<1>2. ObInv /\ [ObNext]_obVars => ObInv'
  BY ObKeeps
<1>3. ObInv => EventsCarried
  <2> SUFFICES ASSUME ObInv PROVE EventsCarried
    OBVIOUS
  <2>1. ObTypeOK
    BY DEF ObInv, ObTyped, CopiesSay, ObTypeOK, ObLinked, ObRecord, ObWriter, ObSending
  <2>2. obRow.state = "done" => \E c \in obStream : c.event.event = TheEvent
    <3>1. \A c \in obStream : c.event.event = TheEvent
      BY DEF ObInv, ObTyped, ObEvent
    <3> QED BY <3>1 DEF ObInv, RowSays
  <2> QED BY <2>1, <2>2 DEF ObInv, OwedSays, CopiesSay, EventsCarried, IntentCarried
<1> QED BY <1>1, <1>2, <1>3, PTL DEF ObSpec

-----------------------------------------------------------------------------
(* Batched completions: a supervisor's entry, its answer and its row *)

\* The holder of the lock and the batch come and go together.
WriterHolds ==
    /\ lock = NoOne => batch = NoBatch
    /\ lock # NoOne => sup[lock] = "write" /\ batch.ph # "none"
    /\ \A s \in Slots : sup[s] = "write" => lock = s

\* What a batch holds in each of its phases
BatchShape ==
    /\ batch.ph \in {"none", "retired", "answered"} => batch.queued = <<>>
    /\ batch.ph # "retired" => batch.answers = {}
    /\ batch.ph \in {"none", "answered"} => batch.pruned = {}
    /\ batch.ph \in {"sent", "executed"} => batch.ids = batch.queued
    /\ batch.ph = "executed" => DOMAIN batch.flags = DOMAIN batch.queued

\* A list names nobody twice.
Distinct(q) == \A i, j \in DOMAIN q : q[i] = q[j] => i = j

\* A queued entry's supervisor waits for the lock; one whose entry is in the batch waits,
\* writes, or was dropped and its slot is not free yet.
EntriesHeld ==
    /\ Distinct(queued) /\ Distinct(batch.queued) /\ Distinct(waiting)
    /\ Range(queued) \cap Range(batch.queued) = {}
    /\ \A s \in Range(waiting) : sup[s] = "wait"
    /\ \A s \in Range(queued) : sup[s] = "wait"
    /\ \A s \in Range(batch.queued) : sup[s] \in {"wait", "write", "none"}

\* An open reply is somebody's who waits, and is known to whoever has to settle it.
Answerable == Range(queued) \cup Range(batch.queued) \cup batch.pruned \cup {a[1] : a \in batch.answers}
OpenKnown ==
    /\ \A s \in Slots : reply[s] = "open" => sup[s] \in {"wait", "write"} /\ s \in Answerable
    /\ \A a \in batch.answers : reply[a[1]] = "open"

\* v is what became of s's row.
True(s, v) ==
    /\ v = "true" => row[s] = "completed"
    /\ v = "false" => row[s] # "running"

\* Every answer on its way to a supervisor is true of its row.
AnswersTrue ==
    /\ batch.ph = "executed" => \A i \in DOMAIN batch.queued : True(batch.queued[i], batch.flags[i])
    /\ \A a \in batch.answers : True(a[1], a[2])
    /\ \A s \in Slots : sup[s] \in {"wait", "write", "read"} => True(s, reply[s])

CompletionInv ==
    TypeOK /\ WriterHolds /\ BatchShape /\ EntriesHeld /\ OpenKnown /\ AnswersTrue /\ ToldTheTruth

\* The recursive function of Kept exists: it is built one entry at a time.
KeepsUpTo(q, S, W, n, f) ==
    /\ f \in [0 .. n -> Seq(W)]
    /\ f[0] = <<>>
    /\ \A i \in 1 .. n : f[i] = IF q[i] \in S THEN Append(f[i - 1], q[i]) ELSE f[i - 1]

LEMMA KeepsExists ==
  ASSUME NEW W, NEW q \in Seq(W), NEW S
  PROVE  \A n \in 0 .. Len(q) : \E f : KeepsUpTo(q, S, W, n, f)
<1> DEFINE T == {n \in 0 .. Len(q) : ~ \E f : KeepsUpTo(q, S, W, n, f)}
<1> SUFFICES ASSUME T # {} PROVE FALSE
  OBVIOUS
<1>1. PICK n \in T : \A k \in T : n <= k
  <2>1. T \in SUBSET Nat
    OBVIOUS
  <2> HIDE DEF T
  <2> QED BY <2>1, LeastNat
<1>2. n \in 0 .. Len(q) /\ ~ \E f : KeepsUpTo(q, S, W, n, f)
  OBVIOUS
<1>3. n # 0
  <2> DEFINE f == [i \in 0 .. 0 |-> <<>>]
  <2>1. KeepsUpTo(q, S, W, 0, f)
    BY DEF KeepsUpTo
  <2> QED BY <1>2, <2>1
<1>4. PICK f : KeepsUpTo(q, S, W, n - 1, f)
  <2>1. n - 1 \in 0 .. Len(q) /\ n - 1 \notin T
    BY <1>1, <1>2, <1>3
  <2> QED BY <2>1
<1> DEFINE last == IF q[n] \in S THEN Append(f[n - 1], q[n]) ELSE f[n - 1]
           g == [i \in 0 .. n |-> IF i = n THEN last ELSE f[i]]
<1>5. f[n - 1] \in Seq(W) /\ q[n] \in W
  BY <1>2, <1>3, <1>4 DEF KeepsUpTo
<1>6. last \in Seq(W)
  BY <1>5
<1> HIDE DEF T
<1>7. KeepsUpTo(q, S, W, n, g)
  <2>1. \A i \in 0 .. n - 1 : g[i] = f[i] /\ f[i] \in Seq(W)
    BY <1>2, <1>3, <1>4 DEF KeepsUpTo
  <2>2. g[n] = last
    BY <1>2
  <2>3. g \in [0 .. n -> Seq(W)]
    <3>1. g = [i \in 0 .. n |-> g[i]]
      OBVIOUS
    <3> HIDE DEF g, last
    <3>2. \A i \in 0 .. n : g[i] \in Seq(W)
      BY <1>2, <1>6, <2>1, <2>2
    <3> QED BY <3>1, <3>2
  <2>4. g[0] = <<>>
    BY <1>2, <1>3, <1>4, <2>1 DEF KeepsUpTo
  <2>5. ASSUME NEW i \in 1 .. n PROVE g[i] = IF q[i] \in S THEN Append(g[i - 1], q[i]) ELSE g[i - 1]
    <3>1. CASE i = n
      <4>1. g[n - 1] = f[n - 1]
        BY <1>2, <1>3, <2>1
      <4> HIDE DEF g
      <4> QED BY <3>1, <2>2, <4>1
    <3>2. CASE i # n
      <4>1. i \in 1 .. n - 1 /\ i - 1 \in 0 .. n - 1 /\ i \in 0 .. n - 1
        BY <1>2, <3>2
      <4>2. g[i] = f[i] /\ g[i - 1] = f[i - 1]
        BY <4>1, <2>1
      <4>3. f[i] = IF q[i] \in S THEN Append(f[i - 1], q[i]) ELSE f[i - 1]
        BY <4>1, <1>4 DEF KeepsUpTo
      <4> HIDE DEF g
      <4> QED BY <4>2, <4>3
    <3> QED BY <3>1, <3>2
  <2> HIDE DEF g
  <2> QED BY <2>3, <2>4, <2>5 DEF KeepsUpTo
<1> QED BY <1>2, <1>7

LEMMA KeptBy ==
  ASSUME NEW W, NEW q \in Seq(W), NEW S
  PROVE  \E f : Kept(q, S) = f[Len(q)] /\ KeepsUpTo(q, S, W, Len(q), f)
<1> DEFINE n == Len(q)
           F(f) == [i \in 0 .. n |-> IF i = 0 THEN <<>>
                                     ELSE IF q[i] \in S THEN Append(f[i - 1], q[i]) ELSE f[i - 1]]
           k == CHOOSE f : f = F(f)
<1>0. n \in Nat
  OBVIOUS
<1>1. PICK f : KeepsUpTo(q, S, W, n, f)
  <2>1. \A m \in 0 .. Len(q) : \E f : KeepsUpTo(q, S, W, m, f)
    BY KeepsExists
  <2>2. n \in 0 .. Len(q)
    BY <1>0
  <2> HIDE DEF n
  <2> QED BY <2>1, <2>2
<1>2. f = F(f)
  <2>1. f = [i \in 0 .. n |-> f[i]]
    BY <1>1 DEF KeepsUpTo
  <2>2. \A i \in 0 .. n : f[i] = F(f)[i]
    <3>1. f[0] = <<>> /\ F(f)[0] = <<>>
      BY <1>0, <1>1 DEF KeepsUpTo
    <3>2. ASSUME NEW i \in 1 .. n PROVE f[i] = F(f)[i]
      <4>1. f[i] = IF q[i] \in S THEN Append(f[i - 1], q[i]) ELSE f[i - 1]
        BY <1>1 DEF KeepsUpTo
      <4>2. i \in 0 .. n /\ i # 0
        BY <1>0
      <4> QED BY <4>1, <4>2
    <3>3. \A i \in 0 .. n : i = 0 \/ i \in 1 .. n
      BY <1>0
    <3> HIDE DEF F
    <3> QED BY <3>1, <3>2, <3>3
  <2>3. DOMAIN F(f) = 0 .. n /\ F(f) = [i \in 0 .. n |-> F(f)[i]]
    OBVIOUS
  <2> HIDE DEF F
  <2> QED BY <2>1, <2>2, <2>3
<1>3. k = F(k)
  BY <1>2
<1>4. Kept(q, S) = k[n]
  BY DEF Kept
<1> HIDE DEF k
<1>5. /\ DOMAIN k = 0 .. n /\ k[0] = <<>>
      /\ \A i \in 1 .. n : k[i] = IF q[i] \in S THEN Append(k[i - 1], q[i]) ELSE k[i - 1]
  <2>1. /\ DOMAIN F(k) = 0 .. n /\ F(k)[0] = <<>>
        /\ \A i \in 1 .. n : F(k)[i] = IF q[i] \in S THEN Append(k[i - 1], q[i]) ELSE k[i - 1]
    BY <1>0
  <2> HIDE DEF F
  <2> QED BY <1>3, <2>1
<1> HIDE DEF F
<1>6. \A i \in 0 .. n : k[i] \in Seq(W)
  <2> DEFINE T == {i \in 0 .. n : k[i] \notin Seq(W)}
  <2> SUFFICES ASSUME T # {} PROVE FALSE
    OBVIOUS
  <2>1. PICK i \in T : \A j \in T : i <= j
    <3>1. T \in SUBSET Nat
      BY <1>0
    <3> HIDE DEF T
    <3> QED BY <3>1, LeastNat
  <2>2. i # 0
    <3>1. <<>> \in Seq(W)
      OBVIOUS
    <3> QED BY <1>5, <2>1, <3>1
  <2>3. i \in 1 .. n /\ k[i - 1] \in Seq(W) /\ q[i] \in W
    BY <1>0, <2>1, <2>2
  <2>4. Append(k[i - 1], q[i]) \in Seq(W)
    BY <2>3
  <2>5. k[i] \in Seq(W)
    BY <1>5, <2>3, <2>4
  <2> QED BY <2>1, <2>5
<1>7. k = [i \in 0 .. n |-> k[i]]
  BY <1>3 DEF F
<1>8. k \in [0 .. n -> Seq(W)]
  BY <1>6, <1>7
<1> QED BY <1>4, <1>5, <1>8 DEF KeepsUpTo

\* What retain leaves: the members that are wanted, in a list that names nobody twice if the
\* original did not.
LEMMA KeptIs ==
  ASSUME NEW W, NEW q \in Seq(W), NEW S
  PROVE  /\ Kept(q, S) \in Seq(W)
         /\ Range(Kept(q, S)) = Range(q) \cap S
         /\ Distinct(q) => Distinct(Kept(q, S))
<1> DEFINE n == Len(q)
<1>1. PICK f : Kept(q, S) = f[n] /\ KeepsUpTo(q, S, W, n, f)
  BY KeptBy
<1> DEFINE Says(i) == /\ \A x : x \in Range(f[i]) <=> x \in S /\ \E j \in 1 .. i : x = q[j]
                      /\ Distinct(q) => Distinct(f[i])
           T == {i \in 0 .. n : ~Says(i)}
<1>2. n \in Nat /\ f \in [0 .. n -> Seq(W)] /\ DOMAIN q = 1 .. n
  BY <1>1 DEF KeepsUpTo
<1>3. Says(0)
  <2>1. f[0] = <<>>
    BY <1>1 DEF KeepsUpTo
  <2> QED BY <2>1 DEF Range, Distinct
<1>4. ASSUME NEW i \in 1 .. n, Says(i - 1) PROVE Says(i)
  <2>1. f[i - 1] \in Seq(W) /\ f[i] \in Seq(W) /\ q[i] \in W /\ i \in Nat
    <3>1. i - 1 \in 0 .. n /\ i \in 0 .. n /\ i \in 1 .. Len(q) /\ i \in Nat
      BY <1>2
    <3>2. q[i] \in W
      BY ONLY <3>1, q \in Seq(W)
    <3>3. f[i - 1] \in Seq(W) /\ f[i] \in Seq(W)
      BY ONLY <1>2, <3>1
    <3> QED BY <3>1, <3>2, <3>3
  <2>2. f[i] = IF q[i] \in S THEN Append(f[i - 1], q[i]) ELSE f[i - 1]
    BY <1>1 DEF KeepsUpTo
  <2>3. \A x : (\E j \in 1 .. i : x = q[j]) <=> x = q[i] \/ \E j \in 1 .. i - 1 : x = q[j]
    BY <1>2
  <2>4. CASE q[i] \notin S
    BY <1>4, <2>2, <2>3, <2>4
  <2>5. CASE q[i] \in S
    <3> DEFINE p == f[i - 1]
    <3>1. /\ f[i] = Append(p, q[i]) /\ p \in Seq(W) /\ Len(p) \in Nat /\ DOMAIN p = 1 .. Len(p)
          /\ DOMAIN f[i] = 1 .. Len(p) + 1 /\ f[i][Len(p) + 1] = q[i]
          /\ \A j \in 1 .. Len(p) : f[i][j] = p[j]
      BY <2>1, <2>2, <2>5
    <3>2. \A x : x \in Range(f[i]) <=> x = q[i] \/ x \in Range(p)
      <4> HIDE DEF p
      <4> QED BY <3>1 DEF Range
    <3>3. Distinct(q) => Distinct(f[i])
      <4> SUFFICES ASSUME Distinct(q) PROVE Distinct(f[i])
        OBVIOUS
      <4>1. Distinct(p)
        BY <1>4
      <4>2. q[i] \notin Range(p)
        <5>1. \A j \in 1 .. i - 1 : q[j] # q[i]
          BY <1>2 DEF Distinct
        <5> QED BY <1>4, <5>1
      <4> HIDE DEF p
      <4> QED BY <3>1, <4>1, <4>2 DEF Distinct, Range
    <3> QED BY <1>4, <2>3, <2>5, <3>2, <3>3
  <2> QED BY <2>4, <2>5
<1> HIDE DEF Says
<1>5. T = {}
  <2> SUFFICES ASSUME T # {} PROVE FALSE
    OBVIOUS
  <2>1. PICK i \in T : \A j \in T : i <= j
    <3>1. T \in SUBSET Nat
      BY <1>2
    <3> HIDE DEF T
    <3> QED BY <3>1, LeastNat
  <2>2. i \in 1 .. n /\ Says(i - 1)
    BY <1>2, <1>3, <2>1
  <2> QED BY <1>4, <2>1, <2>2
<1>6. Says(n)
  BY <1>2, <1>5
<1>7. Range(q) = {q[j] : j \in 1 .. n}
  BY <1>2 DEF Range
<1>8. Kept(q, S) \in Seq(W) /\ (Distinct(q) => Distinct(Kept(q, S)))
  BY <1>1, <1>2, <1>6 DEF Says
<1>9. \A x : x \in Range(Kept(q, S)) <=> x \in Range(q) \cap S
  BY <1>1, <1>6, <1>7 DEF Says
<1> QED BY <1>8, <1>9

\* A list after a newcomer joined, and after its head left
LEMMA AppendIs ==
  ASSUME NEW W, NEW q \in Seq(W), NEW x \in W
  PROVE  /\ Append(q, x) \in Seq(W) /\ Range(Append(q, x)) = Range(q) \cup {x}
         /\ Distinct(q) /\ x \notin Range(q) => Distinct(Append(q, x))
<1> DEFINE p == Append(q, x)
<1>1. /\ p \in Seq(W) /\ Len(q) \in Nat /\ DOMAIN q = 1 .. Len(q) /\ DOMAIN p = 1 .. Len(q) + 1
      /\ p[Len(q) + 1] = x /\ \A i \in 1 .. Len(q) : p[i] = q[i]
  OBVIOUS
<1> HIDE DEF p
<1>2. Range(p) = Range(q) \cup {x}
  BY <1>1 DEF Range
<1>3. Distinct(q) /\ x \notin Range(q) => Distinct(p)
  BY <1>1 DEF Distinct, Range
<1> QED BY <1>1, <1>2, <1>3 DEF p

LEMMA TailIs ==
  ASSUME NEW W, NEW q \in Seq(W), q # <<>>
  PROVE  /\ Tail(q) \in Seq(W) /\ Head(q) \in W /\ Head(q) \in Range(q) /\ Range(Tail(q)) \subseteq Range(q)
         /\ Distinct(q) => Distinct(Tail(q)) /\ Head(q) \notin Range(Tail(q))
<1> DEFINE p == Tail(q)
<1>1. /\ p \in Seq(W) /\ Len(q) \in Nat \ {0} /\ DOMAIN q = 1 .. Len(q) /\ DOMAIN p = 1 .. Len(q) - 1
      /\ Head(q) = q[1] /\ q[1] \in W /\ \A i \in 1 .. Len(q) - 1 : p[i] = q[i + 1]
  OBVIOUS
<1> HIDE DEF p
<1>2. Range(p) \subseteq Range(q) /\ q[1] \in Range(q)
  BY <1>1 DEF Range
<1>3. ASSUME Distinct(q) PROVE Distinct(p) /\ q[1] \notin Range(p)
  <2>1. \A i \in DOMAIN p : i \in Nat \ {0} /\ i + 1 \in DOMAIN q /\ p[i] = q[i + 1]
    BY <1>1
  <2>2. \A i, j \in DOMAIN p : p[i] = p[j] => i + 1 = j + 1
    BY <1>3, <2>1 DEF Distinct
  <2>3. \A i \in DOMAIN p : p[i] # q[1]
    <3>1. 1 \in DOMAIN q
      BY <1>1
    <3>2. \A i \in DOMAIN p : i + 1 # 1
      BY <2>1
    <3> QED BY <1>3, <2>1, <3>1, <3>2 DEF Distinct
  <2>4. \A i, j \in DOMAIN p : p[i] = p[j] => i = j
    BY <2>1, <2>2
  <2> QED BY <2>3, <2>4 DEF Distinct, Range
<1> QED BY <1>1, <1>2, <1>3 DEF p

\* The fields of a batch and the members of the lists
LEMMA BatchFields ==
  ASSUME NEW b \in Batches
  PROVE  /\ b.ph \in {"none", "sent", "executed", "retired", "answered"}
         /\ b.queued \in Seq(Slots) /\ b.ids \in Seq(Slots) /\ b.flags \in Seq({"true", "false", "err"})
         /\ b.pruned \subseteq Slots /\ b.answers \subseteq Slots \X {"true", "false", "err"}
         /\ Range(b.queued) \subseteq Slots
         /\ \A a \in b.answers : a[1] \in Slots /\ a[2] \in {"true", "false", "err"}
<1>1. /\ b.ph \in {"none", "sent", "executed", "retired", "answered"}
      /\ b.queued \in Seq(Slots) /\ b.ids \in Seq(Slots) /\ b.flags \in Seq({"true", "false", "err"})
      /\ b.pruned \in SUBSET Slots /\ b.answers \in SUBSET (Slots \X {"true", "false", "err"})
  BY DEF Batches
<1>2. Range(b.queued) \subseteq Slots
  BY <1>1 DEF Range
<1>3. \A a \in b.answers : a[1] \in Slots /\ a[2] \in {"true", "false", "err"}
  BY <1>1
<1> QED BY <1>1, <1>2, <1>3

LEMMA CompletionFacts ==
  ASSUME CompletionInv
  PROVE  /\ sup \in [Slots -> Phases] /\ late \subseteq Slots /\ reply \in [Slots -> Replies]
         /\ queued \in Seq(Slots) /\ lock \in Slots \cup {NoOne} /\ waiting \in Seq(Slots)
         /\ batch \in Batches /\ row \in [Slots -> {"running", "completed", "lost"}] /\ ghost \subseteq Slots
         /\ NoOne \notin Slots /\ Range(queued) \subseteq Slots /\ Range(waiting) \subseteq Slots
         /\ Range(batch.queued) \subseteq Slots /\ batch.queued \in Seq(Slots)
         /\ batch.pruned \subseteq Slots /\ \A a \in batch.answers : a[1] \in Slots
<1>1. TypeOK
  BY DEF CompletionInv
<1>2. batch \in Batches /\ queued \in Seq(Slots) /\ waiting \in Seq(Slots)
  BY <1>1 DEF TypeOK
<1>3. Range(queued) \subseteq Slots /\ Range(waiting) \subseteq Slots
  BY <1>2 DEF Range
<1>4. /\ Range(batch.queued) \subseteq Slots /\ batch.queued \in Seq(Slots) /\ batch.pruned \subseteq Slots
      /\ \A a \in batch.answers : a[1] \in Slots
  BY <1>2, BatchFields
<1> QED BY <1>1, <1>3, <1>4, SlotsAssumption DEF TypeOK

\* A step that leaves the lists, the batch, the lock and the replies alone.
LEMMA BeginKeeps ==
  ASSUME CompletionInv, NEW s \in Slots, NEW st \in {"running", "completed"}, Begin(s, st)
  PROVE  CompletionInv'
<1>0. /\ TypeOK /\ WriterHolds /\ BatchShape /\ EntriesHeld /\ OpenKnown /\ AnswersTrue /\ ToldTheTruth
  BY DEF CompletionInv
<1>1. /\ sup' = [sup EXCEPT ![s] = "persist"] /\ row' = [row EXCEPT ![s] = st]
      /\ ghost' = ghost \ {s} /\ late' = late \ {s}
      /\ UNCHANGED <<reply, queued, lock, waiting, batch>>
      /\ sup[s] \notin {"persist", "wait", "write", "read"} /\ s \notin Range(queued) /\ s \notin Range(batch.queued)
  BY DEF Begin, SlotHeld, Members
<1>2. /\ sup \in [Slots -> Phases] /\ row \in [Slots -> {"running", "completed", "lost"}]
      /\ \A a \in batch.answers : a[1] \in Slots
      /\ Range(batch.queued) \subseteq Slots /\ Range(queued) \subseteq Slots /\ Range(waiting) \subseteq Slots
      /\ lock \in Slots \cup {NoOne} /\ NoOne \notin Slots
  BY CompletionFacts
<1>3. /\ sup' \in [Slots -> Phases] /\ row' \in [Slots -> {"running", "completed", "lost"}]
      /\ \A t \in Slots : sup'[t] = IF t = s THEN "persist" ELSE sup[t]
      /\ \A t \in Slots : t # s => row'[t] = row[t]
  BY <1>1, <1>2 DEF Phases
<1>4. TypeOK'
  BY <1>0, <1>1, <1>3 DEF TypeOK
<1>5. WriterHolds'
  BY <1>0, <1>1, <1>2, <1>3 DEF WriterHolds
<1>6. BatchShape'
  BY <1>0, <1>1 DEF BatchShape
<1>7. s \notin Range(waiting)
  BY <1>0, <1>1 DEF EntriesHeld
<1>8. EntriesHeld'
  BY <1>0, <1>1, <1>2, <1>3, <1>7 DEF EntriesHeld
<1>9. reply[s] # "open" /\ \A a \in batch.answers : a[1] # s
  BY <1>0, <1>1, <1>2 DEF OpenKnown
<1>10. OpenKnown'
  BY <1>0, <1>1, <1>3, <1>9 DEF OpenKnown, Answerable
<1>11. AnswersTrue'
  <2>1. \A i \in DOMAIN batch.queued : batch.queued[i] \in Slots /\ batch.queued[i] # s
    BY <1>1, <1>2 DEF Range
  <2>2. \A t \in Slots : \A v : t # s /\ True(t, v) => True(t, v)'
    BY <1>3 DEF True
  <2> QED BY <1>0, <1>1, <1>2, <1>3, <1>9, <2>1, <2>2 DEF AnswersTrue
<1>12. ToldTheTruth'
  BY <1>0, <1>1, <1>3 DEF ToldTheTruth
<1> QED BY <1>4, <1>5, <1>6, <1>8, <1>10, <1>11, <1>12 DEF CompletionInv

LEMMA RegisterKeeps ==
  ASSUME CompletionInv, NEW s \in Slots, RegisterCompletion(s)
  PROVE  CompletionInv'
<1>0. /\ TypeOK /\ WriterHolds /\ BatchShape /\ EntriesHeld /\ OpenKnown /\ AnswersTrue /\ ToldTheTruth
  BY DEF CompletionInv
<1>1. /\ sup[s] = "persist" /\ sup' = [sup EXCEPT ![s] = "wait"] /\ reply' = [reply EXCEPT ![s] = "open"]
      /\ queued' = Append(queued, s) /\ waiting' = Append(waiting, s)
      /\ UNCHANGED <<late, lock, batch, row, ghost>>
  BY DEF RegisterCompletion
<1>2. /\ sup \in [Slots -> Phases] /\ reply \in [Slots -> Replies] /\ queued \in Seq(Slots) /\ waiting \in Seq(Slots)
      /\ \A a \in batch.answers : a[1] \in Slots
      /\ Range(batch.queued) \subseteq Slots /\ Range(queued) \subseteq Slots /\ Range(waiting) \subseteq Slots
      /\ lock \in Slots \cup {NoOne} /\ NoOne \notin Slots
  BY CompletionFacts
<1>3. /\ sup' \in [Slots -> Phases] /\ reply' \in [Slots -> Replies]
      /\ \A t \in Slots : sup'[t] = IF t = s THEN "wait" ELSE sup[t]
      /\ \A t \in Slots : reply'[t] = IF t = s THEN "open" ELSE reply[t]
  BY <1>1, <1>2 DEF Phases, Replies
<1>4. s \notin Range(queued) /\ s \notin Range(waiting) /\ s \notin Range(batch.queued) /\ reply[s] # "open"
  BY <1>0, <1>1 DEF EntriesHeld, OpenKnown
<1>5. /\ queued' \in Seq(Slots) /\ Range(queued') = Range(queued) \cup {s} /\ Distinct(queued)'
  BY <1>0, <1>1, <1>2, <1>4, AppendIs DEF EntriesHeld, Distinct
<1>6. /\ waiting' \in Seq(Slots) /\ Range(waiting') = Range(waiting) \cup {s} /\ Distinct(waiting)'
  BY <1>0, <1>1, <1>2, <1>4, AppendIs DEF EntriesHeld, Distinct
<1>7. TypeOK'
  BY <1>0, <1>1, <1>3, <1>5, <1>6 DEF TypeOK
<1>8. WriterHolds'
  BY <1>0, <1>1, <1>2, <1>3 DEF WriterHolds
<1>9. BatchShape'
  BY <1>0, <1>1 DEF BatchShape
<1>10. EntriesHeld'
  BY <1>0, <1>1, <1>2, <1>3, <1>4, <1>5, <1>6 DEF EntriesHeld, Distinct
<1>11. OpenKnown'
  BY <1>0, <1>1, <1>2, <1>3, <1>5 DEF OpenKnown, Answerable
<1>12. AnswersTrue'
  BY <1>0, <1>1, <1>2, <1>3 DEF AnswersTrue, True
<1>13. ToldTheTruth'
  BY <1>0, <1>1, <1>3 DEF ToldTheTruth
<1> QED BY <1>7, <1>8, <1>9, <1>10, <1>11, <1>12, <1>13 DEF CompletionInv

LEMMA NoBatchIs ==
  /\ NoBatch \in Batches /\ NoBatch.ph = "none" /\ NoBatch.queued = <<>> /\ NoBatch.ids = <<>>
  /\ NoBatch.flags = <<>> /\ NoBatch.pruned = {} /\ NoBatch.answers = {}
  /\ Range(NoBatch.queued) = {} /\ Distinct(NoBatch.queued)
<1> DEFINE none == {}
<1>1. none \in SUBSET Slots /\ none \in SUBSET (Slots \X {"true", "false", "err"}) /\ none = {}
  OBVIOUS
<1>2. NoBatch = [ph |-> "none", queued |-> <<>>, ids |-> <<>>, flags |-> <<>>, pruned |-> none, answers |-> none]
  BY DEF NoBatch
<1> HIDE DEF none
<1>3. /\ NoBatch \in Batches /\ NoBatch.ph = "none" /\ NoBatch.queued = <<>> /\ NoBatch.ids = <<>>
      /\ NoBatch.flags = <<>> /\ NoBatch.pruned = none /\ NoBatch.answers = none
  BY <1>1, <1>2 DEF Batches
<1> QED BY <1>1, <1>3 DEF Range, Distinct

\* A row moves on from running only; what was true of it stays true.
LEMMA RowsMove ==
  ASSUME NEW t, row'[t] = row[t] \/ (row[t] = "running" /\ row'[t] \in {"completed", "lost"}), NEW v, True(t, v)
  PROVE  True(t, v)'
BY DEF True

\* The database executes a statement nobody waits for, a lease is lost, a deadline passes.
LEMMA RowKeeps ==
  ASSUME CompletionInv, late' \subseteq Slots, ghost' \subseteq Slots,
         row' \in [Slots -> {"running", "completed", "lost"}],
         \A t \in Slots : row'[t] = row[t] \/ (row[t] = "running" /\ row'[t] \in {"completed", "lost"}),
         UNCHANGED <<sup, reply, queued, lock, waiting, batch>>
  PROVE  CompletionInv'
<1>0. /\ TypeOK /\ WriterHolds /\ BatchShape /\ EntriesHeld /\ OpenKnown /\ AnswersTrue /\ ToldTheTruth
  BY DEF CompletionInv
<1>1. /\ \A a \in batch.answers : a[1] \in Slots
      /\ Range(batch.queued) \subseteq Slots
  BY CompletionFacts
<1>2. TypeOK' /\ WriterHolds' /\ BatchShape' /\ EntriesHeld' /\ OpenKnown'
  BY <1>0 DEF TypeOK, WriterHolds, BatchShape, EntriesHeld, Distinct, OpenKnown, Answerable
<1>3. \A t \in Slots : \A v : True(t, v) => True(t, v)'
  BY RowsMove
<1>4. \A i \in DOMAIN batch.queued : batch.queued[i] \in Slots
  BY <1>1 DEF Range
<1>5. AnswersTrue'
  BY <1>0, <1>1, <1>3, <1>4 DEF AnswersTrue
<1>6. ToldTheTruth'
  BY <1>0 DEF ToldTheTruth
<1> QED BY <1>2, <1>5, <1>6 DEF CompletionInv

LEMMA AsideKeeps ==
  ASSUME CompletionInv, NEW s \in Slots, Late(s) \/ ExecuteGhost(s) \/ LoseLease(s)
  PROVE  CompletionInv'
<1>0. row \in [Slots -> {"running", "completed", "lost"}] /\ late \subseteq Slots /\ ghost \subseteq Slots
  BY CompletionFacts
<1>1. CASE Late(s)
  BY <1>0, <1>1, RowKeeps DEF Late
<1>2. CASE ExecuteGhost(s)
  <2>1. row' \in [Slots -> {"running", "completed", "lost"}]
    BY <1>0, <1>2 DEF ExecuteGhost, Completed
  <2>2. \A t \in Slots : row'[t] = row[t] \/ (row[t] = "running" /\ row'[t] \in {"completed", "lost"})
    BY <1>0, <1>2 DEF ExecuteGhost, Completed
  <2> QED BY <1>0, <1>2, <2>1, <2>2, RowKeeps DEF ExecuteGhost
<1>3. CASE LoseLease(s)
  BY <1>0, <1>3, RowKeeps DEF LoseLease
<1> QED BY <1>1, <1>2, <1>3

\* The batch is over: whoever wrote it has the lock no more, and no open reply is left in it.
LEMMA BatchEnds ==
  ASSUME CompletionInv, lock \in Slots, NEW x \in {"read", "none"}, sup' = [sup EXCEPT ![lock] = x],
         lock' = NoOne, batch' = NoBatch, reply' \in [Slots -> Replies],
         \A t \in Slots : reply'[t] = reply[t] \/ reply'[t] = "closed",
         \A t \in Slots : reply'[t] = "open" => t \in Range(queued'),
         queued' \in Seq(Slots), Range(queued') \subseteq Range(queued), Distinct(queued'),
         waiting' \in Seq(Slots), Range(waiting') \subseteq Range(waiting), Distinct(waiting'),
         late' = late, row' = row, ghost' \subseteq Slots
  PROVE  CompletionInv'
<1>0. /\ TypeOK /\ WriterHolds /\ BatchShape /\ EntriesHeld /\ OpenKnown /\ AnswersTrue /\ ToldTheTruth
  BY DEF CompletionInv
<1>1. /\ sup \in [Slots -> Phases] /\ NoOne \notin Slots
      /\ Range(queued) \subseteq Slots /\ Range(waiting) \subseteq Slots
  BY CompletionFacts
<1>2. sup' \in [Slots -> Phases] /\ \A t \in Slots : sup'[t] = IF t = lock THEN x ELSE sup[t]
  BY <1>1 DEF Phases
<1>3. sup[lock] = "write"
  BY <1>0, <1>1 DEF WriterHolds
<1>4. /\ NoBatch \in Batches /\ NoBatch.ph = "none" /\ NoBatch.queued = <<>> /\ NoBatch.pruned = {}
      /\ NoBatch.answers = {} /\ Range(NoBatch.queued) = {} /\ Distinct(NoBatch.queued)
  BY NoBatchIs
<1>5. TypeOK'
  BY <1>0, <1>2, <1>4 DEF TypeOK
<1>6. WriterHolds'
  BY <1>0, <1>1, <1>2 DEF WriterHolds
<1>7. BatchShape'
  BY <1>4 DEF BatchShape
<1>8. EntriesHeld'
  BY <1>0, <1>1, <1>2, <1>3, <1>4 DEF EntriesHeld, Distinct
<1>9. \A t \in Slots : reply'[t] = "open" => sup'[t] = "wait"
  BY <1>0, <1>2, <1>3 DEF EntriesHeld
<1>10. OpenKnown'
  BY <1>4, <1>9 DEF OpenKnown, Answerable
<1>11. AnswersTrue'
  BY <1>0, <1>2, <1>3, <1>4 DEF AnswersTrue, True
<1>12. ToldTheTruth'
  BY <1>0, <1>2 DEF ToldTheTruth
<1> QED BY <1>5, <1>6, <1>7, <1>8, <1>10, <1>11, <1>12 DEF CompletionInv

\* Dropped senders close the channels that are open, and no others.
LEMMA CloseIs ==
  ASSUME CompletionInv, NEW S
  PROVE  /\ Close(S) \in [Slots -> Replies]
         /\ \A t \in Slots : /\ Close(S)[t] = reply[t] \/ Close(S)[t] = "closed"
                             /\ Close(S)[t] = "open" => t \notin S /\ reply[t] = "open"
<1>1. reply \in [Slots -> Replies]
  BY CompletionFacts
<1>2. Close(S) = [t \in Slots |-> IF t \in S /\ reply[t] = "open" THEN "closed" ELSE reply[t]]
  BY DEF Close
<1>3. \A t \in Slots : Close(S)[t] = IF t \in S /\ reply[t] = "open" THEN "closed" ELSE reply[t]
  BY <1>2
<1>4. "closed" \in Replies
  BY DEF Replies
<1>5. Close(S) \in [Slots -> Replies]
  BY <1>1, <1>2, <1>4
<1> QED BY <1>3, <1>5

\* The lock is taken: a batch is written, or nothing is left to write.
LEMMA TakeKeeps ==
  ASSUME CompletionInv, NEW s \in Slots, Take(s)
  PROVE  CompletionInv'
<1> DEFINE kept == Kept(queued, {t \in Slots : Wanted(t)})
           pruned == {t \in Range(queued) \ Range(kept) : reply[t] = "open"}
<1>0. /\ TypeOK /\ WriterHolds /\ BatchShape /\ EntriesHeld /\ OpenKnown /\ AnswersTrue /\ ToldTheTruth
  BY DEF CompletionInv
<1>1. /\ lock = NoOne /\ waiting # <<>> /\ Head(waiting) = s /\ waiting' = Tail(waiting) /\ queued' = <<>>
      /\ UNCHANGED <<late, row, ghost>>
  BY DEF Take
<1>2. /\ sup \in [Slots -> Phases] /\ reply \in [Slots -> Replies] /\ queued \in Seq(Slots) /\ waiting \in Seq(Slots)
      /\ Range(queued) \subseteq Slots /\ Range(waiting) \subseteq Slots /\ NoOne \notin Slots
  BY CompletionFacts
<1>3. /\ batch = NoBatch /\ NoBatch \in Batches /\ NoBatch.ph = "none" /\ NoBatch.queued = <<>> /\ NoBatch.pruned = {}
      /\ NoBatch.answers = {} /\ Range(NoBatch.queued) = {} /\ Distinct(NoBatch.queued)
  BY <1>0, <1>1, NoBatchIs DEF WriterHolds
<1>4. /\ kept \in Seq(Slots) /\ Range(kept) \subseteq Range(queued) /\ Distinct(kept)
  BY <1>0, <1>2, KeptIs DEF EntriesHeld
<1>5. /\ waiting' \in Seq(Slots) /\ Distinct(waiting') /\ Range(waiting') \subseteq Range(waiting)
      /\ s \in Range(waiting) /\ s \notin Range(waiting')
  BY <1>0, <1>1, <1>2, TailIs DEF EntriesHeld
<1>6. sup[s] = "wait" /\ \A t \in Range(waiting') : sup[t] = "wait" /\ t # s
  BY <1>0, <1>5 DEF EntriesHeld
<1>7. Range(<<>>) = {} /\ Distinct(<<>>) /\ queued' \in Seq(Slots)
  BY <1>1 DEF Range, Distinct
<1>8. pruned \subseteq Slots /\ \A t \in Slots : reply[t] = "open" => t \in Range(kept) \cup pruned
  BY <1>0, <1>2, <1>3 DEF OpenKnown, Answerable
<1>9. CASE kept = <<>>
  <2>1. reply' = Close(pruned) /\ sup' = [sup EXCEPT ![s] = "read"] /\ UNCHANGED <<lock, batch>>
    BY <1>9 DEF Take
  <2> HIDE DEF kept, pruned
  <2>2. /\ reply' \in [Slots -> Replies]
        /\ \A t \in Slots : reply'[t] \in {reply[t], "closed"} /\ reply'[t] # "open"
    BY <1>7, <1>8, <1>9, <2>1, CloseIs
  <2>3. sup' \in [Slots -> Phases] /\ \A t \in Slots : sup'[t] = IF t = s THEN "read" ELSE sup[t]
    BY <1>2, <2>1 DEF Phases
  <2>4. TypeOK' /\ WriterHolds' /\ BatchShape'
    BY <1>0, <1>1, <1>2, <1>3, <1>5, <1>7, <2>1, <2>2, <2>3 DEF TypeOK, WriterHolds, BatchShape
  <2>5. EntriesHeld'
    BY <1>1, <1>2, <1>3, <1>5, <1>6, <1>7, <2>1, <2>3 DEF EntriesHeld, Distinct
  <2>6. OpenKnown'
    BY <1>3, <2>1, <2>2 DEF OpenKnown
  <2>7. AnswersTrue'
    BY <1>0, <1>1, <1>3, <1>6, <2>1, <2>2, <2>3 DEF AnswersTrue, True
  <2>8. ToldTheTruth'
    BY <1>0, <1>1, <2>3 DEF ToldTheTruth
  <2> QED BY <2>4, <2>5, <2>6, <2>7, <2>8 DEF CompletionInv
<1>10. CASE kept # <<>>
  <2> DEFINE none == {}
             b == [ph |-> "sent", queued |-> kept, ids |-> kept, flags |-> <<>>, pruned |-> pruned, answers |-> none]
  <2>1. lock' = s /\ batch' = b /\ sup' = [sup EXCEPT ![s] = "write"] /\ reply' = reply
    BY <1>10 DEF Take, Ids
  <2>2. none \in SUBSET (Slots \X {"true", "false", "err"}) /\ none = {} /\ pruned \in SUBSET Slots
    BY <1>8
  <2> HIDE DEF kept, pruned, none
  <2>3. /\ batch' \in Batches /\ batch'.ph = "sent" /\ batch'.queued = kept /\ batch'.ids = kept
        /\ batch'.pruned = pruned /\ batch'.answers = {}
    BY <1>4, <2>1, <2>2 DEF Batches
  <2>4. sup' \in [Slots -> Phases] /\ \A t \in Slots : sup'[t] = IF t = s THEN "write" ELSE sup[t]
    BY <1>2, <2>1 DEF Phases
  <2>5. TypeOK'
    BY <1>0, <1>1, <1>5, <1>7, <2>1, <2>3, <2>4 DEF TypeOK
  <2>6. WriterHolds'
    BY <1>0, <1>1, <1>2, <2>1, <2>3, <2>4 DEF WriterHolds
  <2>7. BatchShape'
    BY <2>3 DEF BatchShape
  <2>8. EntriesHeld'
    BY <1>0, <1>1, <1>2, <1>4, <1>5, <1>6, <1>7, <2>3, <2>4 DEF EntriesHeld
  <2>9. OpenKnown'
    BY <1>0, <1>8, <2>1, <2>3, <2>4 DEF OpenKnown, Answerable
  <2>10. AnswersTrue'
    BY <1>0, <1>1, <1>6, <2>1, <2>3, <2>4 DEF AnswersTrue, True
  <2>11. ToldTheTruth'
    BY <1>0, <1>1, <2>4 DEF ToldTheTruth
  <2> QED BY <2>5, <2>6, <2>7, <2>8, <2>9, <2>10, <2>11 DEF CompletionInv
<1> QED BY <1>9, <1>10

\* The statement's positions are those of the entries.
LEMMA ExecuteKeeps ==
  ASSUME CompletionInv, Execute
  PROVE  CompletionInv'
<1> DEFINE fl == [i \in DOMAIN batch.ids |-> IF row[batch.ids[i]] = "running" THEN "true" ELSE "false"]
<1>0. /\ TypeOK /\ WriterHolds /\ BatchShape /\ EntriesHeld /\ OpenKnown /\ AnswersTrue /\ ToldTheTruth
  BY DEF CompletionInv
<1>1. /\ batch.ph = "sent" /\ batch' = [batch EXCEPT !.ph = "executed", !.flags = fl]
      /\ row' = Completed(Range(batch.ids)) /\ UNCHANGED <<sup, late, reply, queued, lock, waiting, ghost>>
  BY DEF Execute
<1>2. /\ batch \in Batches /\ row \in [Slots -> {"running", "completed", "lost"}] /\ batch.queued \in Seq(Slots)
      /\ Range(batch.queued) \subseteq Slots
  BY CompletionFacts
<1>3. batch.ids = batch.queued /\ batch.answers = {}
  BY <1>0, <1>1 DEF BatchShape
<1>4. fl \in Seq({"true", "false", "err"}) /\ DOMAIN fl = DOMAIN batch.queued
  BY <1>2, <1>3
<1>5. \A i \in DOMAIN batch.queued : fl[i] = IF row[batch.queued[i]] = "running" THEN "true" ELSE "false"
  BY <1>3
<1> HIDE DEF fl
<1>6. /\ batch' \in Batches /\ batch'.ph = "executed" /\ batch'.flags = fl /\ batch'.queued = batch.queued
      /\ batch'.ids = batch.ids /\ batch'.pruned = batch.pruned /\ batch'.answers = batch.answers
  BY <1>1, <1>2, <1>4 DEF Batches
<1>7. /\ row' \in [Slots -> {"running", "completed", "lost"}]
      /\ \A t \in Slots : row'[t] = IF t \in Range(batch.queued) /\ row[t] = "running" THEN "completed" ELSE row[t]
  BY <1>1, <1>2, <1>3 DEF Completed
<1>8. TypeOK' /\ WriterHolds' /\ BatchShape'
  <2>1. TypeOK'
    BY <1>0, <1>1, <1>6, <1>7 DEF TypeOK
  <2>2. WriterHolds'
    BY <1>0, <1>1, <1>6, NoBatchIs DEF WriterHolds
  <2>3. BatchShape'
    BY <1>3, <1>4, <1>6 DEF BatchShape
  <2> QED BY <2>1, <2>2, <2>3
<1>9. EntriesHeld' /\ OpenKnown'
  BY <1>0, <1>1, <1>6 DEF EntriesHeld, Distinct, OpenKnown, Answerable
<1>10. AnswersTrue'
  <2>1. \A i \in DOMAIN batch.queued : batch.queued[i] \in Range(batch.queued) /\ batch.queued[i] \in Slots
    BY <1>2 DEF Range
  <2>2. \A i \in DOMAIN batch.queued : /\ fl[i] = "true" => row'[batch.queued[i]] = "completed"
                                       /\ fl[i] = "false" => row'[batch.queued[i]] # "running"
    BY <1>5, <1>7, <2>1
  <2>4. AnswersTrue!1'
    BY <1>6, <2>2 DEF AnswersTrue, True
  <2>5. \A t \in Slots : sup'[t] \in {"wait", "write", "read"} => True(t, reply[t])
    BY <1>0, <1>1 DEF AnswersTrue
  <2>6. AnswersTrue!3'
    BY <1>1, <1>7, <2>5 DEF AnswersTrue, True
  <2> QED BY <1>3, <1>6, <2>4, <2>6 DEF AnswersTrue
<1>11. ToldTheTruth'
  BY <1>0, <1>1, <1>7 DEF ToldTheTruth
<1> QED BY <1>8, <1>9, <1>10, <1>11 DEF CompletionInv

LEMMA FailKeeps ==
  ASSUME CompletionInv, Fail
  PROVE  CompletionInv'
<1> DEFINE fl == [i \in DOMAIN batch.queued |-> "err"]
<1>0. /\ TypeOK /\ WriterHolds /\ BatchShape /\ EntriesHeld /\ OpenKnown /\ AnswersTrue /\ ToldTheTruth
  BY DEF CompletionInv
<1>1. /\ batch.ph \in {"sent", "executed"} /\ batch' = [batch EXCEPT !.ph = "executed", !.flags = fl]
      /\ ghost' \in {ghost, ghost \cup Range(batch.ids)} /\ UNCHANGED <<sup, late, reply, queued, lock, waiting, row>>
  BY DEF Fail
<1>2. batch \in Batches /\ batch.queued \in Seq(Slots) /\ Range(batch.queued) \subseteq Slots /\ ghost \subseteq Slots
  BY CompletionFacts
<1>3. batch.ids = batch.queued /\ batch.answers = {}
  BY <1>0, <1>1 DEF BatchShape
<1>4. fl \in Seq({"true", "false", "err"}) /\ DOMAIN fl = DOMAIN batch.queued /\ \A i \in DOMAIN batch.queued : fl[i] = "err"
  BY <1>2
<1> HIDE DEF fl
<1>5. /\ batch' \in Batches /\ batch'.ph = "executed" /\ batch'.flags = fl /\ batch'.queued = batch.queued
      /\ batch'.ids = batch.ids /\ batch'.pruned = batch.pruned /\ batch'.answers = batch.answers
  BY <1>1, <1>2, <1>4 DEF Batches
<1>6. ghost' \subseteq Slots
  BY <1>1, <1>2, <1>3
<1>7. TypeOK' /\ WriterHolds' /\ BatchShape'
  <2>1. TypeOK'
    BY <1>0, <1>1, <1>5, <1>6 DEF TypeOK
  <2>2. WriterHolds'
    BY <1>0, <1>1, <1>5, NoBatchIs DEF WriterHolds
  <2>3. BatchShape'
    BY <1>3, <1>4, <1>5 DEF BatchShape
  <2> QED BY <2>1, <2>2, <2>3
<1>8. EntriesHeld' /\ OpenKnown' /\ ToldTheTruth'
  BY <1>0, <1>1, <1>5 DEF EntriesHeld, Distinct, OpenKnown, Answerable, ToldTheTruth
<1>9. AnswersTrue'
  BY <1>0, <1>1, <1>3, <1>4, <1>5 DEF AnswersTrue, True
<1> QED BY <1>7, <1>8, <1>9 DEF CompletionInv

\* The entries leave the batch before anyone is answered.
LEMMA RetireBatchKeeps ==
  ASSUME CompletionInv, Retire
  PROVE  CompletionInv'
<1> DEFINE an == Answers(batch)
<1>0. /\ TypeOK /\ WriterHolds /\ BatchShape /\ EntriesHeld /\ OpenKnown /\ AnswersTrue /\ ToldTheTruth
  BY DEF CompletionInv
<1>1. /\ batch.ph = "executed" /\ batch' = [NoBatch EXCEPT !.ph = "retired", !.pruned = batch.pruned, !.answers = an]
      /\ UNCHANGED <<sup, late, reply, queued, lock, waiting, row, ghost>>
  BY DEF Retire
<1>2. /\ batch \in Batches /\ batch.queued \in Seq(Slots) /\ batch.pruned \subseteq Slots
      /\ batch.flags \in Seq({"true", "false", "err"})
  BY CompletionFacts, BatchFields
<1>3. DOMAIN batch.flags = DOMAIN batch.queued /\ batch.answers = {}
  BY <1>0, <1>1 DEF BatchShape
<1>4. an = {<<batch.queued[i], batch.flags[i]>> : i \in {n \in DOMAIN batch.queued : reply[batch.queued[n]] = "open"}}
  BY <1>3 DEF Answers
<1>5. \A i \in DOMAIN batch.queued : batch.queued[i] \in Slots /\ batch.flags[i] \in {"true", "false", "err"}
  BY <1>2, <1>3
<1>6. /\ an \in SUBSET (Slots \X {"true", "false", "err"})
      /\ \A a \in an : \E i \in DOMAIN batch.queued :
            a[1] = batch.queued[i] /\ a[2] = batch.flags[i] /\ reply[batch.queued[i]] = "open"
      /\ \A t \in Range(batch.queued) : reply[t] = "open" => t \in {a[1] : a \in an}
  <2>1. an \in SUBSET (Slots \X {"true", "false", "err"})
    BY <1>4, <1>5
  <2>2. \A a \in an : \E i \in DOMAIN batch.queued :
            a[1] = batch.queued[i] /\ a[2] = batch.flags[i] /\ reply[batch.queued[i]] = "open"
    BY <1>4
  <2>3. ASSUME NEW i \in DOMAIN batch.queued, reply[batch.queued[i]] = "open"
        PROVE  batch.queued[i] \in {a[1] : a \in an}
    <3>1. <<batch.queued[i], batch.flags[i]>> \in an
      BY <1>4, <2>3
    <3> HIDE DEF an
    <3> QED BY <3>1
  <2> HIDE DEF an
  <2> QED BY <2>1, <2>2, <2>3 DEF Range
<1> HIDE DEF an
<1>7. /\ batch' \in Batches /\ batch'.ph = "retired" /\ batch'.queued = <<>>
      /\ batch'.pruned = batch.pruned /\ batch'.answers = an
  <2>1. batch.pruned \in SUBSET Slots
    BY <1>2
  <2> QED BY <1>1, <1>6, <2>1, NoBatchIs DEF Batches
<1>8. Range(batch'.queued) = {} /\ Distinct(batch'.queued)
  BY <1>7 DEF Range, Distinct
<1>9. TypeOK'
  BY <1>0, <1>1, <1>7 DEF TypeOK
<1>10. WriterHolds'
  BY <1>0, <1>1, <1>7, NoBatchIs DEF WriterHolds
<1>11. BatchShape'
  BY <1>7 DEF BatchShape
<1>12. EntriesHeld'
  BY <1>0, <1>1, <1>8 DEF EntriesHeld, Distinct
<1>13. OpenKnown'
  <2>1. \A t \in Slots : reply[t] = "open" => t \in Answerable'
    BY <1>0, <1>1, <1>3, <1>6, <1>7 DEF OpenKnown, Answerable
  <2>2. \A a \in batch'.answers : reply[a[1]] = "open"
    BY <1>6, <1>7
  <2> QED BY <1>0, <1>1, <2>1, <2>2 DEF OpenKnown
<1>14. AnswersTrue'
  <2>1. \A i \in DOMAIN batch.queued : True(batch.queued[i], batch.flags[i])
    BY <1>0, <1>1 DEF AnswersTrue
  <2>2. \A a \in an : True(a[1], a[2])
    BY <1>6, <2>1
  <2> QED BY <1>0, <1>1, <1>7, <2>2 DEF AnswersTrue, True
<1>15. ToldTheTruth'
  BY <1>0, <1>1 DEF ToldTheTruth
<1> QED BY <1>9, <1>10, <1>11, <1>12, <1>13, <1>14, <1>15 DEF CompletionInv

\* Each reply that was owed is sent, the others are closed.
LEMMA SendKeeps ==
  ASSUME CompletionInv, SendAnswers
  PROVE  CompletionInv'
<1>0. /\ TypeOK /\ WriterHolds /\ BatchShape /\ EntriesHeld /\ OpenKnown /\ AnswersTrue /\ ToldTheTruth
  BY DEF CompletionInv
<1> DEFINE none == {}
           chosen(s) == CHOOSE a \in batch.answers : a[1] = s
           new(s) == IF \E a \in batch.answers : a[1] = s THEN chosen(s)[2] ELSE Close(batch.pruned)[s]
<1>1. /\ batch.ph = "retired" /\ reply' = [s \in Slots |-> new(s)]
      /\ batch' = [batch EXCEPT !.ph = "answered", !.pruned = none, !.answers = none]
      /\ UNCHANGED <<sup, late, queued, lock, waiting, row, ghost>>
  BY DEF SendAnswers
<1>2. /\ batch \in Batches /\ Range(batch.queued) \subseteq Slots /\ batch.queued = <<>>
      /\ \A a \in batch.answers : a[1] \in Slots /\ a[2] \in {"true", "false", "err"}
  BY <1>0, <1>1, CompletionFacts, BatchFields DEF BatchShape
<1>3. \A s \in Slots : (\E a \in batch.answers : a[1] = s) => chosen(s) \in batch.answers /\ chosen(s)[1] = s
  OBVIOUS
<1>4. none \in SUBSET Slots /\ none \in SUBSET (Slots \X {"true", "false", "err"}) /\ none = {}
  OBVIOUS
<1> HIDE DEF chosen, none
<1>5. ASSUME NEW s \in Slots
      PROVE  /\ new(s) \in Replies
             /\ \/ (\E a \in batch.answers : a[1] = s /\ new(s) = a[2]) /\ new(s) # "open"
                \/ /\ ~ \E a \in batch.answers : a[1] = s
                   /\ new(s) = reply[s] \/ new(s) = "closed"
                   /\ new(s) = "open" => s \notin batch.pruned /\ reply[s] = "open"
  <2>1. CASE \E a \in batch.answers : a[1] = s
    BY <1>2, <1>3, <2>1 DEF Replies
  <2>2. CASE ~ \E a \in batch.answers : a[1] = s
    <3>1. new(s) = Close(batch.pruned)[s]
      BY <2>2
    <3> HIDE DEF new
    <3> QED BY <2>2, <3>1, CloseIs
  <2> QED BY <2>1, <2>2
<1> HIDE DEF new
<1>6. reply' \in [Slots -> Replies] /\ \A s \in Slots : reply'[s] = new(s)
  BY <1>1, <1>5
<1>7. /\ batch' \in Batches /\ batch'.ph = "answered" /\ batch'.queued = <<>> /\ batch'.pruned = {} /\ batch'.answers = {}
  BY <1>1, <1>2, <1>4 DEF Batches
<1>8. Range(<<>>) = {}
  BY DEF Range
<1>9. TypeOK' /\ WriterHolds' /\ BatchShape'
  <2>1. TypeOK'
    BY <1>0, <1>1, <1>6, <1>7 DEF TypeOK
  <2>2. WriterHolds'
    BY <1>0, <1>1, <1>7, NoBatchIs DEF WriterHolds
  <2>3. BatchShape'
    BY <1>7 DEF BatchShape
  <2> QED BY <2>1, <2>2, <2>3
<1>10. EntriesHeld' /\ ToldTheTruth'
  BY <1>0, <1>1, <1>2, <1>7 DEF EntriesHeld, Distinct, ToldTheTruth
<1>11. OpenKnown'
  <2>1. ASSUME NEW s \in Slots, reply'[s] = "open" PROVE reply[s] = "open" /\ s \in Range(queued)
    <3>1. /\ reply[s] = "open" /\ s \notin batch.pruned /\ ~ \E a \in batch.answers : a[1] = s
      BY <2>1, <1>5, <1>6
    <3>2. s \in Answerable
      BY <1>0, <3>1 DEF OpenKnown
    <3> QED BY <1>2, <1>8, <3>1, <3>2 DEF Answerable
  <2> QED BY <1>0, <1>1, <1>7, <2>1 DEF OpenKnown, Answerable
<1>12. AnswersTrue'
  <2>1. \A a \in batch.answers : True(a[1], a[2])
    BY <1>0 DEF AnswersTrue
  <2>2. ASSUME NEW s \in Slots, sup[s] \in {"wait", "write", "read"} PROVE True(s, new(s))
    <3>1. True(s, reply[s])
      BY <1>0, <2>2 DEF AnswersTrue
    <3> QED BY <1>5, <2>1, <3>1 DEF True
  <2>3. AnswersTrue!3'
    BY <1>1, <1>6, <2>2 DEF True
  <2> QED BY <1>7, <2>3 DEF AnswersTrue
<1> QED BY <1>9, <1>10, <1>11, <1>12 DEF CompletionInv

\* The writer unlocks, or its batch expires.
LEMMA UnlockKeeps ==
  ASSUME CompletionInv, Unlock \/ Expire
  PROVE  CompletionInv'
<1>0. /\ TypeOK /\ WriterHolds /\ BatchShape /\ EntriesHeld /\ OpenKnown /\ AnswersTrue /\ ToldTheTruth
  BY DEF CompletionInv
<1>1. /\ queued \in Seq(Slots) /\ waiting \in Seq(Slots) /\ reply \in [Slots -> Replies] /\ ghost \subseteq Slots
      /\ Range(batch.queued) \subseteq Slots /\ lock \in Slots \cup {NoOne} /\ NoOne \notin Slots
      /\ Distinct(queued) /\ Distinct(waiting)
  BY <1>0, CompletionFacts DEF EntriesHeld
<1>2. lock \in Slots
  BY <1>0, <1>1, NoBatchIs DEF WriterHolds, Unlock, Expire
<1>3. CASE Unlock
  <2>1. /\ batch.ph = "answered" /\ lock' = NoOne /\ sup' = [sup EXCEPT ![lock] = "read"] /\ batch' = NoBatch
        /\ UNCHANGED <<late, reply, queued, waiting, row, ghost>>
    BY <1>3 DEF Unlock
  <2>2. batch.queued = <<>> /\ batch.pruned = {} /\ batch.answers = {}
    BY <1>0, <2>1 DEF BatchShape
  <2>3. \A t \in Slots : reply[t] = "open" => t \in Range(queued)
    BY <1>0, <2>2 DEF OpenKnown, Answerable, Range
  <2> QED BY <1>1, <1>2, <2>1, <2>3, BatchEnds
<1>4. CASE Expire
  <2>1. /\ batch.ph \in {"sent", "executed"} /\ lock' = NoOne /\ sup' = [sup EXCEPT ![lock] = "read"] /\ batch' = NoBatch
        /\ reply' = Close(Range(batch.queued) \cup batch.pruned)
        /\ ghost' \in {ghost, ghost \cup Range(batch.ids)}
        /\ UNCHANGED <<late, queued, waiting, row>>
    BY <1>4 DEF Expire
  <2>2. batch.answers = {} /\ batch.ids = batch.queued
    BY <1>0, <2>1 DEF BatchShape
  <2>3. /\ reply' \in [Slots -> Replies]
        /\ \A t \in Slots : reply'[t] = reply[t] \/ reply'[t] = "closed"
        /\ \A t \in Slots : reply'[t] = "open" => t \notin Range(batch.queued) \cup batch.pruned /\ reply[t] = "open"
    BY <2>1, CloseIs
  <2>4. \A t \in Slots : reply'[t] = "open" => t \in Range(queued)
    BY <1>0, <2>2, <2>3 DEF OpenKnown, Answerable
  <2>5. ghost' \subseteq Slots
    BY <1>1, <2>1, <2>2
  <2> QED BY <1>1, <1>2, <2>1, <2>3, <2>4, <2>5, BatchEnds
<1> QED BY <1>3, <1>4

\* response.await returns: the supervisor believes its answer.
LEMMA ReadKeeps ==
  ASSUME CompletionInv, NEW s \in Slots, Read(s)
  PROVE  CompletionInv'
<1> DEFINE x == CASE reply[s] = "true" -> "applied" [] reply[s] = "false" -> "unchanged" [] OTHER -> "persist"
<1>0. /\ TypeOK /\ WriterHolds /\ BatchShape /\ EntriesHeld /\ OpenKnown /\ AnswersTrue /\ ToldTheTruth
  BY DEF CompletionInv
<1>1. /\ sup[s] = "read" /\ reply[s] # "open" /\ sup' = [sup EXCEPT ![s] = x]
      /\ UNCHANGED <<late, reply, queued, lock, waiting, batch, row, ghost>>
  BY DEF Read
<1>2. x \in {"applied", "unchanged", "persist"} /\ (x = "applied" => reply[s] = "true") /\ (x = "unchanged" => reply[s] = "false")
  OBVIOUS
<1> HIDE DEF x
<1>3. /\ sup \in [Slots -> Phases] /\ Range(queued) \subseteq Slots /\ Range(waiting) \subseteq Slots
      /\ Range(batch.queued) \subseteq Slots /\ lock \in Slots \cup {NoOne} /\ NoOne \notin Slots
  BY CompletionFacts
<1>4. sup' \in [Slots -> Phases] /\ \A t \in Slots : sup'[t] = IF t = s THEN x ELSE sup[t]
  BY <1>1, <1>2, <1>3 DEF Phases
<1>5. s \notin Range(queued) /\ s \notin Range(waiting) /\ s \notin Range(batch.queued) /\ lock # s
  BY <1>0, <1>1, <1>3 DEF EntriesHeld, WriterHolds
<1>6. TypeOK' /\ WriterHolds' /\ BatchShape'
  BY <1>0, <1>1, <1>2, <1>3, <1>4, <1>5 DEF TypeOK, WriterHolds, BatchShape
<1>7. EntriesHeld'
  BY <1>0, <1>1, <1>3, <1>4, <1>5 DEF EntriesHeld, Distinct
<1>8. OpenKnown'
  BY <1>0, <1>1, <1>4 DEF OpenKnown, Answerable
<1>9. AnswersTrue'
  BY <1>0, <1>1, <1>2, <1>4 DEF AnswersTrue, True
<1>10. ToldTheTruth'
  BY <1>0, <1>1, <1>2, <1>4 DEF ToldTheTruth, AnswersTrue, True
<1> QED BY <1>6, <1>7, <1>8, <1>9, <1>10 DEF CompletionInv

\* A supervisor is dropped: its entry leaves the queue, its reply the batch, and if it writes the batch goes too.
LEMMA DroppedKeeps ==
  ASSUME CompletionInv, NEW s \in Slots, Drop(s)
  PROVE  CompletionInv'
<1>0. /\ TypeOK /\ WriterHolds /\ BatchShape /\ EntriesHeld /\ OpenKnown /\ AnswersTrue /\ ToldTheTruth
  BY DEF CompletionInv
<1>1. /\ sup[s] \in {"persist", "wait", "write", "read"} /\ sup' = [sup EXCEPT ![s] = "none"]
      /\ queued' = Kept(queued, Slots \ {s}) /\ waiting' = Kept(waiting, Slots \ {s}) /\ UNCHANGED <<late, row>>
  BY DEF Drop
<1>2. /\ sup \in [Slots -> Phases] /\ queued \in Seq(Slots) /\ waiting \in Seq(Slots) /\ reply \in [Slots -> Replies]
      /\ ghost \subseteq Slots /\ batch \in Batches /\ batch.pruned \subseteq Slots
      /\ Range(queued) \subseteq Slots /\ Range(waiting) \subseteq Slots
      /\ Range(batch.queued) \subseteq Slots /\ lock \in Slots \cup {NoOne} /\ NoOne \notin Slots
      /\ batch.answers \subseteq Slots \X {"true", "false", "err"} /\ \A a \in batch.answers : a[1] \in Slots
  BY CompletionFacts, BatchFields
<1>3. /\ queued' \in Seq(Slots) /\ Range(queued') = Range(queued) \ {s} /\ Distinct(queued')
      /\ waiting' \in Seq(Slots) /\ Range(waiting') = Range(waiting) \ {s} /\ Distinct(waiting')
  <2>1. Range(queued) \cap (Slots \ {s}) = Range(queued) \ {s} /\ Range(waiting) \cap (Slots \ {s}) = Range(waiting) \ {s}
    BY <1>2
  <2>2. Distinct(queued) /\ Distinct(waiting)
    BY <1>0 DEF EntriesHeld
  <2> QED BY <1>1, <1>2, <2>1, <2>2, KeptIs
<1>4. sup' \in [Slots -> Phases] /\ \A t \in Slots : sup'[t] = IF t = s THEN "none" ELSE sup[t]
  BY <1>1, <1>2 DEF Phases
<1>5. CASE lock = s
  <2> DEFINE S == Range(batch.queued) \cup {a[1] : a \in batch.answers} \cup batch.pruned
  <2>1. /\ reply' = [Close(S) EXCEPT ![s] = "closed"]
        /\ ghost' \in {ghost, ghost \cup Range(batch.ids)} /\ (batch.ph # "sent" => ghost' = ghost)
        /\ lock' = NoOne /\ batch' = NoBatch
    BY <1>5 DEF Drop
  <2>2. /\ Close(S) \in [Slots -> Replies]
        /\ \A t \in Slots : /\ Close(S)[t] = reply[t] \/ Close(S)[t] = "closed"
                            /\ Close(S)[t] = "open" => t \notin S /\ reply[t] = "open"
    BY CloseIs
  <2>3. /\ reply' \in [Slots -> Replies]
        /\ \A t \in Slots : reply'[t] = IF t = s THEN "closed" ELSE Close(S)[t]
    <3>1. "closed" \in Replies
      BY DEF Replies
    <3> HIDE DEF S
    <3> QED BY <2>1, <2>2, <3>1
  <2>4. \A t \in Slots : reply'[t] = reply[t] \/ reply'[t] = "closed"
    BY <2>2, <2>3
  <2>5. ASSUME NEW t \in Slots, reply'[t] = "open" PROVE t \in Range(queued')
    <3>1. t # s /\ t \notin S /\ reply[t] = "open"
      BY <2>2, <2>3, <2>5
    <3>2. t \in Range(queued)
      BY <1>0, <3>1 DEF OpenKnown, Answerable
    <3> QED BY <1>3, <3>1, <3>2
  <2>6. ghost' \subseteq Slots
    BY <1>0, <1>2, <2>1 DEF BatchShape
  <2> HIDE DEF S
  <2>7. Range(queued') \subseteq Range(queued) /\ Range(waiting') \subseteq Range(waiting) /\ sup' = [sup EXCEPT ![lock] = "none"]
    BY <1>1, <1>3, <1>5
  <2> QED BY <1>1, <1>3, <1>5, <2>1, <2>3, <2>4, <2>5, <2>6, <2>7, BatchEnds
<1>6. CASE lock # s
  <2> DEFINE pr == batch.pruned \ {s}
             an == {a \in batch.answers : a[1] # s}
  <2>1. /\ reply' = [reply EXCEPT ![s] = "closed"] /\ batch' = [batch EXCEPT !.pruned = pr, !.answers = an]
        /\ UNCHANGED <<ghost, lock>>
    BY <1>6 DEF Drop
  <2>2. /\ pr \in SUBSET Slots /\ an \in SUBSET (Slots \X {"true", "false", "err"})
        /\ \A t : t \in pr <=> t \in batch.pruned /\ t # s
        /\ \A a : a \in an <=> a \in batch.answers /\ a[1] # s
    BY <1>2
  <2> HIDE DEF pr, an
  <2>3. /\ batch' \in Batches /\ batch'.ph = batch.ph /\ batch'.queued = batch.queued /\ batch'.ids = batch.ids
        /\ batch'.flags = batch.flags /\ batch'.pruned = pr /\ batch'.answers = an
    BY <1>2, <2>1, <2>2 DEF Batches
  <2>4. reply' \in [Slots -> Replies] /\ \A t \in Slots : reply'[t] = IF t = s THEN "closed" ELSE reply[t]
    BY <1>2, <2>1 DEF Replies
  <2>5. sup[s] # "write"
    BY <1>0, <1>6 DEF WriterHolds
  <2>6. TypeOK'
    BY <1>0, <1>1, <1>3, <1>4, <2>1, <2>3, <2>4 DEF TypeOK
  <2>7. WriterHolds'
    <3>1. lock = NoOne => batch' = NoBatch
      <4>1. ASSUME lock = NoOne PROVE pr = batch.pruned /\ an = batch.answers /\ batch = NoBatch
        BY <1>0, <4>1, <2>2, NoBatchIs DEF WriterHolds
      <4>2. batch = [batch EXCEPT !.pruned = batch.pruned, !.answers = batch.answers]
        BY <1>2 DEF Batches
      <4> QED BY <2>1, <4>1, <4>2
    <3> QED BY <1>0, <1>1, <1>2, <1>4, <1>6, <2>1, <2>3, <3>1 DEF WriterHolds
  <2>8. BatchShape'
    <3>1. batch.pruned = {} => pr = {}
      BY <2>2
    <3>2. batch.answers = {} => an = {}
      BY <2>2
    <3> QED BY <1>0, <2>3, <3>1, <3>2 DEF BatchShape
  <2>9. EntriesHeld'
    BY <1>0, <1>2, <1>3, <1>4, <2>3 DEF EntriesHeld, Distinct
  <2>10. OpenKnown'
    <3>1. ASSUME NEW t \in Slots, reply'[t] = "open" PROVE sup'[t] \in {"wait", "write"} /\ t \in Answerable'
      <4>1. t # s /\ reply[t] = "open" /\ sup[t] \in {"wait", "write"} /\ t \in Answerable
        BY <1>0, <2>4, <3>1 DEF OpenKnown
      <4> QED BY <1>3, <1>4, <2>2, <2>3, <4>1 DEF Answerable
    <3>2. \A a \in batch'.answers : reply'[a[1]] = "open"
      BY <1>0, <1>2, <2>2, <2>3, <2>4 DEF OpenKnown
    <3> QED BY <3>1, <3>2 DEF OpenKnown
  <2>11. AnswersTrue'
    BY <1>0, <1>1, <1>4, <2>2, <2>3, <2>4 DEF AnswersTrue, True
  <2>12. ToldTheTruth'
    BY <1>0, <1>1, <1>4 DEF ToldTheTruth
  <2> QED BY <2>6, <2>7, <2>8, <2>9, <2>10, <2>11, <2>12 DEF CompletionInv
<1> QED BY <1>5, <1>6

LEMMA CompletionStarts == Init => CompletionInv
<1> SUFFICES ASSUME Init PROVE CompletionInv
  OBVIOUS
<1>1. Range(<<>>) = {} /\ Distinct(<<>>)
  BY DEF Range, Distinct
<1>2. TypeOK
  BY NoBatchIs DEF Init, TypeOK, Phases, Replies
<1>3. WriterHolds /\ BatchShape
  BY NoBatchIs, SlotsAssumption DEF Init, WriterHolds, BatchShape
<1>4. EntriesHeld /\ OpenKnown
  BY <1>1, NoBatchIs DEF Init, EntriesHeld, OpenKnown
<1>5. AnswersTrue /\ ToldTheTruth
  BY NoBatchIs DEF Init, AnswersTrue, ToldTheTruth
<1> QED BY <1>2, <1>3, <1>4, <1>5 DEF CompletionInv

LEMMA CompletionKeeps == CompletionInv /\ [Next]_vars => CompletionInv'
<1> SUFFICES ASSUME CompletionInv, [Next]_vars PROVE CompletionInv'
  OBVIOUS
<1>1. CASE Writer
  BY <1>1, ExecuteKeeps, FailKeeps, RetireBatchKeeps, SendKeeps, UnlockKeeps DEF Writer
<1>2. ASSUME NEW s \in Slots, Supervisor(s) \/ Late(s) \/ ExecuteGhost(s) \/ LoseLease(s) PROVE CompletionInv'
  BY <1>2, RegisterKeeps, TakeKeeps, ReadKeeps, DroppedKeeps, AsideKeeps DEF Supervisor
<1>3. ASSUME NEW s \in Slots, NEW st \in {"running", "completed"}, Begin(s, st) PROVE CompletionInv'
  BY <1>3, BeginKeeps
<1>4. CASE UNCHANGED vars
  BY <1>4 DEF vars, CompletionInv, TypeOK, WriterHolds, BatchShape, EntriesHeld, Distinct, OpenKnown, Answerable,
              AnswersTrue, True, ToldTheTruth
<1> QED BY <1>1, <1>2, <1>3, <1>4 DEF Next

\* Two lists that share nobody and name nobody twice make one that names nobody twice.
LEMMA EntriesOnce ==
  ASSUME CompletionInv
  PROVE  OneMembership
<1> DEFINE n == Len(queued)
           m == Len(batch.queued)
           e == queued \o batch.queued
<1>1. queued \in Seq(Slots) /\ batch.queued \in Seq(Slots)
  BY CompletionFacts
<1>2. /\ n \in Nat /\ m \in Nat /\ DOMAIN queued = 1 .. n /\ DOMAIN batch.queued = 1 .. m /\ DOMAIN e = 1 .. n + m
      /\ \A i \in 1 .. n : e[i] = queued[i]
      /\ \A i \in n + 1 .. n + m : e[i] = batch.queued[i - n] /\ i - n \in 1 .. m
  BY <1>1
<1>3. /\ Distinct(queued) /\ Distinct(batch.queued) /\ Range(queued) \cap Range(batch.queued) = {}
  BY DEF CompletionInv, EntriesHeld
<1> HIDE DEF n, m, e
<1>4. ASSUME NEW i \in DOMAIN e, NEW j \in DOMAIN e, e[i] = e[j] PROVE i = j
  <2>1. CASE i \in 1 .. n /\ j \in 1 .. n
    BY <1>2, <1>3, <1>4, <2>1 DEF Distinct
  <2>2. CASE i \in n + 1 .. n + m /\ j \in n + 1 .. n + m
    <3>1. i - n = j - n
      BY <1>2, <1>3, <1>4, <2>2 DEF Distinct
    <3> QED BY <1>2, <2>2, <3>1
  <2>3. ASSUME NEW k \in 1 .. n, NEW l \in n + 1 .. n + m, e[k] = e[l] PROVE FALSE
    <3>1. e[k] \in Range(queued) /\ e[l] \in Range(batch.queued)
      BY <1>2, <2>3 DEF Range
    <3> QED BY <1>3, <2>3, <3>1
  <2>4. (i \in 1 .. n \/ i \in n + 1 .. n + m) /\ (j \in 1 .. n \/ j \in n + 1 .. n + m)
    BY <1>2, <1>4
  <2> QED BY <1>4, <2>1, <2>2, <2>3, <2>4
<1> QED BY <1>4 DEF OneMembership, CompletionInv, e

\* However supervisors register, retry, pass their deadlines and are dropped, and whatever becomes of the
\* statements they send: an attempt has one entry among the queue and the batch, whoever leaves the lock finds
\* its answer at hand, and nobody is told "applied" or "unchanged" of a row it is not true of
\* (infra-jobs/src/attempt.rs: complete_batched, write_batch, CompletionBatch).
THEOREM CompletionsSafe == Spec => []AnsweredTruly
<1>1. CompletionInv => AnsweredTruly
  <2>1. CompletionInv => AnswerAtHand
    BY DEF CompletionInv, OpenKnown, AnswerAtHand
  <2>2. CompletionInv => ToldTheTruth
    BY DEF CompletionInv
  <2> QED BY <2>1, <2>2, EntriesOnce DEF AnsweredTruly
<1> QED BY <1>1, CompletionStarts, CompletionKeeps, PTL DEF Spec

-----------------------------------------------------------------------------
(* Table maintenance: what the counters claim *)

MtSpec == MtInit /\ [][MtNext]_mtVars

PassRecord == [at: PassStages, rows: SUBSET MtRows]
Metrics == [rows: Nat, batches: {0, 1}, active: Nat, ends: SUBSET PassOutcomes]
Samplers == [at: {"idle", "reading"}, good: BOOLEAN, last: {"none", "success", "failed", "cancelled"},
             seen: Int, read: Int]

MtTyped ==
    /\ expired \in SUBSET MtRows /\ gone \in SUBSET MtRows /\ unheard \in SUBSET MtRows
    /\ cleaning \in [Passes -> PassRecord] /\ shown \in Metrics /\ probe \in Samplers

\* A batch is in the table until it commits and unheard of until it is answered.
BatchesHeld ==
    /\ expired \cap gone = {} /\ unheard \subseteq gone
    /\ \A p \in Passes : /\ cleaning[p].at \notin {"commit", "answer"} => cleaning[p].rows = {}
                         /\ cleaning[p].at = "commit" => cleaning[p].rows \subseteq expired
                         /\ cleaning[p].at = "answer" => cleaning[p].rows \subseteq unheard

\* No row is in two batches.
BatchesApart ==
    \A p, q \in Passes : p # q => cleaning[p].rows \cap cleaning[q].rows = {}

Running == {p \in Passes : cleaning[p].at # "idle"}

\* What is unheard of has a pass that still waits for its answer, unless one was stopped.
UnheardOwned ==
    {"failed", "cancelled"} \cap shown.ends = {} =>
        \A r \in unheard : \E p \in Passes : cleaning[p].at = "answer" /\ r \in cleaning[p].rows

MtInv ==
    /\ MtTyped /\ BatchesHeld /\ BatchesApart /\ UnheardOwned
    /\ shown.rows = Cardinality(gone \ unheard)
    /\ shown.active = Cardinality(Running)

LEMMA MtFinite ==
  ASSUME NEW S \in SUBSET MtRows PROVE IsFiniteSet(S) /\ Cardinality(S) \in Nat
BY MaintenanceAssumption, FS_Subset, FS_CardinalityType

LEMMA RunningFinite ==
  ASSUME NEW S \in SUBSET Passes PROVE IsFiniteSet(S) /\ Cardinality(S) \in Nat
BY MaintenanceAssumption, FS_Subset, FS_CardinalityType

LEMMA MtStarts == MtInit => MtInv
<1> SUFFICES ASSUME MtInit PROVE MtInv
  OBVIOUS
<1>1. MtTyped
  BY MaintenanceAssumption DEF MtInit, MtTyped, PassRecord, PassStages, Metrics, Samplers
<1>2. BatchesHeld /\ BatchesApart /\ UnheardOwned
  BY DEF MtInit, BatchesHeld, BatchesApart, UnheardOwned
<1>3. gone \ unheard = {} /\ Running = {} /\ shown.rows = 0 /\ shown.active = 0
  BY DEF MtInit, Running
<1> QED BY <1>1, <1>2, <1>3, FS_EmptySet DEF MtInv

\* The steps that move no pass and no counter
LEMMA RowsKeep ==
  ASSUME MtInv, ExpireRow PROVE MtInv'
<1>1. PICK r \in MtRows \ (expired \cup gone) : expired' = expired \cup {r}
  BY DEF ExpireRow
<1>2. UNCHANGED <<gone, unheard, cleaning, shown, probe>>
  BY DEF ExpireRow
<1>3. MtTyped'
  BY <1>1, <1>2 DEF MtInv, MtTyped
<1>4. BatchesHeld'
  BY <1>1, <1>2 DEF MtInv, BatchesHeld
<1> QED BY <1>2, <1>3, <1>4 DEF MtInv, BatchesApart, UnheardOwned, Running

LEMMA ProbesKeep ==
  ASSUME MtInv, probe' \in Samplers, UNCHANGED <<expired, gone, unheard, cleaning, shown>>
  PROVE  MtInv'
BY DEF MtInv, MtTyped, BatchesHeld, BatchesApart, UnheardOwned, Running

LEMMA SamplesKeep ==
  ASSUME MtInv,
         \/ ProbeReads
         \/ \E valid \in BOOLEAN : ProbePublishes(valid)
         \/ \E how \in {"failed", "cancelled"} : ProbeFails(how)
  PROVE  MtInv'
<1>1. probe \in Samplers /\ Cardinality(expired) \in Nat
  BY MtFinite DEF MtInv, MtTyped
<1> DEFINE rows == Cardinality(expired)
<1>2. rows \in Int
  BY <1>1
<1> HIDE DEF rows
<1>3. CASE ProbeReads
  <2>1. probe' = [probe EXCEPT !.at = "reading", !.read = rows]
    BY <1>3 DEF ProbeReads, rows
  <2>2. probe' \in Samplers
    BY <1>1, <1>2, <2>1 DEF Samplers
  <2> QED BY <1>3, <2>2, ProbesKeep DEF ProbeReads
<1>4. ASSUME NEW valid \in BOOLEAN, ProbePublishes(valid) PROVE MtInv'
  <2>1. probe' \in Samplers
    BY <1>1, <1>4 DEF ProbePublishes, Samplers
  <2> QED BY <1>4, <2>1, ProbesKeep DEF ProbePublishes
<1>5. ASSUME NEW how \in {"failed", "cancelled"}, ProbeFails(how) PROVE MtInv'
  <2>1. probe' \in Samplers
    BY <1>1, <1>5 DEF ProbeFails, Samplers
  <2> QED BY <1>5, <2>1, ProbesKeep DEF ProbeFails
<1> QED BY <1>3, <1>4, <1>5

\* One pass moves: what the others hold is theirs still.
LEMMA PassMoves ==
  ASSUME MtTyped, NEW p \in Passes, NEW at \in PassStages, NEW rows \in SUBSET MtRows,
         cleaning' = [cleaning EXCEPT ![p] = [at |-> at, rows |-> rows]]
  PROVE  /\ cleaning' \in [Passes -> PassRecord]
         /\ cleaning'[p].at = at /\ cleaning'[p].rows = rows
         /\ \A q \in Passes : q # p => cleaning'[q] = cleaning[q]
         /\ Running' = IF at = "idle" THEN Running \ {p} ELSE Running \cup {p}
<1>1. [at |-> at, rows |-> rows] \in PassRecord
  BY DEF PassRecord
<1>2. /\ cleaning' \in [Passes -> PassRecord] /\ cleaning'[p] = [at |-> at, rows |-> rows]
      /\ \A q \in Passes : q # p => cleaning'[q] = cleaning[q]
  BY <1>1 DEF MtTyped
<1>3. cleaning'[p].at = at /\ cleaning'[p].rows = rows
  BY <1>2
<1>4. Running' = IF at = "idle" THEN Running \ {p} ELSE Running \cup {p}
  BY <1>2, <1>3 DEF Running
<1> QED BY <1>2, <1>3, <1>4

LEMMA PassIs ==
  ASSUME MtTyped, NEW p \in Passes, NEW at,
         cleaning' = [cleaning EXCEPT ![p].at = at]
  PROVE  cleaning' = [cleaning EXCEPT ![p] = [at |-> at, rows |-> cleaning[p].rows]]
<1>1. cleaning[p] \in PassRecord
  BY DEF MtTyped
<1>2. [cleaning[p] EXCEPT !.at = at] = [at |-> at, rows |-> cleaning[p].rows]
  BY <1>1 DEF PassRecord
<1> QED BY <1>2

LEMMA StartsKeep ==
  ASSUME MtInv, NEW p \in Passes, StartPass(p) PROVE MtInv'
<1>1. /\ MtTyped /\ BatchesHeld /\ BatchesApart /\ UnheardOwned /\ cleaning[p].at = "idle"
      /\ shown.active = Cardinality(Running) /\ shown.rows = Cardinality(gone \ unheard)
      /\ UNCHANGED <<expired, gone, unheard, probe>>
  BY DEF MtInv, StartPass
<1>2. cleaning' = [cleaning EXCEPT ![p] = [at |-> "admit", rows |-> cleaning[p].rows]]
  BY <1>1, PassIs DEF StartPass
<1>3. cleaning[p].rows = {} /\ cleaning[p].rows \in SUBSET MtRows
  BY <1>1 DEF BatchesHeld
<1>4. /\ cleaning' \in [Passes -> PassRecord] /\ cleaning'[p].at = "admit" /\ cleaning'[p].rows = {}
      /\ \A q \in Passes : q # p => cleaning'[q] = cleaning[q]
      /\ Running' = Running \cup {p}
  BY <1>1, <1>2, <1>3, PassMoves DEF PassStages
<1>5. Cardinality(Running') = shown.active + 1 /\ shown.active + 1 \in Nat
  <2>1. Running \in SUBSET Passes /\ p \notin Running
    BY <1>1 DEF Running
  <2> QED BY <1>1, <1>4, <2>1, RunningFinite, FS_AddElement
<1> DEFINE more == shown.active + 1
<1>6. shown' = [shown EXCEPT !.active = more]
  BY DEF StartPass
<1> HIDE DEF more
<1>7. /\ shown' \in Metrics /\ shown'.active = more /\ shown'.rows = shown.rows
      /\ shown'.ends = shown.ends
  BY <1>1, <1>5, <1>6 DEF MtTyped, Metrics, more
<1>8. MtTyped'
  BY <1>1, <1>4, <1>7 DEF MtTyped
<1>9. BatchesHeld' /\ BatchesApart'
  BY <1>1, <1>4 DEF BatchesHeld, BatchesApart
<1>10. UnheardOwned'
  BY <1>1, <1>4, <1>7 DEF UnheardOwned
<1> QED BY <1>1, <1>5, <1>7, <1>8, <1>9, <1>10 DEF MtInv, more

LEMMA AdmitsKeep ==
  ASSUME MtInv, NEW p \in Passes, AdmitBatch(p) PROVE MtInv'
<1>1. /\ MtTyped /\ BatchesHeld /\ BatchesApart /\ UnheardOwned /\ cleaning[p].at = "admit"
      /\ UNCHANGED <<expired, gone, unheard, shown, probe>>
  BY DEF MtInv, AdmitBatch
<1>2. cleaning' = [cleaning EXCEPT ![p] = [at |-> "delete", rows |-> cleaning[p].rows]]
  BY <1>1, PassIs DEF AdmitBatch
<1>3. cleaning[p].rows = {} /\ cleaning[p].rows \in SUBSET MtRows
  BY <1>1 DEF BatchesHeld
<1>4. /\ cleaning' \in [Passes -> PassRecord] /\ cleaning'[p].at = "delete" /\ cleaning'[p].rows = {}
      /\ \A q \in Passes : q # p => cleaning'[q] = cleaning[q]
      /\ Running' = Running \cup {p}
  BY <1>1, <1>2, <1>3, PassMoves DEF PassStages
<1>5. Running' = Running
  BY <1>1, <1>4 DEF Running
<1>6. MtTyped'
  BY <1>1, <1>4 DEF MtTyped
<1>7. BatchesHeld' /\ BatchesApart'
  BY <1>1, <1>4 DEF BatchesHeld, BatchesApart
<1>8. UnheardOwned'
  BY <1>1, <1>4 DEF UnheardOwned
<1> QED BY <1>1, <1>5, <1>6, <1>7, <1>8 DEF MtInv

\* SKIP LOCKED: the batch is apart from every batch that waits for its commit, and what waits for
\* its answer is no longer in the table.
LEMMA DeletesKeep ==
  ASSUME MtInv, NEW p \in Passes, DeleteBatch(p) PROVE MtInv'
<1>1. /\ MtTyped /\ BatchesHeld /\ BatchesApart /\ UnheardOwned /\ cleaning[p].at = "delete"
      /\ UNCHANGED <<expired, gone, unheard, shown, probe>>
  BY DEF MtInv, DeleteBatch
<1>2. PICK taken \in SUBSET (expired \ LockedRows) :
        cleaning' = [cleaning EXCEPT ![p] = [at |-> "commit", rows |-> taken]]
  BY DEF DeleteBatch
<1>3. taken \in SUBSET MtRows /\ taken \subseteq expired
  BY <1>1 DEF MtTyped
<1>4. /\ cleaning' \in [Passes -> PassRecord] /\ cleaning'[p].at = "commit" /\ cleaning'[p].rows = taken
      /\ \A q \in Passes : q # p => cleaning'[q] = cleaning[q]
      /\ Running' = Running \cup {p}
  BY <1>1, <1>2, <1>3, PassMoves DEF PassStages
<1>5. Running' = Running
  BY <1>1, <1>4 DEF Running
<1>6. ASSUME NEW q \in Passes, q # p PROVE cleaning[q].rows \cap taken = {}
  <2>1. CASE cleaning[q].at = "commit"
    BY <1>2, <2>1 DEF LockedRows
  <2>2. CASE cleaning[q].at = "answer"
    BY <1>1, <1>3, <2>2 DEF BatchesHeld
  <2>3. CASE cleaning[q].at \notin {"commit", "answer"}
    BY <1>1, <2>3 DEF BatchesHeld
  <2> QED BY <2>1, <2>2, <2>3
<1>7. MtTyped'
  BY <1>1, <1>4 DEF MtTyped
<1>8. BatchesHeld'
  BY <1>1, <1>3, <1>4 DEF BatchesHeld
<1>9. BatchesApart'
  BY <1>1, <1>4, <1>6 DEF BatchesApart
<1>10. UnheardOwned'
  BY <1>1, <1>4 DEF UnheardOwned
<1> QED BY <1>1, <1>5, <1>7, <1>8, <1>9, <1>10 DEF MtInv

LEMMA CommitsKeep ==
  ASSUME MtInv, NEW p \in Passes, CommitBatch(p) PROVE MtInv'
<1> DEFINE taken == cleaning[p].rows
<1>1. /\ MtTyped /\ BatchesHeld /\ BatchesApart /\ UnheardOwned /\ cleaning[p].at = "commit"
      /\ expired' = expired \ taken /\ gone' = gone \cup taken /\ unheard' = unheard \cup taken
      /\ UNCHANGED <<shown, probe>>
  BY DEF MtInv, CommitBatch, BatchCommits
<1>2. cleaning' = [cleaning EXCEPT ![p] = [at |-> "answer", rows |-> taken]]
  BY <1>1, PassIs DEF CommitBatch
<1>3. taken \in SUBSET MtRows /\ taken \subseteq expired
  BY <1>1 DEF MtTyped, BatchesHeld
<1>4. /\ cleaning' \in [Passes -> PassRecord] /\ cleaning'[p].at = "answer" /\ cleaning'[p].rows = taken
      /\ \A q \in Passes : q # p => cleaning'[q] = cleaning[q]
      /\ Running' = Running \cup {p}
  BY <1>1, <1>2, <1>3, PassMoves, ZenonT(40) DEF PassStages
<1>5. Running' = Running
  BY <1>1, <1>4 DEF Running
<1>6. MtTyped'
  BY <1>1, <1>3, <1>4 DEF MtTyped
<1>7. \A q \in Passes : q # p => cleaning[q].rows \cap taken = {}
  BY <1>1 DEF BatchesApart
<1> HIDE DEF taken
<1>8. BatchesHeld'
  BY <1>1, <1>3, <1>4, <1>7 DEF BatchesHeld
<1>9. BatchesApart'
  BY <1>1, <1>4, <1>7 DEF BatchesApart
<1>10. UnheardOwned'
  BY <1>1, <1>4 DEF UnheardOwned
<1>11. gone' \ unheard' = gone \ unheard
  BY <1>1, <1>3 DEF BatchesHeld
<1> QED BY <1>1, <1>5, <1>6, <1>8, <1>9, <1>10, <1>11 DEF MtInv

\* A pass ends: nobody else's batch moves, and the gauge goes down by it.
LEMMA PassLeaves ==
  ASSUME MtTyped, shown.active = Cardinality(Running), NEW p \in Passes, cleaning[p].at # "idle",
         cleaning' = [cleaning EXCEPT ![p] = [at |-> "idle", rows |-> {}]]
  PROVE  /\ cleaning' \in [Passes -> PassRecord] /\ cleaning'[p].at = "idle" /\ cleaning'[p].rows = {}
         /\ \A q \in Passes : q # p => cleaning'[q] = cleaning[q]
         /\ shown.active - 1 \in Nat /\ Cardinality(Running') = shown.active - 1
<1> DEFINE none == {}
<1>1. none \in SUBSET MtRows /\ none = {}
  OBVIOUS
<1> HIDE DEF none
<1>2. cleaning' = [cleaning EXCEPT ![p] = [at |-> "idle", rows |-> none]]
  BY <1>1
<1>3. /\ cleaning' \in [Passes -> PassRecord] /\ cleaning'[p].at = "idle" /\ cleaning'[p].rows = none
      /\ \A q \in Passes : q # p => cleaning'[q] = cleaning[q]
      /\ Running' = Running \ {p}
  BY <1>1, <1>2, PassMoves DEF PassStages
<1>4. Running \in SUBSET Passes /\ p \in Running
  BY DEF Running
<1>5. Cardinality(Running') = shown.active - 1
  BY <1>3, <1>4, RunningFinite, FS_RemoveElement
<1>6. Cardinality(Running') \in Nat
  BY <1>3, <1>4, RunningFinite
<1> QED BY <1>1, <1>3, <1>5, <1>6

LEMMA StopsKeep ==
  ASSUME MtInv, NEW p \in Passes, NEW outcome \in {"failed", "cancelled"}, PassStops(p, outcome)
  PROVE  MtInv'
<1>1. /\ MtTyped /\ BatchesHeld /\ BatchesApart /\ UnheardOwned /\ cleaning[p].at # "idle"
      /\ shown.active = Cardinality(Running) /\ shown.rows = Cardinality(gone \ unheard)
      /\ BatchCommits(p) \/ UNCHANGED <<expired, gone, unheard>>
      /\ UNCHANGED probe
  BY DEF MtInv, PassStops
<1>2. cleaning' = [cleaning EXCEPT ![p] = [at |-> "idle", rows |-> {}]]
  BY DEF PassStops, PassEnds
<1>3. /\ cleaning' \in [Passes -> PassRecord] /\ cleaning'[p].at = "idle" /\ cleaning'[p].rows = {}
      /\ \A q \in Passes : q # p => cleaning'[q] = cleaning[q]
      /\ shown.active - 1 \in Nat /\ Cardinality(Running') = shown.active - 1
  BY <1>1, <1>2, PassLeaves
<1> DEFINE fewer == shown.active - 1
           ends == shown.ends \cup {outcome}
<1>4. shown' = [shown EXCEPT !.active = fewer, !.ends = ends]
  BY DEF PassStops, PassEnds
<1>5. fewer \in Nat /\ ends \in SUBSET PassOutcomes /\ outcome \in ends
  BY <1>1, <1>3 DEF MtTyped, Metrics, PassOutcomes
<1> HIDE DEF fewer, ends
<1>6. /\ shown' \in Metrics /\ shown'.active = fewer /\ shown'.rows = shown.rows /\ shown'.ends = ends
  BY <1>1, <1>4, <1>5 DEF MtTyped, Metrics
<1>7. MtTyped'
  <2>1. /\ expired \in SUBSET MtRows /\ gone \in SUBSET MtRows /\ unheard \in SUBSET MtRows
        /\ cleaning[p].rows \subseteq MtRows
    BY <1>1 DEF MtTyped, PassRecord
  <2>2. expired' \in SUBSET MtRows /\ gone' \in SUBSET MtRows /\ unheard' \in SUBSET MtRows
    BY <1>1, <2>1 DEF BatchCommits
  <2> QED BY <1>1, <1>3, <1>6, <2>2 DEF MtTyped
<1>8. BatchesApart'
  BY <1>1, <1>3 DEF BatchesApart
<1>9. UnheardOwned'
  BY <1>5, <1>6 DEF UnheardOwned
<1>10. BatchesHeld' /\ gone' \ unheard' = gone \ unheard
  <2>1. CASE UNCHANGED <<expired, gone, unheard>>
    BY <1>1, <1>3, <2>1 DEF BatchesHeld
  <2>2. CASE BatchCommits(p)
    <3> DEFINE taken == cleaning[p].rows
    <3>1. /\ expired' = expired \ taken /\ gone' = gone \cup taken /\ unheard' = unheard \cup taken
          /\ taken \subseteq expired
      BY <1>1, <2>2 DEF BatchCommits, BatchesHeld
    <3>2. \A q \in Passes : q # p => cleaning[q].rows \cap taken = {}
      BY <1>1 DEF BatchesApart
    <3> HIDE DEF taken
    <3> QED BY <1>1, <1>3, <3>1, <3>2 DEF BatchesHeld
  <2> QED BY <1>1, <2>1, <2>2
<1> QED BY <1>1, <1>3, <1>6, <1>7, <1>8, <1>9, <1>10 DEF MtInv, fewer

\* The answer moves the batch from the unheard to the counted, and from nobody else.
LEMMA AnswerCounts ==
  ASSUME MtInv, NEW p \in Passes, cleaning[p].at = "answer",
         unheard' = unheard \ cleaning[p].rows, UNCHANGED <<expired, gone>>
  PROVE  /\ Cardinality(cleaning[p].rows) \in Nat
         /\ Cardinality(gone' \ unheard') = shown.rows + Cardinality(cleaning[p].rows)
<1> DEFINE taken == cleaning[p].rows
           heard == gone \ unheard
<1>1. /\ taken \subseteq unheard /\ unheard \subseteq gone /\ gone \in SUBSET MtRows
      /\ shown.rows = Cardinality(heard)
  BY DEF MtInv, BatchesHeld, MtTyped
<1>2. taken \in SUBSET MtRows /\ heard \in SUBSET MtRows
  BY <1>1
<1>3. gone' \ unheard' = heard \cup taken /\ heard \cap taken = {}
  BY <1>1
<1> HIDE DEF taken, heard
<1>4. /\ IsFiniteSet(taken) /\ IsFiniteSet(heard)
      /\ Cardinality(taken) \in Nat /\ Cardinality(heard) \in Nat
  BY <1>2, MtFinite
<1>5. Cardinality(heard \cup taken) = Cardinality(heard) + Cardinality(taken) - Cardinality(heard \cap taken)
  BY <1>4, FS_Union
<1>6. Cardinality(heard \cap taken) = 0
  BY <1>3, FS_EmptySet
<1>7. Cardinality(heard \cup taken) = shown.rows + Cardinality(taken)
  BY <1>1, <1>4, <1>5, <1>6
<1> QED BY <1>3, <1>4, <1>7 DEF taken

LEMMA AnswersKeep ==
  ASSUME MtInv, NEW p \in Passes, BatchAnswered(p) PROVE MtInv'
<1> DEFINE taken == cleaning[p].rows
           total == shown.rows + Cardinality(taken)
           short == Cardinality(taken) < BatchRows
<1>1. /\ MtTyped /\ BatchesHeld /\ BatchesApart /\ UnheardOwned /\ cleaning[p].at = "answer"
      /\ shown.active = Cardinality(Running) /\ shown \in Metrics
      /\ unheard' = unheard \ taken /\ UNCHANGED <<expired, gone, probe>>
  BY DEF MtInv, MtTyped, BatchAnswered
<1>2. Cardinality(gone' \ unheard') = total /\ total \in Nat
  <2>1. Cardinality(taken) \in Nat /\ Cardinality(gone' \ unheard') = shown.rows + Cardinality(taken)
    BY <1>1, AnswerCounts
  <2>2. shown.rows \in Nat
    BY <1>1 DEF Metrics
  <2> QED BY <2>1, <2>2
<1>3. \A q \in Passes : q # p => cleaning[q].rows \cap taken = {}
  BY <1>1 DEF BatchesApart
<1>4. /\ short => /\ shown' = [[shown EXCEPT !.rows = total, !.batches = 1] EXCEPT
                                 !.active = @ - 1, !.ends = @ \cup {"completed"}]
                  /\ cleaning' = [cleaning EXCEPT ![p] = [at |-> "idle", rows |-> {}]]
      /\ ~short => /\ shown' = [shown EXCEPT !.rows = total, !.batches = 1]
                   /\ cleaning' = [cleaning EXCEPT ![p] = [at |-> "admit", rows |-> {}]]
  BY DEF BatchAnswered
<1> HIDE DEF taken, total, short
<1>5. ASSUME cleaning' \in [Passes -> PassRecord], cleaning'[p].at \in {"idle", "admit"},
             cleaning'[p].rows = {}, \A q \in Passes : q # p => cleaning'[q] = cleaning[q],
             shown' \in Metrics, shown'.rows = total, shown'.active = Cardinality(Running'),
             shown.ends \subseteq shown'.ends
      PROVE  MtInv'
  <2>1. MtTyped'
    BY <1>1, <1>5 DEF MtTyped
  <2>2. BatchesHeld'
    BY <1>1, <1>3, <1>5 DEF BatchesHeld
  <2>3. BatchesApart'
    BY <1>1, <1>5 DEF BatchesApart
  <2>4. UnheardOwned'
    <3> SUFFICES ASSUME {"failed", "cancelled"} \cap shown'.ends = {}, NEW r \in unheard'
                 PROVE  \E q \in Passes : cleaning'[q].at = "answer" /\ r \in cleaning'[q].rows
      BY DEF UnheardOwned
    <3>1. r \in unheard /\ r \notin taken
      BY <1>1
    <3>2. PICK q \in Passes : cleaning[q].at = "answer" /\ r \in cleaning[q].rows
      BY <1>1, <1>5, <3>1 DEF UnheardOwned
    <3>3. q # p
      BY <3>1, <3>2 DEF taken
    <3> QED BY <1>5, <3>2, <3>3
  <2> QED BY <1>2, <1>5, <2>1, <2>2, <2>3, <2>4 DEF MtInv
<1>6. CASE short
  <2>1. /\ cleaning' \in [Passes -> PassRecord] /\ cleaning'[p].at = "idle" /\ cleaning'[p].rows = {}
        /\ \A q \in Passes : q # p => cleaning'[q] = cleaning[q]
        /\ shown.active - 1 \in Nat /\ Cardinality(Running') = shown.active - 1
    BY <1>1, <1>4, <1>6, PassLeaves
  <2> DEFINE fewer == shown.active - 1
             ends == shown.ends \cup {"completed"}
  <2>2. fewer \in Nat /\ ends \in SUBSET PassOutcomes /\ shown.ends \subseteq ends
    BY <1>1, <2>1 DEF Metrics, PassOutcomes
  <2>3. shown' = [shown EXCEPT !.rows = total, !.batches = 1, !.active = fewer, !.ends = ends]
    BY <1>1, <1>4, <1>6 DEF Metrics
  <2> HIDE DEF fewer, ends
  <2>4. shown' \in Metrics /\ shown'.rows = total /\ shown'.active = fewer /\ shown'.ends = ends
    BY <1>1, <1>2, <2>2, <2>3 DEF Metrics
  <2> QED BY <1>5, <2>1, <2>2, <2>4 DEF fewer
<1>7. CASE ~short
  <2> DEFINE none == {}
  <2>1. none \in SUBSET MtRows /\ none = {}
    OBVIOUS
  <2> HIDE DEF none
  <2>2. cleaning' = [cleaning EXCEPT ![p] = [at |-> "admit", rows |-> none]]
    BY <1>4, <1>7, <2>1
  <2>3. /\ cleaning' \in [Passes -> PassRecord] /\ cleaning'[p].at = "admit" /\ cleaning'[p].rows = none
        /\ \A q \in Passes : q # p => cleaning'[q] = cleaning[q]
        /\ Running' = Running \cup {p}
    BY <1>1, <2>1, <2>2, PassMoves DEF PassStages
  <2>4. Running' = Running
    BY <1>1, <2>3 DEF Running
  <2>5. /\ shown' \in Metrics /\ shown'.rows = total /\ shown'.active = shown.active
        /\ shown'.ends = shown.ends
    BY <1>1, <1>2, <1>4, <1>7 DEF Metrics
  <2> QED BY <1>1, <1>5, <2>1, <2>3, <2>4, <2>5
<1> QED BY <1>6, <1>7

LEMMA MtKeeps == MtInv /\ [MtNext]_mtVars => MtInv'
<1> SUFFICES ASSUME MtInv, [MtNext]_mtVars PROVE MtInv'
  OBVIOUS
<1>1. CASE UNCHANGED mtVars
  BY <1>1 DEF mtVars, MtInv, MtTyped, BatchesHeld, BatchesApart, UnheardOwned, Running
<1>2. CASE MtNext
  BY <1>2, RowsKeep, SamplesKeep, StartsKeep, AdmitsKeep, DeletesKeep, CommitsKeep, AnswersKeep,
     StopsKeep DEF MtNext
<1> QED BY <1>1, <1>2

LEMMA MtSettles == MtInv => CleanupEvidence
<1> SUFFICES ASSUME MtInv PROVE CleanupEvidence
  OBVIOUS
<1>1. /\ MtTyped /\ UnheardOwned /\ shown.active = Cardinality(Running)
      /\ shown.rows = Cardinality(gone \ unheard)
  BY DEF MtInv
<1>2. MtTypeOK
  BY <1>1 DEF MtTyped, MtTypeOK, PassRecord, Metrics, Samplers
<1>3. ASSUME {"failed", "cancelled"} \cap shown.ends = {}, shown.active = 0 PROVE unheard = {}
  <2>1. Running \in SUBSET Passes /\ Cardinality(Running) = 0
    BY <1>1, <1>3 DEF Running
  <2>2. Running = {}
    BY <2>1, RunningFinite, FS_EmptySet
  <2>3. \A p \in Passes : cleaning[p].at # "answer"
    BY <2>2 DEF Running
  <2> QED BY <1>1, <1>3, <2>3 DEF UnheardOwned
<1> QED BY <1>1, <1>2, <1>3 DEF CleanupEvidence, Running

\* For any number of passes, rows and any batch size: the removed-rows counter never claims a row
\* that was not durably deleted and misses only rows whose commit answer nobody heard, and the
\* active gauge is the number of passes that run, however passes overlap, fail or are cancelled
\* (observe.rs: CleanupPass::committed, Drop).
THEOREM EvidenceTrue == MtSpec => []CleanupEvidence
<1>1. MtInit => MtInv
  BY MtStarts
<1>2. MtInv /\ [MtNext]_mtVars => MtInv'
  BY MtKeeps
<1>3. MtInv => CleanupEvidence
  BY MtSettles
<1> QED BY <1>1, <1>2, <1>3, PTL DEF MtSpec
=============================================================================
