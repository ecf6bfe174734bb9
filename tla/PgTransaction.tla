---------------------------- MODULE PgTransaction ----------------------------
(***************************************************************************)
(* The transaction seam: transaction() over one pooled connection, the     *)
(* proof that the transaction is not aborted, the commit and its answer,   *)
(* and what happens to the connection when the caller is dropped anywhere  *)
(* (src/crates/infra-postgres/src/transaction.rs).  The server is          *)
(* external: it runs BEGIN and COMMIT on its own, also after the client    *)
(* stopped listening.                                                      *)
(***************************************************************************)
EXTENDS PostgresRules

CONSTANT MaxStatements      \* bound on the statements of one closure

ASSUME PgTransactionAssumption == MaxStatements \in Nat \ {0}

VARIABLES
    conn,     \* the connection: where it is, its server-side transaction, what is sent on it
    seam,     \* the running transaction(); wrote: a write was answered (history)
    durable   \* the closure's write is committed

pgVars == <<conn, seam, durable>>

SeamResults == {"none", "committed", "rolled_back", "acquire_failed", "begin_failed",
            "commit_failed", "commit_unknown", "cancelled"}

PgTypeOK ==
    /\ conn \in [place: {"pool", "held", "closed"}, tx: {"none", "open", "aborted"},
                 written: BOOLEAN, sent: {"none", "begin", "commit"}, rollback: BOOLEAN,
                 reply: {"none", "ok", "23505", "40003", "Io"}]
    /\ seam \in [at: {"off", "acquire", "begin", "body", "check", "commit", "done"},
                 readOnly: BOOLEAN, proof: BOOLEAN, discard: BOOLEAN, wrote: BOOLEAN,
                 statements: 0..MaxStatements, result: SeamResults]
    /\ durable \in BOOLEAN

PgInit ==
    /\ conn = [place |-> "pool", tx |-> "none", written |-> FALSE, sent |-> "none",
               rollback |-> FALSE, reply |-> "none"]
    /\ seam = [at |-> "off", readOnly |-> FALSE, proof |-> FALSE, discard |-> FALSE,
               wrote |-> FALSE, statements |-> 0, result |-> "none"]
    /\ durable = FALSE

\* in_tx, in_tx_with, in_tx_until
StartTransaction(readOnly) ==
    /\ seam.at = "off"
    /\ seam' = [seam EXCEPT !.at = "acquire", !.readOnly = readOnly]
    /\ UNCHANGED <<conn, durable>>

SeamEnds(result) == [seam EXCEPT !.at = "done", !.result = result, !.discard = FALSE]

\* Mutation: a dropped guard returns its connection as it is.
DropKeeps == IF conn.place = "held" THEN [conn EXCEPT !.rollback = seam.at \in {"body", "check", "commit"}] ELSE conn

\* What dropping the seam's locals does: DiscardOnDrop closes a connection whose
\* BEGIN was not answered; a begun transaction queues its rollback.
DropConnection ==
    IF conn.place # "held" THEN conn
    ELSE IF seam.discard THEN [conn EXCEPT !.place = "closed"]
    ELSE [conn EXCEPT !.rollback = TRUE]

\* The connection is held and BEGIN is on its way, or nothing ran.
AcquireEnds(ok) ==
    /\ seam.at = "acquire" /\ (ok => conn.place = "pool")
    /\ IF ok THEN /\ conn' = [conn EXCEPT !.place = "held", !.sent = "begin"]
                  /\ seam' = [seam EXCEPT !.at = "begin", !.discard = TRUE]
             ELSE /\ seam' = SeamEnds("acquire_failed") /\ UNCHANGED conn
    /\ UNCHANGED durable

\* External: the server runs what was sent, or refuses it.  COMMIT in an aborted
\* transaction is answered with a silent ROLLBACK that looks like success.
ServerRuns(reply) ==
    /\ conn.place # "pool" /\ conn.sent # "none"
    /\ \/ /\ conn.sent = "begin" /\ reply \in {"ok", "Io"}
          /\ conn' = [conn EXCEPT !.sent = "none", !.reply = reply,
                                  !.tx = IF reply = "ok" THEN "open" ELSE "none"]
          /\ UNCHANGED durable
       \/ /\ conn.sent = "commit" /\ (conn.tx = "aborted" => reply = "ok")
          /\ conn' = [conn EXCEPT !.sent = "none", !.reply = reply, !.tx = "none", !.written = FALSE]
          /\ \/ durable' = (conn.tx = "open" /\ conn.written /\ reply = "ok")
             \/ reply = "40003" /\ durable' = conn.written
    /\ UNCHANGED seam

BeginEnds ==
    /\ seam.at = "begin" /\ conn.reply # "none"
    /\ IF conn.reply = "ok"
       THEN /\ seam' = [seam EXCEPT !.at = "body", !.discard = FALSE, !.proof = TRUE]
            /\ conn' = [conn EXCEPT !.reply = "none"]
       ELSE /\ seam' = SeamEnds("begin_failed")
            /\ conn' = [DropConnection EXCEPT !.reply = "none"]
    /\ UNCHANGED durable

\* One statement through the executor: it withdraws the proof when it starts and
\* restores it on a complete answer.  A failed statement aborts the transaction; a
\* dropped one, a savepoint and a cached prepare prove nothing.
RunStatement(ends) ==
    /\ seam.at = "body" /\ seam.statements < MaxStatements
    /\ ends = "answered" => conn.tx = "open"
    /\ seam' = [seam EXCEPT !.statements = @ + 1, !.proof = ends = "answered",
                            !.wrote = @ \/ (ends = "answered" /\ ~seam.readOnly)]
    /\ \/ /\ ends \in {"answered", "unproved"} /\ conn.tx = "open"
          /\ conn' = [conn EXCEPT !.written = ~seam.readOnly]
       \/ ends = "unproved" /\ UNCHANGED conn
       \/ ends \in {"failed", "unproved"} /\ conn' = [conn EXCEPT !.tx = "aborted", !.written = FALSE]
    /\ UNCHANGED durable

BodyFails ==
    /\ seam.at = "body"
    /\ seam' = SeamEnds("rolled_back") /\ conn' = DropConnection
    /\ UNCHANGED durable

\* Mutation: the closure's success is taken as proof.
BodyTrusted ==
    /\ seam.at = "body"
    /\ seam' = [seam EXCEPT !.at = "commit"]
    /\ conn' = [conn EXCEPT !.sent = "commit"]
    /\ UNCHANGED durable

\* The closure returned Ok; it may have swallowed a failed statement.
BodyEnds ==
    /\ seam.at = "body"
    /\ LET proved == seam.readOnly \/ seam.proof
       IN  /\ seam' = [seam EXCEPT !.at = IF proved THEN "commit" ELSE "check"]
           /\ conn' = IF proved THEN [conn EXCEPT !.sent = "commit"] ELSE conn
    /\ UNCHANGED durable

\* SELECT 1 ahead of the commit; after any failure the commit is not sent.
CheckEnds(ok) ==
    /\ seam.at = "check" /\ (ok => conn.tx = "open")
    /\ IF ok THEN /\ seam' = [seam EXCEPT !.at = "commit"]
                  /\ conn' = [conn EXCEPT !.sent = "commit"]
             ELSE /\ seam' = SeamEnds("commit_failed") /\ conn' = DropConnection
    /\ UNCHANGED durable

CommitEnds ==
    /\ seam.at = "commit" /\ conn.reply # "none"
    /\ seam' = SeamEnds(IF conn.reply = "ok" THEN "committed" ELSE ClassifyCommit(conn.reply))
    /\ conn' = [(IF conn.reply = "ok" THEN conn ELSE DropConnection) EXCEPT !.reply = "none"]
    /\ UNCHANGED durable

\* The answer is lost with the connection; the server may still run the commit.
CommitLost ==
    /\ seam.at = "commit"
    /\ seam' = SeamEnds(ClassifyCommit("Io"))
    /\ conn' = [conn EXCEPT !.place = "closed"]
    /\ UNCHANGED durable

\* The caller drops the future.
CancelTransaction ==
    /\ seam.at \in {"acquire", "begin", "body", "check", "commit"}
    /\ seam' = SeamEnds("cancelled") /\ conn' = DropConnection
    /\ UNCHANGED durable

\* The pool's return ping runs behind what was sent, the queued rollback included.
ReturnConnection ==
    /\ seam.at = "done" /\ conn.place = "held" /\ conn.sent = "none"
    /\ conn' = [conn EXCEPT !.place = "pool", !.rollback = FALSE, !.reply = "none",
                            !.tx = IF conn.rollback THEN "none" ELSE @,
                            !.written = IF conn.rollback THEN FALSE ELSE @]
    /\ UNCHANGED <<seam, durable>>

\* A lost session ends on the server, its transaction with it.
SessionEnds ==
    /\ conn.place = "closed" /\ conn.tx # "none" /\ conn.sent = "none"
    /\ conn' = [conn EXCEPT !.tx = "none", !.written = FALSE]
    /\ UNCHANGED <<seam, durable>>

\* What the server, the pool and the connection do on their own.
PgBackground ==
    \/ \E reply \in {"ok", "23505", "40003", "Io"} : ServerRuns(reply)
    \/ ReturnConnection \/ SessionEnds

-----------------------------------------------------------------------------
(* Properties *)

\* What transaction() reports is what happened: committed means durable, every
\* failure but commit_unknown means nothing was written and nothing will be, even
\* when the closure swallowed a failed statement or the server commits late.
OutcomeTruth ==
    /\ PgTypeOK
    /\ seam.result \in {"rolled_back", "acquire_failed", "begin_failed", "commit_failed"} =>
          ~durable /\ conn.sent # "commit"
    /\ seam.result = "committed" /\ seam.wrote => durable

\* No connection waits in the pool inside a transaction somebody else opened,
\* wherever its owner was cancelled.
PooledClean == conn.place = "pool" => conn.tx = "none" /\ conn.sent = "none"
=============================================================================
