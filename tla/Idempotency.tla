----------------------------- MODULE Idempotency -----------------------------
(***************************************************************************)
(* HTTP idempotency: attempts that share a scope (a caller and a key)      *)
(* arbitrate in PostgreSQL, and one of them runs the handler's work and    *)
(* writes its success record in the same transaction                       *)
(* (src/crates/infra-idempotency-store/src/attempt.rs, maintenance.rs,     *)
(* src/crates/infra-http/src/idempotency/execute.rs, and the transaction   *)
(* boundary of src/crates/infra-postgres/src/transaction.rs).              *)
(*                                                                         *)
(* A statement's snapshot, its advisory lock and its answer are separate   *)
(* steps, and so are a commit's visibility and the release of its lock.    *)
(* The client may give up at any moment; what it sent may still execute.   *)
(***************************************************************************)
EXTENDS Naturals

CONSTANTS
    Attempts,   \* requests that reached Idempotency::execute
    Scopes,     \* scope keys
    ScopeOf,    \* the scope of an attempt
    Fingerprints,
    FingerprintOf,  \* the fingerprint of an attempt's request
    LockKeys,   \* advisory lock keys: eight bytes of a scope's digest
    LockKey,    \* the lock key of a scope; two scopes may collide
    NoOne,
    Retention   \* how long a record stays live, ticks

ASSUME IdempotencyAssumption ==
    /\ NoOne \notin Attempts
    /\ ScopeOf \in [Attempts -> Scopes]
    /\ FingerprintOf \in [Attempts -> Fingerprints]
    /\ LockKey \in [Scopes -> LockKeys]
    /\ Retention \in Nat \ {0}

VARIABLES
    rec,    \* http_idempotency_records: the attempt that wrote it, ticks of life left
    lock,   \* the transaction that holds an advisory lock
    tx,     \* where each attempt's transaction is
    seen,   \* the attempt whose live record a read of this attempt returned
    life,   \* ticks left to the expiry this attempt wrote
    answer  \* what execute answered

vars == <<rec, lock, tx, seen, life, answer>>

-----------------------------------------------------------------------------
(* idle: not begun.  snap: step 1 has its snapshot.  locked: step 1 took the  *)
(* lock and saw no record.  poisoned: work swallowed a failed statement, the  *)
(* transaction is aborted.  sent: COMMIT is on its way.  visible: committed,  *)
(* with its lock still held.                                                  *)
Working == {"work", "worked", "poisoned", "written", "sent"}
Open    == {"begun", "snap", "locked", "decided"} \cup Working
Phases  == {"idle", "visible", "committed", "aborted"} \cup Open
Answers == {"none", "executed", "replayed", "mismatch", "in_progress", "not_stored",
            "unstorable", "unavailable", "internal", "integrity", "abandoned"}

NoRecord == [by |-> NoOne, life |-> 0]

TypeOK ==
    /\ rec \in [Scopes -> [by: Attempts \cup {NoOne}, life: 0..Retention]]
    /\ lock \in [LockKeys -> Attempts \cup {NoOne}]
    /\ tx \in [Attempts -> Phases]
    /\ seen \in [Attempts -> Attempts \cup {NoOne}]
    /\ life \in [Attempts -> 0..Retention]
    /\ answer \in [Attempts -> Answers]

Init ==
    /\ rec = [c \in Scopes |-> NoRecord]
    /\ lock = [k \in LockKeys |-> NoOne]
    /\ tx = [a \in Attempts |-> "idle"]
    /\ seen = [a \in Attempts |-> NoOne]
    /\ life = [a \in Attempts |-> 0]
    /\ answer = [a \in Attempts |-> "none"]

KeyOf(a) == LockKey[ScopeOf[a]]

\* expires_at > statement_timestamp()
Live(r) == r.life > 0

\* Mutation: expired records are read too.
ReadAnyAge(c) == rec[c].by
Read(c) == IF Live(rec[c]) THEN rec[c].by ELSE NoOne

\* Some client still waits for the attempt: neither answered nor given up.
Waits(a) == answer[a] = "none"

-----------------------------------------------------------------------------
(* Arbitration *)

Begin(a) ==
    /\ Waits(a)
    /\ tx[a] = "idle"
    /\ tx' = [tx EXCEPT ![a] = "begun"]
    /\ UNCHANGED <<rec, lock, seen, life, answer>>

\* Step 1 takes its snapshot ...
Snapshot(a) ==
    /\ Waits(a)
    /\ tx[a] = "begun"
    /\ tx' = [tx EXCEPT ![a] = "snap"]
    /\ seen' = [seen EXCEPT ![a] = Read(ScopeOf[a])]
    /\ UNCHANGED <<rec, lock, life, answer>>

\* ... and then tries the lock.  A live record decides whatever it returned.
TryLock(a) ==
    LET acquired == lock[KeyOf(a)] = NoOne
    IN  /\ Waits(a)
        /\ tx[a] = "snap"
        /\ lock' = IF acquired THEN [lock EXCEPT ![KeyOf(a)] = a] ELSE lock
        /\ tx' = [tx EXCEPT ![a] = IF seen[a] = NoOne /\ acquired THEN "locked" ELSE "decided"]
        /\ UNCHANGED <<rec, seen, life, answer>>

\* Mutation: step 2 under REPEATABLE READ, with the snapshot of step 1.
ReadAgainStale(a) ==
    /\ Waits(a)
    /\ tx[a] = "locked"
    /\ tx' = [tx EXCEPT ![a] = "work"]
    /\ UNCHANGED <<rec, lock, seen, life, answer>>

\* Step 2 reads again, under the lock.
ReadAgain(a) ==
    /\ Waits(a)
    /\ tx[a] = "locked"
    /\ seen' = [seen EXCEPT ![a] = Read(ScopeOf[a])]
    /\ tx' = [tx EXCEPT ![a] = IF Read(ScopeOf[a]) = NoOne THEN "work" ELSE "decided"]
    /\ UNCHANGED <<rec, lock, life, answer>>

\* live_record compares fingerprints; map_attempted answers.
Verdict(a) == IF seen[a] = NoOne THEN "in_progress"
              ELSE IF FingerprintOf[seen[a]] = FingerprintOf[a] THEN "replayed" ELSE "mismatch"

\* A decided attempt is answered; its rollback follows on the server.
AnswerDecided(a) ==
    /\ Waits(a)
    /\ tx[a] = "decided"
    /\ answer' = [answer EXCEPT ![a] = Verdict(a)]
    /\ UNCHANGED <<rec, lock, tx, seen, life>>

-----------------------------------------------------------------------------
(* Work, its record and the commit *)

\* A 2xx response that can be stored goes on to the record; any other result
\* rolls back.  Work may also swallow a failed statement.
EndWork(a, result) ==
    /\ Waits(a)
    /\ tx[a] = "work"
    /\ result \in {"worked", "poisoned", "not_stored", "unstorable"}
    /\ IF result \in {"worked", "poisoned"}
       THEN /\ tx' = [tx EXCEPT ![a] = result]
            /\ UNCHANGED answer
       ELSE /\ answer' = [answer EXCEPT ![a] = result]
            /\ UNCHANGED tx
    /\ UNCHANGED <<rec, lock, seen, life>>

\* The upsert waits for another transaction that wrote the same row, and
\* replaces an expired row only: with a live one nothing is written.
Write(a) ==
    /\ Waits(a)
    /\ tx[a] = "worked"
    /\ \A b \in Attempts \ {a} : ScopeOf[b] = ScopeOf[a] => tx[b] \notin {"written", "sent"}
    /\ IF Live(rec[ScopeOf[a]])
       THEN /\ answer' = [answer EXCEPT ![a] = "internal"]
            /\ UNCHANGED <<tx, life>>
       ELSE /\ tx' = [tx EXCEPT ![a] = "written"]
            /\ life' = [life EXCEPT ![a] = Retention]
            /\ UNCHANGED answer
    /\ UNCHANGED <<rec, lock, seen>>

\* The transaction boundary sends COMMIT: the last statement proved it alive.
SendCommit(a) ==
    /\ Waits(a)
    /\ tx[a] = "written"
    /\ tx' = [tx EXCEPT ![a] = "sent"]
    /\ UNCHANGED <<rec, lock, seen, life, answer>>

\* The commit becomes visible before its locks are released.
Commit(a) ==
    /\ tx[a] = "sent"
    /\ tx' = [tx EXCEPT ![a] = "visible"]
    /\ rec' = [rec EXCEPT ![ScopeOf[a]] = [by |-> a, life |-> life[a]]]
    /\ UNCHANGED <<lock, seen, life, answer>>

Unlocked(a) == [k \in LockKeys |-> IF lock[k] = a THEN NoOne ELSE lock[k]]

Unlock(a) ==
    /\ tx[a] = "visible"
    /\ tx' = [tx EXCEPT ![a] = "committed"]
    /\ lock' = Unlocked(a)
    /\ UNCHANGED <<rec, seen, life, answer>>

AnswerCommitted(a) ==
    /\ Waits(a)
    /\ tx[a] = "committed"
    /\ answer' = [answer EXCEPT ![a] = "executed"]
    /\ UNCHANGED <<rec, lock, tx, seen, life>>

-----------------------------------------------------------------------------
(* Failures *)

\* Acquire, begin or a statement fails, and the poisoned transaction's next
\* statement does: transient, permanent, or a record that does not decode.
Fail(a, class) ==
    /\ Waits(a)
    /\ tx[a] \in {"idle", "begun", "snap", "locked", "worked", "poisoned"}
    /\ class \in {"unavailable", "internal"} \cup
                 (IF tx[a] \in {"snap", "locked"} THEN {"integrity"} ELSE {})
    /\ answer' = [answer EXCEPT ![a] = class]
    /\ UNCHANGED <<rec, lock, tx, seen, life>>

\* Mutation: a commit of unknown outcome is classified by its error.
CommitUnknownByError == {"unavailable", "internal"}

\* classify_tx of CommitUnknown.
CommitUnknown == {"unavailable"}

\* COMMIT is not answered, or with an error that does not prove a rollback.
LoseCommit(a) ==
    /\ Waits(a)
    /\ tx[a] \in {"sent", "visible", "committed"}
    /\ answer' \in {[answer EXCEPT ![a] = class] : class \in CommitUnknown}
    /\ UNCHANGED <<rec, lock, tx, seen, life>>

\* attempt_end or the request's own timeout passes and drops the attempt.
GiveUp(a) ==
    /\ Waits(a)
    /\ \E class \in {"unavailable", "abandoned"} : answer' = [answer EXCEPT ![a] = class]
    /\ UNCHANGED <<rec, lock, tx, seen, life>>

\* Mutation: a session lock, which outlives the rollback.
AbortKeepsLock(a) ==
    /\ tx[a] \in Open
    /\ ~Waits(a)
    /\ tx' = [tx EXCEPT ![a] = "aborted"]
    /\ UNCHANGED <<rec, lock, seen, life, answer>>

\* The server rolls back a transaction its client dropped, or rejects it.
Abort(a) ==
    /\ tx[a] \in Open
    /\ ~Waits(a)
    /\ tx' = [tx EXCEPT ![a] = "aborted"]
    /\ lock' = Unlocked(a)
    /\ UNCHANGED <<rec, seen, life, answer>>

\* CommitFailed: COMMIT answered that the server rolled back.
Reject(a, class) ==
    /\ Waits(a)
    /\ tx[a] = "sent"
    /\ class \in {"unavailable", "internal"}
    /\ tx' = [tx EXCEPT ![a] = "aborted"]
    /\ lock' = Unlocked(a)
    /\ answer' = [answer EXCEPT ![a] = class]
    /\ UNCHANGED <<rec, seen, life>>

-----------------------------------------------------------------------------
(* Cleanup and time *)

\* Mutation: the deletion does not check expiry.
CleanupAnyAge(c) ==
    /\ rec[c].by # NoOne
    /\ rec' = [rec EXCEPT ![c] = NoRecord]
    /\ UNCHANGED <<lock, tx, seen, life, answer>>

\* cleanup_pass skips rows a transaction holds and re-checks expiry.
Cleanup(c) ==
    /\ rec[c].by # NoOne
    /\ ~Live(rec[c])
    /\ \A a \in Attempts : ScopeOf[a] = c => tx[a] \notin {"written", "sent"}
    /\ rec' = [rec EXCEPT ![c] = NoRecord]
    /\ UNCHANGED <<lock, tx, seen, life, answer>>

Less1(n) == IF n > 0 THEN n - 1 ELSE 0

Tick ==
    /\ rec' = [c \in Scopes |-> [by |-> rec[c].by, life |-> Less1(rec[c].life)]]
    /\ life' = [a \in Attempts |-> Less1(life[a])]
    /\ UNCHANGED <<lock, tx, seen, answer>>

-----------------------------------------------------------------------------
Arbitrate(a) == Begin(a) \/ Snapshot(a) \/ TryLock(a) \/ ReadAgain(a) \/ AnswerDecided(a)

Work(a) == \/ \E result \in {"worked", "poisoned", "not_stored", "unstorable"} : EndWork(a, result)
           \/ Write(a) \/ SendCommit(a) \/ AnswerCommitted(a)

Failure(a) == \/ \E class \in {"unavailable", "internal", "integrity"} : Fail(a, class)
              \/ LoseCommit(a)
              \/ GiveUp(a)
              \/ \E class \in {"unavailable", "internal"} : Reject(a, class)

Server(a) == Commit(a) \/ Unlock(a) \/ Abort(a)

Next == \/ \E a \in Attempts : Arbitrate(a) \/ Work(a) \/ Failure(a) \/ Server(a)
        \/ \E c \in Scopes : Cleanup(c)
        \/ Tick

Spec == Init /\ [][Next]_vars

\* Requests time out, the server ends what a client left, and a client that
\* still waits does its next step.  Work itself need not end.
FairSpec ==
    /\ Spec
    /\ \A a \in Attempts : WF_vars(GiveUp(a)) /\ WF_vars(Server(a))

-----------------------------------------------------------------------------
(* Safety *)

\* While an attempt runs its work, up to its commit, it holds the scope's lock
\* and no live record exists: work never runs beside other work of its scope,
\* nor for a request that a record already answers (attempt.rs arbitrate; the
\* second read is what makes it true).
WorkUnderLock ==
    \A a \in Attempts : tx[a] \in Working =>
        /\ lock[KeyOf(a)] = a
        /\ ~Live(rec[ScopeOf[a]])

\* Two attempts of one scope never both commit within one retention period,
\* also when a client gives up, retries, or loses the answer to its COMMIT
\* (Store::attempt).
AtMostOnce ==
    \A a, b \in Attempts :
        /\ a # b /\ ScopeOf[a] = ScopeOf[b]
        /\ {tx[a], tx[b]} \subseteq {"visible", "committed"}
        => life[a] = 0 \/ life[b] = 0

\* A definite answer is the truth for good: "executed" only for work that
\* committed, a replay only of committed work with the same fingerprint, and
\* after any answer but an uncertain one the attempt's own work never commits
\* (AttemptError, classify_tx, map_attempted).
AnswersHold ==
    \A a \in Attempts :
        /\ answer[a] = "executed" => tx[a] = "committed"
        /\ answer[a] \in {"replayed", "mismatch"} =>
               /\ tx[seen[a]] \in {"visible", "committed"}
               /\ ScopeOf[seen[a]] = ScopeOf[a]
               /\ answer[a] = "replayed" <=> FingerprintOf[seen[a]] = FingerprintOf[a]
        /\ answer[a] \in Answers \ {"none", "executed", "unavailable", "abandoned"} =>
               tx[a] \notin {"sent", "visible", "committed"}

-----------------------------------------------------------------------------
(* The inductive invariant behind them *)

Committed(a) == tx[a] \in {"visible", "committed"}

\* A lock belongs to an open transaction on its key, and whoever got past
\* step 1 without a record has it until its commit is visible.
LockHeld ==
    /\ \A k \in LockKeys : lock[k] # NoOne =>
           tx[lock[k]] \in Open \cup {"visible"} /\ k = KeyOf(lock[k])
    /\ \A a \in Attempts : tx[a] \in Working \cup {"locked", "visible"} => lock[KeyOf(a)] = a

\* A record is the latest commit of its scope and expires with it; every commit
\* whose retention has not passed still has its record.
RecordHeld ==
    /\ \A c \in Scopes : IF rec[c].by = NoOne THEN rec[c].life = 0
                         ELSE /\ Committed(rec[c].by)
                              /\ ScopeOf[rec[c].by] = c
                              /\ rec[c].life = life[rec[c].by]
    /\ \A a \in Attempts : Committed(a) /\ life[a] > 0 => rec[ScopeOf[a]].by = a

\* A record that was read is committed work of the scope, and it keeps its
\* reader from working.
SeenHeld ==
    \A a \in Attempts : seen[a] # NoOne =>
        /\ Committed(seen[a])
        /\ ScopeOf[seen[a]] = ScopeOf[a]
        /\ tx[a] \in {"snap", "decided", "aborted"}

\* The inductive invariant of arbitration.
Arbitrated ==
    TypeOK /\ LockHeld /\ RecordHeld /\ SeenHeld /\ WorkUnderLock /\ AnswersHold

-----------------------------------------------------------------------------
(* Refinement of the client's promise *)

\* The live records, and what became of each attempt's work.
Kept == [c \in Scopes |-> IF Live(rec[c]) THEN rec[c].by ELSE NoOne]
FateOf(a) ==
    IF Committed(a) THEN [st |-> "committed", saw |-> NoOne]
    ELSE IF seen[a] # NoOne THEN [st |-> "saw", saw |-> seen[a]]
    ELSE [st |-> IF tx[a] = "aborted" THEN "nothing" ELSE "open", saw |-> NoOne]

Fate == [a \in Attempts |-> FateOf(a)]

Once == INSTANCE OncePerScope WITH current <- Kept, fate <- Fate

\* The store implements the promise: a commit only while the scope keeps no
\* record, and decisions only by the record kept when it was read.
ImplementsOnce == Once!OnceSpec

\* No attempt blocks its key for ever: a lock is released even if its client
\* vanished at any step, so a retry is not told "in progress" for good.
LockReleased == \A k \in LockKeys : lock[k] # NoOne ~> lock[k] = NoOne

\* The work of a scope is done once within its retention and every definite answer
\* is the truth for good, under the arbitration that makes both inductive
\* (Store::attempt, classify_tx).
OnceAndTrue == Arbitrated /\ AtMostOnce
=============================================================================
