------------------------- MODULE IdempotencyProofs -------------------------
(***************************************************************************)
(* Proofs about Idempotency, for any number of attempts, scopes, lock keys *)
(* and collisions of lock keys, and for any retention.                     *)
(***************************************************************************)
EXTENDS Idempotency, TLAPS

\* A read returns an attempt that committed in this scope, or nobody.
LEMMA ReadFacts ==
    ASSUME TypeOK, RecordHeld, NEW c \in Scopes
    PROVE  /\ Read(c) \in Attempts \cup {NoOne}
           /\ Read(c) # NoOne => Committed(Read(c)) /\ ScopeOf[Read(c)] = c
           /\ Read(c) = NoOne => ~Live(rec[c])
BY IdempotencyAssumption DEF TypeOK, RecordHeld, Read, Live

LEMMA ScopeFacts == ASSUME NEW a \in Attempts PROVE ScopeOf[a] \in Scopes /\ KeyOf(a) \in LockKeys
BY IdempotencyAssumption DEF KeyOf

\* Releasing the locks of a leaves those of the others alone.
LEMMA UnlockedFacts ==
    ASSUME TypeOK, NEW a \in Attempts
    PROVE  /\ Unlocked(a) \in [LockKeys -> Attempts \cup {NoOne}]
           /\ \A k \in LockKeys : lock[k] # a => Unlocked(a)[k] = lock[k]
           /\ \A k \in LockKeys : Unlocked(a)[k] # NoOne => Unlocked(a)[k] = lock[k] /\ lock[k] # a
BY IdempotencyAssumption DEF TypeOK, Unlocked

LEMMA BeginKeeps == ASSUME NEW a \in Attempts, Arbitrated, Begin(a) PROVE Arbitrated'
<1> USE IdempotencyAssumption DEF Arbitrated, KeyOf, Waits, Open, Working, Committed, Live
<1>1. TypeOK' BY DEF Phases, Answers, NoRecord, Begin, TypeOK, LockHeld, RecordHeld, SeenHeld, WorkUnderLock, AnswersHold
<1>2. LockHeld' BY DEF Begin, TypeOK, LockHeld, RecordHeld, SeenHeld, WorkUnderLock, AnswersHold
<1>3. RecordHeld' BY DEF NoRecord, Begin, TypeOK, LockHeld, RecordHeld, SeenHeld, WorkUnderLock, AnswersHold
<1>4. SeenHeld' BY DEF Begin, TypeOK, LockHeld, RecordHeld, SeenHeld, WorkUnderLock, AnswersHold
<1>5. WorkUnderLock' BY DEF NoRecord, Begin, TypeOK, LockHeld, RecordHeld, SeenHeld, WorkUnderLock, AnswersHold
<1>6. AnswersHold' BY DEF Answers, Begin, TypeOK, LockHeld, RecordHeld, SeenHeld, WorkUnderLock, AnswersHold
<1> QED BY <1>1, <1>2, <1>3, <1>4, <1>5, <1>6

LEMMA SnapshotKeeps == ASSUME NEW a \in Attempts, Arbitrated, Snapshot(a) PROVE Arbitrated'
<1> USE IdempotencyAssumption DEF Arbitrated, KeyOf, Waits, Open, Working, Committed, Live
<1>1. TypeOK' BY ReadFacts, ScopeFacts DEF Phases, Snapshot, TypeOK
<1>2. LockHeld' BY DEF Read, Snapshot, TypeOK, LockHeld, RecordHeld, SeenHeld, WorkUnderLock, AnswersHold
<1>3. RecordHeld' BY DEF Read, NoRecord, Snapshot, TypeOK, LockHeld, RecordHeld, SeenHeld, WorkUnderLock, AnswersHold
<1>4. SeenHeld' BY ReadFacts, ScopeFacts DEF Snapshot, TypeOK, SeenHeld
<1>5. WorkUnderLock' BY DEF Read, NoRecord, Snapshot, TypeOK, LockHeld, RecordHeld, SeenHeld, WorkUnderLock, AnswersHold
<1>6. AnswersHold' BY DEF Read, Answers, Snapshot, TypeOK, LockHeld, RecordHeld, SeenHeld, WorkUnderLock, AnswersHold
<1> QED BY <1>1, <1>2, <1>3, <1>4, <1>5, <1>6

LEMMA TryLockKeeps == ASSUME NEW a \in Attempts, Arbitrated, TryLock(a) PROVE Arbitrated'
<1> USE IdempotencyAssumption DEF Arbitrated, KeyOf, Waits, Open, Working, Committed, Live
<1>1. TypeOK' BY DEF Phases, Answers, NoRecord, TryLock, TypeOK, LockHeld, RecordHeld, SeenHeld, WorkUnderLock, AnswersHold
<1>2. LockHeld'
  <2>1. CASE lock[KeyOf(a)] = NoOne BY <2>1, ScopeFacts DEF TryLock, TypeOK, LockHeld
  <2>2. CASE lock[KeyOf(a)] # NoOne BY <2>2, ScopeFacts DEF TryLock, TypeOK, LockHeld
  <2> QED BY <2>1, <2>2
<1>3. RecordHeld' BY DEF NoRecord, TryLock, TypeOK, LockHeld, RecordHeld, SeenHeld, WorkUnderLock, AnswersHold
<1>4. SeenHeld' BY DEF TryLock, TypeOK, LockHeld, RecordHeld, SeenHeld, WorkUnderLock, AnswersHold
<1>5. WorkUnderLock' BY DEF NoRecord, TryLock, TypeOK, LockHeld, RecordHeld, SeenHeld, WorkUnderLock, AnswersHold
<1>6. AnswersHold' BY DEF Answers, TryLock, TypeOK, LockHeld, RecordHeld, SeenHeld, WorkUnderLock, AnswersHold
<1> QED BY <1>1, <1>2, <1>3, <1>4, <1>5, <1>6

LEMMA ReadAgainKeeps == ASSUME NEW a \in Attempts, Arbitrated, ReadAgain(a) PROVE Arbitrated'
<1> USE IdempotencyAssumption DEF Arbitrated, KeyOf, Waits, Open, Working, Committed, Live
<1>1. TypeOK' BY ReadFacts, ScopeFacts DEF Phases, ReadAgain, TypeOK
<1>2. LockHeld' BY DEF Read, ReadAgain, TypeOK, LockHeld, RecordHeld, SeenHeld, WorkUnderLock, AnswersHold
<1>3. RecordHeld' BY DEF Read, NoRecord, ReadAgain, TypeOK, LockHeld, RecordHeld, SeenHeld, WorkUnderLock, AnswersHold
<1>4. SeenHeld' BY ReadFacts, ScopeFacts DEF ReadAgain, TypeOK, SeenHeld
<1>5. WorkUnderLock' BY ReadFacts, ScopeFacts DEF ReadAgain, TypeOK, LockHeld, WorkUnderLock
<1>6. AnswersHold' BY DEF Read, Answers, ReadAgain, TypeOK, LockHeld, RecordHeld, SeenHeld, WorkUnderLock, AnswersHold
<1> QED BY <1>1, <1>2, <1>3, <1>4, <1>5, <1>6

LEMMA AnswerDecidedKeeps == ASSUME NEW a \in Attempts, Arbitrated, AnswerDecided(a) PROVE Arbitrated'
<1> USE IdempotencyAssumption DEF Arbitrated, KeyOf, Waits, Open, Working, Committed, Live
<1>1. TypeOK' BY DEF Verdict, Phases, Answers, NoRecord, AnswerDecided, TypeOK, LockHeld, RecordHeld, SeenHeld, WorkUnderLock, AnswersHold
<1>2. LockHeld' BY DEF Verdict, AnswerDecided, TypeOK, LockHeld, RecordHeld, SeenHeld, WorkUnderLock, AnswersHold
<1>3. RecordHeld' BY DEF Verdict, NoRecord, AnswerDecided, TypeOK, LockHeld, RecordHeld, SeenHeld, WorkUnderLock, AnswersHold
<1>4. SeenHeld' BY DEF Verdict, AnswerDecided, TypeOK, LockHeld, RecordHeld, SeenHeld, WorkUnderLock, AnswersHold
<1>5. WorkUnderLock' BY DEF Verdict, NoRecord, AnswerDecided, TypeOK, LockHeld, RecordHeld, SeenHeld, WorkUnderLock, AnswersHold
<1>6. AnswersHold' BY DEF Verdict, Answers, AnswerDecided, TypeOK, LockHeld, RecordHeld, SeenHeld, WorkUnderLock, AnswersHold
<1> QED BY <1>1, <1>2, <1>3, <1>4, <1>5, <1>6

LEMMA EndWorkKeeps == ASSUME NEW a \in Attempts, NEW r, Arbitrated, EndWork(a, r) PROVE Arbitrated'
<1> USE IdempotencyAssumption DEF Arbitrated, KeyOf, Waits, Open, Working, Committed, Live
<1>a. CASE r \in {"worked", "poisoned"}
  <2>1. tx' = [tx EXCEPT ![a] = r] /\ answer' = answer /\ UNCHANGED <<rec, lock, seen, life>>
    BY <1>a DEF EndWork
  <2>2. tx[a] = "work" /\ answer[a] = "none" BY DEF EndWork
  <2>3. TypeOK' BY <1>a, <2>1 DEF TypeOK, Phases
  <2>4. LockHeld' BY <1>a, <2>1, <2>2 DEF TypeOK, LockHeld
  <2>5. RecordHeld' BY <1>a, <2>1, <2>2 DEF TypeOK, RecordHeld
  <2>6. SeenHeld' BY <1>a, <2>1, <2>2 DEF TypeOK, SeenHeld
  <2>7. WorkUnderLock' BY <1>a, <2>1, <2>2 DEF TypeOK, WorkUnderLock
  <2>8. AnswersHold' BY <1>a, <2>1, <2>2 DEF TypeOK, AnswersHold
  <2> QED BY <2>3, <2>4, <2>5, <2>6, <2>7, <2>8
<1>b. CASE r \in {"not_stored", "unstorable"}
  <2>1. answer' = [answer EXCEPT ![a] = r] /\ tx' = tx /\ UNCHANGED <<rec, lock, seen, life>>
    BY <1>b DEF EndWork
  <2>2. tx[a] = "work" BY DEF EndWork
  <2>3. TypeOK' BY <1>b, <2>1 DEF TypeOK, Answers
  <2>4. LockHeld' BY <2>1 DEF LockHeld
  <2>5. RecordHeld' BY <2>1 DEF RecordHeld
  <2>6. SeenHeld' BY <2>1 DEF SeenHeld
  <2>7. WorkUnderLock' BY <2>1 DEF WorkUnderLock
  <2>8. AnswersHold' BY <1>b, <2>1, <2>2 DEF TypeOK, AnswersHold, Answers
  <2> QED BY <2>3, <2>4, <2>5, <2>6, <2>7, <2>8
<1>c. r \in {"worked", "poisoned", "not_stored", "unstorable"} BY DEF EndWork
<1> QED BY <1>a, <1>b, <1>c

LEMMA WriteKeeps == ASSUME NEW a \in Attempts, Arbitrated, Write(a) PROVE Arbitrated'
<1> USE IdempotencyAssumption DEF Arbitrated, KeyOf, Waits, Open, Working, Committed, Live
<1>1. ~Live(rec[ScopeOf[a]]) BY DEF Write, WorkUnderLock
<1>2. /\ tx' = [tx EXCEPT ![a] = "written"] /\ life' = [life EXCEPT ![a] = Retention]
      /\ tx[a] = "worked" /\ answer[a] = "none" /\ UNCHANGED <<rec, lock, seen, answer>>
  BY <1>1 DEF Write
<1>3. TypeOK' BY <1>2 DEF TypeOK, Phases
<1>4. LockHeld' BY <1>2 DEF TypeOK, LockHeld
<1>5. RecordHeld' BY <1>2 DEF TypeOK, RecordHeld
<1>6. SeenHeld' BY <1>2 DEF TypeOK, SeenHeld
<1>7. WorkUnderLock' BY <1>2 DEF TypeOK, WorkUnderLock
<1>8. AnswersHold' BY <1>2 DEF TypeOK, AnswersHold
<1> QED BY <1>3, <1>4, <1>5, <1>6, <1>7, <1>8

LEMMA SendCommitKeeps == ASSUME NEW a \in Attempts, Arbitrated, SendCommit(a) PROVE Arbitrated'
<1> USE IdempotencyAssumption DEF Arbitrated, KeyOf, Waits, Open, Working, Committed, Live
<1>1. TypeOK' BY DEF Phases, Answers, NoRecord, SendCommit, TypeOK, LockHeld, RecordHeld, SeenHeld, WorkUnderLock, AnswersHold
<1>2. LockHeld' BY DEF SendCommit, TypeOK, LockHeld, RecordHeld, SeenHeld, WorkUnderLock, AnswersHold
<1>3. RecordHeld' BY DEF NoRecord, SendCommit, TypeOK, LockHeld, RecordHeld, SeenHeld, WorkUnderLock, AnswersHold
<1>4. SeenHeld' BY DEF SendCommit, TypeOK, LockHeld, RecordHeld, SeenHeld, WorkUnderLock, AnswersHold
<1>5. WorkUnderLock' BY DEF NoRecord, SendCommit, TypeOK, LockHeld, RecordHeld, SeenHeld, WorkUnderLock, AnswersHold
<1>6. AnswersHold' BY DEF Answers, SendCommit, TypeOK, LockHeld, RecordHeld, SeenHeld, WorkUnderLock, AnswersHold
<1> QED BY <1>1, <1>2, <1>3, <1>4, <1>5, <1>6

LEMMA CommitKeeps == ASSUME NEW a \in Attempts, Arbitrated, Commit(a) PROVE Arbitrated'
<1> USE IdempotencyAssumption DEF Arbitrated, KeyOf, Waits, Open, Working, Committed, Live
<1>1. TypeOK' BY ZenonT(60) DEF Phases, Answers, NoRecord, Commit, TypeOK, LockHeld, RecordHeld, SeenHeld, WorkUnderLock, AnswersHold
<1>2. LockHeld' BY DEF Commit, TypeOK, LockHeld, RecordHeld, SeenHeld, WorkUnderLock, AnswersHold
<1>3. RecordHeld'
  <2>1. /\ rec' = [rec EXCEPT ![ScopeOf[a]] = [by |-> a, life |-> life[a]]]
        /\ tx' = [tx EXCEPT ![a] = "visible"] /\ life' = life /\ tx[a] = "sent"
    BY DEF Commit
  <2>2. rec[ScopeOf[a]].life = 0 BY <2>1, ScopeFacts DEF TypeOK, WorkUnderLock
  <2>3. \A b \in Attempts : ScopeOf[b] = ScopeOf[a] /\ Committed(b) => life[b] = 0
    BY <2>2, ScopeFacts DEF TypeOK, RecordHeld
  <2>4. \A b \in Attempts : Committed(b)' <=> Committed(b) \/ b = a BY <2>1 DEF TypeOK
  <2>5. \A b \in Attempts : (Committed(b) /\ life[b] > 0)' => rec'[ScopeOf[b]].by = b
    BY <2>1, <2>3, <2>4, ScopeFacts DEF TypeOK, RecordHeld
  <2>6. ASSUME NEW c \in Scopes
        PROVE  (IF rec[c].by = NoOne THEN rec[c].life = 0
                ELSE /\ Committed(rec[c].by)
                     /\ ScopeOf[rec[c].by] = c
                     /\ rec[c].life = life[rec[c].by])'
    <3>1. CASE c = ScopeOf[a]
      <4>1. rec'[c].by = a /\ rec'[c].life = life'[a] BY <3>1, <2>1 DEF TypeOK
      <4>2. Committed(a)' BY <2>4
      <4> QED BY <3>1, <4>1, <4>2
    <3>2. CASE c # ScopeOf[a]
      <4>1. rec'[c] = rec[c] BY <3>2, <2>1 DEF TypeOK
      <4>2. rec[c].by \in Attempts \cup {NoOne} BY DEF TypeOK
      <4>3. CASE rec[c].by = NoOne BY <4>1, <4>3 DEF RecordHeld
      <4>4. CASE rec[c].by # NoOne
        <5>1. Committed(rec[c].by) /\ ScopeOf[rec[c].by] = c /\ rec[c].life = life[rec[c].by]
          BY <4>4 DEF RecordHeld
        <5>2. tx'[rec[c].by] \in {"visible", "committed"} BY <5>1, <4>2, <4>4, <2>4
        <5> QED BY <4>1, <4>4, <5>1, <5>2, <2>1
      <4> QED BY <4>3, <4>4
    <3> QED BY <3>1, <3>2
  <2> QED BY <2>5, <2>6 DEF RecordHeld
<1>4. SeenHeld' BY DEF Commit, TypeOK, LockHeld, RecordHeld, SeenHeld, WorkUnderLock, AnswersHold
<1>5. WorkUnderLock' BY DEF NoRecord, Commit, TypeOK, LockHeld, RecordHeld, SeenHeld, WorkUnderLock, AnswersHold
<1>6. AnswersHold' BY DEF Answers, Commit, TypeOK, LockHeld, RecordHeld, SeenHeld, WorkUnderLock, AnswersHold
<1> QED BY <1>1, <1>2, <1>3, <1>4, <1>5, <1>6

LEMMA UnlockKeeps == ASSUME NEW a \in Attempts, Arbitrated, Unlock(a) PROVE Arbitrated'
<1> USE IdempotencyAssumption DEF Arbitrated, KeyOf, Waits, Open, Working, Committed, Live
<1>1. TypeOK' BY DEF Unlocked, Phases, Answers, NoRecord, Unlock, TypeOK, LockHeld, RecordHeld, SeenHeld, WorkUnderLock, AnswersHold
<1>2. LockHeld'
  <2>1. lock' = Unlocked(a) /\ tx' = [tx EXCEPT ![a] = "committed"] BY DEF Unlock
  <2>2. \A b \in Attempts : b # a => tx'[b] = tx[b] BY <2>1 DEF TypeOK
  <2>3. tx'[a] = "committed" BY <2>1 DEF TypeOK
  <2>4. \A k \in LockKeys : lock'[k] # NoOne => lock'[k] = lock[k] /\ lock[k] # a
    BY <2>1, UnlockedFacts
  <2>5. \A k \in LockKeys : lock[k] # a => lock'[k] = lock[k] BY <2>1, UnlockedFacts
  <2>6. \A k \in LockKeys : lock'[k] # NoOne => lock'[k] \in Attempts BY <2>4 DEF TypeOK
  <2> QED BY <2>2, <2>3, <2>4, <2>5, <2>6, ScopeFacts DEF LockHeld
<1>3. RecordHeld' BY DEF Unlocked, NoRecord, Unlock, TypeOK, LockHeld, RecordHeld, SeenHeld, WorkUnderLock, AnswersHold
<1>4. SeenHeld' BY DEF Unlocked, Unlock, TypeOK, LockHeld, RecordHeld, SeenHeld, WorkUnderLock, AnswersHold
<1>5. WorkUnderLock'
  <2>1. lock' = Unlocked(a) /\ tx' = [tx EXCEPT ![a] = "committed"] /\ rec' = rec BY DEF Unlock
  <2>2. \A b \in Attempts : tx'[b] \in Working => b # a /\ tx[b] \in Working BY <2>1 DEF TypeOK
  <2>3. \A k \in LockKeys : lock[k] # a => lock'[k] = lock[k] BY <2>1, UnlockedFacts
  <2> QED BY <2>1, <2>2, <2>3, ScopeFacts DEF WorkUnderLock
<1>6. AnswersHold' BY DEF Unlocked, Answers, Unlock, TypeOK, LockHeld, RecordHeld, SeenHeld, WorkUnderLock, AnswersHold
<1> QED BY <1>1, <1>2, <1>3, <1>4, <1>5, <1>6

LEMMA AnswerCommittedKeeps == ASSUME NEW a \in Attempts, Arbitrated, AnswerCommitted(a) PROVE Arbitrated'
<1> USE IdempotencyAssumption DEF Arbitrated, KeyOf, Waits, Open, Working, Committed, Live
<1>1. TypeOK' BY DEF Phases, Answers, NoRecord, AnswerCommitted, TypeOK, LockHeld, RecordHeld, SeenHeld, WorkUnderLock, AnswersHold
<1>2. LockHeld' BY DEF AnswerCommitted, TypeOK, LockHeld, RecordHeld, SeenHeld, WorkUnderLock, AnswersHold
<1>3. RecordHeld' BY DEF NoRecord, AnswerCommitted, TypeOK, LockHeld, RecordHeld, SeenHeld, WorkUnderLock, AnswersHold
<1>4. SeenHeld' BY DEF AnswerCommitted, TypeOK, LockHeld, RecordHeld, SeenHeld, WorkUnderLock, AnswersHold
<1>5. WorkUnderLock' BY DEF NoRecord, AnswerCommitted, TypeOK, LockHeld, RecordHeld, SeenHeld, WorkUnderLock, AnswersHold
<1>6. AnswersHold' BY DEF Answers, AnswerCommitted, TypeOK, LockHeld, RecordHeld, SeenHeld, WorkUnderLock, AnswersHold
<1> QED BY <1>1, <1>2, <1>3, <1>4, <1>5, <1>6

LEMMA FailKeeps == ASSUME NEW a \in Attempts, NEW r, Arbitrated, Fail(a, r) PROVE Arbitrated'
<1> USE IdempotencyAssumption DEF Arbitrated, KeyOf, Waits, Open, Working, Committed, Live
<1>1. TypeOK' BY DEF Phases, Answers, NoRecord, Fail, TypeOK, LockHeld, RecordHeld, SeenHeld, WorkUnderLock, AnswersHold
<1>2. LockHeld' BY DEF Fail, TypeOK, LockHeld, RecordHeld, SeenHeld, WorkUnderLock, AnswersHold
<1>3. RecordHeld' BY DEF NoRecord, Fail, TypeOK, LockHeld, RecordHeld, SeenHeld, WorkUnderLock, AnswersHold
<1>4. SeenHeld' BY DEF Fail, TypeOK, LockHeld, RecordHeld, SeenHeld, WorkUnderLock, AnswersHold
<1>5. WorkUnderLock' BY DEF NoRecord, Fail, TypeOK, LockHeld, RecordHeld, SeenHeld, WorkUnderLock, AnswersHold
<1>6. AnswersHold' BY DEF Answers, Fail, TypeOK, LockHeld, RecordHeld, SeenHeld, WorkUnderLock, AnswersHold
<1> QED BY <1>1, <1>2, <1>3, <1>4, <1>5, <1>6

LEMMA LoseCommitKeeps == ASSUME NEW a \in Attempts, Arbitrated, LoseCommit(a) PROVE Arbitrated'
<1> USE IdempotencyAssumption DEF Arbitrated, KeyOf, Waits, Open, Working, Committed, Live
<1>1. TypeOK' BY DEF CommitUnknown, Phases, Answers, NoRecord, LoseCommit, TypeOK, LockHeld, RecordHeld, SeenHeld, WorkUnderLock, AnswersHold
<1>2. LockHeld' BY DEF CommitUnknown, LoseCommit, TypeOK, LockHeld, RecordHeld, SeenHeld, WorkUnderLock, AnswersHold
<1>3. RecordHeld' BY DEF CommitUnknown, NoRecord, LoseCommit, TypeOK, LockHeld, RecordHeld, SeenHeld, WorkUnderLock, AnswersHold
<1>4. SeenHeld' BY DEF CommitUnknown, LoseCommit, TypeOK, LockHeld, RecordHeld, SeenHeld, WorkUnderLock, AnswersHold
<1>5. WorkUnderLock' BY DEF CommitUnknown, NoRecord, LoseCommit, TypeOK, LockHeld, RecordHeld, SeenHeld, WorkUnderLock, AnswersHold
<1>6. AnswersHold' BY DEF CommitUnknown, Answers, LoseCommit, TypeOK, LockHeld, RecordHeld, SeenHeld, WorkUnderLock, AnswersHold
<1> QED BY <1>1, <1>2, <1>3, <1>4, <1>5, <1>6

LEMMA GiveUpKeeps == ASSUME NEW a \in Attempts, Arbitrated, GiveUp(a) PROVE Arbitrated'
<1> USE IdempotencyAssumption DEF Arbitrated, KeyOf, Waits, Open, Working, Committed, Live
<1>1. TypeOK' BY DEF Phases, Answers, NoRecord, GiveUp, TypeOK, LockHeld, RecordHeld, SeenHeld, WorkUnderLock, AnswersHold
<1>2. LockHeld' BY DEF GiveUp, TypeOK, LockHeld, RecordHeld, SeenHeld, WorkUnderLock, AnswersHold
<1>3. RecordHeld' BY DEF NoRecord, GiveUp, TypeOK, LockHeld, RecordHeld, SeenHeld, WorkUnderLock, AnswersHold
<1>4. SeenHeld' BY DEF GiveUp, TypeOK, LockHeld, RecordHeld, SeenHeld, WorkUnderLock, AnswersHold
<1>5. WorkUnderLock' BY DEF NoRecord, GiveUp, TypeOK, LockHeld, RecordHeld, SeenHeld, WorkUnderLock, AnswersHold
<1>6. AnswersHold' BY DEF Answers, GiveUp, TypeOK, LockHeld, RecordHeld, SeenHeld, WorkUnderLock, AnswersHold
<1> QED BY <1>1, <1>2, <1>3, <1>4, <1>5, <1>6

LEMMA AbortKeeps == ASSUME NEW a \in Attempts, Arbitrated, Abort(a) PROVE Arbitrated'
<1> USE IdempotencyAssumption DEF Arbitrated, KeyOf, Waits, Open, Working, Committed, Live
<1>1. TypeOK' BY DEF Unlocked, Phases, Answers, NoRecord, Abort, TypeOK, LockHeld, RecordHeld, SeenHeld, WorkUnderLock, AnswersHold
<1>2. LockHeld'
  <2>1. lock' = Unlocked(a) /\ tx' = [tx EXCEPT ![a] = "aborted"] BY DEF Abort
  <2>2. \A b \in Attempts : b # a => tx'[b] = tx[b] BY <2>1 DEF TypeOK
  <2>3. tx'[a] = "aborted" BY <2>1 DEF TypeOK
  <2>4. \A k \in LockKeys : lock'[k] # NoOne => lock'[k] = lock[k] /\ lock[k] # a
    BY <2>1, UnlockedFacts
  <2>5. \A k \in LockKeys : lock[k] # a => lock'[k] = lock[k] BY <2>1, UnlockedFacts
  <2>6. \A k \in LockKeys : lock'[k] # NoOne => lock'[k] \in Attempts BY <2>4 DEF TypeOK
  <2> QED BY <2>2, <2>3, <2>4, <2>5, <2>6, ScopeFacts DEF LockHeld
<1>3. RecordHeld' BY DEF Unlocked, NoRecord, Abort, TypeOK, LockHeld, RecordHeld, SeenHeld, WorkUnderLock, AnswersHold
<1>4. SeenHeld' BY DEF Unlocked, Abort, TypeOK, LockHeld, RecordHeld, SeenHeld, WorkUnderLock, AnswersHold
<1>5. WorkUnderLock'
  <2>1. lock' = Unlocked(a) /\ tx' = [tx EXCEPT ![a] = "aborted"] /\ rec' = rec BY DEF Abort
  <2>2. \A b \in Attempts : tx'[b] \in Working => b # a /\ tx[b] \in Working BY <2>1 DEF TypeOK
  <2>3. \A k \in LockKeys : lock[k] # a => lock'[k] = lock[k] BY <2>1, UnlockedFacts
  <2> QED BY <2>1, <2>2, <2>3, ScopeFacts DEF WorkUnderLock
<1>6. AnswersHold' BY DEF Unlocked, Answers, Abort, TypeOK, LockHeld, RecordHeld, SeenHeld, WorkUnderLock, AnswersHold
<1> QED BY <1>1, <1>2, <1>3, <1>4, <1>5, <1>6

LEMMA RejectKeeps == ASSUME NEW a \in Attempts, NEW r, Arbitrated, Reject(a, r) PROVE Arbitrated'
<1> USE IdempotencyAssumption DEF Arbitrated, KeyOf, Waits, Open, Working, Committed, Live
<1>1. TypeOK' BY DEF Unlocked, Phases, Answers, NoRecord, Reject, TypeOK, LockHeld, RecordHeld, SeenHeld, WorkUnderLock, AnswersHold
<1>2. LockHeld'
  <2>1. lock' = Unlocked(a) /\ tx' = [tx EXCEPT ![a] = "aborted"] BY DEF Reject
  <2>2. \A b \in Attempts : b # a => tx'[b] = tx[b] BY <2>1 DEF TypeOK
  <2>3. tx'[a] = "aborted" BY <2>1 DEF TypeOK
  <2>4. \A k \in LockKeys : lock'[k] # NoOne => lock'[k] = lock[k] /\ lock[k] # a
    BY <2>1, UnlockedFacts
  <2>5. \A k \in LockKeys : lock[k] # a => lock'[k] = lock[k] BY <2>1, UnlockedFacts
  <2>6. \A k \in LockKeys : lock'[k] # NoOne => lock'[k] \in Attempts BY <2>4 DEF TypeOK
  <2> QED BY <2>2, <2>3, <2>4, <2>5, <2>6, ScopeFacts DEF LockHeld
<1>3. RecordHeld' BY DEF Unlocked, NoRecord, Reject, TypeOK, LockHeld, RecordHeld, SeenHeld, WorkUnderLock, AnswersHold
<1>4. SeenHeld' BY DEF Unlocked, Reject, TypeOK, LockHeld, RecordHeld, SeenHeld, WorkUnderLock, AnswersHold
<1>5. WorkUnderLock'
  <2>1. lock' = Unlocked(a) /\ tx' = [tx EXCEPT ![a] = "aborted"] /\ rec' = rec BY DEF Reject
  <2>2. \A b \in Attempts : tx'[b] \in Working => b # a /\ tx[b] \in Working BY <2>1 DEF TypeOK
  <2>3. \A k \in LockKeys : lock[k] # a => lock'[k] = lock[k] BY <2>1, UnlockedFacts
  <2> QED BY <2>1, <2>2, <2>3, ScopeFacts DEF WorkUnderLock
<1>6. AnswersHold' BY DEF Unlocked, Answers, Reject, TypeOK, LockHeld, RecordHeld, SeenHeld, WorkUnderLock, AnswersHold
<1> QED BY <1>1, <1>2, <1>3, <1>4, <1>5, <1>6

LEMMA CleanupKeeps == ASSUME NEW c \in Scopes, Arbitrated, Cleanup(c) PROVE Arbitrated'
<1> USE IdempotencyAssumption DEF Arbitrated, KeyOf, Waits, Open, Working, Committed, Live
<1>1. TypeOK' BY DEF Phases, Answers, NoRecord, Cleanup, TypeOK, LockHeld, RecordHeld, SeenHeld, WorkUnderLock, AnswersHold
<1>2. LockHeld' BY DEF Cleanup, TypeOK, LockHeld, RecordHeld, SeenHeld, WorkUnderLock, AnswersHold
<1>3. RecordHeld' BY DEF NoRecord, Cleanup, TypeOK, LockHeld, RecordHeld, SeenHeld, WorkUnderLock, AnswersHold
<1>4. SeenHeld' BY DEF Cleanup, TypeOK, LockHeld, RecordHeld, SeenHeld, WorkUnderLock, AnswersHold
<1>5. WorkUnderLock' BY DEF NoRecord, Cleanup, TypeOK, LockHeld, RecordHeld, SeenHeld, WorkUnderLock, AnswersHold
<1>6. AnswersHold' BY DEF Answers, Cleanup, TypeOK, LockHeld, RecordHeld, SeenHeld, WorkUnderLock, AnswersHold
<1> QED BY <1>1, <1>2, <1>3, <1>4, <1>5, <1>6

LEMMA TickKeeps == ASSUME Arbitrated, Tick PROVE Arbitrated'
<1> USE IdempotencyAssumption DEF Arbitrated, KeyOf, Waits, Open, Working, Committed, Live
<1>1. TypeOK' BY DEF Less1, Phases, Answers, NoRecord, Tick, TypeOK, LockHeld, RecordHeld, SeenHeld, WorkUnderLock, AnswersHold
<1>2. LockHeld' BY DEF Less1, Tick, TypeOK, LockHeld, RecordHeld, SeenHeld, WorkUnderLock, AnswersHold
<1>3. RecordHeld' BY DEF Less1, NoRecord, Tick, TypeOK, LockHeld, RecordHeld, SeenHeld, WorkUnderLock, AnswersHold
<1>4. SeenHeld' BY DEF Less1, Tick, TypeOK, LockHeld, RecordHeld, SeenHeld, WorkUnderLock, AnswersHold
<1>5. WorkUnderLock' BY DEF Less1, NoRecord, Tick, TypeOK, LockHeld, RecordHeld, SeenHeld, WorkUnderLock, AnswersHold
<1>6. AnswersHold' BY DEF Less1, Answers, Tick, TypeOK, LockHeld, RecordHeld, SeenHeld, WorkUnderLock, AnswersHold
<1> QED BY <1>1, <1>2, <1>3, <1>4, <1>5, <1>6

-----------------------------------------------------------------------------
(* Invariants *)

LEMMA InitArbitrated == Init => Arbitrated
BY IdempotencyAssumption
   DEF Init, Arbitrated, TypeOK, LockHeld, RecordHeld, SeenHeld, WorkUnderLock, AnswersHold,
       NoRecord, Phases, Answers, Open, Working, Committed, Live

LEMMA StepArbitrated == Arbitrated /\ [Next]_vars => Arbitrated'
<1> SUFFICES ASSUME Arbitrated, [Next]_vars PROVE Arbitrated' OBVIOUS
<1>1. CASE UNCHANGED vars
  BY <1>1 DEF vars, Arbitrated, TypeOK, LockHeld, RecordHeld, SeenHeld, WorkUnderLock, AnswersHold,
              KeyOf, Committed, Live
<1>2. ASSUME NEW a \in Attempts, Arbitrate(a) PROVE Arbitrated'
  BY <1>2, BeginKeeps, SnapshotKeeps, TryLockKeeps, ReadAgainKeeps, AnswerDecidedKeeps DEF Arbitrate
<1>3. ASSUME NEW a \in Attempts, Work(a) PROVE Arbitrated'
  BY <1>3, EndWorkKeeps, WriteKeeps, SendCommitKeeps, AnswerCommittedKeeps DEF Work
<1>4. ASSUME NEW a \in Attempts, Failure(a) PROVE Arbitrated'
  BY <1>4, FailKeeps, LoseCommitKeeps, GiveUpKeeps, RejectKeeps DEF Failure
<1>5. ASSUME NEW a \in Attempts, Server(a) PROVE Arbitrated'
  BY <1>5, CommitKeeps, UnlockKeeps, AbortKeeps DEF Server
<1>6. ASSUME NEW c \in Scopes, Cleanup(c) PROVE Arbitrated' BY <1>6, CleanupKeeps
<1>7. CASE Tick BY <1>7, TickKeeps
<1> QED BY <1>1, <1>2, <1>3, <1>4, <1>5, <1>6, <1>7 DEF Next

\* The inductive invariant of arbitration holds in every reachable state: locks,
\* records and reads of the idempotency store fit together (attempt.rs).
THEOREM Arbitration == Spec => []Arbitrated
<1>1. Init => Arbitrated BY InitArbitrated
<1>2. Arbitrated /\ [Next]_vars => Arbitrated' BY StepArbitrated
<1> QED BY <1>1, <1>2, PTL DEF Spec

\* Work runs only under its scope's lock and never beside a live record
\* (attempt.rs arbitrate).
THEOREM WorkIsGuarded == Spec => []WorkUnderLock
BY Arbitration, PTL DEF Arbitrated

\* Every definite answer of execute stays true (attempt.rs, execute.rs).
THEOREM AnswersAreTrue == Spec => []AnswersHold
BY Arbitration, PTL DEF Arbitrated

\* Of one scope's attempts at most one commits per retention period, whatever
\* is lost, dropped or retried (Store::attempt).
THEOREM OnceInRetention == Spec => []AtMostOnce
<1>1. Arbitrated => AtMostOnce
  <2> SUFFICES ASSUME Arbitrated, NEW a \in Attempts, NEW b \in Attempts,
                      a # b, ScopeOf[a] = ScopeOf[b], Committed(a), Committed(b)
               PROVE  life[a] = 0 \/ life[b] = 0
    BY DEF AtMostOnce, Committed
  <2>1. life[a] \in Nat /\ life[b] \in Nat BY IdempotencyAssumption DEF Arbitrated, TypeOK
  <2> QED BY <2>1 DEF Arbitrated, RecordHeld
<1> QED BY <1>1, Arbitration, PTL

-----------------------------------------------------------------------------
(* Refinement of OncePerScope *)

LEMMA OnceStart == Init => Once!OnceInit
BY IdempotencyAssumption
   DEF Init, NoRecord, Once!OnceInit, Kept, Fate, FateOf, Live, Committed

\* A step that reads nothing new and neither commits nor aborts is invisible.
LEMMA QuietStep ==
    ASSUME UNCHANGED <<rec, seen>>,
           \A b \in Attempts : /\ Committed(b)' <=> Committed(b)
                               /\ tx'[b] = "aborted" <=> tx[b] = "aborted"
    PROVE  UNCHANGED Once!onceVars
<1>1. Kept' = Kept BY DEF Kept, Live
<1>2. \A b \in Attempts : FateOf(b)' = FateOf(b) BY DEF FateOf
<1> QED BY <1>1, <1>2 DEF Once!onceVars, Fate

LEMMA ReadStep ==
    ASSUME Arbitrated, NEW a \in Attempts, Snapshot(a) \/ ReadAgain(a)
    PROVE  Once!See(a) \/ UNCHANGED Once!onceVars
<1> USE IdempotencyAssumption DEF Arbitrated
<1>1. /\ rec' = rec /\ seen' = [seen EXCEPT ![a] = Read(ScopeOf[a])]
      /\ \E p \in {"snap", "work", "decided"} : tx' = [tx EXCEPT ![a] = p]
      /\ tx[a] \in {"begun", "locked"}
  BY DEF Snapshot, ReadAgain
<1>2. \A b \in Attempts : /\ Committed(b)' <=> Committed(b)
                          /\ tx'[b] = "aborted" <=> tx[b] = "aborted"
  BY <1>1 DEF Committed, TypeOK
<1>3. seen[a] = NoOne BY <1>1 DEF SeenHeld
<1>4. CASE Read(ScopeOf[a]) = NoOne
  <2>1. seen' = seen BY <1>1, <1>3, <1>4 DEF TypeOK
  <2> QED BY <2>1, <1>1, <1>2, QuietStep
<1>5. CASE Read(ScopeOf[a]) # NoOne
  <2>1. Kept' = Kept BY <1>1 DEF Kept, Live
  <2>2. Kept[ScopeOf[a]] = Read(ScopeOf[a]) BY ScopeFacts DEF Kept, Read
  <2>3. FateOf(a) = [st |-> "open", saw |-> NoOne] BY <1>1, <1>3 DEF FateOf, Committed
  <2>4. FateOf(a)' = [st |-> "saw", saw |-> Read(ScopeOf[a])]
    <3>1. ~Committed(a)' BY <1>1, <1>2 DEF Committed
    <3>2. seen'[a] = Read(ScopeOf[a]) BY <1>1 DEF TypeOK
    <3> QED BY <1>5, <3>1, <3>2 DEF FateOf
  <2>5. \A b \in Attempts \ {a} : FateOf(b)' = FateOf(b)
    BY <1>1, <1>2 DEF FateOf, TypeOK
  <2>6. Fate' = [Fate EXCEPT ![a] = [st |-> "saw", saw |-> Read(ScopeOf[a])]]
    BY <2>4, <2>5 DEF Fate
  <2>7. Fate[a].st = "open" BY <2>3 DEF Fate
  <2> QED BY <1>5, <2>1, <2>2, <2>6, <2>7 DEF Once!See
<1> QED BY <1>4, <1>5

LEMMA CommitStep ==
    ASSUME Arbitrated, NEW a \in Attempts, Commit(a) PROVE Once!CommitOnce(a)
<1> USE IdempotencyAssumption DEF Arbitrated
<1>1. /\ rec' = [rec EXCEPT ![ScopeOf[a]] = [by |-> a, life |-> life[a]]]
      /\ tx' = [tx EXCEPT ![a] = "visible"] /\ seen' = seen /\ tx[a] = "sent"
  BY DEF Commit
<1>2. seen[a] = NoOne /\ ~Live(rec[ScopeOf[a]]) BY <1>1 DEF SeenHeld, WorkUnderLock, Working
<1>3. FateOf(a) = [st |-> "open", saw |-> NoOne] BY <1>1, <1>2 DEF FateOf, Committed
<1>4. FateOf(a)' = [st |-> "committed", saw |-> NoOne] BY <1>1 DEF FateOf, Committed, TypeOK
<1>5. \A b \in Attempts \ {a} : FateOf(b)' = FateOf(b) BY <1>1 DEF FateOf, Committed, TypeOK
<1>6. Fate' = [Fate EXCEPT ![a] = [st |-> "committed", saw |-> NoOne]] BY <1>4, <1>5 DEF Fate
<1>7. Kept[ScopeOf[a]] = NoOne BY <1>2, ScopeFacts DEF Kept
<1>8. \E c \in {a, NoOne} : Kept' = [Kept EXCEPT ![ScopeOf[a]] = c]
  <2>1. \A c \in Scopes \ {ScopeOf[a]} : rec'[c] = rec[c] BY <1>1 DEF TypeOK
  <2>2. rec'[ScopeOf[a]] = [by |-> a, life |-> life[a]] BY <1>1, ScopeFacts DEF TypeOK
  <2>3. \A c \in Scopes \ {ScopeOf[a]} : Kept'[c] = Kept[c] BY <2>1 DEF Kept, Live
  <2>4. Kept'[ScopeOf[a]] = IF life[a] > 0 THEN a ELSE NoOne BY <2>2, ScopeFacts DEF Kept, Live
  <2>5. Kept = [c \in Scopes |-> Kept[c]] /\ Kept' = [c \in Scopes |-> Kept'[c]] BY DEF Kept
  <2>6. CASE life[a] > 0
    <3>1. Kept' = [Kept EXCEPT ![ScopeOf[a]] = a] BY <2>6, <2>3, <2>4, <2>5
    <3> QED BY <3>1
  <2>7. CASE ~(life[a] > 0)
    <3>1. Kept' = [Kept EXCEPT ![ScopeOf[a]] = NoOne] BY <2>7, <2>3, <2>4, <2>5
    <3> QED BY <3>1
  <2> QED BY <2>6, <2>7
<1>9. Fate[a].st = "open" BY <1>3 DEF Fate
<1> QED BY <1>6, <1>7, <1>8, <1>9 DEF Once!CommitOnce

LEMMA AbortStep ==
    ASSUME Arbitrated, NEW a \in Attempts, Abort(a) \/ \E r : Reject(a, r)
    PROVE  Once!GiveUpOnce(a) \/ UNCHANGED Once!onceVars
<1> USE IdempotencyAssumption DEF Arbitrated
<1>1. rec' = rec /\ seen' = seen /\ tx' = [tx EXCEPT ![a] = "aborted"] /\ tx[a] \in Open
  BY DEF Abort, Reject, Open, Working
<1>2. ~Committed(a) /\ ~Committed(a)' /\ tx[a] # "aborted" /\ tx'[a] = "aborted"
  BY <1>1 DEF Committed, TypeOK, Open, Working
<1>3. \A b \in Attempts \ {a} : FateOf(b)' = FateOf(b) BY <1>1 DEF FateOf, Committed, TypeOK
<1>4. Kept' = Kept BY <1>1 DEF Kept, Live
<1>5. CASE seen[a] # NoOne
  <2>1. FateOf(a)' = FateOf(a) BY <1>1, <1>2, <1>5 DEF FateOf
  <2> QED BY <2>1, <1>3, <1>4 DEF Once!onceVars, Fate
<1>6. CASE seen[a] = NoOne
  <2>1. FateOf(a) = [st |-> "open", saw |-> NoOne] BY <1>2, <1>6 DEF FateOf
  <2>2. FateOf(a)' = [st |-> "nothing", saw |-> NoOne] BY <1>1, <1>2, <1>6 DEF FateOf
  <2>3. Fate' = [Fate EXCEPT ![a] = [st |-> "nothing", saw |-> NoOne]] BY <2>2, <1>3 DEF Fate
  <2> QED BY <2>1, <2>3, <1>4 DEF Once!GiveUpOnce, Fate
<1> QED BY <1>5, <1>6

LEMMA TimeStep ==
    ASSUME Arbitrated, Tick \/ \E c \in Scopes : Cleanup(c)
    PROVE  Once!Forget
<1> USE IdempotencyAssumption DEF Arbitrated
<1>1. tx' = tx /\ seen' = seen BY DEF Tick, Cleanup
<1>2. Fate' = Fate BY <1>1 DEF Fate, FateOf, Committed
<1>3. ASSUME NEW c \in Scopes PROVE Kept'[c] \in {Kept[c], NoOne}
  <2>1. CASE Tick
    <3>1. rec'[c] = [by |-> rec[c].by, life |-> Less1(rec[c].life)] BY <2>1 DEF Tick
    <3>2. rec[c].life \in Nat BY DEF TypeOK
    <3> QED BY <3>1, <3>2 DEF Kept, Live, Less1
  <2>2. CASE \E d \in Scopes : Cleanup(d)
    BY <2>2 DEF Cleanup, Kept, Live, NoRecord, TypeOK
  <2> QED BY <2>1, <2>2
<1>4. \A c \in Scopes : Kept[c] \in Attempts \cup {NoOne} BY DEF Kept, TypeOK
<1>5. Kept' \in [Scopes -> Attempts \cup {NoOne}] BY <1>3, <1>4 DEF Kept
<1> QED BY <1>2, <1>3, <1>5 DEF Once!Forget

LEMMA OnceStep == Arbitrated /\ [Next]_vars => [Once!OnceNext]_Once!onceVars
<1> SUFFICES ASSUME Arbitrated, [Next]_vars PROVE [Once!OnceNext]_Once!onceVars OBVIOUS
<1>1. CASE UNCHANGED vars BY <1>1, QuietStep DEF vars, Committed
<1>2. ASSUME NEW a \in Attempts,
             \/ Begin(a) \/ TryLock(a) \/ AnswerDecided(a) \/ (\E r : EndWork(a, r))
             \/ Write(a) \/ SendCommit(a) \/ Unlock(a) \/ AnswerCommitted(a)
             \/ (\E r : Fail(a, r)) \/ LoseCommit(a) \/ GiveUp(a)
      PROVE  UNCHANGED Once!onceVars
  <2>1. UNCHANGED <<rec, seen>>
    BY <1>2 DEF Begin, TryLock, AnswerDecided, EndWork, Write, SendCommit, Unlock, AnswerCommitted,
                Fail, LoseCommit, GiveUp
  <2>2. \/ tx' = tx
        \/ tx[a] = "visible" /\ tx' = [tx EXCEPT ![a] = "committed"]
        \/ /\ tx[a] \in Open \cup {"idle"}
           /\ \E p \in Open : tx' = [tx EXCEPT ![a] = p]
    BY <1>2 DEF Begin, TryLock, AnswerDecided, EndWork, Write, SendCommit, Unlock, AnswerCommitted,
                Fail, LoseCommit, GiveUp, Open, Working
  <2>3. \A b \in Attempts : /\ Committed(b)' <=> Committed(b)
                            /\ tx'[b] = "aborted" <=> tx[b] = "aborted"
    BY <2>2 DEF Arbitrated, TypeOK, Committed, Open, Working
  <2> QED BY <2>1, <2>3, QuietStep
<1>3. ASSUME NEW a \in Attempts, Arbitrate(a) \/ Work(a) \/ Failure(a) \/ Server(a)
      PROVE  [Once!OnceNext]_Once!onceVars
  BY <1>2, <1>3, ReadStep, CommitStep, AbortStep
     DEF Arbitrate, Work, Failure, Server, Once!OnceNext
<1>4. CASE Tick \/ \E c \in Scopes : Cleanup(c) BY <1>4, TimeStep DEF Once!OnceNext
<1> QED BY <1>1, <1>3, <1>4 DEF Next

\* The idempotency store implements OncePerScope: commits only while the scope
\* keeps no record, decisions only by the record kept when it was read.
THEOREM Refinement == Spec => ImplementsOnce
<1>1. Init => Once!OnceInit BY OnceStart
<1>2. Arbitrated /\ [Next]_vars => [Once!OnceNext]_Once!onceVars BY OnceStep
<1> QED BY <1>1, <1>2, Arbitration, PTL DEF Spec, ImplementsOnce, Once!OnceSpec

\* One execution for each scope and retention, and answers that stay true, for every number of
\* attempts, scopes and colliding lock keys (Store::attempt, classify_tx).
THEOREM OnceAndTrueSafe == Spec => []OnceAndTrue
BY Arbitration, OnceInRetention, PTL DEF OnceAndTrue
=============================================================================
