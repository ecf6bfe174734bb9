----------------------------- MODULE Completions -----------------------------
(***************************************************************************)
(* Batched completions of one engine                                       *)
(* (src/crates/infra-jobs/src/attempt.rs, Completions to write_batch):     *)
(* supervisors whose attempt succeeded register in a queue, and whoever    *)
(* holds the writer lock completes everything queued in one statement.     *)
(*                                                                         *)
(* A supervisor is named by the attempt slot it holds.  The fence of the   *)
(* statement is JobQueue's subject: here a row is completed or not.        *)
(***************************************************************************)
EXTENDS Naturals, Sequences, FiniteSets, Functions

CONSTANTS
    Slots,      \* attempt slots of the engine
    NoOne       \* the holder of a free writer lock

ASSUME SlotsAssumption == IsFiniteSet(Slots) /\ NoOne \notin Slots

VARIABLES
    sup,      \* each slot's supervisor
    late,     \* supervisors whose local deadline, or the cleanup budget, passed
    reply,    \* each supervisor's oneshot channel
    queued,   \* Completions.queued: registered slots
    lock,     \* who holds Completions.writer
    waiting,  \* the lock's waiters; a tokio mutex is first come, first served
    batch,    \* the batch in flight
    row,      \* the row of each slot's current attempt
    ghost     \* slots of a statement whose writer is gone; it may still execute

vars == <<sup, late, reply, queued, lock, waiting, batch, row, ghost>>

-----------------------------------------------------------------------------
(* persist: before a registration.  wait: for the lock.  write: the batch.  *)
(* read: response.await.  applied/unchanged: persist returned.  none: the   *)
(* slot has no supervisor.                                                  *)
Phases  == {"none", "persist", "wait", "write", "read", "applied", "unchanged"}
Replies == {"open", "true", "false", "err", "closed"}

\* queued: the surviving entries.  ids: the statement's arguments, and flags
\* the positions it returned.  pruned: entries whose reply closes with the
\* batch.  answers: the replies to send once the entries are retired.
Batches ==
    [ph: {"none", "sent", "executed", "retired", "answered"}, queued: Seq(Slots), ids: Seq(Slots),
     flags: Seq({"true", "false", "err"}), pruned: SUBSET Slots,
     answers: SUBSET (Slots \X {"true", "false", "err"})]

NoBatch == [ph |-> "none", queued |-> <<>>, ids |-> <<>>, flags |-> <<>>,
            pruned |-> {}, answers |-> {}]

TypeOK ==
    /\ sup \in [Slots -> Phases]
    /\ late \subseteq Slots
    /\ reply \in [Slots -> Replies]
    /\ queued \in Seq(Slots)
    /\ lock \in Slots \cup {NoOne}
    /\ waiting \in Seq(Slots)
    /\ batch \in Batches
    /\ row \in [Slots -> {"running", "completed", "lost"}]
    /\ ghost \subseteq Slots

Init ==
    /\ sup = [s \in Slots |-> "none"]
    /\ late = {}
    /\ reply = [s \in Slots |-> "closed"]
    /\ queued = <<>>
    /\ lock = NoOne
    /\ waiting = <<>>
    /\ batch = NoBatch
    /\ row = [s \in Slots |-> "lost"]
    /\ ghost = {}

Members == Range(queued) \cup Range(batch.queued)

\* Mutation: only the supervisor holds its slot.
SlotHeldBySupervisor(s) == sup[s] \in {"persist", "wait", "write", "read"}

\* AttemptSlots is shared by the supervisor and its registration, and the
\* permit returns when the last of them is dropped.
SlotHeld(s) == sup[s] \in {"persist", "wait", "write", "read"} \/ s \in Members

\* A new attempt in a released slot succeeded and enters persist; its handler
\* may have completed the row already, with complete_in_tx.  Statements of the
\* slot's earlier attempt carry another id and generation.
Begin(s, st) ==
    /\ ~SlotHeld(s)
    /\ sup' = [sup EXCEPT ![s] = "persist"]
    /\ st \in {"running", "completed"}
    /\ row' = [row EXCEPT ![s] = st]
    /\ ghost' = ghost \ {s}
    /\ late' = late \ {s}
    /\ UNCHANGED <<reply, queued, lock, waiting, batch>>

\* complete_batched up to writer.lock().await.
RegisterCompletion(s) ==
    /\ sup[s] = "persist"
    /\ s \notin late
    /\ sup' = [sup EXCEPT ![s] = "wait"]
    /\ reply' = [reply EXCEPT ![s] = "open"]
    /\ queued' = Append(queued, s)
    /\ waiting' = Append(waiting, s)
    /\ UNCHANGED <<late, lock, batch, row, ghost>>

\* Mutation: the senders of a dropped batch are kept.
CloseNothing(S) == reply

\* Dropping the senders closes every channel still open.
Close(S) == [s \in Slots |-> IF s \in S /\ reply[s] = "open" THEN "closed" ELSE reply[s]]

\* write_batch prunes entries whose receiver is gone or whose deadline passed.
Wanted(s) == reply[s] = "open" /\ s \notin late

\* The entries of q that are in S, in their order (retain).
Kept(q, S) ==
    LET kept[i \in 0 .. Len(q)] ==
          IF i = 0 THEN <<>>
          ELSE IF q[i] \in S THEN Append(kept[i - 1], q[i]) ELSE kept[i - 1]
    IN kept[Len(q)]

\* Mutation: the arguments are collected before pruning.
IdsUnpruned(q) == q
Ids(q) == Kept(q, {s \in Slots : Wanted(s)})

\* The lock, and write_batch up to its statement.  With nothing left to write
\* the batch is dropped and the lock released at once.
Take(s) ==
    LET kept   == Kept(queued, {t \in Slots : Wanted(t)})
        pruned == {t \in Range(queued) \ Range(kept) : reply[t] = "open"}
    IN  /\ lock = NoOne
        /\ waiting # <<>>
        /\ Head(waiting) = s
        /\ waiting' = Tail(waiting)
        /\ queued' = <<>>
        /\ IF kept = <<>>
           THEN /\ reply' = Close(pruned)
                /\ sup' = [sup EXCEPT ![s] = "read"]
                /\ UNCHANGED <<lock, batch>>
           ELSE /\ lock' = s
                /\ batch' = [ph |-> "sent", queued |-> kept, ids |-> Ids(queued),
                             flags |-> <<>>, pruned |-> pruned, answers |-> {}]
                /\ sup' = [sup EXCEPT ![s] = "write"]
                /\ UNCHANGED reply
        /\ UNCHANGED <<late, row, ghost>>

Completed(S) == [s \in Slots |-> IF s \in S /\ row[s] = "running" THEN "completed" ELSE row[s]]

\* The UPDATE returns the position of every row it completed.
Execute ==
    /\ batch.ph = "sent"
    /\ batch' = [batch EXCEPT !.ph = "executed",
                              !.flags = [i \in DOMAIN batch.ids |->
                                            IF row[batch.ids[i]] = "running" THEN "true" ELSE "false"]]
    /\ row' = Completed(Range(batch.ids))
    /\ UNCHANGED <<sup, late, reply, queued, lock, waiting, ghost>>

\* Some(Err): the statement failed, or was executed and its answer lost.
Fail ==
    /\ batch.ph \in {"sent", "executed"}
    /\ batch' = [batch EXCEPT !.ph = "executed", !.flags = [i \in DOMAIN batch.queued |-> "err"]]
    /\ ghost' = IF batch.ph = "sent" THEN ghost \cup Range(batch.ids) ELSE ghost
    /\ UNCHANGED <<sup, late, reply, queued, lock, waiting, row>>

\* The reply of each entry, by its position in the batch; an entry without a
\* position is not applied, and one whose receiver is gone gets none.
Answers(b) == {<<b.queued[i], IF i \in DOMAIN b.flags THEN b.flags[i] ELSE "false">> :
                  i \in {n \in DOMAIN b.queued : reply[b.queued[n]] = "open"}}

\* CompletionBatch::finish first retires every entry: ownership and slots.
Retire ==
    /\ batch.ph = "executed"
    /\ batch' = [NoBatch EXCEPT !.ph = "retired", !.pruned = batch.pruned,
                                !.answers = Answers(batch)]
    /\ UNCHANGED <<sup, late, reply, queued, lock, waiting, row, ghost>>

\* finish then closes the pruned replies and sends the others.
SendAnswers ==
    /\ batch.ph = "retired"
    /\ reply' = [s \in Slots |->
                    IF \E a \in batch.answers : a[1] = s
                    THEN (CHOOSE a \in batch.answers : a[1] = s)[2]
                    ELSE Close(batch.pruned)[s]]
    /\ batch' = [batch EXCEPT !.ph = "answered", !.pruned = {}, !.answers = {}]
    /\ UNCHANGED <<sup, late, queued, lock, waiting, row, ghost>>

\* Mutation: the lock is released before the replies are sent.
UnlockEarly ==
    /\ batch.ph \in {"retired", "answered"}
    /\ lock # NoOne
    /\ lock' = NoOne
    /\ sup' = [sup EXCEPT ![lock] = "read"]
    /\ batch' = IF batch.ph = "answered" THEN NoBatch ELSE batch
    /\ UNCHANGED <<late, reply, queued, waiting, row, ghost>>

\* drop(writer), and the writer reads its own answer.
Unlock ==
    /\ batch.ph = "answered"
    /\ lock' = NoOne
    /\ sup' = [sup EXCEPT ![lock] = "read"]
    /\ batch' = NoBatch
    /\ UNCHANGED <<late, reply, queued, waiting, row, ghost>>

\* write_batch's None: the earliest deadline passed.  The batch is dropped,
\* which retires its entries and closes their replies; nobody is answered.
Expire ==
    /\ batch.ph \in {"sent", "executed"}
    /\ Range(batch.queued) \cap late # {}
    /\ reply' = Close(Range(batch.queued) \cup batch.pruned)
    /\ ghost' = IF batch.ph = "sent" THEN ghost \cup Range(batch.ids) ELSE ghost
    /\ batch' = NoBatch
    /\ sup' = [sup EXCEPT ![lock] = "read"]
    /\ lock' = NoOne
    /\ UNCHANGED <<late, queued, waiting, row>>

\* response.await: an answer ends persist, anything else retries.
Read(s) ==
    /\ sup[s] = "read"
    /\ reply[s] # "open"
    /\ sup' = [sup EXCEPT ![s] = CASE reply[s] = "true"  -> "applied"
                                   [] reply[s] = "false" -> "unchanged"
                                   [] OTHER              -> "persist"]
    /\ UNCHANGED <<late, reply, queued, lock, waiting, batch, row, ghost>>

\* The local deadline of s passes, at any moment; every deadline has passed
\* once the cleanup budget ends.
Late(s) ==
    /\ sup[s] \in {"persist", "wait", "write", "read"}
    /\ late' = late \cup {s}
    /\ UNCHANGED <<sup, reply, queued, lock, waiting, batch, row, ghost>>

\* within gives up in persist and drops complete_batched: its receiver, its own
\* queued registration and, if it is the writer, the batch and then the lock.
\* A reply the batch still has for s goes nowhere.
Drop(s) ==
    /\ s \in late
    /\ sup[s] \in {"persist", "wait", "write", "read"}
    /\ sup' = [sup EXCEPT ![s] = "none"]
    /\ queued' = Kept(queued, Slots \ {s})
    /\ waiting' = Kept(waiting, Slots \ {s})
    /\ IF lock = s
       THEN /\ reply' = [Close(Range(batch.queued) \cup {a[1] : a \in batch.answers} \cup batch.pruned)
                            EXCEPT ![s] = "closed"]
            /\ ghost' = IF batch.ph = "sent" THEN ghost \cup Range(batch.ids) ELSE ghost
            /\ lock' = NoOne
            /\ batch' = NoBatch
       ELSE /\ reply' = [reply EXCEPT ![s] = "closed"]
            /\ batch' = [batch EXCEPT !.pruned = @ \ {s},
                                      !.answers = {a \in @ : a[1] # s}]
            /\ UNCHANGED <<ghost, lock>>
    /\ UNCHANGED <<late, row>>

\* The database still executes what a lost writer had sent.
ExecuteGhost(s) ==
    /\ s \in ghost
    /\ ghost' = ghost \ {s}
    /\ row' = Completed({s})
    /\ UNCHANGED <<sup, late, reply, queued, lock, waiting, batch>>

\* The lease of s expired and its row was claimed again.  The local deadline
\* leads the lease (JobQueue, LeaseLeads), so s is late by then.
LoseLease(s) ==
    /\ s \in late
    /\ row[s] = "running"
    /\ row' = [row EXCEPT ![s] = "lost"]
    /\ UNCHANGED <<sup, late, reply, queued, lock, waiting, batch, ghost>>

-----------------------------------------------------------------------------
Writer == Execute \/ Fail \/ Retire \/ SendAnswers \/ Unlock \/ Expire

Supervisor(s) == RegisterCompletion(s) \/ Take(s) \/ Read(s) \/ Drop(s)

Next == \/ Writer
        \/ \E s \in Slots : Supervisor(s) \/ Late(s) \/ ExecuteGhost(s) \/ LoseLease(s)
        \/ \E s \in Slots, st \in {"running", "completed"} : Begin(s, st)

Spec == Init /\ [][Next]_vars

Answered == \A i \in DOMAIN batch.flags : batch.flags[i] # "err"

\* Every task is polled, and a completion sent again and again is answered
\* eventually.  No deadline has to pass.
FairSpec ==
    /\ Spec
    /\ WF_vars(Execute) /\ WF_vars(Retire) /\ WF_vars(SendAnswers) /\ WF_vars(Unlock)
    /\ \A s \in Slots : /\ SF_vars(s \in Range(batch.queued) /\ Execute)
                        /\ SF_vars(s \in Range(batch.queued) /\ Answered /\ Retire)
                        /\ WF_vars(RegisterCompletion(s)) /\ WF_vars(Take(s))
                        /\ WF_vars(Read(s)) /\ WF_vars(Drop(s))

-----------------------------------------------------------------------------
\* A slot has at most one registration, queued or in a batch, however its
\* supervisor retried or was dropped: entries retire before a reply wakes a
\* waiter, and the registration itself keeps the slot from being reused
\* (QueuedCompletion, CompletionBatch::finish, AttemptSlots).  So the memory of
\* the queue is bounded by max_workers.
OneMembership ==
    /\ TypeOK
    /\ LET entries == queued \o batch.queued
       IN \A i, j \in DOMAIN entries : entries[i] = entries[j] => i = j

\* A waiter that comes out of the lock never waits for an answer nobody is
\* going to send: whoever wrote its completion settled it before unlocking, or
\* dropped it (complete_batched).
AnswerAtHand == \A s \in Slots : sup[s] = "read" => reply[s] # "open"

\* A supervisor is told what became of its own row: "applied" only if the row
\* is completed, "unchanged" only if there is nothing left to complete.
\* Positions in the answer match the entries that survived pruning, and a retry
\* of a statement that did execute is not mistaken (write_batch).
ToldTheTruth ==
    \A s \in Slots : /\ sup[s] = "applied" => row[s] = "completed"
                     /\ sup[s] = "unchanged" => row[s] # "running"

\* Every completion is recorded, as soon as deadlines stop passing: no waiter
\* starves behind the others, and a dropped writer leaves nobody waiting.
EveryCompletionRecorded ==
    <>[](\A s \in Slots : SlotHeldBySupervisor(s) => s \notin late)
        => \A s \in Slots : SlotHeldBySupervisor(s) ~> sup[s] \in {"applied", "unchanged", "none"}

\* A supervisor has one entry among the completions, its answer is at hand when it
\* looks for it, and it is told what became of its row (attempt.rs
\* complete_batched, write_batch).
AnsweredTruly == OneMembership /\ AnswerAtHand /\ ToldTheTruth
=============================================================================
