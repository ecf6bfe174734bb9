-------------------------- MODULE JobQueueProofs --------------------------
(***************************************************************************)
(* Proofs about JobQueue, for any number of jobs, workers and slots and    *)
(* any timing constants that satisfy TimeAssumption. FencedCustody is      *)
(* inductive; the safety of leases, accounts, effects and terminal states  *)
(* follows from it. A claim on its way fits the slots that wait for it     *)
(* (ClaimsFit).                                                            *)
(***************************************************************************)
EXTENDS JobQueue, FiniteSetTheorems, TLAPS

-----------------------------------------------------------------------------
(* What the operators return *)

\* An idle slot is a slot.
LEMMA FreeType == Free \in Slot
  BY DEF Free, Slot, Transitions

\* A freshly enqueued row is a row.
LEMMA NewRowType ==
    ASSUME NEW key \in Keys \cup {NoKey}, NEW delay \in Nat
    PROVE  [NoRow EXCEPT !.st = "pending", !.key = key, !.timer = delay] \in Row
<1>1. NoRow \in Row
  BY DEF NoRow, Row, States
<1>. QED BY <1>1 DEF Row, States

\* The slots a claim asks for can be counted.
LEMMA FreeSlotsCount ==
    ASSUME NEW w
    PROVE  Cardinality(FreeSlots(w)) \in Nat
  BY SetsAssumption, FS_CardinalityType, FS_Subset DEF FreeSlots, SlotsOf

\* map_outcome yields a transition for every way a handler can end.
LEMMA OutcomeType ==
    ASSUME NEW ended \in {"success", "error", "permanent", "snooze", "cancelled", "timeout"},
           NEW att \in Nat, NEW w \in Workers
    PROVE  OutcomeOf(ended, att, w) \in Transitions
  BY PolicyAssumption DEF OutcomeOf, Transitions

\* A refund of a claimed row never makes its attempts negative.
LEMMA AppliedType ==
    ASSUME NEW r \in Row, r.tries >= 1, NEW delay \in Nat, NEW tr \in Transitions \cup {"tx"}
    PROVE  Applied(r, tr, delay) \in Row
<1>. r.tries - 1 \in Nat /\ r.errs + 1 \in Nat /\ Retention \in Nat
  BY TimeAssumption DEF Row
<1>1. CASE tr \in {"complete", "tx"}
  BY <1>1 DEF Applied, Row, States
<1>2. CASE tr = "retry"
  BY <1>2 DEF Applied, Row, States
<1>3. CASE tr = "snooze"
  BY <1>3 DEF Applied, Row, States
<1>4. CASE tr = "release"
  BY <1>4 DEF Applied, Row, States
<1>5. CASE tr \in {"exhausted", "permanent"}
  BY <1>5 DEF Applied, Row, States
<1>. QED BY <1>1, <1>2, <1>3, <1>4, <1>5 DEF Transitions

-----------------------------------------------------------------------------
(* Every action keeps FencedCustody *)

\* A new row carries no generation anyone holds.
LEMMA EnqueueKeeps ==
    ASSUME FencedCustody, NEW j \in Jobs, NEW key \in Keys \cup {NoKey},
           NEW delay \in 0..MaxDelay, Enqueue(j, key, delay)
    PROVE  FencedCustody'
<1>1. TypeOK'
  <2>. delay \in Nat
    BY TimeAssumption
  <2>1. [NoRow EXCEPT !.st = "pending", !.key = key, !.timer = delay] \in Row
    BY NewRowType
  <2>. QED BY <2>1 DEF FencedCustody, TypeOK, Enqueue
<1>6. AttemptAccounting'
  BY DEF FencedCustody, AttemptAccounting, TypeOK, Row, Enqueue, NoRow
<1>2. Bookkeeping'
  BY TimeAssumption DEF FencedCustody, Bookkeeping, Busy, TypeOK, Row, Slot, Engine, Lease, Enqueue, NoRow
<1>3. GensDrawn'
  BY TimeAssumption DEF FencedCustody, GensDrawn, Bookkeeping, Busy, TypeOK, Row, Slot, Engine, Claim, Statement, Enqueue, NoRow
<1>4. GensUnique'
  BY TimeAssumption DEF FencedCustody, GensDrawn, GensUnique, Bookkeeping, Busy, TypeOK, Row, Slot, Engine, Claim, Statement, Transitions, Enqueue, NoRow
<1>5. LeaseLeads'
  BY TimeAssumption, SetsAssumption DEF FencedCustody, LeaseLeads, GensUnique, Bookkeeping, Busy, TypeOK, Row, Slot, Engine, Claim, Statement, Transitions, Lease, Enqueue, NoRow
<1>. QED BY <1>1, <1>2, <1>3, <1>4, <1>5, <1>6 DEF FencedCustody

\* Sending a claim touches no row, slot or statement.
LEMMA SendClaimKeeps ==
    ASSUME FencedCustody, NEW w \in Workers, SendClaim(w)
    PROVE  FencedCustody'
<1>1. TypeOK'
  <2>1. [eng[w] EXCEPT !.ph = "sent", !.req = Cardinality(FreeSlots(w))] \in Engine
    BY FreeSlotsCount DEF FencedCustody, TypeOK, Engine
  <2>. QED BY <2>1 DEF FencedCustody, TypeOK, SendClaim
<1>6. AttemptAccounting'
  BY DEF FencedCustody, AttemptAccounting, TypeOK, Row, SendClaim
<1>2. Bookkeeping'
  BY TimeAssumption DEF FencedCustody, Bookkeeping, Busy, TypeOK, Row, Slot, Engine, Lease, SendClaim
<1>3. GensDrawn'
  BY TimeAssumption DEF FencedCustody, GensDrawn, Bookkeeping, Busy, TypeOK, Row, Slot, Engine, Claim, Statement, SendClaim
<1>4. GensUnique'
  BY TimeAssumption DEF FencedCustody, GensDrawn, GensUnique, Bookkeeping, Busy, TypeOK, Row, Slot, Engine, Claim, Statement, Transitions, SendClaim
<1>5. LeaseLeads'
  BY TimeAssumption, SetsAssumption DEF FencedCustody, LeaseLeads, GensUnique, Bookkeeping, Busy, TypeOK, Row, Slot, Engine, Claim, Statement, Transitions, Lease, SendClaim
<1>. QED BY <1>1, <1>2, <1>3, <1>4, <1>5, <1>6 DEF FencedCustody

\* A claim whose answer is lost leaves its generations without a holder.
LEMMA LoseClaimKeeps ==
    ASSUME FencedCustody, NEW w \in Workers, LoseClaim(w)
    PROVE  FencedCustody'
<1>1. TypeOK'
  BY DEF FencedCustody, TypeOK, Engine, LoseClaim, Idle
<1>6. AttemptAccounting'
  BY DEF FencedCustody, AttemptAccounting, TypeOK, Row, LoseClaim, Idle
<1>2. Bookkeeping'
  BY TimeAssumption DEF FencedCustody, Bookkeeping, Busy, TypeOK, Row, Slot, Engine, Lease, LoseClaim, Idle
<1>3. GensDrawn'
  BY TimeAssumption DEF FencedCustody, GensDrawn, Bookkeeping, Busy, TypeOK, Row, Slot, Engine, Claim, Statement, LoseClaim, Idle
<1>4. GensUnique'
  BY TimeAssumption DEF FencedCustody, GensDrawn, GensUnique, Bookkeeping, Busy, TypeOK, Row, Slot, Engine, Claim, Statement, Transitions, LoseClaim, Idle
<1>5. LeaseLeads'
  BY TimeAssumption, SetsAssumption DEF FencedCustody, LeaseLeads, GensUnique, Bookkeeping, Busy, TypeOK, Row, Slot, Engine, Claim, Statement, Transitions, Lease, LoseClaim, Idle
<1>. QED BY <1>1, <1>2, <1>3, <1>4, <1>5, <1>6 DEF FencedCustody

\* A handler's result moves its supervisor to recording, under the same claim.
LEMMA HandlerEndsKeeps ==
    ASSUME FencedCustody, NEW s \in Slots,
           NEW ended \in {"success", "error", "permanent", "snooze"}, HandlerEnds(s, ended)
    PROVE  FencedCustody'
<1>1. TypeOK'
  <2>1. slot' \in [Slots -> Slot]
    <3>1. OutcomeOf(ended, slot[s].att, Owner[s]) \in Transitions
      BY OutcomeType, SetsAssumption DEF FencedCustody, TypeOK, Slot
    <3>2. [slot[s] EXCEPT !.ph  = "record", !.out = OutcomeOf(ended, slot[s].att, Owner[s])] \in Slot
      BY <3>1, ZenonT(60) DEF FencedCustody, TypeOK, Slot
    <3>. QED BY <3>2 DEF FencedCustody, TypeOK, HandlerEnds, Ends
  <2>2. spent' \in [snoozes: Nat, stops: Nat, redrives: Nat]
    BY DEF FencedCustody, TypeOK, HandlerEnds
  <2>. QED BY <2>1, <2>2 DEF FencedCustody, TypeOK, HandlerEnds
<1>6. AttemptAccounting'
  BY DEF FencedCustody, AttemptAccounting, TypeOK, Row, HandlerEnds, Ends
<1>2. Bookkeeping'
  BY TimeAssumption DEF FencedCustody, Bookkeeping, Busy, TypeOK, Row, Slot, Engine, Lease, HandlerEnds, Ends
<1>3. GensDrawn'
  BY TimeAssumption DEF FencedCustody, GensDrawn, Bookkeeping, Busy, TypeOK, Row, Slot, Engine, Claim, Statement, HandlerEnds, Ends
<1>4. GensUnique'
  BY TimeAssumption DEF FencedCustody, GensDrawn, GensUnique, Bookkeeping, Busy, TypeOK, Row, Slot, Engine, Claim, Statement, Transitions, HandlerEnds, Ends
<1>5. LeaseLeads'
  <2>1. \A t \in Slots : /\ slot'[t].job = slot[t].job
                         /\ slot'[t].gen = slot[t].gen
                         /\ slot'[t].local = slot[t].local
                         /\ Busy(t)' => Busy(t)
                         /\ slot'[t].ph = "run" => slot[t].ph = "run"
    BY DEF FencedCustody, TypeOK, Slot, Busy, HandlerEnds, Ends
  <2>2. row' = row /\ eng' = eng
    BY DEF HandlerEnds
  <2>. QED BY <2>1, <2>2 DEF FencedCustody, LeaseLeads
<1>. QED BY <1>1, <1>2, <1>3, <1>4, <1>5, <1>6 DEF FencedCustody

\* So does a cancelled handler's.
LEMMA CancelHandlerKeeps ==
    ASSUME FencedCustody, NEW s \in Slots,
           NEW ended \in {"cancelled", "timeout", "success"}, CancelHandler(s, ended)
    PROVE  FencedCustody'
<1>1. TypeOK'
  <2>1. slot' \in [Slots -> Slot]
    <3>1. OutcomeOf(ended, slot[s].att, Owner[s]) \in Transitions
      BY OutcomeType, SetsAssumption DEF FencedCustody, TypeOK, Slot
    <3>2. [slot[s] EXCEPT !.ph  = "record", !.out = OutcomeOf(ended, slot[s].att, Owner[s])] \in Slot
      BY <3>1, ZenonT(60) DEF FencedCustody, TypeOK, Slot
    <3>. QED BY <3>2 DEF FencedCustody, TypeOK, CancelHandler, Ends
  <2>2. spent' \in [snoozes: Nat, stops: Nat, redrives: Nat]
    BY DEF FencedCustody, TypeOK, CancelHandler
  <2>. QED BY <2>1, <2>2 DEF FencedCustody, TypeOK, CancelHandler
<1>6. AttemptAccounting'
  BY DEF FencedCustody, AttemptAccounting, TypeOK, Row, CancelHandler, Ends
<1>2. Bookkeeping'
  BY TimeAssumption DEF FencedCustody, Bookkeeping, Busy, TypeOK, Row, Slot, Engine, Lease, CancelHandler, Ends
<1>3. GensDrawn'
  BY TimeAssumption DEF FencedCustody, GensDrawn, Bookkeeping, Busy, TypeOK, Row, Slot, Engine, Claim, Statement, CancelHandler, Ends
<1>4. GensUnique'
  BY TimeAssumption DEF FencedCustody, GensDrawn, GensUnique, Bookkeeping, Busy, TypeOK, Row, Slot, Engine, Claim, Statement, Transitions, CancelHandler, Ends
<1>5. LeaseLeads'
  <2>1. \A t \in Slots : /\ slot'[t].job = slot[t].job
                         /\ slot'[t].gen = slot[t].gen
                         /\ slot'[t].local = slot[t].local
                         /\ Busy(t)' => Busy(t)
                         /\ slot'[t].ph = "run" => slot[t].ph = "run"
    BY DEF FencedCustody, TypeOK, Slot, Busy, CancelHandler, Ends
  <2>2. row' = row /\ eng' = eng
    BY DEF CancelHandler
  <2>. QED BY <2>1, <2>2 DEF FencedCustody, LeaseLeads
<1>. QED BY <1>1, <1>2, <1>3, <1>4, <1>5, <1>6 DEF FencedCustody

\* The only statement of a running handler is its own transaction.
LEMMA CompleteInTxKeeps ==
    ASSUME FencedCustody, NEW s \in Slots, CompleteInTx(s)
    PROVE  FencedCustody'
<1>1. TypeOK'
  <2>1. wire' \subseteq Statement
    BY DEF FencedCustody, TypeOK, Bookkeeping, Busy, CompleteInTx, Statement, Slot
  <2>2. slot' \in [Slots -> Slot]
    BY ZenonT(60) DEF FencedCustody, TypeOK, CompleteInTx, Slot
  <2>. QED BY <2>1, <2>2 DEF FencedCustody, TypeOK, CompleteInTx
<1>6. AttemptAccounting'
  BY DEF FencedCustody, AttemptAccounting, TypeOK, Row, CompleteInTx
<1>2. Bookkeeping'
  BY TimeAssumption DEF FencedCustody, Bookkeeping, Busy, TypeOK, Row, Slot, Engine, Lease, CompleteInTx
<1>3. GensDrawn'
  BY TimeAssumption DEF FencedCustody, GensDrawn, Bookkeeping, Busy, TypeOK, Row, Slot, Engine, Claim, Statement, CompleteInTx
<1>4. GensUnique'
  BY TimeAssumption DEF FencedCustody, GensDrawn, GensUnique, Bookkeeping, Busy, TypeOK, Row, Slot, Engine, Claim, Statement, Transitions, CompleteInTx
<1>5. LeaseLeads'
  BY TimeAssumption, SetsAssumption DEF FencedCustody, LeaseLeads, GensUnique, Bookkeeping, Busy, TypeOK, Row, Slot, Engine, Claim, Statement, Transitions, Lease, CompleteInTx
<1>. QED BY <1>1, <1>2, <1>3, <1>4, <1>5, <1>6 DEF FencedCustody

\* A recording supervisor sends under the generation it alone holds.
LEMMA SendOutcomeKeeps ==
    ASSUME FencedCustody, NEW s \in Slots, SendOutcome(s)
    PROVE  FencedCustody'
<1>1. TypeOK'
  <2>1. wire' \subseteq Statement
    BY DEF FencedCustody, TypeOK, Bookkeeping, Busy, SendOutcome, Statement, Slot
  <2>2. slot' \in [Slots -> Slot]
    BY DEF FencedCustody, TypeOK, SendOutcome, Slot
  <2>. QED BY <2>1, <2>2 DEF FencedCustody, TypeOK, SendOutcome
<1>6. AttemptAccounting'
  BY DEF FencedCustody, AttemptAccounting, TypeOK, Row, SendOutcome
<1>2. Bookkeeping'
  BY TimeAssumption DEF FencedCustody, Bookkeeping, Busy, TypeOK, Row, Slot, Engine, Lease, SendOutcome
<1>3. GensDrawn'
  BY TimeAssumption DEF FencedCustody, GensDrawn, Bookkeeping, Busy, TypeOK, Row, Slot, Engine, Claim, Statement, SendOutcome
<1>4. GensUnique'
  BY TimeAssumption DEF FencedCustody, GensDrawn, GensUnique, Bookkeeping, Busy, TypeOK, Row, Slot, Engine, Claim, Statement, Transitions, SendOutcome
<1>5. LeaseLeads'
  BY TimeAssumption, SetsAssumption DEF FencedCustody, LeaseLeads, GensUnique, Bookkeeping, Busy, TypeOK, Row, Slot, Engine, Claim, Statement, Transitions, Lease, SendOutcome
<1>. QED BY <1>1, <1>2, <1>3, <1>4, <1>5, <1>6 DEF FencedCustody

\* An abandoned slot gives its claim up and leaves the row as it is.
LEMMA AbandonKeeps ==
    ASSUME FencedCustody, NEW s \in Slots, Abandon(s)
    PROVE  FencedCustody'
<1>1. TypeOK'
  BY FreeType DEF FencedCustody, TypeOK, Abandon
<1>6. AttemptAccounting'
  BY DEF FencedCustody, AttemptAccounting, TypeOK, Row, Abandon, Free
<1>2. Bookkeeping'
  BY TimeAssumption DEF FencedCustody, Bookkeeping, Busy, TypeOK, Row, Slot, Engine, Lease, Abandon, Free
<1>3. GensDrawn'
  BY TimeAssumption DEF FencedCustody, GensDrawn, Bookkeeping, Busy, TypeOK, Row, Slot, Engine, Claim, Statement, Abandon, Free
<1>4. GensUnique'
  BY TimeAssumption DEF FencedCustody, GensDrawn, GensUnique, Bookkeeping, Busy, TypeOK, Row, Slot, Engine, Claim, Statement, Transitions, Abandon, Free
<1>5. LeaseLeads'
  BY TimeAssumption, SetsAssumption DEF FencedCustody, LeaseLeads, GensUnique, Bookkeeping, Busy, TypeOK, Row, Slot, Engine, Claim, Statement, Transitions, Lease, Abandon, Free
<1>. QED BY <1>1, <1>2, <1>3, <1>4, <1>5, <1>6 DEF FencedCustody

\* A statement changes a row only while that row's claim is its own.
LEMMA ExecOutcomeKeeps ==
    ASSUME FencedCustody, NEW m \in wire, NEW delay \in 0..MaxDelay,
           NEW acked \in BOOLEAN, ExecOutcome(m, delay, acked)
    PROVE  FencedCustody'
<1>1. TypeOK'
  <2>1. row' \in [Jobs -> Row]
    <3>1. CASE Fenced(m)
      <4>1. m \in Statement /\ row[m.job] \in Row /\ row[m.job].tries >= 1
        BY <3>1 DEF FencedCustody, TypeOK, AttemptAccounting, Statement, Row, Fenced
      <4>2. Applied(row[m.job], m.tr, delay) \in Row
        BY <4>1, AppliedType, TimeAssumption DEF Statement
      <4>. QED BY <3>1, <4>1, <4>2 DEF FencedCustody, TypeOK, ExecOutcome, Statement
    <3>2. CASE ~Fenced(m)
      BY <3>2 DEF FencedCustody, TypeOK, ExecOutcome
    <3>. QED BY <3>1, <3>2
  <2>2. slot' \in [Slots -> Slot]
    BY FreeType DEF FencedCustody, TypeOK, ExecOutcome
  <2>3. effects' \in [Jobs -> Nat]
    <3>1. m.job \in Jobs
      BY DEF FencedCustody, TypeOK, Statement
    <3>2. effects[m.job] + 1 \in Nat
      BY <3>1 DEF FencedCustody, TypeOK
    <3>. QED BY <3>1, <3>2 DEF FencedCustody, TypeOK, ExecOutcome
  <2>. QED BY <2>1, <2>2, <2>3 DEF FencedCustody, TypeOK, ExecOutcome
<1>2. Bookkeeping'
  BY TimeAssumption DEF FencedCustody, Bookkeeping, Busy, TypeOK, Row, Slot, Engine, Lease, ExecOutcome, Fenced, Applied, Awaits, Free
<1>3. GensDrawn'
  BY TimeAssumption DEF FencedCustody, GensDrawn, Bookkeeping, Busy, TypeOK, Row, Slot, Engine, Claim, Statement, ExecOutcome, Fenced, Applied, Awaits, Free
<1>4. GensUnique'
  BY TimeAssumption DEF FencedCustody, GensDrawn, GensUnique, Bookkeeping, Busy, TypeOK, Row, Slot, Engine, Claim, Statement, Transitions, ExecOutcome, Fenced, Applied, Awaits, Free
<1>5. LeaseLeads'
  <2>0. m.job \in Jobs /\ m.gen \in Nat /\ m.tr \in Transitions \cup {"tx"} /\ m \in wire
    BY DEF FencedCustody, TypeOK, Statement, ExecOutcome
  <2>1. \A j \in Jobs : row'[j] = row[j] \/ (j = m.job /\ Fenced(m))
    BY <2>0 DEF FencedCustody, TypeOK, ExecOutcome
  <2>2. Fenced(m) => /\ row'[m.job].gen = row[m.job].gen
                     /\ row'[m.job].st \in {"pending", "completed", "failed"}
                     /\ m.tr = "tx" => row'[m.job].st = "completed"
    BY <2>0 DEF FencedCustody, TypeOK, Row, ExecOutcome, Applied
  <2>3. \A s \in Slots : slot'[s] = slot[s] \/ slot'[s].ph = "free"
    BY DEF ExecOutcome, Free
  <2>4. eng' = eng
    BY DEF ExecOutcome
  <2>5. (\A w \in Workers : \A c \in eng[w].drawn :
           /\ row[c.job].gen = c.gen
           /\ row[c.job].st = "running"
           /\ row[c.job].timer >= Lease - eng[w].age)'
    BY <2>0, <2>1, <2>4 DEF FencedCustody, TypeOK, Engine, Claim, LeaseLeads, GensUnique, Fenced
  <2>6. (\A s \in Slots :
           (Busy(s) /\ row[slot[s].job].gen = slot[s].gen /\ row[slot[s].job].st = "running")
               => row[slot[s].job].timer >= slot[s].local + Margin)'
    BY <2>0, <2>1, <2>2, <2>3, SetsAssumption DEF FencedCustody, TypeOK, Slot, Busy, Bookkeeping, LeaseLeads
  <2>7. (\A s \in Slots : slot[s].ph = "run" =>
           /\ row[slot[s].job].gen = slot[s].gen
           /\ row[slot[s].job].st \in {"running", "completed", "deleted"})'
    BY <2>0, <2>1, <2>2, <2>3, SetsAssumption DEF FencedCustody, TypeOK, Slot, Busy, Bookkeeping, LeaseLeads, GensUnique, Fenced
  <2>. QED BY <2>5, <2>6, <2>7 DEF LeaseLeads
<1>6. AttemptAccounting'
  <2>0. m.job \in Jobs /\ m.tr \in Transitions \cup {"tx"}
    BY DEF FencedCustody, TypeOK, Statement
  <2>1. CASE ~Fenced(m)
    BY <2>1 DEF FencedCustody, AttemptAccounting, ExecOutcome
  <2>2. CASE Fenced(m)
    <3>1. row[m.job] \in Row /\ row[m.job].tries = row[m.job].errs + 1
      BY <2>0, <2>2 DEF FencedCustody, TypeOK, AttemptAccounting, Fenced
    <3>2. LET r == Applied(row[m.job], m.tr, delay)
          IN  /\ r.st \in {"completed", "pending", "failed"}
              /\ r.st = "completed" => r.tries = r.errs + 1
              /\ r.st \in {"pending", "failed"} => r.tries = r.errs
      BY <2>0, <3>1 DEF Applied, Row, Transitions
    <3>. QED BY <2>0, <2>2, <3>2 DEF FencedCustody, TypeOK, AttemptAccounting, ExecOutcome
  <2>. QED BY <2>1, <2>2
<1>. QED BY <1>1, <1>2, <1>3, <1>4, <1>5, <1>6 DEF FencedCustody

\* Losing a statement changes nothing else.
LEMMA DropOutcomeKeeps ==
    ASSUME FencedCustody, NEW m \in wire, DropOutcome(m)
    PROVE  FencedCustody'
<1>1. TypeOK'
  BY DEF FencedCustody, TypeOK, DropOutcome
<1>6. AttemptAccounting'
  BY DEF FencedCustody, AttemptAccounting, TypeOK, Row, DropOutcome
<1>2. Bookkeeping'
  BY TimeAssumption DEF FencedCustody, Bookkeeping, Busy, TypeOK, Row, Slot, Engine, Lease, DropOutcome
<1>3. GensDrawn'
  BY TimeAssumption DEF FencedCustody, GensDrawn, Bookkeeping, Busy, TypeOK, Row, Slot, Engine, Claim, Statement, DropOutcome
<1>4. GensUnique'
  BY TimeAssumption DEF FencedCustody, GensDrawn, GensUnique, Bookkeeping, Busy, TypeOK, Row, Slot, Engine, Claim, Statement, Transitions, DropOutcome
<1>5. LeaseLeads'
  BY TimeAssumption, SetsAssumption DEF FencedCustody, LeaseLeads, GensUnique, Bookkeeping, Busy, TypeOK, Row, Slot, Engine, Claim, Statement, Transitions, Lease, DropOutcome
<1>. QED BY <1>1, <1>2, <1>3, <1>4, <1>5, <1>6 DEF FencedCustody

\* Retention removes completed rows only.
LEMMA DeleteExpiredKeeps ==
    ASSUME FencedCustody, NEW D \in SUBSET Jobs, DeleteExpired(D)
    PROVE  FencedCustody'
<1>1. TypeOK'
  <2>1. row' \in [Jobs -> Row]
    BY DEF FencedCustody, TypeOK, DeleteExpired, Row, States
  <2>. QED BY <2>1 DEF FencedCustody, TypeOK, DeleteExpired
<1>6. AttemptAccounting'
  BY DEF FencedCustody, AttemptAccounting, TypeOK, Row, DeleteExpired
<1>2. Bookkeeping'
  BY TimeAssumption DEF FencedCustody, Bookkeeping, Busy, TypeOK, Row, Slot, Engine, Lease, DeleteExpired
<1>3. GensDrawn'
  BY TimeAssumption DEF FencedCustody, GensDrawn, Bookkeeping, Busy, TypeOK, Row, Slot, Engine, Claim, Statement, DeleteExpired
<1>4. GensUnique'
  BY TimeAssumption DEF FencedCustody, GensDrawn, GensUnique, Bookkeeping, Busy, TypeOK, Row, Slot, Engine, Claim, Statement, Transitions, DeleteExpired
<1>5. LeaseLeads'
  BY TimeAssumption, SetsAssumption DEF FencedCustody, LeaseLeads, GensUnique, Bookkeeping, Busy, TypeOK, Row, Slot, Engine, Claim, Statement, Transitions, Lease, DeleteExpired
<1>. QED BY <1>1, <1>2, <1>3, <1>4, <1>5, <1>6 DEF FencedCustody

\* Reading a failed job changes no custody.
LEMMA InspectKeeps ==
    ASSUME FencedCustody, NEW j \in Jobs, Inspect(j)
    PROVE  FencedCustody'
<1>1. TypeOK'
  BY DEF FencedCustody, TypeOK, Row, Inspect
<1>6. AttemptAccounting'
  BY DEF FencedCustody, AttemptAccounting, TypeOK, Row, Inspect
<1>2. Bookkeeping'
  BY TimeAssumption DEF FencedCustody, Bookkeeping, Busy, TypeOK, Row, Slot, Engine, Lease, Inspect
<1>3. GensDrawn'
  BY TimeAssumption DEF FencedCustody, GensDrawn, Bookkeeping, Busy, TypeOK, Row, Slot, Engine, Claim, Statement, Inspect
<1>4. GensUnique'
  BY TimeAssumption DEF FencedCustody, GensDrawn, GensUnique, Bookkeeping, Busy, TypeOK, Row, Slot, Engine, Claim, Statement, Transitions, Inspect
<1>5. LeaseLeads'
  BY TimeAssumption, SetsAssumption DEF FencedCustody, LeaseLeads, GensUnique, Bookkeeping, Busy, TypeOK, Row, Slot, Engine, Claim, Statement, Transitions, Lease, Inspect
<1>. QED BY <1>1, <1>2, <1>3, <1>4, <1>5, <1>6 DEF FencedCustody

\* A redrive takes a fresh generation and moves a failed row, which nobody holds.
LEMMA RedriveKeeps ==
    ASSUME FencedCustody, Redrive
    PROVE  FencedCustody'
<1>1. TypeOK'
  <2>1. row[target.job].key \in Keys \cup {NoKey} /\ seq + 1 \in Nat /\ target.job \in Jobs
    BY DEF FencedCustody, TypeOK, Row, Redrive, LockFailed
  <2>2. [NoRow EXCEPT !.st = "pending", !.key = row[target.job].key, !.gen = seq + 1] \in Row
    BY <2>1 DEF NoRow, Row, States
  <2>3. row' \in [Jobs -> Row]
    BY <2>1, <2>2 DEF FencedCustody, TypeOK, Redrive
  <2>4. spent' \in [snoozes: Nat, stops: Nat, redrives: Nat]
    BY DEF FencedCustody, TypeOK, Redrive
  <2>. QED BY <2>1, <2>3, <2>4 DEF FencedCustody, TypeOK, Redrive
<1>6. AttemptAccounting'
  BY DEF FencedCustody, AttemptAccounting, TypeOK, Row, Redrive, LockFailed, NoRow
<1>2. Bookkeeping'
  BY TimeAssumption DEF FencedCustody, Bookkeeping, Busy, TypeOK, Row, Slot, Engine, Lease, Redrive, LockFailed, NoRow
<1>3. GensDrawn'
  BY TimeAssumption DEF FencedCustody, GensDrawn, Bookkeeping, Busy, TypeOK, Row, Slot, Engine, Claim, Statement, Redrive, LockFailed, NoRow
<1>4. GensUnique'
  BY TimeAssumption DEF FencedCustody, GensDrawn, GensUnique, Bookkeeping, Busy, TypeOK, Row, Slot, Engine, Claim, Statement, Transitions, Redrive, LockFailed, NoRow
<1>5. LeaseLeads'
  BY TimeAssumption, SetsAssumption DEF FencedCustody, LeaseLeads, GensUnique, Bookkeeping, Busy, TypeOK, Row, Slot, Engine, Claim, Statement, Transitions, Lease, Redrive, LockFailed, NoRow
<1>. QED BY <1>1, <1>2, <1>3, <1>4, <1>5, <1>6 DEF FencedCustody

\* Discarding removes a failed row, which nobody holds.
LEMMA DiscardKeeps ==
    ASSUME FencedCustody, Discard
    PROVE  FencedCustody'
<1>1. TypeOK'
  <2>1. row' \in [Jobs -> Row]
    <3>1. row[target.job] \in Row => [row[target.job] EXCEPT !.st = "deleted"] \in Row
      BY DEF Row, States
    <3>. QED BY <3>1, ZenonT(60) DEF FencedCustody, TypeOK, Discard
  <2>. QED BY <2>1 DEF FencedCustody, TypeOK, Discard
<1>6. AttemptAccounting'
  BY DEF FencedCustody, AttemptAccounting, TypeOK, Row, Discard, LockFailed
<1>2. Bookkeeping'
  BY TimeAssumption DEF FencedCustody, Bookkeeping, Busy, TypeOK, Row, Slot, Engine, Lease, Discard, LockFailed
<1>3. GensDrawn'
  BY TimeAssumption DEF FencedCustody, GensDrawn, Bookkeeping, Busy, TypeOK, Row, Slot, Engine, Claim, Statement, Discard, LockFailed
<1>4. GensUnique'
  BY TimeAssumption DEF FencedCustody, GensDrawn, GensUnique, Bookkeeping, Busy, TypeOK, Row, Slot, Engine, Claim, Statement, Transitions, Discard, LockFailed
<1>5. LeaseLeads'
  BY TimeAssumption, SetsAssumption DEF FencedCustody, LeaseLeads, GensUnique, Bookkeeping, Busy, TypeOK, Row, Slot, Engine, Claim, Statement, Transitions, Lease, Discard, LockFailed
<1>. QED BY <1>1, <1>2, <1>3, <1>4, <1>5, <1>6 DEF FencedCustody

\* Forcing a drain changes the engine's state only.
LEMMA CancelAndFinishKeeps ==
    ASSUME FencedCustody, NEW w \in Workers, CancelAndFinish(w)
    PROVE  FencedCustody'
<1>1. TypeOK'
  <2>1. eng' \in [Workers -> Engine]
    BY DEF FencedCustody, TypeOK, Engine, CancelAndFinish
  <2>3. spent' \in [snoozes: Nat, stops: Nat, redrives: Nat]
    BY DEF FencedCustody, TypeOK, CancelAndFinish
  <2>. QED BY <2>1, <2>3 DEF FencedCustody, TypeOK, CancelAndFinish
<1>6. AttemptAccounting'
  BY DEF FencedCustody, AttemptAccounting, TypeOK, Row, CancelAndFinish
<1>2. Bookkeeping'
  BY TimeAssumption DEF FencedCustody, Bookkeeping, Busy, TypeOK, Row, Slot, Engine, Lease, CancelAndFinish
<1>3. GensDrawn'
  BY TimeAssumption DEF FencedCustody, GensDrawn, Bookkeeping, Busy, TypeOK, Row, Slot, Engine, Claim, Statement, CancelAndFinish
<1>4. GensUnique'
  BY TimeAssumption DEF FencedCustody, GensDrawn, GensUnique, Bookkeeping, Busy, TypeOK, Row, Slot, Engine, Claim, Statement, Transitions, CancelAndFinish
<1>5. LeaseLeads'
  BY TimeAssumption, SetsAssumption DEF FencedCustody, LeaseLeads, GensUnique, Bookkeeping, Busy, TypeOK, Row, Slot, Engine, Claim, Statement, Transitions, Lease, CancelAndFinish
<1>. QED BY <1>1, <1>2, <1>3, <1>4, <1>5, <1>6 DEF FencedCustody

\* An exiting worker frees its slots and its claim.
LEMMA ExitKeeps ==
    ASSUME FencedCustody, NEW w \in Workers, Exit(w)
    PROVE  FencedCustody'
<1>1. TypeOK'
  <2>1. eng' \in [Workers -> Engine]
    BY DEF FencedCustody, TypeOK, Engine, Exit, Down, Idle
  <2>2. slot' \in [Slots -> Slot]
    BY FreeType DEF FencedCustody, TypeOK, Exit, Down
  <2>. QED BY <2>1, <2>2 DEF FencedCustody, TypeOK, Exit
<1>6. AttemptAccounting'
  BY DEF FencedCustody, AttemptAccounting, TypeOK, Row, Exit, Down, Idle, Free
<1>2. Bookkeeping'
  BY TimeAssumption DEF FencedCustody, Bookkeeping, Busy, TypeOK, Row, Slot, Engine, Lease, Exit, Down, Idle, Free
<1>3. GensDrawn'
  BY TimeAssumption DEF FencedCustody, GensDrawn, Bookkeeping, Busy, TypeOK, Row, Slot, Engine, Claim, Statement, Exit, Down, Idle, Free
<1>4. GensUnique'
  BY TimeAssumption DEF FencedCustody, GensDrawn, GensUnique, Bookkeeping, Busy, TypeOK, Row, Slot, Engine, Claim, Statement, Transitions, Exit, Down, Idle, Free
<1>5. LeaseLeads'
  BY TimeAssumption, SetsAssumption DEF FencedCustody, LeaseLeads, GensUnique, Bookkeeping, Busy, TypeOK, Row, Slot, Engine, Claim, Statement, Transitions, Lease, Exit, Down, Idle, Free
<1>. QED BY <1>1, <1>2, <1>3, <1>4, <1>5, <1>6 DEF FencedCustody

\* So does a crashing one.
LEMMA CrashKeeps ==
    ASSUME FencedCustody, NEW w \in Workers, Crash(w)
    PROVE  FencedCustody'
<1>1. TypeOK'
  <2>1. eng' \in [Workers -> Engine]
    BY DEF FencedCustody, TypeOK, Engine, Crash, Down, Idle
  <2>2. slot' \in [Slots -> Slot]
    BY FreeType DEF FencedCustody, TypeOK, Crash, Down
  <2>3. spent' \in [snoozes: Nat, stops: Nat, redrives: Nat]
    BY DEF FencedCustody, TypeOK, Crash
  <2>. QED BY <2>1, <2>2, <2>3 DEF FencedCustody, TypeOK, Crash
<1>6. AttemptAccounting'
  BY DEF FencedCustody, AttemptAccounting, TypeOK, Row, Crash, Down, Idle, Free
<1>2. Bookkeeping'
  BY TimeAssumption DEF FencedCustody, Bookkeeping, Busy, TypeOK, Row, Slot, Engine, Lease, Crash, Down, Idle, Free
<1>3. GensDrawn'
  BY TimeAssumption DEF FencedCustody, GensDrawn, Bookkeeping, Busy, TypeOK, Row, Slot, Engine, Claim, Statement, Crash, Down, Idle, Free
<1>4. GensUnique'
  BY TimeAssumption DEF FencedCustody, GensDrawn, GensUnique, Bookkeeping, Busy, TypeOK, Row, Slot, Engine, Claim, Statement, Transitions, Crash, Down, Idle, Free
<1>5. LeaseLeads'
  BY TimeAssumption, SetsAssumption DEF FencedCustody, LeaseLeads, GensUnique, Bookkeeping, Busy, TypeOK, Row, Slot, Engine, Claim, Statement, Transitions, Lease, Crash, Down, Idle, Free
<1>. QED BY <1>1, <1>2, <1>3, <1>4, <1>5, <1>6 DEF FencedCustody

\* A restarted worker holds nothing.
LEMMA RestartKeeps ==
    ASSUME FencedCustody, NEW w \in Workers, Restart(w)
    PROVE  FencedCustody'
<1>1. TypeOK'
  <2>1. eng' \in [Workers -> Engine]
    BY DEF FencedCustody, TypeOK, Engine, Restart, Idle
  <2>. QED BY <2>1 DEF FencedCustody, TypeOK, Restart
<1>6. AttemptAccounting'
  BY DEF FencedCustody, AttemptAccounting, TypeOK, Row, Restart, Idle
<1>2. Bookkeeping'
  BY TimeAssumption DEF FencedCustody, Bookkeeping, Busy, TypeOK, Row, Slot, Engine, Lease, Restart, Idle
<1>3. GensDrawn'
  BY TimeAssumption DEF FencedCustody, GensDrawn, Bookkeeping, Busy, TypeOK, Row, Slot, Engine, Claim, Statement, Restart, Idle
<1>4. GensUnique'
  BY TimeAssumption DEF FencedCustody, GensDrawn, GensUnique, Bookkeeping, Busy, TypeOK, Row, Slot, Engine, Claim, Statement, Transitions, Restart, Idle
<1>5. LeaseLeads'
  BY TimeAssumption, SetsAssumption DEF FencedCustody, LeaseLeads, GensUnique, Bookkeeping, Busy, TypeOK, Row, Slot, Engine, Claim, Statement, Transitions, Lease, Restart, Idle
<1>. QED BY <1>1, <1>2, <1>3, <1>4, <1>5, <1>6 DEF FencedCustody

\* Time passes for a row and for whoever holds it alike.
LEMMA TickKeeps ==
    ASSUME FencedCustody, Tick
    PROVE  FencedCustody'
<1>. \A n \in Nat : Less1(n) \in Nat /\ Less1(n) >= n - 1
  BY DEF Less1
<1>r. \A j \in Jobs : /\ row'[j] \in Row
                      /\ row'[j] = [row[j] EXCEPT !.timer = Less1(row[j].timer)]
                      /\ row'[j].timer >= row[j].timer - 1
  BY DEF FencedCustody, TypeOK, Row, Tick
<1>s. \A s \in Slots : /\ slot'[s] \in Slot
                       /\ slot'[s].ph = slot[s].ph
                       /\ slot'[s].job = slot[s].job
                       /\ slot'[s].gen = slot[s].gen
                       /\ Busy(s) => slot'[s].local = slot[s].local - 1 /\ slot[s].local > -MaxLag
  <2>. SUFFICES ASSUME NEW s \in Slots
                PROVE  /\ slot'[s] \in Slot
                       /\ slot'[s].ph = slot[s].ph
                       /\ slot'[s].job = slot[s].job
                       /\ slot'[s].gen = slot[s].gen
                       /\ Busy(s) => slot'[s].local = slot[s].local - 1 /\ slot[s].local > -MaxLag
    OBVIOUS
  <2>1. slot[s] \in Slot
    BY DEF FencedCustody, TypeOK
  <2>2. CASE ~Busy(s)
    BY <2>1, <2>2 DEF Tick, Busy
  <2>3. CASE Busy(s)
    <3>1. slot'[s] = [slot[s] EXCEPT !.local = slot[s].local - 1, !.left = Less1(slot[s].left)]
      BY <2>3 DEF Tick, Busy
    <3>2. slot[s].local - 1 \in Int /\ Less1(slot[s].left) \in Nat
      BY <2>1 DEF Slot
    <3>3. slot[s].local > -MaxLag
      BY <2>3 DEF Tick, Busy
    <3>. QED BY <2>1, <3>1, <3>2, <3>3 DEF Slot
  <2>. QED BY <2>2, <2>3
<1>e. \A w \in Workers : /\ eng'[w] \in Engine
                         /\ eng'[w].ph = eng[w].ph
                         /\ eng'[w].drawn = eng[w].drawn
                         /\ eng[w].ph = "idle" => eng'[w].age = eng[w].age
                         /\ eng[w].ph # "idle" => eng'[w].age = eng[w].age + 1 /\ eng[w].age < Backstop
  <2>. SUFFICES ASSUME NEW w \in Workers
                PROVE  /\ eng'[w] \in Engine
                       /\ eng'[w].ph = eng[w].ph
                       /\ eng'[w].drawn = eng[w].drawn
                       /\ eng[w].ph = "idle" => eng'[w].age = eng[w].age
                       /\ eng[w].ph # "idle" => eng'[w].age = eng[w].age + 1 /\ eng[w].age < Backstop
    OBVIOUS
  <2>1. eng[w] \in Engine /\ eng[w].age + 1 \in Nat
    BY DEF FencedCustody, TypeOK, Engine
  <2>2. CASE eng[w].ph = "idle"
    BY <2>1, <2>2 DEF Tick
  <2>3. CASE eng[w].ph # "idle"
    <3>1. eng'[w] = [eng[w] EXCEPT !.age = eng[w].age + 1] /\ eng[w].age < Backstop
      BY <2>3 DEF Tick
    <3>. QED BY <2>1, <2>3, <3>1 DEF Engine
  <2>. QED BY <2>2, <2>3
<1>u. /\ seq' = seq /\ wire' = wire /\ effects' = effects /\ target' = target /\ spent' = spent
      /\ row' \in [Jobs -> Row] /\ slot' \in [Slots -> Slot] /\ eng' \in [Workers -> Engine]
  BY <1>r, <1>s, <1>e DEF Tick
<1>f. \A j \in Jobs : /\ row'[j].st = row[j].st
                      /\ row'[j].gen = row[j].gen
                      /\ row'[j].tries = row[j].tries
                      /\ row'[j].errs = row[j].errs
  BY <1>r, ZenonT(60) DEF FencedCustody, TypeOK, Row
<1>b. \A s \in Slots : Busy(s)' <=> Busy(s)
  BY <1>s DEF Busy
<1>1. TypeOK'
  BY <1>u DEF FencedCustody, TypeOK
<1>2. Bookkeeping'
  BY <1>s, <1>e, <1>f, <1>b, TimeAssumption
     DEF FencedCustody, Bookkeeping, TypeOK, Slot, Engine
<1>6. AttemptAccounting'
  BY <1>f DEF FencedCustody, AttemptAccounting
<1>3. GensDrawn'
  BY <1>s, <1>e, <1>u, <1>f, <1>b DEF FencedCustody, GensDrawn
<1>4. GensUnique'
  BY <1>s, <1>e, <1>u, <1>b DEF FencedCustody, GensUnique
<1>5. LeaseLeads'
  <2>1. \A w \in Workers : \A c \in eng'[w].drawn :
            /\ row'[c.job].gen = c.gen
            /\ row'[c.job].st = "running"
            /\ row'[c.job].timer >= Lease - eng'[w].age
    <3>. SUFFICES ASSUME NEW w \in Workers, NEW c \in eng[w].drawn
                  PROVE  /\ row'[c.job].gen = c.gen
                         /\ row'[c.job].st = "running"
                         /\ row'[c.job].timer >= Lease - eng'[w].age
      BY <1>e
    <3>1. c.job \in Jobs /\ eng[w].ph # "idle"
      BY DEF FencedCustody, TypeOK, Engine, Claim, Bookkeeping
    <3>2. row[c.job].timer \in Nat /\ row'[c.job].timer \in Nat /\ eng[w].age \in Nat
      BY <3>1, <1>u DEF FencedCustody, TypeOK, Row, Engine
    <3>3. row[c.job].gen = c.gen /\ row[c.job].st = "running" /\ row[c.job].timer >= Lease - eng[w].age
      BY DEF FencedCustody, LeaseLeads
    <3>4. row'[c.job].timer >= row[c.job].timer - 1 /\ eng'[w].age = eng[w].age + 1
      BY <3>1, <1>r, <1>e
    <3>5. row'[c.job].timer >= Lease - eng'[w].age
      BY <3>2, <3>3, <3>4, TimeAssumption DEF Lease
    <3>. QED BY <3>1, <3>3, <3>5, <1>f
  <2>2. \A s \in Slots :
            (Busy(s)' /\ row'[slot'[s].job].gen = slot'[s].gen /\ row'[slot'[s].job].st = "running")
                => row'[slot'[s].job].timer >= slot'[s].local + Margin
    <3>. SUFFICES ASSUME NEW s \in Slots, Busy(s), row[slot[s].job].gen = slot[s].gen,
                         row[slot[s].job].st = "running"
                  PROVE  row'[slot[s].job].timer >= slot'[s].local + Margin
      BY <1>s, <1>f, <1>b DEF FencedCustody, Bookkeeping
    <3>1. slot[s].job \in Jobs /\ slot[s].local \in Int
      BY DEF FencedCustody, TypeOK, Slot, Bookkeeping
    <3>2. row[slot[s].job].timer \in Nat /\ row'[slot[s].job].timer \in Nat
      BY <3>1, <1>u DEF FencedCustody, TypeOK, Row
    <3>3. row[slot[s].job].timer >= slot[s].local + Margin
      BY DEF FencedCustody, LeaseLeads
    <3>4. row'[slot[s].job].timer >= row[slot[s].job].timer - 1 /\ slot'[s].local = slot[s].local - 1
      BY <3>1, <1>r, <1>s
    <3>. QED BY <3>1, <3>2, <3>3, <3>4, TimeAssumption
  <2>3. \A s \in Slots : slot'[s].ph = "run" =>
            /\ row'[slot'[s].job].gen = slot'[s].gen
            /\ row'[slot'[s].job].st \in {"running", "completed", "deleted"}
    BY <1>s, <1>f DEF FencedCustody, LeaseLeads, Bookkeeping, Busy
  <2>. QED BY <2>1, <2>2, <2>3 DEF LeaseLeads
<1>. QED BY <1>1, <1>2, <1>3, <1>4, <1>5, <1>6 DEF FencedCustody

\* Every row of an acknowledged claim gets a slot of its own, whose deadline
\* counts from the moment the claim was sent and so falls before the lease's.
LEMMA AckClaimKeeps ==
    ASSUME FencedCustody, NEW w \in Workers, AckClaim(w)
    PROVE  FencedCustody'
<1>1. PICK f \in Placements(w) :
          slot' = [s \in Slots |->
                      IF \E c \in eng[w].drawn : f[c] = s
                      THEN Started(CHOOSE c \in eng[w].drawn : f[c] = s, eng[w].age)
                      ELSE slot[s]]
  BY DEF AckClaim
<1>. DEFINE Placed(s) == \E c \in eng[w].drawn : f[c] = s
            At(s) == CHOOSE c \in eng[w].drawn : f[c] = s
<1>2. \A s \in Slots : Placed(s) => /\ At(s) \in eng[w].drawn
                                    /\ f[At(s)] = s
                                    /\ slot[s].ph = "free"
  BY DEF Placements, FreeSlots
<1>3. \A c \in eng[w].drawn : c \in Claim
  BY DEF FencedCustody, TypeOK, Engine
<1>4. LocalDeadline(eng[w].age) \in Nat /\ LocalDeadline(eng[w].age) = Lease - eng[w].age - Margin
  BY TimeAssumption DEF FencedCustody, TypeOK, Engine, Bookkeeping, LocalDeadline, Lease
<1>5. \A c \in Claim : /\ Started(c, eng[w].age) \in Slot
                       /\ Started(c, eng[w].age).ph = "run"
                       /\ Started(c, eng[w].age).job = c.job
                       /\ Started(c, eng[w].age).gen = c.gen
                       /\ Started(c, eng[w].age).local = LocalDeadline(eng[w].age)
  <2>. SUFFICES ASSUME NEW c \in Claim
                PROVE  /\ Started(c, eng[w].age) \in Slot
                       /\ Started(c, eng[w].age).ph = "run"
                       /\ Started(c, eng[w].age).job = c.job
                       /\ Started(c, eng[w].age).gen = c.gen
                       /\ Started(c, eng[w].age).local = LocalDeadline(eng[w].age)
    OBVIOUS
  <2>. DEFINE left == IF LocalDeadline(eng[w].age) < Timeout THEN LocalDeadline(eng[w].age) ELSE Timeout
  <2>1. left \in Nat
    BY <1>4, TimeAssumption
  <2>2. Started(c, eng[w].age) = [ph |-> "run", job |-> c.job, gen |-> c.gen, att |-> c.att,
                                  local |-> LocalDeadline(eng[w].age), left |-> left,
                                  out |-> "complete", sends |-> 0, tx |-> FALSE]
    BY DEF Started
  <2>. HIDE DEF left
  <2>. QED BY <2>1, <2>2, <1>4 DEF Slot, Claim, Transitions
<1>6. \A s \in Slots : /\ Placed(s) => slot'[s] = Started(At(s), eng[w].age)
                       /\ ~Placed(s) => slot'[s] = slot[s]
  BY <1>1
<1>7. \A s \in Slots : Placed(s) => /\ slot'[s] \in Slot
                                    /\ slot'[s].ph = "run"
                                    /\ slot'[s].job = At(s).job
                                    /\ slot'[s].gen = At(s).gen
                                    /\ slot'[s].local = Lease - eng[w].age - Margin
  BY <1>2, <1>3, <1>4, <1>5, <1>6
<1>8. \A s \in Slots : Busy(s)' => \/ Placed(s)
                                   \/ ~Placed(s) /\ Busy(s) /\ slot'[s] = slot[s]
  BY <1>6 DEF Busy
<1>9. /\ eng'[w] = [Idle EXCEPT !.st = eng[w].st]
      /\ eng'[w].drawn = {} /\ eng'[w].age = 0 /\ eng'[w].ph = "idle"
      /\ \A v \in Workers \ {w} : eng'[v] = eng[v]
      /\ eng' \in [Workers -> Engine]
  BY DEF FencedCustody, TypeOK, Engine, AckClaim, Idle
<1>10. /\ row' = row /\ seq' = seq /\ wire' = wire
       /\ effects' = effects /\ target' = target /\ spent' = spent
  BY DEF AckClaim
<1>11. \A v \in Workers : \A c \in eng'[v].drawn : v # w /\ c \in eng[v].drawn
  BY <1>9
<1>12. TypeOK'
  <2>1. slot' \in [Slots -> Slot]
    <3>1. \A s \in Slots : slot'[s] \in Slot
      BY <1>6, <1>7 DEF FencedCustody, TypeOK
    <3>. QED BY <3>1, <1>1
  <2>. QED BY <2>1, <1>9, <1>10 DEF FencedCustody, TypeOK
<1>13. Bookkeeping'
  <2>1. \A s \in Slots : Busy(s)' => slot'[s].job \in Jobs /\ slot'[s].local >= -MaxLag
    BY <1>2, <1>3, <1>4, <1>7, <1>8, TimeAssumption DEF FencedCustody, Bookkeeping, Claim
  <2>2. \A v \in Workers : /\ eng'[v].age <= Backstop
                           /\ eng'[v].ph # "executed" => eng'[v].drawn = {}
                           /\ eng'[v].ph = "idle" => eng'[v].age = 0
    <3>1. \A v \in Workers : v # w => eng'[v] = eng[v]
      BY <1>9
    <3>. SUFFICES ASSUME NEW v \in Workers
                  PROVE  /\ eng'[v].age <= Backstop
                         /\ eng'[v].ph # "executed" => eng'[v].drawn = {}
                         /\ eng'[v].ph = "idle" => eng'[v].age = 0
      OBVIOUS
    <3>2. CASE v = w
      BY <3>2, <1>9, TimeAssumption
    <3>3. CASE v # w
      BY <3>1, <3>3 DEF FencedCustody, Bookkeeping
    <3>. QED BY <3>2, <3>3
  <2>. QED BY <2>1, <2>2 DEF Bookkeeping
<1>17. AttemptAccounting'
  BY <1>10 DEF FencedCustody, AttemptAccounting
<1>14. GensDrawn'
  BY <1>2, <1>7, <1>8, <1>10, <1>11 DEF FencedCustody, GensDrawn
<1>15. GensUnique'
  <2>1. \A s, t \in Slots : Busy(s)' /\ Busy(t)' /\ slot'[s].gen = slot'[t].gen => s = t
    <3>. SUFFICES ASSUME NEW s \in Slots, NEW t \in Slots, Busy(s)', Busy(t)',
                         slot'[s].gen = slot'[t].gen
                  PROVE  s = t
      OBVIOUS
    <3>1. CASE Placed(s) /\ Placed(t)
      BY <3>1, <1>2, <1>7 DEF FencedCustody, GensUnique
    <3>2. CASE Placed(s) /\ ~Placed(t)
      BY <3>2, <1>2, <1>7, <1>8 DEF FencedCustody, GensUnique
    <3>3. CASE ~Placed(s) /\ Placed(t)
      BY <3>3, <1>2, <1>7, <1>8 DEF FencedCustody, GensUnique
    <3>4. CASE ~Placed(s) /\ ~Placed(t)
      BY <3>4, <1>8 DEF FencedCustody, GensUnique
    <3>. QED BY <3>1, <3>2, <3>3, <3>4
  <2>2. \A s \in Slots, v \in Workers : \A c \in eng'[v].drawn : Busy(s)' => c.gen # slot'[s].gen
    BY <1>2, <1>7, <1>8, <1>11 DEF FencedCustody, GensUnique
  <2>3. \A v, u \in Workers : \A c \in eng'[v].drawn, d \in eng'[u].drawn :
            c.gen = d.gen => v = u /\ c = d
    BY <1>11 DEF FencedCustody, GensUnique
  <2>4. \A m \in wire', v \in Workers : \A c \in eng'[v].drawn : m.gen # c.gen
    BY <1>10, <1>11 DEF FencedCustody, GensUnique
  <2>5. \A m \in wire', s \in Slots :
            slot'[s].ph = "run" /\ m.gen = slot'[s].gen => m.tr = "tx"
    BY <1>2, <1>6, <1>7, <1>10 DEF FencedCustody, GensUnique
  <2>. QED BY <2>1, <2>2, <2>3, <2>4, <2>5 DEF GensUnique
<1>16. LeaseLeads'
  <2>1. \A v \in Workers : \A c \in eng'[v].drawn :
            /\ row'[c.job].gen = c.gen
            /\ row'[c.job].st = "running"
            /\ row'[c.job].timer >= Lease - eng'[v].age
    BY <1>9, <1>10, <1>11 DEF FencedCustody, LeaseLeads
  <2>2. \A s \in Slots : Placed(s) => /\ row[slot'[s].job].gen = slot'[s].gen
                                      /\ row[slot'[s].job].st = "running"
                                      /\ row[slot'[s].job].timer >= slot'[s].local + Margin
    BY <1>2, <1>3, <1>7, TimeAssumption
       DEF FencedCustody, LeaseLeads, TypeOK, Row, Claim, Engine, Lease
  <2>3. \A s \in Slots :
            (Busy(s)' /\ row'[slot'[s].job].gen = slot'[s].gen /\ row'[slot'[s].job].st = "running")
                => row'[slot'[s].job].timer >= slot'[s].local + Margin
    BY <2>2, <1>8, <1>10 DEF FencedCustody, LeaseLeads
  <2>4. \A s \in Slots : slot'[s].ph = "run" =>
            /\ row'[slot'[s].job].gen = slot'[s].gen
            /\ row'[slot'[s].job].st \in {"running", "completed", "deleted"}
    BY <2>2, <1>6, <1>10 DEF FencedCustody, LeaseLeads
  <2>. QED BY <2>1, <2>3, <2>4 DEF LeaseLeads
<1>. QED BY <1>12, <1>13, <1>14, <1>15, <1>16, <1>17 DEF FencedCustody

\* A claim takes only rows that are due, so never one whose lease still covers
\* a holder, and numbers each of them with a generation nobody had.
LEMMA ExecClaimKeeps ==
    ASSUME FencedCustody, NEW w \in Workers, NEW D \in SUBSET Jobs, ExecClaim(w, D)
    PROVE  FencedCustody'
<1>. DEFINE Runs(j) == row[j].tries < MaxAttempts[w]
<1>1. PICK g \in Numberings(D) :
          /\ row' = [j \in Jobs |-> IF j \in D THEN ClaimedRow(row[j], g[j], w) ELSE row[j]]
          /\ eng' = [eng EXCEPT ![w] = [@ EXCEPT !.ph = "executed", !.drawn = Drawn(D, g, w)]]
  BY DEF ExecClaim
<1>2. Cardinality(D) \in Nat
  BY SetsAssumption, FS_CardinalityType, FS_Subset
<1>3. /\ \A j \in D : g[j] \in Nat /\ g[j] > seq /\ g[j] <= seq'
      /\ \A i, j \in D : g[i] = g[j] => i = j
      /\ seq' \in Nat /\ seq' >= seq
  BY <1>2 DEF ExecClaim, Numberings, FencedCustody, TypeOK
<1>4. /\ slot' = slot /\ wire' = wire /\ effects' = effects /\ target' = target /\ spent' = spent
  BY DEF ExecClaim
<1>5. \A j \in D : row[j] \in Row /\ row[j].timer = 0 /\ row[j].st \in {"pending", "running"}
  BY DEF ExecClaim, Due, Live, FencedCustody, TypeOK
<1>6. \A j \in D : /\ ClaimedRow(row[j], g[j], w) \in Row
                   /\ ClaimedRow(row[j], g[j], w).gen = g[j]
                   /\ Runs(j) => /\ ClaimedRow(row[j], g[j], w).st = "running"
                                 /\ ClaimedRow(row[j], g[j], w).timer = Lease
                   /\ ~Runs(j) => ClaimedRow(row[j], g[j], w).st = "failed"
                   /\ ClaimedRow(row[j], g[j], w).tries =
                          IF Runs(j) THEN row[j].tries + 1 ELSE row[j].tries
                   /\ ClaimedRow(row[j], g[j], w).errs =
                          IF row[j].st = "running" THEN row[j].errs + 1 ELSE row[j].errs
  <2>. TAKE j \in D
  <2>1. /\ Lease \in Nat /\ MaxAttempts[w] \in Nat /\ row[j] \in Row /\ g[j] \in Nat
        /\ row[j].tries \in Nat /\ row[j].errs \in Nat
        /\ row[j].tries + 1 \in Nat /\ row[j].errs + 1 \in Nat
    BY <1>3, <1>5, PolicyAssumption, TimeAssumption DEF Row, Lease
  <2>2. ~Runs(j) <=> row[j].tries >= MaxAttempts[w]
    BY <2>1
  <2>. HIDE DEF Runs
  <2>3. CASE Runs(j) /\ row[j].st = "running"
    <3>1. ClaimedRow(row[j], g[j], w) =
            [row[j] EXCEPT !.st = "running", !.timer = Lease, !.tries = row[j].tries + 1,
                           !.errs = row[j].errs + 1, !.gen = g[j]]
      BY <2>2, <2>3 DEF ClaimedRow
    <3>. QED BY <2>1, <2>3, <3>1 DEF Row, States
  <2>4. CASE Runs(j) /\ row[j].st # "running"
    <3>1. ClaimedRow(row[j], g[j], w) =
            [row[j] EXCEPT !.st = "running", !.timer = Lease, !.tries = row[j].tries + 1,
                           !.errs = row[j].errs, !.gen = g[j]]
      BY <2>2, <2>4 DEF ClaimedRow
    <3>. QED BY <2>1, <2>4, <3>1 DEF Row, States
  <2>5. CASE ~Runs(j) /\ row[j].st = "running"
    <3>1. ClaimedRow(row[j], g[j], w) =
            [row[j] EXCEPT !.st = "failed", !.timer = 0, !.tries = row[j].tries,
                           !.errs = row[j].errs + 1, !.gen = g[j]]
      BY <2>2, <2>5 DEF ClaimedRow
    <3>2. /\ ClaimedRow(row[j], g[j], w).st \in States /\ ClaimedRow(row[j], g[j], w).timer \in Nat
          /\ ClaimedRow(row[j], g[j], w).key = row[j].key /\ ClaimedRow(row[j], g[j], w).gen = g[j]
          /\ ClaimedRow(row[j], g[j], w).st = "failed"
          /\ ClaimedRow(row[j], g[j], w).tries = row[j].tries
      BY <2>1, <3>1 DEF Row, States
    <3>3. ClaimedRow(row[j], g[j], w) \in Row
      BY <2>1, <3>1, <3>2 DEF Row
    <3>. QED BY <2>1, <2>5, <3>1, <3>2, <3>3 DEF Row
  <2>6. CASE ~Runs(j) /\ row[j].st # "running"
    <3>1. ClaimedRow(row[j], g[j], w) =
            [row[j] EXCEPT !.st = "failed", !.timer = 0, !.tries = row[j].tries,
                           !.errs = row[j].errs, !.gen = g[j]]
      BY <2>2, <2>6 DEF ClaimedRow
    <3>2. /\ ClaimedRow(row[j], g[j], w).st \in States /\ ClaimedRow(row[j], g[j], w).timer \in Nat
          /\ ClaimedRow(row[j], g[j], w).key = row[j].key /\ ClaimedRow(row[j], g[j], w).gen = g[j]
          /\ ClaimedRow(row[j], g[j], w).st = "failed"
          /\ ClaimedRow(row[j], g[j], w).tries = row[j].tries
      BY <2>1, <3>1 DEF Row, States
    <3>3. ClaimedRow(row[j], g[j], w) \in Row
      BY <2>1, <3>1, <3>2 DEF Row
    <3>. QED BY <2>1, <2>6, <3>1, <3>2, <3>3 DEF Row
  <2>. QED BY <2>3, <2>4, <2>5, <2>6
<1>7. \A j \in Jobs : /\ j \in D => row'[j] = ClaimedRow(row[j], g[j], w)
                      /\ j \notin D => row'[j] = row[j]
  BY <1>1
<1>8. /\ eng'[w].drawn = {[job |-> j, gen |-> g[j], att |-> row[j].tries + 1] :
                             j \in {i \in D : Runs(i)}}
      /\ eng'[w].ph = "executed" /\ eng'[w].age = eng[w].age
      /\ eng'[w].st = eng[w].st /\ eng'[w].req = eng[w].req
      /\ \A v \in Workers \ {w} : eng'[v] = eng[v]
  BY <1>1 DEF FencedCustody, TypeOK, Engine, Drawn
<1>9. \A c \in eng'[w].drawn : /\ c \in Claim /\ c.job \in D /\ Runs(c.job)
                               /\ c = [job |-> c.job, gen |-> g[c.job], att |-> row[c.job].tries + 1]
                               /\ c.gen = g[c.job]
  BY <1>3, <1>5, <1>8 DEF Claim, Row
<1>10. \A v \in Workers : \A c \in eng'[v].drawn : v # w => c \in eng[v].drawn
  BY <1>8
<1>11. \A v \in Workers : \A c \in eng[v].drawn : c.job \in Jobs /\ c.job \notin D
  BY <1>5, TimeAssumption
     DEF FencedCustody, LeaseLeads, Bookkeeping, TypeOK, Engine, Claim, Lease
<1>12. \A s \in Slots : slot[s].ph = "run" => slot[s].job \in Jobs /\ slot[s].job \notin D
  BY <1>5, TimeAssumption
     DEF FencedCustody, LeaseLeads, Bookkeeping, Busy, TypeOK, Slot
<1>13. TypeOK'
  <2>1. row' \in [Jobs -> Row]
    <3>1. \A j \in Jobs : row'[j] \in Row
      BY <1>6, <1>7 DEF FencedCustody, TypeOK
    <3>. QED BY <3>1, <1>1
  <2>2. eng' \in [Workers -> Engine]
    <3>1. eng'[w].drawn \subseteq Claim
      BY <1>9
    <3>. QED BY <3>1, <1>1, <1>8, ZenonT(60) DEF FencedCustody, TypeOK, Engine
  <2>. QED BY <2>1, <2>2, <1>3, <1>4 DEF FencedCustody, TypeOK
<1>14. AttemptAccounting'
  <2>. SUFFICES ASSUME NEW j \in Jobs
                PROVE  /\ row'[j].st \in {"running", "completed"} => row'[j].tries = row'[j].errs + 1
                       /\ row'[j].st \in {"absent", "pending", "failed"} => row'[j].tries = row'[j].errs
    BY DEF AttemptAccounting
  <2>1. CASE j \notin D
    BY <2>1, <1>7 DEF FencedCustody, AttemptAccounting
  <2>2. CASE j \in D
    <3>1. /\ row[j].tries \in Nat /\ row[j].errs \in Nat
          /\ row[j].st = "running" => row[j].tries = row[j].errs + 1
          /\ row[j].st = "pending" => row[j].tries = row[j].errs
      BY <2>2, <1>5 DEF FencedCustody, AttemptAccounting, Row
    <3>2. CASE Runs(j)
      BY <2>2, <3>1, <3>2, <1>5, <1>6, <1>7
    <3>3. CASE ~Runs(j)
      BY <2>2, <3>1, <3>3, <1>5, <1>6, <1>7
    <3>. QED BY <3>2, <3>3
  <2>. QED BY <2>1, <2>2
<1>15. Bookkeeping'
  <2>1. \A v \in Workers : /\ eng'[v].age <= Backstop
                           /\ eng'[v].ph # "executed" => eng'[v].drawn = {}
                           /\ eng'[v].ph = "idle" => eng'[v].age = 0
    BY <1>8 DEF FencedCustody, Bookkeeping
  <2>. QED BY <2>1, <1>4 DEF FencedCustody, Bookkeeping, Busy
<1>16. GensDrawn'
  <2>1. \A j \in Jobs : row'[j].gen <= seq'
    BY <1>3, <1>6, <1>7 DEF FencedCustody, GensDrawn, TypeOK, Row
  <2>2. \A s \in Slots : Busy(s)' => slot'[s].gen <= seq'
    BY <1>3, <1>4 DEF FencedCustody, GensDrawn, TypeOK, Slot, Busy
  <2>3. \A v \in Workers : \A c \in eng'[v].drawn : c.gen <= seq'
    BY <1>3, <1>9, <1>10 DEF FencedCustody, GensDrawn, TypeOK, Engine, Claim
  <2>4. \A m \in wire' : m.gen <= seq'
    BY <1>3, <1>4 DEF FencedCustody, GensDrawn, TypeOK, Statement
  <2>. QED BY <2>1, <2>2, <2>3, <2>4 DEF GensDrawn
<1>17. GensUnique'
  <2>1. \A v \in Workers : \A c \in eng'[v].drawn :
            \/ v = w /\ c.gen > seq
            \/ v # w /\ c \in eng[v].drawn /\ c.gen <= seq
    BY <1>3, <1>9, <1>10 DEF FencedCustody, GensDrawn
  <2>2. \A s \in Slots, v \in Workers : \A c \in eng'[v].drawn : Busy(s)' => c.gen # slot'[s].gen
    BY <2>1, <1>4 DEF FencedCustody, GensDrawn, GensUnique, TypeOK, Slot, Busy
  <2>3. \A v, u \in Workers : \A c \in eng'[v].drawn, d \in eng'[u].drawn :
            c.gen = d.gen => v = u /\ c = d
    <3>. SUFFICES ASSUME NEW v \in Workers, NEW u \in Workers,
                         NEW c \in eng'[v].drawn, NEW d \in eng'[u].drawn, c.gen = d.gen
                  PROVE  v = u /\ c = d
      OBVIOUS
    <3>0. c.gen \in Nat /\ d.gen \in Nat /\ seq \in Nat
      BY <1>13 DEF FencedCustody, TypeOK, Engine, Claim
    <3>1. CASE v = w /\ u = w
      BY <3>1, <1>3, <1>9
    <3>2. CASE v # w /\ u # w
      BY <3>2, <1>10 DEF FencedCustody, GensUnique
    <3>3. CASE v = w /\ u # w
      BY <3>0, <3>3, <2>1
    <3>4. CASE v # w /\ u = w
      BY <3>0, <3>4, <2>1
    <3>. QED BY <3>1, <3>2, <3>3, <3>4
  <2>4. \A m \in wire', v \in Workers : \A c \in eng'[v].drawn : m.gen # c.gen
    BY <2>1, <1>4 DEF FencedCustody, GensDrawn, GensUnique, TypeOK, Statement
  <2>. QED BY <2>2, <2>3, <2>4, <1>4 DEF FencedCustody, GensUnique, Busy
<1>18. LeaseLeads'
  <2>1. \A v \in Workers : \A c \in eng'[v].drawn :
            /\ row'[c.job].gen = c.gen
            /\ row'[c.job].st = "running"
            /\ row'[c.job].timer >= Lease - eng'[v].age
    <3>. SUFFICES ASSUME NEW v \in Workers, NEW c \in eng'[v].drawn
                  PROVE  /\ row'[c.job].gen = c.gen
                         /\ row'[c.job].st = "running"
                         /\ row'[c.job].timer >= Lease - eng'[v].age
      OBVIOUS
    <3>1. CASE v = w
      <4>1. c.job \in D /\ Runs(c.job) /\ c.gen = g[c.job] /\ c.job \in Jobs
        BY <3>1, <1>9
      <4>2. eng'[w].age \in Nat /\ Lease \in Nat
        BY <1>8, TimeAssumption DEF FencedCustody, TypeOK, Engine, Lease
      <4>. QED BY <3>1, <4>1, <4>2, <1>6, <1>7
    <3>2. CASE v # w
      <4>1. c \in eng[v].drawn /\ c.job \in Jobs /\ c.job \notin D /\ eng'[v] = eng[v]
        BY <3>2, <1>8, <1>10, <1>11
      <4>. QED BY <4>1, <1>7 DEF FencedCustody, LeaseLeads
    <3>. QED BY <3>1, <3>2
  <2>2. \A s \in Slots :
            (Busy(s)' /\ row'[slot'[s].job].gen = slot'[s].gen /\ row'[slot'[s].job].st = "running")
                => row'[slot'[s].job].timer >= slot'[s].local + Margin
    <3>. SUFFICES ASSUME NEW s \in Slots, Busy(s), row'[slot[s].job].gen = slot[s].gen,
                         row'[slot[s].job].st = "running"
                  PROVE  row'[slot[s].job].timer >= slot[s].local + Margin
      BY <1>4 DEF Busy
    <3>1. slot[s].job \in Jobs /\ slot[s].gen <= seq /\ slot[s].gen \in Nat /\ seq \in Nat
      BY DEF FencedCustody, Bookkeeping, GensDrawn, TypeOK, Slot
    <3>2. slot[s].job \notin D
      BY <3>1, <1>3, <1>6, <1>7
    <3>. QED BY <3>1, <3>2, <1>7 DEF FencedCustody, LeaseLeads
  <2>3. \A s \in Slots : slot'[s].ph = "run" =>
            /\ row'[slot'[s].job].gen = slot'[s].gen
            /\ row'[slot'[s].job].st \in {"running", "completed", "deleted"}
    BY <1>4, <1>7, <1>12 DEF FencedCustody, LeaseLeads
  <2>. QED BY <2>1, <2>2, <2>3 DEF LeaseLeads
<1>. QED BY <1>13, <1>14, <1>15, <1>16, <1>17, <1>18 DEF FencedCustody

-----------------------------------------------------------------------------
(* The theorems *)

\* FencedCustody is inductive: it holds initially and every step of any
\* producer, worker, supervisor, database, operator or clock keeps it.
THEOREM Custody == Spec => []FencedCustody
<1>1. Init => FencedCustody
  <2>. SUFFICES ASSUME Init PROVE FencedCustody
    OBVIOUS
  <2>1. NoRow \in Row /\ Idle \in Engine
    BY DEF NoRow, Row, States, Idle, Engine
  <2>2. TypeOK
    BY <2>1, FreeType DEF Init, TypeOK
  <2>3. AttemptAccounting /\ Bookkeeping
    BY TimeAssumption DEF Init, AttemptAccounting, Bookkeeping, Busy, NoRow, Idle, Free
  <2>4. GensDrawn /\ GensUnique /\ LeaseLeads
    BY DEF Init, GensDrawn, GensUnique, LeaseLeads, Busy, NoRow, Idle, Free
  <2>. QED BY <2>2, <2>3, <2>4 DEF FencedCustody
<1>2. FencedCustody /\ [Next]_vars => FencedCustody'
  <2>. SUFFICES ASSUME FencedCustody, [Next]_vars PROVE FencedCustody'
    OBVIOUS
  <2>1. CASE Producer
    BY <2>1, EnqueueKeeps DEF Producer
  <2>2. ASSUME NEW w \in Workers, ClaimLoop(w) PROVE FencedCustody'
    BY <2>2, SendClaimKeeps, ExecClaimKeeps, AckClaimKeeps, LoseClaimKeeps DEF ClaimLoop
  <2>3. ASSUME NEW w \in Workers, Process(w) PROVE FencedCustody'
    BY <2>3, CancelAndFinishKeeps, ExitKeeps, CrashKeeps, RestartKeeps DEF Process
  <2>4. ASSUME NEW s \in Slots, Supervisor(s) PROVE FencedCustody'
    BY <2>4, HandlerEndsKeeps, CancelHandlerKeeps, CompleteInTxKeeps, SendOutcomeKeeps, AbandonKeeps
       DEF Supervisor
  <2>5. CASE Database
    BY <2>5, ExecOutcomeKeeps, DropOutcomeKeeps DEF Database
  <2>6. CASE Maintenance
    BY <2>6, DeleteExpiredKeeps DEF Maintenance
  <2>7. CASE Operator
    BY <2>7, InspectKeeps, RedriveKeeps, DiscardKeeps DEF Operator
  <2>8. CASE Tick
    BY <2>8, TickKeeps
  <2>9. CASE UNCHANGED vars
    BY <2>9 DEF vars, FencedCustody, TypeOK, AttemptAccounting, Bookkeeping, GensDrawn, GensUnique,
                LeaseLeads, Busy
  <2>. QED BY <2>1, <2>2, <2>3, <2>4, <2>5, <2>6, <2>7, <2>8, <2>9 DEF Next
<1>. QED BY <1>1, <1>2, PTL DEF Spec

\* No handler is polled under a claim that someone else has taken over.
THEOREM LeaseSafe == Spec => []LeaseCoversHandler
<1>1. FencedCustody => LeaseCoversHandler
  BY DEF FencedCustody, LeaseLeads, LeaseCoversHandler
<1>. QED BY <1>1, Custody, PTL

\* Every spent attempt is accounted for, whatever is lost or retried.
THEOREM AccountingSafe == Spec => []AttemptAccounting
<1>1. FencedCustody => AttemptAccounting
  BY DEF FencedCustody
<1>. QED BY <1>1, Custody, PTL

\* A business transaction commits at most once per job.
THEOREM EffectsSafe == Spec => []EffectOnce
<1>1. Init => EffectOnce
  BY DEF Init, EffectOnce
<1>2. FencedCustody /\ EffectOnce /\ [Next]_vars => EffectOnce'
  <2>. SUFFICES ASSUME FencedCustody, EffectOnce, [Next]_vars PROVE EffectOnce'
    OBVIOUS
  <2>. USE DEF FencedCustody, TypeOK, EffectOnce
  <2>1. CASE Producer
    BY <2>1 DEF Producer, Enqueue, NoRow, Row
  <2>2. ASSUME NEW w \in Workers, ClaimLoop(w) PROVE EffectOnce'
    <3>1. ASSUME NEW D \in SUBSET Jobs, ExecClaim(w, D) PROVE EffectOnce'
      <4>1. \A j \in Jobs : row[j].st \in {"completed", "deleted"} => row'[j] = row[j]
        BY <3>1 DEF ExecClaim, Due, Live
      <4>. QED BY <3>1, <4>1 DEF ExecClaim
    <3>. QED BY <2>2, <3>1 DEF ClaimLoop, SendClaim, AckClaim, LoseClaim
  <2>3. ASSUME NEW w \in Workers, Process(w) PROVE EffectOnce'
    BY <2>3 DEF Process, CancelAndFinish, Exit, Crash, Restart
  <2>4. ASSUME NEW s \in Slots, Supervisor(s) PROVE EffectOnce'
    BY <2>4 DEF Supervisor, HandlerEnds, CancelHandler, CompleteInTx, SendOutcome, Abandon
  <2>5. ASSUME NEW m \in wire, NEW delay \in 0..MaxDelay, NEW acked \in BOOLEAN,
               ExecOutcome(m, delay, acked)
        PROVE  EffectOnce'
    <3>0. m \in Statement /\ m.job \in Jobs
      BY DEF Statement
    <3>1. CASE ~Fenced(m)
      BY <2>5, <3>1 DEF ExecOutcome
    <3>2. CASE Fenced(m) /\ m.tr = "tx"
      <4>1. effects[m.job] = 0
        BY <3>0, <3>2 DEF Fenced
      <4>2. Applied(row[m.job], m.tr, delay).st = "completed"
        BY <3>0, <3>2 DEF Applied, Row
      <4>. QED BY <2>5, <3>0, <3>2, <4>1, <4>2 DEF ExecOutcome
    <3>3. CASE Fenced(m) /\ m.tr # "tx"
      <4>1. effects[m.job] = 0
        BY <3>0, <3>3 DEF Fenced
      <4>. QED BY <2>5, <3>0, <3>3, <4>1 DEF ExecOutcome
    <3>. QED BY <3>1, <3>2, <3>3
  <2>6. CASE Maintenance
    BY <2>6 DEF Maintenance, DeleteExpired, Row
  <2>7. CASE Operator
    BY <2>7 DEF Operator, Inspect, Redrive, Discard, LockFailed, Row
  <2>8. CASE Tick
    <3>1. \A j \in Jobs : row'[j].st = row[j].st
      BY <2>8 DEF Tick, Row
    <3>. QED BY <2>8, <3>1 DEF Tick
  <2>9. CASE UNCHANGED vars
    BY <2>9 DEF vars
  <2>. QED BY <2>1, <2>2, <2>3, <2>4, <2>5, <2>6, <2>7, <2>8, <2>9 DEF Next, Database, DropOutcome
<1>. QED BY <1>1, <1>2, Custody, PTL DEF Spec

\* A terminal outcome is left only by retention, discard or a redrive under a
\* fresh generation.
THEOREM TerminalSafe == Spec => TerminalIsFinal
<1>1. FencedCustody /\ [Next]_vars => [FinalStep]_vars
  <2>. SUFFICES ASSUME FencedCustody, Next PROVE FinalStep
    OBVIOUS
  <2>. USE DEF FencedCustody, TypeOK, FinalStep
  <2>1. CASE Producer
    BY <2>1 DEF Producer, Enqueue, Row
  <2>2. ASSUME NEW w \in Workers, ClaimLoop(w) PROVE FinalStep
    <3>1. ASSUME NEW D \in SUBSET Jobs, ExecClaim(w, D) PROVE FinalStep
      <4>1. \A j \in Jobs : row[j].st \in {"completed", "failed", "deleted"} => row'[j] = row[j]
        BY <3>1 DEF ExecClaim, Due, Live
      <4>. QED BY <4>1
    <3>. QED BY <2>2, <3>1 DEF ClaimLoop, SendClaim, AckClaim, LoseClaim
  <2>3. ASSUME NEW w \in Workers, Process(w) PROVE FinalStep
    BY <2>3 DEF Process, CancelAndFinish, Exit, Crash, Restart
  <2>4. ASSUME NEW s \in Slots, Supervisor(s) PROVE FinalStep
    BY <2>4 DEF Supervisor, HandlerEnds, CancelHandler, CompleteInTx, SendOutcome, Abandon
  <2>5. CASE Database
    <3>1. ASSUME NEW m \in wire, NEW delay \in 0..MaxDelay, NEW acked \in BOOLEAN,
                 ExecOutcome(m, delay, acked)
          PROVE  FinalStep
      <4>1. \A j \in Jobs : row[j].st # "running" => row'[j] = row[j]
        BY <3>1 DEF ExecOutcome, Fenced, Statement
      <4>. QED BY <4>1
    <3>. QED BY <2>5, <3>1 DEF Database, DropOutcome
  <2>6. CASE Maintenance
    BY <2>6 DEF Maintenance, DeleteExpired, Row
  <2>7. CASE Operator
    <3>1. CASE Redrive
      <4>1. /\ target.job \in Jobs /\ row[target.job].st = "failed"
            /\ row'[target.job].st = "pending" /\ row'[target.job].gen = seq + 1
            /\ \A j \in Jobs : j # target.job => row'[j] = row[j]
        BY <3>1 DEF Redrive, LockFailed, NoRow, Row
      <4>. QED BY <4>1
    <3>. QED BY <2>7, <3>1 DEF Operator, Inspect, Discard, LockFailed, Row
  <2>8. CASE Tick
    <3>1. \A j \in Jobs : row'[j].st = row[j].st
      BY <2>8 DEF Tick, Row
    <3>. QED BY <3>1
  <2>. QED BY <2>1, <2>2, <2>3, <2>4, <2>5, <2>6, <2>7, <2>8 DEF Next
<1>. QED BY <1>1, Custody, PTL DEF Spec, TerminalIsFinal

\* A believing handler holds its row and commits its effect once, for every set of jobs,
\* workers and slots and every lease timing (attempt.rs execute, complete_in_tx).
THEOREM EffectsHeldSafe == Spec => []EffectsHeld
BY LeaseSafe, EffectsSafe, PTL DEF EffectsHeld

-----------------------------------------------------------------------------
(* A claim and the slots it holds *)

\* What a claim asked for stays free until its answer: its rows are finitely
\* many and fit in the slots that are free now.
ClaimReserves ==
    /\ ClaimFitsSlots
    /\ \A w \in Workers : /\ IsFiniteSet(eng[w].drawn)
                          /\ eng[w].ph = "sent" => eng[w].req <= Cardinality(FreeSlots(w))

\* The rows that run are at most the rows a claim took.
LEMMA DrawnCount ==
    ASSUME NEW D \in SUBSET Jobs, NEW g, NEW w
    PROVE  IsFiniteSet(Drawn(D, g, w)) /\ Cardinality(Drawn(D, g, w)) <= Cardinality(D)
<1>. DEFINE E == {i \in D : row[i].tries < MaxAttempts[w]}
            h == [j \in E |-> [job |-> j, gen |-> g[j], att |-> row[j].tries + 1]]
<1>1. IsFiniteSet(D) /\ IsFiniteSet(E) /\ Cardinality(E) <= Cardinality(D)
  BY SetsAssumption, FS_Subset
<1>2. h \in Surjection(E, Drawn(D, g, w))
  BY DEF Drawn, Surjection
<1>3. IsFiniteSet(Drawn(D, g, w)) /\ Cardinality(Drawn(D, g, w)) <= Cardinality(E)
  BY <1>1, <1>2, FS_Surjection
<1>4. Cardinality(D) \in Nat /\ Cardinality(E) \in Nat /\ Cardinality(Drawn(D, g, w)) \in Nat
  BY <1>1, <1>3, FS_CardinalityType
<1>. QED BY <1>1, <1>3, <1>4

\* What a step does to the claim of w: nothing, or it ends it.
ClaimStays(w) == /\ eng'[w].ph = eng[w].ph
                 /\ eng'[w].req = eng[w].req
                 /\ eng'[w].drawn = eng[w].drawn
ClaimOver(w) == eng'[w].ph # "sent" /\ eng'[w].drawn = {}

\* Slots that only become free keep room for the claims that are under way.
LEMMA FreedKeepsReserves ==
    ASSUME TypeOK, ClaimReserves,
           \A s \in Slots : slot[s].ph = "free" => slot'[s].ph = "free",
           \A w \in Workers : ClaimStays(w) \/ ClaimOver(w)
    PROVE  ClaimReserves'
<1>. SUFFICES ASSUME NEW w \in Workers
              PROVE  /\ Cardinality(eng'[w].drawn) <= Cardinality(FreeSlots(w)')
                     /\ IsFiniteSet(eng'[w].drawn)
                     /\ eng'[w].ph = "sent" => eng'[w].req <= Cardinality(FreeSlots(w)')
  BY DEF ClaimReserves, ClaimFitsSlots
<1>1. IsFiniteSet(FreeSlots(w)')
  BY SetsAssumption, FS_Subset DEF FreeSlots, SlotsOf
<1>2. /\ Cardinality(FreeSlots(w)) <= Cardinality(FreeSlots(w)')
      /\ Cardinality(FreeSlots(w)) \in Nat /\ Cardinality(FreeSlots(w)') \in Nat
  <2>1. FreeSlots(w) \in SUBSET FreeSlots(w)'
    BY DEF FreeSlots, SlotsOf
  <2>. QED BY <1>1, <2>1, FS_Subset, FS_CardinalityType
<1>3. CASE ClaimOver(w)
  BY <1>2, <1>3, FS_EmptySet DEF ClaimOver
<1>4. CASE ClaimStays(w)
  <2>1. eng[w].req \in Nat /\ Cardinality(eng[w].drawn) \in Nat
    BY FS_CardinalityType DEF TypeOK, Engine, ClaimReserves
  <2>2. /\ Cardinality(eng[w].drawn) <= Cardinality(FreeSlots(w))
        /\ IsFiniteSet(eng[w].drawn)
        /\ eng[w].ph = "sent" => eng[w].req <= Cardinality(FreeSlots(w))
    BY DEF ClaimReserves, ClaimFitsSlots
  <2>. QED BY <1>2, <1>4, <2>1, <2>2 DEF ClaimStays
<1>. QED BY <1>3, <1>4

\* A claim draws at most the rows it asked for.
LEMMA ExecClaimFits ==
    ASSUME FencedCustody, ClaimReserves, NEW w \in Workers, NEW D \in SUBSET Jobs, ExecClaim(w, D)
    PROVE  ClaimReserves'
<1>1. PICK g \in Numberings(D) :
          eng' = [eng EXCEPT ![w] = [@ EXCEPT !.ph = "executed", !.drawn = Drawn(D, g, w)]]
  BY DEF ExecClaim
<1>2. \A v \in Workers : FreeSlots(v)' = FreeSlots(v)
  BY DEF ExecClaim, FreeSlots, SlotsOf
<1>3. /\ eng[w] \in Engine /\ eng[w].ph = "sent"
      /\ eng'[w].ph = "executed" /\ eng'[w].drawn = Drawn(D, g, w)
      /\ \A v \in Workers : v # w => eng'[v] = eng[v]
  BY <1>1 DEF ExecClaim, FencedCustody, TypeOK, Engine
<1>4. Cardinality(D) <= eng[w].req /\ eng[w].req <= Cardinality(FreeSlots(w))
  BY <1>3 DEF ExecClaim, ClaimReserves
<1>5. IsFiniteSet(Drawn(D, g, w)) /\ Cardinality(Drawn(D, g, w)) <= Cardinality(D)
  BY DrawnCount
<1>6. /\ Cardinality(D) \in Nat /\ Cardinality(Drawn(D, g, w)) \in Nat
      /\ eng[w].req \in Nat /\ Cardinality(FreeSlots(w)) \in Nat
  BY <1>3, <1>5, FreeSlotsCount, SetsAssumption, FS_Subset, FS_CardinalityType DEF Engine
<1>. QED BY <1>2, <1>3, <1>4, <1>5, <1>6 DEF ClaimReserves, ClaimFitsSlots

\* A claim asks for the free slots, no more.
LEMMA SendClaimFits ==
    ASSUME FencedCustody, ClaimReserves, NEW w \in Workers, SendClaim(w)
    PROVE  ClaimReserves'
<1>1. \A v \in Workers : FreeSlots(v)' = FreeSlots(v)
  BY DEF SendClaim, FreeSlots, SlotsOf
<1>2. /\ eng'[w].req = Cardinality(FreeSlots(w)) /\ eng'[w].drawn = eng[w].drawn
      /\ \A v \in Workers : v # w => eng'[v] = eng[v]
  BY DEF SendClaim, FencedCustody, TypeOK, Engine
<1>3. eng'[w].req <= Cardinality(FreeSlots(w))
  BY <1>2, FreeSlotsCount
<1>. QED BY <1>1, <1>2, <1>3 DEF ClaimReserves, ClaimFitsSlots

\* An answered claim gives its slots to its rows and asks for nothing more; the
\* slots of the other workers stay as they are.
LEMMA AckClaimFits ==
    ASSUME FencedCustody, ClaimReserves, NEW w \in Workers, AckClaim(w)
    PROVE  ClaimReserves'
<1>1. PICK f \in Placements(w) :
          slot' = [s \in Slots |->
                      IF \E c \in eng[w].drawn : f[c] = s
                      THEN Started(CHOOSE c \in eng[w].drawn : f[c] = s, eng[w].age)
                      ELSE slot[s]]
  BY DEF AckClaim
<1>2. \A v \in Workers : v # w => FreeSlots(v)' = FreeSlots(v)
  <2>1. \A c \in eng[w].drawn : Owner[f[c]] = w
    BY DEF Placements, FreeSlots, SlotsOf
  <2>2. \A s \in Slots : Owner[s] # w => slot'[s] = slot[s]
    BY <1>1, <2>1
  <2>. QED BY <2>2 DEF FreeSlots, SlotsOf
<1>3. /\ eng'[w].ph = "idle" /\ eng'[w].drawn = {}
      /\ \A v \in Workers : v # w => eng'[v] = eng[v]
  BY DEF AckClaim, FencedCustody, TypeOK, Idle
<1>4. IsFiniteSet({}) /\ Cardinality({}) = 0 /\ Cardinality(FreeSlots(w)') \in Nat
  BY FS_EmptySet, SetsAssumption, FS_Subset, FS_CardinalityType DEF FreeSlots, SlotsOf
<1>5. Cardinality(eng'[w].drawn) <= Cardinality(FreeSlots(w)') /\ IsFiniteSet(eng'[w].drawn)
  BY <1>3, <1>4
<1>6. \A v \in Workers : v # w => /\ Cardinality(eng'[v].drawn) <= Cardinality(FreeSlots(v)')
                                  /\ IsFiniteSet(eng'[v].drawn)
                                  /\ eng'[v].ph = "sent" => eng'[v].req <= Cardinality(FreeSlots(v)')
  BY <1>2, <1>3 DEF ClaimReserves, ClaimFitsSlots
<1>. QED BY <1>3, <1>5, <1>6 DEF ClaimReserves, ClaimFitsSlots

\* Every claimed row gets a slot and a supervisor, for any number of jobs, workers and
\* slots: no slot is taken between the question and its answer but by the answer.
THEOREM ClaimsFit == Spec => []ClaimFitsSlots
<1>1. Init => ClaimReserves
  <2>. SUFFICES ASSUME Init PROVE ClaimReserves
    OBVIOUS
  <2>1. \A w \in Workers : eng[w].drawn = {} /\ eng[w].ph = "idle"
    BY DEF Init, Idle
  <2>2. \A w \in Workers : Cardinality(FreeSlots(w)) \in Nat
    BY FreeSlotsCount
  <2>3. IsFiniteSet({}) /\ Cardinality({}) = 0
    BY FS_EmptySet
  <2>4. \A w \in Workers : Cardinality(eng[w].drawn) <= Cardinality(FreeSlots(w))
                          /\ IsFiniteSet(eng[w].drawn)
    <3>. TAKE w \in Workers
    <3>1. eng[w].drawn = {} /\ Cardinality(FreeSlots(w)) \in Nat
      BY <2>1, <2>2
    <3>2. 0 <= Cardinality(FreeSlots(w))
      BY <3>1
    <3>. QED BY <2>3, <3>1, <3>2
  <2>. QED BY <2>1, <2>4 DEF ClaimReserves, ClaimFitsSlots
<1>2. FencedCustody /\ ClaimReserves /\ [Next]_vars => ClaimReserves'
  <2>. SUFFICES ASSUME FencedCustody, ClaimReserves, [Next]_vars PROVE ClaimReserves'
    OBVIOUS
  <2>t. TypeOK
    BY DEF FencedCustody
  <2>1. CASE UNCHANGED <<slot, eng>>
    BY <2>1, <2>t, FreedKeepsReserves DEF ClaimStays
  <2>2. ASSUME NEW w \in Workers, LoseClaim(w) \/ Process(w) PROVE ClaimReserves'
    <3>1. \A s \in Slots : slot[s].ph = "free" => slot'[s].ph = "free"
      BY <2>2, <2>t DEF LoseClaim, Process, CancelAndFinish, Exit, Crash, Restart, Down, Free, TypeOK
    <3>2. \A v \in Workers : v # w => eng'[v] = eng[v]
      BY <2>2, <2>t DEF LoseClaim, Process, CancelAndFinish, Exit, Crash, Restart, Down, TypeOK
    <3>3. CancelAndFinish(w) => ClaimStays(w)
      BY <2>t DEF CancelAndFinish, TypeOK, Engine, ClaimStays
    <3>4. LoseClaim(w) \/ Exit(w) \/ Crash(w) \/ Restart(w) => ClaimOver(w)
      BY <2>t DEF LoseClaim, Exit, Crash, Restart, Down, Idle, TypeOK, ClaimOver
    <3>5. ClaimStays(w) \/ ClaimOver(w)
      BY <2>2, <3>3, <3>4 DEF Process
    <3>6. \A v \in Workers : ClaimStays(v) \/ ClaimOver(v)
      BY <3>2, <3>5 DEF ClaimStays
    <3>. QED BY <3>1, <3>6, <2>t, FreedKeepsReserves
  <2>3. ASSUME NEW s \in Slots, Supervisor(s) PROVE ClaimReserves'
    <3>1. eng' = eng /\ \A t \in Slots : slot[t].ph = "free" => slot'[t] = slot[t]
      BY <2>3, <2>t DEF Supervisor, HandlerEnds, CancelHandler, Ends, CompleteInTx, SendOutcome,
                        Abandon, TypeOK
    <3>. QED BY <3>1, <2>t, FreedKeepsReserves DEF ClaimStays
  <2>4. CASE Database
    <3>1. eng' = eng /\ \A t \in Slots : slot'[t] = slot[t] \/ slot'[t] = Free
      BY <2>4, <2>t DEF Database, ExecOutcome, DropOutcome, TypeOK
    <3>. QED BY <3>1, <2>t, FreedKeepsReserves DEF ClaimStays, Free
  <2>5. CASE Tick
    <3>1. /\ \A t \in Slots : slot[t].ph = "free" => slot'[t] = slot[t]
          /\ \A v \in Workers : ClaimStays(v)
      BY <2>5, <2>t DEF Tick, TypeOK, Engine, ClaimStays
    <3>. QED BY <3>1, <2>t, FreedKeepsReserves
  <2>6. ASSUME NEW w \in Workers, ClaimLoop(w) PROVE ClaimReserves'
    BY <2>6, <2>2, SendClaimFits, ExecClaimFits, AckClaimFits DEF ClaimLoop
  <2>7. CASE Producer \/ Maintenance \/ Operator \/ UNCHANGED vars
    BY <2>7, <2>1 DEF Producer, Enqueue, Maintenance, DeleteExpired, Operator, Inspect, Redrive,
                      Discard, vars
  <2>. QED BY <2>2, <2>3, <2>4, <2>5, <2>6, <2>7 DEF Next
<1>3. ClaimReserves => ClaimFitsSlots
  BY DEF ClaimReserves
<1>. QED BY <1>1, <1>2, <1>3, Custody, PTL DEF Spec
=============================================================================
