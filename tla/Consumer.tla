------------------------------- MODULE Consumer -------------------------------
(***************************************************************************)
(* The durable pull consumer of src/crates/infra-messaging/src/consumer.rs *)
(* with the broker (JetStream, external) it settles against: replicas      *)
(* reserve free slots, pull that many messages, run the handler, and       *)
(* acknowledge, ask for redelivery or transfer to the dead-letter stream.  *)
(*                                                                         *)
(* Acknowledgements, redelivery requests and dead-letter publications are  *)
(* messages: they may be lost, or reach the broker after the sender gave   *)
(* up.  Time is counted in ticks left.                                     *)
(***************************************************************************)
EXTENDS Naturals, FiniteSets, Sequences

CONSTANTS
    Msgs,
    Malformed,      \* messages whose envelope does not decode
    Replicas,       \* consumer processes that share the durable
    Slots,          \* handler and settlement slots of all replicas
    Owner,          \* the replica of a slot; concurrency is its slot count
    NoMsg,
    Delays,         \* RETRY_DELAYS
    SettleDelay,    \* SETTLEMENT_RETRY_DELAY
    ReleaseDelay,   \* RELEASE_DELAY
    Handler,        \* HANDLER_TIMEOUT
    Budget,         \* BROKER_OPERATION_BUDGET
    Slack,          \* the last second of ACK_WAIT
    Transit,        \* longest wait of a delivery between broker and slot
    Prompt,         \* TRUE: no message outlives the budget its sender waits
    MaxGen,         \* creations of the durable, bound
    MaxFaults       \* crashes, drains and forced stops, bound

MaxDeliveries == Len(Delays) + 1

\* Mutation: one settlement round trip is forgotten.
AckWaitShort == Handler + Budget + Slack

\* ACK_WAIT: the handler, a transfer and an acknowledgement.
AckWait == Handler + Budget + Budget + Slack

ASSUME ConsumerAssumption ==
    /\ NoMsg \notin Msgs
    /\ Malformed \subseteq Msgs
    /\ Owner \in [Slots -> Replicas]
    /\ IsFiniteSet(Slots)
    /\ Delays \in Seq(Nat \ {0})
    /\ {SettleDelay, ReleaseDelay, Handler, Budget, Slack} \subseteq Nat \ {0}
    /\ {Transit, MaxGen, MaxFaults} \subseteq Nat
    /\ Transit < Slack
    /\ Prompt \in BOOLEAN

VARIABLES
    src,    \* the broker's consumer state of each message
    gen,    \* creation identity of the durable
    exists, \* whether the durable exists
    stored, \* messages with a copy in the dead-letter stream
    dlq,    \* copies of each message within the stream's dedup window
    window, \* transfer identities the dead-letter stream remembers
    rep,    \* each replica's pull loop
    dlv,    \* what each slot's delivery does
    wire,   \* settlement messages on their way to the broker
    runs,   \* handler starts for each message under the current durable
    done,   \* messages whose handler succeeded
    strange,\* deliveries a replica admitted from a durable it did not create against
    faults

vars == <<src, gen, exists, stored, dlq, window, rep, dlv, wire, runs, done, strange, faults>>

-----------------------------------------------------------------------------
DeliveryOf == [msg: Msgs, dc: 1..(MaxDeliveries + 1), gen: Nat, late: 0..Transit]

\* stored: deliverable once timer is 0.  out: delivered, ack wait running.
Source == [st: {"stored", "out", "acked"}, dc: 0..(MaxDeliveries + 1), timer: Nat]

\* check: before a pull.  pull: identity confirmed.  batch: a pull is open.
\* drain: joining deliveries.  lost: ConsumerLost.
Replica == [st: {"check", "pull", "batch", "drain", "done", "lost", "down"},
            known: Nat, remaining: Nat, req: Nat, buf: SUBSET DeliveryOf]

Free == [ph |-> "free", msg |-> NoMsg, dc |-> 0, gen |-> 0, left |-> 0]

Delivery == {Free} \cup [ph: {"handle", "dlq", "ack"}, msg: Msgs,
                         dc: 1..(MaxDeliveries + 1), gen: Nat, left: Nat]

Settlement == [kind: {"ack", "nak", "dlq"}, msg: Msgs, dc: 1..(MaxDeliveries + 1),
               gen: Nat, delay: Nat, ttl: Nat]

TypeOK ==
    /\ src \in [Msgs -> Source]
    /\ gen \in Nat /\ exists \in BOOLEAN
    /\ stored \subseteq Msgs
    /\ dlq \in [Msgs -> Nat]
    /\ rep \in [Replicas -> Replica]
    /\ dlv \in [Slots -> Delivery]
    /\ wire \subseteq Settlement
    /\ runs \in [Msgs -> Nat]
    /\ done \subseteq Msgs
    /\ strange \in [Replicas -> Nat]
    /\ faults \in Nat

Fresh == [st |-> "stored", dc |-> 0, timer |-> 0]
Polling(g) == [st |-> "check", known |-> g, remaining |-> 0, req |-> 0, buf |-> {}]

Init ==
    /\ src = [m \in Msgs |-> Fresh]
    /\ gen = 1 /\ exists = TRUE
    /\ dlq = [m \in Msgs |-> 0]
    /\ stored = {}
    /\ window = {}
    /\ rep = [r \in Replicas |-> Polling(1)]
    /\ dlv = [s \in Slots |-> Free]
    /\ wire = {}
    /\ runs = [m \in Msgs |-> 0]
    /\ done = {}
    /\ strange = [r \in Replicas |-> 0]
    /\ faults = 0

-----------------------------------------------------------------------------
(* The pull loop *)

SlotsOf(r)   == {s \in Slots : Owner[s] = r}
FreeSlots(r) == {s \in SlotsOf(r) : dlv[s].ph = "free"}

\* JoinSet dropped: every delivery of the replica is aborted.
Aborted(r) == [s \in Slots |-> IF Owner[s] = r THEN Free ELSE dlv[s]]

Message(kind, d, delay) ==
    [kind |-> kind, msg |-> d.msg, dc |-> d.dc, gen |-> d.gen, delay |-> delay,
     ttl |-> IF Prompt THEN Budget ELSE 0]

\* durable_is_gone: missing, or created again by somebody else.
Gone(r) == ~exists \/ rep[r].known # gen

\* What consume does after a lookup: pull, or return ConsumerLost, which drops
\* the deliveries.  An unanswered lookup only backs off.
Continue(r, next) ==
    /\ rep' = [rep EXCEPT ![r] = IF Gone(r) THEN [Polling(rep[r].known) EXCEPT !.st = "lost"]
                                 ELSE [Polling(rep[r].known) EXCEPT !.st = next]]
    /\ dlv' = IF Gone(r) THEN Aborted(r) ELSE dlv

CheckDurable(r) ==
    /\ rep[r].st = "check"
    /\ FreeSlots(r) # {}
    /\ Continue(r, "pull")
    /\ UNCHANGED <<src, gen, exists, stored, dlq, window, wire, runs, done, strange, faults>>

\* Mutation: a pull asks for every slot, busy ones too.
SendPullForAll(r) ==
    /\ rep[r].st = "pull"
    /\ rep' = [rep EXCEPT ![r].st = "batch",
                          ![r].remaining = Cardinality(SlotsOf(r)),
                          ![r].req = IF exists THEN Cardinality(SlotsOf(r)) ELSE 0]
    /\ UNCHANGED <<src, gen, exists, stored, dlq, window, dlv, wire, runs, done, strange, faults>>

\* One pull asks for as many messages as slots are free.  It names the durable,
\* not its creation: a replacement answers it too.
SendPull(r) ==
    /\ rep[r].st = "pull"
    /\ rep' = [rep EXCEPT ![r].st = "batch",
                          ![r].remaining = Cardinality(FreeSlots(r)),
                          ![r].req = IF exists THEN Cardinality(FreeSlots(r)) ELSE 0]
    /\ UNCHANGED <<src, gen, exists, stored, dlq, window, dlv, wire, runs, done, strange, faults>>

\* The broker delivers a due message to an open pull.
Delivered(m) == [src EXCEPT ![m] = [st |-> "out", timer |-> AckWait,
                                    dc |-> IF @.dc > MaxDeliveries THEN @.dc ELSE @.dc + 1]]

Deliver(r, m) ==
    /\ exists
    /\ rep[r].req > 0
    /\ src[m].st = "stored" /\ src[m].timer = 0
    /\ src' = Delivered(m)
    /\ rep' = [rep EXCEPT ![r].req = @ - 1,
                          ![r].buf = @ \cup {[msg |-> m, dc |-> src'[m].dc, gen |-> gen, late |-> 0]}]
    /\ UNCHANGED <<gen, exists, stored, dlq, window, dlv, wire, runs, done, strange, faults>>

\* The same, but the connection loses the delivery.
LoseDelivery(r, m) ==
    /\ exists
    /\ rep[r].req > 0
    /\ src[m].st = "stored" /\ src[m].timer = 0
    /\ src' = Delivered(m)
    /\ rep' = [rep EXCEPT ![r].req = @ - 1]
    /\ UNCHANGED <<gen, exists, stored, dlq, window, dlv, wire, runs, done, strange, faults>>

\* Mutation: deliveries past the limit run the handler again.
BypassesMalformedOnly(d) == d.msg \in Malformed

\* Delivery::handle: a malformed envelope and a delivery past the limit go to
\* the dead-letter stream without a handler run.
Bypasses(d) == d.msg \in Malformed \/ d.dc > MaxDeliveries

Admit(r, d, s) ==
    /\ rep[r].st = "batch" /\ rep[r].remaining > 0
    /\ d \in rep[r].buf
    /\ s \in FreeSlots(r)
    /\ rep' = [rep EXCEPT ![r].buf = @ \ {d},
                          ![r].remaining = @ - 1,
                          ![r].st = IF rep[r].remaining = 1 THEN "check" ELSE @]
    /\ dlv' = [dlv EXCEPT ![s] = [ph |-> IF Bypasses(d) THEN "dlq" ELSE "handle",
                                  msg |-> d.msg, dc |-> d.dc, gen |-> d.gen,
                                  left |-> IF Bypasses(d) THEN Budget ELSE Handler]]
    /\ wire' = IF Bypasses(d) THEN wire \cup {Message("dlq", d, 0)} ELSE wire
    /\ runs' = IF Bypasses(d) \/ d.gen # gen THEN runs ELSE [runs EXCEPT ![d.msg] = @ + 1]
    /\ strange' = IF d.gen = rep[r].known THEN strange ELSE [strange EXCEPT ![r] = @ + 1]
    /\ UNCHANGED <<src, gen, exists, stored, dlq, window, done, faults>>

\* release: buffered deliveries nobody admitted are returned to the broker.
Release(r) == wire \cup {Message("nak", d, ReleaseDelay) : d \in rep[r].buf}

\* The broker ends the pull early, the pull fails, or the local timer ends it.
EndBatch(r) ==
    /\ rep[r].st = "batch"
    /\ wire' = Release(r)
    /\ Continue(r, "check")
    /\ UNCHANGED <<src, gen, exists, stored, dlq, window, runs, done, strange, faults>>

-----------------------------------------------------------------------------
(* One delivery: handler, then settlement *)

\* Settles slot s's delivery in phase "dlq" or "ack": one message goes out.
Settling(s, kind) ==
    /\ dlv' = [dlv EXCEPT ![s].ph = kind, ![s].left = Budget]
    /\ wire' = wire \cup {Message(kind, dlv[s], 0)}

\* redeliver_after: the request is sent, nobody waits for an answer.
RedeliverAfter(s, delay) ==
    /\ dlv' = [dlv EXCEPT ![s] = Free]
    /\ wire' = wire \cup {Message("nak", dlv[s], delay)}

\* process: retryable covers a timeout and a panic, permanent an unhandled and
\* an undecodable event.
HandlerEnds(s, outcome) ==
    /\ dlv[s].ph = "handle"
    /\ dlv[s].left = 0 => outcome = "retryable"
    /\ done' = IF outcome = "success" THEN done \cup {dlv[s].msg} ELSE done
    /\ \/ outcome = "success" /\ Settling(s, "ack")
       \/ outcome = "permanent" /\ Settling(s, "dlq")
       \/ outcome = "retryable" /\ dlv[s].dc >= MaxDeliveries /\ Settling(s, "dlq")
       \/ outcome = "retryable" /\ dlv[s].dc < MaxDeliveries
                                /\ RedeliverAfter(s, Delays[dlv[s].dc])
    /\ UNCHANGED <<src, gen, exists, stored, dlq, window, rep, runs, strange, faults>>

\* Mutation: an unanswered transfer counts as accepted.
TransferFailsAcks(s) ==
    /\ dlv[s].ph = "dlq"
    /\ Settling(s, "ack")
    /\ UNCHANGED <<src, gen, exists, stored, dlq, window, rep, runs, done, strange, faults>>

\* dead_letter: a rejected or ambiguous transfer keeps the source.
TransferFails(s) ==
    /\ dlv[s].ph = "dlq"
    /\ RedeliverAfter(s, SettleDelay)
    /\ UNCHANGED <<src, gen, exists, stored, dlq, window, rep, runs, done, strange, faults>>

\* Mutation: an unanswered acknowledgement is awaited again.
AckUnconfirmedHangs(s) ==
    /\ dlv[s].ph = "ack"
    /\ dlv' = [dlv EXCEPT ![s].left = Budget]
    /\ UNCHANGED <<src, gen, exists, stored, dlq, window, rep, wire, runs, done, strange, faults>>

\* acknowledge gives up: the delivery is over, settled or not.
AckUnconfirmed(s) ==
    /\ dlv[s].ph = "ack"
    /\ dlv' = [dlv EXCEPT ![s] = Free]
    /\ UNCHANGED <<src, gen, exists, stored, dlq, window, rep, wire, runs, done, strange, faults>>

-----------------------------------------------------------------------------
(* The broker *)

Awaits(s, e) == /\ dlv[s].ph = e.kind
                /\ dlv[s].msg = e.msg /\ dlv[s].dc = e.dc /\ dlv[s].gen = e.gen

\* An acknowledgement settles whatever delivery of the message is pending.
ExecAck(e, answered) ==
    /\ e \in wire /\ e.kind = "ack"
    /\ wire' = wire \ {e}
    /\ src' = IF exists /\ src[e.msg].dc > 0
              THEN [src EXCEPT ![e.msg] = [@ EXCEPT !.st = "acked", !.timer = 0]] ELSE src
    /\ dlv' = [s \in Slots |-> IF answered /\ Awaits(s, e) THEN Free ELSE dlv[s]]
    /\ UNCHANGED <<gen, exists, stored, dlq, window, rep, runs, done, strange, faults>>

ExecNak(e) ==
    /\ e \in wire /\ e.kind = "nak"
    /\ wire' = wire \ {e}
    /\ src' = IF exists /\ src[e.msg].st = "out"
              THEN [src EXCEPT ![e.msg] = [@ EXCEPT !.st = "stored", !.timer = e.delay]] ELSE src
    /\ UNCHANGED <<gen, exists, stored, dlq, window, rep, dlv, runs, done, strange, faults>>

\* Mutation: each delivery transfers under an identity of its own.
TransferIdPerDelivery(e) == <<e.msg, e.dc>>

\* wire::dead_letter_id: the identity of a transfer names the source record.
TransferId(e) == <<e.msg>>

\* The dead-letter stream drops a transfer whose identity it remembers.
StoreTransfer(e, answered) ==
    /\ e \in wire /\ e.kind = "dlq"
    /\ dlq' = IF TransferId(e) \in window THEN dlq ELSE [dlq EXCEPT ![e.msg] = @ + 1]
    /\ window' = window \cup {TransferId(e)}
    /\ stored' = stored \cup {e.msg}
    /\ LET waiting == {s \in Slots : answered /\ Awaits(s, e)}
       IN /\ dlv' = [s \in Slots |-> IF s \in waiting
                                     THEN [dlv[s] EXCEPT !.ph = "ack", !.left = Budget]
                                     ELSE dlv[s]]
          /\ wire' = (wire \ {e}) \cup {Message("ack", dlv[s], 0) : s \in waiting}
    /\ UNCHANGED <<src, gen, exists, rep, runs, done, strange, faults>>

\* The dedup window of a transfer ends.
Forget(m) ==
    /\ dlq[m] > 0
    /\ dlq' = [dlq EXCEPT ![m] = 0]
    /\ window' = {id \in window : id[1] # m}
    /\ UNCHANGED <<src, gen, exists, stored, rep, dlv, wire, runs, done, strange, faults>>

Lose(e) ==
    /\ e \in wire
    /\ wire' = wire \ {e}
    /\ UNCHANGED <<src, gen, exists, stored, dlq, window, rep, dlv, runs, done, strange, faults>>

\* Ack wait ran out.
Redeliver(m) ==
    /\ src[m].st = "out" /\ src[m].timer = 0
    /\ src' = [src EXCEPT ![m].st = "stored"]
    /\ UNCHANGED <<gen, exists, stored, dlq, window, rep, dlv, wire, runs, done, strange, faults>>

\* Somebody deletes the durable: its state and its waiting pulls are gone.
Delete ==
    /\ exists /\ gen < MaxGen
    /\ exists' = FALSE
    /\ rep' = [r \in Replicas |-> [rep[r] EXCEPT !.req = 0]]
    /\ UNCHANGED <<src, gen, stored, dlq, window, dlv, wire, runs, done, strange, faults>>

\* A new durable delivers the stream from its start (DeliverAll).
Created == /\ exists' = TRUE
           /\ gen' = gen + 1
           /\ src' = [m \in Msgs |-> Fresh]
           /\ runs' = [m \in Msgs |-> 0]

Recreate ==
    /\ ~exists
    /\ Created
    /\ UNCHANGED <<stored, dlq, window, rep, dlv, wire, done, strange, faults>>

-----------------------------------------------------------------------------
(* The process *)

\* ConsumerHandle::drain.
Drain(r) ==
    /\ rep[r].st \in {"check", "pull", "batch"}
    /\ faults < MaxFaults /\ faults' = faults + 1
    /\ wire' = Release(r)
    /\ rep' = [rep EXCEPT ![r] = [Polling(rep[r].known) EXCEPT !.st = "drain"]]
    /\ UNCHANGED <<src, gen, exists, stored, dlq, window, dlv, runs, done, strange>>

\* Every delivery is joined.
Finish(r) ==
    /\ rep[r].st = "drain"
    /\ FreeSlots(r) = SlotsOf(r)
    /\ rep' = [rep EXCEPT ![r].st = "done"]
    /\ UNCHANGED <<src, gen, exists, stored, dlq, window, dlv, wire, runs, done, strange, faults>>

\* ConsumerHandle::abort, or the process is killed.
Abort(r) ==
    /\ rep[r].st \in {"check", "pull", "batch", "drain"}
    /\ faults < MaxFaults /\ faults' = faults + 1
    /\ rep' = [rep EXCEPT ![r] = [Polling(rep[r].known) EXCEPT !.st = "down"]]
    /\ dlv' = Aborted(r)
    /\ UNCHANGED <<src, gen, exists, stored, dlq, window, wire, runs, done, strange>>

\* A fresh process: Consumer::admit creates the durable or adopts the one there is.
Start(r) ==
    /\ rep[r].st \in {"done", "lost", "down"}
    /\ IF exists THEN UNCHANGED <<exists, gen, src, runs>> ELSE Created
    /\ rep' = [rep EXCEPT ![r] = Polling(gen')]
    /\ strange' = [strange EXCEPT ![r] = 0]
    /\ UNCHANGED <<stored, dlq, window, dlv, wire, done, faults>>

-----------------------------------------------------------------------------
Less1(n) == IF n > 0 THEN n - 1 ELSE 0

\* Timers fire when they run out; with Prompt, so do messages.
Tick ==
    /\ \A s \in Slots : dlv[s].ph # "free" => dlv[s].left > 0
    /\ \A m \in Msgs : src[m].st = "out" => src[m].timer > 0
    /\ Prompt => /\ \A e \in wire : e.ttl > 0
                 /\ \A r \in Replicas : \A d \in rep[r].buf : d.late < Transit
    /\ src' = [m \in Msgs |-> [src[m] EXCEPT !.timer = Less1(@)]]
    /\ dlv' = [s \in Slots |-> IF dlv[s].ph = "free" THEN dlv[s] ELSE [dlv[s] EXCEPT !.left = Less1(@)]]
    /\ wire' = {[e EXCEPT !.ttl = Less1(@)] : e \in wire}
    /\ rep' = [r \in Replicas |->
                  [rep[r] EXCEPT !.buf = {[d EXCEPT !.late = IF Prompt THEN @ + 1 ELSE 0] : d \in @}]]
    /\ UNCHANGED <<gen, exists, stored, dlq, window, runs, done, strange, faults>>

PullLoop(r) == CheckDurable(r) \/ SendPull(r) \/ EndBatch(r)
                   \/ \E d \in rep[r].buf, s \in Slots : Admit(r, d, s)

Process(s) == \/ \E outcome \in {"success", "permanent", "retryable"} : HandlerEnds(s, outcome)
              \/ TransferFails(s)
              \/ AckUnconfirmed(s)

Broker == \/ \E r \in Replicas, m \in Msgs : Deliver(r, m) \/ LoseDelivery(r, m)
          \/ \E e \in wire : \/ \E answered \in BOOLEAN :
                                   ExecAck(e, answered) \/ StoreTransfer(e, answered)
                             \/ ExecNak(e)
                             \/ Lose(e)
          \/ \E m \in Msgs : Redeliver(m) \/ Forget(m)
          \/ Delete
          \/ Recreate

Lifecycle(r) == Drain(r) \/ Finish(r) \/ Abort(r) \/ Start(r)

Next == \/ \E r \in Replicas : PullLoop(r) \/ Lifecycle(r)
        \/ \E s \in Slots : Process(s)
        \/ Broker
        \/ Tick

Spec == Init /\ [][Next]_vars

-----------------------------------------------------------------------------
(* Safety *)

Accounted(m) == m \in done \cup stored

\* A source is settled only when its handler succeeded or the dead-letter stream
\* holds a copy, and no acknowledgement is sent or on its way before that, whatever
\* acknowledgements and transfers are lost, late or repeated (dead_letter and
\* process: publish first, then acknowledge).
SettlementOrder ==
    /\ TypeOK
    /\ \A m \in Msgs : src[m].st = "acked" => Accounted(m)
    /\ \A s \in Slots : dlv[s].ph = "ack" => Accounted(dlv[s].msg)
    /\ \A e \in wire : e.kind = "ack" => Accounted(e.msg)

\* One durable runs the handler of a message at most MAX_DELIVERIES times,
\* lost settlements and aborted replicas included (handle, MAX_DELIVERIES).
HandlerBound == \A m \in Msgs : runs[m] <= MaxDeliveries

\* Retried transfers leave one copy in the dead-letter stream's dedup window
\* (wire::dead_letter_id names the source record, not the delivery).
OneCopy == \A m \in Msgs : dlq[m] <= 1

\* Pulls are bounded: deliveries in the client plus those the open pull may still
\* bring never exceed the free slots, so none spends its ACK_WAIT behind a handler
\* (consume), and of a durable that replaced its own a replica admits at most one
\* batch (durable_is_gone before every pull).
PullsBounded == \A r \in Replicas :
    /\ rep[r].req + Cardinality(rep[r].buf) <= Cardinality(FreeSlots(r))
    /\ strange[r] <= Cardinality(SlotsOf(r))

\* When the network keeps its budgets and nobody replaced the durable, a message
\* is worked on by one slot at a time: ACK_WAIT outlasts the handler and both
\* settlement round trips.
OneWorker == gen = 1 => \A s, t \in Slots :
    dlv[s].ph # "free" /\ dlv[s].msg = dlv[t].msg => s = t

-----------------------------------------------------------------------------
(* Liveness: replicas and the broker keep running, and a message sent again *)
(* and again arrives while its sender waits.  Nothing makes a handler succeed. *)

Fairness ==
    /\ WF_vars(Tick)
    /\ \A r \in Replicas :
          /\ WF_vars(CheckDurable(r) \/ SendPull(r))
          /\ WF_vars(EndBatch(r))
          /\ SF_vars(\E d \in rep[r].buf, s \in Slots : Admit(r, d, s))
          /\ WF_vars(Finish(r) \/ Start(r))
          /\ \A m \in Msgs : SF_vars(Deliver(r, m))
    /\ \A s \in Slots : WF_vars(\E outcome \in {"success", "permanent", "retryable"} :
                                    HandlerEnds(s, outcome))
    /\ \A s \in Slots : WF_vars(dlv[s].left = 0 /\ (TransferFails(s) \/ AckUnconfirmed(s)))
    /\ \A m \in Msgs :
          /\ WF_vars(Redeliver(m))
          /\ SF_vars(\E e \in wire : e.msg = m /\ ExecAck(e, TRUE))
          /\ SF_vars(\E e \in wire : /\ e.msg = m
                                    /\ \E s \in Slots : Awaits(s, e)
                                    /\ StoreTransfer(e, TRUE))
          /\ WF_vars(\E e \in wire : /\ e.msg = m
                                    /\ \/ \E a \in BOOLEAN : ExecAck(e, a) \/ StoreTransfer(e, a)
                                       \/ ExecNak(e) \/ Lose(e))

FairSpec == Spec /\ Fairness

\* Every message ends: handled or transferred, and acknowledged, though the
\* durable is replaced, deliveries and settlements are lost and the handler fails.
EveryMessageSettled == \A m \in Msgs : <>[](src[m].st = "acked")

\* When the network keeps its budgets the work on a message is bounded in every way
\* the limits promise: one slot at a time, at most MAX_DELIVERIES runs of its
\* handler, one dead-letter copy (consumer.rs handle, dead_letter; ACK_WAIT).
WorkBounded == OneWorker /\ HandlerBound /\ OneCopy
=============================================================================
