--------------------------- MODULE ConsumerProofs ---------------------------
(***************************************************************************)
(* The consumer, for every number of messages, replicas and slots and      *)
(* every timing. Settlement comes last (SettlementOrder); pulls stay       *)
(* within the slots that asked for them (PullInv), a run within its        *)
(* handler bound (RunInv) and copies apart (CopyInv). That the work of a   *)
(* message is bounded needs a prompt process and server (WorkInv under     *)
(* Prompt).                                                                *)
(*                                                                         *)
(* The records are typed once, by the lemmas on single records; the step   *)
(* lemmas treat them as opaque.                                            *)
(***************************************************************************)
EXTENDS Consumer, FiniteSetTheorems, TLAPS

LEMMA Numbers == /\ MaxDeliveries \in Nat \ {0}
                 /\ AckWait \in Nat
                 /\ \A i \in Nat : 0 < i /\ i < MaxDeliveries => Delays[i] \in Nat
<1>1. Delays \in Seq(Nat \ {0}) /\ Len(Delays) \in Nat
  BY ConsumerAssumption
<1>2. Handler \in Nat /\ Budget \in Nat /\ Slack \in Nat
  BY ConsumerAssumption
<1>3. \A i \in Nat : 0 < i /\ i < Len(Delays) + 1 => Delays[i] \in Nat
  BY <1>1
<1>. QED BY <1>1, <1>2, <1>3 DEF MaxDeliveries, AckWait

LEMMA DeliveryBusy == ASSUME NEW x \in Delivery, x.ph # "free"
    PROVE  /\ x.msg \in Msgs /\ x.dc \in 1..(MaxDeliveries + 1) /\ x.gen \in Nat /\ x.left \in Nat
           /\ \A ph \in {"dlq", "ack"}, left \in Nat : [x EXCEPT !.ph = ph, !.left = left] \in Delivery
           /\ \A left \in Nat : [x EXCEPT !.left = left] \in Delivery
<1>. DEFINE Busy == [ph: {"handle", "dlq", "ack"}, msg: Msgs,
                     dc: 1..(MaxDeliveries + 1), gen: Nat, left: Nat]
<1>1. x \in Busy
  BY DEF Delivery, Free
<1>2. Busy \subseteq Delivery
  BY DEF Delivery
<1>3. x.msg \in Msgs /\ x.dc \in 1..(MaxDeliveries + 1) /\ x.gen \in Nat /\ x.left \in Nat
  BY <1>1
<1>4. \A ph \in {"dlq", "ack"}, left \in Nat : [x EXCEPT !.ph = ph, !.left = left] \in Busy
  BY <1>1
<1>5. \A left \in Nat : [x EXCEPT !.left = left] \in Busy
  BY <1>1
<1>. HIDE DEF Busy
<1>. QED BY <1>2, <1>3, <1>4, <1>5

LEMMA FreeType == Free \in Delivery /\ Free.ph = "free"
BY DEF Delivery, Free

LEMMA MessageType ==
    ASSUME NEW kind \in {"ack", "nak", "dlq"}, NEW d, NEW delay \in Nat,
           d.msg \in Msgs, d.dc \in 1..(MaxDeliveries + 1), d.gen \in Nat
    PROVE  /\ Message(kind, d, delay) \in Settlement
           /\ Message(kind, d, delay).kind = kind
           /\ Message(kind, d, delay).msg = d.msg
BY ConsumerAssumption DEF Message, Settlement

LEMMA PollingType == ASSUME NEW g \in Nat
    PROVE  /\ Polling(g) \in Replica
           /\ \A st \in {"check", "pull", "drain", "lost", "down"} : [Polling(g) EXCEPT !.st = st] \in Replica
BY DEF Polling, Replica

LEMMA ReplicaFields == \A x \in Replica :
    x.known \in Nat /\ x.buf \subseteq DeliveryOf /\ x.remaining \in Nat /\ x.req \in Nat
BY DEF Replica

LEMMA DeliveryFields == \A d \in DeliveryOf :
    d.msg \in Msgs /\ d.dc \in 1..(MaxDeliveries + 1) /\ d.gen \in Nat /\ d.late \in 0..Transit
BY DEF DeliveryOf

LEMMA ReplicaType == ASSUME NEW x \in Replica
    PROVE  /\ \A n \in Nat : [x EXCEPT !.req = n] \in Replica
           /\ \A n \in Nat, B \in SUBSET DeliveryOf : [x EXCEPT !.req = n, !.buf = B] \in Replica
           /\ \A B \in SUBSET DeliveryOf : [x EXCEPT !.buf = B] \in Replica
           /\ \A n \in Nat, B \in SUBSET DeliveryOf, st \in {"batch", "check"} :
                 [x EXCEPT !.buf = B, !.remaining = n, !.st = st] \in Replica
           /\ \A n, k \in Nat : [x EXCEPT !.st = "batch", !.remaining = n, !.req = k] \in Replica
           /\ [x EXCEPT !.st = "done"] \in Replica
BY DEF Replica

LEMMA SourceFields == \A x \in Source : x.dc \in 0..(MaxDeliveries + 1) /\ x.timer \in Nat
BY DEF Source

LEMMA SourceSet == \A x \in Source, st \in {"stored", "acked"}, n \in Nat :
    /\ [x EXCEPT !.st = st, !.timer = n] \in Source
    /\ [x EXCEPT !.st = st, !.timer = n].st = st
BY DEF Source

LEMMA SourceStored == \A x \in Source :
    [x EXCEPT !.st = "stored"] \in Source /\ [x EXCEPT !.st = "stored"].st = "stored"
BY DEF Source

LEMMA SourceTimer == \A x \in Source, n \in Nat :
    [x EXCEPT !.timer = n] \in Source /\ [x EXCEPT !.timer = n].st = x.st
BY DEF Source

\* A delivery the broker makes is well typed and leaves the message unsettled.
LEMMA DeliveredType == ASSUME TypeOK, NEW m \in Msgs
    PROVE  /\ Delivered(m) \in [Msgs -> Source]
           /\ Delivered(m)[m].dc \in 1..(MaxDeliveries + 1)
           /\ \A k \in Msgs : Delivered(m)[k].st = "acked" => src[k].st = "acked"
<1>1. src[m] \in Source /\ src[m].dc \in 0..(MaxDeliveries + 1)
  BY SourceFields DEF TypeOK
<1>2. (IF src[m].dc > MaxDeliveries THEN src[m].dc ELSE src[m].dc + 1) \in 1..(MaxDeliveries + 1)
  BY <1>1, Numbers
<1>3. \A n \in 1..(MaxDeliveries + 1) : [st |-> "out", timer |-> AckWait, dc |-> n] \in Source
  BY Numbers DEF Source
<1>. QED BY <1>2, <1>3 DEF TypeOK, Delivered

LEMMA CardType == \A r \in Replicas : Cardinality(FreeSlots(r)) \in Nat
<1>1. \A r \in Replicas : FreeSlots(r) \subseteq Slots
  BY DEF FreeSlots, SlotsOf
<1>. QED BY <1>1, ConsumerAssumption, FS_Subset, FS_CardinalityType

LEMMA AbortedType == ASSUME TypeOK, NEW r \in Replicas
    PROVE  /\ Aborted(r) \in [Slots -> Delivery]
           /\ \A s \in Slots : Aborted(r)[s].ph = "ack" => Aborted(r)[s] = dlv[s]
BY FreeType DEF TypeOK, Aborted

LEMMA ReleaseType == ASSUME TypeOK, NEW r \in Replicas
    PROVE  /\ Release(r) \subseteq Settlement
           /\ \A e \in Release(r) : e.kind = "ack" => e \in wire
<1>1. \A d \in rep[r].buf : d.msg \in Msgs /\ d.dc \in 1..(MaxDeliveries + 1) /\ d.gen \in Nat
  BY ReplicaFields, DeliveryFields DEF TypeOK
<1>2. \A d \in rep[r].buf : /\ Message("nak", d, ReleaseDelay) \in Settlement
                            /\ Message("nak", d, ReleaseDelay).kind = "nak"
  BY <1>1, MessageType, ConsumerAssumption
<1>. QED BY <1>2 DEF TypeOK, Release

LEMMA CheckDurableKeeps ==
    ASSUME SettlementOrder, NEW r \in Replicas, CheckDurable(r)
    PROVE  SettlementOrder'
<1>1. TypeOK'
  <2>1. rep[r].known \in Nat
    BY ReplicaFields DEF SettlementOrder, TypeOK
  <2>2. rep' \in [Replicas -> Replica]
    BY <2>1, PollingType DEF SettlementOrder, TypeOK, CheckDurable, Continue
  <2>3. dlv' \in [Slots -> Delivery]
    BY AbortedType DEF SettlementOrder, TypeOK, CheckDurable, Continue
  <2>. QED BY <2>1, <2>2, <2>3 DEF SettlementOrder, TypeOK, CheckDurable
<1>2. (\A m \in Msgs : src[m].st = "acked" => Accounted(m))'
  BY DEF SettlementOrder, Accounted, CheckDurable
<1>3. (\A s \in Slots : dlv[s].ph = "ack" => Accounted(dlv[s].msg))'
  BY AbortedType DEF SettlementOrder, Accounted, CheckDurable, Continue
<1>4. (\A e \in wire : e.kind = "ack" => Accounted(e.msg))'
  BY DEF SettlementOrder, Accounted, CheckDurable
<1>. QED BY <1>1, <1>2, <1>3, <1>4 DEF SettlementOrder

LEMMA SendPullKeeps ==
    ASSUME SettlementOrder, NEW r \in Replicas, SendPull(r)
    PROVE  SettlementOrder'
<1>1. TypeOK'
  <2>1. rep' \in [Replicas -> Replica]
    BY CardType, ReplicaType DEF SettlementOrder, TypeOK, SendPull
  <2>. QED BY <2>1 DEF SettlementOrder, TypeOK, SendPull
<1>2. (\A m \in Msgs : src[m].st = "acked" => Accounted(m))'
  BY DEF SettlementOrder, Accounted, SendPull
<1>3. (\A s \in Slots : dlv[s].ph = "ack" => Accounted(dlv[s].msg))'
  BY DEF SettlementOrder, Accounted, SendPull
<1>4. (\A e \in wire : e.kind = "ack" => Accounted(e.msg))'
  BY DEF SettlementOrder, Accounted, SendPull
<1>. QED BY <1>1, <1>2, <1>3, <1>4 DEF SettlementOrder

LEMMA DeliverKeeps ==
    ASSUME SettlementOrder, NEW r \in Replicas, NEW m \in Msgs, Deliver(r, m)
    PROVE  SettlementOrder'
<1>1. TypeOK'
  <2>1. [msg |-> m, dc |-> Delivered(m)[m].dc, gen |-> gen, late |-> 0] \in DeliveryOf
    <3>1. Delivered(m)[m].dc \in 1..(MaxDeliveries + 1)
      BY DeliveredType DEF SettlementOrder
    <3>2. gen \in Nat /\ 0 \in 0..Transit
      BY ConsumerAssumption DEF SettlementOrder, TypeOK
    <3>. QED BY <3>1, <3>2, ZenonT(60) DEF DeliveryOf
  <2>2. rep[r].req - 1 \in Nat
    BY ReplicaFields DEF SettlementOrder, TypeOK, Deliver
  <2>a. rep[r].buf \cup {[msg |-> m, dc |-> Delivered(m)[m].dc, gen |-> gen, late |-> 0]} \in SUBSET DeliveryOf
    BY <2>1, ReplicaFields DEF SettlementOrder, TypeOK
  <2>b. rep' = [rep EXCEPT ![r] = [rep[r] EXCEPT !.req = rep[r].req - 1,
            !.buf = rep[r].buf \cup {[msg |-> m, dc |-> Delivered(m)[m].dc, gen |-> gen, late |-> 0]}]]
    BY DEF SettlementOrder, TypeOK, Deliver
  <2>3. rep' \in [Replicas -> Replica]
    BY <2>a, <2>b, <2>2, ReplicaType DEF SettlementOrder, TypeOK
  <2>4. src' \in [Msgs -> Source]
    BY DeliveredType DEF SettlementOrder, Deliver
  <2>. QED BY <2>1, <2>2, <2>3, <2>4 DEF SettlementOrder, TypeOK, Deliver
<1>2. (\A x \in Msgs : src[x].st = "acked" => Accounted(x))'
  BY DeliveredType DEF SettlementOrder, Accounted, Deliver
<1>3. (\A s \in Slots : dlv[s].ph = "ack" => Accounted(dlv[s].msg))'
  BY DEF SettlementOrder, Accounted, Deliver
<1>4. (\A e \in wire : e.kind = "ack" => Accounted(e.msg))'
  BY DEF SettlementOrder, Accounted, Deliver
<1>. QED BY <1>1, <1>2, <1>3, <1>4 DEF SettlementOrder

LEMMA LoseDeliveryKeeps ==
    ASSUME SettlementOrder, NEW r \in Replicas, NEW m \in Msgs, LoseDelivery(r, m)
    PROVE  SettlementOrder'
<1>1. TypeOK'
  <2>1. rep[r].req - 1 \in Nat
    BY ReplicaFields DEF SettlementOrder, TypeOK, LoseDelivery
  <2>2. rep' \in [Replicas -> Replica]
    BY <2>1, ReplicaType DEF SettlementOrder, TypeOK, LoseDelivery
  <2>3. src' \in [Msgs -> Source]
    BY DeliveredType DEF SettlementOrder, LoseDelivery
  <2>. QED BY <2>1, <2>2, <2>3 DEF SettlementOrder, TypeOK, LoseDelivery
<1>2. (\A x \in Msgs : src[x].st = "acked" => Accounted(x))'
  BY DeliveredType DEF SettlementOrder, Accounted, LoseDelivery
<1>3. (\A s \in Slots : dlv[s].ph = "ack" => Accounted(dlv[s].msg))'
  BY DEF SettlementOrder, Accounted, LoseDelivery
<1>4. (\A e \in wire : e.kind = "ack" => Accounted(e.msg))'
  BY DEF SettlementOrder, Accounted, LoseDelivery
<1>. QED BY <1>1, <1>2, <1>3, <1>4 DEF SettlementOrder

LEMMA AdmitKeeps ==
    ASSUME SettlementOrder, NEW r \in Replicas, NEW d \in rep[r].buf, NEW s \in Slots, Admit(r, d, s)
    PROVE  SettlementOrder'
<1>0. /\ d.msg \in Msgs /\ d.dc \in 1..(MaxDeliveries + 1) /\ d.gen \in Nat
      /\ Message("dlq", d, 0) \in Settlement /\ Message("dlq", d, 0).kind = "dlq"
  <2>1. d.msg \in Msgs /\ d.dc \in 1..(MaxDeliveries + 1) /\ d.gen \in Nat
    BY ReplicaFields, DeliveryFields DEF SettlementOrder, TypeOK
  <2>. QED BY <2>1, MessageType
<1>1. TypeOK'
  <2>1. rep[r].remaining - 1 \in Nat /\ rep[r].buf \ {d} \in SUBSET DeliveryOf
    BY ReplicaFields DEF SettlementOrder, TypeOK, Admit
  <2>2. rep' \in [Replicas -> Replica]
    BY <2>1, ReplicaType DEF SettlementOrder, TypeOK, Admit
  <2>3. dlv'[s] \in Delivery
    BY <1>0, ConsumerAssumption DEF SettlementOrder, TypeOK, Admit, Delivery
  <2>4. dlv' \in [Slots -> Delivery]
    BY <2>3 DEF SettlementOrder, TypeOK, Admit
  <2>5. wire' \subseteq Settlement
    BY <1>0 DEF SettlementOrder, TypeOK, Admit
  <2>6. runs' \in [Msgs -> Nat] /\ strange' \in [Replicas -> Nat]
    BY <1>0 DEF SettlementOrder, TypeOK, Admit
  <2>. QED BY <2>1, <2>2, <2>3, <2>4, <2>5, <2>6 DEF SettlementOrder, TypeOK, Admit
<1>2. (\A m \in Msgs : src[m].st = "acked" => Accounted(m))'
  BY DEF SettlementOrder, Accounted, Admit
<1>3. (\A u \in Slots : dlv[u].ph = "ack" => Accounted(dlv[u].msg))'
  BY DEF SettlementOrder, Accounted, TypeOK, Admit
<1>4. (\A e \in wire : e.kind = "ack" => Accounted(e.msg))'
  BY <1>0 DEF SettlementOrder, Accounted, Admit
<1>. QED BY <1>1, <1>2, <1>3, <1>4 DEF SettlementOrder

LEMMA EndBatchKeeps ==
    ASSUME SettlementOrder, NEW r \in Replicas, EndBatch(r)
    PROVE  SettlementOrder'
<1>1. TypeOK'
  <2>1. rep[r].known \in Nat
    BY ReplicaFields DEF SettlementOrder, TypeOK
  <2>2. rep' \in [Replicas -> Replica]
    BY <2>1, PollingType DEF SettlementOrder, TypeOK, EndBatch, Continue
  <2>3. dlv' \in [Slots -> Delivery]
    BY AbortedType DEF SettlementOrder, TypeOK, EndBatch, Continue
  <2>4. wire' \subseteq Settlement
    BY ReleaseType DEF SettlementOrder, EndBatch
  <2>. QED BY <2>1, <2>2, <2>3, <2>4 DEF SettlementOrder, TypeOK, EndBatch
<1>2. (\A m \in Msgs : src[m].st = "acked" => Accounted(m))'
  BY DEF SettlementOrder, Accounted, EndBatch
<1>3. (\A s \in Slots : dlv[s].ph = "ack" => Accounted(dlv[s].msg))'
  BY AbortedType DEF SettlementOrder, Accounted, EndBatch, Continue
<1>4. (\A e \in wire : e.kind = "ack" => Accounted(e.msg))'
  BY ReleaseType DEF SettlementOrder, Accounted, EndBatch
<1>. QED BY <1>1, <1>2, <1>3, <1>4 DEF SettlementOrder

LEMMA SettlingKeeps ==
    ASSUME TypeOK, NEW s \in Slots, dlv[s].ph # "free", NEW kind \in {"dlq", "ack"}, Settling(s, kind)
    PROVE  /\ dlv' \in [Slots -> Delivery] /\ wire' \subseteq Settlement
           /\ \A t \in Slots : dlv'[t].ph = "ack" => dlv'[t].msg = dlv[t].msg /\ ((t = s /\ kind = "ack") \/ dlv[t].ph = "ack")
           /\ \A e \in wire' : e.kind = "ack" => e \in wire \/ (kind = "ack" /\ e.msg = dlv[s].msg)
<1>1. /\ dlv[s].msg \in Msgs /\ dlv[s].dc \in 1..(MaxDeliveries + 1) /\ dlv[s].gen \in Nat
      /\ [dlv[s] EXCEPT !.ph = kind, !.left = Budget] \in Delivery
  BY DeliveryBusy, ConsumerAssumption DEF TypeOK
<1>2. /\ Message(kind, dlv[s], 0) \in Settlement
      /\ Message(kind, dlv[s], 0).kind = kind /\ Message(kind, dlv[s], 0).msg = dlv[s].msg
  BY <1>1, MessageType
<1>3. dlv' = [dlv EXCEPT ![s] = [dlv[s] EXCEPT !.ph = kind, !.left = Budget]]
  BY DEF TypeOK, Settling
<1>4. [dlv[s] EXCEPT !.ph = kind, !.left = Budget].ph = kind /\ [dlv[s] EXCEPT !.ph = kind, !.left = Budget].msg = dlv[s].msg
  BY DEF TypeOK, Delivery, Free
<1>. QED BY <1>1, <1>2, <1>3, <1>4 DEF TypeOK, Settling

LEMMA RedeliverAfterKeeps ==
    ASSUME TypeOK, NEW s \in Slots, dlv[s].ph # "free", NEW delay \in Nat, RedeliverAfter(s, delay)
    PROVE  /\ dlv' \in [Slots -> Delivery] /\ wire' \subseteq Settlement
           /\ \A t \in Slots : dlv'[t].ph = "ack" => dlv'[t] = dlv[t]
           /\ \A e \in wire' : e.kind = "ack" => e \in wire
<1>1. dlv[s].msg \in Msgs /\ dlv[s].dc \in 1..(MaxDeliveries + 1) /\ dlv[s].gen \in Nat
  BY DeliveryBusy DEF TypeOK
<1>2. Message("nak", dlv[s], delay) \in Settlement /\ Message("nak", dlv[s], delay).kind = "nak"
  BY <1>1, MessageType
<1>. QED BY <1>2, FreeType DEF TypeOK, RedeliverAfter

LEMMA HandlerEndsKeeps ==
    ASSUME SettlementOrder, NEW s \in Slots, NEW outcome \in {"success", "permanent", "retryable"}, HandlerEnds(s, outcome)
    PROVE  SettlementOrder'
<1>0. /\ dlv[s] \in Delivery /\ dlv[s].ph # "free"
      /\ dlv[s].msg \in Msgs /\ dlv[s].dc \in 1..(MaxDeliveries + 1) /\ dlv[s].gen \in Nat
  BY DeliveryBusy DEF SettlementOrder, TypeOK, HandlerEnds
<1>a. /\ dlv' \in [Slots -> Delivery] /\ wire' \subseteq Settlement
      /\ \A t \in Slots : dlv'[t].ph = "ack" => dlv'[t].msg = dlv[t].msg /\ ((t = s /\ outcome = "success") \/ dlv[t].ph = "ack")
      /\ \A e \in wire' : e.kind = "ack" => e \in wire \/ (outcome = "success" /\ e.msg = dlv[s].msg)
  <2>1. CASE outcome = "success" /\ Settling(s, "ack")
    BY <1>0, <2>1, SettlingKeeps DEF SettlementOrder
  <2>2. CASE Settling(s, "dlq")
    BY <1>0, <2>2, SettlingKeeps DEF SettlementOrder
  <2>3. CASE dlv[s].dc < MaxDeliveries /\ RedeliverAfter(s, Delays[dlv[s].dc])
    <3>1. Delays[dlv[s].dc] \in Nat
      BY <1>0, <2>3, Numbers
    <3>. QED BY <1>0, <2>3, <3>1, RedeliverAfterKeeps DEF SettlementOrder
  <2>. QED BY <2>1, <2>2, <2>3 DEF HandlerEnds
<1>b. done \subseteq done' /\ done' \subseteq Msgs /\ (outcome = "success" => dlv[s].msg \in done') /\ stored' = stored
  BY <1>0 DEF SettlementOrder, TypeOK, HandlerEnds
<1>1. TypeOK'
  BY <1>a, <1>b DEF SettlementOrder, TypeOK, HandlerEnds
<1>2. (\A m \in Msgs : src[m].st = "acked" => Accounted(m))'
  BY <1>b DEF SettlementOrder, Accounted, HandlerEnds
<1>3. (\A t \in Slots : dlv[t].ph = "ack" => Accounted(dlv[t].msg))'
  BY <1>a, <1>b DEF SettlementOrder, Accounted
<1>4. (\A e \in wire : e.kind = "ack" => Accounted(e.msg))'
  BY <1>a, <1>b DEF SettlementOrder, Accounted
<1>. QED BY <1>1, <1>2, <1>3, <1>4 DEF SettlementOrder

LEMMA TransferFailsKeeps ==
    ASSUME SettlementOrder, NEW s \in Slots, TransferFails(s)
    PROVE  SettlementOrder'
<1>0. /\ dlv' \in [Slots -> Delivery] /\ wire' \subseteq Settlement
      /\ \A t \in Slots : dlv'[t].ph = "ack" => dlv'[t] = dlv[t]
      /\ \A e \in wire' : e.kind = "ack" => e \in wire
  BY RedeliverAfterKeeps, ConsumerAssumption DEF SettlementOrder, TransferFails
<1>1. TypeOK'
  BY <1>0 DEF SettlementOrder, TypeOK, TransferFails
<1>2. (\A m \in Msgs : src[m].st = "acked" => Accounted(m))'
  BY DEF SettlementOrder, Accounted, TransferFails
<1>3. (\A u \in Slots : dlv[u].ph = "ack" => Accounted(dlv[u].msg))'
  BY <1>0 DEF SettlementOrder, Accounted, TransferFails
<1>4. (\A e \in wire : e.kind = "ack" => Accounted(e.msg))'
  BY <1>0 DEF SettlementOrder, Accounted, TransferFails
<1>. QED BY <1>1, <1>2, <1>3, <1>4 DEF SettlementOrder

LEMMA AckUnconfirmedKeeps ==
    ASSUME SettlementOrder, NEW s \in Slots, AckUnconfirmed(s)
    PROVE  SettlementOrder'
<1>1. TypeOK'
  BY FreeType DEF SettlementOrder, TypeOK, AckUnconfirmed
<1>2. (\A m \in Msgs : src[m].st = "acked" => Accounted(m))'
  BY DEF SettlementOrder, Accounted, AckUnconfirmed
<1>3. (\A u \in Slots : dlv[u].ph = "ack" => Accounted(dlv[u].msg))'
  BY FreeType DEF SettlementOrder, Accounted, TypeOK, AckUnconfirmed
<1>4. (\A e \in wire : e.kind = "ack" => Accounted(e.msg))'
  BY DEF SettlementOrder, Accounted, AckUnconfirmed
<1>. QED BY <1>1, <1>2, <1>3, <1>4 DEF SettlementOrder

LEMMA ExecAckKeeps ==
    ASSUME SettlementOrder, NEW e \in wire, NEW answered \in BOOLEAN, ExecAck(e, answered)
    PROVE  SettlementOrder'
<1>0. e.msg \in Msgs /\ e.kind = "ack" /\ Accounted(e.msg)
  BY DEF SettlementOrder, TypeOK, Settlement, ExecAck
<1>1. TypeOK'
  <2>1. src' \in [Msgs -> Source]
    <3>0. src[e.msg] \in Source
      BY <1>0 DEF SettlementOrder, TypeOK
    <3>1. [src[e.msg] EXCEPT !.st = "acked", !.timer = 0] \in Source
      BY <3>0, SourceSet
    <3>. QED BY <1>0, <3>1 DEF SettlementOrder, TypeOK, ExecAck
  <2>2. dlv' \in [Slots -> Delivery]
    BY FreeType DEF SettlementOrder, TypeOK, ExecAck
  <2>. QED BY <2>1, <2>2 DEF SettlementOrder, TypeOK, ExecAck
<1>2. (\A m \in Msgs : src[m].st = "acked" => Accounted(m))'
  BY <1>0 DEF SettlementOrder, Accounted, TypeOK, ExecAck
<1>3. (\A s \in Slots : dlv[s].ph = "ack" => Accounted(dlv[s].msg))'
  BY FreeType DEF SettlementOrder, Accounted, ExecAck
<1>4. (\A w \in wire : w.kind = "ack" => Accounted(w.msg))'
  BY DEF SettlementOrder, Accounted, ExecAck
<1>. QED BY <1>1, <1>2, <1>3, <1>4 DEF SettlementOrder

LEMMA ExecNakKeeps ==
    ASSUME SettlementOrder, NEW e \in wire, ExecNak(e)
    PROVE  SettlementOrder'
<1>0. e.msg \in Msgs /\ e.delay \in Nat
  BY DEF SettlementOrder, TypeOK, Settlement
<1>a. /\ [src[e.msg] EXCEPT !.st = "stored", !.timer = e.delay] \in Source
      /\ [src[e.msg] EXCEPT !.st = "stored", !.timer = e.delay].st = "stored"
  BY <1>0, SourceSet DEF SettlementOrder, TypeOK
<1>1. TypeOK'
  <2>1. src' \in [Msgs -> Source]
    BY <1>0, <1>a DEF SettlementOrder, TypeOK, ExecNak
  <2>. QED BY <2>1 DEF SettlementOrder, TypeOK, ExecNak
<1>2. (\A m \in Msgs : src[m].st = "acked" => Accounted(m))'
  BY <1>0, <1>a DEF SettlementOrder, Accounted, TypeOK, ExecNak
<1>3. (\A s \in Slots : dlv[s].ph = "ack" => Accounted(dlv[s].msg))'
  BY DEF SettlementOrder, Accounted, ExecNak
<1>4. (\A w \in wire : w.kind = "ack" => Accounted(w.msg))'
  BY DEF SettlementOrder, Accounted, ExecNak
<1>. QED BY <1>1, <1>2, <1>3, <1>4 DEF SettlementOrder

LEMMA StoreTransferKeeps ==
    ASSUME SettlementOrder, NEW e \in wire, NEW answered \in BOOLEAN, StoreTransfer(e, answered)
    PROVE  SettlementOrder'
<1>. DEFINE waiting == {s \in Slots : answered /\ Awaits(s, e)}
<1>0. e.msg \in Msgs /\ e.kind = "dlq" /\ stored' = stored \cup {e.msg} /\ done' = done /\ src' = src
  BY DEF SettlementOrder, TypeOK, Settlement, StoreTransfer
<1>a. \A s \in waiting : /\ dlv[s].ph # "free" /\ dlv[s].msg = e.msg
                         /\ [dlv[s] EXCEPT !.ph = "ack", !.left = Budget] \in Delivery
                         /\ [dlv[s] EXCEPT !.ph = "ack", !.left = Budget].msg = e.msg
                         /\ Message("ack", dlv[s], 0) \in Settlement
                         /\ Message("ack", dlv[s], 0).msg = e.msg
  <2>. SUFFICES ASSUME NEW s \in waiting
       PROVE  /\ dlv[s].ph # "free" /\ dlv[s].msg = e.msg
              /\ [dlv[s] EXCEPT !.ph = "ack", !.left = Budget] \in Delivery
              /\ [dlv[s] EXCEPT !.ph = "ack", !.left = Budget].msg = e.msg
              /\ Message("ack", dlv[s], 0) \in Settlement
              /\ Message("ack", dlv[s], 0).msg = e.msg
    OBVIOUS
  <2>1. s \in Slots /\ dlv[s] \in Delivery /\ dlv[s].ph = "dlq" /\ dlv[s].msg = e.msg
    BY <1>0 DEF SettlementOrder, TypeOK, Awaits
  <2>2. [dlv[s] EXCEPT !.ph = "ack", !.left = Budget].msg = e.msg
    BY <2>1 DEF Delivery, Free
  <2>3. /\ dlv[s].dc \in 1..(MaxDeliveries + 1) /\ dlv[s].gen \in Nat
        /\ [dlv[s] EXCEPT !.ph = "ack", !.left = Budget] \in Delivery
    BY <2>1, DeliveryBusy, ConsumerAssumption
  <2>4. Message("ack", dlv[s], 0) \in Settlement /\ Message("ack", dlv[s], 0).msg = e.msg
    BY <1>0, <2>1, <2>3, MessageType
  <2>. QED BY <2>1, <2>2, <2>3, <2>4
<1>b. dlv' = [s \in Slots |-> IF s \in waiting THEN [dlv[s] EXCEPT !.ph = "ack", !.left = Budget] ELSE dlv[s]]
  BY DEF StoreTransfer
<1>c. wire' = (wire \ {e}) \cup {Message("ack", dlv[s], 0) : s \in waiting}
  BY DEF StoreTransfer
<1>. HIDE DEF waiting
<1>1. TypeOK'
  <2>1. dlv' \in [Slots -> Delivery]
    BY <1>a, <1>b DEF SettlementOrder, TypeOK
  <2>2. wire' \subseteq Settlement
    BY <1>a, <1>c DEF SettlementOrder, TypeOK
  <2>3. stored' \subseteq Msgs
    BY <1>0 DEF SettlementOrder, TypeOK
  <2>4. dlq' \in [Msgs -> Nat]
    <3>1. dlq[e.msg] + 1 \in Nat
      BY <1>0 DEF SettlementOrder, TypeOK
    <3>. QED BY <1>0, <3>1 DEF SettlementOrder, TypeOK, StoreTransfer
  <2>. QED BY <2>1, <2>2, <2>3, <2>4 DEF SettlementOrder, TypeOK, StoreTransfer
<1>2. (\A m \in Msgs : src[m].st = "acked" => Accounted(m))'
  BY <1>0 DEF SettlementOrder, Accounted
<1>3. (\A s \in Slots : dlv[s].ph = "ack" => Accounted(dlv[s].msg))'
  <2>1. \A s \in Slots : s \in waiting => dlv'[s].msg = e.msg
    BY <1>a, <1>b
  <2>2. \A s \in Slots : s \notin waiting => dlv'[s] = dlv[s]
    BY <1>b
  <2>. QED BY <1>0, <2>1, <2>2 DEF SettlementOrder, Accounted
<1>4. (\A e_1 \in wire : e_1.kind = "ack" => Accounted(e_1.msg))'
  BY <1>0, <1>a, <1>c DEF SettlementOrder, Accounted
<1>. QED BY <1>1, <1>2, <1>3, <1>4 DEF SettlementOrder

LEMMA ForgetKeeps ==
    ASSUME SettlementOrder, NEW m \in Msgs, Forget(m)
    PROVE  SettlementOrder'
<1>1. TypeOK'
  BY DEF SettlementOrder, TypeOK, Forget
<1>2. (\A x \in Msgs : src[x].st = "acked" => Accounted(x))'
  BY DEF SettlementOrder, Accounted, Forget
<1>3. (\A s \in Slots : dlv[s].ph = "ack" => Accounted(dlv[s].msg))'
  BY DEF SettlementOrder, Accounted, Forget
<1>4. (\A e \in wire : e.kind = "ack" => Accounted(e.msg))'
  BY DEF SettlementOrder, Accounted, Forget
<1>. QED BY <1>1, <1>2, <1>3, <1>4 DEF SettlementOrder

LEMMA LoseKeeps ==
    ASSUME SettlementOrder, NEW e \in wire, Lose(e)
    PROVE  SettlementOrder'
<1>1. TypeOK'
  BY DEF SettlementOrder, TypeOK, Lose
<1>2. (\A m \in Msgs : src[m].st = "acked" => Accounted(m))'
  BY DEF SettlementOrder, Accounted, Lose
<1>3. (\A s \in Slots : dlv[s].ph = "ack" => Accounted(dlv[s].msg))'
  BY DEF SettlementOrder, Accounted, Lose
<1>4. (\A w \in wire : w.kind = "ack" => Accounted(w.msg))'
  BY DEF SettlementOrder, Accounted, Lose
<1>. QED BY <1>1, <1>2, <1>3, <1>4 DEF SettlementOrder

LEMMA RedeliverKeeps ==
    ASSUME SettlementOrder, NEW m \in Msgs, Redeliver(m)
    PROVE  SettlementOrder'
<1>a. src[m] \in Source /\ src' = [src EXCEPT ![m] = [src[m] EXCEPT !.st = "stored"]]
  BY DEF SettlementOrder, TypeOK, Redeliver
<1>b. src' \in [Msgs -> Source] /\ \A k \in Msgs : src'[k] = src[k] \/ src'[k].st = "stored"
  BY <1>a, SourceStored DEF SettlementOrder, TypeOK
<1>1. TypeOK'
  BY <1>b DEF SettlementOrder, TypeOK, Redeliver
<1>2. (\A x \in Msgs : src[x].st = "acked" => Accounted(x))'
  BY <1>b DEF SettlementOrder, Accounted, Redeliver
<1>3. (\A s \in Slots : dlv[s].ph = "ack" => Accounted(dlv[s].msg))'
  BY DEF SettlementOrder, Accounted, Redeliver
<1>4. (\A e \in wire : e.kind = "ack" => Accounted(e.msg))'
  BY DEF SettlementOrder, Accounted, Redeliver
<1>. QED BY <1>1, <1>2, <1>3, <1>4 DEF SettlementOrder

LEMMA DeleteKeeps ==
    ASSUME SettlementOrder, Delete
    PROVE  SettlementOrder'
<1>1. TypeOK'
  <2>1. rep' \in [Replicas -> Replica]
    BY ReplicaType DEF SettlementOrder, TypeOK, Delete
  <2>. QED BY <2>1 DEF SettlementOrder, TypeOK, Delete
<1>2. (\A m \in Msgs : src[m].st = "acked" => Accounted(m))'
  BY DEF SettlementOrder, Accounted, Delete
<1>3. (\A s \in Slots : dlv[s].ph = "ack" => Accounted(dlv[s].msg))'
  BY DEF SettlementOrder, Accounted, Delete
<1>4. (\A e \in wire : e.kind = "ack" => Accounted(e.msg))'
  BY DEF SettlementOrder, Accounted, Delete
<1>. QED BY <1>1, <1>2, <1>3, <1>4 DEF SettlementOrder

LEMMA CreatedType == ASSUME TypeOK, Created
    PROVE  /\ src' \in [Msgs -> Source] /\ gen' \in Nat /\ exists' \in BOOLEAN /\ runs' \in [Msgs -> Nat]
           /\ \A m \in Msgs : src'[m].st # "acked"
<1>1. Fresh \in Source /\ Fresh.st = "stored"
  BY Numbers DEF Fresh, Source
<1>. QED BY <1>1 DEF TypeOK, Created

LEMMA RecreateKeeps ==
    ASSUME SettlementOrder, Recreate
    PROVE  SettlementOrder'
<1>1. TypeOK'
  BY CreatedType DEF SettlementOrder, TypeOK, Recreate
<1>2. (\A m \in Msgs : src[m].st = "acked" => Accounted(m))'
  BY CreatedType DEF SettlementOrder, Accounted, Recreate
<1>3. (\A s \in Slots : dlv[s].ph = "ack" => Accounted(dlv[s].msg))'
  BY DEF SettlementOrder, Accounted, Recreate
<1>4. (\A e \in wire : e.kind = "ack" => Accounted(e.msg))'
  BY DEF SettlementOrder, Accounted, Recreate
<1>. QED BY <1>1, <1>2, <1>3, <1>4 DEF SettlementOrder

LEMMA DrainKeeps ==
    ASSUME SettlementOrder, NEW r \in Replicas, Drain(r)
    PROVE  SettlementOrder'
<1>1. TypeOK'
  <2>1. rep[r].known \in Nat
    BY ReplicaFields DEF SettlementOrder, TypeOK
  <2>2. rep' \in [Replicas -> Replica]
    BY <2>1, PollingType DEF SettlementOrder, TypeOK, Drain
  <2>3. wire' \subseteq Settlement
    BY ReleaseType DEF SettlementOrder, Drain
  <2>. QED BY <2>1, <2>2, <2>3 DEF SettlementOrder, TypeOK, Drain
<1>2. (\A m \in Msgs : src[m].st = "acked" => Accounted(m))'
  BY DEF SettlementOrder, Accounted, Drain
<1>3. (\A s \in Slots : dlv[s].ph = "ack" => Accounted(dlv[s].msg))'
  BY DEF SettlementOrder, Accounted, Drain
<1>4. (\A e \in wire : e.kind = "ack" => Accounted(e.msg))'
  BY ReleaseType DEF SettlementOrder, Accounted, Drain
<1>. QED BY <1>1, <1>2, <1>3, <1>4 DEF SettlementOrder

LEMMA FinishKeeps ==
    ASSUME SettlementOrder, NEW r \in Replicas, Finish(r)
    PROVE  SettlementOrder'
<1>1. TypeOK'
  <2>1. rep' \in [Replicas -> Replica]
    BY ReplicaType DEF SettlementOrder, TypeOK, Finish
  <2>. QED BY <2>1 DEF SettlementOrder, TypeOK, Finish
<1>2. (\A m \in Msgs : src[m].st = "acked" => Accounted(m))'
  BY DEF SettlementOrder, Accounted, Finish
<1>3. (\A s \in Slots : dlv[s].ph = "ack" => Accounted(dlv[s].msg))'
  BY DEF SettlementOrder, Accounted, Finish
<1>4. (\A e \in wire : e.kind = "ack" => Accounted(e.msg))'
  BY DEF SettlementOrder, Accounted, Finish
<1>. QED BY <1>1, <1>2, <1>3, <1>4 DEF SettlementOrder

LEMMA AbortKeeps ==
    ASSUME SettlementOrder, NEW r \in Replicas, Abort(r)
    PROVE  SettlementOrder'
<1>1. TypeOK'
  <2>1. rep[r].known \in Nat
    BY ReplicaFields DEF SettlementOrder, TypeOK
  <2>2. rep' \in [Replicas -> Replica]
    BY <2>1, PollingType DEF SettlementOrder, TypeOK, Abort
  <2>3. dlv' \in [Slots -> Delivery]
    BY AbortedType DEF SettlementOrder, Abort
  <2>. QED BY <2>1, <2>2, <2>3 DEF SettlementOrder, TypeOK, Abort
<1>2. (\A m \in Msgs : src[m].st = "acked" => Accounted(m))'
  BY DEF SettlementOrder, Accounted, Abort
<1>3. (\A s \in Slots : dlv[s].ph = "ack" => Accounted(dlv[s].msg))'
  BY AbortedType DEF SettlementOrder, Accounted, Abort
<1>4. (\A e \in wire : e.kind = "ack" => Accounted(e.msg))'
  BY DEF SettlementOrder, Accounted, Abort
<1>. QED BY <1>1, <1>2, <1>3, <1>4 DEF SettlementOrder

LEMMA StartKeeps ==
    ASSUME SettlementOrder, NEW r \in Replicas, Start(r)
    PROVE  SettlementOrder'
<1>1. TypeOK'
  <2>1. src' \in [Msgs -> Source] /\ gen' \in Nat /\ exists' \in BOOLEAN /\ runs' \in [Msgs -> Nat]
    BY CreatedType DEF SettlementOrder, TypeOK, Start
  <2>2. rep' \in [Replicas -> Replica]
    BY <2>1, PollingType DEF SettlementOrder, TypeOK, Start
  <2>. QED BY <2>1, <2>2 DEF SettlementOrder, TypeOK, Start
<1>2. (\A m \in Msgs : src[m].st = "acked" => Accounted(m))'
  BY CreatedType DEF SettlementOrder, Accounted, Start
<1>3. (\A s \in Slots : dlv[s].ph = "ack" => Accounted(dlv[s].msg))'
  BY DEF SettlementOrder, Accounted, Start
<1>4. (\A e \in wire : e.kind = "ack" => Accounted(e.msg))'
  BY DEF SettlementOrder, Accounted, Start
<1>. QED BY <1>1, <1>2, <1>3, <1>4 DEF SettlementOrder

LEMMA TickKeeps ==
    ASSUME SettlementOrder, Tick
    PROVE  SettlementOrder'
<1>0. \A n \in Nat : Less1(n) \in Nat
  BY DEF Less1
<1>a. \A e \in wire : /\ [e EXCEPT !.ttl = Less1(e.ttl)] \in Settlement
                      /\ [e EXCEPT !.ttl = Less1(e.ttl)].kind = e.kind
                      /\ [e EXCEPT !.ttl = Less1(e.ttl)].msg = e.msg
  BY <1>0 DEF SettlementOrder, TypeOK, Settlement
<1>b. \A s \in Slots : dlv'[s] \in Delivery /\ dlv'[s].ph = dlv[s].ph /\ dlv'[s].msg = dlv[s].msg
  <2>. SUFFICES ASSUME NEW s \in Slots, dlv[s].ph # "free"
       PROVE  dlv'[s] \in Delivery /\ dlv'[s].ph = dlv[s].ph /\ dlv'[s].msg = dlv[s].msg
    BY DEF SettlementOrder, TypeOK, Tick
  <2>1. dlv'[s] = [dlv[s] EXCEPT !.left = Less1(dlv[s].left)]
    BY DEF Tick
  <2>2. dlv[s] \in Delivery /\ dlv[s].left \in Nat
    BY DeliveryBusy DEF SettlementOrder, TypeOK
  <2>3. dlv'[s] \in Delivery
    BY <1>0, <2>1, <2>2, DeliveryBusy
  <2>. QED BY <2>1, <2>2, <2>3 DEF Delivery, Free
<1>c. rep' \in [Replicas -> Replica]
  <2>. SUFFICES ASSUME NEW r \in Replicas PROVE rep'[r] \in Replica
    BY DEF Tick
  <2>1. rep[r] \in Replica /\ rep[r].buf \subseteq DeliveryOf
    BY ReplicaFields DEF SettlementOrder, TypeOK
  <2>2. \A d \in rep[r].buf : [d EXCEPT !.late = IF Prompt THEN d.late + 1 ELSE 0] \in DeliveryOf
    <3>1. \A d \in rep[r].buf : (IF Prompt THEN d.late + 1 ELSE 0) \in 0..Transit
      BY <2>1, DeliveryFields, ConsumerAssumption DEF Tick
    <3>2. \A d \in DeliveryOf, n \in 0..Transit : [d EXCEPT !.late = n] \in DeliveryOf
      BY DEF DeliveryOf
    <3>. QED BY <2>1, <3>1, <3>2
  <2>3. rep'[r] = [rep[r] EXCEPT !.buf = {[d EXCEPT !.late = IF Prompt THEN d.late + 1 ELSE 0] : d \in rep[r].buf}]
    BY DEF Tick
  <2>4. {[d EXCEPT !.late = IF Prompt THEN d.late + 1 ELSE 0] : d \in rep[r].buf} \in SUBSET DeliveryOf
    BY <2>2
  <2>. QED BY <2>1, <2>3, <2>4, ReplicaType
<1>d. src' \in [Msgs -> Source] /\ \A m \in Msgs : src'[m].st = src[m].st
  <2>1. \A m \in Msgs : src[m] \in Source /\ Less1(src[m].timer) \in Nat
    BY <1>0, SourceFields DEF SettlementOrder, TypeOK
  <2>2. src' = [m \in Msgs |-> [src[m] EXCEPT !.timer = Less1(src[m].timer)]]
    BY DEF Tick
  <2>. QED BY <2>1, <2>2, SourceTimer
<1>e. wire' = {[e EXCEPT !.ttl = Less1(e.ttl)] : e \in wire}
  BY DEF Tick
<1>f. wire' \subseteq Settlement /\ \A e \in wire' : \E x \in wire : e.kind = x.kind /\ e.msg = x.msg
  BY <1>a, <1>e
<1>g. dlv' \in [Slots -> Delivery]
  BY <1>b DEF Tick
<1>1. TypeOK'
  BY <1>c, <1>d, <1>f, <1>g DEF SettlementOrder, TypeOK, Tick
<1>2. (\A m \in Msgs : src[m].st = "acked" => Accounted(m))'
  BY <1>d DEF SettlementOrder, Accounted, Tick
<1>3. (\A s \in Slots : dlv[s].ph = "ack" => Accounted(dlv[s].msg))'
  BY <1>b DEF SettlementOrder, Accounted, Tick
<1>4. (\A e \in wire : e.kind = "ack" => Accounted(e.msg))'
  BY <1>f DEF SettlementOrder, Accounted, Tick
<1>. QED BY <1>1, <1>2, <1>3, <1>4 DEF SettlementOrder

LEMMA InitHolds == Init => SettlementOrder
<1>1. Fresh \in Source /\ Fresh.st = "stored" /\ Polling(1) \in Replica
  <2>1. Fresh \in Source /\ Fresh.st = "stored"
    BY Numbers DEF Fresh, Source
  <2>. QED BY <2>1, PollingType
<1>. QED BY <1>1, FreeType DEF Init, SettlementOrder, TypeOK, Accounted

\* Settlement comes last: SettlementOrder is an invariant of Spec, for every set
\* of messages, replicas and slots (consumer.rs process, dead_letter, acknowledge).
THEOREM SettlesLast == Spec => []SettlementOrder
<1>1. SettlementOrder /\ [Next]_vars => SettlementOrder'
  <2>. SUFFICES ASSUME SettlementOrder, [Next]_vars PROVE SettlementOrder'
    OBVIOUS
  <2>1. ASSUME NEW r \in Replicas, PullLoop(r) PROVE SettlementOrder'
    BY <2>1, CheckDurableKeeps, SendPullKeeps, EndBatchKeeps, AdmitKeeps DEF PullLoop, Admit
  <2>2. ASSUME NEW r \in Replicas, Lifecycle(r) PROVE SettlementOrder'
    BY <2>2, DrainKeeps, FinishKeeps, AbortKeeps, StartKeeps DEF Lifecycle
  <2>3. ASSUME NEW s \in Slots, Process(s) PROVE SettlementOrder'
    BY <2>3, HandlerEndsKeeps, TransferFailsKeeps, AckUnconfirmedKeeps DEF Process
  <2>4. CASE Broker
    <3>1. ASSUME NEW r \in Replicas, NEW m \in Msgs, Deliver(r, m) \/ LoseDelivery(r, m) PROVE SettlementOrder'
      BY <3>1, DeliverKeeps, LoseDeliveryKeeps
    <3>2. ASSUME NEW e \in wire, NEW answered \in BOOLEAN,
                 ExecAck(e, answered) \/ StoreTransfer(e, answered) PROVE SettlementOrder'
      BY <3>2, ExecAckKeeps, StoreTransferKeeps
    <3>3. ASSUME NEW e \in wire, ExecNak(e) \/ Lose(e) PROVE SettlementOrder'
      BY <3>3, ExecNakKeeps, LoseKeeps
    <3>4. ASSUME NEW m \in Msgs, Redeliver(m) \/ Forget(m) PROVE SettlementOrder'
      BY <3>4, RedeliverKeeps, ForgetKeeps
    <3>. QED BY <2>4, <3>1, <3>2, <3>3, <3>4, DeleteKeeps, RecreateKeeps DEF Broker
  <2>5. CASE UNCHANGED vars
    BY <2>5 DEF vars, SettlementOrder, TypeOK, Accounted
  <2>. QED BY <2>1, <2>2, <2>3, <2>4, <2>5, TickKeeps DEF Next
<1>. QED BY <1>1, InitHolds, PTL DEF Spec

-----------------------------------------------------------------------------
(* What a step does to the pull loops *)

\* The fields of a replica that starts over, or moves on in its loop.
LEMMA PollingFields == \A g, st :
    /\ Polling(g).st = "check" /\ Polling(g).known = g /\ Polling(g).remaining = 0
    /\ Polling(g).req = 0 /\ Polling(g).buf = {}
    /\ [Polling(g) EXCEPT !.st = st].st = st /\ [Polling(g) EXCEPT !.st = st].known = g
    /\ [Polling(g) EXCEPT !.st = st].remaining = 0 /\ [Polling(g) EXCEPT !.st = st].req = 0
    /\ [Polling(g) EXCEPT !.st = st].buf = {}
BY DEF Polling

\* A slot that was free stays free.
FreedOnly == \A s \in Slots : dlv[s].ph = "free" => dlv'[s].ph = "free"

\* Replica r starts over: no pull is open and nothing is buffered.
Cleared(r) == /\ rep'[r].st # "batch"
              /\ rep'[r].req = 0
              /\ rep'[r].buf = {}

\* Replica r does not move, and its buffer and open pull only shrink.
Rests(r) == /\ rep'[r].st = rep[r].st
            /\ rep'[r].known = rep[r].known
            /\ rep'[r].remaining = rep[r].remaining
            /\ rep'[r].req <= rep[r].req
            /\ rep'[r].buf \subseteq rep[r].buf

\* A lookup ends in the next phase or, when the durable is gone, in ConsumerLost.
LEMMA ContinueShape ==
    ASSUME TypeOK, NEW r \in Replicas, NEW next \in {"pull", "check"}, Continue(r, next)
    PROVE  /\ Cleared(r) /\ rep'[r].known = rep[r].known
           /\ rep'[r].st = IF Gone(r) THEN "lost" ELSE next
           /\ \A q \in Replicas : q # r => rep'[q] = rep[q]
           /\ FreedOnly
<1>1. rep'[r] = IF Gone(r) THEN [Polling(rep[r].known) EXCEPT !.st = "lost"]
                ELSE [Polling(rep[r].known) EXCEPT !.st = next]
  BY DEF TypeOK, Continue
<1>2. Cleared(r) /\ rep'[r].known = rep[r].known /\ rep'[r].st = IF Gone(r) THEN "lost" ELSE next
  BY <1>1, PollingFields DEF Cleared
<1>3. \A q \in Replicas : q # r => rep'[q] = rep[q]
  BY DEF TypeOK, Continue
<1>4. FreedOnly
  BY FreeType DEF FreedOnly, Continue, Aborted
<1>. QED BY <1>2, <1>3, <1>4

\* The steps of a replica that take no slot and open no pull.
Moves(r) == CheckDurable(r) \/ EndBatch(r) \/ Drain(r) \/ Finish(r) \/ Abort(r) \/ Start(r)

\* A drained replica only changes its state.
LEMMA FinishShape ==
    ASSUME TypeOK, NEW r \in Replicas, Finish(r)
    PROVE  /\ rep'[r].buf = rep[r].buf /\ rep'[r].req = rep[r].req
           /\ rep'[r].st = "done" /\ rep'[r].known = rep[r].known
           /\ \A q \in Replicas : q # r => rep'[q] = rep[q]
<1>1. rep' = [rep EXCEPT ![r] = [rep[r] EXCEPT !.st = "done"]]
  BY DEF Finish, TypeOK
<1>2. \A x \in Replica : /\ [x EXCEPT !.st = "done"].buf = x.buf /\ [x EXCEPT !.st = "done"].req = x.req
                         /\ [x EXCEPT !.st = "done"].st = "done" /\ [x EXCEPT !.st = "done"].known = x.known
  BY DEF Replica
<1>. QED BY <1>1, <1>2 DEF TypeOK

\* Such a step clears the replica or leaves its buffer, and moves no other replica.
LEMMA MoveShape ==
    ASSUME SettlementOrder, NEW r \in Replicas, Moves(r)
    PROVE  /\ Cleared(r) \/ rep'[r].buf = rep[r].buf
           /\ \A q \in Replicas : q # r => rep'[q] = rep[q]
           /\ FreedOnly
<1>. USE DEF SettlementOrder
<1>1. CASE CheckDurable(r)
  BY <1>1, ContinueShape DEF CheckDurable
<1>2. CASE EndBatch(r)
  BY <1>2, ContinueShape DEF EndBatch
<1>3. CASE Drain(r)
  BY <1>3, PollingFields DEF TypeOK, Drain, Cleared, FreedOnly
<1>4. CASE Finish(r)
  BY <1>4, FinishShape DEF Finish, FreedOnly
<1>5. CASE Abort(r)
  <2>1. FreedOnly
    BY <1>5, FreeType DEF FreedOnly, Abort, Aborted
  <2>. QED BY <1>5, <2>1, PollingFields DEF TypeOK, Abort, Cleared
<1>6. CASE Start(r)
  BY <1>6, PollingFields DEF TypeOK, Start, Cleared, FreedOnly
<1>. QED BY <1>1, <1>2, <1>3, <1>4, <1>5, <1>6 DEF Moves

\* A delivery's own steps and the broker's leave the pull loops alone, but that the
\* broker forgets the open pulls of a durable that is deleted.
LEMMA OthersShape ==
    ASSUME SettlementOrder,
           \/ \E s \in Slots : Process(s)
           \/ \E e \in wire : \/ \E answered \in BOOLEAN : ExecAck(e, answered) \/ StoreTransfer(e, answered)
                              \/ ExecNak(e) \/ Lose(e)
           \/ \E m \in Msgs : Redeliver(m) \/ Forget(m)
           \/ Delete
           \/ Recreate
           \/ UNCHANGED vars
    PROVE  (\A r \in Replicas : Rests(r)) /\ FreedOnly /\ strange' = strange
<1>. USE DEF SettlementOrder
<1>0. \A r \in Replicas : rep[r].req \in Nat
  BY ReplicaFields DEF TypeOK
<1>1. CASE \E s \in Slots : Process(s)
  <2>. PICK s \in Slots : Process(s)
    BY <1>1
  <2>1. rep' = rep /\ strange' = strange
    BY DEF Process, HandlerEnds, TransferFails, AckUnconfirmed
  <2>2. dlv[s].ph # "free" /\ \A t \in Slots : t # s => dlv'[t] = dlv[t]
    BY DEF TypeOK, Process, HandlerEnds, TransferFails, AckUnconfirmed, Settling, RedeliverAfter
  <2>. QED BY <1>0, <2>1, <2>2 DEF Rests, FreedOnly
<1>2. ASSUME NEW e \in wire, NEW answered \in BOOLEAN, ExecAck(e, answered) \/ StoreTransfer(e, answered)
      PROVE  (\A r \in Replicas : Rests(r)) /\ FreedOnly /\ strange' = strange
  <2>1. rep' = rep /\ strange' = strange
    BY <1>2 DEF ExecAck, StoreTransfer
  <2>2. e.kind # "free"
    BY DEF TypeOK, Settlement
  <2>3. \A s \in Slots : dlv[s].ph = "free" => dlv'[s] \in {dlv[s], Free}
    BY <1>2, <2>2 DEF ExecAck, StoreTransfer, Awaits
  <2>. QED BY <1>0, <2>1, <2>3, FreeType DEF Rests, FreedOnly
<1>3. CASE Delete
  <2>1. \A x \in Replica : /\ [x EXCEPT !.req = 0].st = x.st /\ [x EXCEPT !.req = 0].known = x.known
                           /\ [x EXCEPT !.req = 0].remaining = x.remaining
                           /\ [x EXCEPT !.req = 0].buf = x.buf /\ [x EXCEPT !.req = 0].req = 0
    BY DEF Replica
  <2>2. dlv' = dlv /\ strange' = strange
    BY <1>3 DEF Delete
  <2>3. \A r \in Replicas : rep[r] \in Replica /\ rep'[r] = [rep[r] EXCEPT !.req = 0]
    BY <1>3 DEF TypeOK, Delete
  <2>4. \A r \in Replicas : Rests(r)
    <3>. TAKE r \in Replicas
    <3>1. /\ rep'[r].st = rep[r].st /\ rep'[r].known = rep[r].known
          /\ rep'[r].remaining = rep[r].remaining /\ rep'[r].buf = rep[r].buf /\ rep'[r].req = 0
      BY <2>1, <2>3, ZenonT(40)
    <3>. QED BY <1>0, <3>1 DEF Rests
  <2>. QED BY <2>2, <2>4 DEF FreedOnly
<1>4. CASE \E e \in wire : ExecNak(e) \/ Lose(e)
  <2>1. rep' = rep /\ dlv' = dlv /\ strange' = strange
    BY <1>4 DEF ExecNak, Lose
  <2>. QED BY <1>0, <2>1 DEF Rests, FreedOnly
<1>5. CASE Recreate \/ UNCHANGED vars \/ \E m \in Msgs : Redeliver(m) \/ Forget(m)
  BY <1>0, <1>5 DEF Redeliver, Forget, Recreate, vars, Rests, FreedOnly
<1>. QED BY <1>1, <1>2, <1>3, <1>4, <1>5

-----------------------------------------------------------------------------
(* Pulls never ask for more than the free slots *)

\* Replica r buffers and awaits at most what it reserved, and the slots it reserved
\* are still free.  A durable that replaced its own is noticed before the next pull:
\* once a strange delivery was admitted no pull follows, and the one batch is paid for
\* by the slots it was asked for.
PullOK(r) ==
    /\ IsFiniteSet(rep[r].buf)
    /\ rep[r].st # "batch" => rep[r].req = 0 /\ rep[r].buf = {}
    /\ rep[r].st = "batch" => /\ rep[r].req + Cardinality(rep[r].buf) <= rep[r].remaining
                              /\ rep[r].remaining <= Cardinality(FreeSlots(r))
                              /\ strange[r] + rep[r].remaining <= Cardinality(SlotsOf(r))
    /\ strange[r] <= Cardinality(SlotsOf(r))
    /\ rep[r].known <= gen
    /\ \A d \in rep[r].buf : rep[r].known <= d.gen /\ d.gen <= gen
    /\ strange[r] > 0 => rep[r].known < gen
    /\ rep[r].st = "pull" => strange[r] = 0

PullInv == \A r \in Replicas : PullOK(r)

\* Slots can be counted, and the free ones are among a replica's own.
LEMMA SlotCounts == \A r \in Replicas :
    /\ IsFiniteSet(FreeSlots(r)) /\ Cardinality(FreeSlots(r)) \in Nat
    /\ Cardinality(SlotsOf(r)) \in Nat /\ Cardinality(FreeSlots(r)) <= Cardinality(SlotsOf(r))
<1>. TAKE r \in Replicas
<1>1. SlotsOf(r) \in SUBSET Slots /\ FreeSlots(r) \in SUBSET SlotsOf(r)
  BY DEF FreeSlots, SlotsOf
<1>2. IsFiniteSet(SlotsOf(r))
  BY <1>1, ConsumerAssumption, FS_Subset
<1>. QED BY <1>1, <1>2, FS_Subset, FS_CardinalityType

LEMMA SlotCountsNext == \A r \in Replicas :
    IsFiniteSet(FreeSlots(r)') /\ Cardinality(FreeSlots(r)') \in Nat
<1>. TAKE r \in Replicas
<1>1. FreeSlots(r)' \in SUBSET Slots
  BY DEF FreeSlots, SlotsOf
<1>. QED BY <1>1, ConsumerAssumption, FS_Subset, FS_CardinalityType

LEMMA FreedMore == ASSUME FreedOnly, NEW r \in Replicas
    PROVE  Cardinality(FreeSlots(r)) <= Cardinality(FreeSlots(r)')
<1>1. FreeSlots(r) \in SUBSET FreeSlots(r)'
  BY DEF FreedOnly, FreeSlots, SlotsOf
<1>. QED BY <1>1, SlotCountsNext, FS_Subset

\* A replica at rest keeps its bounds while slots are freed and durables created.
LEMMA RestsPull ==
    ASSUME TypeOK, TypeOK', NEW r \in Replicas, PullOK(r), FreedOnly, gen <= gen', Rests(r),
           strange'[r] = strange[r]
    PROVE  PullOK(r)'
<1>1. /\ rep[r].req \in Nat /\ rep'[r].req \in Nat /\ rep[r].remaining \in Nat /\ rep[r].known \in Nat
      /\ gen \in Nat /\ gen' \in Nat /\ rep[r].buf \subseteq DeliveryOf /\ strange[r] \in Nat
  BY ReplicaFields DEF TypeOK
<1>2. \A d \in rep[r].buf : d.gen \in Nat
  BY <1>1, DeliveryFields
<1>3. IsFiniteSet(rep'[r].buf) /\ Cardinality(rep'[r].buf) <= Cardinality(rep[r].buf)
      /\ Cardinality(rep'[r].buf) \in Nat /\ Cardinality(rep[r].buf) \in Nat
  <2>1. rep'[r].buf \in SUBSET rep[r].buf /\ IsFiniteSet(rep[r].buf)
    BY DEF Rests, PullOK
  <2>. QED BY <2>1, FS_Subset, FS_CardinalityType
<1>4. /\ Cardinality(FreeSlots(r)) <= Cardinality(FreeSlots(r)')
      /\ Cardinality(FreeSlots(r)) \in Nat /\ Cardinality(FreeSlots(r)') \in Nat
      /\ Cardinality(SlotsOf(r)) \in Nat /\ SlotsOf(r)' = SlotsOf(r)
  BY FreedMore, SlotCounts, SlotCountsNext DEF SlotsOf
<1>5. rep'[r].st # "batch" => rep'[r].req = 0 /\ rep'[r].buf = {}
  BY <1>1 DEF PullOK, Rests
<1>6. rep'[r].st = "batch" => /\ rep'[r].req + Cardinality(rep'[r].buf) <= rep'[r].remaining
                              /\ rep'[r].remaining <= Cardinality(FreeSlots(r)')
                              /\ strange'[r] + rep'[r].remaining <= Cardinality(SlotsOf(r))
  BY <1>1, <1>3, <1>4 DEF PullOK, Rests
<1>7. /\ \A d \in rep'[r].buf : rep'[r].known <= d.gen /\ d.gen <= gen'
      /\ rep'[r].known <= gen' /\ (strange'[r] > 0 => rep'[r].known < gen')
  BY <1>1, <1>2 DEF PullOK, Rests
<1>. QED BY <1>3, <1>4, <1>5, <1>6, <1>7 DEF PullOK, Rests

\* A replica that starts over has nothing reserved.
LEMMA ClearedPull ==
    ASSUME TypeOK', NEW r \in Replicas, Cleared(r), strange'[r] <= Cardinality(SlotsOf(r)),
           rep'[r].known <= gen', strange'[r] > 0 => rep'[r].known < gen',
           rep'[r].st = "pull" => strange'[r] = 0
    PROVE  PullOK(r)'
BY FS_EmptySet DEF Cleared, PullOK, SlotsOf

\* A lookup lets a replica pull only from the durable it knows.
LEMMA MovePull ==
    ASSUME SettlementOrder, SettlementOrder', PullInv, NEW r \in Replicas, Moves(r)
    PROVE  PullInv'
<1>. USE DEF SettlementOrder
<1>1. gen \in Nat /\ gen' \in Nat /\ gen <= gen'
  BY DEF TypeOK, Moves, CheckDurable, EndBatch, Drain, Finish, Abort, Start, Created
<1>2. /\ \A q \in Replicas : q # r => rep'[q] = rep[q] /\ strange'[q] = strange[q]
      /\ FreedOnly
  BY MoveShape DEF TypeOK, Moves, CheckDurable, EndBatch, Drain, Finish, Abort, Start
<1>3. \A q \in Replicas : q # r => PullOK(q)'
  <2>. SUFFICES ASSUME NEW q \in Replicas, q # r PROVE PullOK(q)'
    OBVIOUS
  <2>1. Rests(q)
    BY <1>2, ReplicaFields DEF TypeOK, Rests
  <2>. QED BY <1>1, <1>2, <2>1, RestsPull DEF PullInv
<1>4. PullOK(r)'
  <2>0. /\ PullOK(r) /\ rep[r].known \in Nat /\ strange[r] \in Nat
        /\ Cardinality(SlotsOf(r)) \in Nat
    BY SlotCounts, ReplicaFields DEF PullInv, TypeOK
  <2>1. CASE Start(r)
    <3>1. Cleared(r) /\ strange'[r] = 0 /\ rep'[r].known = gen'
      BY <2>1, PollingFields DEF TypeOK, Start, Cleared
    <3>. QED BY <1>1, <2>0, <3>1, ClearedPull
  <2>2. CASE Finish(r)
    <3>1. Cleared(r) /\ rep'[r].known = rep[r].known /\ strange' = strange /\ rep'[r].st = "done" /\ gen' = gen
      BY <2>0, <2>2, FinishShape DEF Cleared, PullOK, Finish
    <3>. QED BY <1>1, <2>0, <3>1, ClearedPull DEF PullOK
  <2>3. CASE Drain(r) \/ Abort(r)
    <3>1. /\ Cleared(r) /\ rep'[r].known = rep[r].known /\ strange' = strange /\ gen' = gen
          /\ rep'[r].st # "pull"
      <4>1. CASE Drain(r)
        BY <4>1, PollingFields DEF TypeOK, Drain, Cleared
      <4>2. CASE Abort(r)
        BY <4>2, PollingFields DEF TypeOK, Abort, Cleared
      <4>. QED BY <2>3, <4>1, <4>2
    <3>. QED BY <1>1, <2>0, <3>1, ClearedPull DEF PullOK
  <2>4. CASE CheckDurable(r) \/ EndBatch(r)
    <3>1. /\ Cleared(r) /\ rep'[r].known = rep[r].known
          /\ rep'[r].st = "pull" => ~Gone(r)
      BY <2>4, ContinueShape DEF CheckDurable, EndBatch
    <3>2. strange' = strange /\ gen' = gen
      BY <2>4 DEF CheckDurable, EndBatch
    <3>3. rep'[r].st = "pull" => strange[r] = 0
      BY <1>1, <2>0, <3>1 DEF PullOK, Gone
    <3>. QED BY <1>1, <2>0, <3>1, <3>2, <3>3, ClearedPull DEF PullOK
  <2>. QED BY <2>1, <2>2, <2>3, <2>4 DEF Moves
<1>. QED BY <1>3, <1>4 DEF PullInv

\* The fields of rep[r] after a pull is sent, a message arrives, or one is admitted.
LEMMA ReplicaEdits == \A x \in Replica : \A n, k, B, st :
    /\ LET y == [x EXCEPT !.st = "batch", !.remaining = n, !.req = k]
       IN  y.st = "batch" /\ y.remaining = n /\ y.req = k /\ y.buf = x.buf /\ y.known = x.known
    /\ LET y == [x EXCEPT !.req = k, !.buf = B]
       IN  y.st = x.st /\ y.remaining = x.remaining /\ y.req = k /\ y.buf = B /\ y.known = x.known
    /\ LET y == [x EXCEPT !.req = k]
       IN  y.st = x.st /\ y.remaining = x.remaining /\ y.req = k /\ y.buf = x.buf /\ y.known = x.known
    /\ LET y == [x EXCEPT !.buf = B]
       IN  y.st = x.st /\ y.remaining = x.remaining /\ y.req = x.req /\ y.buf = B /\ y.known = x.known
    /\ LET y == [x EXCEPT !.buf = B, !.remaining = n, !.st = st]
       IN  y.st = st /\ y.remaining = n /\ y.req = x.req /\ y.buf = B /\ y.known = x.known
BY DEF Replica

\* A pull asks for the slots that are free, of a durable the replica just looked up.
LEMMA SendPullPull ==
    ASSUME SettlementOrder, SettlementOrder', PullInv, NEW r \in Replicas, SendPull(r)
    PROVE  PullInv'
<1>. USE DEF SettlementOrder
<1>. DEFINE free == Cardinality(FreeSlots(r))
<1>1. /\ rep'[r] = [rep[r] EXCEPT !.st = "batch", !.remaining = free, !.req = IF exists THEN free ELSE 0]
      /\ \A q \in Replicas : q # r => rep'[q] = rep[q]
      /\ dlv' = dlv /\ gen' = gen /\ strange' = strange /\ rep[r] \in Replica
  BY DEF TypeOK, SendPull
<1>. HIDE DEF free
<1>2. /\ rep'[r].st = "batch" /\ rep'[r].remaining = free /\ rep'[r].req = IF exists THEN free ELSE 0
      /\ rep'[r].buf = rep[r].buf /\ rep'[r].known = rep[r].known
  BY <1>1, ReplicaEdits
<1>3. \A q \in Replicas : q # r => PullOK(q)'
  <2>. SUFFICES ASSUME NEW q \in Replicas, q # r PROVE PullOK(q)'
    OBVIOUS
  <2>1. Rests(q) /\ FreedOnly /\ gen <= gen'
    BY <1>1, ReplicaFields DEF TypeOK, Rests, FreedOnly
  <2>. QED BY <1>1, <2>1, RestsPull DEF PullInv
<1>4. /\ PullOK(r) /\ rep[r].st = "pull" /\ rep[r].buf = {} /\ strange[r] = 0
      /\ free \in Nat /\ free <= Cardinality(SlotsOf(r)) /\ FreeSlots(r)' = FreeSlots(r)
      /\ SlotsOf(r)' = SlotsOf(r) /\ Cardinality({}) = 0 /\ Cardinality(SlotsOf(r)) \in Nat
  BY <1>1, SlotCounts, FS_EmptySet DEF PullInv, PullOK, SendPull, FreeSlots, SlotsOf, free
<1>5. Cardinality(FreeSlots(r)') = free
  BY <1>4 DEF free
<1>6. /\ rep'[r].req + Cardinality(rep'[r].buf) <= rep'[r].remaining
      /\ rep'[r].remaining <= Cardinality(FreeSlots(r)')
      /\ strange'[r] + rep'[r].remaining <= Cardinality(SlotsOf(r))
  <2>1. rep'[r].req \in {0, free} /\ Cardinality(rep'[r].buf) = 0
    BY <1>2, <1>4
  <2>2. rep'[r].req + Cardinality(rep'[r].buf) <= free
    BY <1>4, <2>1
  <2>3. strange'[r] + free <= Cardinality(SlotsOf(r)) /\ free <= Cardinality(FreeSlots(r)')
    BY <1>1, <1>4, <1>5
  <2>. QED BY <1>2, <2>2, <2>3
<1>7. PullOK(r)'
  BY <1>1, <1>2, <1>4, <1>6 DEF PullOK
<1>. QED BY <1>3, <1>7 DEF PullInv

\* A delivery turns a message that was asked for into one that is buffered.
LEMMA DeliverPull ==
    ASSUME SettlementOrder, SettlementOrder', PullInv, NEW r \in Replicas, NEW m \in Msgs, Deliver(r, m)
    PROVE  PullInv'
<1>. USE DEF SettlementOrder
<1>. DEFINE d == [msg |-> m, dc |-> src'[m].dc, gen |-> gen, late |-> 0]
<1>1. /\ rep'[r] = [rep[r] EXCEPT !.req = rep[r].req - 1, !.buf = rep[r].buf \cup {d}]
      /\ \A q \in Replicas : q # r => rep'[q] = rep[q]
      /\ dlv' = dlv /\ gen' = gen /\ strange' = strange /\ rep[r] \in Replica /\ rep[r].req > 0
  BY DEF TypeOK, Deliver
<1>g. d.gen = gen
  OBVIOUS
<1>. HIDE DEF d
<1>2. /\ rep'[r].st = rep[r].st /\ rep'[r].remaining = rep[r].remaining /\ rep'[r].req = rep[r].req - 1
      /\ rep'[r].buf = rep[r].buf \cup {d} /\ rep'[r].known = rep[r].known
  BY <1>1, ReplicaEdits
<1>3. \A q \in Replicas : q # r => PullOK(q)'
  <2>. SUFFICES ASSUME NEW q \in Replicas, q # r PROVE PullOK(q)'
    OBVIOUS
  <2>1. Rests(q) /\ FreedOnly /\ gen <= gen'
    BY <1>1, ReplicaFields DEF TypeOK, Rests, FreedOnly
  <2>. QED BY <1>1, <2>1, RestsPull DEF PullInv
<1>4. /\ PullOK(r) /\ rep[r].st = "batch" /\ rep[r].req \in Nat /\ rep[r].remaining \in Nat
      /\ rep[r].known \in Nat /\ gen \in Nat
  BY <1>1, ReplicaFields DEF PullInv, PullOK, TypeOK
<1>5. /\ IsFiniteSet(rep'[r].buf) /\ Cardinality(rep'[r].buf) <= Cardinality(rep[r].buf) + 1
      /\ Cardinality(rep'[r].buf) \in Nat /\ Cardinality(rep[r].buf) \in Nat
  <2>1. IsFiniteSet(rep[r].buf)
    BY <1>4 DEF PullOK
  <2>2. IsFiniteSet(rep'[r].buf) /\ Cardinality(rep[r].buf) \in Nat
        /\ Cardinality(rep'[r].buf) = IF d \in rep[r].buf THEN Cardinality(rep[r].buf) ELSE Cardinality(rep[r].buf) + 1
    <3>1. Cardinality(rep[r].buf) \in Nat
      BY <2>1, FS_CardinalityType
    <3>2. /\ IsFiniteSet(rep[r].buf \cup {d})
          /\ Cardinality(rep[r].buf \cup {d}) = IF d \in rep[r].buf THEN Cardinality(rep[r].buf) ELSE Cardinality(rep[r].buf) + 1
      BY <2>1, FS_AddElement
    <3>. QED BY <1>2, <3>1, <3>2
  <2>. QED BY <2>2
<1>6. FreeSlots(r)' = FreeSlots(r) /\ SlotsOf(r)' = SlotsOf(r)
  BY <1>1 DEF FreeSlots, SlotsOf
<1>7. /\ rep'[r].req + Cardinality(rep'[r].buf) <= rep'[r].remaining
      /\ rep'[r].remaining <= Cardinality(FreeSlots(r)')
      /\ strange'[r] + rep'[r].remaining <= Cardinality(SlotsOf(r)')
  BY <1>1, <1>2, <1>4, <1>5, <1>6 DEF PullOK
<1>8. \A x \in rep'[r].buf : rep'[r].known <= x.gen /\ x.gen <= gen'
  BY <1>1, <1>2, <1>4, <1>g DEF PullOK
<1>9. PullOK(r)'
  BY <1>1, <1>2, <1>4, <1>5, <1>6, <1>7, <1>8 DEF PullOK
<1>. QED BY <1>3, <1>9 DEF PullInv

LEMMA LoseDeliveryPull ==
    ASSUME SettlementOrder, SettlementOrder', PullInv, NEW r \in Replicas, NEW m \in Msgs, LoseDelivery(r, m)
    PROVE  PullInv'
<1>. USE DEF SettlementOrder
<1>1. /\ rep'[r] = [rep[r] EXCEPT !.req = rep[r].req - 1]
      /\ \A q \in Replicas : q # r => rep'[q] = rep[q]
      /\ dlv' = dlv /\ gen' = gen /\ strange' = strange /\ rep[r] \in Replica /\ rep[r].req \in Nat
  BY ReplicaFields DEF TypeOK, LoseDelivery
<1>2. /\ rep'[r].st = rep[r].st /\ rep'[r].remaining = rep[r].remaining /\ rep'[r].req = rep[r].req - 1
      /\ rep'[r].buf = rep[r].buf /\ rep'[r].known = rep[r].known
  BY <1>1, ReplicaEdits
<1>3. \A q \in Replicas : Rests(q)
  <2>1. Rests(r)
    BY <1>1, <1>2 DEF Rests
  <2>2. \A q \in Replicas : q # r => Rests(q)
    BY <1>1, ReplicaFields DEF TypeOK, Rests
  <2>. QED BY <2>1, <2>2
<1>4. FreedOnly /\ gen <= gen'
  BY <1>1 DEF TypeOK, FreedOnly
<1>. QED BY <1>1, <1>3, <1>4, RestsPull DEF PullInv

\* An admission takes a delivery out of the buffer and one slot.
LEMMA AdmitPull ==
    ASSUME SettlementOrder, SettlementOrder', PullInv,
           NEW r \in Replicas, NEW d \in rep[r].buf, NEW s \in Slots, Admit(r, d, s)
    PROVE  PullInv'
<1>. USE DEF SettlementOrder
<1>. DEFINE st == IF rep[r].remaining = 1 THEN "check" ELSE rep[r].st
<1>1. /\ rep'[r] = [rep[r] EXCEPT !.buf = rep[r].buf \ {d}, !.remaining = rep[r].remaining - 1, !.st = st]
      /\ \A q \in Replicas : q # r => rep'[q] = rep[q]
      /\ gen' = gen /\ rep[r] \in Replica /\ rep[r].st = "batch" /\ rep[r].remaining > 0
      /\ s \in FreeSlots(r)
  BY DEF TypeOK, Admit
<1>2. /\ rep'[r].st = st /\ rep'[r].remaining = rep[r].remaining - 1 /\ rep'[r].req = rep[r].req
      /\ rep'[r].buf = rep[r].buf \ {d} /\ rep'[r].known = rep[r].known
  BY <1>1, ReplicaEdits
<1>3. /\ PullOK(r) /\ rep[r].req \in Nat /\ rep[r].remaining \in Nat /\ rep[r].known \in Nat
      /\ gen \in Nat /\ d.gen \in Nat /\ strange[r] \in Nat
  BY ReplicaFields, DeliveryFields DEF PullInv, TypeOK
<1>4. /\ IsFiniteSet(rep'[r].buf) /\ Cardinality(rep'[r].buf) = Cardinality(rep[r].buf) - 1
      /\ Cardinality(rep'[r].buf) \in Nat /\ Cardinality(rep[r].buf) \in Nat
  <2>1. IsFiniteSet(rep[r].buf)
    BY <1>3 DEF PullOK
  <2>2. IsFiniteSet(rep'[r].buf) /\ Cardinality(rep'[r].buf) = Cardinality(rep[r].buf) - 1
    BY <1>2, <2>1, FS_RemoveElement
  <2>. QED BY <2>1, <2>2, FS_CardinalityType
<1>5. FreeSlots(r)' = FreeSlots(r) \ {s} /\ \A q \in Replicas : q # r => FreeSlots(q)' = FreeSlots(q)
  <2>1. dlv'[s].ph # "free" /\ \A t \in Slots : t # s => dlv'[t] = dlv[t]
    BY DEF TypeOK, Admit
  <2>2. Owner[s] = r
    BY <1>1 DEF FreeSlots, SlotsOf
  <2>. QED BY <2>1, <2>2 DEF FreeSlots, SlotsOf
<1>6. /\ Cardinality(FreeSlots(r)') = Cardinality(FreeSlots(r)) - 1
      /\ Cardinality(FreeSlots(r)) \in Nat /\ Cardinality(FreeSlots(r)') \in Nat
      /\ Cardinality(SlotsOf(r)) \in Nat
  BY <1>1, <1>5, SlotCounts, SlotCountsNext, FS_RemoveElement
<1>7. /\ \A q \in Replicas : q # r => strange'[q] = strange[q]
      /\ strange'[r] = IF d.gen = rep[r].known THEN strange[r] ELSE strange[r] + 1
  BY DEF TypeOK, Admit
<1>8. \A q \in Replicas : q # r => PullOK(q)'
  BY <1>1, <1>5, <1>7 DEF PullInv, PullOK, SlotsOf
<1>9. rep[r].known <= d.gen /\ d.gen <= gen
  BY <1>3 DEF PullOK
<1>10. rep'[r].st = "batch" => /\ rep'[r].req + Cardinality(rep'[r].buf) <= rep'[r].remaining
                               /\ rep'[r].remaining <= Cardinality(FreeSlots(r)')
                               /\ strange'[r] + rep'[r].remaining <= Cardinality(SlotsOf(r))
  BY <1>1, <1>2, <1>3, <1>4, <1>6, <1>7 DEF PullOK
<1>11. rep'[r].st # "batch" => rep'[r].req = 0 /\ rep'[r].buf = {}
  <2>. SUFFICES ASSUME rep'[r].st # "batch" PROVE rep'[r].req = 0 /\ rep'[r].buf = {}
    OBVIOUS
  <2>1. rep[r].remaining = 1 /\ rep[r].req + Cardinality(rep[r].buf) <= 1
    BY <1>1, <1>2, <1>3 DEF PullOK
  <2>2. rep'[r].req = 0 /\ Cardinality(rep'[r].buf) = 0
    BY <1>2, <1>3, <1>4, <2>1
  <2>. QED BY <1>4, <2>2, FS_EmptySet
<1>12. strange'[r] <= Cardinality(SlotsOf(r)) /\ (strange'[r] > 0 => rep'[r].known < gen')
  BY <1>1, <1>2, <1>3, <1>6, <1>7, <1>9 DEF PullOK
<1>13. PullOK(r)'
  <2>1. \A x \in rep'[r].buf : rep'[r].known <= x.gen /\ x.gen <= gen'
    BY <1>1, <1>2, <1>3 DEF PullOK
  <2>2. rep'[r].st # "pull" /\ rep'[r].known <= gen' /\ SlotsOf(r)' = SlotsOf(r)
    BY <1>1, <1>2, <1>3 DEF PullOK, SlotsOf
  <2>. QED BY <1>4, <1>10, <1>11, <1>12, <2>1, <2>2 DEF PullOK
<1>. QED BY <1>8, <1>13 DEF PullInv

\* Time only ages what is buffered.
Aged(d) == [d EXCEPT !.late = IF Prompt THEN d.late + 1 ELSE 0]

LEMMA AgedFields == \A d \in DeliveryOf : Aged(d).msg = d.msg /\ Aged(d).dc = d.dc /\ Aged(d).gen = d.gen
BY DEF DeliveryOf, Aged

LEMMA TickShape ==
    ASSUME TypeOK, Tick, NEW r \in Replicas
    PROVE  /\ rep'[r].st = rep[r].st /\ rep'[r].known = rep[r].known /\ rep'[r].req = rep[r].req
           /\ rep'[r].remaining = rep[r].remaining /\ rep'[r].buf = {Aged(d) : d \in rep[r].buf}
<1>1. rep'[r] = [rep[r] EXCEPT !.buf = {Aged(d) : d \in rep[r].buf}] /\ rep[r] \in Replica
  BY DEF TypeOK, Tick, Aged
<1>. QED BY <1>1, ReplicaEdits

LEMMA TickPull ==
    ASSUME SettlementOrder, SettlementOrder', PullInv, Tick
    PROVE  PullInv'
<1>. USE DEF SettlementOrder
<1>. SUFFICES ASSUME NEW r \in Replicas PROVE PullOK(r)'
  BY DEF PullInv
<1>1. /\ rep'[r].st = rep[r].st /\ rep'[r].known = rep[r].known /\ rep'[r].req = rep[r].req
      /\ rep'[r].remaining = rep[r].remaining /\ rep'[r].buf = {Aged(d) : d \in rep[r].buf}
  BY TickShape
<1>2. /\ PullOK(r) /\ gen' = gen /\ strange' = strange /\ rep[r].req \in Nat /\ rep[r].remaining \in Nat
      /\ rep[r].buf \subseteq DeliveryOf
  BY ReplicaFields DEF TypeOK, PullInv, Tick
<1>3. FreeSlots(r)' = FreeSlots(r) /\ SlotsOf(r)' = SlotsOf(r)
  <2>1. \A s \in Slots : dlv'[s].ph = "free" <=> dlv[s].ph = "free"
    <3>. SUFFICES ASSUME NEW s \in Slots, dlv[s].ph # "free" PROVE dlv'[s].ph # "free"
      BY DEF Tick
    <3>1. dlv'[s] = [dlv[s] EXCEPT !.left = Less1(dlv[s].left)] /\ dlv[s] \in Delivery
      BY DEF Tick, TypeOK
    <3>. QED BY <3>1 DEF Delivery, Free
  <2>. QED BY <2>1 DEF FreeSlots, SlotsOf
<1>4. /\ IsFiniteSet(rep'[r].buf) /\ Cardinality(rep'[r].buf) <= Cardinality(rep[r].buf)
      /\ Cardinality(rep'[r].buf) \in Nat /\ Cardinality(rep[r].buf) \in Nat
  <2>. DEFINE f == [d \in rep[r].buf |-> Aged(d)]
  <2>1. IsFiniteSet(rep[r].buf)
    BY <1>2 DEF PullOK
  <2>2. f \in Surjection(rep[r].buf, rep'[r].buf)
    BY <1>1 DEF Surjection
  <2>3. IsFiniteSet(rep'[r].buf) /\ Cardinality(rep'[r].buf) <= Cardinality(rep[r].buf)
    BY <2>1, <2>2, FS_Surjection
  <2>. QED BY <2>1, <2>3, FS_CardinalityType
<1>5. rep'[r].st # "batch" => rep'[r].req = 0 /\ rep'[r].buf = {}
  BY <1>1, <1>2 DEF PullOK
<1>6. rep'[r].st = "batch" => rep'[r].req + Cardinality(rep'[r].buf) <= rep'[r].remaining
  BY <1>1, <1>2, <1>4 DEF PullOK
<1>7. \A d \in rep'[r].buf : rep'[r].known <= d.gen /\ d.gen <= gen'
  BY <1>1, <1>2, AgedFields DEF PullOK
<1>. QED BY <1>1, <1>2, <1>3, <1>4, <1>5, <1>6, <1>7 DEF PullOK

\* The bounds of the pull loops are inductive, given the types.
LEMMA PullStep == SettlementOrder /\ SettlementOrder' /\ PullInv /\ [Next]_vars => PullInv'
<1>. SUFFICES ASSUME SettlementOrder, SettlementOrder', PullInv, [Next]_vars PROVE PullInv'
  OBVIOUS
<1>1. ASSUME NEW r \in Replicas, PullLoop(r) \/ Lifecycle(r) PROVE PullInv'
  <2>1. CASE Moves(r)
    BY <2>1, MovePull
  <2>2. ASSUME NEW d \in rep[r].buf, NEW s \in Slots, Admit(r, d, s) PROVE PullInv'
    BY <2>2, AdmitPull
  <2>. QED BY <1>1, <2>1, <2>2, SendPullPull DEF PullLoop, Lifecycle, Moves
<1>2. ASSUME NEW r \in Replicas, NEW m \in Msgs, Deliver(r, m) \/ LoseDelivery(r, m) PROVE PullInv'
  BY <1>2, DeliverPull, LoseDeliveryPull
<1>3. CASE \/ \E s \in Slots : Process(s)
           \/ \E e \in wire : \/ \E answered \in BOOLEAN : ExecAck(e, answered) \/ StoreTransfer(e, answered)
                              \/ ExecNak(e) \/ Lose(e)
           \/ \E m \in Msgs : Redeliver(m) \/ Forget(m)
           \/ Delete
           \/ Recreate
           \/ UNCHANGED vars
  <2>1. (\A r \in Replicas : Rests(r)) /\ FreedOnly /\ strange' = strange
    BY <1>3, OthersShape
  <2>2. gen <= gen'
    <3>1. gen' = gen \/ gen' = gen + 1
      BY <1>3 DEF Process, HandlerEnds, TransferFails, AckUnconfirmed, ExecAck, StoreTransfer, ExecNak,
                  Lose, Redeliver, Forget, Delete, Recreate, Created, vars
    <3>2. gen \in Nat
      BY DEF SettlementOrder, TypeOK
    <3>. QED BY <3>1, <3>2
  <2>3. TypeOK /\ TypeOK'
    BY DEF SettlementOrder
  <2>. QED BY <2>1, <2>2, <2>3, RestsPull DEF PullInv
<1>4. CASE Tick
  BY <1>4, TickPull
<1>5. CASE Broker
  BY <1>5, <1>2, <1>3 DEF Broker
<1>6. CASE UNCHANGED vars
  BY <1>6, <1>3
<1>7. ASSUME NEW s \in Slots, Process(s) PROVE PullInv'
  BY <1>7, <1>3
<1>. QED BY <1>1, <1>4, <1>5, <1>6, <1>7 DEF Next

\* Whatever is buffered or still to come fits in the free slots, and a durable that
\* replaced a replica's own costs it one batch at most, for any number of replicas,
\* slots and messages (consumer.rs consume, durable_is_gone).
THEOREM PullsSafe == Spec => []PullsBounded
<1>1. Init => PullInv
  <2>. SUFFICES ASSUME Init, NEW r \in Replicas PROVE PullOK(r)
    BY DEF PullInv
  <2>1. rep[r].st = "check" /\ rep[r].buf = {} /\ rep[r].req = 0 /\ rep[r].known = 1 /\ strange[r] = 0 /\ gen = 1
    BY PollingFields DEF Init
  <2>2. IsFiniteSet({}) /\ 0 <= Cardinality(SlotsOf(r))
    BY FS_EmptySet, SlotCounts
  <2>. QED BY <2>1, <2>2 DEF PullOK
<1>2. SettlementOrder /\ PullInv => PullsBounded
  <2>. SUFFICES ASSUME SettlementOrder, PullInv, NEW r \in Replicas
                PROVE  /\ rep[r].req + Cardinality(rep[r].buf) <= Cardinality(FreeSlots(r))
                       /\ strange[r] <= Cardinality(SlotsOf(r))
    BY DEF PullsBounded
  <2>1. /\ PullOK(r) /\ rep[r].req \in Nat /\ rep[r].remaining \in Nat /\ Cardinality(FreeSlots(r)) \in Nat
        /\ Cardinality({}) = 0
    BY SlotCounts, ReplicaFields, FS_EmptySet DEF PullInv, SettlementOrder, TypeOK
  <2>2. Cardinality(rep[r].buf) \in Nat
    BY <2>1, FS_CardinalityType DEF PullOK
  <2>3. CASE rep[r].st = "batch"
    BY <2>1, <2>2, <2>3 DEF PullOK
  <2>4. CASE rep[r].st # "batch"
    <3>1. rep[r].req = 0 /\ Cardinality(rep[r].buf) = 0
      BY <2>1, <2>4 DEF PullOK
    <3>. QED BY <2>1, <3>1 DEF PullOK
  <2>. QED BY <2>3, <2>4
<1>. QED BY <1>1, <1>2, PullStep, SettlesLast, PTL DEF Spec

-----------------------------------------------------------------------------
(* Handler runs and dead-letter copies *)

\* The delivery numbers of m that may still start a handler: buffered under the
\* current durable and within the limit.
Counted(m) == {k \in 1..MaxDeliveries :
                  \E r \in Replicas : \E d \in rep[r].buf : d.msg = m /\ d.gen = gen /\ d.dc = k}

\* No two buffered deliveries share a number that may run, none is numbered above the
\* broker's count, and the runs so far plus the ones to come are paid for by that count.
RunInv ==
    /\ \A m \in Msgs : /\ runs[m] + Cardinality(Counted(m)) <= MaxDeliveries
                       /\ runs[m] + Cardinality(Counted(m)) <= src[m].dc
    /\ \A r \in Replicas : \A d \in rep[r].buf :
           d.gen <= gen /\ (d.gen = gen => d.dc <= src[d.msg].dc)
    /\ \A r, q \in Replicas : \A d \in rep[r].buf, x \in rep[q].buf :
           d.msg = x.msg /\ d.gen = gen /\ x.gen = gen /\ d.dc = x.dc /\ d.dc <= MaxDeliveries
               => r = q /\ d = x

LEMMA CountedFinite == \A m : /\ IsFiniteSet(Counted(m)) /\ Cardinality(Counted(m)) \in Nat
                              /\ IsFiniteSet(Counted(m)') /\ Cardinality(Counted(m)') \in Nat
<1>. TAKE m
<1>1. IsFiniteSet(1..MaxDeliveries)
  BY Numbers, FS_Interval
<1>2. Counted(m) \in SUBSET (1..MaxDeliveries) /\ Counted(m)' \in SUBSET (1..MaxDeliveries)
  BY DEF Counted
<1>. QED BY <1>1, <1>2, FS_Subset, FS_CardinalityType

\* Every buffered delivery is one.
LEMMA BufType == ASSUME TypeOK
    PROVE  \A r \in Replicas : \A d \in rep[r].buf :
               d \in DeliveryOf /\ d.msg \in Msgs /\ d.dc \in 1..(MaxDeliveries + 1) /\ d.gen \in Nat
BY ReplicaFields, DeliveryFields DEF TypeOK

\* Steps that add nothing to a buffer and start no handler.
LEMMA ShrinkRuns ==
    ASSUME TypeOK, TypeOK', RunInv, gen' = gen, runs' = runs,
           \A m \in Msgs : src[m].dc <= src'[m].dc,
           \A r \in Replicas : rep'[r].buf \subseteq rep[r].buf
    PROVE  RunInv'
<1>0. \A m \in Msgs : src[m].dc \in Nat /\ src'[m].dc \in Nat /\ runs[m] \in Nat
  BY SourceFields, Numbers DEF TypeOK
<1>1. \A m \in Msgs : /\ runs'[m] + Cardinality(Counted(m)') <= MaxDeliveries
                      /\ runs'[m] + Cardinality(Counted(m)') <= src'[m].dc
  <2>. TAKE m \in Msgs
  <2>1. Counted(m)' \in SUBSET Counted(m)
    BY DEF Counted
  <2>2. Cardinality(Counted(m)') <= Cardinality(Counted(m))
    BY <2>1, CountedFinite, FS_Subset
  <2>3. /\ runs[m] + Cardinality(Counted(m)) <= MaxDeliveries
        /\ runs[m] + Cardinality(Counted(m)) <= src[m].dc
    BY DEF RunInv
  <2>. QED BY <1>0, <2>2, <2>3, CountedFinite, Numbers
<1>2. \A r \in Replicas : \A d \in rep'[r].buf :
           d.gen <= gen' /\ (d.gen = gen' => d.dc <= src'[d.msg].dc)
  <2>. TAKE r \in Replicas
  <2>. TAKE d \in rep'[r].buf
  <2>1. d \in rep[r].buf /\ d.msg \in Msgs /\ d.dc \in Nat
    BY BufType, Numbers
  <2>. QED BY <1>0, <2>1 DEF RunInv
<1>3. \A r, q \in Replicas : \A d \in rep'[r].buf, x \in rep'[q].buf :
           d.msg = x.msg /\ d.gen = gen' /\ x.gen = gen' /\ d.dc = x.dc /\ d.dc <= MaxDeliveries
               => r = q /\ d = x
  BY DEF RunInv
<1>. QED BY <1>1, <1>2, <1>3 DEF RunInv

\* A new durable has delivered nothing yet.
LEMMA CreatedRuns ==
    ASSUME TypeOK, TypeOK', RunInv, Created,
           \A r \in Replicas : rep'[r].buf \subseteq rep[r].buf
    PROVE  RunInv'
<1>1. gen' = gen + 1 /\ gen \in Nat /\ \A m \in Msgs : runs'[m] = 0 /\ src'[m].dc \in Nat
  BY SourceFields, Numbers DEF TypeOK, Created
<1>2. \A r \in Replicas : \A d \in rep'[r].buf : d.gen \in Nat /\ d.gen < gen'
  BY <1>1, BufType DEF RunInv
<1>3. \A m \in Msgs : Counted(m)' = {}
  BY <1>1, <1>2 DEF Counted
<1>4. \A m \in Msgs : /\ runs'[m] + Cardinality(Counted(m)') <= MaxDeliveries
                      /\ runs'[m] + Cardinality(Counted(m)') <= src'[m].dc
  <2>. TAKE m \in Msgs
  <2>1. Cardinality(Counted(m)') = 0
    BY <1>3, FS_EmptySet
  <2>. QED BY <1>1, <2>1, Numbers
<1>. QED BY <1>1, <1>2, <1>4 DEF RunInv

\* The broker numbers a delivery above every earlier one, as far as numbers may run.
LEMMA DeliverRuns ==
    ASSUME SettlementOrder, SettlementOrder', RunInv, NEW r \in Replicas, NEW m \in Msgs, Deliver(r, m)
    PROVE  RunInv'
<1>. USE DEF SettlementOrder
<1>. DEFINE d == [msg |-> m, dc |-> src'[m].dc, gen |-> gen, late |-> 0]
<1>1. /\ rep'[r] = [rep[r] EXCEPT !.req = rep[r].req - 1, !.buf = rep[r].buf \cup {d}]
      /\ \A q \in Replicas : q # r => rep'[q] = rep[q]
      /\ gen' = gen /\ runs' = runs /\ rep[r] \in Replica /\ d.msg = m /\ d.gen = gen /\ d.dc = src'[m].dc
  BY DEF TypeOK, Deliver
<1>. HIDE DEF d
<1>2. rep'[r].buf = rep[r].buf \cup {d}
  BY <1>1, ReplicaEdits
<1>3. /\ src[m].dc \in 0..(MaxDeliveries + 1)
      /\ src'[m].dc = IF src[m].dc > MaxDeliveries THEN src[m].dc ELSE src[m].dc + 1
      /\ \A k \in Msgs : k # m => src'[k] = src[k]
  BY SourceFields DEF TypeOK, Deliver, Delivered
<1>4. \A k \in Msgs : /\ runs'[k] + Cardinality(Counted(k)') <= MaxDeliveries
                      /\ runs'[k] + Cardinality(Counted(k)') <= src'[k].dc
  <2>1. \A k \in Msgs : k # m => Counted(k)' = Counted(k)
    BY <1>1, <1>2, ZenonT(40) DEF Counted
  <2>2. CASE src[m].dc < MaxDeliveries
    <3>0. d.dc = src[m].dc + 1
      BY <1>1, <1>3, <2>2, Numbers
    <3>1. Counted(m)' \in SUBSET (Counted(m) \cup {src[m].dc + 1})
      <4>. SUFFICES ASSUME NEW k \in 1..MaxDeliveries, k \in Counted(m)', k # src[m].dc + 1
                    PROVE  k \in Counted(m)
        BY DEF Counted
      <4>1. PICK q \in Replicas : \E x \in rep'[q].buf : x.msg = m /\ x.gen = gen /\ x.dc = k
        BY <1>1 DEF Counted
      <4>2. PICK x \in rep'[q].buf : x.msg = m /\ x.gen = gen /\ x.dc = k
        BY <4>1
      <4>3. x \in rep[q].buf
        BY <1>1, <1>2, <3>0, <4>2
      <4>. QED BY <4>2, <4>3 DEF Counted
    <3>2. Cardinality(Counted(m)') <= Cardinality(Counted(m)) + 1
      <4>1. Cardinality(Counted(m) \cup {src[m].dc + 1}) =
                IF src[m].dc + 1 \in Counted(m) THEN Cardinality(Counted(m)) ELSE Cardinality(Counted(m)) + 1
        BY CountedFinite, FS_AddElement
      <4>2. IsFiniteSet(Counted(m) \cup {src[m].dc + 1})
        BY CountedFinite, FS_AddElement
      <4>3. Cardinality(Counted(m)') <= Cardinality(Counted(m) \cup {src[m].dc + 1})
        BY <3>1, <4>2, FS_Subset
      <4>. QED BY <4>1, <4>3, CountedFinite
    <3>3. runs[m] \in Nat /\ runs[m] + Cardinality(Counted(m)) <= src[m].dc
      BY DEF TypeOK, RunInv
    <3>4. /\ runs'[m] + Cardinality(Counted(m)') <= MaxDeliveries
          /\ runs'[m] + Cardinality(Counted(m)') <= src'[m].dc
      BY <1>1, <1>3, <2>2, <3>2, <3>3, CountedFinite, Numbers
    <3>. QED BY <1>1, <1>3, <2>1, <3>4 DEF RunInv
  <2>3. CASE ~(src[m].dc < MaxDeliveries)
    <3>0. d.dc \notin 1..MaxDeliveries
      BY <1>1, <1>3, <2>3, Numbers
    <3>1. Counted(m)' = Counted(m)
      <4>1. ASSUME NEW k \in 1..MaxDeliveries
            PROVE  (\E q \in Replicas : \E x \in rep'[q].buf : x.msg = m /\ x.gen = gen /\ x.dc = k)
                <=> (\E q \in Replicas : \E x \in rep[q].buf : x.msg = m /\ x.gen = gen /\ x.dc = k)
        <5>1. \A q \in Replicas : \A x \in rep'[q].buf : x.dc = k => x \in rep[q].buf
          BY <1>1, <1>2, <3>0
        <5>2. \A q \in Replicas : rep[q].buf \subseteq rep'[q].buf
          BY <1>1, <1>2
        <5>. QED BY <5>1, <5>2
      <4>. QED BY <1>1, <4>1 DEF Counted
    <3>2. /\ runs'[m] + Cardinality(Counted(m)') <= MaxDeliveries
          /\ runs'[m] + Cardinality(Counted(m)') <= src'[m].dc
      <4>1. runs[m] \in Nat /\ runs[m] + Cardinality(Counted(m)) <= MaxDeliveries
        BY DEF TypeOK, RunInv
      <4>. QED BY <1>1, <1>3, <2>3, <3>1, <4>1, CountedFinite, Numbers
    <3>. QED BY <1>1, <1>3, <2>1, <3>2 DEF RunInv
  <2>. QED BY <2>2, <2>3
<1>5. \A q \in Replicas : \A x \in rep'[q].buf : x = d \/ x \in rep[q].buf
  BY <1>1, <1>2
<1>6. \A q \in Replicas : \A x \in rep'[q].buf :
          x.gen <= gen' /\ (x.gen = gen' => x.dc <= src'[x.msg].dc)
  <2>. TAKE q \in Replicas
  <2>. TAKE x \in rep'[q].buf
  <2>1. CASE x = d
    BY <1>1, <1>3, <2>1, Numbers DEF TypeOK
  <2>2. CASE x \in rep[q].buf
    <3>1. x.msg \in Msgs /\ x.dc \in Nat /\ x.gen <= gen /\ (x.gen = gen => x.dc <= src[x.msg].dc)
      BY <2>2, BufType, Numbers DEF RunInv
    <3>. QED BY <1>1, <1>3, <3>1, Numbers
  <2>. QED BY <1>5, <2>1, <2>2
<1>7. \A q, p \in Replicas : \A x \in rep'[q].buf, y \in rep'[p].buf :
           x.msg = y.msg /\ x.gen = gen' /\ y.gen = gen' /\ x.dc = y.dc /\ x.dc <= MaxDeliveries
               => q = p /\ x = y
  <2>1. \A q \in Replicas : \A x \in rep[q].buf :
            x.msg = m /\ x.gen = gen /\ x.dc <= MaxDeliveries => x.dc # d.dc
    <3>. SUFFICES ASSUME NEW q \in Replicas, NEW x \in rep[q].buf, x.msg = m, x.gen = gen, x.dc <= MaxDeliveries
                  PROVE  x.dc # d.dc
      OBVIOUS
    <3>1. x.dc <= src[m].dc /\ x.dc \in Nat
      BY BufType, Numbers DEF RunInv
    <3>. QED BY <1>1, <1>3, <3>1, Numbers
  <2>2. \A q \in Replicas : \A x \in rep'[q].buf : q # r => x \in rep[q].buf
    BY <1>1
  <2>3. \A q \in Replicas : \A x \in rep'[q].buf : x \notin rep[q].buf => q = r /\ x = d
    BY <1>1, <1>2
  <2>. QED BY <1>1, <2>1, <2>2, <2>3 DEF RunInv
<1>. QED BY <1>4, <1>6, <1>7 DEF RunInv

\* An admitted delivery that runs the handler uses up its number.
LEMMA AdmitRuns ==
    ASSUME SettlementOrder, SettlementOrder', RunInv,
           NEW r \in Replicas, NEW d \in rep[r].buf, NEW s \in Slots, Admit(r, d, s)
    PROVE  RunInv'
<1>. USE DEF SettlementOrder
<1>1. /\ rep'[r].buf = rep[r].buf \ {d} /\ (\A q \in Replicas : q # r => rep'[q] = rep[q])
      /\ gen' = gen /\ src' = src
  <2>1. /\ rep'[r] = [rep[r] EXCEPT !.buf = rep[r].buf \ {d}, !.remaining = rep[r].remaining - 1,
                                    !.st = IF rep[r].remaining = 1 THEN "check" ELSE rep[r].st]
        /\ rep[r] \in Replica /\ (\A q \in Replicas : q # r => rep'[q] = rep[q])
    BY DEF TypeOK, Admit
  <2>2. rep'[r].buf = rep[r].buf \ {d}
    BY <2>1, ReplicaEdits
  <2>3. gen' = gen /\ src' = src
    BY DEF Admit
  <2>. QED BY <2>1, <2>2, <2>3
<1>2. /\ \A q \in Replicas : rep'[q].buf \subseteq rep[q].buf
      /\ \A k \in Msgs : src[k].dc <= src'[k].dc
  BY <1>1, SourceFields, Numbers DEF TypeOK
<1>3. CASE Bypasses(d) \/ d.gen # gen
  <2>1. runs' = runs
    BY <1>3 DEF Admit
  <2>. QED BY <1>1, <1>2, <2>1, ShrinkRuns
<1>4. CASE ~(Bypasses(d) \/ d.gen # gen)
  <2>1. /\ d.msg \in Msgs /\ d.dc \in 1..MaxDeliveries /\ d.gen = gen
        /\ runs' = [runs EXCEPT ![d.msg] = runs[d.msg] + 1]
    BY <1>4, BufType, Numbers DEF Admit, Bypasses
  <2>2. Counted(d.msg)' \in SUBSET (Counted(d.msg) \ {d.dc}) /\ d.dc \in Counted(d.msg)
    <3>1. d.dc \in Counted(d.msg)
      BY <2>1 DEF Counted
    <3>2. d.dc \notin Counted(d.msg)'
      <4>. SUFFICES ASSUME NEW q \in Replicas, NEW x \in rep'[q].buf, x.msg = d.msg, x.gen = gen, x.dc = d.dc
                    PROVE  FALSE
        BY <1>1 DEF Counted
      <4>1. x \in rep[q].buf
        BY <1>2
      <4>2. q = r /\ x = d
        BY <2>1, <4>1 DEF RunInv
      <4>. QED BY <1>1, <4>2
    <3>3. Counted(d.msg)' \subseteq Counted(d.msg)
      BY <1>1, <1>2 DEF Counted
    <3>. QED BY <3>1, <3>2, <3>3
  <2>3. Cardinality(Counted(d.msg)') + 1 <= Cardinality(Counted(d.msg))
    <3>1. IsFiniteSet(Counted(d.msg) \ {d.dc}) /\ Cardinality(Counted(d.msg) \ {d.dc}) = Cardinality(Counted(d.msg)) - 1
      BY <2>2, CountedFinite, FS_RemoveElement
    <3>2. Cardinality(Counted(d.msg)') <= Cardinality(Counted(d.msg) \ {d.dc})
      BY <2>2, <3>1, FS_Subset
    <3>. QED BY <3>1, <3>2, CountedFinite
  <2>4. \A k \in Msgs : /\ runs'[k] + Cardinality(Counted(k)') <= MaxDeliveries
                        /\ runs'[k] + Cardinality(Counted(k)') <= src'[k].dc
    <3>. TAKE k \in Msgs
    <3>1. /\ runs[k] + Cardinality(Counted(k)) <= MaxDeliveries /\ runs[k] \in Nat
          /\ runs[k] + Cardinality(Counted(k)) <= src[k].dc /\ src[k].dc \in Nat
      BY SourceFields, Numbers DEF RunInv, TypeOK
    <3>2. CASE k = d.msg
      <4>1. runs'[k] = runs[k] + 1
        BY <2>1, <3>2 DEF TypeOK
      <4>. QED BY <1>1, <2>3, <3>1, <3>2, <4>1, CountedFinite, Numbers
    <3>3. CASE k # d.msg
      <4>1. runs'[k] = runs[k] /\ Counted(k)' \in SUBSET Counted(k)
        BY <1>1, <1>2, <2>1, <3>3 DEF TypeOK, Counted
      <4>2. Cardinality(Counted(k)') <= Cardinality(Counted(k))
        BY <4>1, CountedFinite, FS_Subset
      <4>. QED BY <1>1, <3>1, <4>1, <4>2, CountedFinite, Numbers
    <3>. QED BY <3>2, <3>3
  <2>. QED BY <1>1, <1>2, <2>4 DEF RunInv
<1>. QED BY <1>3, <1>4

\* Time passing ages the buffered deliveries and counts none again.
LEMMA TickRuns ==
    ASSUME SettlementOrder, RunInv, Tick
    PROVE  RunInv'
<1>. USE DEF SettlementOrder
<1>1. /\ gen' = gen /\ runs' = runs
      /\ \A m \in Msgs : src'[m].dc = src[m].dc
  <2>1. \A m \in Msgs : src[m] \in Source /\ src'[m] = [src[m] EXCEPT !.timer = Less1(src[m].timer)]
    BY DEF TypeOK, Tick
  <2>2. \A x \in Source : \A n : [x EXCEPT !.timer = n].dc = x.dc
    BY DEF Source
  <2>. QED BY <2>1, <2>2 DEF Tick
<1>2. \A r \in Replicas : /\ \A x \in rep'[r].buf : \E d \in rep[r].buf : x = Aged(d)
                          /\ \A d \in rep[r].buf : Aged(d) \in rep'[r].buf
  BY TickShape
<1>3. \A r \in Replicas : \A d \in rep[r].buf :
          d \in DeliveryOf /\ Aged(d).msg = d.msg /\ Aged(d).dc = d.dc /\ Aged(d).gen = d.gen /\ d.msg \in Msgs
  BY BufType, AgedFields
<1>4. \A m : Counted(m)' = Counted(m)
  <2>. TAKE m
  <2>1. ASSUME NEW k \in 1..MaxDeliveries
        PROVE  (\E r \in Replicas : \E x \in rep'[r].buf : x.msg = m /\ x.gen = gen /\ x.dc = k)
            <=> (\E r \in Replicas : \E x \in rep[r].buf : x.msg = m /\ x.gen = gen /\ x.dc = k)
    <3>1. ASSUME NEW r \in Replicas, NEW x \in rep'[r].buf, x.msg = m, x.gen = gen, x.dc = k
          PROVE  \E d \in rep[r].buf : d.msg = m /\ d.gen = gen /\ d.dc = k
      BY <1>2, <1>3, <3>1
    <3>2. ASSUME NEW r \in Replicas, NEW d \in rep[r].buf, d.msg = m, d.gen = gen, d.dc = k
          PROVE  \E x \in rep'[r].buf : x.msg = m /\ x.gen = gen /\ x.dc = k
      BY <1>2, <1>3, <3>2
    <3>. QED BY <3>1, <3>2
  <2>. QED BY <1>1, <2>1 DEF Counted
<1>5. \A m \in Msgs : /\ runs'[m] + Cardinality(Counted(m)') <= MaxDeliveries
                      /\ runs'[m] + Cardinality(Counted(m)') <= src'[m].dc
  BY <1>1, <1>4 DEF RunInv
<1>6. \A r \in Replicas : \A x \in rep'[r].buf :
          x.gen <= gen' /\ (x.gen = gen' => x.dc <= src'[x.msg].dc)
  <2>. TAKE r \in Replicas
  <2>. TAKE x \in rep'[r].buf
  <2>1. PICK d \in rep[r].buf : x = Aged(d)
    BY <1>2
  <2>. QED BY <1>1, <1>3, <2>1 DEF RunInv
<1>7. \A r, q \in Replicas : \A x \in rep'[r].buf, y \in rep'[q].buf :
          x.msg = y.msg /\ x.gen = gen' /\ y.gen = gen' /\ x.dc = y.dc /\ x.dc <= MaxDeliveries
              => r = q /\ x = y
  <2>. TAKE r, q \in Replicas
  <2>. TAKE x \in rep'[r].buf, y \in rep'[q].buf
  <2>1. PICK d \in rep[r].buf : x = Aged(d)
    BY <1>2
  <2>2. PICK e \in rep[q].buf : y = Aged(e)
    BY <1>2
  <2>. QED BY <1>1, <1>3, <2>1, <2>2 DEF RunInv
<1>. QED BY <1>5, <1>6, <1>7 DEF RunInv

\* The broker never counts a message's deliveries down, but with a new durable.
LEMMA CountsGrow ==
    ASSUME SettlementOrder,
           \/ \E s \in Slots : Process(s)
           \/ \E e \in wire : \/ \E answered \in BOOLEAN : ExecAck(e, answered) \/ StoreTransfer(e, answered)
                              \/ ExecNak(e) \/ Lose(e)
           \/ \E m \in Msgs : Redeliver(m) \/ Forget(m)
           \/ Delete
           \/ UNCHANGED vars
    PROVE  gen' = gen /\ runs' = runs /\ \A m \in Msgs : src[m].dc <= src'[m].dc
<1>. USE DEF SettlementOrder
<1>0. \A m \in Msgs : src[m] \in Source /\ src[m].dc \in Nat
  BY SourceFields, Numbers DEF TypeOK
<1>1. CASE \/ \E s \in Slots : Process(s)
           \/ \E e \in wire : Lose(e) \/ \E answered \in BOOLEAN : StoreTransfer(e, answered)
           \/ \E m \in Msgs : Forget(m)
           \/ Delete
           \/ UNCHANGED vars
  <2>1. gen' = gen /\ runs' = runs /\ src' = src
    BY <1>1 DEF Process, HandlerEnds, TransferFails, AckUnconfirmed, StoreTransfer, Lose, Forget, Delete, vars
  <2>. QED BY <1>0, <2>1
<1>2. \A x \in Source : [x EXCEPT !.st = "stored"].dc = x.dc
  BY DEF Source
<1>3. ASSUME NEW e \in wire, (\E answered \in BOOLEAN : ExecAck(e, answered)) \/ ExecNak(e)
      PROVE  gen' = gen /\ runs' = runs /\ \A m \in Msgs : src[m].dc <= src'[m].dc
  <2>1. gen' = gen /\ runs' = runs
    BY <1>3 DEF ExecAck, ExecNak
  <2>2. \A m \in Msgs : \/ src'[m] = src[m]
                        \/ src'[m] = [src[m] EXCEPT !.st = "acked", !.timer = 0]
                        \/ src'[m] = [src[m] EXCEPT !.st = "stored", !.timer = e.delay]
    BY <1>3, ZenonT(40) DEF ExecAck, ExecNak, TypeOK
  <2>3. ASSUME NEW m \in Msgs PROVE src'[m].dc = src[m].dc
    <3>1. CASE src'[m] = [src[m] EXCEPT !.st = "acked", !.timer = 0]
      BY <1>0, <3>1 DEF Source
    <3>2. CASE src'[m] = [src[m] EXCEPT !.st = "stored", !.timer = e.delay]
      BY <1>0, <3>2 DEF Source
    <3>. QED BY <2>2, <3>1, <3>2
  <2>. QED BY <1>0, <2>1, <2>3
<1>4. ASSUME NEW m \in Msgs, Redeliver(m)
      PROVE  gen' = gen /\ runs' = runs /\ \A k \in Msgs : src[k].dc <= src'[k].dc
  <2>1. /\ gen' = gen /\ runs' = runs
        /\ \A k \in Msgs : src'[k] = src[k] \/ src'[k] = [src[k] EXCEPT !.st = "stored"]
    BY <1>4 DEF Redeliver, TypeOK
  <2>2. \A k \in Msgs : src'[k].dc = src[k].dc
    BY <1>0, <1>2, <2>1
  <2>. QED BY <1>0, <2>1, <2>2
<1>. QED BY <1>1, <1>3, <1>4

\* The account of runs is inductive, given the types.
LEMMA RunStep == SettlementOrder /\ SettlementOrder' /\ RunInv /\ [Next]_vars => RunInv'
<1>. SUFFICES ASSUME SettlementOrder, SettlementOrder', RunInv, [Next]_vars PROVE RunInv'
  OBVIOUS
<1>0. TypeOK /\ TypeOK'
  BY DEF SettlementOrder
<1>1. ASSUME NEW r \in Replicas, PullLoop(r) \/ Lifecycle(r) PROVE RunInv'
  <2>1. CASE Moves(r)
    <3>1. \A q \in Replicas : rep'[q].buf \subseteq rep[q].buf
      BY <2>1, MoveShape DEF Cleared
    <3>2. CASE Start(r) /\ ~exists
      BY <1>0, <3>1, <3>2, CreatedRuns DEF Start
    <3>3. CASE ~(Start(r) /\ ~exists)
      <4>1. gen' = gen /\ runs' = runs /\ src' = src
        BY <2>1, <3>3 DEF Moves, CheckDurable, EndBatch, Drain, Finish, Abort, Start
      <4>2. \A m \in Msgs : src[m].dc <= src'[m].dc
        BY <1>0, <4>1, SourceFields, Numbers DEF TypeOK
      <4>. QED BY <1>0, <3>1, <4>1, <4>2, ShrinkRuns
    <3>. QED BY <3>2, <3>3
  <2>2. ASSUME NEW d \in rep[r].buf, NEW s \in Slots, Admit(r, d, s) PROVE RunInv'
    BY <2>2, AdmitRuns
  <2>3. CASE SendPull(r)
    <3>1. /\ rep'[r] = [rep[r] EXCEPT !.st = "batch", !.remaining = Cardinality(FreeSlots(r)),
                                      !.req = IF exists THEN Cardinality(FreeSlots(r)) ELSE 0]
          /\ rep[r] \in Replica /\ \A q \in Replicas : q # r => rep'[q] = rep[q]
      BY <1>0, <2>3 DEF TypeOK, SendPull
    <3>2. \A q \in Replicas : rep'[q].buf \subseteq rep[q].buf
      <4>1. rep'[r].buf = rep[r].buf
        BY <3>1, ReplicaEdits
      <4>. QED BY <3>1, <4>1
    <3>3. gen' = gen /\ runs' = runs /\ \A m \in Msgs : src[m].dc <= src'[m].dc
      BY <1>0, <2>3, SourceFields, Numbers DEF TypeOK, SendPull
    <3>. QED BY <1>0, <3>2, <3>3, ShrinkRuns
  <2>. QED BY <1>1, <2>1, <2>2, <2>3 DEF PullLoop, Lifecycle, Moves
<1>2. ASSUME NEW r \in Replicas, NEW m \in Msgs, LoseDelivery(r, m) PROVE RunInv'
  <2>1. /\ rep'[r] = [rep[r] EXCEPT !.req = rep[r].req - 1] /\ rep[r] \in Replica
        /\ \A q \in Replicas : q # r => rep'[q] = rep[q]
    BY <1>0, <1>2 DEF TypeOK, LoseDelivery
  <2>2. \A q \in Replicas : rep'[q].buf \subseteq rep[q].buf
    <3>1. rep'[r].buf = rep[r].buf
      BY <2>1, ReplicaEdits
    <3>. QED BY <2>1, <3>1
  <2>3. /\ src[m].dc \in Nat /\ src'[m].dc = IF src[m].dc > MaxDeliveries THEN src[m].dc ELSE src[m].dc + 1
        /\ \A k \in Msgs : src[k].dc \in Nat /\ (k # m => src'[k] = src[k])
    BY <1>0, <1>2, SourceFields, Numbers DEF TypeOK, LoseDelivery, Delivered
  <2>4. gen' = gen /\ runs' = runs
    BY <1>2 DEF LoseDelivery
  <2>5. \A k \in Msgs : src[k].dc <= src'[k].dc
    BY <2>3, Numbers
  <2>. QED BY <1>0, <2>2, <2>4, <2>5, ShrinkRuns
<1>3. CASE \/ \E s \in Slots : Process(s)
           \/ \E e \in wire : \/ \E answered \in BOOLEAN : ExecAck(e, answered) \/ StoreTransfer(e, answered)
                              \/ ExecNak(e) \/ Lose(e)
           \/ \E m \in Msgs : Redeliver(m) \/ Forget(m)
           \/ Delete
           \/ UNCHANGED vars
  <2>1. \A r \in Replicas : rep'[r].buf \subseteq rep[r].buf
    BY <1>3, OthersShape DEF Rests
  <2>2. gen' = gen /\ runs' = runs /\ \A m \in Msgs : src[m].dc <= src'[m].dc
    BY <1>3, CountsGrow
  <2>. QED BY <1>0, <2>1, <2>2, ShrinkRuns
<1>4. CASE Recreate
  <2>1. \A r \in Replicas : rep'[r].buf \subseteq rep[r].buf
    BY <1>4 DEF Recreate
  <2>. QED BY <1>0, <1>4, <2>1, CreatedRuns DEF Recreate
<1>5. CASE Tick
  BY <1>5, TickRuns
<1>6. ASSUME NEW r \in Replicas, NEW m \in Msgs, Deliver(r, m) PROVE RunInv'
  BY <1>6, DeliverRuns
<1>7. CASE Broker
  BY <1>7, <1>2, <1>3, <1>4, <1>6 DEF Broker
<1>8. CASE UNCHANGED vars
  BY <1>8, <1>3
<1>9. ASSUME NEW s \in Slots, Process(s) PROVE RunInv'
  BY <1>9, <1>3
<1>. QED BY <1>1, <1>5, <1>7, <1>8, <1>9 DEF Next

\* The dead-letter stream remembers the transfer of every copy it holds.
CopyInv == /\ \A m \in Msgs : dlq[m] <= 1 /\ (dlq[m] = 1 => <<m>> \in window)
           /\ \A id \in window : \E m \in Msgs : id = <<m>>

\* Only a transfer stores a copy, and only under an identity not remembered.
LEMMA CopyStep == TypeOK /\ CopyInv /\ [Next]_vars => CopyInv'
<1>. SUFFICES ASSUME TypeOK, CopyInv, [Next]_vars PROVE CopyInv'
  OBVIOUS
<1>1. CASE UNCHANGED <<dlq, window>>
  BY <1>1 DEF CopyInv
<1>2. ASSUME NEW e \in wire, NEW answered \in BOOLEAN, StoreTransfer(e, answered) PROVE CopyInv'
  <2>1. /\ e.msg \in Msgs /\ TransferId(e) = <<e.msg>> /\ dlq \in [Msgs -> Nat]
    BY DEF TypeOK, Settlement, TransferId
  <2>2. /\ dlq' = IF <<e.msg>> \in window THEN dlq ELSE [dlq EXCEPT ![e.msg] = dlq[e.msg] + 1]
        /\ window' = window \cup {<<e.msg>>}
    BY <1>2, <2>1 DEF StoreTransfer
  <2>3. ASSUME NEW m \in Msgs PROVE dlq'[m] <= 1 /\ (dlq'[m] = 1 => <<m>> \in window')
    <3>1. dlq[m] \in Nat /\ dlq[m] <= 1 /\ (dlq[m] = 1 => <<m>> \in window)
      BY <2>1 DEF CopyInv
    <3>. QED BY <2>1, <2>2, <3>1
  <2>. QED BY <2>1, <2>2, <2>3 DEF CopyInv
<1>3. ASSUME NEW m \in Msgs, Forget(m) PROVE CopyInv'
  <2>1. /\ dlq \in [Msgs -> Nat] /\ dlq' = [dlq EXCEPT ![m] = 0]
        /\ window' = {id \in window : id[1] # m}
    BY <1>3 DEF TypeOK, Forget
  <2>2. ASSUME NEW k \in Msgs PROVE dlq'[k] <= 1 /\ (dlq'[k] = 1 => <<k>> \in window')
    BY <2>1 DEF CopyInv
  <2>. QED BY <2>1, <2>2 DEF CopyInv
<1>4. CASE \E r \in Replicas : PullLoop(r) \/ Lifecycle(r)
  <2>1. UNCHANGED <<dlq, window>>
    <3>1. ASSUME NEW r \in Replicas, PullLoop(r) PROVE UNCHANGED <<dlq, window>>
      BY <3>1 DEF PullLoop, CheckDurable, SendPull, EndBatch, Admit
    <3>2. ASSUME NEW r \in Replicas, Lifecycle(r) PROVE UNCHANGED <<dlq, window>>
      BY <3>2 DEF Lifecycle, Drain, Finish, Abort, Start
    <3>. QED BY <1>4, <3>1, <3>2
  <2>. QED BY <1>1, <2>1
<1>5. CASE \E s \in Slots : Process(s)
  <2>1. UNCHANGED <<dlq, window>>
    BY <1>5 DEF Process, HandlerEnds, TransferFails, AckUnconfirmed
  <2>. QED BY <1>1, <2>1
<1>6. CASE Broker
  <2>1. CASE \/ \E r \in Replicas, m \in Msgs : Deliver(r, m) \/ LoseDelivery(r, m)
             \/ \E e \in wire : (\E answered \in BOOLEAN : ExecAck(e, answered)) \/ ExecNak(e) \/ Lose(e)
             \/ \E m \in Msgs : Redeliver(m)
             \/ Delete \/ Recreate
    <3>1. UNCHANGED <<dlq, window>>
      BY <2>1 DEF Deliver, LoseDelivery, ExecAck, ExecNak, Lose, Redeliver, Delete, Recreate
    <3>. QED BY <1>1, <3>1
  <2>. QED BY <1>2, <1>3, <1>6, <2>1 DEF Broker
<1>7. CASE Tick \/ UNCHANGED vars
  BY <1>1, <1>7 DEF Tick, vars
<1>. QED BY <1>4, <1>5, <1>6, <1>7 DEF Next

\* Under one durable a message's handler starts at most MAX_DELIVERIES times and its
\* transfers leave one copy in the dedup window, lost, late and repeated settlements,
\* crashes and replaced durables included (consumer.rs handle, wire.rs dead_letter_id).
THEOREM RunsSafe == Spec => [](HandlerBound /\ OneCopy)
<1>1. Init => RunInv /\ CopyInv
  <2>. SUFFICES ASSUME Init PROVE RunInv /\ CopyInv
    OBVIOUS
  <2>1. \A r \in Replicas : rep[r].buf = {}
    BY PollingFields DEF Init, Polling
  <2>2. \A m \in Msgs : runs[m] = 0 /\ src[m].dc = 0 /\ Counted(m) = {}
    BY <2>1 DEF Init, Fresh, Counted
  <2>3. Cardinality({}) = 0
    BY FS_EmptySet
  <2>4. RunInv
    BY <2>1, <2>2, <2>3, Numbers DEF RunInv
  <2>5. CopyInv
    BY DEF Init, CopyInv
  <2>. QED BY <2>4, <2>5
<1>2. SettlementOrder /\ RunInv /\ CopyInv => HandlerBound /\ OneCopy
  <2>. SUFFICES ASSUME SettlementOrder, RunInv, CopyInv, NEW m \in Msgs
                PROVE  runs[m] <= MaxDeliveries /\ dlq[m] <= 1
    BY DEF HandlerBound, OneCopy
  <2>1. runs[m] \in Nat /\ runs[m] + Cardinality(Counted(m)) <= MaxDeliveries /\ dlq[m] <= 1
    BY DEF SettlementOrder, TypeOK, RunInv, CopyInv
  <2>. QED BY <2>1, CountedFinite, Numbers
<1>3. SettlementOrder => TypeOK
  BY DEF SettlementOrder
<1>. QED BY <1>1, <1>2, <1>3, RunStep, CopyStep, SettlesLast, PTL DEF Spec

-----------------------------------------------------------------------------
(* One worker at a time, when the network keeps its budgets *)

\* The ticks a slot may still need before the broker has its answer.
Needs(x) == CASE x.ph = "handle" -> x.left + Budget + Budget
              [] x.ph = "dlq" -> x.left + Budget
              [] OTHER -> x.left

\* A buffered delivery of m excludes slots and settlements of m, and has time left
\* for a handler run and both round trips.
BufWork(m) == \A r \in Replicas : \A d \in rep[r].buf : d.msg = m =>
    /\ src[m].st = "out" /\ (Transit - d.late) + Handler + Budget + Budget < src[m].timer
    /\ \A q \in Replicas : \A x \in rep[q].buf : x.msg = m => r = q /\ d = x
    /\ \A s \in Slots : dlv[s].msg # m
    /\ \A e \in wire : e.msg = m => e.kind = "dlq"

\* One slot works on m, the ack wait outlasts what it still needs, and it is past its
\* handler once an acknowledgement is out.
SlotWork(m) == \A s \in Slots : dlv[s].msg = m =>
    /\ src[m].st # "stored" /\ (src[m].st = "acked" => dlv[s].ph = "ack")
    /\ src[m].st = "out" => Needs(dlv[s]) < src[m].timer
    /\ \A t \in Slots : dlv[t].msg = m => s = t
    /\ \A e \in wire : e.msg = m /\ e.kind # "dlq" => e.kind = "ack" /\ dlv[s].ph = "ack"

\* A settlement on its way arrives before the ack wait ends, and a redelivery request
\* is the last word on its delivery.
WireWork(m) == \A e \in wire : e.msg = m /\ e.kind # "dlq" =>
    /\ src[m].st # "stored" /\ (src[m].st = "out" => e.ttl < src[m].timer)
    /\ e.kind = "nak" => /\ src[m].st = "out"
                         /\ \A f \in wire : f.msg = m /\ f.kind # "dlq" => f = e

WorkOf(m) == BufWork(m) /\ SlotWork(m) /\ WireWork(m)

WorkInv == gen >= 1 /\ (gen = 1 => \A m \in Msgs : WorkOf(m))

\* A step that at most takes something away from m's deliveries and settlements.
Quiet(m) ==
    /\ src'[m] = src[m]
    /\ \A r \in Replicas : \A d \in rep'[r].buf : d.msg = m => d \in rep[r].buf
    /\ \A s \in Slots : dlv'[s].msg = m => dlv'[s] = dlv[s]
    /\ \A e \in wire' : e.msg = m /\ e.kind # "dlq" => e \in wire

LEMMA QuietWork == ASSUME NEW m, WorkOf(m), Quiet(m) PROVE WorkOf(m)'
<1>1. BufWork(m)'
  <2>. SUFFICES ASSUME NEW r \in Replicas, NEW d \in rep'[r].buf, d.msg = m
                PROVE  /\ src'[m].st = "out" /\ (Transit - d.late) + Handler + Budget + Budget < src'[m].timer
                       /\ \A q \in Replicas : \A x \in rep'[q].buf : x.msg = m => r = q /\ d = x
                       /\ \A s \in Slots : dlv'[s].msg # m
                       /\ \A e \in wire' : e.msg = m => e.kind = "dlq"
    BY DEF BufWork
  <2>1. d \in rep[r].buf
    BY DEF Quiet
  <2>. QED BY <2>1 DEF WorkOf, BufWork, Quiet
<1>2. SlotWork(m)'
  BY DEF WorkOf, SlotWork, Quiet, Needs
<1>3. WireWork(m)'
  BY DEF WorkOf, WireWork, Quiet
<1>. QED BY <1>1, <1>2, <1>3 DEF WorkOf

\* Nothing of m is in a client or on the wire.
Idle(m) == /\ \A r \in Replicas : \A d \in rep[r].buf : d.msg # m
           /\ \A s \in Slots : dlv[s].msg # m
           /\ \A e \in wire : e.msg = m => e.kind = "dlq"

LEMMA IdleWork == ASSUME NEW m, Idle(m) PROVE WorkOf(m)
BY DEF Idle, WorkOf, BufWork, SlotWork, WireWork

LEMMA StoredIdle == ASSUME NEW m, WorkOf(m), src[m].st = "stored" PROVE Idle(m)
<1>1. \A r \in Replicas : \A d \in rep[r].buf : d.msg # m
  BY DEF WorkOf, BufWork
<1>2. \A s \in Slots : dlv[s].msg # m
  BY DEF WorkOf, SlotWork
<1>3. \A e \in wire : e.msg = m => e.kind = "dlq"
  BY DEF WorkOf, WireWork
<1>. QED BY <1>1, <1>2, <1>3 DEF Idle

LEMMA Waits == /\ Handler \in Nat /\ Handler > 0 /\ Budget \in Nat /\ Budget > 0 /\ Slack \in Nat /\ Transit \in Nat
               /\ Transit < Slack /\ AckWait = Handler + Budget + Budget + Slack
BY ConsumerAssumption DEF AckWait

\* What a slot that is not free holds; a free slot holds no message.
LEMMA SlotFields == ASSUME TypeOK
    PROVE  \A s \in Slots : /\ dlv[s].msg \in Msgs => dlv[s].ph \in {"handle", "dlq", "ack"} /\ dlv[s].left \in Nat
                            /\ dlv[s].ph = "free" => dlv[s] = Free
                            /\ dlv[s].ph # "free" => dlv[s].msg \in Msgs
                            /\ Free.msg \notin Msgs
<1>. SUFFICES ASSUME NEW s \in Slots
              PROVE  /\ dlv[s].msg \in Msgs => dlv[s].ph \in {"handle", "dlq", "ack"} /\ dlv[s].left \in Nat
                     /\ dlv[s].ph = "free" => dlv[s] = Free
                     /\ dlv[s].ph # "free" => dlv[s].msg \in Msgs
                     /\ Free.msg \notin Msgs
  OBVIOUS
<1>1. dlv[s] = Free \/ dlv[s] \in [ph: {"handle", "dlq", "ack"}, msg: Msgs, dc: 1..(MaxDeliveries + 1), gen: Nat, left: Nat]
  BY DEF TypeOK, Delivery
<1>2. Free.msg \notin Msgs
  BY ConsumerAssumption DEF Free
<1>3. CASE dlv[s] = Free
  BY <1>2, <1>3, FreeType
<1>4. CASE dlv[s] # Free
  BY <1>1, <1>2, <1>4
<1>. QED BY <1>3, <1>4

LEMMA WireFields == ASSUME TypeOK
    PROVE  \A e \in wire : e.msg \in Msgs /\ e.kind \in {"ack", "nak", "dlq"} /\ e.ttl \in Nat
BY DEF TypeOK, Settlement

\* With prompt messages a settlement lives for one budget.
LEMMA PromptMessage == ASSUME Prompt, NEW kind, NEW d, NEW delay
    PROVE  /\ Message(kind, d, delay).kind = kind /\ Message(kind, d, delay).msg = d.msg
           /\ Message(kind, d, delay).ttl = Budget
BY DEF Message

\* The broker delivers only what nobody holds, and ACK_WAIT covers all that follows.
LEMMA DeliverWork ==
    ASSUME SettlementOrder, NEW m \in Msgs, WorkOf(m), NEW r \in Replicas, NEW k \in Msgs,
           Deliver(r, k) \/ LoseDelivery(r, k)
    PROVE  WorkOf(m)'
<1>. USE DEF SettlementOrder
<1>0. /\ dlv' = dlv /\ wire' = wire /\ gen' = gen
      /\ src' = Delivered(k) /\ (m # k => src'[m] = src[m])
      /\ src[k].st = "stored" /\ src'[k].st = "out" /\ src'[k].timer = AckWait
  BY DEF TypeOK, Deliver, LoseDelivery, Delivered
<1>. DEFINE d == [msg |-> k, dc |-> src'[k].dc, gen |-> gen, late |-> 0]
<1>1. \A q \in Replicas : \A x \in rep'[q].buf : x \in rep[q].buf \/ (q = r /\ x = d)
  <2>1. rep[r] \in Replica /\ (\A q \in Replicas : q # r => rep'[q] = rep[q])
    BY DEF TypeOK, Deliver, LoseDelivery
  <2>2. CASE Deliver(r, k)
    <3>1. rep'[r] = [rep[r] EXCEPT !.req = rep[r].req - 1, !.buf = rep[r].buf \cup {d}]
      BY <2>2 DEF TypeOK, Deliver
    <3>2. rep'[r].buf = rep[r].buf \cup {d}
      BY <2>1, <3>1, ReplicaEdits
    <3>. QED BY <2>1, <3>2
  <2>3. CASE LoseDelivery(r, k)
    <3>1. rep'[r] = [rep[r] EXCEPT !.req = rep[r].req - 1]
      BY <2>3 DEF TypeOK, LoseDelivery
    <3>2. rep'[r].buf = rep[r].buf
      BY <2>1, <3>1, ReplicaEdits
    <3>. QED BY <2>1, <3>2
  <2>. QED BY <2>2, <2>3
<1>2. d.msg = k /\ d.late = 0
  OBVIOUS
<1>. HIDE DEF d
<1>3. CASE m # k
  <2>1. Quiet(m)
    BY <1>0, <1>1, <1>2, <1>3 DEF Quiet
  <2>. QED BY <2>1, QuietWork
<1>4. CASE m = k
  <2>1. Idle(m)
    BY <1>0, <1>4, StoredIdle
  <2>2. SlotWork(m)' /\ WireWork(m)'
    BY <1>0, <2>1 DEF Idle, SlotWork, WireWork
  <2>3. BufWork(m)'
    <3>. SUFFICES ASSUME NEW q \in Replicas, NEW x \in rep'[q].buf, x.msg = m
                  PROVE  /\ src'[m].st = "out" /\ (Transit - x.late) + Handler + Budget + Budget < src'[m].timer
                         /\ \A p \in Replicas : \A y \in rep'[p].buf : y.msg = m => q = p /\ x = y
                         /\ \A s \in Slots : dlv'[s].msg # m
                         /\ \A e \in wire' : e.msg = m => e.kind = "dlq"
      BY DEF BufWork
    <3>1. \A p \in Replicas : \A y \in rep'[p].buf : y.msg = m => p = r /\ y = d
      BY <1>1, <2>1 DEF Idle
    <3>2. (Transit - x.late) + Handler + Budget + Budget < src'[m].timer
      BY <1>0, <1>2, <1>4, <3>1, Waits
    <3>. QED BY <1>0, <1>4, <2>1, <3>1, <3>2 DEF Idle
  <2>. QED BY <2>2, <2>3 DEF WorkOf
<1>. QED BY <1>3, <1>4

\* An admitted delivery takes its slot with the time its ack wait has left.
LEMMA AdmitWork ==
    ASSUME Prompt, SettlementOrder, SettlementOrder', NEW m \in Msgs, WorkOf(m),
           NEW r \in Replicas, NEW d \in rep[r].buf, NEW s \in Slots, Admit(r, d, s)
    PROVE  WorkOf(m)'
<1>. USE DEF SettlementOrder
<1>0. /\ src' = src /\ d.msg \in Msgs /\ d.late \in 0..Transit /\ dlv[s].ph = "free" /\ dlv[s].msg \notin Msgs
  BY BufType, DeliveryFields, SlotFields DEF TypeOK, Admit, FreeSlots, SlotsOf
<1>1. /\ rep'[r].buf = rep[r].buf \ {d} /\ (\A q \in Replicas : q # r => rep'[q] = rep[q])
  <2>1. /\ rep'[r] = [rep[r] EXCEPT !.buf = rep[r].buf \ {d}, !.remaining = rep[r].remaining - 1,
                                    !.st = IF rep[r].remaining = 1 THEN "check" ELSE rep[r].st]
        /\ rep[r] \in Replica /\ (\A q \in Replicas : q # r => rep'[q] = rep[q])
    BY DEF TypeOK, Admit
  <2>2. rep'[r].buf = rep[r].buf \ {d}
    BY <2>1, ReplicaEdits
  <2>. QED BY <2>1, <2>2
<1>2. /\ dlv'[s].msg = d.msg /\ \A t \in Slots : t # s => dlv'[t] = dlv[t]
      /\ dlv'[s].ph \in {"dlq", "handle"}
      /\ dlv'[s].ph = "handle" => dlv'[s].left = Handler
      /\ dlv'[s].ph = "dlq" => dlv'[s].left = Budget
  BY DEF TypeOK, Admit
<1>3. \A e \in wire' : e.kind # "dlq" => e \in wire
  BY PromptMessage DEF Admit
<1>4. CASE m # d.msg
  <2>1. Quiet(m)
    BY <1>0, <1>1, <1>2, <1>3, <1>4 DEF Quiet
  <2>. QED BY <2>1, QuietWork
<1>5. CASE m = d.msg
  <2>1. /\ src[m].st = "out" /\ (Transit - d.late) + Handler + Budget + Budget < src[m].timer
        /\ \A q \in Replicas : \A x \in rep[q].buf : x.msg = m => r = q /\ d = x
        /\ \A t \in Slots : dlv[t].msg # m
        /\ \A e \in wire : e.msg = m => e.kind = "dlq"
    BY <1>5 DEF WorkOf, BufWork
  <2>2. \A q \in Replicas : \A x \in rep'[q].buf : x.msg # m
    BY <1>1, <2>1
  <2>3. \A e \in wire' : e.msg = m => e.kind = "dlq"
    BY <1>3, <2>1
  <2>4. Needs(dlv'[s]) < src[m].timer
    <3>1. src[m].timer \in Nat
      BY SourceFields DEF TypeOK
    <3>2. Needs(dlv'[s]) <= Handler + Budget + Budget
      BY <1>2, Waits DEF Needs
    <3>3. Needs(dlv'[s]) \in Nat
      BY <1>2, Waits DEF Needs
    <3>. QED BY <1>0, <2>1, <3>1, <3>2, <3>3, Waits
  <2>5. \A t \in Slots : dlv'[t].msg = m => t = s
    BY <1>2, <2>1
  <2>. QED BY <1>0, <2>1, <2>2, <2>3, <2>4, <2>5 DEF WorkOf, BufWork, SlotWork, WireWork
<1>. QED BY <1>4, <1>5

\* What a replica returns to the broker it no longer buffers.
LEMMA MoveWork ==
    ASSUME Prompt, SettlementOrder, SettlementOrder', NEW m \in Msgs, WorkOf(m), gen' = 1,
           NEW r \in Replicas, Moves(r), gen >= 1
    PROVE  WorkOf(m)'
<1>. USE DEF SettlementOrder
<1>0. src' = src
  <2>1. gen \in Nat
    BY DEF TypeOK
  <2>2. Start(r) => exists
    BY <2>1 DEF Start, Created
  <2>. QED BY <2>2 DEF Moves, CheckDurable, EndBatch, Drain, Finish, Abort, Start
<1>1. (Cleared(r) \/ rep'[r].buf = rep[r].buf) /\ \A q \in Replicas : q # r => rep'[q] = rep[q]
  BY MoveShape
<1>2. \A s \in Slots : dlv'[s] = dlv[s] \/ dlv'[s] = Free
  BY DEF Moves, CheckDurable, EndBatch, Continue, Drain, Finish, Abort, Aborted, Start
<1>3. \A s \in Slots : dlv'[s].msg = m => dlv'[s] = dlv[s]
  BY <1>2, SlotFields
<1>4. CASE ~(EndBatch(r) \/ Drain(r))
  <2>1. wire' = wire
    BY <1>4 DEF Moves, CheckDurable, Finish, Abort, Start
  <2>2. Quiet(m)
    BY <1>0, <1>1, <1>3, <2>1 DEF Quiet, Cleared
  <2>. QED BY <2>2, QuietWork
<1>5. CASE EndBatch(r) \/ Drain(r)
  <2>1. rep'[r].buf = {}
    <3>1. CASE EndBatch(r)
      BY <3>1, ContinueShape DEF EndBatch, Cleared
    <3>2. CASE Drain(r)
      BY <3>2, PollingFields DEF TypeOK, Drain
    <3>. QED BY <1>5, <3>1, <3>2
  <2>2. wire' = wire \cup {Message("nak", d, ReleaseDelay) : d \in rep[r].buf}
    BY <1>5 DEF EndBatch, Drain, Release
  <2>3. CASE \A d \in rep[r].buf : d.msg # m
    <3>1. \A e \in wire' : e.msg = m /\ e.kind # "dlq" => e \in wire
      BY <2>2, <2>3, PromptMessage
    <3>2. Quiet(m)
      BY <1>0, <1>1, <1>3, <2>1, <3>1 DEF Quiet
    <3>. QED BY <3>2, QuietWork
  <2>4. ASSUME NEW d \in rep[r].buf, d.msg = m PROVE WorkOf(m)'
    <3>1. /\ src[m].st = "out" /\ (Transit - d.late) + Handler + Budget + Budget < src[m].timer
          /\ \A q \in Replicas : \A x \in rep[q].buf : x.msg = m => r = q /\ d = x
          /\ \A t \in Slots : dlv[t].msg # m
          /\ \A e \in wire : e.msg = m => e.kind = "dlq"
      BY <2>4 DEF WorkOf, BufWork
    <3>2. \A q \in Replicas : \A x \in rep'[q].buf : x.msg # m
      BY <1>1, <2>1, <3>1
    <3>3. \A t \in Slots : dlv'[t].msg # m
      BY <1>3, <3>1
    <3>4. \A e \in wire' : e.msg = m /\ e.kind # "dlq" => e = Message("nak", d, ReleaseDelay)
      <4>. SUFFICES ASSUME NEW e \in wire', e.msg = m, e.kind # "dlq" PROVE e = Message("nak", d, ReleaseDelay)
        OBVIOUS
      <4>1. PICK x \in rep[r].buf : e = Message("nak", x, ReleaseDelay)
        BY <2>2, <3>1
      <4>2. x.msg = m
        BY <4>1, PromptMessage
      <4>. QED BY <3>1, <4>1, <4>2
    <3>5. Budget < src[m].timer
      <4>1. src[m].timer \in Nat /\ d.late \in 0..Transit
        BY BufType, SourceFields, DeliveryFields DEF TypeOK
      <4>. QED BY <3>1, <4>1, Waits
    <3>. QED BY <1>0, <3>1, <3>2, <3>3, <3>4, <3>5, PromptMessage DEF WorkOf, BufWork, SlotWork, WireWork
  <2>. QED BY <2>3, <2>4
<1>. QED BY <1>4, <1>5

\* A settlement goes out while the ack wait still covers its round trip.
LEMMA ProcessWork ==
    ASSUME Prompt, SettlementOrder, SettlementOrder', NEW m \in Msgs, WorkOf(m),
           NEW s \in Slots, Process(s)
    PROVE  WorkOf(m)'
<1>. USE DEF SettlementOrder
<1>0. src' = src /\ rep' = rep
  BY DEF Process, HandlerEnds, TransferFails, AckUnconfirmed
<1>1. \A t \in Slots : t # s => dlv'[t] = dlv[t]
  BY DEF TypeOK, Process, HandlerEnds, TransferFails, AckUnconfirmed, Settling, RedeliverAfter
<1>2. /\ dlv[s].ph \in {"handle", "dlq", "ack"} /\ dlv[s].msg \in Msgs /\ dlv[s].left \in Nat
  <2>1. dlv[s].ph # "free"
    BY DEF Process, HandlerEnds, TransferFails, AckUnconfirmed
  <2>. QED BY <2>1, SlotFields
<1>3. CASE AckUnconfirmed(s)
  <2>1. dlv'[s] = Free /\ wire' = wire
    BY <1>3 DEF TypeOK, AckUnconfirmed
  <2>2. Quiet(m)
    BY <1>0, <1>1, <2>1, SlotFields DEF Quiet
  <2>. QED BY <2>2, QuietWork
<1>4. ASSUME NEW kind \in {"ack", "dlq"}, dlv[s].ph = "handle", Settling(s, kind) PROVE WorkOf(m)'
  <2>1. dlv'[s] = [dlv[s] EXCEPT !.ph = kind, !.left = Budget]
    BY <1>4 DEF TypeOK, Settling
  <2>2. dlv'[s].ph = kind /\ dlv'[s].left = Budget /\ dlv'[s].msg = dlv[s].msg
    <3>1. dlv[s] \in [ph: {"handle", "dlq", "ack"}, msg: Msgs, dc: 1..(MaxDeliveries + 1), gen: Nat, left: Nat]
      BY <1>4 DEF TypeOK, Delivery, Free
    <3>. QED BY <2>1, <3>1
  <2>3. wire' = wire \cup {Message(kind, dlv[s], 0)}
    BY <1>4 DEF Settling
  <2>4. CASE m # dlv[s].msg
    <3>1. Quiet(m)
      BY <1>0, <1>1, <2>2, <2>3, <2>4, PromptMessage DEF Quiet
    <3>. QED BY <3>1, QuietWork
  <2>5. CASE m = dlv[s].msg
    <3>1. /\ src[m].st = "out" /\ src[m].timer \in Nat /\ dlv[s].left + Budget + Budget < src[m].timer
          /\ \A t \in Slots : dlv[t].msg = m => s = t
          /\ \A e \in wire : e.msg = m => e.kind = "dlq"
          /\ \A r \in Replicas : \A d \in rep[r].buf : d.msg # m
      <4>1. src[m] \in Source
        BY DEF TypeOK
      <4>2. src[m].st = "out"
        BY <1>4, <2>5, <4>1 DEF WorkOf, SlotWork, Source
      <4>3. Needs(dlv[s]) = dlv[s].left + Budget + Budget
        BY <1>4 DEF Needs
      <4>4. /\ Needs(dlv[s]) < src[m].timer /\ \A t \in Slots : dlv[t].msg = m => s = t
            /\ \A e \in wire : e.msg = m => e.kind = "dlq"
        BY <1>4, <2>5, <4>2 DEF WorkOf, SlotWork
      <4>5. \A r \in Replicas : \A d \in rep[r].buf : d.msg # m
        BY <2>5 DEF WorkOf, BufWork
      <4>. QED BY <4>1, <4>2, <4>3, <4>4, <4>5, SourceFields
    <3>2. Needs(dlv'[s]) < src[m].timer
      <4>1. Needs(dlv'[s]) <= Budget + Budget /\ Needs(dlv'[s]) \in Nat
        BY <2>2, Waits DEF Needs
      <4>. QED BY <1>2, <3>1, <4>1, Waits
    <3>3. \A e \in wire' : e.msg = m /\ e.kind # "dlq" => e.kind = "ack" /\ kind = "ack" /\ e.ttl = Budget
      BY <2>3, <3>1, PromptMessage
    <3>4. Budget < src[m].timer
      BY <1>2, <3>1, Waits
    <3>5. \A t \in Slots : dlv'[t].msg = m => t = s
      BY <1>1, <3>1
    <3>6. BufWork(m)'
      BY <1>0, <3>1 DEF BufWork
    <3>7. SlotWork(m)'
      BY <1>0, <2>2, <3>1, <3>2, <3>3, <3>5 DEF SlotWork
    <3>8. WireWork(m)'
      BY <1>0, <3>1, <3>3, <3>4 DEF WireWork
    <3>. QED BY <3>6, <3>7, <3>8 DEF WorkOf
  <2>. QED BY <2>4, <2>5
<1>5. ASSUME NEW delay \in Nat, dlv[s].ph \in {"handle", "dlq"}, RedeliverAfter(s, delay) PROVE WorkOf(m)'
  <2>1. dlv'[s] = Free /\ wire' = wire \cup {Message("nak", dlv[s], delay)}
    BY <1>5 DEF TypeOK, RedeliverAfter
  <2>2. CASE m # dlv[s].msg
    <3>1. Quiet(m)
      BY <1>0, <1>1, <2>1, <2>2, SlotFields, PromptMessage DEF Quiet
    <3>. QED BY <3>1, QuietWork
  <2>3. CASE m = dlv[s].msg
    <3>1. /\ src[m].st = "out" /\ src[m].timer \in Nat /\ Needs(dlv[s]) < src[m].timer
          /\ \A t \in Slots : dlv[t].msg = m => s = t
          /\ \A e \in wire : e.msg = m => e.kind = "dlq"
          /\ \A r \in Replicas : \A d \in rep[r].buf : d.msg # m
      <4>1. src[m] \in Source
        BY DEF TypeOK
      <4>2. src[m].st = "out"
        BY <1>5, <2>3, <4>1 DEF WorkOf, SlotWork, Source
      <4>4. /\ Needs(dlv[s]) < src[m].timer /\ \A t \in Slots : dlv[t].msg = m => s = t
            /\ \A e \in wire : e.msg = m => e.kind = "dlq"
        BY <1>5, <2>3, <4>2 DEF WorkOf, SlotWork
      <4>5. \A r \in Replicas : \A d \in rep[r].buf : d.msg # m
        BY <2>3 DEF WorkOf, BufWork
      <4>. QED BY <4>1, <4>2, <4>4, <4>5, SourceFields
    <3>2. Budget < src[m].timer
      <4>1. Needs(dlv[s]) >= Budget /\ Needs(dlv[s]) \in Nat
        BY <1>2, <1>5, Waits DEF Needs
      <4>. QED BY <3>1, <4>1, Waits
    <3>3. \A e \in wire' : e.msg = m /\ e.kind # "dlq" => e = Message("nak", dlv[s], delay)
      BY <2>1, <3>1
    <3>4. \A t \in Slots : dlv'[t].msg # m
      BY <1>1, <2>1, <3>1, SlotFields
    <3>. QED BY <1>0, <3>1, <3>2, <3>3, <3>4, PromptMessage DEF WorkOf, BufWork, SlotWork, WireWork
  <2>. QED BY <2>2, <2>3
<1>6. CASE TransferFails(s)
  <2>1. SettleDelay \in Nat
    BY ConsumerAssumption
  <2>. QED BY <1>5, <1>6, <2>1 DEF TransferFails
<1>7. ASSUME NEW outcome \in {"success", "permanent", "retryable"}, HandlerEnds(s, outcome) PROVE WorkOf(m)'
  <2>1. CASE dlv[s].dc < MaxDeliveries /\ RedeliverAfter(s, Delays[dlv[s].dc])
    <3>1. dlv[s].dc \in 1..(MaxDeliveries + 1)
      BY <1>7, DeliveryBusy DEF TypeOK, HandlerEnds
    <3>2. Delays[dlv[s].dc] \in Nat
      BY <2>1, <3>1, Numbers
    <3>. QED BY <1>5, <1>7, <2>1, <3>2 DEF HandlerEnds
  <2>. QED BY <1>4, <1>7, <2>1 DEF HandlerEnds
<1>. QED BY <1>3, <1>6, <1>7 DEF Process

\* An acknowledgement or a redelivery request reaches the broker while it is the last
\* word on its message.
LEMMA SettleWork ==
    ASSUME SettlementOrder, SettlementOrder', NEW m \in Msgs, WorkOf(m), NEW e \in wire,
           (\E answered \in BOOLEAN : ExecAck(e, answered)) \/ ExecNak(e)
    PROVE  WorkOf(m)'
<1>. USE DEF SettlementOrder
<1>0. /\ rep' = rep /\ wire' = wire \ {e} /\ e.msg \in Msgs /\ e.kind \in {"ack", "nak"}
  BY WireFields DEF ExecAck, ExecNak
<1>1. \A s \in Slots : dlv'[s] = dlv[s] \/ dlv'[s] = Free
  BY DEF ExecAck, ExecNak
<1>2. \A s \in Slots : dlv'[s].msg = m => dlv'[s] = dlv[s]
  BY <1>1, SlotFields
<1>3. CASE src'[m] = src[m]
  <2>1. Quiet(m)
    BY <1>0, <1>2, <1>3 DEF Quiet
  <2>. QED BY <2>1, QuietWork
<1>4. CASE src'[m] # src[m]
  <2>1. e.msg = m
    BY <1>4 DEF TypeOK, ExecAck, ExecNak
  <2>2. \A r \in Replicas : \A d \in rep[r].buf : d.msg # m
    BY <1>0, <2>1 DEF WorkOf, BufWork
  <2>3. CASE \E answered \in BOOLEAN : ExecAck(e, answered)
    <3>1. src'[m].st = "acked"
      <4>1. src'[m] = [src[m] EXCEPT !.st = "acked", !.timer = 0] /\ src[m] \in Source
        BY <1>4, <2>1, <2>3 DEF TypeOK, ExecAck
      <4>. QED BY <4>1, SourceSet
    <3>2. \A s \in Slots : dlv[s].msg = m => dlv[s].ph = "ack"
      BY <1>0, <2>1 DEF WorkOf, SlotWork
    <3>3. \A f \in wire' : f.msg = m /\ f.kind # "dlq" => f.kind = "ack"
      <4>. SUFFICES ASSUME NEW f \in wire', f.msg = m, f.kind = "nak" PROVE FALSE
        BY <1>0, WireFields
      <4>1. f \in wire /\ f # e
        BY <1>0
      <4>. QED BY <1>0, <2>1, <4>1 DEF WorkOf, WireWork
    <3>4. \A s, t \in Slots : dlv[s].msg = m /\ dlv[t].msg = m => s = t
      BY DEF WorkOf, SlotWork
    <3>5. BufWork(m)'
      BY <1>0, <2>2 DEF BufWork
    <3>6. SlotWork(m)'
      BY <1>2, <3>1, <3>2, <3>3, <3>4 DEF SlotWork
    <3>7. WireWork(m)'
      BY <3>1, <3>3 DEF WireWork
    <3>. QED BY <3>5, <3>6, <3>7 DEF WorkOf
  <2>4. CASE ExecNak(e)
    <3>1. e.kind = "nak"
      BY <2>4 DEF ExecNak
    <3>2. \A s \in Slots : dlv[s].msg # m
      BY <2>1, <3>1 DEF WorkOf, SlotWork
    <3>3. \A f \in wire : f.msg = m /\ f.kind # "dlq" => f = e
      BY <2>1, <3>1 DEF WorkOf, WireWork
    <3>4. Idle(m)'
      BY <1>0, <1>2, <2>2, <3>2, <3>3 DEF Idle
    <3>5. WorkOf(m)'
      BY <3>4 DEF Idle, WorkOf, BufWork, SlotWork, WireWork
    <3>. QED BY <3>5
  <2>. QED BY <2>3, <2>4
<1>. QED BY <1>3, <1>4

\* A stored transfer lets its slot acknowledge within the ack wait.
LEMMA TransferWork ==
    ASSUME Prompt, SettlementOrder, SettlementOrder', NEW m \in Msgs, WorkOf(m), NEW e \in wire,
           NEW answered \in BOOLEAN, StoreTransfer(e, answered)
    PROVE  WorkOf(m)'
<1>. USE DEF SettlementOrder
<1>. DEFINE waiting == {s \in Slots : answered /\ Awaits(s, e)}
<1>0. /\ src' = src /\ rep' = rep /\ e.msg \in Msgs /\ e.kind = "dlq"
      /\ dlv' = [s \in Slots |-> IF s \in waiting THEN [dlv[s] EXCEPT !.ph = "ack", !.left = Budget] ELSE dlv[s]]
      /\ wire' = (wire \ {e}) \cup {Message("ack", dlv[s], 0) : s \in waiting}
  BY WireFields DEF StoreTransfer
<1>1. \A s \in waiting : /\ s \in Slots /\ dlv[s].ph = "dlq" /\ dlv[s].msg = e.msg
                         /\ dlv'[s].ph = "ack" /\ dlv'[s].left = Budget /\ dlv'[s].msg = e.msg
  <2>. SUFFICES ASSUME NEW s \in waiting
                PROVE  /\ s \in Slots /\ dlv[s].ph = "dlq" /\ dlv[s].msg = e.msg
                       /\ dlv'[s].ph = "ack" /\ dlv'[s].left = Budget /\ dlv'[s].msg = e.msg
    OBVIOUS
  <2>1. s \in Slots /\ dlv[s].ph = "dlq" /\ dlv[s].msg = e.msg
    BY <1>0 DEF Awaits
  <2>2. dlv'[s] = [dlv[s] EXCEPT !.ph = "ack", !.left = Budget]
    BY <1>0, <2>1
  <2>3. dlv[s] \in [ph: {"handle", "dlq", "ack"}, msg: Msgs, dc: 1..(MaxDeliveries + 1), gen: Nat, left: Nat]
    BY <2>1 DEF TypeOK, Delivery, Free
  <2>4. dlv'[s].ph = "ack" /\ dlv'[s].left = Budget /\ dlv'[s].msg = dlv[s].msg
    BY <2>2, <2>3
  <2>. QED BY <2>1, <2>4
<1>2. \A s \in Slots : s \notin waiting => dlv'[s] = dlv[s]
  BY <1>0
<1>3. \A f \in wire' : f \in wire \/ \E s \in waiting : f = Message("ack", dlv[s], 0)
  BY <1>0
<1>. HIDE DEF waiting
<1>4. CASE m # e.msg \/ waiting = {}
  <2>1. Quiet(m)
    <3>1. \A s \in Slots : dlv'[s].msg = m => dlv'[s] = dlv[s]
      BY <1>1, <1>2, <1>4
    <3>2. \A f \in wire' : f.msg = m /\ f.kind # "dlq" => f \in wire
      BY <1>1, <1>3, <1>4, PromptMessage
    <3>. QED BY <1>0, <3>1, <3>2 DEF Quiet
  <2>. QED BY <2>1, QuietWork
<1>5. ASSUME m = e.msg, NEW s \in waiting PROVE WorkOf(m)'
  <2>0. s \in Slots /\ dlv[s].ph = "dlq" /\ dlv[s].msg = m /\ dlv[s].left \in Nat
    BY <1>1, <1>5, SlotFields
  <2>1. /\ src[m].st = "out" /\ src[m].timer \in Nat /\ dlv[s].left + Budget < src[m].timer
        /\ \A t \in Slots : dlv[t].msg = m => s = t
        /\ \A f \in wire : f.msg = m => f.kind = "dlq"
        /\ \A r \in Replicas : \A d \in rep[r].buf : d.msg # m
    <3>1. src[m] \in Source
      BY DEF TypeOK
    <3>2. src[m].st = "out"
      BY <2>0, <3>1 DEF WorkOf, SlotWork, Source
    <3>3. Needs(dlv[s]) = dlv[s].left + Budget
      BY <2>0 DEF Needs
    <3>4. /\ Needs(dlv[s]) < src[m].timer /\ \A t \in Slots : dlv[t].msg = m => s = t
          /\ \A f \in wire : f.msg = m => f.kind = "dlq"
      BY <2>0, <3>2 DEF WorkOf, SlotWork
    <3>5. \A r \in Replicas : \A d \in rep[r].buf : d.msg # m
      BY <2>0 DEF WorkOf, BufWork
    <3>. QED BY <3>1, <3>2, <3>3, <3>4, <3>5, SourceFields
  <2>2. Budget < src[m].timer
    BY <2>0, <2>1, Waits
  <2>3. Needs(dlv'[s]) < src[m].timer
    BY <1>1, <1>5, <2>2 DEF Needs
  <2>4. \A t \in Slots : dlv'[t].msg = m => t = s
    BY <1>1, <1>2, <1>5, <2>1
  <2>5. \A f \in wire' : f.msg = m /\ f.kind # "dlq" => f.kind = "ack" /\ f.ttl = Budget
    BY <1>3, <2>1, PromptMessage
  <2>6. BufWork(m)'
    BY <1>0, <2>1 DEF BufWork
  <2>7. SlotWork(m)'
    BY <1>0, <1>1, <1>5, <2>1, <2>3, <2>4, <2>5 DEF SlotWork
  <2>8. WireWork(m)'
    BY <1>0, <2>1, <2>2, <2>5 DEF WireWork
  <2>. QED BY <2>6, <2>7, <2>8 DEF WorkOf
<1>. QED BY <1>4, <1>5

\* When the ack wait runs out nobody holds the message any more.
LEMMA RedeliverWork ==
    ASSUME SettlementOrder, NEW m \in Msgs, WorkOf(m), NEW k \in Msgs, Redeliver(k)
    PROVE  WorkOf(m)'
<1>. USE DEF SettlementOrder
<1>0. rep' = rep /\ dlv' = dlv /\ wire' = wire /\ (k # m => src'[m] = src[m])
  BY DEF TypeOK, Redeliver
<1>1. CASE k # m
  <2>1. Quiet(m)
    BY <1>0, <1>1 DEF Quiet
  <2>. QED BY <2>1, QuietWork
<1>2. CASE k = m
  <2>0. src[m].st = "out" /\ src[m].timer = 0
    BY <1>2 DEF Redeliver
  <2>1. \A r \in Replicas : \A d \in rep[r].buf : d.msg # m
    <3>. SUFFICES ASSUME NEW r \in Replicas, NEW d \in rep[r].buf, d.msg = m PROVE FALSE
      OBVIOUS
    <3>1. d.late \in 0..Transit /\ (Transit - d.late) + Handler + Budget + Budget < 0
      BY <2>0, BufType, DeliveryFields DEF WorkOf, BufWork
    <3>. QED BY <3>1, Waits
  <2>2. \A s \in Slots : dlv[s].msg # m
    <3>. SUFFICES ASSUME NEW s \in Slots, dlv[s].msg = m PROVE FALSE
      OBVIOUS
    <3>1. Needs(dlv[s]) < 0 /\ dlv[s].left \in Nat
      BY <2>0, SlotFields DEF WorkOf, SlotWork
    <3>. QED BY <3>1, Waits DEF Needs
  <2>3. \A e \in wire : e.msg = m => e.kind = "dlq"
    <3>. SUFFICES ASSUME NEW e \in wire, e.msg = m, e.kind # "dlq" PROVE FALSE
      OBVIOUS
    <3>1. e.ttl < 0 /\ e.ttl \in Nat
      BY <2>0, WireFields DEF WorkOf, WireWork
    <3>. QED BY <3>1
  <2>. QED BY <1>0, <2>1, <2>2, <2>3 DEF WorkOf, BufWork, SlotWork, WireWork
<1>. QED BY <1>1, <1>2

\* Every clock runs at the same rate, and none runs past its end.
LEMMA TickWork ==
    ASSUME Prompt, SettlementOrder, SettlementOrder', NEW m \in Msgs, WorkOf(m), Tick
    PROVE  WorkOf(m)'
<1>. USE DEF SettlementOrder
<1>1. /\ src'[m].st = src[m].st /\ src[m].timer \in Nat
      /\ src[m].st = "out" => src[m].timer > 0 /\ src'[m].timer = src[m].timer - 1
  <2>1. src[m] \in Source /\ src'[m] = [src[m] EXCEPT !.timer = Less1(src[m].timer)]
    BY DEF TypeOK, Tick
  <2>2. src[m].timer \in Nat /\ src'[m].st = src[m].st /\ src'[m].timer = Less1(src[m].timer)
    BY <2>1 DEF Source
  <2>. QED BY <2>2 DEF Tick, Less1
<1>2. \A r \in Replicas : \A x \in rep'[r].buf : \E d \in rep[r].buf :
          x = Aged(d) /\ x.msg = d.msg /\ d.late \in 0..Transit /\ x.late = d.late + 1
  <2>. TAKE r \in Replicas
  <2>. TAKE x \in rep'[r].buf
  <2>1. PICK d \in rep[r].buf : x = Aged(d)
    BY TickShape
  <2>2. d \in DeliveryOf
    BY BufType
  <2>3. x.msg = d.msg /\ x.late = d.late + 1 /\ d.late \in 0..Transit
    BY <2>1, <2>2 DEF DeliveryOf, Aged
  <2>. QED BY <2>1, <2>3
<1>3. \A s \in Slots : /\ dlv'[s].msg = dlv[s].msg /\ dlv'[s].ph = dlv[s].ph
                       /\ dlv[s].msg = m => dlv[s].left \in Nat /\ dlv[s].left > 0 /\ dlv'[s].left = dlv[s].left - 1
  <2>. SUFFICES ASSUME NEW s \in Slots, dlv[s].ph # "free"
                PROVE  /\ dlv'[s].msg = dlv[s].msg /\ dlv'[s].ph = dlv[s].ph
                       /\ dlv[s].left \in Nat /\ dlv[s].left > 0 /\ dlv'[s].left = dlv[s].left - 1
    <3>1. \A s \in Slots : dlv[s].ph = "free" => dlv'[s] = dlv[s] /\ dlv[s].msg # m
      BY SlotFields DEF Tick
    <3>. QED BY <3>1
  <2>1. dlv'[s] = [dlv[s] EXCEPT !.left = Less1(dlv[s].left)] /\ dlv[s].left > 0
    BY DEF Tick
  <2>2. dlv[s] \in [ph: {"handle", "dlq", "ack"}, msg: Msgs, dc: 1..(MaxDeliveries + 1), gen: Nat, left: Nat]
    BY DEF TypeOK, Delivery, Free
  <2>3. dlv'[s].msg = dlv[s].msg /\ dlv'[s].ph = dlv[s].ph /\ dlv[s].left \in Nat /\ dlv'[s].left = Less1(dlv[s].left)
    BY <2>1, <2>2
  <2>. QED BY <2>1, <2>3 DEF Less1
<1>4. \A f \in wire' : \E e \in wire : /\ f = [e EXCEPT !.ttl = Less1(e.ttl)] /\ f.msg = e.msg /\ f.kind = e.kind
                                       /\ e.ttl \in Nat /\ e.ttl > 0 /\ f.ttl = e.ttl - 1
  <2>. TAKE f \in wire'
  <2>1. PICK e \in wire : f = [e EXCEPT !.ttl = Less1(e.ttl)]
    BY DEF Tick
  <2>2. e \in Settlement /\ e.ttl > 0
    BY DEF TypeOK, Tick
  <2>3. f.msg = e.msg /\ f.kind = e.kind /\ e.ttl \in Nat /\ f.ttl = Less1(e.ttl)
    BY <2>1, <2>2 DEF Settlement
  <2>. QED BY <2>1, <2>2, <2>3 DEF Less1
<1>5. BufWork(m)'
  <2>. SUFFICES ASSUME NEW r \in Replicas, NEW x \in rep'[r].buf, x.msg = m
                PROVE  /\ src'[m].st = "out" /\ (Transit - x.late) + Handler + Budget + Budget < src'[m].timer
                       /\ \A q \in Replicas : \A y \in rep'[q].buf : y.msg = m => r = q /\ x = y
                       /\ \A s \in Slots : dlv'[s].msg # m
                       /\ \A e \in wire' : e.msg = m => e.kind = "dlq"
    BY DEF BufWork
  <2>1. PICK d \in rep[r].buf : x = Aged(d) /\ x.msg = d.msg /\ d.late \in 0..Transit /\ x.late = d.late + 1
    BY <1>2
  <2>2. /\ src[m].st = "out" /\ (Transit - d.late) + Handler + Budget + Budget < src[m].timer
        /\ \A q \in Replicas : \A y \in rep[q].buf : y.msg = m => r = q /\ d = y
        /\ \A s \in Slots : dlv[s].msg # m
        /\ \A e \in wire : e.msg = m => e.kind = "dlq"
    BY <2>1 DEF WorkOf, BufWork
  <2>3. (Transit - x.late) + Handler + Budget + Budget < src'[m].timer
    BY <1>1, <2>1, <2>2, Waits
  <2>4. \A q \in Replicas : \A y \in rep'[q].buf : y.msg = m => r = q /\ x = y
    BY <1>2, <2>1, <2>2
  <2>. QED BY <1>1, <1>3, <1>4, <2>2, <2>3, <2>4
<1>6. SlotWork(m)'
  <2>. SUFFICES ASSUME NEW s \in Slots, dlv'[s].msg = m
                PROVE  /\ src'[m].st # "stored" /\ (src'[m].st = "acked" => dlv'[s].ph = "ack")
                       /\ src'[m].st = "out" => Needs(dlv'[s]) < src'[m].timer
                       /\ \A t \in Slots : dlv'[t].msg = m => s = t
                       /\ \A e \in wire' : e.msg = m /\ e.kind # "dlq" => e.kind = "ack" /\ dlv'[s].ph = "ack"
    BY DEF SlotWork
  <2>1. /\ src[m].st # "stored" /\ (src[m].st = "acked" => dlv[s].ph = "ack")
        /\ src[m].st = "out" => Needs(dlv[s]) < src[m].timer
        /\ \A t \in Slots : dlv[t].msg = m => s = t
        /\ \A e \in wire : e.msg = m /\ e.kind # "dlq" => e.kind = "ack" /\ dlv[s].ph = "ack"
    BY <1>3 DEF WorkOf, SlotWork
  <2>2. src'[m].st = "out" => Needs(dlv'[s]) < src'[m].timer
    <3>1. Needs(dlv'[s]) = Needs(dlv[s]) - 1 /\ Needs(dlv[s]) \in Nat
      BY <1>3, Waits DEF Needs
    <3>. QED BY <1>1, <2>1, <3>1
  <2>. QED BY <1>1, <1>3, <1>4, <2>1, <2>2
<1>7. WireWork(m)'
  <2>. SUFFICES ASSUME NEW f \in wire', f.msg = m, f.kind # "dlq"
                PROVE  /\ src'[m].st # "stored" /\ (src'[m].st = "out" => f.ttl < src'[m].timer)
                       /\ f.kind = "nak" => /\ src'[m].st = "out"
                                            /\ \A g \in wire' : g.msg = m /\ g.kind # "dlq" => g = f
    BY DEF WireWork
  <2>1. PICK e \in wire : /\ f = [e EXCEPT !.ttl = Less1(e.ttl)] /\ f.msg = e.msg /\ f.kind = e.kind
                          /\ e.ttl \in Nat /\ e.ttl > 0 /\ f.ttl = e.ttl - 1
    BY <1>4
  <2>2. /\ src[m].st # "stored" /\ (src[m].st = "out" => e.ttl < src[m].timer)
        /\ e.kind = "nak" => /\ src[m].st = "out"
                             /\ \A g \in wire : g.msg = m /\ g.kind # "dlq" => g = e
    BY <2>1 DEF WorkOf, WireWork
  <2>3. f.kind = "nak" => \A g \in wire' : g.msg = m /\ g.kind # "dlq" => g = f
    BY <1>4, <2>1, <2>2
  <2>. QED BY <1>1, <2>1, <2>2, <2>3
<1>. QED BY <1>5, <1>6, <1>7 DEF WorkOf

\* The account of workers is inductive while messages are prompt.
LEMMA WorkStep == Prompt /\ SettlementOrder /\ SettlementOrder' /\ WorkInv /\ [Next]_vars => WorkInv'
<1>. SUFFICES ASSUME Prompt, SettlementOrder, SettlementOrder', WorkInv, [Next]_vars PROVE WorkInv'
  OBVIOUS
<1>. USE DEF SettlementOrder
<1>0. gen \in Nat /\ gen >= 1
  BY DEF TypeOK, WorkInv
<1>1. gen' = gen \/ gen' = gen + 1
  <2>1. ASSUME NEW r \in Replicas, PullLoop(r) PROVE gen' = gen
    BY <2>1 DEF PullLoop, CheckDurable, SendPull, EndBatch, Admit
  <2>2. ASSUME NEW r \in Replicas, Lifecycle(r) PROVE gen' = gen \/ gen' = gen + 1
    BY <2>2 DEF Lifecycle, Drain, Finish, Abort, Start, Created
  <2>3. ASSUME NEW s \in Slots, Process(s) PROVE gen' = gen
    BY <2>3 DEF Process, HandlerEnds, TransferFails, AckUnconfirmed
  <2>4. ASSUME Broker PROVE gen' = gen \/ gen' = gen + 1
    BY <2>4 DEF Broker, Deliver, LoseDelivery, ExecAck, StoreTransfer, ExecNak, Lose, Redeliver, Forget,
                Delete, Recreate, Created
  <2>5. Tick \/ UNCHANGED vars => gen' = gen
    BY DEF Tick, vars
  <2>. QED BY <2>1, <2>2, <2>3, <2>4, <2>5 DEF Next
<1>. SUFFICES ASSUME gen = 1, gen' = 1, NEW m \in Msgs, WorkOf(m) PROVE WorkOf(m)'
  BY <1>0, <1>1 DEF WorkInv
<1>2. ASSUME src' = src, dlv' = dlv, wire' \subseteq wire,
             \A r \in Replicas : rep'[r].buf \subseteq rep[r].buf
      PROVE  WorkOf(m)'
  <2>1. Quiet(m)
    BY <1>2 DEF Quiet
  <2>. QED BY <2>1, QuietWork
<1>3. ASSUME NEW r \in Replicas, PullLoop(r) \/ Lifecycle(r) PROVE WorkOf(m)'
  <2>1. CASE Moves(r)
    BY <1>0, <2>1, MoveWork
  <2>2. ASSUME NEW d \in rep[r].buf, NEW s \in Slots, Admit(r, d, s) PROVE WorkOf(m)'
    BY <2>2, AdmitWork
  <2>3. CASE SendPull(r)
    <3>1. /\ rep'[r] = [rep[r] EXCEPT !.st = "batch", !.remaining = Cardinality(FreeSlots(r)),
                                      !.req = IF exists THEN Cardinality(FreeSlots(r)) ELSE 0]
          /\ rep[r] \in Replica /\ \A q \in Replicas : q # r => rep'[q] = rep[q]
      BY <2>3 DEF TypeOK, SendPull
    <3>2. rep'[r].buf = rep[r].buf
      BY <3>1, ReplicaEdits
    <3>3. src' = src /\ dlv' = dlv /\ wire' = wire
      BY <2>3 DEF SendPull
    <3>. QED BY <1>2, <3>1, <3>2, <3>3
  <2>. QED BY <1>3, <2>1, <2>2, <2>3 DEF PullLoop, Lifecycle, Moves
<1>4. ASSUME NEW s \in Slots, Process(s) PROVE WorkOf(m)'
  BY <1>4, ProcessWork
<1>5. CASE Broker
  <2>1. ASSUME NEW r \in Replicas, NEW k \in Msgs, Deliver(r, k) \/ LoseDelivery(r, k) PROVE WorkOf(m)'
    BY <2>1, DeliverWork
  <2>2. ASSUME NEW e \in wire, NEW answered \in BOOLEAN, StoreTransfer(e, answered) PROVE WorkOf(m)'
    BY <2>2, TransferWork
  <2>3. ASSUME NEW e \in wire, (\E answered \in BOOLEAN : ExecAck(e, answered)) \/ ExecNak(e) PROVE WorkOf(m)'
    BY <2>3, SettleWork
  <2>4. ASSUME NEW e \in wire, Lose(e) PROVE WorkOf(m)'
    BY <1>2, <2>4 DEF Lose
  <2>5. ASSUME NEW k \in Msgs, Redeliver(k) PROVE WorkOf(m)'
    BY <2>5, RedeliverWork
  <2>6. ASSUME NEW k \in Msgs, Forget(k) PROVE WorkOf(m)'
    BY <1>2, <2>6 DEF Forget
  <2>7. CASE Delete
    <3>1. \A r \in Replicas : rep'[r].buf \subseteq rep[r].buf
      BY <2>7, OthersShape DEF Rests
    <3>. QED BY <1>2, <2>7, <3>1 DEF Delete
  <2>8. ~Recreate
    BY <1>0 DEF Recreate, Created
  <2>. QED BY <1>5, <2>1, <2>2, <2>3, <2>4, <2>5, <2>6, <2>7, <2>8 DEF Broker
<1>6. CASE Tick
  BY <1>6, TickWork
<1>7. CASE UNCHANGED vars
  BY <1>2, <1>7 DEF vars
<1>. QED BY <1>3, <1>4, <1>5, <1>6, <1>7 DEF Next

\* While messages arrive within the budget their sender waits and nobody replaces the
\* durable, one slot at a time works on a message: ACK_WAIT outlasts the transit, the
\* handler and both settlement round trips.  With it come the bound on handler runs and
\* the single dead-letter copy (consumer.rs ACK_WAIT, handle, dead_letter).
THEOREM WorkSafe == Prompt => (Spec => []WorkBounded)
<1>. SUFFICES ASSUME Prompt PROVE Spec => []WorkBounded
  OBVIOUS
<1>1. Init => WorkInv
  <2>. SUFFICES ASSUME Init PROVE WorkInv
    OBVIOUS
  <2>1. \A r \in Replicas : rep[r].buf = {}
    BY PollingFields DEF Init, Polling
  <2>2. (\A s \in Slots : dlv[s] = Free) /\ wire = {} /\ gen = 1 /\ Free.msg \notin Msgs
    BY ConsumerAssumption DEF Init, Free
  <2>3. \A m \in Msgs : Idle(m)
    BY <2>1, <2>2 DEF Idle
  <2>. QED BY <2>2, <2>3, IdleWork DEF WorkInv
<1>2. SettlementOrder /\ WorkInv => OneWorker
  <2>. SUFFICES ASSUME SettlementOrder, WorkInv, gen = 1, NEW s \in Slots, NEW t \in Slots,
                       dlv[s].ph # "free", dlv[s].msg = dlv[t].msg
                PROVE  s = t
    BY DEF OneWorker
  <2>1. dlv[s].msg \in Msgs
    BY SlotFields DEF SettlementOrder
  <2>. QED BY <2>1 DEF WorkInv, WorkOf, SlotWork
<1>3. SettlementOrder /\ SettlementOrder' /\ WorkInv /\ [Next]_vars => WorkInv'
  BY WorkStep
<1>4. OneWorker /\ HandlerBound /\ OneCopy => WorkBounded
  BY DEF WorkBounded
<1>. QED BY <1>1, <1>2, <1>3, <1>4, RunsSafe, SettlesLast, PTL DEF Spec
=============================================================================
