-------------------------------- MODULE Outbox ------------------------------
(***************************************************************************)
(* The outbox of src/crates/infra-messaging: writers store the intent to   *)
(* publish an event in their own transactions, a publisher job sends it to *)
(* the broker until an answer arrives, and the broker drops publications   *)
(* it has seen within its duplicate window.  The connection is admitted    *)
(* first and closed last; dead letters come back under an identity of      *)
(* their own.  Jobs, leases and retries are those of JobQueue, reduced to  *)
(* claim, settle and lose.                                                 *)
(***************************************************************************)
EXTENDS MessagingRules

CONSTANTS
    ObWriters,   \* transactions that store an event
    NoWriter,    \* nobody holds the row
    ObContents,  \* what may be said under the one event identity of the model
    Window,      \* the stream's duplicate window, in ticks
    MaxTries,    \* POLICY.max_attempts
    MaxRedrives, \* bound: how often an operator redrives
    MaxCopies,   \* bound: copies the stream holds
    ObClockEnd   \* bound: the clock

ASSUME OutboxAssumption ==
    /\ {Window, MaxTries, MaxRedrives, MaxCopies, ObClockEnd} \subseteq Nat
    /\ MaxTries > 0 /\ NoWriter \notin ObWriters

VARIABLES
    obClock, \* the broker's clock
    obLink,  \* the connection: phase, what is wrong with the broker, draining, outcome
    obRow,   \* the job of the event: state, intent, attempts, who has locked it
    obTx,    \* each writer's transaction: where it is, content, what it was told
    obSlot,  \* the publisher job and the operator's redrive: where the publication is
    obNet,   \* publications on their way, the abandoned ones too
    obStream,\* copies the stream holds
    obDlq,   \* dead-letter records
    obOwed   \* contents a committed writer was promised, until their job ends

obVars == <<obClock, obLink, obRow, obTx, obSlot, obNet, obStream, obDlq, obOwed>>

TheEvent == "event-1"
LiveStates == {"pending", "running"}
Publishers == {"outbox", "redrive"}
NoRow == [state |-> "none", intent |-> Prepared(TheEvent, "none"), tries |-> 0, lock |-> NoWriter]
Settled == {"Created", "Duplicate"}
Idle == [at |-> "idle", content |-> "none", told |-> "none"]

\* What a broker loses when it restarts depends on these alone.
Forgetful == {"memory", "async"}

ObTypeOK ==
    /\ obClock \in 0 .. ObClockEnd
    /\ obLink.phase \in {"new", "refused", "admitted", "up", "closed"} /\ obLink.faults \subseteq Forgetful
    /\ obRow.state \in LiveStates \cup {"none", "done", "failed"}
    /\ obRow.tries \in 0 .. MaxTries /\ obRow.lock \in ObWriters \cup {NoWriter}
    /\ \A w \in ObWriters : obTx[w].at \in {"idle", "insert", "inserted", "duplicate", "compared", "told"}
    /\ \A p \in Publishers : obSlot[p].at \in {"idle", "sent", "acked", "Rejected", "Ambiguous"}
    /\ Cardinality(obStream) <= MaxCopies

-----------------------------------------------------------------------------
(* The connection *)

ObInit ==
    /\ obClock = 0
    /\ obLink = [phase |-> "new", faults |-> {}, draining |-> FALSE, outcome |-> "ok"]
    /\ obRow = NoRow
    /\ obTx = [w \in ObWriters |-> Idle]
    /\ obSlot = [p \in Publishers |-> [at |-> "idle", tries |-> 0]]
    /\ obNet = {} /\ obStream = {} /\ obDlq = {} /\ obOwed = {}

\* One thing wrong, or nothing; the connection itself may fail in any of its ways.
Brokers == {{}} \cup {{f} : f \in BrokerFaults}

ConnectMessaging ==
    /\ obLink.phase = "new"
    /\ \E faults \in Brokers, kind \in ConnectKinds \cup {"connected"}, consumes \in BOOLEAN :
          LET verdict ==
                Then(PrepareMessaging(faults, MAX_PAYLOAD_BYTES),
                Then(ConnectOptions(faults),
                Then(IF kind = "connected" THEN "ok" ELSE ConnectFailure(kind),
                     AdmitTopology(faults, consumes))))
          IN obLink' = [obLink EXCEPT !.phase = IF verdict = "ok" THEN "admitted"
                                                ELSE "refused",
                                      !.faults = IF verdict = "ok" THEN faults \cap Forgetful ELSE {},
                                      !.outcome = verdict]
    /\ UNCHANGED <<obClock, obRow, obTx, obSlot, obNet, obStream, obDlq, obOwed>>

\* The broker drops the connection, or restarts with what its stream keeps; what was on its way is
\* lost.  Every connection reads the credentials file again, until it can be read.
LoseBroker(restart) ==
    /\ obLink.phase = "up"
    /\ \E file \in {<<"marker", "user", "marker", "marker", "seed", "marker">>,
                    <<"marker", "user", "marker">>} : ParseCredentials(file) # "Malformed"
    /\ obStream' = IF restart /\ obLink.faults # {} THEN {} ELSE obStream
    /\ obNet' = {}
    /\ UNCHANGED <<obClock, obLink, obRow, obTx, obSlot, obDlq, obOwed>>

\* The first readiness probe that finds the connection, the server and the stream.
ProbeMessaging ==
    /\ obLink.phase = "admitted"
    /\ \E there, connected \in BOOLEAN :
          /\ ProbeVerdict(obLink.draining, FALSE, connected, obLink.faults, there) = "ok"
          /\ obLink' = [obLink EXCEPT !.phase = "up"]
    /\ UNCHANGED <<obClock, obRow, obTx, obSlot, obNet, obStream, obDlq, obOwed>>

\* Messaging::close refuses new publications, drains, and forces what has not drained in time.
\* Writers and the publisher have stopped before it, and the process ends with it.
DrainMessaging ==
    /\ obLink.phase = "up" /\ ~obLink.draining
    /\ obLink' = [obLink EXCEPT !.draining = TRUE]
    /\ UNCHANGED <<obClock, obRow, obTx, obSlot, obNet, obStream, obDlq, obOwed>>

CloseMessaging ==
    /\ obLink.phase = "up" /\ obLink.draining /\ obRow.state # "running"
    /\ \A w \in ObWriters : obTx[w].at \in {"idle", "told"}
    /\ \E expired, observed \in BOOLEAN :
          obLink' = [obLink EXCEPT !.phase = "closed",
                        !.outcome = CloseOutcome(FALSE, FALSE, expired, observed)]
    /\ obNet' = {}
    /\ UNCHANGED <<obClock, obRow, obTx, obSlot, obStream, obDlq, obOwed>>

-----------------------------------------------------------------------------
(* Writers *)

BeginEvent(w, content) ==
    /\ obTx[w].at = "idle" /\ obLink.phase = "up" /\ ~obLink.draining
    /\ \E faults \in {{}, {"zero_time"}}, overhead \in {300, MAX_PAYLOAD_BYTES + 1} :
          LET verdict == Then(PrepareEvent(faults), PrepareOutboxIntent(64, overhead))
          IN obTx' = [obTx EXCEPT ![w] = IF verdict = "ok"
                                         THEN [Idle EXCEPT !.at = "insert", !.content = content]
                                         ELSE [Idle EXCEPT !.at = "told"]]
    /\ UNCHANGED <<obClock, obLink, obRow, obSlot, obNet, obStream, obDlq, obOwed>>

\* INSERT ... ON CONFLICT DO NOTHING waits for another transaction's uncommitted insert.
EnqueueEvent(w) ==
    /\ obTx[w].at = "insert"
    /\ \A v \in ObWriters : obTx[v].at # "inserted"
    /\ obTx' = [obTx EXCEPT ![w].at = IF obRow.state \in LiveStates THEN "duplicate"
                                      ELSE "inserted",
                            ![w].told = IF obRow.state \in LiveStates THEN "none" ELSE "Created"]
    /\ UNCHANGED <<obClock, obLink, obRow, obSlot, obNet, obStream, obDlq, obOwed>>

\* Mutation: a duplicate is a duplicate.
ComparedToNothing(w) == "Duplicate"

\* What compare_live_payload says to the holder of a duplicate.
ComparedTo(w) ==
    IF obRow.state \notin LiveStates THEN "LiveIdentityChanged"
    ELSE IF obRow.intent.content = obTx[w].content THEN "Duplicate" ELSE "EventIdConflict"

\* SELECT ... FOR UPDATE: the row stays locked until the writer's transaction ends.
CompareLivePayload(w) ==
    /\ obTx[w].at = "duplicate" /\ obRow.lock = NoWriter
    /\ obTx' = [obTx EXCEPT ![w].at = "compared", ![w].told = ComparedTo(w)]
    /\ obRow' = IF obRow.state \in LiveStates THEN [obRow EXCEPT !.lock = w] ELSE obRow
    /\ UNCHANGED <<obClock, obLink, obSlot, obNet, obStream, obDlq, obOwed>>

Unlocked(w) == IF obRow.lock = w THEN [obRow EXCEPT !.lock = NoWriter] ELSE obRow

CommitEvent(w) ==
    /\ obTx[w].at \in {"inserted", "compared"} /\ obTx[w].told \in Settled
    /\ obRow' = IF obTx[w].at = "inserted"
                THEN [NoRow EXCEPT !.state = "pending",
                                   !.intent = Prepared(TheEvent, obTx[w].content)]
                ELSE Unlocked(w)
    /\ obOwed' = obOwed \cup {obTx[w].content}
    /\ obTx' = [obTx EXCEPT ![w] = [Idle EXCEPT !.at = "told"]]
    /\ UNCHANGED <<obClock, obLink, obSlot, obNet, obStream, obDlq>>

\* A refusal, a failed statement or a lost connection; the caller may try again.
RollbackEvent(w) ==
    /\ obTx[w].at \in {"insert", "inserted", "duplicate", "compared"}
    /\ obTx' = [obTx EXCEPT ![w] = Idle]
    /\ obRow' = Unlocked(w)
    /\ UNCHANGED <<obClock, obLink, obSlot, obNet, obStream, obDlq, obOwed>>

-----------------------------------------------------------------------------
(* Publication *)

\* Mutation: every attempt is a publication of its own.
PublicationOfAttempt(p, intent, tries) == [intent EXCEPT !.pub = Append(@, tries)]

\* A retry keeps the publication's identity.
Publication(p, intent, tries) == intent

\* Producer::publish up to the first poll of the exchange.
Send(p, intent, tries) ==
    \E faults \in {{}, {"large"}}, over \in BOOLEAN :
       LET verdict == Then(First(<< <<obLink.draining, "Rejected">> >>),
                      Then(SourceMessage(faults), IF over THEN "Rejected" ELSE "ok"))
       IN /\ obSlot' = [obSlot EXCEPT ![p].at = IF verdict = "ok" THEN "sent" ELSE verdict,
                                      ![p].tries = tries]
          /\ obNet' = IF verdict = "ok"
                      THEN obNet \cup {[by |-> p, tries |-> tries,
                                        event |-> Publication(p, intent, tries)]}
                      ELSE obNet

PublishClaimed ==
    /\ obLink.phase = "up"
    /\ obRow.state = "pending" /\ obRow.lock = NoWriter /\ obSlot["outbox"].at = "idle"
    /\ obRow' = [obRow EXCEPT !.state = "running", !.tries = @ + 1]
    /\ Send("outbox", obRow.intent, obRow.tries + 1)
    /\ UNCHANGED <<obClock, obLink, obTx, obStream, obDlq, obOwed>>

\* The stream drops a publication it has seen within its window, and says so.
Seen(event) == \E c \in obStream : c.event.pub = event.pub /\ obClock - c.at < Window

\* The broker takes a publication; its answer reaches the sender, or does not.
BrokerStores(m, answered) ==
    /\ m \in obNet
    /\ Seen(m.event) \/ Cardinality(obStream) < MaxCopies
    /\ obStream' = IF Seen(m.event) THEN obStream
                   ELSE obStream \cup {[event |-> m.event, at |-> obClock,
                                        seq |-> Cardinality(obStream) + 1]}
    /\ obNet' = obNet \ {m}
    /\ obSlot' = IF answered /\ obSlot[m.by].at = "sent" /\ obSlot[m.by].tries = m.tries
                 THEN [obSlot EXCEPT ![m.by].at = "acked"] ELSE obSlot
    /\ UNCHANGED <<obClock, obLink, obRow, obTx, obDlq, obOwed>>

BrokerRefuses(m) ==
    /\ m \in obNet
    /\ obNet' = obNet \ {m}
    /\ \E kind \in PublishKinds :
          obSlot' = IF obSlot[m.by].at = "sent" /\ obSlot[m.by].tries = m.tries
                    THEN [obSlot EXCEPT ![m.by].at = ClassifyPublish(kind)] ELSE obSlot
    /\ UNCHANGED <<obClock, obLink, obRow, obTx, obStream, obDlq, obOwed>>

\* Cancellation or the deadline, once the publication may have left.
StopWaiting(p) ==
    /\ obSlot[p].at = "sent"
    /\ obSlot' = [obSlot EXCEPT ![p].at = "Ambiguous"]
    /\ UNCHANGED <<obClock, obLink, obRow, obTx, obNet, obStream, obDlq, obOwed>>

Ended(state) ==
    /\ obRow' = [obRow EXCEPT !.state = state]
    /\ obOwed' = IF state \in LiveStates THEN obOwed ELSE {}

\* The job's outcome is recorded once no writer holds the row.
SettlePublication ==
    /\ obSlot["outbox"].at \in {"acked", "Rejected", "Ambiguous"} /\ obRow.lock = NoWriter
    /\ Ended(CASE obSlot["outbox"].at = "acked" -> "done"
               [] obRow.tries = MaxTries -> "failed"
               [] OTHER -> "pending")
    /\ obSlot' = [obSlot EXCEPT !["outbox"].at = "idle"]
    /\ UNCHANGED <<obClock, obLink, obTx, obNet, obStream, obDlq>>

\* A stored intent the publisher cannot read, or the last attempt lost with its worker.
LosePublisher ==
    /\ obRow.state = "running" /\ obSlot["outbox"].at # "idle" /\ obRow.lock = NoWriter
    /\ \E faults \in {{}, {"other_version"}} :
          Ended(IF StoredIntent(faults) # "ok" \/ obRow.tries = MaxTries THEN "failed"
                ELSE "pending")
    /\ obSlot' = [obSlot EXCEPT !["outbox"].at = "idle"]
    /\ UNCHANGED <<obClock, obLink, obTx, obNet, obStream, obDlq>>

-----------------------------------------------------------------------------
(* Dead letters *)

\* Bound: dead letters are looked after when the outbox is at rest.
AtRest == obRow.state \notin LiveStates /\ \A w \in ObWriters : obTx[w].at \in {"idle", "told"}

\* A consumer that cannot handle a copy transfers it.
TransferDeadLetter(c) ==
    /\ AtRest
    /\ c \in obStream /\ c.event.pub[1] = "event" /\ obDlq = {}
    /\ DispatchVerdict({[type |-> "t", version |-> 1, subject |-> <<"a", "b">>]}, {}, <<"a", "b">>,
                       <<"t", 1>>, TRUE) = "Unhandled"
    /\ DecodeEnvelope({}) = "ok"
    /\ obDlq' = {[seq |-> c.seq, event |-> c.event]}
    /\ UNCHANGED <<obClock, obLink, obRow, obTx, obSlot, obNet, obStream, obOwed>>

\* The operator publishes the record's event again, as often as it takes.
Redrive(d) ==
    /\ AtRest /\ d \in obDlq /\ obLink.phase = "up" /\ RestoreDeadLetter({}) = "ok"
    /\ obSlot["redrive"].at \in {"idle", "acked", "Rejected", "Ambiguous"}
    /\ obSlot["redrive"].tries < MaxRedrives
    /\ Send("redrive", [d.event EXCEPT !.pub = RecordId("redrive", d)], obSlot["redrive"].tries + 1)
    /\ UNCHANGED <<obClock, obLink, obRow, obTx, obStream, obDlq, obOwed>>

\* Time before the first copy tells nothing apart.
TickOutbox ==
    /\ obClock < ObClockEnd /\ obLink.phase = "up" /\ obStream # {}
    /\ obClock' = obClock + 1
    /\ UNCHANGED <<obLink, obRow, obTx, obSlot, obNet, obStream, obDlq, obOwed>>

ObNext ==
    \/ ConnectMessaging
    \/ \E restart \in BOOLEAN : LoseBroker(restart)
    \/ ProbeMessaging
    \/ DrainMessaging
    \/ CloseMessaging
    \/ \E w \in ObWriters, c \in ObContents : BeginEvent(w, c)
    \/ \E w \in ObWriters : EnqueueEvent(w)
    \/ \E w \in ObWriters : CompareLivePayload(w)
    \/ \E w \in ObWriters : CommitEvent(w)
    \/ \E w \in ObWriters : RollbackEvent(w)
    \/ PublishClaimed
    \/ \E m \in obNet, answered \in BOOLEAN : BrokerStores(m, answered)
    \/ \E m \in obNet : BrokerRefuses(m)
    \/ \E p \in Publishers : StopWaiting(p)
    \/ SettlePublication
    \/ LosePublisher
    \/ \E c \in obStream : TransferDeadLetter(c)
    \/ \E d \in obDlq : Redrive(d)
    \/ TickOutbox

-----------------------------------------------------------------------------
(* Properties *)

\* A writer that committed an event was promised its publication.  Until the job that carries it
\* has ended, that job is live and says exactly what the writer said: a duplicate was compared and
\* its row kept locked to the commit.  A job that ended well has its event in the stream, which
\* the admitted storage keeps over a restart of the broker.
IntentCarried ==
    /\ ObTypeOK
    /\ obOwed # {} => obRow.state \in LiveStates /\ obOwed = {obRow.intent.content}
    /\ obRow.state = "done" => \E c \in obStream : c.event.event = TheEvent

\* Lost answers, retries and redrives put a second copy of a publication into the stream only when
\* the first is older than the duplicate window, because every attempt keeps the publication's
\* identity and every redrive of a record derives the same one.
CopiesApart ==
    \A c, d \in obStream :
        c.seq < d.seq /\ (c.event.pub[1] = d.event.pub[1]) => d.at - c.at >= Window

\* A committed event is carried to the stream and not repeated there within the duplicate window
\* (infra-messaging/src/outbox.rs: enqueue, publish and redrive).
EventsCarried == IntentCarried /\ CopiesApart
=============================================================================
