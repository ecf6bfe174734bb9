--------------------------- MODULE LifecycleProofs ---------------------------
(***************************************************************************)
(* The process and its configuration, for every budget and every content   *)
(* of the carriers.  No teardown stage starves a later one: DeadlineCovers *)
(* carries the sum of the allotments still to come from                    *)
(* validate_grace_budget to the last stage.  Work in flight is answered    *)
(* inside its drain.  A load that is accepted says what its carriers say.  *)
(***************************************************************************)
EXTENDS Lifecycle, ConfigLoad, SequenceTheorems, FiniteSetTheorems, NaturalsInduction,
        WellFoundedInduction, TLAPS

LEMMA Budgets == /\ Diagnostics \in Nat /\ BackgroundJoin \in Nat /\ DependencyClose \in Nat
                 /\ TelemetryFlush \in Nat /\ JoinSlack \in Nat /\ RuntimeTimeout \in Nat
                 /\ LogReserve \in Nat
BY LifecycleAssumption

LEMMA ConfigNat == \A c \in Configs : /\ c.grace \in Nat /\ c.drain \in Nat
                                      /\ c.propagation \in Nat /\ c.request \in Nat
BY LifecycleAssumption DEF Config

\* The later budgets, stage by stage.
LEMMA LaterIs ==
    /\ DOMAIN Later = {"propagate", "drain", "diagnostics", "join", "forced", "close",
                       "trace", "log"}
    /\ Later["log"] = 0 /\ Later["trace"] = 0
    /\ Later["close"] = TelemetryFlush + JoinSlack
    /\ Later["forced"] = Later["close"]
    /\ Later["join"] = DependencyClose + Later["forced"]
    /\ Later["diagnostics"] = BackgroundJoin + Later["join"]
    /\ Later["drain"] = Diagnostics + Later["diagnostics"]
    /\ Later["propagate"] = Later["drain"]
BY DEF Later

LEMMA LaterNat == \A s \in DOMAIN Later : Later[s] \in Nat
BY LaterIs, Budgets

LEMMA WantIs ==
    /\ DOMAIN Want = {"diagnostics", "join", "forced", "trace"}
    /\ Want["diagnostics"] = Diagnostics /\ Want["join"] = BackgroundJoin
    /\ Want["forced"] = DependencyClose /\ Want["trace"] = TelemetryFlush + JoinSlack
BY DEF Want

\* A stage that is followed by next grants next its whole allotment.
LEMMA EnterCovers ==
    ASSUME DeadlineCovers, NEW unclean \in BOOLEAN, NEW next,
           stage \in DOMAIN Later,
           \/ stage \in {"propagate", "drain"} /\ next = "diagnostics"
           \/ stage = "diagnostics" /\ next = "join"
           \/ stage = "join" /\ next = "forced"
           \/ stage = "forced" /\ next = "close"
           \/ stage = "close" /\ next = "trace"
           \/ stage = "trace" /\ next = "log",
           Enter(next, unclean)
    PROVE  /\ outer' \in Nat /\ timer' \in Nat /\ timer' <= outer'
           /\ left' = left /\ cfg' = cfg /\ stage' = next
           /\ stage' \in DOMAIN Later
           /\ left' >= RuntimeTimeout + outer' + Later[next]
           /\ next \in DOMAIN Want => outer' = Want[next]
<1>1. left \in Nat /\ outer \in Nat /\ left >= RuntimeTimeout + outer + Later[stage]
  BY DEF DeadlineCovers, TypeOK
<1>2. stage' = next /\ left' = left /\ cfg' = cfg
  BY DEF Enter
<1>3. next \in DOMAIN Want \/ next \in {"close", "log"}
  BY WantIs
<1>4. outer' \in Nat /\ left >= RuntimeTimeout + outer' + Later[next]
        /\ (next \in DOMAIN Want => outer' = Want[next])
  <2>1. CASE next \in DOMAIN Want
    <3>1. Want[next] \in Nat /\ Later[next] \in Nat
      BY <2>1, WantIs, Budgets, LaterNat, LaterIs
    <3>2. Later[stage] = Want[next] + Later[next]
      BY <2>1, WantIs, LaterIs, Budgets
    <3>3. outer' = Remaining(left, Want[next])
      BY <2>1 DEF Enter, Allot
    <3>. QED BY <1>1, <3>1, <3>2, <3>3, <2>1, Budgets DEF Remaining, Min2, Less
  <2>2. CASE next \in {"close", "log"}
    <3>1. next \notin DOMAIN Want /\ Later[stage] = Later[next]
      BY <2>2, WantIs, LaterIs
    <3>2. outer' = outer
      BY <3>1 DEF Enter, Allot
    <3>. QED BY <1>1, <3>1, <3>2
  <2>. QED BY <1>3, <2>1, <2>2
<1>5. timer' \in Nat /\ timer' <= outer'
  <2>1. timer' = IF next = "trace" THEN outer' - Min2(LogReserve, outer') ELSE outer'
    BY DEF Enter
  <2>2. CASE next = "trace"
    <3>1. timer' = outer' - Min2(LogReserve, outer')
      BY <2>1, <2>2
    <3>2. \A a, b \in Nat : a - Min2(b, a) \in Nat /\ a - Min2(b, a) <= a
      BY DEF Min2
    <3>. QED BY <3>1, <3>2, <1>4, Budgets
  <2>3. CASE next # "trace"
    BY <2>1, <2>3, <1>4
  <2>. QED BY <2>2, <2>3
<1>6. next \in DOMAIN Later
  BY LaterIs
<1>. QED BY <1>2, <1>4, <1>5, <1>6

\* The parts of the state that no deadline depends on.
Rest == /\ task \in [Tasks -> {"none", "run", "aborting", "ended"}]
        /\ latch \in BOOLEAN
        /\ bad \subseteq Tasks
        /\ accept \in {"none", "up", "failed", "stopped"}
        /\ req \in [Reqs -> {"none", "open", "done", "cut"}]
        /\ age \in [Reqs -> Nat]
        /\ pool \in {"none", "open", "closed", "abandoned"}
        /\ {admitted, pending, failure, degraded, panicked} \subseteq BOOLEAN
        /\ stops \in Nat
        /\ code \in {"none", "0", "1", "3"}

LEMMA RestType == TypeOK <=> /\ Rest
                             /\ cfg \in Configs
                             /\ stage \in Running \cup Teardown \cup {"runtime", "exited"}
                             /\ left \in Nat /\ outer \in Nat /\ timer \in Nat
BY DEF TypeOK, Rest

\* Every step keeps the types of that part.
LEMMA RestKept == ASSUME TypeOK, [Next]_vars PROVE Rest'
<1>0. Rest /\ cfg \in Configs
  BY RestType
<1>1. CASE Startup
  <2>1. CASE OpenPool \/ Bind \/ Ready
    BY <1>0, <2>1 DEF Rest, OpenPool, Bind, Ready
  <2>2. ASSUME NEW t \in Tasks, Spawn(t) PROVE Rest'
    BY <1>0, <2>2 DEF Rest, Spawn
  <2>. QED BY <1>1, <2>1, <2>2 DEF Startup
<1>2. CASE \E b \in BOOLEAN : BeginTeardown(b)
  BY <1>0, <1>2 DEF Rest, BeginTeardown, StopAccepting, PendingFailure
<1>3. CASE EndPropagation
  BY <1>0, <1>3 DEF Rest, EndPropagation, StopAccepting
<1>4. CASE EndDrain
  BY <1>0, <1>4 DEF Rest, EndDrain, Enter, Cut
<1>5. CASE \E b \in BOOLEAN : EndDiagnostics(b)
  BY <1>0, <1>5 DEF Rest, EndDiagnostics, Enter, Cut, StopAccepting
<1>6. CASE EndJoin
  BY <1>0, <1>6 DEF Rest, EndJoin, Enter, Aborted
<1>7. CASE EndForced
  BY <1>0, <1>7 DEF Rest, EndForced, Enter
<1>8. CASE \E b \in BOOLEAN : EndClose(b) \/ EndTrace(b) \/ EndLog(b)
  BY <1>0, <1>8 DEF Rest, EndClose, EndTrace, EndLog, Enter
<1>9. CASE Exit
  BY <1>0, <1>9 DEF Rest, Exit
<1>10. CASE StagePanics
  BY <1>0, <1>10 DEF Rest, StagePanics, Enter, Cut, StopAccepting, Aborted
<1>11. CASE Environment
  <2>1. ASSUME NEW t \in Tasks, NEW b \in BOOLEAN, TaskEnds(t, b) PROVE Rest'
    BY <1>0, <2>1 DEF Rest, TaskEnds
  <2>2. ASSUME NEW t \in Tasks, Report(t) \/ AbortEnds(t) PROVE Rest'
    BY <1>0, <2>2 DEF Rest, Report, AbortEnds
  <2>3. ASSUME NEW r \in Reqs, Arrive(r) PROVE Rest'
    <3>1. cfg.request \in Nat
      BY <1>0, ConfigNat
    <3>. QED BY <1>0, <2>3, <3>1 DEF Rest, Arrive
  <2>4. ASSUME NEW r \in Reqs, Answer(r) PROVE Rest'
    BY <1>0, <2>4 DEF Rest, Answer
  <2>5. CASE AcceptFails
    BY <1>0, <2>5 DEF Rest, AcceptFails
  <2>6. CASE Signal
    <3>1. stops' \in Nat /\ pending' \in BOOLEAN
      BY <1>0, <2>6 DEF Rest, Signal
    <3>. QED BY <1>0, <2>6, <3>1 DEF Rest, Signal
  <2>. QED BY <1>11, <2>1, <2>2, <2>3, <2>4, <2>5, <2>6 DEF Environment
<1>12. CASE Tick
  BY <1>0, <1>12 DEF Rest, Tick, Less
<1>13. CASE UNCHANGED vars
  BY <1>0, <1>13 DEF Rest, vars
<1>. QED BY <1>1, <1>2, <1>3, <1>4, <1>5, <1>6, <1>7, <1>8, <1>9, <1>10, <1>11, <1>12, <1>13
         DEF Next, Stage

\* What a step does to the deadlines.
LEMMA DeadlinesKept ==
    ASSUME DeadlineCovers, [Next]_vars
    PROVE  /\ cfg' \in Configs
           /\ stage' \in Running \cup Teardown \cup {"runtime", "exited"}
           /\ left' \in Nat /\ outer' \in Nat /\ timer' \in Nat
           /\ stage' \in Running => ValidHttp(cfg') /\ ValidGrace(cfg')
           /\ stage' \in Teardown => /\ left' >= RuntimeTimeout + outer' + Later[stage']
                                     /\ timer' <= outer'
           /\ stage' # stage => /\ stage' \in DOMAIN Want => outer' = Want[stage']
                                /\ stage \in Running /\ stage' \in Teardown => outer' = cfg.drain
<1>d. DOMAIN Later = Teardown /\ Teardown \cap Running = {}
  BY LaterIs DEF Teardown, Running
<1>w. DOMAIN Want \cap (Running \cup {"propagate", "drain", "runtime", "exited"}) = {}
  BY WantIs DEF Running
<1>0. /\ cfg \in Configs /\ left \in Nat /\ outer \in Nat /\ timer \in Nat
      /\ stage \in Running \cup Teardown \cup {"runtime", "exited"}
      /\ stage \in Running => ValidHttp(cfg) /\ ValidGrace(cfg)
      /\ stage \in Teardown => left >= RuntimeTimeout + outer + Later[stage] /\ timer <= outer
  BY <1>d DEF DeadlineCovers, TypeOK
<1>1. CASE \E b \in BOOLEAN : BeginTeardown(b)
  <2>1. /\ stage \in Running /\ cfg' = cfg /\ left' = cfg.grace
        /\ outer' = Remaining(cfg.grace, cfg.drain)
        /\ stage' \in {"propagate", "drain"}
        /\ timer' = Remaining(cfg.grace, cfg.propagation) \/ timer' = outer'
    BY <1>1 DEF BeginTeardown
  <2>2. /\ cfg.grace >= cfg.drain + SHUTDOWN_TAIL /\ cfg.propagation < cfg.drain
        /\ cfg.grace \in Nat /\ cfg.drain \in Nat /\ cfg.propagation \in Nat
    BY <1>0, <2>1, ConfigNat DEF ValidGrace, ValidHttp
  <2>3. SHUTDOWN_TAIL = Later["drain"] + RuntimeTimeout /\ Later["drain"] \in Nat
    BY LaterIs, Budgets, LaterNat DEF SHUTDOWN_TAIL
  <2>4. outer' = cfg.drain
    BY <2>1, <2>2, <2>3, Budgets DEF Remaining, Min2, Less
  <2>5. timer' \in Nat /\ timer' <= outer'
    <3>1. Remaining(cfg.grace, cfg.propagation) = cfg.propagation
      BY <2>2, <2>3, Budgets DEF Remaining, Min2, Less
    <3>. QED BY <2>1, <2>2, <2>4, <3>1
  <2>6. Later[stage'] = Later["drain"]
    BY <2>1, LaterIs
  <2>7. left' >= RuntimeTimeout + outer' + Later[stage']
    BY <2>1, <2>2, <2>3, <2>4, <2>6, Budgets
  <2>8. stage' \in Teardown /\ stage' \notin Running /\ stage' \notin DOMAIN Want
    BY <2>1, <1>w DEF Teardown, Running
  <2>. QED BY <1>0, <2>1, <2>2, <2>4, <2>5, <2>7, <2>8
<1>2. CASE EndPropagation
  <2>1. /\ stage = "propagate" /\ stage' = "drain" /\ cfg' = cfg /\ left' = left /\ outer' = outer
        /\ timer' = Min2(EffectiveDrain(cfg), outer)
    BY <1>2 DEF EndPropagation
  <2>2. EffectiveDrain(cfg) \in Nat
    BY <1>0, ConfigNat DEF EffectiveDrain
  <2>3. timer' \in Nat /\ timer' <= outer'
    BY <1>0, <2>1, <2>2 DEF Min2
  <2>4. Later[stage'] = Later[stage] /\ stage \in Teardown /\ stage' \in Teardown
          /\ stage' \notin Running /\ stage \notin Running /\ stage' \notin DOMAIN Want
    BY <2>1, LaterIs, <1>w DEF Teardown, Running
  <2>. QED BY <1>0, <2>1, <2>3, <2>4
<1>3. ASSUME NEW unclean \in BOOLEAN, NEW next, stage \in DOMAIN Later,
             \/ stage \in {"propagate", "drain"} /\ next = "diagnostics"
             \/ stage = "diagnostics" /\ next = "join"
             \/ stage = "join" /\ next = "forced"
             \/ stage = "forced" /\ next = "close"
             \/ stage = "close" /\ next = "trace"
             \/ stage = "trace" /\ next = "log",
             Enter(next, unclean)
      PROVE  /\ cfg' \in Configs
             /\ stage' \in Running \cup Teardown \cup {"runtime", "exited"}
             /\ left' \in Nat /\ outer' \in Nat /\ timer' \in Nat
             /\ stage' \in Running => ValidHttp(cfg') /\ ValidGrace(cfg')
             /\ stage' \in Teardown => /\ left' >= RuntimeTimeout + outer' + Later[stage']
                                       /\ timer' <= outer'
             /\ stage' # stage =>
                  /\ stage' \in DOMAIN Want => outer' = Want[stage']
                  /\ stage \in Running /\ stage' \in Teardown => outer' = cfg.drain
  <2>1. /\ outer' \in Nat /\ timer' \in Nat /\ timer' <= outer'
        /\ left' = left /\ cfg' = cfg /\ stage' = next
        /\ stage' \in DOMAIN Later
        /\ left' >= RuntimeTimeout + outer' + Later[next]
        /\ next \in DOMAIN Want => outer' = Want[next]
    BY <1>3, EnterCovers
  <2>. QED BY <1>0, <1>3, <1>d, <2>1
<1>4. CASE EndDrain
  <2>1. PICK stuck \in BOOLEAN : Enter("diagnostics", stuck \/ Open # {} \/ accept = "failed")
    BY <1>4 DEF EndDrain
  <2>2. stage = "drain"
    BY <1>4 DEF EndDrain
  <2>3. (stuck \/ Open # {} \/ accept = "failed") \in BOOLEAN
    OBVIOUS
  <2>. QED BY <2>1, <2>2, <2>3, <1>3, LaterIs
<1>5. CASE \E b \in BOOLEAN : EndDiagnostics(b)
  BY <1>3, <1>5, LaterIs DEF EndDiagnostics
<1>6. CASE EndJoin
  <2>1. stage = "join" /\ Enter("forced", latch \/ Live # {})
    BY <1>6 DEF EndJoin
  <2>2. (latch \/ Live # {}) \in BOOLEAN
    OBVIOUS
  <2>. QED BY <2>1, <2>2, <1>3, LaterIs
<1>7. CASE EndForced
  <2>1. stage = "forced" /\ Enter("close", Live # {})
    BY <1>7 DEF EndForced
  <2>2. (Live # {}) \in BOOLEAN
    OBVIOUS
  <2>. QED BY <2>1, <2>2, <1>3, LaterIs
<1>8. CASE \E b \in BOOLEAN : EndClose(b) \/ EndTrace(b)
  BY <1>3, <1>8, LaterIs DEF EndClose, EndTrace
<1>9. CASE StagePanics
  <2>1. stage \in DOMAIN After /\ Enter(After[stage], TRUE)
    BY <1>9 DEF StagePanics
  <2>2. /\ stage \in DOMAIN Later
        /\ \/ stage \in {"propagate", "drain"} /\ After[stage] = "diagnostics"
           \/ stage = "diagnostics" /\ After[stage] = "join"
           \/ stage = "join" /\ After[stage] = "forced"
           \/ stage = "forced" /\ After[stage] = "close"
           \/ stage = "close" /\ After[stage] = "trace"
           \/ stage = "trace" /\ After[stage] = "log"
    BY <2>1, LaterIs DEF After
  <2>. QED BY <2>1, <2>2, <1>3
<1>10. CASE \E b \in BOOLEAN : EndLog(b)
  <2>1. /\ stage = "log" /\ stage' = "runtime" /\ cfg' = cfg /\ left' = left
        /\ timer' = Min2(RuntimeTimeout, left) /\ outer' = timer'
    BY <1>10 DEF EndLog
  <2>2. timer' \in Nat
    BY <1>0, <2>1, Budgets DEF Min2
  <2>3. stage' \notin Running \cup Teardown /\ stage' \notin DOMAIN Want
    BY <2>1, <1>w DEF Running, Teardown
  <2>. QED BY <1>0, <2>1, <2>2, <2>3
<1>11. CASE Exit
  <2>1. stage' = "exited" /\ UNCHANGED <<cfg, left, outer, timer>>
    BY <1>11 DEF Exit
  <2>2. stage' \notin Running \cup Teardown /\ stage' \notin DOMAIN Want
    BY <2>1, <1>w DEF Running, Teardown
  <2>. QED BY <1>0, <2>1, <2>2
<1>12. CASE Ready
  <2>1. /\ stage \in Running /\ stage' \in Running /\ UNCHANGED <<cfg, left, outer, timer>>
    BY <1>12 DEF Ready, Running
  <2>. QED BY <1>0, <1>d, <1>w, <2>1
<1>13. CASE Tick
  <2>1. cfg' = cfg /\ stage' = stage
    BY <1>13 DEF Tick
  <2>2. CASE stage \in Running
    BY <1>0, <1>d, <1>13, <2>1, <2>2 DEF Tick
  <2>3. CASE stage \notin Running
    <3>1. timer > 0 /\ left' = Less(left, 1) /\ outer' = Less(outer, 1) /\ timer' = Less(timer, 1)
      BY <1>13, <2>3 DEF Tick
    <3>2. left' \in Nat /\ outer' \in Nat /\ timer' \in Nat
      BY <1>0, <3>1 DEF Less
    <3>3. ASSUME stage \in Teardown
          PROVE  left' >= RuntimeTimeout + outer' + Later[stage] /\ timer' <= outer'
      <4>1. Later[stage] \in Nat
        BY <3>3, <1>d, LaterNat
      <4>. QED BY <1>0, <3>1, <3>3, <4>1, Budgets DEF Less
    <3>. QED BY <1>0, <2>1, <2>3, <3>2, <3>3
  <2>. QED BY <2>2, <2>3
<1>14. CASE UNCHANGED <<cfg, stage, left, outer, timer>>
  BY <1>0, <1>14
<1>15. CASE OpenPool \/ Bind \/ \E t \in Tasks : Spawn(t)
  BY <1>14, <1>15 DEF OpenPool, Bind, Spawn
<1>16. CASE Environment
  BY <1>14, <1>16 DEF Environment, TaskEnds, Report, AbortEnds, AcceptFails, Arrive, Answer, Signal
<1>17. CASE UNCHANGED vars
  BY <1>14, <1>17 DEF vars
<1>. QED BY <1>1, <1>2, <1>4, <1>5, <1>6, <1>7, <1>8, <1>9, <1>10, <1>11, <1>12, <1>13, <1>15,
            <1>16, <1>17 DEF Next, Startup, Stage

\* The time left covers every budget still to be granted, for every admitted
\* configuration (validate_grace_budget, Budget::stage_deadline).
THEOREM NeverStarved == Spec => []DeadlineCovers
<1>1. Init => DeadlineCovers
  <2>. SUFFICES ASSUME Init PROVE DeadlineCovers
    OBVIOUS
  <2>1. cfg \in Configs /\ left \in Nat /\ outer \in Nat /\ timer \in Nat
    BY ConfigNat DEF Init
  <2>2. Rest
    BY DEF Init, Rest
  <2>3. stage \in {"starting", "exited"} /\ (stage = "starting" => ValidHttp(cfg) /\ ValidGrace(cfg))
    BY DEF Init
  <2>4. stage \notin DOMAIN Later /\ stage \in Running \cup Teardown \cup {"runtime", "exited"}
    BY <2>3, LaterIs DEF Running
  <2>5. stage \in Running => stage = "starting"
    BY <2>3 DEF Running
  <2>. QED BY <2>1, <2>2, <2>3, <2>4, <2>5, RestType DEF DeadlineCovers
<1>2. DeadlineCovers /\ [Next]_vars => DeadlineCovers'
  <2>. SUFFICES ASSUME DeadlineCovers, [Next]_vars PROVE DeadlineCovers'
    OBVIOUS
  <2>1. Rest'
    BY RestKept DEF DeadlineCovers
  <2>2. TypeOK'
    BY <2>1, DeadlinesKept DEF TypeOK, Rest
  <2>3. (DOMAIN Later)' = Teardown /\ Later' = Later
    BY LaterIs DEF Teardown, Later
  <2>. QED BY <2>2, <2>3, DeadlinesKept DEF DeadlineCovers
<1>. QED BY <1>1, <1>2, PTL DEF Spec

\* Every teardown stage is granted its whole allotment, whatever the earlier
\* stages spent (shutdown.rs run, stop_serving, finish_telemetry).
THEOREM Allotted == Spec => FullAllotment
<1>1. DeadlineCovers /\ [Next]_vars =>
        [stage' # stage =>
            /\ stage' \in DOMAIN Want => outer' = Want[stage']
            /\ stage \in Running /\ stage' \in Teardown => outer' = cfg.drain]_vars
  BY DeadlinesKept
<1>. QED BY <1>1, NeverStarved, PTL DEF Spec, FullAllotment

-----------------------------------------------------------------------------
(* Exit code 0 hides nothing *)

\* Stages after the drain, and after the join.
Drained == {"diagnostics", "join", "forced", "close", "trace", "log", "runtime", "exited"}
Joined == {"forced", "close", "trace", "log", "runtime", "exited"}

\* The inductive form of CleanExit and DependenciesLast: from each stage on,
\* what the stage had to confirm is confirmed, or the outcome is degraded.
Honest ==
    /\ bad # {} => latch
    /\ stage = "drain" => accept # "up"
    /\ \A r \in Reqs : req[r] = "cut" => degraded
    /\ stage \in Drained => degraded \/ (Open = {} /\ accept \in {"none", "stopped"})
    /\ stage \in Joined => degraded \/ (Live = {} /\ bad = {})
    /\ pool = "abandoned" => degraded
    /\ code = "0" => ~degraded /\ stage \in {"runtime", "exited"}

LEMMA HonestKept == ASSUME TypeOK, Honest, [Next]_vars PROVE Honest'
<1>. USE DEF Honest, TypeOK, Drained, Joined, Open, Live
<1>1. CASE Startup
  BY <1>1 DEF Startup, OpenPool, Bind, Ready, Spawn
<1>2. CASE \E b \in BOOLEAN : BeginTeardown(b)
  BY <1>2 DEF BeginTeardown, StopAccepting, PendingFailure, Running
<1>3. CASE EndPropagation
  BY <1>3 DEF EndPropagation, StopAccepting
<1>4. CASE EndDrain
  <2>1. PICK stuck \in BOOLEAN : Enter("diagnostics", stuck \/ Open # {} \/ accept = "failed")
    BY <1>4 DEF EndDrain
  <2>2. /\ stage' = "diagnostics" /\ req' = Cut
        /\ UNCHANGED <<task, latch, bad, accept, pool, code>>
        /\ degraded' = (degraded \/ stuck \/ Open # {} \/ accept = "failed")
    BY <1>4, <2>1 DEF EndDrain, Enter
  <2>3. accept # "up"
    BY <1>4 DEF EndDrain
  <2>4. degraded' \/ (Open = {} /\ accept \in {"none", "stopped"} /\ degraded' = degraded)
    BY <2>2, <2>3
  <2>5. Open' = {} /\ \A r \in Reqs : req'[r] = "cut" => req[r] = "cut" \/ r \in Open
    BY <2>2 DEF Cut
  <2>6. \A r \in Reqs : req'[r] = "cut" => degraded'
    BY <2>2, <2>5
  <2>7. degraded => degraded'
    BY <2>2
  <2>8. code # "0" /\ stage' \notin Joined /\ stage' # "drain"
    BY <1>4, <2>2 DEF EndDrain
  <2>. QED BY <2>2, <2>4, <2>5, <2>6, <2>7, <2>8
<1>5. CASE \E b \in BOOLEAN : EndDiagnostics(b)
  BY <1>5 DEF EndDiagnostics, Enter, Cut, StopAccepting
<1>6. CASE EndJoin
  BY <1>6 DEF EndJoin, Enter, Aborted
<1>7. CASE EndForced
  BY <1>7 DEF EndForced, Enter
<1>8. CASE \E b \in BOOLEAN : EndClose(b)
  BY <1>8 DEF EndClose, Enter
<1>9. CASE \E b \in BOOLEAN : EndTrace(b)
  BY <1>9 DEF EndTrace, Enter
<1>10. CASE \E b \in BOOLEAN : EndLog(b)
  BY <1>10 DEF EndLog
<1>11. CASE Exit
  BY <1>11 DEF Exit
<1>12. CASE StagePanics
  <2>1. stage \in DOMAIN After /\ stage' = After[stage] /\ degraded' = TRUE
          /\ UNCHANGED <<latch, bad, pool, code>>
    BY <1>12 DEF StagePanics, Enter
  <2>2. stage \notin {"runtime", "exited"} /\ stage' # "drain"
    BY <2>1 DEF After
  <2>. QED BY <2>1, <2>2
<1>13. CASE \E t \in Tasks, b \in BOOLEAN : TaskEnds(t, b)
  <2>1. PICK t \in Tasks, b \in BOOLEAN : TaskEnds(t, b)
    BY <1>13
  <2>2. /\ task[t] = "run" /\ bad' \in {bad, bad \cup {t}}
        /\ bad' = bad \/ latch' = TRUE
        /\ latch' = TRUE \/ latch' = latch
        /\ UNCHANGED <<stage, accept, req, pool, degraded, code>>
    BY <2>1 DEF TaskEnds
  <2>3. t \in Live
    BY <2>2
  <2>4. stage \in Joined => degraded
    BY <2>3
  <2>. QED BY <2>2, <2>4
<1>14. CASE \E t \in Tasks : Report(t)
  BY <1>14 DEF Report
<1>15. CASE \E t \in Tasks : AbortEnds(t)
  BY <1>15 DEF AbortEnds
<1>16. CASE AcceptFails
  BY <1>16 DEF AcceptFails
<1>17. CASE \E r \in Reqs : Arrive(r)
  BY <1>17 DEF Arrive
<1>18. CASE \E r \in Reqs : Answer(r)
  BY <1>18 DEF Answer
<1>19. CASE Signal
  BY <1>19 DEF Signal
<1>20. CASE Tick
  BY <1>20 DEF Tick
<1>21. CASE UNCHANGED vars
  BY <1>21 DEF vars
<1>. QED BY <1>1, <1>2, <1>3, <1>4, <1>5, <1>6, <1>7, <1>8, <1>9, <1>10, <1>11, <1>12, <1>13, <1>14, <1>15, <1>16, <1>17, <1>18, <1>19, <1>20, <1>21 DEF Next, Stage, Environment

\* What stages confirm stays confirmed, or the outcome is degraded.
THEOREM TeardownHonest == Spec => []Honest
<1>1. Init => Honest
  BY DEF Init, Honest, Drained, Joined, Open, Live
<1>2. TypeOK /\ Honest /\ [Next]_vars => Honest'
  BY HonestKept
<1>3. DeadlineCovers => TypeOK
  BY DEF DeadlineCovers
<1>. QED BY <1>1, <1>2, <1>3, NeverStarved, PTL DEF Spec

\* Exit code 0 means that no task failed or was left behind, no request was cut
\* and no connection abandoned (bootstrap run, shutdown.rs run, join_until).
THEOREM CleanExitSafe == Spec => []CleanExit
<1>1. Honest => CleanExit
  BY DEF Honest, CleanExit, Drained, Joined
<1>. QED BY <1>1, TeardownHonest, PTL

\* Dependencies close after their users, or the outcome is already degraded
\* (shutdown.rs run).
THEOREM DependenciesLastSafe == Spec => []DependenciesLast
<1>1. Honest => DependenciesLast
  BY DEF Honest, DependenciesLast, Drained, Joined
<1>. QED BY <1>1, TeardownHonest, PTL

\* The shutdown is ordered and its exit code honest, for every configuration, every set of tasks
\* and requests and every signal (shutdown.rs Budget, run).
THEOREM ShutdownOrderedSafe == Spec => []ShutdownOrdered
BY NeverStarved, DependenciesLastSafe, CleanExitSafe, PTL DEF ShutdownOrdered

-----------------------------------------------------------------------------
(* A request that obeys its timeout is never cut *)

Admitting == Running \cup {"propagate"}

\* Until the drain every open request is within http.request_timeout, the drain that
\* follows the propagation delay is the effective one, and its timer never runs out
\* before a request's.
Served ==
    /\ stage \in Admitting => ValidHttp(cfg) /\ ValidGrace(cfg) /\ ~panicked
    /\ stage = "propagate" => outer = timer + EffectiveDrain(cfg)
    /\ stage \in Admitting => \A r \in Reqs \ Slow : req[r] = "open" => age[r] <= cfg.request
    /\ stage = "drain" => accept # "up" /\ \A r \in Reqs \ Slow : req[r] = "open" => age[r] <= timer
    /\ stage \in Drained /\ ~panicked => Open = {} /\ accept # "up"
    /\ InFlightServed

\* The propagation delay leaves the effective drain of the drain timeout.
LEMMA DrainLeft ==
    ASSUME TypeOK, ValidHttp(cfg), ValidGrace(cfg)
    PROVE  /\ Remaining(cfg.grace, cfg.drain) = cfg.drain
           /\ Remaining(cfg.grace, cfg.propagation) = cfg.propagation
           /\ cfg.drain = cfg.propagation + EffectiveDrain(cfg)
           /\ cfg.request <= EffectiveDrain(cfg) /\ EffectiveDrain(cfg) \in Nat
<1>1. cfg.grace \in Nat /\ cfg.drain \in Nat /\ cfg.propagation \in Nat /\ cfg.request \in Nat
  BY ConfigNat DEF TypeOK
<1>2. cfg.drain + RuntimeTimeout <= cfg.grace /\ cfg.propagation < cfg.drain /\ cfg.request <= EffectiveDrain(cfg)
  BY <1>1, Budgets DEF ValidHttp, ValidGrace, SHUTDOWN_TAIL
<1>. QED BY <1>1, <1>2, Budgets DEF EffectiveDrain, Remaining, Min2, Less

\* Steps that touch no request, deadline or listener.
LEMMA ServedQuiet ==
    ASSUME Served, UNCHANGED <<cfg, outer, timer, req, age, panicked>>, stage' = stage,
           accept' = accept \/ accept' = "failed"
    PROVE  Served'
BY DEF Served, Admitting, Running, Drained, Open, InFlightServed

LEMMA ServedKept == ASSUME TypeOK, TypeOK', Served, [Next]_vars PROVE Served'
<1>1. CASE Startup
  <2>1. CASE Bind
    BY <2>1 DEF Bind, Served, Admitting, Running, Drained, Open, InFlightServed
  <2>2. CASE Ready
    BY <2>2 DEF Ready, Served, Admitting, Running, Drained, Open, InFlightServed
  <2>3. CASE OpenPool \/ \E t \in Tasks : Spawn(t)
    BY <2>3, ServedQuiet DEF OpenPool, Spawn
  <2>. QED BY <1>1, <2>1, <2>2, <2>3 DEF Startup
<1>2. ASSUME NEW b \in BOOLEAN, BeginTeardown(b) PROVE Served'
  <2>1. /\ stage \in Running /\ stage' \in {"propagate", "drain"}
        /\ UNCHANGED <<cfg, req, age, panicked>>
        /\ outer' = Remaining(cfg.grace, cfg.drain)
        /\ stage' = "propagate" => timer' = Remaining(cfg.grace, cfg.propagation)
        /\ stage' = "drain" => timer' = outer' /\ accept' # "up"
    BY <1>2 DEF BeginTeardown, StopAccepting
  <2>2. ValidHttp(cfg) /\ ValidGrace(cfg) /\ \A r \in Reqs \ Slow : req[r] = "open" => age[r] <= cfg.request
    BY <2>1 DEF Served, Admitting
  <2>3. /\ outer' = cfg.propagation + EffectiveDrain(cfg) /\ cfg.request <= EffectiveDrain(cfg)
        /\ stage' = "propagate" => timer' = cfg.propagation
        /\ EffectiveDrain(cfg) \in Nat
    BY <2>1, <2>2, DrainLeft
  <2>4. cfg.request \in Nat /\ cfg.propagation \in Nat /\ \A r \in Reqs : age[r] \in Nat
    BY ConfigNat DEF TypeOK
  <2>5. \A r \in Reqs \ Slow : req[r] = "open" => age[r] <= outer'
    BY <2>2, <2>3, <2>4
  <2>6. ValidHttp(cfg') /\ ValidGrace(cfg') /\ EffectiveDrain(cfg') = EffectiveDrain(cfg)
    BY <2>1, <2>2
  <2>7. stage' \notin Drained
    BY <2>1 DEF Drained
  <2>. QED BY <2>1, <2>2, <2>3, <2>5, <2>6, <2>7 DEF Served, Admitting, Running, InFlightServed
<1>3. CASE EndPropagation
  <2>1. /\ stage = "propagate" /\ stage' = "drain" /\ timer' = Min2(EffectiveDrain(cfg), outer)
        /\ UNCHANGED <<cfg, req, age, panicked>> /\ accept' # "up"
    BY <1>3 DEF EndPropagation, StopAccepting
  <2>2. ValidHttp(cfg) /\ ValidGrace(cfg) /\ \A r \in Reqs \ Slow : req[r] = "open" => age[r] <= cfg.request
    BY <2>1 DEF Served, Admitting
  <2>3. outer = timer + EffectiveDrain(cfg) /\ timer \in Nat /\ outer \in Nat
    BY <2>1 DEF Served, TypeOK
  <2>4. timer' = EffectiveDrain(cfg)
    BY <2>1, <2>2, <2>3, DrainLeft DEF Min2
  <2>5. \A r \in Reqs \ Slow : req[r] = "open" => age[r] <= timer'
    <3>1. cfg.request \in Nat /\ \A r \in Reqs : age[r] \in Nat
      BY ConfigNat DEF TypeOK
    <3>. QED BY <2>2, <2>4, <3>1, DrainLeft
  <2>. QED BY <2>1, <2>5 DEF Served, Admitting, Running, Drained, InFlightServed
<1>4. CASE EndDrain
  <2>1. /\ stage = "drain" /\ stage' = "diagnostics" /\ req' = Cut /\ accept' = accept /\ panicked' = panicked
        /\ Open = {} \/ timer = 0
        /\ \A r \in Open \ Slow : age[r] > 0
    BY <1>4 DEF EndDrain, Enter
  <2>2. accept # "up" /\ \A r \in Reqs \ Slow : req[r] = "open" => age[r] <= timer
    BY <2>1 DEF Served
  <2>3. \A r \in Reqs \ Slow : req[r] # "open"
    BY <2>1, <2>2 DEF Open, TypeOK
  <2>4. \A r \in Reqs : req'[r] = IF req[r] = "open" THEN "cut" ELSE req[r]
    BY <2>1 DEF Cut
  <2>5. Open' = {}
    BY <2>4 DEF Open
  <2>6. InFlightServed'
    BY <2>1, <2>3, <2>4 DEF Served, InFlightServed
  <2>. QED BY <2>1, <2>2, <2>5, <2>6 DEF Served, Admitting, Running
<1>5. ASSUME NEW b \in BOOLEAN, EndDiagnostics(b) PROVE Served'
  <2>1. /\ stage = "diagnostics" /\ stage' = "join" /\ req' = Cut /\ accept' # "up" /\ panicked' = panicked
    BY <1>5 DEF EndDiagnostics, Enter, StopAccepting
  <2>2. \A r \in Reqs : req'[r] = IF req[r] = "open" THEN "cut" ELSE req[r]
    BY <2>1 DEF Cut
  <2>3. ~panicked => Open = {}
    BY <2>1 DEF Served, Drained
  <2>4. Open' = {} /\ InFlightServed'
    BY <2>1, <2>2, <2>3 DEF Open, Served, InFlightServed
  <2>. QED BY <2>1, <2>4 DEF Served, Admitting, Running
<1>6. CASE EndJoin \/ EndForced \/ Exit \/ \E b \in BOOLEAN : EndClose(b) \/ EndTrace(b) \/ EndLog(b)
  <2>1. /\ stage \in Drained /\ stage' \in Drained /\ stage' # "drain"
        /\ UNCHANGED <<req, accept, panicked>>
    BY <1>6 DEF EndJoin, EndForced, Exit, EndClose, EndTrace, EndLog, Enter, Drained
  <2>. QED BY <2>1 DEF Served, Admitting, Running, Drained, Open, InFlightServed
<1>7. CASE StagePanics
  <2>1. panicked' = TRUE /\ stage \in DOMAIN After /\ stage' = After[stage]
    BY <1>7 DEF StagePanics, Enter
  <2>2. stage' \in Drained /\ stage' \notin Admitting /\ stage' # "drain" /\ stage' # "propagate"
    BY <2>1 DEF After, Drained, Admitting, Running
  <2>. QED BY <2>1, <2>2 DEF Served, InFlightServed
<1>8. CASE \/ \E t \in Tasks : \/ \E b \in BOOLEAN : TaskEnds(t, b)
                               \/ Report(t) \/ AbortEnds(t)
           \/ AcceptFails \/ Signal \/ UNCHANGED vars
  BY <1>8, ServedQuiet DEF TaskEnds, Report, AbortEnds, AcceptFails, Signal, vars
<1>9. ASSUME NEW r \in Reqs, Arrive(r) PROVE Served'
  <2>1. /\ accept = "up" /\ req' = [req EXCEPT ![r] = "open"] /\ age' = [age EXCEPT ![r] = cfg.request]
        /\ UNCHANGED <<cfg, stage, outer, timer, accept, panicked>>
    BY <1>9 DEF Arrive
  <2>2. stage # "drain" /\ ~(stage \in Drained /\ ~panicked)
    BY <2>1 DEF Served
  <2>3. cfg.request \in Nat /\ cfg' = cfg
    BY <2>1, ConfigNat DEF TypeOK
  <2>4. \A q \in Reqs \ Slow : req'[q] = "open" => age'[q] <= cfg.request \/ (req[q] = "open" /\ age'[q] = age[q])
    BY <2>1, <2>3 DEF TypeOK
  <2>5. \A q \in Reqs : req'[q] = "cut" => req[q] = "cut"
    BY <2>1 DEF TypeOK
  <2>. QED BY <2>1, <2>2, <2>3, <2>4, <2>5 DEF Served, InFlightServed
<1>10. ASSUME NEW r \in Reqs, Answer(r) PROVE Served'
  <2>1. /\ req' = [req EXCEPT ![r] = "done"]
        /\ UNCHANGED <<cfg, stage, outer, timer, accept, age, panicked>>
    BY <1>10 DEF Answer
  <2>2. \A q \in Reqs : (req'[q] = "open" => req[q] = "open") /\ (req'[q] = "cut" => req[q] = "cut")
    BY <2>1 DEF TypeOK
  <2>. QED BY <2>1, <2>2 DEF Served, InFlightServed, Open
<1>11. CASE Tick
  <2>1. /\ UNCHANGED <<cfg, stage, accept, req, panicked>>
        /\ age' = [r \in Reqs |-> IF req[r] = "open" THEN Less(age[r], 1) ELSE age[r]]
        /\ stage \in Running => UNCHANGED <<outer, timer>>
        /\ stage \notin Running => timer > 0 /\ outer' = Less(outer, 1) /\ timer' = Less(timer, 1)
        /\ \A r \in Open \ Slow : age[r] > 0
    BY <1>11 DEF Tick
  <2>2. \A r \in Reqs : age[r] \in Nat /\ (req[r] = "open" => age'[r] = Less(age[r], 1))
    BY <2>1 DEF TypeOK
  <2>3. timer \in Nat /\ outer \in Nat /\ cfg.request \in Nat
    BY ConfigNat DEF TypeOK
  <2>4. \A r \in Reqs \ Slow : req[r] = "open" => age[r] > 0 /\ age'[r] = age[r] - 1
    BY <2>1, <2>2 DEF Open, Less
  <2>5. stage \in Admitting => \A r \in Reqs \ Slow : req[r] = "open" => age'[r] <= cfg.request
    BY <2>2, <2>3, <2>4 DEF Served
  <2>6. stage = "drain" => \A r \in Reqs \ Slow : req[r] = "open" => age'[r] <= timer'
    BY <2>1, <2>2, <2>3, <2>4 DEF Served, Less, Running
  <2>7. stage = "propagate" => outer' = timer' + EffectiveDrain(cfg)
    <3>. SUFFICES ASSUME stage = "propagate" PROVE outer' = timer' + EffectiveDrain(cfg)
      OBVIOUS
    <3>1. outer = timer + EffectiveDrain(cfg) /\ EffectiveDrain(cfg) \in Nat
      BY DrainLeft DEF Served, Admitting
    <3>2. timer > 0 /\ outer' = Less(outer, 1) /\ timer' = Less(timer, 1)
      BY <2>1 DEF Running
    <3>. QED BY <2>3, <3>1, <3>2 DEF Less
  <2>. QED BY <2>1, <2>5, <2>6, <2>7 DEF Served, InFlightServed, Open
<1>. QED BY <1>1, <1>2, <1>3, <1>4, <1>5, <1>6, <1>7, <1>8, <1>9, <1>10, <1>11 DEF Next, Stage, Environment

\* The drain outlasts every request that obeys its timeout, the one accepted at the end
\* of the propagation delay too, for every admitted configuration and every moment of a
\* second signal (HttpConfig::validate, stop_serving).
THEOREM InFlightSafe == Spec => []InFlightServed
<1>1. Init => Served
  BY DEF Init, Served, Admitting, Running, Drained, Open, InFlightServed
<1>2. TypeOK /\ TypeOK' /\ Served /\ [Next]_vars => Served'
  BY ServedKept
<1>3. Served => InFlightServed
  BY DEF Served
<1>4. DeadlineCovers => TypeOK
  BY DEF DeadlineCovers
<1>. QED BY <1>1, <1>2, <1>3, <1>4, NeverStarved, PTL DEF Spec

-----------------------------------------------------------------------------
(* The load of the configuration *)

LoadSpec == LoadInit /\ [][LoadNext]_loadVars

LoadStages == {"secrets", "environment", "files", "decode", "ended"}
LoadKinds == {"service", "migration", "operator"}
Settings == [path : Paths, value : Values, from : {"environment", "secrets", "file"}]
CarrierEntries == UNION (LoadVariables \cup LoadSecrets)
Sources == [env : LoadVariables, secrets : LoadSecrets, files : Seq(Files), replaced : Nat]
LoadsWith(out) ==
    [stage : LoadStages, kind : LoadKinds, todo : SUBSET CarrierEntries, held : SUBSET Settings,
     variables : SUBSET Settings, scanned : Nat, merged : SUBSET Settings, out : {out},
     shown : SUBSET Settings, raced : BOOLEAN]

LoadTyped ==
    /\ source \in Sources
    /\ load \in LoadsWith(load.out)
    /\ load.scanned <= Len(source.files)
    /\ load.stage = "ended" <=> load.out # "none"

\* The entries of a carrier that are about this service
Spoken(entries) == {e \in entries : "foreign" \notin e.faults}

\* The entries read so far name no key twice, and held is what they say.
CarrierRead(entries, held, from) ==
    /\ \A e, f \in Spoken(entries) : e.path = f.path => e = f
    /\ \A v \in held : /\ v.from = from /\ (from = "secrets" => ~v.value.breaks)
                       /\ \E e \in Spoken(entries) : v.path = e.path /\ v.value.text = e.value.text
    /\ \A e \in Spoken(entries) : \E v \in held : v.path = e.path

\* Each variable is the one of its strongest carrier, and no name is left out.
VariablesSay(env, dir, variables) ==
    /\ \A e, f \in Spoken(env) : e.path = f.path => e = f
    /\ \A e, f \in Spoken(dir) : e.path = f.path => e = f
    /\ \A v \in variables :
         \/ /\ v.from = "environment"
            /\ \E e \in Spoken(env) : v.path = e.path /\ v.value.text = e.value.text
         \/ /\ v.from = "secrets" /\ ~v.value.breaks
            /\ \A e \in Spoken(env) : e.path # v.path
            /\ \E e \in Spoken(dir) : v.path = e.path /\ v.value.text = e.value.text
    /\ \A e \in Spoken(env) \cup Spoken(dir) : \E v \in variables : v.path = e.path

\* No credential in the open
Covered(path, value) == IsSecretLikeKey(path) => ~HasNonEmptyValue(value)

\* A setting is a variable, or a file's that no variable overrides and that was scanned.
MergedSay(merged, variables, raced) ==
    \A s \in merged :
        \/ s \in variables
        \/ /\ s.from = "file" /\ \A v \in variables : v.path # s.path
           /\ ~raced => Covered(s.path, s.value)

LoadSays ==
    /\ load.stage = "secrets" =>
         /\ load.todo \subseteq source.secrets /\ load.scanned = 0
         /\ CarrierRead(source.secrets \ load.todo, load.held, "secrets")
    /\ load.stage = "environment" =>
         /\ load.todo \subseteq source.env /\ load.scanned = 0
         /\ CarrierRead(source.secrets, load.variables, "secrets")
         /\ CarrierRead(source.env \ load.todo, load.held, "environment")
    /\ load.stage \in {"files", "decode"} \/ load.out = "ok" =>
         VariablesSay(source.env, source.secrets, load.variables)
    /\ load.stage = "files" /\ ~load.raced =>
         \A i \in 1 .. load.scanned : ScanFile(source.files[i]) = "ok"
    /\ load.stage = "decode" \/ load.out = "ok" =>
         MergedSay(load.merged, load.variables, load.raced)
    /\ load.out = "ok" => Validated(load.kind, Snapshot(load.merged)) = "ok"

LoadInv == LoadTyped /\ LoadSays /\ ValuesHidden

LEMMA LeastNat ==
  ASSUME NEW T \in SUBSET Nat, T # {}
  PROVE  \E n \in T : \A k \in T : n <= k
<1>1. IsWellFoundedOn(OpToRel(<, Nat), Nat)
  BY NatLessThanWellFounded
<1>2. PICK n \in T : \A k \in T : ~(<<k, n>> \in OpToRel(<, Nat))
  BY <1>1, WFMin
<1>3. \A k \in T : ~(k < n)
  BY <1>2 DEF OpToRel
<1> QED BY <1>3

\* A list of checks finds none of its conditions to hold, or gives the error of one that does.
LEMMA FirstIs ==
  ASSUME NEW checks, NEW n \in Nat, DOMAIN checks = 1 .. n
  PROVE  \/ (\A i \in 1 .. n : ~checks[i][1]) /\ First(checks) = "ok"
         \/ \E i \in 1 .. n : checks[i][1] /\ First(checks) = checks[i][2]
<1> DEFINE hit == {i \in DOMAIN checks : checks[i][1]}
           least == CHOOSE i \in hit : \A j \in hit : i <= j
<1>1. CASE hit = {}
  BY <1>1 DEF First
<1>2. CASE hit # {}
  <2>1. hit \in SUBSET Nat /\ hit \subseteq 1 .. n
    OBVIOUS
  <2>2. \E k \in hit : \A j \in hit : k <= j
    BY <1>2, <2>1, LeastNat
  <2>3. least \in hit
    BY <2>2
  <2>4. First(checks) = checks[least][2]
    BY <1>2 DEF First
  <2> HIDE DEF least
  <2> QED BY <2>1, <2>3, <2>4
<1> QED BY <1>1, <1>2

\* What an admitting list says of each of its conditions
LEMMA FirstOk ==
  ASSUME NEW checks, NEW n \in Nat, DOMAIN checks = 1 .. n, \A i \in 1 .. n : checks[i][2] # "ok",
         First(checks) = "ok"
  PROVE  \A i \in 1 .. n : ~checks[i][1]
BY FirstIs

\* No verdict is "none" if no error is.
LEMMA FirstNames ==
  ASSUME NEW checks, NEW n \in Nat, DOMAIN checks = 1 .. n, \A i \in 1 .. n : checks[i][2] # "none"
  PROVE  First(checks) # "none"
BY FirstIs

LEMMA ThenNames ==
  ASSUME NEW a, NEW b, a # "none", b # "none" PROVE Then(a, b) # "none"
BY DEF Then

-----------------------------------------------------------------------------
(* A section is refused with the key at fault *)

LEMMA AppNames ==
  ASSUME NEW app PROVE ValidateApp(app) # "none"
<1> DEFINE checks == << <<Blank(app.env), "app.env">>, <<Blank(app.version), "app.version">>,
                       <<Blank(app.commit), "app.commit">> >>
<1>1. DOMAIN checks = 1 .. 3 /\ \A i \in 1 .. 3 : checks[i][2] # "none"
  OBVIOUS
<1> HIDE DEF checks
<1>2. First(checks) # "none"
  BY <1>1, FirstNames
<1> QED BY <1>2 DEF checks, ValidateApp

LEMMA LogNames ==
  ASSUME NEW log PROVE ValidateLog(log) # "none"
<1> DEFINE checks == << <<Blank(log.level) \/ log.level = "with space", "log.level">> >>
<1>1. DOMAIN checks = 1 .. 1 /\ \A i \in 1 .. 1 : checks[i][2] # "none"
  OBVIOUS
<1> HIDE DEF checks
<1>2. First(checks) # "none"
  BY <1>1, FirstNames
<1> QED BY <1>2 DEF checks, ValidateLog

LEMMA HealthNames ==
  ASSUME NEW health PROVE ValidateHealth(health) # "none"
<1> DEFINE checks == << <<Outside(health.refresh_interval, 100, 300 * CfgSecond), "health.refresh_interval">>,
                       <<Outside(health.probe_budget, 100, 30 * CfgSecond), "health.probe_budget">>,
                       <<Outside(health.failure_threshold, 1, 100), "health.failure_threshold">> >>
<1>1. DOMAIN checks = 1 .. 3 /\ \A i \in 1 .. 3 : checks[i][2] # "none"
  OBVIOUS
<1> HIDE DEF checks
<1>2. First(checks) # "none"
  BY <1>1, FirstNames
<1> QED BY <1>2 DEF checks, ValidateHealth

LEMMA ObservabilityNames ==
  ASSUME NEW otel PROVE ValidateObservability(otel) # "none"
<1> DEFINE arg == "observability.otel.traces_sampler_arg"
           checks == << <<Blank(otel.service_name), "observability.otel.service_name">>,
                       <<otel.traces_sampler_arg = {}, arg>>,
                       <<\E a \in otel.traces_sampler_arg : Outside(a, 0, 100), arg>>,
                       <<otel.otlp_endpoint \notin {{}, {"http"}, {"https"}}, "observability.otel.exporter.otlp_endpoint">> >>
<1>1. DOMAIN checks = 1 .. 4 /\ \A i \in 1 .. 4 : checks[i][2] # "none"
  OBVIOUS
<1> HIDE DEF checks
<1>2. First(checks) # "none"
  BY <1>1, FirstNames
<1> QED BY <1>2 DEF checks, ValidateObservability

LEMMA HttpNames ==
  ASSUME NEW http PROVE ValidateHttp(http) # "none"
<1> DEFINE checks == << <<Outside(http.grace_period, CfgSecond, 10 * CfgMinute), "http.grace_period">>,
                       <<Outside(http.drain_timeout, CfgSecond, 10 * CfgMinute), "http.drain_timeout">>,
                       <<http.drain_timeout > http.grace_period, "http.drain_timeout">>,
                       <<http.readiness_propagation_delay >= http.drain_timeout, "http.readiness_propagation_delay">>,
                       <<Outside(http.header_read_timeout, 100, 300 * CfgSecond), "http.header_read_timeout">>,
                       <<Outside(http.request_timeout, 100, 10 * CfgMinute), "http.request_timeout">>,
                       <<http.request_timeout > EffectiveDrainOf(http), "http.request_timeout">>,
                       <<Outside(http.max_header_bytes, 8 * 1024, 1024 * 1024), "http.max_header_bytes">>,
                       <<Outside(http.max_body_bytes, 1, 1024 * 1024 * 1024), "http.max_body_bytes">>,
                       <<Outside(http.max_in_flight, 0, 100000), "http.max_in_flight">>,
                       <<Outside(http.max_connections, 0, 1000000), "http.max_connections">>,
                       <<http.max_connections # 0 /\ http.max_connections < http.max_in_flight, "http.max_connections">>,
                       <<BadConnectionAge(http.max_connection_age), "http.max_connection_age">> >>
<1>1. DOMAIN checks = 1 .. 13 /\ \A i \in 1 .. 13 : checks[i][2] # "none"
  OBVIOUS
<1> HIDE DEF checks
<1>2. First(checks) # "none"
  BY <1>1, FirstNames
<1> QED BY <1>2 DEF checks, ValidateHttp

LEMMA GrpcLimitsName ==
  ASSUME NEW grpc, NEW http PROVE ValidateGrpcLimits(grpc, http) # "none"
<1> DEFINE checks == << <<Outside(grpc.request_timeout, 100, 600 * CfgSecond), "grpc.request_timeout">>,
                       <<grpc.request_timeout > EffectiveDrainOf(http), "grpc.request_timeout">>,
                       <<Outside(grpc.max_in_flight, 0, 100000), "grpc.max_in_flight">>,
                       <<Outside(grpc.admission_wait, 0, grpc.request_timeout), "grpc.admission_wait">>,
                       <<Outside(grpc.max_connections, 0, 1000000), "grpc.max_connections">>,
                       <<BadConnectionAge(grpc.max_connection_age), "grpc.max_connection_age">> >>
<1>1. DOMAIN checks = 1 .. 6 /\ \A i \in 1 .. 6 : checks[i][2] # "none"
  OBVIOUS
<1> HIDE DEF checks
<1>2. First(checks) # "none"
  BY <1>1, FirstNames
<1> QED BY <1>2 DEF checks, ValidateGrpcLimits

LEMMA GrpcNames ==
  ASSUME NEW grpc, NEW http PROVE ValidateGrpc(grpc, http) # "none"
<1> DEFINE plaintext == grpc.security = {"Plaintext"}
           tls == grpc.security = {"Tls"}
           checks == << <<grpc.addr = {}, "grpc.addr">> >>
           more == << <<grpc.security = {}, "grpc.security">>,
                     <<plaintext /\ grpc.certificate # {}, "grpc.certificate">>,
                     <<plaintext /\ grpc.private_key # {}, "grpc.private_key">>,
                     <<plaintext /\ grpc.client_ca # {}, "grpc.client_ca">>,
                     <<tls /\ grpc.certificate \in {{}, {"blank"}}, "grpc.certificate">>,
                     <<tls /\ grpc.private_key = {}, "grpc.private_key">> >>
<1>1. DOMAIN checks = 1 .. 1 /\ \A i \in 1 .. 1 : checks[i][2] # "none"
  OBVIOUS
<1>2. DOMAIN more = 1 .. 6 /\ \A i \in 1 .. 6 : more[i][2] # "none"
  OBVIOUS
<1> HIDE DEF checks, more
<1>3. First(checks) # "none" /\ First(more) # "none"
  BY <1>1, <1>2, FirstNames
<1> QED BY <1>3, GrpcLimitsName DEF checks, more, ValidateGrpc, Then

LEMMA DsnNames ==
  ASSUME NEW postgres PROVE RequiredDsn(postgres) # "none"
<1> DEFINE checks == << <<postgres.dsn = {}, "postgres.dsn">> >>
<1>1. DOMAIN checks = 1 .. 1 /\ \A i \in 1 .. 1 : checks[i][2] # "none"
  OBVIOUS
<1> HIDE DEF checks
<1>2. First(checks) # "none"
  BY <1>1, FirstNames
<1> QED BY <1>2 DEF checks, RequiredDsn

LEMMA PostgresNames ==
  ASSUME NEW postgres PROVE ValidatePostgres(postgres) # "none"
<1> DEFINE checks == << <<Outside(postgres.max_connections, 1, 500), "postgres.max_connections">>,
                       <<Outside(postgres.migration_deadline, CfgSecond, CfgDay), "postgres.migration_deadline">> >>
<1>1. DOMAIN checks = 1 .. 2 /\ \A i \in 1 .. 2 : checks[i][2] # "none"
  OBVIOUS
<1> HIDE DEF checks
<1>2. First(checks) # "none"
  BY <1>1, FirstNames
<1> QED BY <1>2, DsnNames DEF checks, ValidatePostgres, Then

LEMMA IdempotencyNames ==
  ASSUME NEW retention PROVE ValidateHttpIdempotency(retention) # "none"
<1> DEFINE checks == << <<\E r \in retention : Outside(r, 60, 30 * 24 * 3600), "http_idempotency.retention">> >>
<1>1. DOMAIN checks = 1 .. 1 /\ \A i \in 1 .. 1 : checks[i][2] # "none"
  OBVIOUS
<1> HIDE DEF checks
<1>2. First(checks) # "none"
  BY <1>1, FirstNames
<1> QED BY <1>2 DEF checks, ValidateHttpIdempotency

LEMMA JobsName ==
  ASSUME NEW jobs PROVE ValidateJobs(jobs) # "none"
<1> DEFINE checks == << <<Outside(jobs.max_workers, 1, 500), "jobs.max_workers">> >>
<1>1. DOMAIN checks = 1 .. 1 /\ \A i \in 1 .. 1 : checks[i][2] # "none"
  OBVIOUS
<1> HIDE DEF checks
<1>2. First(checks) # "none"
  BY <1>1, FirstNames
<1> QED BY <1>2 DEF checks, ValidateJobs

LEMMA CacheNames ==
  ASSUME NEW cache, NEW env, NEW requestTimeout PROVE ValidateCache(cache, env, requestTimeout) # "none"
<1> DEFINE checks == << <<cache.allow_plaintext /\ ~IsLocalDevelopment(env), "cache.allow_plaintext">>,
                       <<cache.allow_unauthenticated /\ ~IsLocalDevelopment(env), "cache.allow_unauthenticated">>,
                       <<cache.client_cert_path # {} /\ cache.client_key_path = {}, "cache.client_key_path">>,
                       <<cache.client_cert_path = {} /\ cache.client_key_path # {}, "cache.client_cert_path">>,
                       <<Outside(cache.command_timeout, 1, 10 * CfgSecond), "cache.command_timeout">>,
                       <<cache.dsn # {} /\ cache.command_timeout * 2 > requestTimeout, "cache.command_timeout">> >>
<1>1. DOMAIN checks = 1 .. 6 /\ \A i \in 1 .. 6 : checks[i][2] # "none"
  OBVIOUS
<1> HIDE DEF checks
<1>2. First(checks) # "none"
  BY <1>1, FirstNames
<1> QED BY <1>2 DEF checks, ValidateCache

LEMMA MessagingNames ==
  ASSUME NEW messaging, NEW env PROVE ValidateMessaging(messaging, env) # "none"
<1> DEFINE urls == {messaging.urls[i] : i \in DOMAIN messaging.urls}
           plaintext == \E u \in urls : u.scheme = "nats"
           wrong == {"empty", "unparsable", "no_host", "userinfo"}
           checks == << <<messaging.allow_plaintext /\ ~IsLocalDevelopment(env), "messaging.allow_plaintext">>,
                       <<messaging.allow_unauthenticated /\ ~IsLocalDevelopment(env), "messaging.allow_unauthenticated">>,
                       <<messaging.credentials # {} /\ messaging.credentials_file # {}, "messaging.credentials_file">>,
                       <<\E u \in urls : u.faults \cap wrong # {} \/ u.scheme \notin {"tls", "nats"}, "messaging.urls">>,
                       <<plaintext /\ messaging.tls_first, "messaging.tls_first">>,
                       <<plaintext /\ ~PlaintextAdmitted(messaging), "messaging.allow_plaintext">>,
                       <<Outside(messaging.max_payload_bytes, 1, MAX_RESIDENT_DELIVERY_BYTES - DELIVERY_OVERHEAD_BYTES), "messaging.max_payload_bytes">>,
                       <<messaging.consumer_concurrency > MAX_RESIDENT_DELIVERY_BYTES \div (messaging.max_payload_bytes + DELIVERY_OVERHEAD_BYTES), "messaging.consumer_concurrency">> >>
<1>1. DOMAIN checks = 1 .. 8 /\ \A i \in 1 .. 8 : checks[i][2] # "none"
  OBVIOUS
<1> HIDE DEF checks
<1>2. First(checks) # "none"
  BY <1>1, FirstNames
<1> QED BY <1>2 DEF checks, ValidateMessaging

LEMMA StorageNames ==
  ASSUME NEW os, NEW env PROVE ValidateObjectStorage(os, env) # "none"
<1> DEFINE fields == ProviderFields(os.provider)
           workload == os.credentials = "WorkloadIdentity"
           checks == << <<Outside(os.max_object_kib, 1, MAX_OBJECT_KIB_CEILING), "object_storage.max_object_bytes">>,
                       <<Outside(os.max_concurrency, 1, 512), "object_storage.max_concurrency">>,
                       <<Outside(os.operation_timeout, CfgSecond, 15 * CfgMinute), "object_storage.operation_timeout">> >>
           more == << <<os.provider = "CloudflareR2" /\ os.region \notin {"blank", "auto"}, "object_storage.region">>,
                     <<os.provider = "Local" /\ ~IsLocalDevelopment(env), "object_storage.provider">>,
                     <<Misfits(fields.endpoint, os.endpoint), "object_storage.endpoint">>,
                     <<Misfits(fields.region, os.region), "object_storage.region">>,
                     <<Misfits(fields.owner, os.expected_bucket_owner), "object_storage.expected_bucket_owner">>,
                     <<os.path_style /\ os.provider # "S3Compatible", "object_storage.path_style">>,
                     <<Blank(os.bucket), "object_storage.bucket">>,
                     <<~workload /\ Blank(os.access_key_id), "object_storage.access_key_id">>,
                     <<~workload /\ os.secret_access_key = {}, "object_storage.secret_access_key">>,
                     <<workload /\ os.provider # "AmazonS3", "object_storage.credentials">>,
                     <<workload /\ ~Blank(os.access_key_id), "object_storage.access_key_id">>,
                     <<workload /\ os.secret_access_key # {}, "object_storage.secret_access_key">> >>
<1>1. DOMAIN checks = 1 .. 3 /\ \A i \in 1 .. 3 : checks[i][2] # "none"
  OBVIOUS
<1>2. DOMAIN more = 1 .. 12 /\ \A i \in 1 .. 12 : more[i][2] # "none"
  OBVIOUS
<1> HIDE DEF checks, more
<1>3. First(checks) # "none" /\ First(more) # "none"
  BY <1>1, <1>2, FirstNames
<1> QED BY <1>3 DEF checks, more, ValidateObjectStorage, Then

LEMMA AuthnNames ==
  ASSUME NEW authn PROVE ValidateAuthn(authn) # "none"
<1> DEFINE jwt == authn.mode = "oidc-jwt"
           introspection == authn.mode = "oidc-introspection"
           checks == << <<Blank(authn.issuer), "authn.issuer">>,
                       <<authn.audience = {}, "authn.audience">>,
                       <<jwt /\ authn.jwks_uri = {"blank"}, "authn.jwks_uri">>,
                       <<jwt /\ authn.algorithms = {}, "authn.algorithms">>,
                       <<introspection /\ Blank(authn.endpoint), "authn.introspection_endpoint">>,
                       <<introspection /\ Blank(authn.client_id), "authn.introspection_client_id">>,
                       <<introspection /\ authn.client_secret = {}, "authn.introspection_client_secret">> >>
<1>1. DOMAIN checks = 1 .. 7 /\ \A i \in 1 .. 7 : checks[i][2] # "none"
  OBVIOUS
<1> HIDE DEF checks
<1>2. First(checks) # "none"
  BY <1>1, FirstNames
<1> QED BY <1>2 DEF checks, ValidateAuthn

LEMMA ServiceAuthNames ==
  ASSUME NEW auth, NEW env, NEW grpcEnabled PROVE ValidateServiceAuth(auth, env, grpcEnabled) # "none"
<1> DEFINE checks == << <<grpcEnabled /\ ~IsLocalDevelopment(env), "service_auth.mode">> >>
           more == << <<Blank(auth.name), "service_auth.name">>,
                     <<Blank(auth.jwt_type), "service_auth.jwt_type">>,
                     <<Blank(auth.trust), "service_auth.trust">>,
                     <<auth.key_id # {} /\ auth.private_key = {}, "service_auth.private_key">>,
                     <<auth.key_id = {} /\ auth.private_key # {}, "service_auth.key_id">> >>
<1>1. DOMAIN checks = 1 .. 1 /\ \A i \in 1 .. 1 : checks[i][2] # "none"
  OBVIOUS
<1>2. DOMAIN more = 1 .. 5 /\ \A i \in 1 .. 5 : more[i][2] # "none"
  OBVIOUS
<1> HIDE DEF checks, more
<1>3. First(checks) # "none" /\ First(more) # "none"
  BY <1>1, <1>2, FirstNames
<1> QED BY <1>3 DEF checks, more, ValidateServiceAuth

LEMMA TokenUrlNames ==
  ASSUME NEW faults PROVE ValidateTokenUrl(faults) # "none"
<1> DEFINE checks == << <<"space" \in faults, "oauth.token_url">>,
                       <<"unparsable" \in faults, "oauth.token_url">>,
                       <<"not_https" \in faults, "oauth.token_url">>,
                       <<"no_host" \in faults, "oauth.token_url">>,
                       <<"userinfo" \in faults, "oauth.token_url">>,
                       <<"fragment" \in faults, "oauth.token_url">> >>
<1>1. DOMAIN checks = 1 .. 6 /\ \A i \in 1 .. 6 : checks[i][2] # "none"
  OBVIOUS
<1> HIDE DEF checks
<1>2. First(checks) # "none"
  BY <1>1, FirstNames
<1> QED BY <1>2 DEF checks, ValidateTokenUrl

LEMMA OAuthNames ==
  ASSUME NEW oauth PROVE ValidateOAuth(oauth) # "none"
<1> DEFINE checks == << <<Blank(oauth.client_id), "oauth.client_id">>,
                       <<Blank(oauth.private_key), "oauth.private_key">>,
                       <<Blank(oauth.key_id), "oauth.key_id">>,
                       <<Blank(oauth.assertion_audience), "oauth.assertion_audience">>,
                       <<oauth.audience = {"blank"}, "oauth.audience">>,
                       <<"bad_token" \in oauth.scopes, "oauth.scopes">>,
                       <<Outside(oauth.exchange_cache_capacity, 1, 65536), "oauth.exchange_cache_capacity">>,
                       <<oauth.provider_concurrency = 0, "oauth.provider_concurrency">> >>
<1>1. DOMAIN checks = 1 .. 8 /\ \A i \in 1 .. 8 : checks[i][2] # "none"
  OBVIOUS
<1> HIDE DEF checks
<1>2. First(checks) # "none"
  BY <1>1, FirstNames
<1> QED BY <1>2, TokenUrlNames DEF checks, ValidateOAuth, Then

LEMMA GrpcClientNames ==
  ASSUME NEW grpc PROVE ValidateGrpcClient(grpc) # "none"
<1> DEFINE plaintext == grpc.security = "Plaintext"
           checks == << <<grpc.destination \in {"blank", "with space"}, "grpc.destination">>,
                       <<plaintext /\ grpc.ca_certificate # {}, "grpc.ca_certificate">>,
                       <<plaintext /\ grpc.certificate # {}, "grpc.certificate">>,
                       <<plaintext /\ grpc.private_key # {}, "grpc.private_key">>,
                       <<~plaintext /\ (grpc.certificate = {}) # (grpc.private_key = {}), "grpc.certificate/grpc.private_key">> >>
<1>1. DOMAIN checks = 1 .. 5 /\ \A i \in 1 .. 5 : checks[i][2] # "none"
  OBVIOUS
<1> HIDE DEF checks
<1>2. First(checks) # "none"
  BY <1>1, FirstNames
<1> QED BY <1>2 DEF checks, ValidateGrpcClient

LEMMA EndpointNames ==
  ASSUME NEW faults PROVE ValidateEndpointId(faults) # "none"
<1> DEFINE checks == << <<faults \cap {"empty", "nul"} # {}, "endpoints">> >>
<1>1. DOMAIN checks = 1 .. 1 /\ \A i \in 1 .. 1 : checks[i][2] # "none"
  OBVIOUS
<1> HIDE DEF checks
<1>2. First(checks) # "none"
  BY <1>1, FirstNames
<1> QED BY <1>2 DEF checks, ValidateEndpointId

LEMMA IntegrationsName ==
  ASSUME NEW list, Len(list) \in Nat PROVE ValidateIntegrations(list) # "none"
<1> DEFINE Verdict(i) == Then(IF list[i].oauth = {} THEN "ok"
                              ELSE ValidateOAuth(CHOOSE o \in list[i].oauth : TRUE),
                              IF list[i].grpc = {} THEN "ok"
                              ELSE ValidateGrpcClient(CHOOSE g \in list[i].grpc : TRUE))
           checks == [i \in 1 .. Len(list) |-> <<Verdict(i) # "ok", Verdict(i)>>]
<1>1. \A i : Verdict(i) # "none"
  BY OAuthNames, GrpcClientNames DEF Then
<1>2. ValidateIntegrations(list) = First(checks)
  BY DEF ValidateIntegrations
<1> HIDE DEF Verdict
<1>3. DOMAIN checks = 1 .. Len(list) /\ \A i \in 1 .. Len(list) : checks[i][2] # "none"
  BY <1>1
<1> HIDE DEF checks
<1> QED BY <1>2, <1>3, FirstNames

LEMMA InboundNames ==
  ASSUME NEW inbound, NEW enabled, Len(inbound.endpoints) \in Nat
  PROVE  ValidateInboundWebhooks(inbound, enabled) # "none"
<1> DEFINE list == inbound.endpoints
           Own(i) == << <<~EnvAddressable(list[i].active.faults), "active_key">>,
                        <<\E p \in list[i].previous : ~EnvAddressable(p.faults), "previous_key">>,
                        <<list[i].previous = {list[i].active}, "previous_key">> >>
           Verdict(i) == Then(ValidateEndpointId(list[i].id_faults), First(Own(i)))
           before == << <<list # <<>> /\ ~enabled, "postgres.enabled">> >>
           checks == [i \in 1 .. Len(list) |-> <<Verdict(i) # "ok", Verdict(i)>>]
           after == << <<\E s \in inbound.secrets : ~EnvAddressable(s), "secrets">> >>
<1>1. \A i : First(Own(i)) # "none"
  <2> TAKE i
  <2>1. DOMAIN Own(i) = 1 .. 3 /\ \A n \in 1 .. 3 : Own(i)[n][2] # "none"
    OBVIOUS
  <2> HIDE DEF Own
  <2> QED BY <2>1, FirstNames
<1>2. \A i : Verdict(i) # "none"
  <2> HIDE DEF Own
  <2> QED BY <1>1, EndpointNames DEF Then
<1>3. ValidateInboundWebhooks(inbound, enabled) = Then(First(before), Then(First(checks), First(after)))
  BY DEF ValidateInboundWebhooks
<1>4. /\ DOMAIN before = 1 .. 1 /\ \A i \in 1 .. 1 : before[i][2] # "none"
      /\ DOMAIN after = 1 .. 1 /\ \A i \in 1 .. 1 : after[i][2] # "none"
  OBVIOUS
<1> HIDE DEF Verdict
<1>5. DOMAIN checks = 1 .. Len(list) /\ \A i \in 1 .. Len(list) : checks[i][2] # "none"
  BY <1>2
<1> HIDE DEF before, checks, after
<1>6. First(before) # "none" /\ First(checks) # "none" /\ First(after) # "none"
  BY <1>4, <1>5, FirstNames
<1> QED BY <1>3, <1>6, ThenNames

LEMMA WebhooksName ==
  ASSUME NEW list, Len(list) \in Nat PROVE ValidateWebhooks(list) # "none"
<1> DEFINE Own(i) == << <<Blank(list[i].secret), "secret">>,
                        <<list[i].previous = {"blank"}, "previous_secret">> >>
           Verdict(i) == Then(ValidateEndpointId(list[i].id_faults), First(Own(i)))
           checks == [i \in 1 .. Len(list) |-> <<Verdict(i) # "ok", Verdict(i)>>]
<1>1. \A i : First(Own(i)) # "none"
  <2> TAKE i
  <2>1. DOMAIN Own(i) = 1 .. 2 /\ \A n \in 1 .. 2 : Own(i)[n][2] # "none"
    OBVIOUS
  <2> HIDE DEF Own
  <2> QED BY <2>1, FirstNames
<1>2. \A i : Verdict(i) # "none"
  <2> HIDE DEF Own
  <2> QED BY <1>1, EndpointNames DEF Then
<1>3. ValidateWebhooks(list) = First(checks)
  BY DEF ValidateWebhooks
<1> HIDE DEF Verdict
<1>4. DOMAIN checks = 1 .. Len(list) /\ \A i \in 1 .. Len(list) : checks[i][2] # "none"
  BY <1>2
<1> HIDE DEF checks
<1> QED BY <1>3, <1>4, FirstNames

\* A snapshot is admitted or refused, whichever of the three loads it is for.
LEMMA ValidatedNames ==
  ASSUME NEW kind, NEW c, Len(c.integrations) \in Nat, Len(c.inbound.endpoints) \in Nat,
         Len(c.webhooks) \in Nat
  PROVE  Validated(kind, c) # "none"
<1>1. ValidateConfig(c) # "none"
  BY AppNames, HttpNames, GrpcNames, InboundNames, HealthNames, LogNames, ObservabilityNames,
     MessagingNames, CacheNames, StorageNames, IntegrationsName, AuthnNames, ServiceAuthNames,
     PostgresNames, IdempotencyNames, JobsName, WebhooksName DEF ValidateConfig, Then
<1>2. ValidateMigrationConfig(c) # "none"
  BY AppNames, LogNames, ObservabilityNames, PostgresNames DEF ValidateMigrationConfig, Then
<1>3. ValidateJobsOperator(c) # "none"
  BY PostgresNames DEF ValidateJobsOperator
<1> QED BY <1>1, <1>2, <1>3 DEF Validated

\* What an admitted snapshot has been held to: a database that is on has an address, and a
\* request fits what the drain leaves it.
LEMMA PostgresHeld ==
  ASSUME NEW postgres, ValidatePostgres(postgres) = "ok"
  PROVE  postgres.enabled => postgres.dsn # {}
<1> DEFINE checks == << <<postgres.dsn = {}, "postgres.dsn">> >>
<1>1. DOMAIN checks = 1 .. 1 /\ \A i \in 1 .. 1 : checks[i][2] # "ok"
  OBVIOUS
<1>5. checks[1][1] <=> postgres.dsn = {}
  OBVIOUS
<1>2. RequiredDsn(postgres) = First(checks)
  BY DEF RequiredDsn
<1> HIDE DEF checks
<1>3. RequiredDsn(postgres) = "ok" => \A i \in 1 .. 1 : ~checks[i][1]
  BY <1>1, <1>2, FirstOk
<1>4. postgres.enabled => RequiredDsn(postgres) = "ok"
  BY DEF ValidatePostgres, Then
<1> QED BY <1>3, <1>4, <1>5

LEMMA HttpHeld ==
  ASSUME NEW http, http.request_timeout \in Nat, http.grace_period \in Nat,
         http.drain_timeout \in Nat, http.readiness_propagation_delay \in Nat,
         ValidateHttp(http) = "ok"
  PROVE  http.request_timeout + http.readiness_propagation_delay <= http.grace_period
<1> DEFINE checks ==
             << <<Outside(http.grace_period, CfgSecond, 10 * CfgMinute), "http.grace_period">>,
                <<Outside(http.drain_timeout, CfgSecond, 10 * CfgMinute), "http.drain_timeout">>,
                <<http.drain_timeout > http.grace_period, "http.drain_timeout">>,
                <<http.readiness_propagation_delay >= http.drain_timeout,
                  "http.readiness_propagation_delay">>,
                <<Outside(http.header_read_timeout, 100, 300 * CfgSecond), "http.header_read_timeout">>,
                <<Outside(http.request_timeout, 100, 10 * CfgMinute), "http.request_timeout">>,
                <<http.request_timeout > EffectiveDrainOf(http), "http.request_timeout">>,
                <<Outside(http.max_header_bytes, 8 * 1024, 1024 * 1024), "http.max_header_bytes">>,
                <<Outside(http.max_body_bytes, 1, 1024 * 1024 * 1024), "http.max_body_bytes">>,
                <<Outside(http.max_in_flight, 0, 100000), "http.max_in_flight">>,
                <<Outside(http.max_connections, 0, 1000000), "http.max_connections">>,
                <<http.max_connections # 0 /\ http.max_connections < http.max_in_flight,
                  "http.max_connections">>,
                <<BadConnectionAge(http.max_connection_age), "http.max_connection_age">> >>
<1>1. DOMAIN checks = 1 .. 13 /\ \A i \in 1 .. 13 : checks[i][2] # "ok"
  OBVIOUS
<1> DEFINE drain == <<http.drain_timeout > http.grace_period, "http.drain_timeout">>
           delay == <<http.readiness_propagation_delay >= http.drain_timeout,
                      "http.readiness_propagation_delay">>
           request == <<http.request_timeout > EffectiveDrainOf(http), "http.request_timeout">>
<1>2. checks[3] = drain /\ checks[4] = delay /\ checks[7] = request
  OBVIOUS
<1>3. First(checks) = "ok"
  BY DEF ValidateHttp
<1> HIDE DEF checks
<1>4. \A i \in 1 .. 13 : ~checks[i][1]
  BY <1>1, <1>3, FirstOk
<1>5. drain[1] <=> http.drain_timeout > http.grace_period
  OBVIOUS
<1>6. delay[1] <=> http.readiness_propagation_delay >= http.drain_timeout
  OBVIOUS
<1>7. request[1] <=> http.request_timeout > EffectiveDrainOf(http)
  OBVIOUS
<1> HIDE DEF drain, delay, request
<1>8. ~checks[3][1] /\ ~checks[4][1] /\ ~checks[7][1]
  BY <1>4
<1>9. ~drain[1] /\ ~delay[1] /\ ~request[1]
  BY <1>2, <1>8
<1> QED BY <1>5, <1>6, <1>7, <1>9 DEF EffectiveDrainOf

\* The four settings the budgets are about, in any snapshot
LEMMA SnapshotTyped ==
  ASSUME NEW merged
  PROVE  LET c == Snapshot(merged)
         IN /\ Len(c.integrations) \in Nat /\ Len(c.inbound.endpoints) \in Nat /\ Len(c.webhooks) \in Nat
            /\ c.http.request_timeout \in Nat /\ c.http.grace_period \in Nat
            /\ c.http.drain_timeout \in Nat /\ c.http.readiness_propagation_delay \in Nat
BY DEF Snapshot, ConfigDefault, HttpDefault, PostgresDefault, CfgSecond, CfgMinute

-----------------------------------------------------------------------------
(* The carriers *)

LEMMA EntryTyped ==
  ASSUME NEW entry \in CarrierEntries PROVE entry.path \in Paths /\ entry.value \in Values
BY LoadAssumption DEF CarrierEntries

\* What reading one entry comes to: it is not about this service, or it adds the one setting of
\* its name, or the load is refused.
EntrySays(read, held, entry, from) ==
    \/ /\ read.verdict = "ok" /\ "foreign" \in entry.faults /\ read.held = held
    \/ /\ read.verdict = "ok" /\ "foreign" \notin entry.faults
       /\ \A v \in held : v.path # entry.path
       /\ \E n \in Settings :
            /\ read.held = held \cup {n} /\ n.path = entry.path /\ n.from = from
            /\ n.value.text = entry.value.text /\ (from = "secrets" => ~n.value.breaks)
    \/ read.verdict \notin {"ok", "none"}

LEMMA VariableIs ==
  ASSUME NEW entry, entry.path \in Paths, NEW value \in Values, value.text = entry.value.text,
         NEW from \in {"environment", "secrets"}
  PROVE  LET n == VariableOf(entry, from, value)
         IN /\ n \in Settings /\ n.path = entry.path /\ n.from = from /\ n.value = value
            /\ n.value.text = entry.value.text
BY DEF VariableOf, Settings

LEMMA AdmitSays ==
  ASSUME NEW held, NEW entry, "foreign" \notin entry.faults, NEW n \in Settings, n.path = entry.path,
         NEW from, n.from = from, n.value.text = entry.value.text, from = "secrets" => ~n.value.breaks
  PROVE  EntrySays(AdmitVariable(held, n), held, entry, from)
BY DEF EntrySays, AdmitVariable

LEMMA VariableSays ==
  ASSUME NEW held, NEW entry \in CarrierEntries
  PROVE  EntrySays(ReadVariable(held, entry), held, entry, "environment")
<1>1. entry.path \in Paths /\ entry.value \in Values
  BY EntryTyped
<1> DEFINE n == VariableOf(entry, "environment", entry.value)
<1>2. /\ n \in Settings /\ n.path = entry.path /\ n.from = "environment"
      /\ n.value.text = entry.value.text
  BY <1>1, VariableIs
<1> HIDE DEF n
<1>3. "foreign" \notin entry.faults => EntrySays(AdmitVariable(held, n), held, entry, "environment")
  BY <1>2, AdmitSays
<1>4. CASE "foreign" \in entry.faults
  BY <1>4 DEF ReadVariable, EntrySays
<1>5. CASE "foreign" \notin entry.faults /\ ~IsKeyPath(entry)
  BY <1>5 DEF ReadVariable, EntrySays
<1>6. CASE "foreign" \notin entry.faults /\ IsKeyPath(entry) /\ "not_unicode" \in entry.faults
  BY <1>6 DEF ReadVariable, EntrySays
<1>7. CASE "foreign" \notin entry.faults /\ IsKeyPath(entry) /\ "not_unicode" \notin entry.faults
  <2>1. ReadVariable(held, entry) = AdmitVariable(held, n)
    BY <1>7 DEF ReadVariable, n
  <2> QED BY <1>3, <1>7, <2>1
<1> QED BY <1>4, <1>5, <1>6, <1>7

LEMMA SecretSays ==
  ASSUME NEW held, NEW entry \in CarrierEntries
  PROVE  EntrySays(ReadSecret(held, entry), held, entry, "secrets")
<1> DEFINE value == [entry.value EXCEPT !.breaks = FALSE]
           n == VariableOf(entry, "secrets", value)
           unread == entry.faults \cap {"not_unicode", "io", "nul"} # {}
<1>1. entry.path \in Paths /\ entry.value \in Values
  BY EntryTyped
<1>2. value \in Values /\ value.text = entry.value.text /\ ~value.breaks
  BY <1>1 DEF Values
<1>3. /\ n \in Settings /\ n.path = entry.path /\ n.from = "secrets"
      /\ n.value = value /\ n.value.text = entry.value.text
  <2> HIDE DEF value
  <2> QED BY <1>1, <1>2, VariableIs
<1> HIDE DEF n, value
<1>4. "foreign" \notin entry.faults => EntrySays(AdmitVariable(held, n), held, entry, "secrets")
  BY <1>2, <1>3, AdmitSays
<1>5. CASE "foreign" \in entry.faults
  BY <1>5 DEF ReadSecret, EntrySays
<1>6. CASE "foreign" \notin entry.faults /\ ~IsKeyPath(entry)
  BY <1>6 DEF ReadSecret, EntrySays
<1>7. CASE "foreign" \notin entry.faults /\ IsKeyPath(entry) /\ unread
  BY <1>7 DEF ReadSecret, EntrySays
<1>8. CASE "foreign" \notin entry.faults /\ IsKeyPath(entry) /\ ~unread
  <2>1. ReadSecret(held, entry) = AdmitVariable(held, n)
    BY <1>8 DEF ReadSecret, n, value
  <2> QED BY <1>4, <1>8, <2>1
<1> QED BY <1>5, <1>6, <1>7, <1>8

LEMMA CarrierGrows ==
  ASSUME NEW entries, NEW held, NEW from, NEW entry, CarrierRead(entries, held, from),
         NEW read, EntrySays(read, held, entry, from), read.verdict = "ok"
  PROVE  CarrierRead(entries \cup {entry}, read.held, from)
<1>1. CASE "foreign" \in entry.faults
  <2>1. read.held = held /\ Spoken(entries \cup {entry}) = Spoken(entries)
    BY <1>1 DEF EntrySays, Spoken
  <2> QED BY <2>1 DEF CarrierRead
<1>2. CASE "foreign" \notin entry.faults
  <2>1. PICK n \in Settings :
          /\ read.held = held \cup {n} /\ n.path = entry.path /\ n.from = from
          /\ n.value.text = entry.value.text /\ (from = "secrets" => ~n.value.breaks)
    BY <1>2 DEF EntrySays
  <2>2. \A v \in held : v.path # entry.path
    BY <1>2 DEF EntrySays
  <2>3. Spoken(entries \cup {entry}) = Spoken(entries) \cup {entry}
    BY <1>2 DEF Spoken
  <2>4. \A e \in Spoken(entries) : e.path # entry.path
    BY <2>2 DEF CarrierRead
  <2>5. \A e, f \in Spoken(entries) \cup {entry} : e.path = f.path => e = f
    BY <2>4 DEF CarrierRead
  <2>6. \A v \in held \cup {n} :
          /\ v.from = from /\ (from = "secrets" => ~v.value.breaks)
          /\ \E e \in Spoken(entries) \cup {entry} : v.path = e.path /\ v.value.text = e.value.text
    BY <2>1 DEF CarrierRead
  <2>7. \A e \in Spoken(entries) \cup {entry} : \E v \in held \cup {n} : v.path = e.path
    BY <2>1 DEF CarrierRead
  <2> DEFINE spoken == Spoken(entries \cup {entry})
             grown == read.held
  <2>8. \A e, f \in spoken : e.path = f.path => e = f
    BY <2>3, <2>5
  <2>9. \A v \in grown : /\ v.from = from /\ (from = "secrets" => ~v.value.breaks)
                         /\ \E e \in spoken : v.path = e.path /\ v.value.text = e.value.text
    BY <2>1, <2>3, <2>6
  <2>10. \A e \in spoken : \E v \in grown : v.path = e.path
    BY <2>1, <2>3, <2>7
  <2> QED BY <2>8, <2>9, <2>10 DEF CarrierRead
<1> QED BY <1>1, <1>2

-----------------------------------------------------------------------------
(* The steps of a load *)

LEMMA LoadFields ==
  ASSUME LoadTyped
  PROVE  /\ load.stage \in LoadStages /\ load.kind \in LoadKinds /\ load.todo \in SUBSET CarrierEntries
         /\ load.held \in SUBSET Settings /\ load.variables \in SUBSET Settings /\ load.scanned \in Nat
         /\ load.merged \in SUBSET Settings /\ load.shown \in SUBSET Settings /\ load.raced \in BOOLEAN
         /\ source \in Sources /\ source.env \in LoadVariables /\ source.secrets \in LoadSecrets
         /\ source.files \in Seq(Files) /\ source.replaced \in Nat
BY DEF LoadTyped, LoadsWith, Sources

LEMMA RefuseKeeps ==
  ASSUME LoadInv, NEW verdict, verdict \notin {"ok", "none"}, NEW shown \in SUBSET Settings,
         \A s \in shown : s.from = "file" /\ s.path[1] # "integrations",
         load' = Refuse(verdict, shown), UNCHANGED source
  PROVE  LoadInv'
<1>1. LoadTyped
  BY DEF LoadInv
<1>2. /\ load' = [load EXCEPT !.stage = "ended", !.out = verdict, !.shown = shown]
      /\ load'.stage = "ended" /\ load'.out = verdict /\ load'.shown = shown
      /\ load'.scanned = load.scanned
  BY <1>1 DEF Refuse, LoadTyped, LoadsWith
<1>3. load' \in LoadsWith(verdict)
  BY <1>1, <1>2 DEF LoadTyped, LoadsWith, LoadStages
<1>4. LoadTyped'
  BY <1>1, <1>2, <1>3 DEF LoadTyped
<1>5. LoadSays'
  BY <1>2 DEF LoadSays
<1>6. ValuesHidden'
  BY <1>2 DEF ValuesHidden
<1> QED BY <1>4, <1>5, <1>6 DEF LoadInv

LEMMA ReadKeeps ==
  ASSUME LoadInv, NEW carrier \in {"secrets", "environment"}, load.stage = carrier,
         NEW entry \in load.todo, NEW read,
         EntrySays(read, load.held, entry, carrier), read.verdict = "ok",
         load' = [load EXCEPT !.todo = @ \ {entry}, !.held = read.held], UNCHANGED source
  PROVE  LoadInv'
<1>1. LoadTyped /\ LoadSays /\ ValuesHidden
  BY DEF LoadInv
<1> DEFINE todo == load.todo \ {entry}
           held == read.held
<1>2. todo \in SUBSET CarrierEntries /\ held \in SUBSET Settings
  BY <1>1, LoadFields DEF EntrySays
<1>3. load' = [load EXCEPT !.todo = todo, !.held = held]
  OBVIOUS
<1> HIDE DEF todo, held
<1>4. /\ load' \in LoadsWith(load.out) /\ load'.todo = todo /\ load'.held = held
      /\ load'.stage = carrier /\ load'.variables = load.variables /\ load'.scanned = load.scanned
      /\ load'.out = load.out /\ load'.shown = load.shown
  BY <1>1, <1>2, <1>3 DEF LoadTyped, LoadsWith
<1>5. LoadTyped'
  BY <1>1, <1>4 DEF LoadTyped
<1>6. ValuesHidden'
  BY <1>1, <1>4 DEF ValuesHidden
<1>7. load.out = "none"
  BY <1>1 DEF LoadTyped
<1>8. CASE carrier = "secrets"
  <2>1. /\ load.todo \subseteq source.secrets /\ load.scanned = 0
        /\ CarrierRead(source.secrets \ load.todo, load.held, "secrets")
    BY <1>1, <1>8 DEF LoadSays
  <2>2. source.secrets \ todo = (source.secrets \ load.todo) \cup {entry}
    BY <2>1 DEF todo
  <2>3. CarrierRead(source.secrets \ todo, held, "secrets")
    <3>1. EntrySays(read, load.held, entry, "secrets")
      BY <1>8
    <3>2. CarrierRead((source.secrets \ load.todo) \cup {entry}, read.held, "secrets")
      BY <2>1, <3>1, CarrierGrows
    <3> QED BY <2>2, <3>2 DEF held
  <2>4. todo \subseteq source.secrets
    BY <2>1 DEF todo
  <2>5. LoadSays'
    BY <1>4, <1>7, <1>8, <2>1, <2>3, <2>4 DEF LoadSays
  <2> QED BY <1>5, <1>6, <2>5 DEF LoadInv
<1>9. CASE carrier = "environment"
  <2>1. /\ load.todo \subseteq source.env /\ load.scanned = 0
        /\ CarrierRead(source.secrets, load.variables, "secrets")
        /\ CarrierRead(source.env \ load.todo, load.held, "environment")
    BY <1>1, <1>9 DEF LoadSays
  <2>2. source.env \ todo = (source.env \ load.todo) \cup {entry}
    BY <2>1 DEF todo
  <2>3. CarrierRead(source.env \ todo, held, "environment")
    <3>1. EntrySays(read, load.held, entry, "environment")
      BY <1>9
    <3>2. CarrierRead((source.env \ load.todo) \cup {entry}, read.held, "environment")
      BY <2>1, <3>1, CarrierGrows
    <3> QED BY <2>2, <3>2 DEF held
  <2>4. todo \subseteq source.env
    BY <2>1 DEF todo
  <2>5. LoadSays'
    BY <1>4, <1>7, <1>9, <2>1, <2>3, <2>4 DEF LoadSays
  <2> QED BY <1>5, <1>6, <2>5 DEF LoadInv
<1> QED BY <1>8, <1>9

LEMMA CarriersKeep ==
  ASSUME LoadInv, ReadSecretsDir \/ ReadEnvironment
  PROVE  LoadInv'
<1>1. load.todo \subseteq CarrierEntries
  BY LoadFields DEF LoadInv
<1>2. CASE ReadSecretsDir
  <2>1. load.stage = "secrets" /\ UNCHANGED source
    BY <1>2 DEF ReadSecretsDir, ReadEntry
  <2>2. PICK entry \in load.todo :
          load' = IF ReadSecret(load.held, entry).verdict = "ok"
                  THEN [load EXCEPT !.todo = @ \ {entry}, !.held = ReadSecret(load.held, entry).held]
                  ELSE Refuse(ReadSecret(load.held, entry).verdict, {})
    BY <1>2 DEF ReadSecretsDir, ReadEntry
  <2> DEFINE read == ReadSecret(load.held, entry)
  <2>3. EntrySays(read, load.held, entry, "secrets")
    BY <1>1, SecretSays
  <2> HIDE DEF read
  <2>4. CASE read.verdict = "ok"
    BY <2>1, <2>2, <2>3, <2>4, ReadKeeps DEF read
  <2>5. CASE read.verdict # "ok"
    <3>1. read.verdict \notin {"ok", "none"}
      BY <2>3, <2>5 DEF EntrySays
    <3>2. load' = Refuse(read.verdict, {})
      BY <2>2, <2>5 DEF read
    <3> QED BY <2>1, <3>1, <3>2, RefuseKeeps
  <2> QED BY <2>4, <2>5
<1>3. CASE ReadEnvironment
  <2>1. load.stage = "environment" /\ UNCHANGED source
    BY <1>3 DEF ReadEnvironment, ReadEntry
  <2>2. PICK entry \in load.todo :
          load' = IF ReadVariable(load.held, entry).verdict = "ok"
                  THEN [load EXCEPT !.todo = @ \ {entry}, !.held = ReadVariable(load.held, entry).held]
                  ELSE Refuse(ReadVariable(load.held, entry).verdict, {})
    BY <1>3 DEF ReadEnvironment, ReadEntry
  <2> DEFINE read == ReadVariable(load.held, entry)
  <2>3. EntrySays(read, load.held, entry, "environment")
    BY <1>1, VariableSays
  <2> HIDE DEF read
  <2>4. CASE read.verdict = "ok"
    BY <2>1, <2>2, <2>3, <2>4, ReadKeeps DEF read
  <2>5. CASE read.verdict # "ok"
    <3>1. read.verdict \notin {"ok", "none"}
      BY <2>3, <2>5 DEF EntrySays
    <3>2. load' = Refuse(read.verdict, {})
      BY <2>2, <2>5 DEF read
    <3> QED BY <2>1, <3>1, <3>2, RefuseKeeps
  <2> QED BY <2>4, <2>5
<1> QED BY <1>2, <1>3

LEMMA ExtendedSays ==
  ASSUME NEW env, NEW dir, NEW held, NEW more,
         CarrierRead(dir, held, "secrets"), CarrierRead(env, more, "environment")
  PROVE  VariablesSay(env, dir, Extended(held, more))
<1> DEFINE all == Extended(held, more)
<1>1. \A v : v \in all <=> v \in more \/ (v \in held /\ \A m \in more : m.path # v.path)
  BY DEF Extended
<1> HIDE DEF all
<1>2. \A e, f \in Spoken(env) : e.path = f.path => e = f
  BY DEF CarrierRead
<1>3. \A e, f \in Spoken(dir) : e.path = f.path => e = f
  BY DEF CarrierRead
<1>4. \A m \in more : /\ m.from = "environment"
                      /\ \E e \in Spoken(env) : m.path = e.path /\ m.value.text = e.value.text
  BY DEF CarrierRead
<1>5. \A v \in held : /\ v.from = "secrets" /\ ~v.value.breaks
                      /\ \E e \in Spoken(dir) : v.path = e.path /\ v.value.text = e.value.text
  BY DEF CarrierRead
<1>6. /\ \A e \in Spoken(env) : \E m \in more : m.path = e.path
      /\ \A e \in Spoken(dir) : \E v \in held : v.path = e.path
  BY DEF CarrierRead
<1>7. ASSUME NEW v \in all
      PROVE  \/ /\ v.from = "environment"
                /\ \E e \in Spoken(env) : v.path = e.path /\ v.value.text = e.value.text
             \/ /\ v.from = "secrets" /\ ~v.value.breaks
                /\ \A e \in Spoken(env) : e.path # v.path
                /\ \E e \in Spoken(dir) : v.path = e.path /\ v.value.text = e.value.text
  <2>1. CASE v \in more
    BY <1>4, <2>1
  <2>2. CASE v \in held /\ \A m \in more : m.path # v.path
    <3>1. \A e \in Spoken(env) : e.path # v.path
      BY <1>6, <2>2
    <3> QED BY <1>5, <2>2, <3>1
  <2> QED BY <1>1, <2>1, <2>2
<1>8. ASSUME NEW e \in Spoken(env) \cup Spoken(dir) PROVE \E v \in all : v.path = e.path
  <2>1. CASE e \in Spoken(env)
    BY <1>1, <1>6, <2>1
  <2>2. CASE e \in Spoken(dir)
    <3>1. PICK v \in held : v.path = e.path
      BY <1>6, <2>2
    <3>2. CASE \E m \in more : m.path = v.path
      BY <1>1, <3>1, <3>2
    <3>3. CASE \A m \in more : m.path # v.path
      BY <1>1, <3>1, <3>3
    <3> QED BY <3>2, <3>3
  <2> QED BY <2>1, <2>2
<1>9. VariablesSay(env, dir, all)
  BY <1>2, <1>3, <1>7, <1>8 DEF VariablesSay
<1> QED BY <1>9 DEF all

LEMMA CollectKeeps ==
  ASSUME LoadInv, CollectNamespace
  PROVE  LoadInv'
<1>1. LoadTyped /\ LoadSays /\ ValuesHidden /\ UNCHANGED source /\ load.todo = {}
  BY DEF LoadInv, CollectNamespace
<1>2. CASE load.stage = "secrets"
  <2> DEFINE todo == source.env
             none == {}
  <2>1. todo \in SUBSET CarrierEntries /\ none \in SUBSET Settings /\ load.held \in SUBSET Settings
    BY <1>1, LoadFields DEF CarrierEntries
  <2>2. load' = [load EXCEPT !.stage = "environment", !.todo = todo, !.variables = load.held,
                             !.held = none]
    BY <1>2 DEF CollectNamespace
  <2>3. load.scanned = 0 /\ CarrierRead(source.secrets, load.held, "secrets")
    <3>1. load.scanned = 0 /\ CarrierRead(source.secrets \ load.todo, load.held, "secrets")
      BY <1>1, <1>2 DEF LoadSays
    <3>2. source.secrets \ load.todo = source.secrets
      BY <1>1
    <3> QED BY <3>1, <3>2
  <2>4. CarrierRead(source.env \ todo, none, "environment")
    <3>1. Spoken(source.env \ todo) = {}
      BY DEF Spoken
    <3> QED BY <3>1 DEF CarrierRead
  <2>5. load.out = "none"
    BY <1>1, <1>2 DEF LoadTyped
  <2>6. todo = source.env
    OBVIOUS
  <2> HIDE DEF todo, none
  <2>7. /\ load' \in LoadsWith(load.out) /\ load'.stage = "environment" /\ load'.todo = todo
        /\ load'.held = none /\ load'.variables = load.held /\ load'.scanned = load.scanned
        /\ load'.out = load.out /\ load'.shown = load.shown
    BY <1>1, <2>1, <2>2 DEF LoadTyped, LoadsWith, LoadStages
  <2>8. LoadTyped'
    BY <1>1, <1>2, <2>5, <2>7 DEF LoadTyped
  <2>9. ValuesHidden'
    BY <1>1, <2>7 DEF ValuesHidden
  <2>10. LoadSays'
    BY <1>1, <2>3, <2>4, <2>5, <2>6, <2>7 DEF LoadSays
  <2> QED BY <2>8, <2>9, <2>10 DEF LoadInv
<1>3. CASE load.stage = "environment"
  <2> DEFINE none == {}
             all == Extended(load.variables, load.held)
  <2>1. none \in SUBSET Settings /\ all \in SUBSET Settings
    BY <1>1, LoadFields DEF Extended
  <2>2. load' = [load EXCEPT !.stage = "files", !.held = none, !.variables = all]
    BY <1>3 DEF CollectNamespace
  <2>3. load.scanned = 0 /\ VariablesSay(source.env, source.secrets, all)
    <3>1. /\ load.scanned = 0 /\ CarrierRead(source.secrets, load.variables, "secrets")
          /\ CarrierRead(source.env \ load.todo, load.held, "environment")
      BY <1>1, <1>3 DEF LoadSays
    <3>2. source.env \ load.todo = source.env
      BY <1>1
    <3> QED BY <3>1, <3>2, ExtendedSays
  <2>4. load.out = "none"
    BY <1>1, <1>3 DEF LoadTyped
  <2> HIDE DEF all, none
  <2>5. /\ load' \in LoadsWith(load.out) /\ load'.stage = "files"
        /\ load'.variables = all /\ load'.scanned = load.scanned
        /\ load'.out = load.out /\ load'.shown = load.shown
    BY <1>1, <2>1, <2>2 DEF LoadTyped, LoadsWith, LoadStages
  <2>6. LoadTyped'
    BY <1>1, <1>3, <2>4, <2>5 DEF LoadTyped
  <2>7. ValuesHidden'
    BY <1>1, <2>5 DEF ValuesHidden
  <2>8. \A i \in 1 .. load'.scanned : ScanFile(source.files[i])' = "ok"
    BY <2>3, <2>5
  <2>9. LoadSays'
    BY <1>1, <2>3, <2>4, <2>5, <2>8 DEF LoadSays
  <2> QED BY <2>6, <2>7, <2>9 DEF LoadInv
<1> QED BY <1>2, <1>3 DEF CollectNamespace

LEMMA ScanSays ==
  ASSUME NEW file
  PROVE  ScanFile(file) # "none" /\ (ScanFile(file) = "ok" => ~FirstSecretLikeKey(file))
<1> DEFINE last == <<FirstSecretLikeKey(file), "SecretInFile">>
           checks == << <<"io" \in file.faults, "ReadFile">>, <<"toml" \in file.faults, "ParseFile">>,
                        <<FirstUnaddressableKey(file), "UnaddressableKey">>, last >>
<1>1. DOMAIN checks = 1 .. 4 /\ \A i \in 1 .. 4 : checks[i][2] # "none" /\ checks[i][2] # "ok"
  OBVIOUS
<1>2. checks[4] = last /\ ScanFile(file) = First(checks)
  BY DEF ScanFile
<1>3. last[1] <=> FirstSecretLikeKey(file)
  BY DEF FirstSecretLikeKey
<1> HIDE DEF checks, last
<1>4. First(checks) # "none"
  BY <1>1, FirstNames
<1>5. First(checks) = "ok" => \A i \in 1 .. 4 : ~checks[i][1]
  BY <1>1, FirstOk
<1>6. First(checks) = "ok" => ~checks[4][1]
  BY <1>5
<1> QED BY <1>2, <1>3, <1>4, <1>6

\* A setting of the files is a key of one of them; what every file covers is covered.
LEMMA MergeFilesSays ==
  ASSUME NEW files \in Seq(Files), NEW s \in MergeFiles(files)
  PROVE  /\ s \in Settings /\ s.from = "file"
         /\ (\A i \in 1 .. Len(files) : ScanFile(files[i]) = "ok") => Covered(s.path, s.value)
<1>1. PICK i \in 1 .. Len(files) :
        \E k \in files[i].keys : s = [path |-> k.path, value |-> k.value, from |-> "file"]
  BY DEF MergeFiles
<1>6. PICK k \in files[i].keys : s = [path |-> k.path, value |-> k.value, from |-> "file"]
  BY <1>1
<1>2. files[i] \in Files
  OBVIOUS
<1>3. k.path \in Paths /\ k.value \in Values
  BY <1>2, <1>6 DEF Files
<1>4. s \in Settings /\ s.from = "file" /\ s.path = k.path /\ s.value = k.value
  BY <1>3, <1>6 DEF Settings
<1>5. ScanFile(files[i]) = "ok" => Covered(s.path, s.value)
  BY <1>4, <1>6, ScanSays DEF FirstSecretLikeKey, Covered
<1> QED BY <1>1, <1>4, <1>5

LEMMA MergeSays ==
  ASSUME NEW files \in Seq(Files), NEW variables \in SUBSET Settings, NEW raced,
         ~raced => \A i \in 1 .. Len(files) : ScanFile(files[i]) = "ok"
  PROVE  LET all == Extended(MergeFiles(files), variables)
         IN all \in SUBSET Settings /\ MergedSay(all, variables, raced)
<1> DEFINE all == Extended(MergeFiles(files), variables)
<1>1. \A s : s \in all <=> s \in variables \/ (s \in MergeFiles(files) /\ \A v \in variables : v.path # s.path)
  BY DEF Extended
<1>2. \A s \in MergeFiles(files) :
        s \in Settings /\ s.from = "file" /\ (~raced => Covered(s.path, s.value))
  BY MergeFilesSays
<1> HIDE DEF all
<1>3. all \in SUBSET Settings
  BY <1>1, <1>2
<1>4. MergedSay(all, variables, raced)
  BY <1>1, <1>2 DEF MergedSay
<1> QED BY <1>3, <1>4 DEF all

LEMMA ScanKeeps ==
  ASSUME LoadInv, ScanNext
  PROVE  LoadInv'
<1>1. /\ LoadTyped /\ LoadSays /\ ValuesHidden /\ UNCHANGED source
      /\ load.stage = "files" /\ load.scanned < Len(source.files)
  BY DEF LoadInv, ScanNext
<1> DEFINE next == load.scanned + 1
           verdict == ScanFile(source.files[next])
<1>2. load' = IF verdict = "ok" THEN [load EXCEPT !.scanned = next] ELSE Refuse(verdict, {})
  BY DEF ScanNext
<1>3. verdict # "none"
  BY ScanSays
<1>4. /\ next \in Nat /\ next <= Len(source.files) /\ load.out = "none"
      /\ \A i \in 1 .. next : i \in 1 .. load.scanned \/ i = next
  BY <1>1, LoadFields DEF LoadTyped
<1> HIDE DEF next, verdict
<1>5. CASE verdict = "ok"
  <2>1. /\ load' \in LoadsWith(load.out) /\ load'.stage = load.stage /\ load'.scanned = next
        /\ load'.variables = load.variables /\ load'.raced = load.raced
        /\ load'.out = load.out /\ load'.shown = load.shown
    BY <1>1, <1>2, <1>4, <1>5 DEF LoadTyped, LoadsWith
  <2>2. LoadTyped'
    BY <1>1, <1>4, <2>1 DEF LoadTyped
  <2>3. ValuesHidden'
    BY <1>1, <2>1 DEF ValuesHidden
  <2>4. ~load.raced => \A i \in 1 .. next : ScanFile(source.files[i]) = "ok"
    <3>1. ~load.raced => \A i \in 1 .. load.scanned : ScanFile(source.files[i]) = "ok"
      BY <1>1 DEF LoadSays
    <3>2. ScanFile(source.files[next]) = "ok"
      BY <1>5 DEF verdict
    <3> QED BY <1>4, <3>1, <3>2
  <2>5. VariablesSay(source.env, source.secrets, load.variables)
    BY <1>1 DEF LoadSays
  <2>6. LoadSays'
    BY <1>1, <1>4, <2>1, <2>4, <2>5 DEF LoadSays
  <2> QED BY <2>2, <2>3, <2>6 DEF LoadInv
<1>6. CASE verdict # "ok"
  BY <1>1, <1>2, <1>3, <1>6, RefuseKeeps
<1> QED BY <1>5, <1>6

LEMMA BuildKeeps ==
  ASSUME LoadInv, BuildMerged
  PROVE  LoadInv'
<1>1. /\ LoadTyped /\ LoadSays /\ ValuesHidden /\ UNCHANGED source
      /\ load.stage = "files" /\ load.scanned = Len(source.files)
  BY DEF LoadInv, BuildMerged
<1> DEFINE built == Merge(source.files, load.variables)
           all == Extended(MergeFiles(source.files), load.variables)
<1>2. load' = IF built.verdict = "ok" THEN [load EXCEPT !.stage = "decode", !.merged = built.merged]
              ELSE Refuse(built.verdict, {})
  BY DEF BuildMerged
<1>3. built.verdict \in {"ok", "Merge"} /\ (built.verdict = "ok" => built.merged = all)
  BY DEF Merge
<1>4. ~load.raced => \A i \in 1 .. Len(source.files) : ScanFile(source.files[i]) = "ok"
  BY <1>1 DEF LoadSays
<1>5. all \in SUBSET Settings /\ MergedSay(all, load.variables, load.raced)
  BY <1>1, <1>4, LoadFields, MergeSays
<1>6. load.out = "none" /\ VariablesSay(source.env, source.secrets, load.variables)
  BY <1>1 DEF LoadTyped, LoadSays
<1> HIDE DEF built, all
<1>7. CASE built.verdict = "ok"
  <2>1. load' = [load EXCEPT !.stage = "decode", !.merged = all]
    BY <1>2, <1>3, <1>7
  <2>2. /\ load' \in LoadsWith(load.out) /\ load'.stage = "decode" /\ load'.scanned = load.scanned
        /\ load'.variables = load.variables /\ load'.raced = load.raced /\ load'.merged = all
        /\ load'.out = load.out /\ load'.shown = load.shown
    BY <1>1, <1>5, <2>1 DEF LoadTyped, LoadsWith, LoadStages
  <2>3. LoadTyped'
    BY <1>1, <1>6, <2>2 DEF LoadTyped
  <2>4. ValuesHidden'
    BY <1>1, <2>2 DEF ValuesHidden
  <2>5. LoadSays'
    BY <1>1, <1>5, <1>6, <2>2 DEF LoadSays
  <2> QED BY <2>3, <2>4, <2>5 DEF LoadInv
<1>8. CASE built.verdict # "ok"
  <2>1. built.verdict \notin {"ok", "none"}
    BY <1>3, <1>8
  <2> QED BY <1>1, <1>2, <1>8, <2>1, RefuseKeeps
<1> QED BY <1>7, <1>8

\* A key above a path is a part of it, and begins as the path does.
LEMMA KeyAbove ==
  ASSUME NEW path \in Paths, NEW n \in 0 .. Len(path), NEW key, key = SubSeq(path, 1, n)
  PROVE  /\ IsAtOrUnder(path, key)
         /\ key # <<>> => (path[1] = "integrations" => IsAtOrUnder(key, <<"integrations">>))
<1>1. /\ path \in Seq(STRING) /\ key \in Seq(STRING) /\ Len(key) = n
      /\ \A j \in 1 .. n : key[j] = path[j]
  BY DEF Paths
<1>2. IsAtOrUnder(path, key)
  BY <1>1 DEF IsAtOrUnder
<1>3. ASSUME key # <<>>, path[1] = "integrations" PROVE IsAtOrUnder(key, <<"integrations">>)
  <2> DEFINE top == <<"integrations">>
             sub == SubSeq(key, 1, 1)
  <2>1. top = [i \in 1 .. 1 |-> "integrations"] /\ Len(top) = 1
    OBVIOUS
  <2>2. n >= 1
    BY <1>1, <1>3
  <2>3. key[1] = "integrations" /\ Len(key) >= 1
    BY <1>1, <1>3, <2>2
  <2>4. sub \in Seq(STRING) /\ Len(sub) = 1 /\ sub[1] = "integrations"
    BY <1>1, <2>3
  <2> HIDE DEF top, sub
  <2>5. sub \in [1 .. 1 -> STRING]
    BY <2>4, LenProperties
  <2>7. \A i \in 1 .. 1 : sub[i] = "integrations"
    BY <2>4
  <2>6. sub = top
    BY <2>1, <2>5, <2>7
  <2> QED BY <2>1, <2>3, <2>6 DEF IsAtOrUnder, top, sub
<1> QED BY <1>2, <1>3

\* A refusal quotes at most the one setting it is about, at that setting's key or above it.
LEMMA ErrorSays ==
  ASSUME NEW kind, NEW merged, NEW e \in DecodeErrors(kind, merged), e.quotes # {}
  PROVE  \E s \in merged : /\ e.quotes = {s} /\ RejectionOf(e) # "AsWritten"
                           /\ \E n \in 0 .. Len(s.path) : e.key = SubSeq(s.path, 1, n)
<1> DEFINE At(s) == {SubSeq(s.path, 1, n) : n \in 0 .. Len(s.path)}
           read == {s \in merged : s.path[1] \in SectionsOf(kind)}
           unknown == {s \in read : s.path \notin Known}
           refused == {s \in read \ unknown : ~Decodes(s)}
           forms == {"type", "quotes_expected", "other"}
<1>1. \/ \E s \in refused : \E key \in At(s), form \in forms :
           e = [key |-> key, form |-> form, quotes |-> {s}]
      \/ \E s \in refused : \E key \in At(s) : e = [key |-> key, form |-> "value_free", quotes |-> {}]
      \/ \E s \in unknown : e = [key |-> <<>>, form |-> "keys_only", quotes |-> {}]
  BY DEF DecodeErrors
<1>2. PICK s \in refused : \E key \in At(s), form \in forms :
        e = [key |-> key, form |-> form, quotes |-> {s}]
  <2> HIDE DEF At, refused, unknown
  <2> QED BY <1>1
<1>3. PICK key \in At(s), form \in forms : e = [key |-> key, form |-> form, quotes |-> {s}]
  BY <1>2
<1>4. s \in merged /\ \E n \in 0 .. Len(s.path) : key = SubSeq(s.path, 1, n)
  OBVIOUS
<1>5. e.quotes = {s} /\ e.key = key /\ e.form = form
  BY <1>3
<1>6. RejectionOf(e) # "AsWritten"
  BY <1>5 DEF RejectionOf
<1> QED BY <1>4, <1>5, <1>6

\* What is shown is a file's, outside the sections whose values stay hidden.
LEMMA RejectionSays ==
  ASSUME NEW merged \in SUBSET Settings, NEW variables, NEW raced, MergedSay(merged, variables, raced),
         NEW kind, NEW e \in DecodeErrors(kind, merged)
  PROVE  /\ DescribeRejection(e, variables) \in SUBSET Settings
         /\ \A s \in DescribeRejection(e, variables) : s.from = "file" /\ s.path[1] # "integrations"
<1> DEFINE shown == DescribeRejection(e, variables)
<1>1. shown = {} \/ shown = e.quotes
  BY DEF DescribeRejection
<1>2. CASE shown = {}
  BY <1>2
<1>3. CASE shown = e.quotes /\ shown # {}
  <2>1. PICK s \in merged : /\ e.quotes = {s} /\ RejectionOf(e) # "AsWritten"
                            /\ \E n \in 0 .. Len(s.path) : e.key = SubSeq(s.path, 1, n)
    <3> HIDE DEF shown
    <3> QED BY <1>3, ErrorSays
  <2>2. PICK n \in 0 .. Len(s.path) : e.key = SubSeq(s.path, 1, n)
    BY <2>1
  <2>3. s.path \in Paths
    BY DEF Settings
  <2>4. /\ IsAtOrUnder(s.path, e.key)
        /\ e.key # <<>> => (s.path[1] = "integrations" => IsAtOrUnder(e.key, <<"integrations">>))
    BY <2>2, <2>3, KeyAbove
  <2>5. /\ e.key # <<>> /\ \A v \in variables : ~IsAtOrUnder(v.path, e.key)
        /\ ~IsAtOrUnder(e.key, <<"integrations">>)
    BY <1>3, <2>1 DEF DescribeRejection, FromVariable, VALUE_FREE_SECTIONS
  <2>6. s \notin variables
    BY <2>4, <2>5
  <2>7. s.from = "file" /\ s.path[1] # "integrations"
    BY <2>4, <2>5, <2>6 DEF MergedSay
  <2> QED BY <1>3, <2>1, <2>7
<1> QED BY <1>1, <1>2, <1>3

LEMMA DecodeKeeps ==
  ASSUME LoadInv, DecodeMerged
  PROVE  LoadInv'
<1>1. LoadTyped /\ LoadSays /\ ValuesHidden /\ UNCHANGED source /\ load.stage = "decode"
  BY DEF LoadInv, DecodeMerged
<1>2. /\ load.out = "none" /\ VariablesSay(source.env, source.secrets, load.variables)
      /\ MergedSay(load.merged, load.variables, load.raced) /\ load.merged \in SUBSET Settings
  BY <1>1, LoadFields DEF LoadTyped, LoadSays
<1> DEFINE errors == DecodeErrors(load.kind, load.merged)
           verdict == Validated(load.kind, Snapshot(load.merged))
<1>3. verdict # "none"
  BY SnapshotTyped, ValidatedNames
<1>4. IF errors # {}
      THEN \E e \in errors : load' = Refuse("Deserialize", DescribeRejection(e, load.variables))
      ELSE load' = IF verdict = "ok" THEN [load EXCEPT !.stage = "ended", !.out = "ok"]
                   ELSE Refuse(verdict, {})
  BY DEF DecodeMerged
<1>5. CASE errors # {}
  <2>1. PICK e \in errors : load' = Refuse("Deserialize", DescribeRejection(e, load.variables))
    BY <1>4, <1>5
  <2> DEFINE shown == DescribeRejection(e, load.variables)
  <2>2. shown \in SUBSET Settings /\ \A s \in shown : s.from = "file" /\ s.path[1] # "integrations"
    BY <1>2, RejectionSays
  <2> HIDE DEF shown
  <2>3. load' = Refuse("Deserialize", shown)
    BY <2>1 DEF shown
  <2> QED BY <1>1, <2>2, <2>3, RefuseKeeps
<1> HIDE DEF errors, verdict
<1>6. CASE errors = {} /\ verdict # "ok"
  BY <1>1, <1>3, <1>4, <1>6, RefuseKeeps
<1>7. CASE errors = {} /\ verdict = "ok"
  <2>1. load' = [load EXCEPT !.stage = "ended", !.out = "ok"]
    BY <1>4, <1>7
  <2>2. /\ load' \in LoadsWith("ok") /\ load'.stage = "ended" /\ load'.out = "ok"
        /\ load'.kind = load.kind /\ load'.scanned = load.scanned /\ load'.shown = load.shown
        /\ load'.variables = load.variables /\ load'.raced = load.raced /\ load'.merged = load.merged
    BY <1>1, <2>1 DEF LoadTyped, LoadsWith, LoadStages
  <2>3. LoadTyped'
    BY <1>1, <2>2 DEF LoadTyped
  <2>4. ValuesHidden'
    BY <1>1, <2>2 DEF ValuesHidden
  <2>5. Validated(load.kind, Snapshot(load.merged)) = "ok"
    BY <1>7 DEF verdict
  <2>6. LoadSays'
    BY <1>1, <1>2, <2>2, <2>5 DEF LoadSays
  <2> QED BY <2>3, <2>4, <2>6 DEF LoadInv
<1> QED BY <1>5, <1>6, <1>7

\* A file that is replaced before its scan costs nothing; after it, the load has raced.
LEMMA ReplaceKeeps ==
  ASSUME LoadInv, ReplaceFile
  PROVE  LoadInv'
<1>1. LoadTyped /\ LoadSays /\ ValuesHidden /\ load.stage # "ended"
  BY DEF LoadInv, ReplaceFile
<1>2. PICK files \in LoadFiles : \E i \in 1 .. Len(source.files) :
        /\ i <= Len(files)
        /\ source' = [source EXCEPT !.files[i] = files[i], !.replaced = @ + 1]
        /\ load' = [load EXCEPT !.raced = @ \/ i <= load.scanned]
  BY DEF ReplaceFile
<1>3. PICK i \in 1 .. Len(source.files) :
        /\ i <= Len(files)
        /\ source' = [source EXCEPT !.files[i] = files[i], !.replaced = @ + 1]
        /\ load' = [load EXCEPT !.raced = @ \/ i <= load.scanned]
  BY <1>2
<1> DEFINE new == [source.files EXCEPT ![i] = files[i]]
           many == source.replaced + 1
           raced == load.raced \/ i <= load.scanned
<1>4. /\ source \in Sources /\ source.files \in Seq(Files) /\ source.replaced \in Nat
      /\ load.scanned \in Nat
  BY <1>1, LoadFields
<1>5. files \in Seq(Files) /\ files[i] \in Files
  BY <1>3, LoadAssumption
<1>6. /\ new \in Seq(Files) /\ Len(new) = Len(source.files)
      /\ \A j \in 1 .. Len(source.files) : j # i => new[j] = source.files[j]
  BY <1>4, <1>5, ExceptSeq
<1>7. many \in Nat /\ raced \in BOOLEAN
  BY <1>4
<1>8. source' = [source EXCEPT !.files = new, !.replaced = many]
  BY <1>3, <1>4 DEF Sources
<1>9. load' = [load EXCEPT !.raced = raced]
  BY <1>3
<1>10. (load.raced => raced) /\ (~raced => i > load.scanned)
  BY <1>4
<1> HIDE DEF new, many, raced
<1>11. /\ source' \in Sources /\ source'.files = new /\ source'.env = source.env
       /\ source'.secrets = source.secrets
  BY <1>4, <1>6, <1>7, <1>8 DEF Sources
<1>12. /\ load' \in LoadsWith(load.out) /\ load'.raced = raced /\ load'.stage = load.stage
       /\ load'.kind = load.kind /\ load'.todo = load.todo /\ load'.held = load.held
       /\ load'.variables = load.variables /\ load'.scanned = load.scanned
       /\ load'.merged = load.merged /\ load'.out = load.out /\ load'.shown = load.shown
  BY <1>1, <1>7, <1>9 DEF LoadTyped, LoadsWith
<1>13. LoadTyped'
  BY <1>1, <1>6, <1>11, <1>12 DEF LoadTyped
<1>14. ValuesHidden'
  BY <1>1, <1>12 DEF ValuesHidden
<1>15. load.out = "none"
  BY <1>1 DEF LoadTyped
<1>16. ASSUME load.stage = "files", ~raced, NEW j \in 1 .. load.scanned
       PROVE  ScanFile(new[j]) = "ok"
  <2>1. ScanFile(source.files[j]) = "ok"
    BY <1>1, <1>10, <1>16 DEF LoadSays
  <2>2. j # i /\ j \in 1 .. Len(source.files)
    BY <1>1, <1>4, <1>10, <1>16 DEF LoadTyped
  <2> QED BY <1>6, <2>1, <2>2
<1>17. load.stage = "decode" => MergedSay(load.merged, load.variables, raced)
  BY <1>1, <1>10 DEF LoadSays, MergedSay
<1>18. LoadSays'
  <2>1. (load.stage = "secrets" =>
           /\ load.todo \subseteq source.secrets /\ load.scanned = 0
           /\ CarrierRead(source.secrets \ load.todo, load.held, "secrets"))'
    BY <1>1, <1>11, <1>12 DEF LoadSays
  <2>2. (load.stage = "environment" =>
           /\ load.todo \subseteq source.env /\ load.scanned = 0
           /\ CarrierRead(source.secrets, load.variables, "secrets")
           /\ CarrierRead(source.env \ load.todo, load.held, "environment"))'
    BY <1>1, <1>11, <1>12 DEF LoadSays
  <2>3. (load.stage \in {"files", "decode"} \/ load.out = "ok" =>
           VariablesSay(source.env, source.secrets, load.variables))'
    BY <1>1, <1>11, <1>12, <1>15 DEF LoadSays
  <2>4. (load.stage = "files" /\ ~load.raced =>
           \A j \in 1 .. load.scanned : ScanFile(source.files[j]) = "ok")'
    BY <1>11, <1>12, <1>16
  <2>5. (load.stage = "decode" \/ load.out = "ok" =>
           MergedSay(load.merged, load.variables, load.raced))'
    BY <1>12, <1>15, <1>17
  <2>6. (load.out = "ok" => Validated(load.kind, Snapshot(load.merged)) = "ok")'
    BY <1>12, <1>15
  <2> QED BY <2>1, <2>2, <2>3, <2>4, <2>5, <2>6 DEF LoadSays
<1> QED BY <1>13, <1>14, <1>18 DEF LoadInv

LEMMA LoadStarts == LoadInit => LoadInv
<1> SUFFICES ASSUME LoadInit PROVE LoadInv
  OBVIOUS
<1>1. /\ source.env \in LoadVariables /\ source.secrets \in LoadSecrets /\ source.files \in LoadFiles
      /\ source \in [env : LoadVariables, secrets : LoadSecrets, files : LoadFiles, replaced : {0}]
  BY DEF LoadInit
<1>2. source.files \in Seq(Files) /\ source \in Sources
  BY <1>1, LoadAssumption DEF Sources
<1>3. PICK kind \in LoadKinds :
        load = [stage |-> "secrets", kind |-> kind, todo |-> source.secrets, held |-> {},
                variables |-> {}, scanned |-> 0, merged |-> {}, out |-> "none", shown |-> {},
                raced |-> FALSE]
  BY DEF LoadInit, LoadKinds
<1>4. source.secrets \in SUBSET CarrierEntries
  BY <1>1 DEF CarrierEntries
<1>5. /\ load \in LoadsWith("none") /\ load.stage = "secrets" /\ load.todo = source.secrets
      /\ load.held = {} /\ load.scanned = 0 /\ load.out = "none" /\ load.shown = {}
  BY <1>3, <1>4 DEF LoadsWith, LoadStages
<1>6. LoadTyped
  BY <1>2, <1>5 DEF LoadTyped
<1>7. CarrierRead(source.secrets \ load.todo, load.held, "secrets")
  <2>1. Spoken(source.secrets \ load.todo) = {}
    BY <1>5 DEF Spoken
  <2> QED BY <1>5, <2>1 DEF CarrierRead
<1>8. LoadSays
  BY <1>5, <1>7 DEF LoadSays
<1>9. ValuesHidden
  BY <1>5 DEF ValuesHidden
<1> QED BY <1>6, <1>8, <1>9 DEF LoadInv

LEMMA LoadKeeps == LoadInv /\ [LoadNext]_loadVars => LoadInv'
<1> SUFFICES ASSUME LoadInv, [LoadNext]_loadVars PROVE LoadInv'
  OBVIOUS
<1>1. CASE UNCHANGED loadVars
  BY <1>1 DEF loadVars, LoadInv, LoadTyped, LoadSays, ValuesHidden
<1>2. CASE LoadNext
  BY <1>2, CarriersKeep, CollectKeeps, ScanKeeps, BuildKeeps, DecodeKeeps, ReplaceKeeps DEF LoadNext
<1> QED BY <1>1, <1>2

LEMMA AtMostOne ==
  ASSUME NEW S, \A e, f \in S : e = f
  PROVE  Cardinality(S) <= 1
<1>1. CASE S = {}
  BY <1>1, FS_EmptySet
<1>2. CASE S # {}
  <2>1. PICK e \in S : TRUE
    BY <1>2
  <2>2. S = {e}
    BY <2>1
  <2> QED BY <2>2, FS_Singleton
<1> QED BY <1>1, <1>2

\* An admitted snapshot nests its budgets.
LEMMA SnapshotHeld ==
  ASSUME NEW kind \in LoadKinds, NEW merged, Validated(kind, Snapshot(merged)) = "ok"
  PROVE  LET c == Snapshot(merged)
         IN /\ c.postgres.enabled => c.postgres.dsn # {}
            /\ kind = "service" =>
                 c.http.request_timeout + c.http.readiness_propagation_delay <= c.http.grace_period
<1> DEFINE c == Snapshot(merged)
<1>1. /\ c.http.request_timeout \in Nat /\ c.http.grace_period \in Nat
      /\ c.http.drain_timeout \in Nat /\ c.http.readiness_propagation_delay \in Nat
  BY SnapshotTyped
<1> HIDE DEF c
<1>2. \/ kind = "service" /\ ValidateConfig(c) = "ok"
      \/ kind # "service" /\ ValidateMigrationConfig(c) = "ok"
      \/ kind # "service" /\ ValidateJobsOperator(c) = "ok"
  BY DEF Validated, LoadKinds, c
<1>3. ValidateConfig(c) = "ok" => ValidateHttp(c.http) = "ok" /\ ValidatePostgres(c.postgres) = "ok"
  BY DEF ValidateConfig, Then
<1>4. ValidateMigrationConfig(c) = "ok" => ValidatePostgres(c.postgres) = "ok"
  BY DEF ValidateMigrationConfig, Then
<1>5. ValidateJobsOperator(c) = "ok" => ValidatePostgres(c.postgres) = "ok"
  BY DEF ValidateJobsOperator
<1>6. c.postgres.enabled => c.postgres.dsn # {}
  BY <1>2, <1>3, <1>4, <1>5, PostgresHeld
<1>7. kind = "service" =>
        c.http.request_timeout + c.http.readiness_propagation_delay <= c.http.grace_period
  BY <1>1, <1>2, <1>3, HttpHeld
<1> QED BY <1>6, <1>7 DEF c

LEMMA LoadSettles == LoadInv => LoadSound
<1> SUFFICES ASSUME LoadInv PROVE LoadSound
  OBVIOUS
<1>1. LoadTyped /\ LoadSays /\ ValuesHidden
  BY DEF LoadInv
<1>2. LoadTypeOK
  BY <1>1, LoadFields DEF LoadTypeOK, LoadTyped, LoadStages
<1>3. ASSUME load.out = "ok", NEW s \in load.merged
      PROVE  LET env == GivenBy(source.env, s.path)
                 dir == GivenBy(source.secrets, s.path)
             IN /\ Cardinality(env) <= 1 /\ Cardinality(dir) <= 1
                /\ s.from = IF env # {} THEN "environment" ELSE IF dir # {} THEN "secrets" ELSE "file"
                /\ \A e \in IF env # {} THEN env ELSE dir : s.value.text = e.value.text
                /\ s.from = "secrets" => ~s.value.breaks
                /\ s.from = "file" /\ IsSecretLikeKey(s.path) /\ ~load.raced
                     => ~HasNonEmptyValue(s.value)
  <2> DEFINE env == GivenBy(source.env, s.path)
             dir == GivenBy(source.secrets, s.path)
  <2>1. /\ VariablesSay(source.env, source.secrets, load.variables)
        /\ MergedSay(load.merged, load.variables, load.raced)
    BY <1>1, <1>3 DEF LoadSays
  <2>2. /\ \A e : e \in env <=> e \in Spoken(source.env) /\ e.path = s.path
        /\ \A e : e \in dir <=> e \in Spoken(source.secrets) /\ e.path = s.path
    BY DEF GivenBy, Spoken
  <2> HIDE DEF env, dir
  <2>3. (\A e, f \in env : e = f) /\ (\A e, f \in dir : e = f)
    BY <2>1, <2>2 DEF VariablesSay
  <2>4. Cardinality(env) <= 1 /\ Cardinality(dir) <= 1
    BY <2>3, AtMostOne
  <2>5. CASE s \in load.variables
    <3>1. CASE s.from = "environment" /\ \E e \in env : s.value.text = e.value.text
      BY <2>3, <2>4, <3>1 DEF env, dir
    <3>2. CASE /\ s.from = "secrets" /\ ~s.value.breaks /\ env = {}
               /\ \E e \in dir : s.value.text = e.value.text
      BY <2>3, <2>4, <3>2 DEF env, dir
    <3>3. \/ /\ s.from = "environment"
             /\ \E e \in Spoken(source.env) : s.path = e.path /\ s.value.text = e.value.text
          \/ /\ s.from = "secrets" /\ ~s.value.breaks
             /\ \A e \in Spoken(source.env) : e.path # s.path
             /\ \E e \in Spoken(source.secrets) : s.path = e.path /\ s.value.text = e.value.text
      BY <2>1, <2>5 DEF VariablesSay
    <3> QED BY <2>2, <3>1, <3>2, <3>3
  <2>6. CASE s \notin load.variables
    <3>1. /\ s.from = "file" /\ \A v \in load.variables : v.path # s.path
          /\ ~load.raced => Covered(s.path, s.value)
      BY <1>3, <2>1, <2>6 DEF MergedSay
    <3>2. env = {} /\ dir = {}
      BY <2>1, <2>2, <3>1 DEF VariablesSay
    <3> QED BY <2>4, <3>1, <3>2 DEF env, dir, Covered
  <2> QED BY <2>5, <2>6
<1>4. ASSUME load.out = "ok"
      PROVE  LET c == Snapshot(load.merged)
             IN /\ c.postgres.enabled => c.postgres.dsn # {}
                /\ load.kind = "service" =>
                     c.http.request_timeout + c.http.readiness_propagation_delay <= c.http.grace_period
  BY <1>1, <1>4, LoadFields, SnapshotHeld DEF LoadSays
<1>5. SnapshotAdmitted
  BY <1>2, <1>3, <1>4 DEF SnapshotAdmitted
<1> QED BY <1>1, <1>5 DEF LoadSound

\* For every content of the environment, the secrets directory and the files, and every number of
\* files replaced while the load runs: an accepted snapshot is the one its carriers spell without
\* contradiction, with its budgets nested, and no refusal repeats a supplied value
\* (config/src/load.rs: load_from, describe_rejection).
THEOREM LoadSafe == LoadSpec => []LoadSound
<1>1. LoadInit => LoadInv
  BY LoadStarts
<1>2. LoadInv /\ [LoadNext]_loadVars => LoadInv'
  BY LoadKeeps
<1>3. LoadInv => LoadSound
  BY LoadSettles
<1> QED BY <1>1, <1>2, <1>3, PTL DEF LoadSpec
=============================================================================
