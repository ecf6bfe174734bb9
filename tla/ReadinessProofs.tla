--------------------------- MODULE ReadinessProofs ---------------------------
(***************************************************************************)
(* The published state of Readiness, for every policy. Honest joins three  *)
(* claims that need no timing: the gauge, the retained gap and the age of  *)
(* the evidence. That a verdict which keeps its schedule is not reported   *)
(* as lost needs the scheduler to lag at most one period.                  *)
(***************************************************************************)
EXTENDS Readiness, TLAPS

LEMMA PolicyNat == /\ Interval \in Nat /\ ProbeBudget \in Nat /\ Threshold \in Nat /\ Lag \in Nat
                   /\ Threshold > 0 /\ Interval > 0 /\ StaleAfter \in Nat /\ Period \in Nat
                   /\ Interval <= Period /\ ProbeBudget <= Period
                   /\ StaleAfter = ProbeBudget + Period + Period + Period
BY ReadinessAssumption DEF StaleAfter, Period

LEMMA OneMore == \A f, n \in Nat : (f + 1) * n = f * n + n /\ f * n \in Nat
OBVIOUS

LEMMA Zero == \A n \in Nat : 0 * n = 0
OBVIOUS

LEMMA Monotone == \A f, g, n \in Nat : f <= g => f * n <= g * n
OBVIOUS

\* The published part of the state.
CoreType ==
    /\ evaluated \in BOOLEAN /\ gauge \in BOOLEAN /\ gap \in BOOLEAN /\ draining \in BOOLEAN
    /\ check \in [age: Nat, ready: BOOLEAN, fails: Nat]
    /\ progress \in {"unarmed", "armed", "expired", "stopped"}
    /\ sinceOk \in Nat

\* While a ready verdict is fresh, the last success is as old as the absorbed
\* failures and the check's age allow.
Fresh == evaluated /\ check.ready /\ ~Stale =>
            sinceOk <= check.fails * StaleAfter + check.age

Honest ==
    /\ CoreType
    /\ GapRetained
    /\ GaugeHonest
    /\ check.ready => check.fails < Threshold
    /\ Fresh

\* Steps that publish nothing.
LEMMA QuietKeeps ==
    ASSUME Honest, UNCHANGED <<evaluated, check, draining, progress, gauge, gap, sinceOk>>
    PROVE  Honest'
BY DEF Honest, CoreType, GapRetained, GaugeHonest, Fresh, Stale

LEMMA RefreshKeeps == ASSUME Honest, NEW ok \in BOOLEAN, Refresh(ok) PROVE Honest'
<1>0. /\ check.age \in Nat /\ check.ready \in BOOLEAN /\ check.fails \in Nat /\ sinceOk \in Nat
      /\ evaluated \in BOOLEAN
  BY DEF Honest, CoreType
<1>1. check' = ApplyFailureThreshold(ok) /\ evaluated' = TRUE /\ draining' = draining /\ gap' = gap
        /\ progress' = (IF Expires THEN "expired" ELSE progress)
        /\ gauge' = (~draining /\ progress' # "expired" /\ check'.ready)
        /\ sinceOk' = IF ok THEN 0 ELSE sinceOk
  BY DEF Refresh
<1>2. /\ check'.age = 0 /\ check'.fails \in Nat /\ check'.ready \in BOOLEAN
      /\ check' \in [age: Nat, ready: BOOLEAN, fails: Nat]
      /\ ok => check'.fails = 0
      /\ ~ok /\ check'.ready => /\ evaluated /\ check.ready /\ ~Stale
                                /\ check'.fails < Threshold
                                /\ check'.fails = check.fails + 1
  BY <1>0, <1>1, PolicyNat DEF ApplyFailureThreshold
<1>3. CoreType'
  BY <1>1, <1>2 DEF Honest, CoreType
<1>4. GapRetained'
  BY <1>1 DEF Honest, CoreType, GapRetained, Expires
<1>5. GaugeHonest'
  BY <1>1 DEF GaugeHonest
<1>6. check'.ready => check'.fails < Threshold
  BY <1>2, PolicyNat
<1>7. Fresh'
  <2>1. CASE ok
    <3>1. sinceOk' = 0 /\ check'.fails = 0 /\ check'.age = 0
      BY <2>1, <1>1, <1>2
    <3>2. 0 * StaleAfter = 0
      BY PolicyNat, Zero
    <3>3. check'.fails * StaleAfter + check'.age = 0
      BY <3>1, <3>2
    <3>. QED BY <3>1, <3>3 DEF Fresh
  <2>2. CASE ~ok
    <3>. SUFFICES ASSUME check'.ready PROVE sinceOk <= check'.fails * StaleAfter
      BY <2>2, <1>1, <1>2, PolicyNat, OneMore DEF Fresh
    <3>1. sinceOk <= check.fails * StaleAfter + check.age /\ check.age <= StaleAfter
      BY <1>0, <1>2, <2>2, PolicyNat DEF Honest, Fresh, Stale
    <3>2. check'.fails * StaleAfter = check.fails * StaleAfter + StaleAfter
            /\ check.fails * StaleAfter \in Nat
      BY <1>0, <1>2, <2>2, PolicyNat, OneMore
    <3>. QED BY <1>0, <3>1, <3>2, PolicyNat
  <2>. QED BY <2>1, <2>2
<1>. QED BY <1>3, <1>4, <1>5, <1>6, <1>7 DEF Honest

\* Stop, drain, arming and the observer change no check.
LEMMA ObligationKeeps ==
    ASSUME Honest, ArmProgress \/ StopProgress \/ StartDrain \/ ObserverLooks
    PROVE  Honest'
<1>1. UNCHANGED <<evaluated, check, gap, sinceOk>> /\ draining' \in BOOLEAN
  BY DEF ArmProgress, StopProgress, StartDrain, ObserverLooks, Honest, CoreType
<1>2. CoreType'
  BY <1>1 DEF Honest, CoreType, ArmProgress, StopProgress, StartDrain, ObserverLooks
<1>3. GapRetained'
  BY <1>1 DEF Honest, CoreType, GapRetained, Stale, Expired, Expires, ArmProgress, StopProgress,
     StartDrain, ObserverLooks
<1>4. GaugeHonest'
  <2>1. CASE ArmProgress
    BY <2>1, <1>1 DEF Honest, CoreType, GaugeHonest, Stale, ArmProgress
  <2>2. CASE StopProgress
    BY <2>2, <1>1 DEF Honest, CoreType, GaugeHonest, Expired, Expires, StopProgress
  <2>3. CASE StartDrain
    BY <2>3, <1>1 DEF Honest, CoreType, GaugeHonest, StartDrain
  <2>4. CASE ObserverLooks
    BY <2>4, <1>1 DEF Honest, CoreType, GaugeHonest, Expired, Expires, ObserverLooks
  <2>. QED BY <2>1, <2>2, <2>3, <2>4
<1>5. (check.ready => check.fails < Threshold)' /\ Fresh'
  BY <1>1 DEF Honest, Fresh, Stale
<1>. QED BY <1>2, <1>3, <1>4, <1>5 DEF Honest

LEMMA TickKeeps == ASSUME Honest, Tick PROVE Honest'
<1>0. /\ check.age \in Nat /\ check.ready \in BOOLEAN /\ check.fails \in Nat /\ sinceOk \in Nat
      /\ evaluated \in BOOLEAN /\ gap \in BOOLEAN
  BY DEF Honest, CoreType
<1>1. /\ check' = [check EXCEPT !.age = IF evaluated THEN Plus1(check.age, StaleAfter + 1) ELSE 0]
      /\ gap' = (gap \/ (progress = "armed" /\ evaluated /\ check'.age > StaleAfter))
      /\ sinceOk' = Plus1(sinceOk, Evidence)
      /\ UNCHANGED <<evaluated, draining, progress, gauge>>
  BY DEF Tick, Honest, CoreType
<1>2. /\ check'.ready = check.ready /\ check'.fails = check.fails
      /\ check'.age = IF evaluated THEN Plus1(check.age, StaleAfter + 1) ELSE 0
  BY <1>1 DEF Honest, CoreType
<1>3. /\ check'.age \in Nat
      /\ evaluated /\ Stale => Stale'
      /\ evaluated /\ ~Stale' => ~Stale /\ check'.age = check.age + 1
  BY <1>0, <1>2, PolicyNat DEF Plus1, Stale
<1>4. sinceOk' \in Nat /\ sinceOk' <= sinceOk + 1
  BY <1>0, <1>1, PolicyNat, OneMore DEF Plus1, Evidence
<1>5. check' \in [age: Nat, ready: BOOLEAN, fails: Nat]
  BY <1>1, <1>2, <1>3 DEF Honest, CoreType
<1>6. CoreType'
  BY <1>1, <1>4, <1>5 DEF Honest, CoreType
<1>7. GapRetained'
  BY <1>1, <1>3 DEF Honest, GapRetained, Stale
<1>8. GaugeHonest'
  BY <1>1, <1>2 DEF Honest, GaugeHonest
<1>9. Fresh'
  <2>. SUFFICES ASSUME evaluated, check.ready, ~Stale'
                PROVE  sinceOk' <= check'.fails * StaleAfter + check'.age
    BY <1>1, <1>2 DEF Fresh
  <2>1. sinceOk <= check.fails * StaleAfter + check.age
    BY <1>3 DEF Honest, Fresh
  <2>. QED BY <1>0, <1>2, <1>3, <1>4, <2>1, PolicyNat, OneMore
<1>. QED BY <1>2, <1>6, <1>7, <1>8, <1>9 DEF Honest

LEMMA HonestStep == Honest /\ [Next]_vars => Honest'
<1>. SUFFICES ASSUME Honest, [Next]_vars PROVE Honest'
  OBVIOUS
<1>1. CASE BeginProbe \/ RefuseAdmission \/ Cancel \/ ObserverWakes
  BY <1>1, QuietKeeps DEF BeginProbe, RefuseAdmission, Cancel, ObserverWakes
<1>2. CASE \E ok \in BOOLEAN : Refresh(ok)
  BY <1>2, RefreshKeeps
<1>3. CASE ArmProgress \/ StopProgress \/ StartDrain \/ ObserverLooks
  BY <1>3, ObligationKeeps
<1>4. CASE \E w \in Watchers : Follow(w)
  BY <1>4, QuietKeeps DEF Follow, Reads, Parks, Wakes
<1>5. CASE Tick
  BY <1>5, TickKeeps
<1>6. CASE UNCHANGED vars
  BY <1>6, QuietKeeps DEF vars
<1>. QED BY <1>1, <1>2, <1>3, <1>4, <1>5, <1>6 DEF Next, Observe

LEMMA HonestAlways == Spec => []Honest
<1>1. Init => Honest
  <2>. SUFFICES ASSUME Init PROVE Honest
    OBVIOUS
  <2>1. Threshold * StaleAfter \in Nat
    BY PolicyNat, OneMore
  <2>2. sinceOk \in Nat
    BY <2>1 DEF Init, Evidence
  <2>3. check = [age |-> 0, ready |-> FALSE, fails |-> 0] /\ ~evaluated /\ ~draining /\ ~gauge
          /\ ~gap /\ evaluated = FALSE /\ draining = FALSE /\ gauge = FALSE /\ gap = FALSE
          /\ progress = "unarmed"
    BY DEF Init
  <2>4. CoreType
    BY <2>2, <2>3 DEF CoreType
  <2>5. GapRetained /\ GaugeHonest /\ Fresh
    BY <2>3 DEF GapRetained, GaugeHonest, Fresh
  <2>6. check.ready => check.fails < Threshold
    BY <2>3
  <2>. QED BY <2>4, <2>5, <2>6 DEF Honest
<1>. QED BY <1>1, HonestStep, PTL DEF Spec

\* No late round, stop or drain hides a missed completion bound, for every
\* policy (health State::expire_progress, refresh, stop_progress).
THEOREM GapRetainedSafe == Spec => []GapRetained
<1>1. Honest => GapRetained
  BY DEF Honest
<1>. QED BY <1>1, HonestAlways, PTL

\* The readiness_ready gauge always agrees with the published state (health
\* refresh, start_drain, expire_progress).
THEOREM GaugeSafe == Spec => []GaugeHonest
<1>1. Honest => GaugeHonest
  BY DEF Honest
<1>. QED BY <1>1, HonestAlways, PTL

\* A ready answer rests on a success at most failure_threshold stale bounds old,
\* for every policy (health apply_failure_threshold, verdict).
THEOREM EvidenceSafe == Spec => []EvidenceBound
<1>1. Honest => EvidenceBound
  <2>. SUFFICES ASSUME Honest, Verdict = "ready" PROVE sinceOk <= Threshold * StaleAfter
    BY DEF EvidenceBound
  <2>1. evaluated /\ check.ready /\ ~Stale
    BY DEF Verdict, Honest, CoreType
  <2>2. /\ sinceOk <= check.fails * StaleAfter + check.age
        /\ check.age <= StaleAfter /\ check.fails + 1 <= Threshold
        /\ check.fails \in Nat /\ check.age \in Nat /\ sinceOk \in Nat
    BY <2>1, PolicyNat DEF Honest, CoreType, Fresh, Stale
  <2>3. (check.fails + 1) * StaleAfter <= Threshold * StaleAfter
    <3>1. check.fails + 1 \in Nat
      BY <2>2
    <3>. QED BY <2>2, <3>1, PolicyNat, Monotone
  <2>4. (check.fails + 1) * StaleAfter = check.fails * StaleAfter + StaleAfter
          /\ check.fails * StaleAfter \in Nat /\ Threshold * StaleAfter \in Nat
    BY <2>2, PolicyNat, OneMore
  <2>. QED BY <2>2, <2>3, <2>4, PolicyNat
<1>. QED BY <1>1, HonestAlways, PTL

\* What readiness shows is honest for every refresh policy (health lib.rs refresh,
\* expire_progress, apply_failure_threshold).
THEOREM VerdictHonestSafe == Spec => []VerdictHonest
BY GapRetainedSafe, GaugeSafe, EvidenceSafe, PTL DEF VerdictHonest

-----------------------------------------------------------------------------
(* A refresher on schedule never loses its obligation *)

LEMMA RefresherFields == \A x \in Refresher :
    x.kept \in BOOLEAN /\ x.timer \in 0..Interval /\ x.left \in 0..ProbeBudget /\ x.late \in Nat
BY DEF Refresher

\* Wake-ups keep the receivers' types.
LEMMA StreamTypes ==
    /\ \A x \in Observer : /\ [x EXCEPT !.unseen = TRUE] \in Observer
                           /\ \A st \in {"look", "reported", "done"} : [x EXCEPT !.st = st] \in Observer
                           /\ [x EXCEPT !.st = "look", !.unseen = TRUE] \in Observer
                           /\ \A n \in Ages : [x EXCEPT !.left = n] \in Observer
    /\ \A x \in Stream : /\ [x EXCEPT !.unseen = TRUE] \in Stream
                         /\ [x EXCEPT !.unseen = TRUE, !.edge = FALSE] \in Stream
                         /\ \A n \in Ages : [x EXCEPT !.left = n] \in Stream
BY DEF Observer, Stream

LEMMA LessAges == \A n \in Ages : Less1(n) \in Ages /\ StaleAfter + 1 - n \in Ages
BY PolicyNat DEF Less1, Ages

LEMMA ObserverTyped == ASSUME TypeOK, [Next]_vars PROVE obs' \in Observer
<1>0. obs \in Observer /\ obs.left \in Ages /\ obs.st \in {"off", "look", "wait", "reported", "done"} /\ check.age \in Ages
  BY DEF TypeOK, Observer, Check
<1>1. CASE \/ BeginProbe \/ RefuseAdmission \/ (\E w \in Watchers : Follow(w)) \/ UNCHANGED vars
  BY <1>0, <1>1 DEF BeginProbe, RefuseAdmission, Follow, Reads, Parks, Wakes, vars
<1>2. CASE \E ok \in BOOLEAN : Refresh(ok)
  BY <1>0, <1>2, StreamTypes DEF Refresh
<1>3. CASE ArmProgress
  BY <1>0, <1>3, StreamTypes DEF ArmProgress
<1>4. CASE StopProgress \/ StartDrain
  BY <1>0, <1>4, StreamTypes DEF StopProgress, StartDrain, Notify
<1>5. CASE Cancel
  <2>1. obs' = [obs EXCEPT !.st = "reported"] \/ obs' = [obs EXCEPT !.st = "done"]
    BY <1>0, <1>5 DEF Cancel
  <2>. QED BY <1>0, <2>1, StreamTypes
<1>6. CASE ObserverLooks
  <2>1. \A b \in BOOLEAN, n \in Ages : [st |-> "wait", unseen |-> FALSE, timed |-> b, left |-> n] \in Observer
    BY DEF Observer
  <2>2. StaleAfter + 1 - check.age \in Ages /\ (progress = "armed" /\ evaluated) \in BOOLEAN
    BY <1>0, LessAges
  <2>. QED BY <1>0, <1>6, <2>1, <2>2, StreamTypes DEF ObserverLooks
<1>7. CASE ObserverWakes
  BY <1>0, <1>7, StreamTypes DEF ObserverWakes
<1>8. CASE Tick
  BY <1>0, <1>8, LessAges, StreamTypes DEF Tick
<1>. QED BY <1>1, <1>2, <1>3, <1>4, <1>5, <1>6, <1>7, <1>8 DEF Next, Observe

LEMMA WatchTyped == ASSUME TypeOK, [Next]_vars PROVE watch' \in [Watchers -> Stream]
<1>0. /\ watch \in [Watchers -> Stream] /\ (\A w \in Watchers : watch[w] \in Stream /\ watch[w].left \in Ages)
      /\ check.age \in Ages
  BY DEF TypeOK, Stream, Check
<1>1. CASE BeginProbe \/ RefuseAdmission \/ Cancel \/ ObserverWakes \/ UNCHANGED vars
  BY <1>0, <1>1 DEF BeginProbe, RefuseAdmission, Cancel, ObserverWakes, vars
<1>2. CASE (\E ok \in BOOLEAN : Refresh(ok)) \/ ArmProgress \/ StopProgress \/ StartDrain \/ ObserverLooks
  BY <1>0, <1>2, StreamTypes, ZenonT(40) DEF Refresh, ArmProgress, StopProgress, StartDrain, ObserverLooks, Notify
<1>3. ASSUME NEW w \in Watchers, Reads(w) PROVE watch' \in [Watchers -> Stream]
  <2>1. \A x \in Stream, told \in {"serving", "not_serving"}, st \in {"ended", "read", "park"} :
            [x EXCEPT !.told = told, !.st = st] \in Stream
    BY DEF Stream
  <2>. QED BY <1>0, <1>3, <2>1 DEF Reads, Status
<1>4. ASSUME NEW w \in Watchers, Parks(w) PROVE watch' \in [Watchers -> Stream]
  <2>1. \A x \in Stream, b \in BOOLEAN, n \in Ages :
            /\ [x EXCEPT !.st = "read", !.unseen = FALSE] \in Stream
            /\ [x EXCEPT !.st = "wait", !.timed = b, !.left = n] \in Stream
    BY DEF Stream
  <2>2. StaleAfter + 1 - check.age \in Ages /\ (evaluated /\ ~draining /\ ~watch[w].edge) \in BOOLEAN
    BY <1>0, LessAges
  <2>. QED BY <1>0, <1>4, <2>1, <2>2 DEF Parks
<1>5. ASSUME NEW w \in Watchers, Wakes(w) PROVE watch' \in [Watchers -> Stream]
  <2>1. \A x \in Stream : [x EXCEPT !.st = "read", !.unseen = FALSE] \in Stream /\ [x EXCEPT !.st = "read", !.edge = TRUE] \in Stream
    BY DEF Stream
  <2>. QED BY <1>0, <1>5, <2>1 DEF Wakes
<1>6. CASE Tick
  BY <1>0, <1>6, LessAges, StreamTypes DEF Tick
<1>. QED BY <1>1, <1>2, <1>3, <1>4, <1>5, <1>6 DEF Next, Observe, Follow

\* A check's age and the refresher's schedule: what was waited and what is still due
\* never add up to more than the interval, the budget and the lateness of each.
OnTime ==
    /\ ref.late <= Lag
    /\ ref.st = "first" => ~evaluated
    /\ ref.st \in {"first", "admit"} => ~gap /\ progress \in {"unarmed", "stopped"}
    /\ ref.st = "admit" => ref.late = 0 /\ evaluated /\ check.age = 0
    /\ ref.st = "wait" => check.age + ref.timer <= Interval + ref.late
    /\ ref.st = "probing" => check.age + ref.left <= Interval + Lag + ProbeBudget + ref.late
    /\ ref.st \in {"wait", "probing"} => evaluated /\ ~gap /\ progress # "expired"

KeepsTime == TypeOK /\ (ref.kept => OnTime)

\* An interval, two late starts and a round are within the stale bound.
LEMMA OnTimeFresh == ASSUME Lag <= Period, TypeOK, OnTime, ref.st \in {"wait", "probing"} PROVE ~Stale
<1>1. check.age \in Nat /\ ref.timer \in Nat /\ ref.left \in Nat /\ ref.late \in Nat
  BY RefresherFields, PolicyNat DEF TypeOK, Check, Ages
<1>. QED BY <1>1, PolicyNat DEF OnTime, Stale

LEMMA CheckTyped == ASSUME TypeOK, [Next]_vars
    PROVE  check' \in Check /\ sinceOk' \in 0..Evidence
<1>0. check \in Check /\ check.age \in Ages /\ check.fails \in 0..Threshold /\ sinceOk \in 0..Evidence /\ Evidence \in Nat
  <2>1. Threshold * StaleAfter \in Nat
    BY PolicyNat, OneMore
  <2>. QED BY <2>1 DEF TypeOK, Check, Evidence
<1>1. ASSUME NEW ok \in BOOLEAN, Refresh(ok) PROVE check' \in Check /\ sinceOk' \in 0..Evidence
  <2>1. check' = ApplyFailureThreshold(ok) /\ sinceOk' = IF ok THEN 0 ELSE sinceOk
    BY <1>1 DEF Refresh
  <2>2. 0 \in Ages
    BY PolicyNat DEF Ages
  <2>3. (IF ok THEN 0 ELSE IF check.fails < Threshold THEN check.fails + 1 ELSE Threshold) \in 0..Threshold
    BY <1>0, PolicyNat
  <2>4. \A f \in 0..Threshold, b \in BOOLEAN : [age |-> 0, fails |-> f, ready |-> b] \in Check
    BY <2>2 DEF Check
  <2>5. ApplyFailureThreshold(ok) \in Check
    BY <2>3, <2>4 DEF ApplyFailureThreshold
  <2>. QED BY <1>0, <2>1, <2>5
<1>2. CASE Tick
  <2>1. \A n \in Ages : Plus1(n, StaleAfter + 1) \in Ages /\ 0 \in Ages
    BY PolicyNat DEF Ages, Plus1
  <2>2. \A x \in Check, n \in Ages : [x EXCEPT !.age = n] \in Check
    BY DEF Check
  <2>3. Plus1(sinceOk, Evidence) \in 0..Evidence
    BY <1>0 DEF Plus1
  <2>. QED BY <1>0, <1>2, <2>1, <2>2, <2>3 DEF Tick
<1>3. CASE ~((\E ok \in BOOLEAN : Refresh(ok)) \/ Tick)
  <2>1. UNCHANGED <<check, sinceOk>>
    BY <1>3 DEF Next, Observe, Follow, BeginProbe, ArmProgress, RefuseAdmission, StopProgress, StartDrain, Cancel,
                ObserverLooks, ObserverWakes, Reads, Parks, Wakes, vars
  <2>. QED BY <1>0, <2>1
<1>. QED BY <1>1, <1>2, <1>3

LEMMA RefTyped == ASSUME TypeOK, [Next]_vars PROVE ref' \in Refresher
<1>0. ref \in Refresher /\ ref.timer \in 0..Interval /\ ref.left \in 0..ProbeBudget /\ ref.late \in Nat
  BY RefresherFields DEF TypeOK
<1>1. \A x \in Refresher, st \in {"first", "admit", "wait", "probing", "stopped"} :
          /\ [x EXCEPT !.st = st] \in Refresher /\ [x EXCEPT !.st = st, !.late = 0] \in Refresher
          /\ \A t \in 0..Interval : [x EXCEPT !.st = st, !.timer = t] \in Refresher
  BY DEF Refresher
<1>a. \A x \in Refresher, t \in 0..Interval, l \in 0..ProbeBudget, n \in Nat :
          /\ [x EXCEPT !.st = "probing", !.timer = t, !.left = l, !.late = n] \in Refresher
          /\ [x EXCEPT !.timer = t, !.left = l, !.late = n] \in Refresher
  BY DEF Refresher
<1>2. Interval \in 0..Interval /\ ProbeBudget \in 0..ProbeBudget
  BY PolicyNat
<1>3. CASE BeginProbe
  BY <1>0, <1>a, <1>2, <1>3, ZenonT(40) DEF BeginProbe
<1>4. CASE (\E ok \in BOOLEAN : Refresh(ok))
  BY <1>0, <1>1, <1>4 DEF Refresh
<1>5. CASE ArmProgress
  BY <1>0, <1>1, <1>2, <1>5 DEF ArmProgress
<1>6. CASE RefuseAdmission \/ Cancel
  BY <1>0, <1>1, <1>6 DEF RefuseAdmission, Cancel
<1>7. CASE Tick
  <2>1. Less1(ref.timer) \in 0..Interval /\ Less1(ref.left) \in 0..ProbeBudget /\ ref.late + 1 \in Nat
    BY <1>0, PolicyNat DEF Less1
  <2>. QED BY <1>0, <1>a, <1>7, <2>1 DEF Tick
<1>8. CASE StopProgress \/ StartDrain \/ Observe \/ (\E w \in Watchers : Follow(w)) \/ UNCHANGED vars
  BY <1>0, <1>8 DEF StopProgress, StartDrain, Observe, ObserverLooks, ObserverWakes, Follow, Reads, Parks, Wakes, vars
<1>. QED BY <1>3, <1>4, <1>5, <1>6, <1>7, <1>8 DEF Next

LEMMA Typed == ASSUME TypeOK, [Next]_vars PROVE TypeOK'
<1>1. /\ evaluated' \in BOOLEAN /\ draining' \in BOOLEAN /\ gauge' \in BOOLEAN /\ gap' \in BOOLEAN
      /\ progress' \in {"unarmed", "armed", "expired", "stopped"}
      /\ life' \in {"run", "stopping", "draining", "cancelled"}
  <2>. USE DEF TypeOK
  <2>0. CASE BeginProbe \/ RefuseAdmission \/ Cancel
    BY <2>0 DEF BeginProbe, RefuseAdmission, Cancel
  <2>1. CASE ObserverWakes \/ (\E w \in Watchers : Follow(w)) \/ UNCHANGED vars
    <3>1. UNCHANGED <<evaluated, draining, gauge, gap, progress, life>>
      BY <2>1 DEF ObserverWakes, Follow, Reads, Parks, Wakes, vars
    <3>. QED BY <3>1
  <2>2. ASSUME NEW ok \in BOOLEAN, Refresh(ok)
        PROVE  /\ evaluated' \in BOOLEAN /\ draining' \in BOOLEAN /\ gauge' \in BOOLEAN /\ gap' \in BOOLEAN
               /\ progress' \in {"unarmed", "armed", "expired", "stopped"}
               /\ life' \in {"run", "stopping", "draining", "cancelled"}
    BY <2>2 DEF Refresh
  <2>3. CASE ArmProgress
    BY <2>3 DEF ArmProgress
  <2>4. CASE StopProgress
    BY <2>4 DEF StopProgress
  <2>5. CASE StartDrain
    BY <2>5 DEF StartDrain
  <2>6. CASE ObserverLooks
    BY <2>6 DEF ObserverLooks
  <2>7. CASE Tick
    BY <2>7 DEF Tick
  <2>. QED BY <2>0, <2>1, <2>2, <2>3, <2>4, <2>5, <2>6, <2>7 DEF Next, Observe
<1>. QED BY <1>1, ObserverTyped, WatchTyped, CheckTyped, RefTyped DEF TypeOK

LEMMA KeepsStep == Lag <= Period /\ KeepsTime /\ [Next]_vars => KeepsTime'
<1>. SUFFICES ASSUME Lag <= Period, TypeOK, TypeOK', ref.kept => OnTime, [Next]_vars, ref'.kept PROVE OnTime'
  BY Typed DEF KeepsTime
<1>0. /\ ref \in Refresher /\ ref.timer \in 0..Interval /\ ref.left \in 0..ProbeBudget /\ ref.late \in Nat
      /\ check.age \in Nat /\ check \in Check
  BY RefresherFields, PolicyNat DEF TypeOK, Check, Ages
<1>1. CASE BeginProbe
  <2>1. /\ ref.st = "wait" /\ ref.timer = 0 /\ UNCHANGED <<evaluated, check, progress, gap>>
        /\ ref'.st = "probing" /\ ref'.left = ProbeBudget /\ ref'.late = 0 /\ ref'.kept = ref.kept
    BY <1>0, <1>1 DEF BeginProbe, Refresher
  <2>. QED BY <1>0, <2>1, PolicyNat DEF OnTime
<1>2. ASSUME NEW ok \in BOOLEAN, Refresh(ok) PROVE OnTime'
  <2>1. /\ ref'.kept = ref.kept /\ ref'.late = 0 /\ ref'.timer = ref.timer /\ ref.st \in {"first", "probing"}
        /\ ref'.st = IF ref.st = "first" THEN "admit" ELSE "wait"
    BY <1>0, <1>2 DEF Refresh, Refresher
  <2>2. /\ evaluated' = TRUE /\ check'.age = 0 /\ gap' = gap
        /\ progress' = IF Expires THEN "expired" ELSE progress
    BY <1>2 DEF Refresh, ApplyFailureThreshold
  <2>3. ~Expires
    <3>1. CASE ref.st = "first"
      BY <2>1, <3>1 DEF OnTime, Expires
    <3>2. CASE ref.st = "probing"
      BY <2>1, <3>2, OnTimeFresh DEF Expires
    <3>. QED BY <2>1, <3>1, <3>2
  <2>. QED BY <1>0, <2>1, <2>2, <2>3, PolicyNat DEF OnTime
<1>3. CASE ArmProgress
  <2>1. OnTime /\ ref.st = "admit"
    <3>1. ref'.kept = ref.kept
      BY <1>0, <1>3 DEF ArmProgress, Refresher
    <3>. QED BY <1>3, <3>1 DEF ArmProgress
  <2>2. ~Stale
    BY <2>1, PolicyNat DEF OnTime, Stale
  <2>3. /\ ref'.st = "wait" /\ ref'.timer = Interval /\ ref'.late = ref.late
        /\ progress' = "armed" /\ UNCHANGED <<evaluated, check, gap>>
    BY <1>0, <1>3, <2>2 DEF ArmProgress, Refresher
  <2>. QED BY <2>1, <2>3, PolicyNat DEF OnTime
<1>4. CASE RefuseAdmission \/ Cancel
  <2>1. ref'.st = "stopped" /\ ref'.late = ref.late /\ ref'.kept = ref.kept
    BY <1>0, <1>4 DEF RefuseAdmission, Cancel, Refresher
  <2>. QED BY <2>1 DEF OnTime
<1>5. CASE StopProgress \/ StartDrain \/ ObserverLooks
  <2>1. /\ UNCHANGED <<evaluated, check, ref, gap>>
        /\ progress' = (IF Expired THEN "expired" ELSE "stopped") \/ progress' = (IF Expired THEN "expired" ELSE progress)
    BY <1>5 DEF StopProgress, StartDrain, ObserverLooks
  <2>2. ref.st \in {"first", "admit", "wait", "probing"} => ~Expired
    <3>1. CASE ref.st \in {"first", "admit"}
      BY <2>1, <3>1 DEF OnTime, Expired, Expires
    <3>2. CASE ref.st \in {"wait", "probing"}
      BY <2>1, <3>2, OnTimeFresh DEF OnTime, Expired, Expires
    <3>. QED BY <3>1, <3>2
  <2>. QED BY <2>1, <2>2 DEF OnTime
<1>6. CASE ObserverWakes \/ (\E w \in Watchers : Follow(w)) \/ UNCHANGED vars
  <2>1. UNCHANGED <<evaluated, check, ref, gap, progress>>
    BY <1>6 DEF ObserverWakes, Follow, Reads, Parks, Wakes, vars
  <2>. QED BY <2>1 DEF OnTime
<1>7. CASE Tick
  <2>1. /\ ref'.st = ref.st /\ ref'.kept = ref.kept /\ ref'.timer = Less1(ref.timer) /\ ref'.left = Less1(ref.left)
        /\ ref'.late = IF ref.kept /\ Due THEN ref.late + 1 ELSE ref.late
    BY <1>0, <1>7 DEF Tick, Refresher
  <2>2. /\ check'.age = IF evaluated THEN Plus1(check.age, StaleAfter + 1) ELSE 0
    BY <1>0, <1>7 DEF Tick, Check
  <2>3. /\ gap' = (gap \/ (progress = "armed" /\ evaluated /\ check'.age > StaleAfter))
        /\ UNCHANGED <<evaluated, progress>> /\ (Due => ref.late < Lag) /\ ref.st # "admit" /\ OnTime
    BY <1>7, <2>1 DEF Tick
  <2>4. check'.age <= check.age + 1 /\ check'.age \in Nat
    BY <1>0, <2>2, PolicyNat DEF Plus1
  <2>5. ref'.late <= Lag /\ ref'.late \in Nat
    BY <1>0, <2>1, <2>3, PolicyNat DEF OnTime
  <2>6. ref.st = "wait" => check'.age + ref'.timer <= Interval + ref'.late
    <3>. SUFFICES ASSUME ref.st = "wait" PROVE check'.age + ref'.timer <= Interval + ref'.late
      OBVIOUS
    <3>1. check.age + ref.timer <= Interval + ref.late /\ (Due <=> ref.timer = 0)
      BY <2>3 DEF OnTime, Due
    <3>. QED BY <1>0, <2>1, <2>4, <3>1, PolicyNat DEF Less1
  <2>7. ref.st = "probing" => check'.age + ref'.left <= Interval + Lag + ProbeBudget + ref'.late
    <3>. SUFFICES ASSUME ref.st = "probing" PROVE check'.age + ref'.left <= Interval + Lag + ProbeBudget + ref'.late
      OBVIOUS
    <3>1. check.age + ref.left <= Interval + Lag + ProbeBudget + ref.late /\ (Due <=> ref.left = 0)
      BY <2>3 DEF OnTime, Due
    <3>. QED BY <1>0, <2>1, <2>4, <3>1, PolicyNat DEF Less1
  <2>8. ref.st \in {"wait", "probing"} => check'.age <= StaleAfter
    <3>1. ref'.timer \in Nat /\ ref'.left \in Nat
      BY <1>0, <2>1, PolicyNat DEF Less1
    <3>. QED BY <2>4, <2>5, <2>6, <2>7, <3>1, PolicyNat
  <2>9. ref.st \in {"first", "admit", "wait", "probing"} => gap' = FALSE
    BY <2>3, <2>4, <2>8, PolicyNat DEF OnTime, TypeOK
  <2>. QED BY <2>1, <2>3, <2>5, <2>6, <2>7, <2>9 DEF OnTime
<1>. QED BY <1>1, <1>2, <1>3, <1>4, <1>5, <1>6, <1>7 DEF Next, Observe

\* A refresher that is never late by more than its period keeps the verdict fresh and
\* the progress obligation met, for every interval, budget and threshold: stale_after
\* leaves room for a missed tick (health RefreshPolicy::stale_after).
THEOREM OnScheduleSafe == Lag <= Period => (Spec => []NoFalseLoss)
<1>. SUFFICES ASSUME Lag <= Period PROVE Spec => []NoFalseLoss
  OBVIOUS
<1>1. Init => KeepsTime
  <2>. SUFFICES ASSUME Init PROVE KeepsTime
    OBVIOUS
  <2>1. PICK kept \in BOOLEAN : ref = [kept |-> kept, st |-> "first", timer |-> 0, left |-> ProbeBudget, late |-> 0]
    BY DEF Init
  <2>2. ref \in Refresher
    BY <2>1, PolicyNat DEF Refresher
  <2>3. sinceOk \in 0..Evidence
    <3>1. Threshold * StaleAfter \in Nat
      BY PolicyNat, OneMore
    <3>. QED BY <3>1 DEF Init, Evidence
  <2>4. check \in Check /\ obs \in Observer /\ watch \in [Watchers -> Stream]
    <3>1. 0 \in Ages
      BY PolicyNat DEF Ages
    <3>. QED BY <3>1, PolicyNat DEF Init, Check, Observer, Stream
  <2>5. TypeOK
    BY <2>2, <2>3, <2>4 DEF Init, TypeOK
  <2>6. OnTime
    BY <2>1, PolicyNat DEF Init, OnTime
  <2>. QED BY <2>5, <2>6 DEF KeepsTime
<1>2. KeepsTime => NoFalseLoss
  BY OnTimeFresh DEF KeepsTime, NoFalseLoss, OnTime
<1>3. KeepsTime /\ [Next]_vars => KeepsTime'
  BY KeepsStep
<1>. QED BY <1>1, <1>2, <1>3, PTL DEF Spec
=============================================================================
