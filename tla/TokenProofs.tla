---------------------------- MODULE TokenProofs -----------------------------
(***************************************************************************)
(* What holds of the tokens the service sends and the ones it accepts, for *)
(* every number of calls, tokens and keys and for every budget and         *)
(* lifetime: the shared service token and the requests for it (TokenInv),  *)
(* the revocation of service credentials (SaInv), introspection verdicts   *)
(* and who may share them (InsInv), exchanged tokens (ExInv), and verdicts *)
(* on signed tokens while keys are refreshed (JwtInv).                     *)
(***************************************************************************)
EXTENDS ServiceToken, KeyRefresh, Introspection, ServiceAuth, TokenExchange, NaturalsInduction,
        WellFoundedInduction, TLAPS

Ids == Tokens \cup {NoToken}
CallStates == {"idle", "lock", "fetch", "use"}
CallRec == [st: CallStates, left: Nat, spent: Nat, short: BOOLEAN, tok: Token]
DriverStates == {"idle", "lock", "fetch", "stored", "ended", "closed"}
DriverRec == [st: DriverStates, cur: Ids, left: Nat, spent: Nat]
DueRec == [on: BOOLEAN, left: Nat]
ReqRec == [cur: Ids, left: Nat]

\* The cached token has a lifetime, its refresh is due no earlier than it asked for, and what is
\* left of it to reuse leaves the margin.
CacheSays ==
    /\ cached # NoneHeld => cached.timed /\ due.on /\ cached.ahead <= due.left
    /\ cached.ahead <= cached.reuse
    /\ IsReusable(cached) => cached.life >= cached.reuse + ReuseMargin

\* Holders of one allocation hold the same token.
CopiesSay ==
    /\ \A c \in Calls : PtrEq(call[c].tok, cached) => call[c].tok = cached
    /\ \A c, d \in Calls : c # d /\ PtrEq(call[c].tok, call[d].tok) => call[c].tok.timed

\* Whoever requests a token holds the lock; a caller does so only while there is none to reuse.
LockSays ==
    /\ \A c \in Calls : call[c].st = "fetch" <=> lock = c
    /\ driver.st \in {"fetch", "stored"} <=> lock = Driver
    /\ lock \in Calls => ~IsReusable(cached)

\* A refresh is asked for a token past its refresh time, and under the lock only an eviction comes
\* before it.
RefreshSays ==
    /\ request.cur # NoToken /\ request.cur = cached.id => cached.ahead = 0
    /\ driver.cur # NoToken /\ driver.cur = cached.id => cached.ahead = 0
    /\ driver.st \in {"lock", "fetch"} => driver.cur # NoToken
    /\ driver.st = "fetch" => cached = NoneHeld \/ cached.id = driver.cur

TokenInv == TypeOK /\ CacheSays /\ CopiesSay /\ LockSays /\ RefreshSays /\ quiet = failure

-----------------------------------------------------------------------------
(* Tokens *)

LEMMA Numbers ==
  /\ FetchTimeout \in Nat /\ FailureWindow \in Nat /\ ReuseMargin \in Nat /\ RefreshAhead \in Nat
  /\ RefreshRetry \in Nat /\ EvictionMinAge \in Nat
BY ServiceTokenAssumption

\* The types again, with the names this module gives them.
LEMMA TypesAre ==
  TypeOK <=> /\ cached \in Token /\ due \in DueRec /\ failure \in Nat /\ quiet \in Nat
             /\ pending \in BOOLEAN /\ lock \in Calls \cup {Driver, NoOne}
             /\ call \in [Calls -> CallRec] /\ request \in ReqRec /\ driver \in DriverRec
BY DEF TypeOK, DueRec, CallRec, CallStates, ReqRec, Ids, DriverRec, DriverStates

LEMMA LessIs ==
  ASSUME NEW a \in Nat, NEW b \in Nat
  PROVE  /\ Less(a, b) \in Nat /\ Less(a, b) <= a
         /\ a <= b => Less(a, b) = 0
         /\ a > b => Less(a, b) = a - b
BY DEF Less

LEMMA LowerIs ==
  ASSUME NEW a \in Nat, NEW b \in Nat
  PROVE  Lower(a, b) \in Nat /\ Lower(a, b) <= a /\ Lower(a, b) <= b
BY DEF Lower

LEMMA NoneIs == NoneHeld \in Token /\ NoneHeld.id = NoToken /\ NoneHeld.reuse = 0 /\ NoneHeld.ahead = 0
                  /\ ~NoneHeld.timed
BY DEF NoneHeld, Token

\* A lead is part of the window.
LEMMA LeadIs ==
  ASSUME NEW window \in Nat, NEW lead \in Leads(window)
  PROVE  lead \in Nat /\ lead <= window
<1> DEFINE most == Lower(RefreshAhead, window \div 4)
<1>1. window \div 4 \in Nat /\ window \div 4 <= window
  OBVIOUS
<1>2. most \in Nat /\ most <= window
  BY <1>1, Numbers, LowerIs
<1>3. PICK x \in Spread(most) : lead = most - x
  BY DEF Leads
<1> HIDE DEF most
<1>4. most \div 10 \in Nat /\ most \div 10 <= most
  BY <1>2
<1>5. x \in Nat /\ x <= most
  <2>1. x \in 0 .. (most \div 10)
    BY <1>3 DEF Spread
  <2> DEFINE tenth == most \div 10
  <2> HIDE DEF tenth
  <2>2. tenth \in Nat /\ tenth <= most /\ x \in 0 .. tenth
    BY <1>4, <2>1 DEF tenth
  <2> QED BY <1>2, <2>2
<1> QED BY <1>2, <1>3, <1>5

LEMMA RetryIs ==
  ASSUME NEW x \in Retries PROVE x \in Nat
<1>1. RefreshRetry \div 10 \in Nat
  BY Numbers
<1> QED BY <1>1, Numbers DEF Retries, Spread

LEMMA IntoTokenIs ==
  ASSUME NEW t \in Tokens, NEW lifetime \in Nat, NEW spent \in Nat, spent < lifetime,
         NEW v \in IntoToken(t, lifetime, spent)
  PROVE  /\ v \in Token /\ v.id = t /\ v.timed
         /\ v.ahead <= v.reuse
         /\ v.reuse > 0 => v.life >= v.reuse + ReuseMargin
<1> DEFINE window == Less(lifetime, ReuseMargin)
           age == Lower(spent, EvictionMinAge)
           life == lifetime - spent
           reuse == Less(window, spent)
<1>1. window \in Nat /\ age \in Nat /\ life \in Nat /\ reuse \in Nat
  BY Numbers, LessIs, LowerIs
<1>2. PICK lead \in Leads(window) :
        v = [id |-> t, age |-> age, life |-> life, reuse |-> reuse, ahead |-> Less(window - lead, spent),
             timed |-> TRUE]
  BY DEF IntoToken
<1> DEFINE ahead == Less(window - lead, spent)
<1>3. lead \in Nat /\ lead <= window
  BY <1>1, LeadIs
<1>4. ahead \in Nat /\ ahead <= reuse
  BY <1>1, <1>3 DEF Less
<1>5. reuse > 0 => life >= reuse + ReuseMargin
  BY Numbers DEF Less
<1> HIDE DEF window, age, life, reuse, ahead
<1>6. t \in Tokens \cup {NoToken}
  OBVIOUS
<1>7. v = [id |-> t, age |-> age, life |-> life, reuse |-> reuse, ahead |-> ahead, timed |-> TRUE]
  BY <1>2 DEF ahead
<1>8. v \in Token
  BY <1>1, <1>4, <1>6, <1>7 DEF Token
<1> QED BY <1>4, <1>5, <1>7, <1>8

\* What a provider's answer becomes: its own allocation, and reusable only with a lifetime.
LEMMA AnswersAre ==
  ASSUME NEW t \in Tokens, NEW spent \in Nat, NEW v \in Answers(t, spent)
  PROVE  /\ v \in Token /\ v.id = t
         /\ v.ahead <= v.reuse
         /\ v.reuse > 0 => v.timed /\ v.life >= v.reuse + ReuseMargin
<1>1. CASE v \in UNION {IntoToken(t, l, spent) : l \in {m \in Lifetimes : spent < m}}
  <2>1. PICK l \in Lifetimes : spent < l /\ v \in IntoToken(t, l, spent)
    BY <1>1
  <2>2. l \in Nat
    BY ServiceTokenAssumption
  <2> QED BY <2>1, <2>2, IntoTokenIs
<1>2. CASE v = RequestOnly(t, spent)
  <2> DEFINE age == Lower(spent, EvictionMinAge)
  <2>1. age \in Nat /\ t \in Tokens \cup {NoToken}
    BY Numbers, LowerIs
  <2>2. v = [NoneHeld EXCEPT !.id = t, !.age = age]
    BY <1>2 DEF RequestOnly
  <2> HIDE DEF age
  <2>3. v \in Token
    BY <2>1, <2>2, NoneIs DEF Token
  <2>4. v.id = t /\ v.reuse = 0 /\ v.ahead = 0
    BY <2>2 DEF NoneHeld
  <2> QED BY <2>3, <2>4
<1>3. \/ v \in UNION {IntoToken(t, l, spent) : l \in {m \in Lifetimes : spent < m}}
      \/ v = RequestOnly(t, spent)
  BY DEF Answers
<1> QED BY <1>1, <1>2, <1>3

LEMMA FreshIs ==
  ASSUME NEW c, NEW t \in Fresh(c)
  PROVE  t \in Tokens /\ t \notin InUse(c)
BY DEF Fresh

LEMMA AgedIs ==
  ASSUME NEW t \in Token
  PROVE  /\ Aged(t) \in Token
         /\ Aged(t).id = t.id /\ Aged(t).timed = t.timed
         /\ Aged(t).life = Less(t.life, 1) /\ Aged(t).reuse = Less(t.reuse, 1)
         /\ Aged(t).ahead = Less(t.ahead, 1)
         /\ t = NoneHeld => Aged(t) = NoneHeld
<1>1. CASE t = NoneHeld
  BY <1>1 DEF Aged, NoneHeld, Less
<1>2. CASE t # NoneHeld
  <2> DEFINE age == Lower(t.age + 1, EvictionMinAge)
             life == Less(t.life, 1)
             reuse == Less(t.reuse, 1)
             ahead == Less(t.ahead, 1)
  <2>1. t.age \in Nat /\ t.life \in Nat /\ t.reuse \in Nat /\ t.ahead \in Nat
    BY DEF Token
  <2>2. age \in Nat /\ life \in Nat /\ reuse \in Nat /\ ahead \in Nat
    BY <2>1, Numbers DEF Less, Lower
  <2>3. Aged(t) = [t EXCEPT !.age = age, !.life = life, !.reuse = reuse, !.ahead = ahead]
    BY <1>2 DEF Aged
  <2> HIDE DEF age, life, reuse, ahead
  <2>4. Aged(t) \in Token
    BY <2>2, <2>3 DEF Token
  <2>5. /\ Aged(t).id = t.id /\ Aged(t).timed = t.timed /\ Aged(t).life = life
        /\ Aged(t).reuse = reuse /\ Aged(t).ahead = ahead
    BY <2>3 DEF Token
  <2> QED BY <1>2, <2>4, <2>5 DEF life, reuse, ahead
<1> QED BY <1>1, <1>2

-----------------------------------------------------------------------------
(* The parts of the invariant, kept by what several steps have in common *)

LEMMA IdleIs == Idle \in CallRec /\ Idle.st = "idle" /\ Idle.tok = NoneHeld
BY NoneIs DEF Idle, CallRec, CallStates

LEMMA Empties == /\ NotDue \in DueRec /\ NoRequest \in ReqRec /\ NoRequest.cur = NoToken
                 /\ Free \in DriverRec /\ Free.st = "idle" /\ Free.cur = NoToken
BY DEF NotDue, DueRec, NoRequest, ReqRec, Free, DriverRec, DriverStates, Ids

LEMMA CallKnown ==
  ASSUME TokenInv, NEW c \in Calls
  PROVE  /\ call[c] \in CallRec /\ call[c].st \in CallStates /\ call[c].left \in Nat
         /\ call[c].spent \in Nat /\ call[c].short \in BOOLEAN /\ call[c].tok \in Token
BY TypesAre DEF TokenInv, CallRec

LEMMA CacheKnown ==
  ASSUME TokenInv
  PROVE  /\ cached \in Token /\ cached.id \in Ids /\ cached.age \in Nat /\ cached.life \in Nat
         /\ cached.reuse \in Nat /\ cached.ahead \in Nat /\ cached.timed \in BOOLEAN
         /\ due \in DueRec /\ due.on \in BOOLEAN /\ due.left \in Nat
BY TypesAre DEF TokenInv, Token, Ids, DueRec

LEMMA DriverKnown ==
  ASSUME TokenInv
  PROVE  /\ driver \in DriverRec /\ driver.st \in DriverStates /\ driver.cur \in Ids
         /\ driver.left \in Nat /\ driver.spent \in Nat
         /\ request \in ReqRec /\ request.cur \in Ids /\ request.left \in Nat
BY TypesAre DEF TokenInv, DriverRec, ReqRec

\* One call moves.
LEMMA OneMoves ==
  ASSUME TokenInv, NEW c \in Calls, NEW y \in CallRec, call' = [call EXCEPT ![c] = y]
  PROVE  /\ call' \in [Calls -> CallRec]
         /\ call'[c] = y
         /\ \A d \in Calls : d # c => call'[d] = call[d]
<1>1. call \in [Calls -> CallRec]
  BY TypesAre DEF TokenInv
<1> QED BY <1>1

\* The cached token is the one before, or gone.
LEMMA CacheRests ==
  ASSUME TokenInv, \/ cached' = cached /\ due' = due
                   \/ cached' = NoneHeld /\ due' = NotDue
  PROVE  cached' \in Token /\ due' \in DueRec /\ CacheSays'
<1>1. CASE cached' = cached /\ due' = due
  BY <1>1, CacheKnown DEF TokenInv, CacheSays, IsReusable
<1>2. CASE cached' = NoneHeld /\ due' = NotDue
  BY <1>2, NoneIs, Empties DEF CacheSays, IsReusable
<1> QED BY <1>1, <1>2

\* Nobody takes a token.
LEMMA CopiesRest ==
  ASSUME TokenInv, cached' = cached \/ cached' = NoneHeld,
         \A d \in Calls : call'[d].tok = call[d].tok \/ call'[d].tok = NoneHeld
  PROVE  CopiesSay'
<1>1. ASSUME NEW d \in Calls, PtrEq(call'[d].tok, cached') PROVE call'[d].tok = cached'
  <2>1. cached' = cached /\ call'[d].tok = call[d].tok
    BY <1>1, NoneIs DEF PtrEq
  <2> QED BY <1>1, <2>1 DEF TokenInv, CopiesSay
<1>2. ASSUME NEW c \in Calls, NEW d \in Calls, c # d, PtrEq(call'[c].tok, call'[d].tok)
      PROVE  call'[c].tok.timed
  <2>1. call'[c].tok = call[c].tok /\ call'[d].tok = call[d].tok
    BY <1>2, NoneIs DEF PtrEq
  <2> QED BY <1>2, <2>1 DEF TokenInv, CopiesSay
<1> QED BY <1>1, <1>2 DEF CopiesSay, PtrEq

\* A call takes the cached token.
LEMMA CopiesTake ==
  ASSUME TokenInv, NEW c \in Calls, cached' = cached, cached.timed, call'[c].tok = cached,
         \A d \in Calls : d # c => call'[d].tok = call[d].tok
  PROVE  CopiesSay'
<1>1. ASSUME NEW d \in Calls, PtrEq(call'[d].tok, cached') PROVE call'[d].tok = cached'
  BY <1>1 DEF TokenInv, CopiesSay
<1>2. ASSUME NEW a \in Calls, NEW d \in Calls, a # d, PtrEq(call'[a].tok, call'[d].tok)
      PROVE  call'[a].tok.timed
  <2>1. CASE a = c
    BY <2>1
  <2>2. CASE d = c
    <3>1. call'[a].tok = call[a].tok /\ call'[d].tok = cached
      BY <1>2, <2>2
    <3> QED BY <1>2, <3>1 DEF TokenInv, CopiesSay
  <2>3. CASE a # c /\ d # c
    BY <1>2, <2>3 DEF TokenInv, CopiesSay
  <2> QED BY <2>1, <2>2, <2>3
<1> QED BY <1>1, <1>2 DEF CopiesSay, PtrEq

\* A call goes, and with it its hold on the lock.
LEMMA CallGoes ==
  ASSUME TokenInv, NEW c \in Calls, call' = [call EXCEPT ![c] = Idle],
         lock' = IF lock = c THEN NoOne ELSE lock,
         \/ cached' = cached /\ due' = due
         \/ cached' = NoneHeld /\ due' = NotDue,
         quiet' = failure', failure' \in Nat,
         UNCHANGED <<pending, request, driver>>
  PROVE  TokenInv'
<1>0. /\ call' \in [Calls -> CallRec] /\ call'[c] = Idle
      /\ \A d \in Calls : d # c => call'[d] = call[d]
  BY IdleIs, OneMoves
<1>1. cached' \in Token /\ due' \in DueRec /\ CacheSays'
  BY CacheRests
<1>2. CopiesSay'
  <2>1. \A d \in Calls : call'[d].tok = call[d].tok \/ call'[d].tok = NoneHeld
    BY <1>0, IdleIs
  <2> QED BY <2>1, CopiesRest
<1>3. TypeOK'
  <2>1. /\ pending' \in BOOLEAN /\ request' \in ReqRec /\ driver' \in DriverRec
        /\ lock \in Calls \cup {Driver, NoOne}
    BY TypesAre DEF TokenInv
  <2>2. lock' \in Calls \cup {Driver, NoOne}
    BY <2>1
  <2> QED BY <1>0, <1>1, <2>1, <2>2, TypesAre DEF TypeOK, DueRec, CallRec, CallStates, ReqRec, Ids,
             DriverRec, DriverStates
<1>4. LockSays'
  <2>0. Driver \notin Calls /\ NoOne \notin Calls /\ NoOne # Driver
    BY ServiceTokenAssumption
  <2>1. ASSUME NEW d \in Calls PROVE call'[d].st = "fetch" <=> lock' = d
    <3>1. call[d].st = "fetch" <=> lock = d
      BY DEF TokenInv, LockSays
    <3>2. CASE d = c
      BY <1>0, <2>0, <3>1, <3>2, IdleIs
    <3>3. CASE d # c
      BY <1>0, <2>0, <3>1, <3>3
    <3> QED BY <3>2, <3>3
  <2>2. driver'.st \in {"fetch", "stored"} <=> lock' = Driver
    BY <2>0 DEF TokenInv, LockSays
  <2>3. lock' \in Calls => ~IsReusable(cached')
    BY <2>0, NoneIs DEF TokenInv, LockSays, IsReusable
  <2> QED BY <2>1, <2>2, <2>3 DEF LockSays, IsReusable
<1>5. RefreshSays'
  BY NoneIs DEF TokenInv, RefreshSays
<1> QED BY <1>1, <1>2, <1>3, <1>4, <1>5 DEF TokenInv

LEMMA TypedNext ==
  ASSUME cached' \in Token, due' \in DueRec, failure' \in Nat, quiet' \in Nat, pending' \in BOOLEAN,
         lock' \in Calls \cup {Driver, NoOne}, call' \in [Calls -> CallRec], request' \in ReqRec,
         driver' \in DriverRec
  PROVE  TypeOK'
BY DEF TypeOK, DueRec, CallRec, CallStates, ReqRec, Ids, DriverRec, DriverStates

-----------------------------------------------------------------------------
(* Callers *)

\* A hit moves the refresh time only when it has passed, and asks for a token past it.
LEMMA ScheduleKeeps ==
  ASSUME TokenInv, Schedule, cached' = cached, driver' = driver
  PROVE  /\ due' \in DueRec /\ pending' \in BOOLEAN /\ request' \in ReqRec
         /\ CacheSays' /\ RefreshSays'
<1> DEFINE wanted == due.on /\ due.left = 0 /\ ~pending /\ failure = 0
           sent == wanted /\ ~Closed /\ request.cur = NoToken
<1>0. PICK x \in Retries :
        /\ due' = IF wanted THEN [on |-> TRUE, left |-> x] ELSE due
        /\ pending' = (pending \/ sent)
        /\ request' = IF sent THEN [cur |-> cached.id, left |-> FetchTimeout] ELSE request
  BY DEF Schedule
<1>1. x \in Nat /\ FetchTimeout \in Nat
  BY RetryIs, Numbers
<1>2. /\ cached.id \in Ids /\ cached.ahead \in Nat /\ due \in DueRec /\ due.left \in Nat
      /\ request \in ReqRec
  BY CacheKnown, DriverKnown
<1>3. wanted => cached.ahead = 0
  <2>1. CASE cached = NoneHeld
    BY <2>1, NoneIs
  <2>2. CASE cached # NoneHeld
    BY <1>2, <2>2 DEF TokenInv, CacheSays
  <2> QED BY <2>1, <2>2
<1>4. sent => wanted
  OBVIOUS
<1>t. pending' \in BOOLEAN
  BY <1>0, TypesAre DEF TokenInv
<1> HIDE DEF wanted, sent
<1>5. due' \in DueRec /\ CacheSays'
  <2>1. CASE wanted
    <3>1. due' = [on |-> TRUE, left |-> x]
      BY <1>0, <2>1
    <3>2. due' \in DueRec /\ due'.on /\ due'.left = x
      BY <1>1, <3>1 DEF DueRec
    <3>3. CacheSays'
      BY <1>1, <1>3, <2>1, <3>2 DEF TokenInv, CacheSays, IsReusable
    <3> QED BY <3>2, <3>3
  <2>2. CASE ~wanted
    BY <1>0, <1>2, <2>2 DEF TokenInv, CacheSays, IsReusable
  <2> QED BY <2>1, <2>2
<1>7. request' \in ReqRec /\ (request'.cur = request.cur \/ (sent /\ request'.cur = cached.id))
  <2>1. CASE sent
    BY <1>0, <1>1, <1>2, <2>1 DEF ReqRec
  <2>2. CASE ~sent
    BY <1>0, <1>2, <2>2
  <2> QED BY <2>1, <2>2
<1>8. RefreshSays'
  BY <1>3, <1>4, <1>7 DEF TokenInv, RefreshSays
<1> QED BY <1>5, <1>7, <1>8, <1>t

\* A call that needs no lock takes the cached token.
LEMMA HitKeeps ==
  ASSUME TokenInv, NEW c \in Calls, NEW left \in Nat, call[c].st # "fetch", IsReusable(cached), Schedule,
         call' = [call EXCEPT ![c] = [call[c] EXCEPT !.st = "use", !.tok = cached, !.left = left]],
         UNCHANGED <<cached, failure, lock, driver, quiet>>
  PROVE  TokenInv'
<1> DEFINE st == "use"
           y == [call[c] EXCEPT !.st = st, !.tok = cached, !.left = left]
<1>1. st \in CallStates /\ cached \in Token /\ call[c] \in CallRec
  BY CallKnown, CacheKnown DEF CallStates
<1>s. st # "fetch"
  OBVIOUS
<1>2. call' = [call EXCEPT ![c] = y]
  OBVIOUS
<1> HIDE DEF st
<1>3. y \in CallRec
  BY <1>1 DEF CallRec
<1>4. y.st = st /\ y.tok = cached
  BY <1>1 DEF CallRec
<1> HIDE DEF y
<1>5. /\ call' \in [Calls -> CallRec] /\ call'[c] = y /\ \A d \in Calls : d # c => call'[d] = call[d]
  BY <1>2, <1>3, OneMoves
<1>6. /\ due' \in DueRec /\ pending' \in BOOLEAN /\ request' \in ReqRec /\ CacheSays' /\ RefreshSays'
  BY ScheduleKeeps
<1>7. CopiesSay'
  <2>1. cached # NoneHeld
    BY NoneIs DEF IsReusable
  <2>2. cached.timed
    BY <2>1 DEF TokenInv, CacheSays
  <2> QED BY <1>4, <1>5, <2>2, CopiesTake
<1>8. LockSays'
  <2>1. ASSUME NEW d \in Calls PROVE call'[d].st = "fetch" <=> lock' = d
    <3>1. call[d].st = "fetch" <=> lock = d
      BY DEF TokenInv, LockSays
    <3> QED BY <1>4, <1>5, <1>s, <3>1
  <2> QED BY <2>1 DEF TokenInv, LockSays, IsReusable
<1>9. TypeOK'
  BY <1>5, <1>6, TypesAre, TypedNext DEF TokenInv
<1> QED BY <1>6, <1>7, <1>8, <1>9 DEF TokenInv

\* A call goes to the lock, or gets it and asks the provider.
LEMMA AskKeeps ==
  ASSUME TokenInv, NEW c \in Calls, NEW y \in CallRec, call[c].st # "fetch",
         call' = [call EXCEPT ![c] = y], y.tok = call[c].tok \/ y.tok = NoneHeld,
         \/ y.st # "fetch" /\ lock' = lock
         \/ y.st = "fetch" /\ lock = NoOne /\ lock' = c /\ ~IsReusable(cached),
         UNCHANGED <<cached, due, failure, pending, request, driver, quiet>>
  PROVE  TokenInv'
<1>0. Driver \notin Calls /\ NoOne \notin Calls /\ NoOne # Driver
  BY ServiceTokenAssumption
<1>1. /\ call' \in [Calls -> CallRec] /\ call'[c] = y /\ \A d \in Calls : d # c => call'[d] = call[d]
  BY OneMoves
<1>2. cached' \in Token /\ due' \in DueRec /\ CacheSays'
  BY CacheRests
<1>3. CopiesSay'
  BY <1>1, CopiesRest
<1>4. LockSays'
  <2>1. ASSUME NEW d \in Calls PROVE call'[d].st = "fetch" <=> lock' = d
    <3>1. (call[d].st = "fetch" <=> lock = d) /\ (call[c].st = "fetch" <=> lock = c)
      BY DEF TokenInv, LockSays
    <3> QED BY <1>0, <1>1, <3>1
  <2> QED BY <1>0, <2>1 DEF TokenInv, LockSays, IsReusable
<1>5. RefreshSays'
  BY DEF TokenInv, RefreshSays
<1>6. TypeOK'
  BY <1>1, <1>2, TypesAre, TypedNext DEF TokenInv
<1> QED BY <1>2, <1>3, <1>4, <1>5, <1>6 DEF TokenInv

LEMMA StartKeeps ==
  ASSUME TokenInv, NEW c \in Calls, NEW budget \in Budgets, StartCall(c, budget)
  PROVE  TokenInv'
<1>0. budget \in Nat /\ call[c].st # "fetch" /\ UNCHANGED <<cached, failure, lock, driver, quiet>>
  BY ServiceTokenAssumption DEF StartCall
<1>1. CASE IsReusable(cached)
  <2>1. call' = [Uses(c, cached) EXCEPT ![c].left = budget] /\ Schedule
    BY <1>1 DEF StartCall
  <2>2. call' = [call EXCEPT ![c] = [call[c] EXCEPT !.st = "use", !.tok = cached, !.left = budget]]
    <3>1. call \in [Calls -> CallRec] /\ call[c] \in CallRec
      BY CallKnown, TypesAre DEF TokenInv
    <3> DEFINE a == [call[c] EXCEPT !.st = "use", !.tok = cached]
    <3>2. Uses(c, cached) = [call EXCEPT ![c] = a]
      BY <3>1 DEF Uses
    <3>3. a.left = call[c].left /\ [a EXCEPT !.left = budget] = [call[c] EXCEPT !.st = "use", !.tok = cached, !.left = budget]
      BY <3>1 DEF CallRec
    <3> HIDE DEF a
    <3>4. call' = [call EXCEPT ![c] = [a EXCEPT !.left = budget]]
      BY <2>1, <3>1, <3>2
    <3> QED BY <3>3, <3>4
  <2> QED BY <1>0, <1>1, <2>1, <2>2, HitKeeps
<1>2. CASE ~IsReusable(cached)
  <2> DEFINE st == "lock"
             y == [Idle EXCEPT !.st = st, !.left = budget]
  <2>1. call' = [call EXCEPT ![c] = y] /\ UNCHANGED <<due, pending, request>>
    BY <1>2 DEF StartCall
  <2>2. st \in CallStates /\ st # "fetch"
    BY DEF CallStates
  <2> HIDE DEF st
  <2>3. y \in CallRec
    BY <1>0, <2>2, IdleIs DEF CallRec
  <2>4. y.st = st /\ y.tok = NoneHeld
    BY DEF Idle
  <2> HIDE DEF y
  <2> QED BY <1>0, <2>1, <2>2, <2>3, <2>4, AskKeeps
<1> QED BY <1>1, <1>2

LEMMA LockedKeeps ==
  ASSUME TokenInv, NEW c \in Calls, Locked(c)
  PROVE  TokenInv'
<1>0. /\ call[c].st = "lock" /\ lock = NoOne /\ UNCHANGED <<cached, failure, driver, quiet>>
      /\ call[c] \in CallRec /\ call[c].left \in Nat /\ NoOne \notin Calls
  BY CallKnown, ServiceTokenAssumption DEF Locked
<1>1. CASE IsReusable(cached) /\ call' = Uses(c, cached) /\ Schedule /\ UNCHANGED lock
  <2> DEFINE left == call[c].left
  <2>1. call' = [call EXCEPT ![c] = [call[c] EXCEPT !.st = "use", !.tok = cached, !.left = left]]
    <3>1. call' = [call EXCEPT ![c] = [call[c] EXCEPT !.st = "use", !.tok = cached]]
      BY <1>1, TypesAre DEF Uses, TokenInv
    <3>2. [call[c] EXCEPT !.st = "use", !.tok = cached] = [call[c] EXCEPT !.st = "use", !.tok = cached, !.left = left]
      BY <1>0 DEF CallRec
    <3> QED BY <3>1, <3>2
  <2> QED BY <1>0, <1>1, <2>1, HitKeeps
<1>2. CASE call' = [call EXCEPT ![c] = Idle] /\ UNCHANGED <<lock, due, pending, request>>
  <2>1. lock' = IF lock = c THEN NoOne ELSE lock
    BY <1>0, <1>2
  <2>2. quiet' = failure' /\ failure' \in Nat
    BY <1>0, TypesAre DEF TokenInv
  <2> QED BY <1>0, <1>2, <2>1, <2>2, CallGoes
<1>3. CASE /\ ~IsReusable(cached) /\ lock' = c /\ UNCHANGED <<due, pending, request>>
           /\ call' = [call EXCEPT ![c].st = "fetch", ![c].short = call[c].left < FetchTimeout]
  <2> DEFINE st == "fetch"
             short == call[c].left < FetchTimeout
             y == [call[c] EXCEPT !.st = st, !.short = short]
  <2>1. call' = [call EXCEPT ![c] = y]
    BY <1>3, TypesAre DEF TokenInv
  <2>2. st \in CallStates /\ st = "fetch" /\ short \in BOOLEAN
    BY DEF CallStates
  <2> HIDE DEF st, short
  <2>3. y \in CallRec
    BY <1>0, <2>2 DEF CallRec
  <2>4. y.st = st /\ y.tok = call[c].tok
    BY <1>0 DEF CallRec
  <2> HIDE DEF y
  <2> QED BY <1>0, <1>3, <2>1, <2>2, <2>3, <2>4, AskKeeps
<1> QED BY <1>1, <1>2, <1>3 DEF Locked

\* The steps that end a call without a token.
LEMMA EndsKeep ==
  ASSUME TokenInv, NEW c \in Calls,
         \/ LockTimeout(c) \/ FetchTimesOut(c) \/ (\E b \in BOOLEAN : FetchFails(c, b))
         \/ Unauthorized(c) \/ EndCall(c)
  PROVE  TokenInv'
<1>0. /\ call[c].st = "fetch" <=> lock = c
      /\ failure \in Nat /\ quiet = failure /\ FailureWindow \in Nat
  BY TypesAre, Numbers DEF TokenInv, LockSays
<1>1. call' = [call EXCEPT ![c] = Idle] /\ UNCHANGED <<pending, request, driver>>
  BY DEF LockTimeout, FetchTimesOut, FetchFails, Unauthorized, EndCall
<1>2. lock' = IF lock = c THEN NoOne ELSE lock
  BY <1>0 DEF LockTimeout, FetchTimesOut, FetchFails, Unauthorized, EndCall
<1>3. \/ cached' = cached /\ due' = due
      \/ cached' = NoneHeld /\ due' = NotDue
  BY DEF LockTimeout, FetchTimesOut, FetchFails, Unauthorized, EndCall
<1>4. quiet' = failure' /\ failure' \in Nat
  BY <1>0 DEF LockTimeout, FetchTimesOut, FetchFails, Unauthorized, EndCall, Remember
<1> QED BY <1>1, <1>2, <1>3, <1>4, CallGoes

\* An answer is stored if it can be reused, under a name nothing refers to.
LEMMA StoreKeeps ==
  ASSUME TokenInv, NEW t \in Tokens, NEW spent \in Nat, NEW value \in Answers(t, spent), Store(value)
  PROVE  /\ failure' \in Nat /\ quiet' \in Nat /\ quiet' = failure'
         /\ cached' \in Token /\ due' \in DueRec /\ CacheSays'
         /\ value \in Token /\ value.id = t
         /\ \/ cached' = cached /\ due' = due
            \/ cached' = value /\ value.timed
<1>1. /\ value \in Token /\ value.id = t /\ value.ahead <= value.reuse
      /\ value.reuse > 0 => value.timed /\ value.life >= value.reuse + ReuseMargin
  BY AnswersAre
<1>2. value.ahead \in Nat /\ value.reuse \in Nat
  BY <1>1 DEF Token
<1>3. failure' \in Nat /\ quiet' \in Nat /\ quiet' = failure'
  BY DEF Store
<1>4. CASE IsReusable(value)
  <2>1. cached' = value /\ due' = [on |-> TRUE, left |-> value.ahead] /\ value.reuse > 0
    BY <1>4 DEF Store, IsReusable
  <2>2. due' \in DueRec /\ due'.on /\ due'.left = value.ahead
    BY <1>2, <2>1 DEF DueRec
  <2>3. CacheSays'
    BY <1>1, <1>2, <2>1, <2>2 DEF CacheSays, IsReusable
  <2> QED BY <1>1, <1>3, <2>1, <2>2, <2>3
<1>5. CASE ~IsReusable(value)
  <2>1. cached' = cached /\ due' = due
    BY <1>5 DEF Store
  <2> QED BY <1>1, <1>3, <2>1, CacheRests
<1> QED BY <1>4, <1>5

LEMMA FetchedKeeps ==
  ASSUME TokenInv, NEW c \in Calls, Fetched(c)
  PROVE  TokenInv'
<1>0. /\ call[c].st = "fetch" /\ lock' = NoOne /\ UNCHANGED <<pending, request, driver>>
      /\ call[c] \in CallRec /\ call[c].spent \in Nat
      /\ Driver \notin Calls /\ NoOne \notin Calls /\ NoOne # Driver
  BY CallKnown, ServiceTokenAssumption DEF Fetched
<1>t. PICK t \in Fresh(c) : \E value \in Answers(t, call[c].spent) : Store(value) /\ call' = Uses(c, value)
  BY DEF Fetched
<1>1. PICK value \in Answers(t, call[c].spent) : Store(value) /\ call' = Uses(c, value)
  BY <1>t
<1>2. t \in Tokens /\ t \notin InUse(c) /\ t # NoToken
  BY FreshIs, ServiceTokenAssumption
<1>3. /\ failure' \in Nat /\ quiet' \in Nat /\ quiet' = failure'
      /\ cached' \in Token /\ due' \in DueRec /\ CacheSays'
      /\ value \in Token /\ value.id = t
      /\ \/ cached' = cached /\ due' = due
         \/ cached' = value /\ value.timed
  BY <1>0, <1>1, <1>2, StoreKeeps
<1> DEFINE st == "use"
           y == [call[c] EXCEPT !.st = st, !.tok = value]
<1>4. call' = [call EXCEPT ![c] = y]
  BY <1>1, TypesAre DEF TokenInv, Uses
<1>5. st \in CallStates /\ st # "fetch"
  BY DEF CallStates
<1> HIDE DEF st
<1>6. y \in CallRec
  BY <1>0, <1>3, <1>5 DEF CallRec
<1>7. y.st = st /\ y.tok = value
  BY <1>0 DEF CallRec
<1> HIDE DEF y
<1>8. /\ call' \in [Calls -> CallRec] /\ call'[c] = y /\ \A d \in Calls : d # c => call'[d] = call[d]
  BY <1>4, <1>6, OneMoves
<1>9. /\ cached.id # t /\ request.cur # t /\ driver.cur # t
      /\ \A d \in Calls : d # c => call[d].tok.id # t
  BY <1>2 DEF InUse
<1>10. CopiesSay'
  <2>1. ASSUME NEW d \in Calls, PtrEq(call'[d].tok, cached') PROVE call'[d].tok = cached'
    <3>1. CASE d = c
      BY <1>3, <1>7, <1>8, <1>9, <2>1, <3>1 DEF PtrEq
    <3>2. CASE d # c
      <4>1. call'[d].tok = call[d].tok /\ call[d].tok.id # t
        BY <1>8, <1>9, <3>2
      <4>2. cached' = cached
        BY <1>3, <2>1, <4>1 DEF PtrEq
      <4> QED BY <2>1, <4>1, <4>2 DEF TokenInv, CopiesSay
    <3> QED BY <3>1, <3>2
  <2>2. ASSUME NEW a \in Calls, NEW d \in Calls, a # d, PtrEq(call'[a].tok, call'[d].tok)
        PROVE  call'[a].tok.timed
    <3>1. a # c /\ d # c
      BY <1>3, <1>7, <1>8, <1>9, <2>2 DEF PtrEq
    <3>2. call'[a].tok = call[a].tok /\ call'[d].tok = call[d].tok
      BY <1>8, <3>1
    <3> QED BY <2>2, <3>2 DEF TokenInv, CopiesSay
  <2> QED BY <2>1, <2>2 DEF CopiesSay, PtrEq
<1>11. LockSays'
  <2>0. lock = c
    BY <1>0 DEF TokenInv, LockSays
  <2>1. ASSUME NEW d \in Calls PROVE call'[d].st = "fetch" <=> lock' = d
    <3>1. call[d].st = "fetch" <=> lock = d
      BY DEF TokenInv, LockSays
    <3> QED BY <1>0, <1>5, <1>7, <1>8, <2>0, <3>1
  <2>2. driver'.st \in {"fetch", "stored"} <=> lock' = Driver
    BY <1>0, <2>0 DEF TokenInv, LockSays
  <2> QED BY <1>0, <2>1, <2>2 DEF LockSays
<1>12. RefreshSays'
  <2>1. driver.st # "fetch"
    BY <1>0 DEF TokenInv, LockSays
  <2> QED BY <1>0, <1>3, <1>9, <2>1 DEF TokenInv, RefreshSays
<1>13. TypeOK'
  <2>1. lock' \in Calls \cup {Driver, NoOne}
    BY <1>0
  <2> QED BY <1>0, <1>3, <1>8, <2>1, TypesAre, TypedNext DEF TokenInv
<1> QED BY <1>3, <1>10, <1>11, <1>12, <1>13 DEF TokenInv

-----------------------------------------------------------------------------
(* The driver, the owner's end and the clock *)

\* The driver moves on and the callers do not.
LEMMA DriverMoves ==
  ASSUME TokenInv, UNCHANGED <<cached, call>>, driver' \in DriverRec, due' \in DueRec, request' \in ReqRec,
         pending' \in BOOLEAN, failure' \in Nat, quiet' = failure', CacheSays',
         request'.cur \in {request.cur, NoToken}, driver'.cur \in {driver.cur, request.cur, NoToken},
         driver'.st \in {"lock", "fetch"} => driver'.cur # NoToken,
         driver'.st = "fetch" => cached.id = driver'.cur,
         \/ lock' = lock /\ (driver'.st \in {"fetch", "stored"} <=> driver.st \in {"fetch", "stored"})
         \/ lock = NoOne /\ lock' = Driver /\ driver'.st = "fetch"
         \/ lock = Driver /\ lock' = NoOne /\ driver'.st \notin {"fetch", "stored"}
  PROVE  TokenInv'
<1>0. Driver \notin Calls /\ NoOne \notin Calls /\ NoOne # Driver
  BY ServiceTokenAssumption
<1>1. CopiesSay'
  BY CopiesRest
<1>2. LockSays'
  BY <1>0 DEF TokenInv, LockSays, IsReusable
<1>3. RefreshSays'
  BY DEF TokenInv, RefreshSays
<1>4. TypeOK'
  <2>1. lock' \in Calls \cup {Driver, NoOne} /\ quiet' \in Nat
    BY TypesAre DEF TokenInv
  <2> QED BY <2>1, TypesAre, TypedNext DEF TokenInv
<1> QED BY <1>1, <1>2, <1>3, <1>4 DEF TokenInv

LEMMA DriverUpdates ==
  ASSUME NEW x \in DriverRec, NEW st \in DriverStates
  PROVE  /\ [x EXCEPT !.st = st] \in DriverRec
         /\ [x EXCEPT !.st = st].st = st /\ [x EXCEPT !.st = st].cur = x.cur
BY DEF DriverRec

LEMMA TakeKeeps ==
  ASSUME TokenInv, Take
  PROVE  TokenInv'
<1> DEFINE st == "lock"
           cur == request.cur
           left == request.left
           y == [Free EXCEPT !.st = st, !.cur = cur, !.left = left]
<1>1. /\ driver.st = "idle" /\ request.cur # NoToken /\ driver' = y /\ request' = NoRequest
      /\ UNCHANGED <<cached, due, failure, pending, lock, call, quiet>>
  BY DEF Take
<1>2. st \in DriverStates /\ cur \in Ids /\ left \in Nat /\ st = "lock" /\ cur # NoToken
  BY <1>1, DriverKnown DEF DriverStates
<1> HIDE DEF st, left
<1>3. y \in DriverRec
  BY <1>2, Empties DEF DriverRec
<1>4. y.st = st /\ y.cur = cur
  BY DEF Free
<1> HIDE DEF y
<1>5. due' \in DueRec /\ CacheSays'
  BY <1>1, CacheRests
<1> QED BY <1>1, <1>2, <1>3, <1>4, <1>5, Empties, TypesAre, DriverMoves DEF TokenInv

\* The steps of the driver that change the cache no more.
LEMMA DriverKeeps ==
  ASSUME TokenInv, \/ Begin \/ DriverLockTimeout \/ Spaced \/ Ended
                   \/ \E b \in BOOLEAN : RefreshFails(b)
  PROVE  TokenInv'
<1>0. /\ driver \in DriverRec /\ driver.st \in DriverStates /\ driver.cur \in Ids
      /\ request \in ReqRec /\ pending \in BOOLEAN /\ failure \in Nat /\ quiet = failure
      /\ due \in DueRec /\ due.left \in Nat /\ FailureWindow \in Nat
      /\ driver.st \in {"fetch", "stored"} <=> lock = Driver
  BY DriverKnown, CacheKnown, TypesAre, Numbers DEF TokenInv, LockSays
<1>e. "ended" \in DriverStates /\ "fetch" \in DriverStates
  BY DEF DriverStates
<1>u. UNCHANGED <<cached, call, request>>
  BY DEF Begin, DriverLockTimeout, Spaced, Ended, RefreshFails
<1>1. due' \in DueRec /\ CacheSays'
  <2>1. CASE due' = due
    BY <1>u, <2>1, CacheRests
  <2>2. CASE due' # due
    <3>0. Spaced
      BY <2>2 DEF Begin, DriverLockTimeout, Ended, RefreshFails
    <3>1. PICK x \in Retries : due' = IF due.on /\ due.left < x THEN [on |-> TRUE, left |-> x] ELSE due
      BY <3>0 DEF Spaced
    <3>2. due' = [on |-> TRUE, left |-> x] /\ due.left < x /\ x \in Nat
      BY <2>2, <3>1, RetryIs
    <3>3. due' \in DueRec /\ due'.on /\ due'.left = x
      BY <3>2 DEF DueRec
    <3>4. CacheSays'
      BY <1>0, <1>u, <3>2, <3>3, CacheKnown DEF TokenInv, CacheSays, IsReusable
    <3> QED BY <3>3, <3>4
  <2> QED BY <2>1, <2>2
<1>2. pending' \in BOOLEAN /\ failure' \in Nat /\ quiet' = failure'
  BY <1>0 DEF Begin, DriverLockTimeout, Spaced, Ended, RefreshFails, Remember
<1>3. CASE Begin /\ driver' = [driver EXCEPT !.st = "fetch"]
  <2>1. driver.st = "lock" /\ lock = NoOne
    BY <1>3 DEF Begin
  <2>2. driver' \in DriverRec /\ driver'.st = "fetch" /\ driver'.cur = driver.cur
    BY <1>0, <1>3, <1>e, DriverUpdates
  <2>3. cached.id = driver.cur /\ lock' = Driver
    <3>1. driver' # [driver EXCEPT !.st = "ended"]
      BY <1>0, <1>e, <2>2, DriverUpdates
    <3> QED BY <1>3, <3>1 DEF Begin
  <2>4. driver.cur # NoToken
    BY <2>1 DEF TokenInv, RefreshSays
  <2> QED BY <1>0, <1>u, <1>1, <1>2, <2>1, <2>2, <2>3, <2>4, DriverMoves
<1>4. CASE driver' = [driver EXCEPT !.st = "ended"]
  <2>1. driver' \in DriverRec /\ driver'.st = "ended" /\ driver'.cur = driver.cur
    BY <1>0, <1>4, <1>e, DriverUpdates
  <2>2. CASE Begin
    <3>1. driver.st = "lock" /\ lock' = lock
      BY <1>0, <1>e, <2>1, <2>2, DriverUpdates DEF Begin
    <3> QED BY <1>0, <1>u, <1>1, <1>2, <2>1, <3>1, DriverMoves
  <2>3. CASE DriverLockTimeout
    BY <1>0, <1>u, <1>1, <1>2, <2>1, <2>3, DriverMoves DEF DriverLockTimeout
  <2>4. CASE Spaced
    BY <1>0, <1>u, <1>1, <1>2, <2>1, <2>4, DriverMoves DEF Spaced
  <2>5. CASE \E b \in BOOLEAN : RefreshFails(b)
    BY <1>0, <1>u, <1>1, <1>2, <2>1, <2>5, DriverMoves DEF RefreshFails
  <2>6. CASE Ended
    <3>1. driver' = Free
      BY <2>6 DEF Ended
    <3> QED BY <2>1, <3>1, Empties
  <2> QED BY <2>2, <2>3, <2>4, <2>5, <2>6
<1>5. CASE Ended
  <2>1. driver' = Free /\ driver.st = "ended" /\ UNCHANGED lock
    BY <1>5 DEF Ended
  <2> QED BY <1>0, <1>u, <1>1, <1>2, <2>1, Empties, DriverMoves
<1> QED BY <1>3, <1>4, <1>5 DEF Begin, DriverLockTimeout, Spaced, RefreshFails

LEMMA CloseKeeps ==
  ASSUME TokenInv, Close
  PROVE  TokenInv'
<1>1. "closed" \in DriverStates
  BY DEF DriverStates
<1>2. driver' \in DriverRec /\ driver'.st = "closed" /\ driver'.cur = NoToken
  BY <1>1, Empties, DriverUpdates DEF Close
<1>3. /\ UNCHANGED <<cached, due, failure, call, quiet>> /\ request' = NoRequest /\ pending' = FALSE
      /\ lock' = IF lock = Driver THEN NoOne ELSE lock
  BY DEF Close
<1>4. due' \in DueRec /\ CacheSays'
  BY <1>3, CacheRests
<1> QED BY <1>2, <1>3, <1>4, Empties, TypesAre, DriverMoves DEF TokenInv, LockSays

\* The driver's answer replaces the token it was asked about, or none.
LEMMA RefreshedKeeps ==
  ASSUME TokenInv, Refreshed
  PROVE  TokenInv'
<1>0. /\ driver.st = "fetch" /\ UNCHANGED <<pending, lock, call, request>>
      /\ driver \in DriverRec /\ driver.spent \in Nat /\ NoOne \notin Calls /\ Driver \notin Calls
  BY DriverKnown, ServiceTokenAssumption DEF Refreshed
<1>1. PICK t \in Fresh(NoOne) : \E value \in Answers(t, driver.spent) : Store(value)
  BY DEF Refreshed
<1>2. PICK value \in Answers(t, driver.spent) : Store(value)
  BY <1>1
<1>3. t \in Tokens /\ t \notin InUse(NoOne) /\ t # NoToken
  BY FreshIs, ServiceTokenAssumption
<1>4. /\ failure' \in Nat /\ quiet' \in Nat /\ quiet' = failure'
      /\ cached' \in Token /\ due' \in DueRec /\ CacheSays'
      /\ value \in Token /\ value.id = t
      /\ \/ cached' = cached /\ due' = due
         \/ cached' = value /\ value.timed
  BY <1>0, <1>2, <1>3, StoreKeeps
<1>5. /\ request.cur # t /\ driver.cur # t
      /\ \A d \in Calls : call[d].tok.id # t
  BY <1>0, <1>3 DEF InUse
<1>6. "stored" \in DriverStates
  BY DEF DriverStates
<1>7. driver' \in DriverRec /\ driver'.st = "stored" /\ driver'.cur = driver.cur
  BY <1>0, <1>6, DriverUpdates DEF Refreshed
<1>8. CopiesSay'
  BY <1>0, <1>4, <1>5 DEF TokenInv, CopiesSay, PtrEq
<1>9. lock = Driver
  BY <1>0 DEF TokenInv, LockSays
<1>10. LockSays'
  BY <1>0, <1>7, <1>9 DEF TokenInv, LockSays
<1>11. RefreshSays'
  BY <1>0, <1>4, <1>5, <1>7 DEF TokenInv, RefreshSays
<1>12. TypeOK'
  BY <1>0, <1>4, <1>7, TypesAre, TypedNext DEF TokenInv
<1> QED BY <1>4, <1>8, <1>10, <1>11, <1>12 DEF TokenInv

LEMMA TickKeeps ==
  ASSUME TokenInv, Tick
  PROVE  TokenInv'
<1>0. /\ cached' = Aged(cached) /\ due' = [due EXCEPT !.left = Less(@, 1)]
      /\ failure' = Less(failure, 1) /\ quiet' = Less(quiet, 1)
      /\ call' = [c \in Calls |->
                   IF call[c].st = "idle" THEN Idle
                   ELSE [call[c] EXCEPT !.left = Less(@, 1), !.tok = Aged(@),
                                        !.spent = IF call[c].st = "fetch" THEN @ + 1 ELSE @]]
      /\ request' = [request EXCEPT !.left = Less(@, 1)]
      /\ driver' = [driver EXCEPT !.left = Less(@, 1),
                                  !.spent = IF driver.st = "fetch" THEN @ + 1 ELSE @]
      /\ UNCHANGED <<pending, lock>>
  BY DEF Tick
<1>c. /\ cached \in Token /\ cached.life \in Nat /\ cached.reuse \in Nat /\ cached.ahead \in Nat
      /\ due \in DueRec /\ due.left \in Nat /\ failure \in Nat /\ quiet = failure
  BY CacheKnown, TypesAre DEF TokenInv
<1>1. /\ cached' \in Token /\ cached'.id = cached.id /\ cached'.timed = cached.timed
      /\ cached'.life = Less(cached.life, 1) /\ cached'.reuse = Less(cached.reuse, 1)
      /\ cached'.ahead = Less(cached.ahead, 1) /\ (cached = NoneHeld => cached' = NoneHeld)
  BY <1>0, <1>c, AgedIs
<1>2. due' \in DueRec /\ due'.on = due.on /\ due'.left = Less(due.left, 1)
  <2> DEFINE left == Less(due.left, 1)
  <2>1. left \in Nat
    BY <1>c, LessIs
  <2>2. due' = [due EXCEPT !.left = left]
    BY <1>0
  <2> HIDE DEF left
  <2>3. due' \in DueRec /\ due'.on = due.on /\ due'.left = left
    BY <1>c, <2>1, <2>2 DEF DueRec
  <2> QED BY <2>3 DEF left
<1>3. CacheSays'
  <2>1. /\ cached' # NoneHeld => cached'.timed /\ due'.on /\ cached'.ahead <= due'.left
        /\ cached'.ahead <= cached'.reuse
    BY <1>c, <1>1, <1>2 DEF TokenInv, CacheSays, Less
  <2>2. cached'.reuse > 0 => cached'.life >= cached'.reuse + ReuseMargin
    BY <1>c, <1>1, Numbers DEF TokenInv, CacheSays, IsReusable, Less
  <2> QED BY <2>1, <2>2 DEF CacheSays, IsReusable
<1>4. ASSUME NEW c \in Calls
      PROVE  /\ call'[c] \in CallRec /\ call'[c].st = call[c].st
             /\ call'[c].tok = NoneHeld \/ call'[c].tok = Aged(call[c].tok)
  <2>0. call[c] \in CallRec /\ call[c].left \in Nat /\ call[c].spent \in Nat /\ call[c].tok \in Token
    BY CallKnown
  <2>1. CASE call[c].st = "idle"
    BY <1>0, <2>1, IdleIs
  <2>2. CASE call[c].st # "idle"
    <3> DEFINE left == Less(call[c].left, 1)
               tok == Aged(call[c].tok)
               spent == IF call[c].st = "fetch" THEN call[c].spent + 1 ELSE call[c].spent
    <3>s. spent \in Nat
      BY <2>0
    <3>l. left \in Nat
      BY <2>0 DEF Less
    <3>1. left \in Nat /\ tok \in Token /\ spent \in Nat
      BY <2>0, <3>s, <3>l, AgedIs
    <3>2. call'[c] = [call[c] EXCEPT !.left = left, !.tok = tok, !.spent = spent]
      BY <1>0, <2>2
    <3> HIDE DEF left, tok, spent
    <3>3. call'[c] \in CallRec
      BY <2>0, <3>1, <3>2 DEF CallRec
    <3>4. call'[c].st = call[c].st /\ call'[c].tok = tok
      BY <2>0, <3>2 DEF CallRec
    <3> QED BY <3>3, <3>4 DEF tok
  <2> QED BY <2>1, <2>2
<1>5. call' \in [Calls -> CallRec]
  <2>1. call' = [c \in Calls |-> call'[c]]
    BY <1>0
  <2> QED BY <1>4, <2>1
<1>6. CopiesSay'
  <2>0. ASSUME NEW c \in Calls, call'[c].tok.id # NoToken
        PROVE  /\ call'[c].tok = Aged(call[c].tok) /\ call'[c].tok.id = call[c].tok.id
               /\ call'[c].tok.timed = call[c].tok.timed
    BY <1>4, <2>0, CallKnown, AgedIs, NoneIs
  <2>1. ASSUME NEW c \in Calls, PtrEq(call'[c].tok, cached') PROVE call'[c].tok = cached'
    <3>1. call'[c].tok = Aged(call[c].tok) /\ PtrEq(call[c].tok, cached)
      BY <1>1, <2>0, <2>1 DEF PtrEq
    <3> QED BY <1>0, <3>1 DEF TokenInv, CopiesSay
  <2>2. ASSUME NEW c \in Calls, NEW d \in Calls, c # d, PtrEq(call'[c].tok, call'[d].tok)
        PROVE  call'[c].tok.timed
    <3>1. PtrEq(call[c].tok, call[d].tok) /\ call'[c].tok.timed = call[c].tok.timed
      BY <2>0, <2>2 DEF PtrEq
    <3> QED BY <2>2, <3>1 DEF TokenInv, CopiesSay
  <2> QED BY <2>1, <2>2 DEF CopiesSay, PtrEq
<1>7. request' \in ReqRec /\ request'.cur = request.cur
  <2> DEFINE left == Less(request.left, 1)
  <2>1. request \in ReqRec /\ left \in Nat
    BY DriverKnown, LessIs
  <2>2. request' = [request EXCEPT !.left = left]
    BY <1>0
  <2> HIDE DEF left
  <2> QED BY <2>1, <2>2 DEF ReqRec
<1>8. driver' \in DriverRec /\ driver'.st = driver.st /\ driver'.cur = driver.cur
  <2> DEFINE left == Less(driver.left, 1)
             spent == IF driver.st = "fetch" THEN driver.spent + 1 ELSE driver.spent
  <2>s. spent \in Nat
    BY DriverKnown
  <2>l. left \in Nat
    BY DriverKnown DEF Less
  <2>1. driver \in DriverRec /\ left \in Nat /\ spent \in Nat
    BY <2>s, <2>l, DriverKnown
  <2>2. driver' = [driver EXCEPT !.left = left, !.spent = spent]
    BY <1>0
  <2> HIDE DEF left, spent
  <2> QED BY <2>1, <2>2 DEF DriverRec
<1>9. LockSays'
  <2>1. IsReusable(cached') => IsReusable(cached)
    BY <1>c, <1>1 DEF IsReusable, Less
  <2> QED BY <1>0, <1>4, <1>8, <2>1 DEF TokenInv, LockSays, IsReusable
<1>10. RefreshSays'
  <2>1. cached.ahead = 0 => cached'.ahead = 0
    BY <1>1 DEF Less
  <2> QED BY <1>1, <1>7, <1>8, <2>1 DEF TokenInv, RefreshSays
<1>11. TypeOK'
  <2>1. failure' \in Nat /\ quiet' = failure'
    BY <1>0, <1>c, LessIs
  <2> QED BY <1>0, <1>1, <1>2, <1>5, <1>7, <1>8, <2>1, TypesAre, TypedNext DEF TokenInv
<1>12. quiet' = failure'
  BY <1>0, <1>c
<1> QED BY <1>3, <1>6, <1>9, <1>10, <1>11, <1>12 DEF TokenInv

LEMMA TokenStarts ==
  ASSUME Init PROVE TokenInv
<1>0. /\ cached = NoneHeld /\ due = NotDue /\ failure = 0 /\ pending = FALSE /\ lock = NoOne
      /\ call = [c \in Calls |-> Idle] /\ request = NoRequest /\ driver = Free /\ quiet = 0
      /\ NoOne \notin Calls /\ NoOne # Driver
  BY ServiceTokenAssumption DEF Init
<1>1. \A c \in Calls : call[c].st = "idle" /\ call[c].tok = NoneHeld
  BY <1>0, IdleIs
<1>2. TypeOK
  BY <1>0, NoneIs, Empties, IdleIs, TypesAre
<1>3. CacheSays
  BY <1>0, NoneIs DEF CacheSays, IsReusable
<1>4. CopiesSay
  BY <1>0, <1>1, NoneIs DEF CopiesSay, PtrEq
<1>5. LockSays
  BY <1>0, <1>1, Empties DEF LockSays
<1>6. RefreshSays
  BY <1>0, Empties DEF RefreshSays
<1> QED BY <1>0, <1>2, <1>3, <1>4, <1>5, <1>6 DEF TokenInv

LEMMA TokenKeeps ==
  ASSUME TokenInv, [Next]_vars PROVE TokenInv'
<1>1. ASSUME NEW c \in Calls, Caller(c) PROVE TokenInv'
  BY <1>1, StartKeeps, LockedKeeps, FetchedKeeps, EndsKeep DEF Caller
<1>2. ASSUME Drive PROVE TokenInv'
  BY <1>2, TakeKeeps, RefreshedKeeps, DriverKeeps DEF Drive
<1>3. CASE UNCHANGED vars
  BY <1>3 DEF vars, TokenInv, TypeOK, CacheSays, CopiesSay, LockSays, RefreshSays, IsReusable, PtrEq
<1> QED BY <1>1, <1>2, <1>3, CloseKeeps, TickKeeps DEF Next

\* What a call takes from the shared cache has more than REUSE_MARGIN to live however slow the
\* provider's answer was, and a token without a lifetime stays with the call that asked for it, for
\* every number of calls, budget, lifetime and setting (into_token, is_reusable, store_service_token).
THEOREM SharedTokensSafe == Spec => []SharedTokensLive
<1>1. Init => TokenInv
  BY TokenStarts
<1>2. TokenInv /\ [Next]_vars => TokenInv'
  BY TokenKeeps
<1>3. TokenInv => SharedTokensLive
  BY DEF TokenInv, CacheSays, CopiesSay, SharedTokensLive
<1> QED BY <1>1, <1>2, <1>3, PTL DEF Spec

-----------------------------------------------------------------------------
(* What no step does *)

\* The cached token is replaced past its refresh time, or refused at an age.
LEMMA KeptStep ==
  ASSUME TokenInv, Next PROVE TokenKept
<1> SUFFICES ASSUME cached'.id # cached.id, cached # NoneHeld
             PROVE  cached.ahead = 0 \/ (cached' = NoneHeld /\ IsEvictable(cached))
  BY DEF TokenKept
<1>0. cached \in Token /\ cached.ahead \in Nat /\ cached.reuse \in Nat /\ cached.ahead <= cached.reuse
  BY CacheKnown DEF TokenInv, CacheSays
<1>1. ASSUME NEW c \in Calls, Fetched(c) PROVE cached.ahead = 0
  <2>1. lock = c
    BY <1>1 DEF Fetched, TokenInv, LockSays
  <2>2. ~IsReusable(cached)
    BY <2>1 DEF TokenInv, LockSays
  <2> QED BY <1>0, <2>2 DEF IsReusable
<1>2. ASSUME NEW c \in Calls, Unauthorized(c) PROVE cached' = NoneHeld /\ IsEvictable(cached)
  <2>1. IsEvictable(call[c].tok) /\ PtrEq(cached, call[c].tok) /\ cached' = NoneHeld
    BY <1>2 DEF Unauthorized
  <2>2. call[c].tok = cached
    BY <2>1 DEF TokenInv, CopiesSay, PtrEq
  <2> QED BY <2>1, <2>2
<1>3. ASSUME Refreshed PROVE cached.ahead = 0
  <2>1. driver.st = "fetch"
    BY <1>3 DEF Refreshed
  <2> QED BY <2>1 DEF TokenInv, RefreshSays
<1>4. ASSUME Tick PROVE FALSE
  BY <1>0, <1>4, AgedIs DEF Tick
<1>5. ASSUME NEW c \in Calls, Caller(c), ~Fetched(c), ~Unauthorized(c) PROVE FALSE
  BY <1>5 DEF Caller, StartCall, Locked, LockTimeout, FetchTimesOut, FetchFails, EndCall
<1>6. ASSUME Drive, ~Refreshed PROVE FALSE
  BY <1>6 DEF Drive, Take, Begin, DriverLockTimeout, Spaced, Ended, RefreshFails
<1>7. ASSUME Close PROVE FALSE
  BY <1>7 DEF Close
<1> QED BY <1>1, <1>2, <1>3, <1>4, <1>5, <1>6, <1>7 DEF Next

\* A call begins a request only by Locked, the driver only by Begin.
LEMMA WhoRequests ==
  ASSUME TokenInv, Next, NEW c \in Calls, Requests(c) PROVE Locked(c)
<1>0. /\ call \in [Calls -> CallRec] /\ call[c] \in CallRec /\ call[c].st # "fetch"
      /\ call'[c].st = "fetch"
  BY CallKnown, TypesAre DEF TokenInv, Requests
<1>1. ASSUME NEW d \in Calls, Caller(d) PROVE Locked(c)
  <2>1. d = c
    <3> SUFFICES ASSUME d # c PROVE call'[c] = call[c]
      BY <1>0
    <3>1. call[d] \in CallRec
      BY CallKnown
    <3> QED BY <1>0, <1>1, <3>1 DEF Caller, StartCall, Locked, LockTimeout, Fetched, FetchTimesOut, FetchFails,
               Unauthorized, EndCall, Uses
  <2>2. ASSUME NEW b \in Budgets, StartCall(c, b) PROVE call'[c].st # "fetch"
    <3>1. CASE IsReusable(cached)
      <4>1. call' = [Uses(c, cached) EXCEPT ![c].left = b]
        BY <2>2, <3>1 DEF StartCall
      <4>2. Uses(c, cached) = [call EXCEPT ![c] = [call[c] EXCEPT !.st = "use", !.tok = cached]]
        BY <1>0 DEF Uses
      <4>3. [call[c] EXCEPT !.st = "use", !.tok = cached].st = "use"
        BY <1>0 DEF CallRec
      <4>4. call'[c] = [[call[c] EXCEPT !.st = "use", !.tok = cached] EXCEPT !.left = b]
        BY <1>0, <4>1, <4>2
      <4>5. call'[c].st = "use"
        BY <1>0, <4>4 DEF CallRec
      <4> QED BY <4>5
    <3>2. CASE ~IsReusable(cached)
      <4>1. call'[c] = [Idle EXCEPT !.st = "lock", !.left = b]
        BY <1>0, <2>2, <3>2 DEF StartCall
      <4>2. call'[c].st = "lock"
        BY <4>1 DEF Idle
      <4> QED BY <4>2
    <3> QED BY <3>1, <3>2
  <2>3. ASSUME Fetched(c) PROVE call'[c].st # "fetch"
    BY <1>0, <2>3 DEF Fetched
  <2>4. ASSUME \/ LockTimeout(c) \/ FetchTimesOut(c) \/ (\E b \in BOOLEAN : FetchFails(c, b))
               \/ Unauthorized(c) \/ EndCall(c)
        PROVE  call'[c].st # "fetch"
    <3>1. call'[c] = Idle
      BY <1>0, <2>4 DEF LockTimeout, FetchTimesOut, FetchFails, Unauthorized, EndCall
    <3> QED BY <3>1, IdleIs
  <2> QED BY <1>0, <1>1, <2>1, <2>2, <2>3, <2>4 DEF Caller
<1>2. ASSUME Drive \/ Close PROVE FALSE
  <2>1. call' = call
    BY <1>2 DEF Drive, Take, Begin, DriverLockTimeout, Refreshed, Spaced, Ended, RefreshFails, Close
  <2> QED BY <1>0, <2>1
<1>3. ASSUME Tick PROVE FALSE
  <2>1. CASE call[c].st = "idle"
    BY <1>0, <1>3, <2>1, IdleIs DEF Tick
  <2>2. CASE call[c].st # "idle"
    <3> DEFINE left == Less(call[c].left, 1)
               tok == Aged(call[c].tok)
               spent == IF call[c].st = "fetch" THEN call[c].spent + 1 ELSE call[c].spent
    <3>1. call'[c] = [call[c] EXCEPT !.left = left, !.tok = tok, !.spent = spent]
      BY <1>3, <2>2 DEF Tick
    <3> HIDE DEF left, tok, spent
    <3>2. call'[c].st = call[c].st
      BY <1>0, <3>1 DEF CallRec
    <3> QED BY <1>0, <3>2
  <2> QED BY <2>1, <2>2
<1> QED BY <1>1, <1>2, <1>3 DEF Next

LEMMA WhoReplaces ==
  ASSUME TokenInv, Next, Replaces
  PROVE  driver.st = "lock" /\ lock = NoOne /\ failure = 0
<1>0. driver \in DriverRec /\ driver.st # "fetch" /\ driver'.st = "fetch"
  BY DriverKnown DEF Replaces
<1>s. {"ended", "stored", "closed", "lock"} \subseteq DriverStates
  BY DEF DriverStates
<1>1. ASSUME NEW c \in Calls, Caller(c) PROVE FALSE
  <2>1. driver' = driver
    BY <1>1 DEF Caller, StartCall, Locked, LockTimeout, Fetched, FetchTimesOut, FetchFails, Unauthorized, EndCall
  <2> QED BY <1>0, <2>1
<1>2. ASSUME Begin PROVE driver.st = "lock" /\ lock = NoOne /\ failure = 0
  <2>1. driver' # [driver EXCEPT !.st = "ended"]
    BY <1>0, <1>s, DriverUpdates
  <2> QED BY <1>2, <2>1 DEF Begin
<1>3. ASSUME DriverLockTimeout \/ Spaced \/ Ended \/ (\E b \in BOOLEAN : RefreshFails(b)) PROVE FALSE
  <2>1. driver' = [driver EXCEPT !.st = "ended"] \/ driver' = Free
    BY <1>3 DEF DriverLockTimeout, Spaced, Ended, RefreshFails
  <2> QED BY <1>0, <1>s, <2>1, DriverUpdates, Empties
<1>4. ASSUME Refreshed PROVE FALSE
  BY <1>0, <1>4 DEF Refreshed
<1>5. ASSUME Take PROVE FALSE
  <2>1. driver'.st = "lock"
    BY <1>5 DEF Take, Free
  <2> QED BY <1>0, <2>1
<1>6. ASSUME Close PROVE FALSE
  BY <1>0, <1>s, <1>6, Empties, DriverUpdates DEF Close
<1>7. ASSUME Tick PROVE FALSE
  <2> DEFINE left == Less(driver.left, 1)
             spent == IF driver.st = "fetch" THEN driver.spent + 1 ELSE driver.spent
  <2>1. driver' = [driver EXCEPT !.left = left, !.spent = spent]
    BY <1>7 DEF Tick
  <2> HIDE DEF left, spent
  <2>2. driver'.st = driver.st
    BY <1>0, <2>1 DEF DriverRec
  <2> QED BY <1>0, <2>2
<1> QED BY <1>1, <1>2, <1>3, <1>4, <1>5, <1>6, <1>7 DEF Next, Drive

LEMMA JustifiedStep ==
  ASSUME TokenInv, Next PROVE RequestsJustified
<1>0. quiet = failure /\ failure \in Nat /\ NoOne \notin Calls /\ NoOne # Driver
  BY TypesAre, ServiceTokenAssumption DEF TokenInv
<1>1. ASSUME NEW c \in Calls, Locked(c), call'[c].st = "fetch"
      PROVE  ~IsReusable(cached) /\ ~Closed /\ failure = 0 /\ lock = NoOne
  <2>0. call \in [Calls -> CallRec] /\ call[c] \in CallRec
    BY CallKnown, TypesAre DEF TokenInv
  <2>1. call' # Uses(c, cached)
    <3>1. Uses(c, cached)[c].st = "use"
      BY <2>0 DEF Uses, CallRec
    <3> QED BY <1>1, <3>1
  <2>2. call' # [call EXCEPT ![c] = Idle]
    BY <1>1, <2>0, IdleIs
  <2> QED BY <1>1, <2>1, <2>2 DEF Locked
<1>2. lock = NoOne => driver.st # "fetch" /\ \A c \in Calls : call[c].st # "fetch"
  BY <1>0 DEF TokenInv, LockSays
<1>3. ASSUME NEW c \in Calls, Requests(c)
      PROVE  ~IsReusable(cached) /\ ~Closed /\ failure = 0 /\ lock = NoOne
  BY <1>1, <1>3, WhoRequests DEF Requests
<1>4. ASSUME Replaces PROVE ~Closed /\ failure = 0 /\ lock = NoOne
  BY <1>4, WhoReplaces DEF Closed
<1>5. ASSUME NEW c \in Calls, Locked(c), call'[c] = Idle
      PROVE  quiet > 0 \/ Closed \/ call[c].left = 0
  <2>0. call \in [Calls -> CallRec] /\ call[c] \in CallRec
    BY CallKnown, TypesAre DEF TokenInv
  <2>1. call' # Uses(c, cached)
    <3>1. Uses(c, cached)[c].st = "use"
      BY <2>0 DEF Uses, CallRec
    <3> QED BY <1>5, <3>1, IdleIs
  <2>2. call' # [call EXCEPT ![c].st = "fetch", ![c].short = call[c].left < FetchTimeout]
    <3> DEFINE short == call[c].left < FetchTimeout
    <3> HIDE DEF short
    <3>1. [call EXCEPT ![c].st = "fetch", ![c].short = short][c].st = "fetch"
      BY <2>0 DEF CallRec
    <3> QED BY <1>5, <3>1, IdleIs DEF short
  <2> QED BY <1>0, <1>5, <2>1, <2>2 DEF Locked
<1> QED BY <1>0, <1>2, <1>3, <1>4, <1>5 DEF RequestsJustified

\* No step costs the calls that share an owner a good token, a needless request or somebody else's
\* refusal, for every number of calls and tokens, budget, lifetime and setting (acquire_service_token,
\* reject_service_token, refresh_ahead, remember_failure).
THEOREM SharedFairlySafe == Spec => SharedFairly
<1>1. Init => TokenInv
  BY TokenStarts
<1>2. TokenInv /\ [Next]_vars => TokenInv'
  BY TokenKeeps
<1>3. TokenInv /\ [Next]_vars => [TokenKept /\ RequestsJustified]_vars
  BY KeptStep, JustifiedStep
<1> QED BY <1>1, <1>2, <1>3, PTL DEF Spec, SharedFairly

-----------------------------------------------------------------------------
(* Lists of checks *)

\* A set of natural numbers that is not empty has a least member.
LEMMA LeastNat ==
  ASSUME NEW T \in SUBSET Nat, T # {}
  PROVE  \E n \in T : \A k \in T : n <= k
<1>1. IsWellFoundedOn(OpToRel(<, Nat), Nat)
  BY NatLessThanWellFounded
<1>2. PICK n \in T : \A k \in T : ~(<<k, n>> \in OpToRel(<, Nat))
  BY <1>1, WFMin
<1>3. \A k \in T : ~(k < n)
  BY <1>2 DEF OpToRel
<1> QED BY <1>3

\* A list of checks gives the verdict of the first that applies, or "ok".
LEMMA FirstIs ==
  ASSUME NEW checks, NEW n \in Nat, DOMAIN checks = 1 .. n
  PROVE  \/ (\A i \in 1 .. n : ~checks[i][1]) /\ First(checks) = "ok"
         \/ \E i \in 1 .. n : /\ checks[i][1] /\ First(checks) = checks[i][2]
                              /\ \A j \in 1 .. n : checks[j][1] => i <= j
<1> DEFINE hit == {i \in DOMAIN checks : checks[i][1]}
           least == CHOOSE i \in hit : \A j \in hit : i <= j
<1>1. CASE hit = {}
  BY <1>1 DEF First
<1>2. CASE hit # {}
  <2>1. hit \in SUBSET Nat /\ hit \subseteq 1 .. n
    OBVIOUS
  <2>2. \E k \in hit : \A j \in hit : k <= j
    BY <1>2, <2>1, LeastNat
  <2>3. least \in hit /\ \A j \in hit : least <= j
    BY <2>2
  <2>4. First(checks) = checks[least][2]
    BY <1>2 DEF First
  <2> HIDE DEF least
  <2>5. least \in 1 .. n /\ checks[least][1] /\ \A j \in 1 .. n : checks[j][1] => least <= j
    BY <2>1, <2>3
  <2> QED BY <2>4, <2>5
<1> QED BY <1>1, <1>2

-----------------------------------------------------------------------------
(* Caller-signed service tokens *)

SaSpec == SaInit /\ [][SaNext]_saVars

SaStates == Replies \cup {"sent"}
SaBad == {"none"} \cup ForgedTokens
SaTicks == -1 .. ClockEnd
SaTransit == [st: SaStates, iat: SaTicks, bad: SaBad, own: BOOLEAN, left: 0 .. TransitTicks]
SaSkews == -ClockLeeway .. ClockLeeway
SaClocks == [now: 0 .. ClockEnd, skew: SaSkews]

\* What the source hands out is at most ReuseTicks old, the transit not counted, and whatever reaches
\* a verifier was issued at some tick.
SaInv ==
    /\ saMode \in Modes /\ saClock \in SaClocks /\ saCached \in SaTicks
    /\ saSeen \subseteq 0 .. ClockEnd
    /\ saCall \in SaTransit
    /\ saCall.st = "sent" /\ saCall.own =>
          /\ saCall.bad = "none" /\ saCall.iat <= saClock.now
          /\ saClock.now <= saCall.iat + ReuseTicks - 1 + TransitTicks - saCall.left
    /\ saCall.st = "sent" => saMode # "new" /\ (saMode # "off" => saCall.iat >= 0)

LEMMA SaNumbers ==
  /\ TokenLife \in Nat \ {0} /\ ReuseTicks \in Nat \ {0} /\ ClockLeeway \in Nat \ {0}
  /\ SeenTokens \in Nat \ {0} /\ ClockEnd \in Nat \ {0} /\ TransitTicks \in Nat
  /\ ReuseTicks + TransitTicks <= TokenLife
BY ServiceAuthAssumption

LEMMA SaKnown ==
  ASSUME SaInv
  PROVE  /\ saClock.now \in 0 .. ClockEnd /\ saClock.skew \in SaSkews
         /\ saCall \in SaTransit /\ saCall.st \in SaStates /\ saCall.iat \in SaTicks
         /\ saCall.bad \in SaBad /\ saCall.own \in BOOLEAN /\ saCall.left \in 0 .. TransitTicks
BY DEF SaInv, SaClocks, SaTransit

\* What is under way when a verdict is reached.
LEMMA NoTransitIs ==
  /\ NoTransit \in SaTransit /\ NoTransit.st = "none" /\ ~NoTransit.own
  /\ \A st \in SaStates, iat \in SaTicks :
        /\ [NoTransit EXCEPT !.iat = iat, !.st = st] \in SaTransit
        /\ [NoTransit EXCEPT !.iat = iat, !.st = st].st = st
        /\ [NoTransit EXCEPT !.st = st] \in SaTransit
        /\ [NoTransit EXCEPT !.st = st].st = st
<1> DEFINE iat0 == -1
           z == 0
           f == FALSE
<1>0. /\ "none" \in SaStates /\ "none" \in SaBad /\ iat0 \in SaTicks /\ z \in 0 .. TransitTicks
      /\ f \in BOOLEAN
  BY SaNumbers DEF SaStates, Replies, SaBad, SaTicks
<1>1. NoTransit = [st |-> "none", iat |-> iat0, bad |-> "none", own |-> f, left |-> z]
  BY DEF NoTransit
<1>2. NoTransit.st = "none" /\ ~NoTransit.own
  BY DEF NoTransit
<1> HIDE DEF iat0, z, f
<1>3. NoTransit \in SaTransit
  BY <1>0, <1>1 DEF SaTransit
<1>4. ASSUME NEW st \in SaStates, NEW iat \in SaTicks
      PROVE  /\ [NoTransit EXCEPT !.iat = iat, !.st = st] \in SaTransit
             /\ [NoTransit EXCEPT !.iat = iat, !.st = st].st = st
             /\ [NoTransit EXCEPT !.st = st] \in SaTransit
             /\ [NoTransit EXCEPT !.st = st].st = st
  BY <1>3 DEF SaTransit
<1> QED BY <1>2, <1>3, <1>4

\* The verdict on a token: what passes has not expired, what the source handed out passes.
LEMMA CheckedIs ==
  ASSUME SaInv
  PROVE  /\ Remembered(saCall) = "ok" => saCall.bad = "none" /\ NotExpired(saCall.iat)
         /\ saCall.bad = "none" /\ NotExpired(saCall.iat) /\ saCall.iat <= ReceiverNow + ClockLeeway
              => Remembered(saCall) = "ok"
<1> DEFINE checks == << <<saCall.bad # "none", saCall.bad>>,
                        <<~NotExpired(saCall.iat), "expired">>,
                        <<saCall.iat > ReceiverNow + ClockLeeway, "not_yet_valid">> >>
<1>1. Checked(saCall) = First(checks)
  BY DEF Checked
<1>2. DOMAIN checks = 1 .. 3
  OBVIOUS
<1>3. /\ checks[1][1] = (saCall.bad # "none") /\ checks[1][2] = saCall.bad
      /\ checks[2][1] = ~NotExpired(saCall.iat) /\ checks[2][2] = "expired"
      /\ checks[3][1] = (saCall.iat > ReceiverNow + ClockLeeway) /\ checks[3][2] = "not_yet_valid"
  OBVIOUS
<1>4. saCall.bad # "ok"
  BY SaKnown DEF SaBad, ForgedTokens
<1> HIDE DEF checks
<1>5. \/ (\A i \in 1 .. 3 : ~checks[i][1]) /\ First(checks) = "ok"
      \/ \E i \in 1 .. 3 : checks[i][1] /\ First(checks) = checks[i][2]
  BY <1>2, FirstIs
<1>6. First(checks) = "ok" <=> ~checks[1][1] /\ ~checks[2][1] /\ ~checks[3][1]
  <2>1. ASSUME First(checks) = "ok" PROVE \A i \in 1 .. 3 : ~checks[i][1]
    <3>1. \A i \in 1 .. 3 : i = 1 \/ i = 2 \/ i = 3
      OBVIOUS
    <3>2. \A i \in 1 .. 3 : checks[i][2] # "ok"
      BY <1>3, <1>4, <3>1
    <3> QED BY <1>5, <2>1, <3>2
  <2>2. ASSUME ~checks[1][1], ~checks[2][1], ~checks[3][1] PROVE First(checks) = "ok"
    <3>1. \A i \in 1 .. 3 : i = 1 \/ i = 2 \/ i = 3
      OBVIOUS
    <3> QED BY <1>5, <2>2, <3>1
  <2>3. 1 \in 1 .. 3 /\ 2 \in 1 .. 3 /\ 3 \in 1 .. 3
    OBVIOUS
  <2> QED BY <2>1, <2>2, <2>3
<1>7. saCall.iat \in Int /\ ReceiverNow + ClockLeeway \in Int
  BY SaKnown, SaNumbers DEF SaTicks, ReceiverNow, SaSkews
<1>8. saCall.iat > ReceiverNow + ClockLeeway <=> ~(saCall.iat <= ReceiverNow + ClockLeeway)
  BY <1>7
<1> QED BY <1>1, <1>3, <1>6, <1>8 DEF Remembered

\* A token the source handed out for the call under way is good by the receiver's clock.
LEMMA OwnIsGood ==
  ASSUME SaInv, saCall.st = "sent", saCall.own PROVE Remembered(saCall) = "ok"
<1>1. /\ saCall.bad = "none" /\ saCall.iat <= saClock.now
      /\ saClock.now <= saCall.iat + ReuseTicks - 1 + TransitTicks - saCall.left
  BY DEF SaInv
<1>2. /\ saClock.now \in Nat /\ saClock.skew \in Int /\ -ClockLeeway <= saClock.skew
      /\ saClock.skew <= ClockLeeway /\ saCall.iat \in Int /\ saCall.left \in Nat
  BY SaKnown, SaNumbers DEF SaTicks, SaSkews
<1>3. NotExpired(saCall.iat)
  BY <1>1, <1>2, SaNumbers DEF NotExpired, ReceiverNow
<1>4. saCall.iat <= ReceiverNow + ClockLeeway
  BY <1>1, <1>2, SaNumbers DEF ReceiverNow
<1> QED BY <1>1, <1>3, <1>4, CheckedIs

LEMMA PreparedIn ==
  ASSUME NEW o PROVE PrepareServiceAuth(o) \in Modes \ {"new"}
<1> DEFINE t == TrustRegistry(o.trust) # "ok"
           checks == << <<~o.jwt, "off">>, <<~o.name, "refused">>, <<~o.type, "refused">>,
                        <<t, "refused">>, <<~o.signs, "nokey">>, <<~o.keyId \/ ~o.key, "refused">>,
                        <<TRUE, "on">> >>
<1>1. PrepareServiceAuth(o) = First(checks)
  BY DEF PrepareServiceAuth
<1> HIDE DEF t
<1>2. DOMAIN checks = 1 .. 7 /\ checks[7][1]
  OBVIOUS
<1>3. ASSUME NEW i \in 1 .. 7 PROVE checks[i][2] \in Modes \ {"new"}
  <2>1. i = 1 \/ i = 2 \/ i = 3 \/ i = 4 \/ i = 5 \/ i = 6 \/ i = 7
    OBVIOUS
  <2>2. /\ checks[1][2] = "off" /\ checks[2][2] = "refused" /\ checks[3][2] = "refused"
        /\ checks[4][2] = "refused" /\ checks[5][2] = "nokey" /\ checks[6][2] = "refused"
        /\ checks[7][2] = "on"
    OBVIOUS
  <2> HIDE DEF checks
  <2> QED BY <2>1, <2>2 DEF Modes
<1> HIDE DEF checks
<1>4. \E i \in 1 .. 7 : First(checks) = checks[i][2]
  <2>1. 7 \in 1 .. 7
    OBVIOUS
  <2> QED BY <1>2, <2>1, FirstIs
<1> QED BY <1>1, <1>3, <1>4

\* A call that is handed a token, or forges one, sets out.
LEMMA SetsOut ==
  ASSUME NEW iat \in SaTicks, NEW bad \in SaBad, NEW own \in BOOLEAN, NEW left \in 0 .. TransitTicks
  PROVE  LET x == [st |-> "sent", iat |-> iat, bad |-> bad, own |-> own, left |-> left]
         IN x \in SaTransit /\ x.st = "sent" /\ x.iat = iat /\ x.bad = bad /\ x.own = own /\ x.left = left
<1>1. "sent" \in SaStates
  BY DEF SaStates
<1> QED BY <1>1 DEF SaTransit

LEMMA SendKeeps ==
  ASSUME SaInv, SendCall
  PROVE  SaInv'
<1>0. /\ saMode \in {"off", "nokey", "on"} /\ UNCHANGED <<saMode, saClock, saSeen>>
      /\ saClock.now \in 0 .. ClockEnd /\ saCached \in SaTicks
      /\ TransitTicks \in 0 .. TransitTicks
  BY SaKnown, SaNumbers DEF SendCall, SaInv
<1>1. CASE saMode = "nokey"
  <2>1. saCall' = [NoTransit EXCEPT !.st = "unavailable"] /\ saCached' = saCached
    BY <1>1 DEF SendCall
  <2>2. "unavailable" \in SaStates /\ saCall.iat \in SaTicks
    BY SaKnown DEF SaStates, Replies
  <2>3. saCall' \in SaTransit /\ saCall'.st = "unavailable"
    BY <2>1, <2>2, NoTransitIs
  <2> QED BY <1>0, <2>1, <2>3 DEF SaInv
<1>2. CASE saMode = "off"
  <2> DEFINE st == "sent"
             left == TransitTicks
  <2>1. saCall' = [NoTransit EXCEPT !.st = st, !.left = left] /\ saCached' = saCached
    BY <1>2 DEF SendCall
  <2>2. st \in SaStates /\ left \in 0 .. TransitTicks
    BY <1>0 DEF SaStates
  <2> HIDE DEF st, left
  <2>3. saCall' \in SaTransit
    BY <2>1, <2>2, NoTransitIs DEF SaTransit
  <2>4. saCall'.own = NoTransit.own
    BY <2>1 DEF NoTransit
  <2> QED BY <1>0, <1>2, <2>1, <2>3, <2>4, NoTransitIs DEF SaInv
<1>3. CASE saMode = "on"
  <2> DEFINE iat == HandOut
  <2>1. /\ saCached' = iat
        /\ saCall' = [st |-> "sent", iat |-> iat, bad |-> "none", own |-> TRUE, left |-> TransitTicks]
    BY <1>3 DEF SendCall
  <2>2. /\ iat \in SaTicks /\ iat >= 0 /\ iat <= saClock.now
        /\ saClock.now <= iat + ReuseTicks - 1
    BY <1>0, SaNumbers DEF HandOut, ReusableToken, SaTicks
  <2> HIDE DEF iat
  <2>3. "none" \in SaBad
    BY DEF SaBad
  <2>4. /\ saCall' \in SaTransit /\ saCall'.iat = iat /\ saCall'.bad = "none"
        /\ saCall'.left = TransitTicks
    BY <1>0, <2>1, <2>2, <2>3, SetsOut
  <2>5. saClock.now <= iat + ReuseTicks - 1 + TransitTicks - TransitTicks
    BY <1>0, <2>2, SaNumbers DEF SaTicks
  <2> QED BY <1>0, <1>3, <2>1, <2>2, <2>4, <2>5 DEF SaInv
<1> QED BY <1>0, <1>1, <1>2, <1>3

LEMMA ForeignKeeps ==
  ASSUME SaInv, \/ \E b \in ForgedTokens : SendForged(b)
                \/ \E i \in saSeen : Replay(i)
  PROVE  SaInv'
<1>0. /\ saMode \in {"nokey", "on"} /\ UNCHANGED <<saMode, saClock, saCached, saSeen>>
  BY DEF SendForged, Replay
<1>1. PICK iat \in SaTicks, bad \in SaBad, left \in 0 .. TransitTicks :
        iat >= 0 /\ saCall' = [st |-> "sent", iat |-> iat, bad |-> bad, own |-> FALSE, left |-> left]
  <2>1. CASE \E b \in ForgedTokens : SendForged(b)
    <3>1. PICK b \in ForgedTokens : SendForged(b)
      BY <2>1
    <3>2. saClock.now \in SaTicks /\ saClock.now >= 0 /\ b \in SaBad /\ TransitTicks \in 0 .. TransitTicks
      BY SaKnown, SaNumbers DEF SaBad, SaTicks
    <3> QED BY <3>1, <3>2 DEF SendForged
  <2>2. CASE \E i \in saSeen : Replay(i)
    <3>1. PICK i \in saSeen : Replay(i)
      BY <2>2
    <3>2. i \in SaTicks /\ i >= 0 /\ "none" \in SaBad /\ 0 \in 0 .. TransitTicks
      BY SaNumbers DEF SaInv, SaBad, SaTicks
    <3> QED BY <3>1, <3>2 DEF Replay
  <2> QED BY <2>1, <2>2
<1>2. saCall' \in SaTransit /\ saCall'.iat = iat /\ saCall'.own = FALSE
  BY <1>1, SetsOut
<1> QED BY <1>0, <1>1, <1>2 DEF SaInv

LEMMA AdmitKeeps ==
  ASSUME SaInv, NEW listed \in BOOLEAN, Admit(listed)
  PROVE  SaInv'
<1>0. /\ saCall.st = "sent" /\ UNCHANGED <<saMode, saClock, saCached>> /\ saCall.iat \in SaTicks
      /\ {"served", "unauthenticated", "denied"} \subseteq SaStates
  BY SaKnown DEF Admit, SaStates, Replies
<1>1. CASE saMode = "off"
  <2>1. saCall' = [NoTransit EXCEPT !.st = "served"] /\ saSeen' = saSeen
    BY <1>1 DEF Admit
  <2>2. saCall' \in SaTransit /\ saCall'.st = "served"
    BY <1>0, <2>1, NoTransitIs
  <2> QED BY <1>0, <2>1, <2>2 DEF SaInv
<1>2. CASE saMode # "off"
  <2> DEFINE verdict == Remembered(saCall)
             st == IF verdict # "ok" THEN "unauthenticated" ELSE IF listed THEN "served" ELSE "denied"
  <2>1. /\ saCall' = [NoTransit EXCEPT !.iat = saCall.iat, !.st = st]
        /\ saSeen' = IF verdict = "ok" THEN SeenAfter(saCall)
                     ELSE saSeen \ {i \in {saCall.iat} : ~NotExpired(i)}
    BY <1>2 DEF Admit
  <2>2. st \in SaStates /\ st # "sent"
    BY <1>0
  <2>3. saSeen' \subseteq 0 .. ClockEnd
    <3>1. saCall.iat \in 0 .. ClockEnd
      BY <1>0, <1>2, SaNumbers DEF SaInv, SaTicks
    <3>2. SeenAfter(saCall) \subseteq saSeen \cup {saCall.iat}
      BY DEF SeenAfter
    <3> QED BY <2>1, <3>1, <3>2 DEF SaInv
  <2> HIDE DEF verdict, st
  <2>4. saCall' \in SaTransit /\ saCall'.st = st
    BY <1>0, <2>1, <2>2, NoTransitIs
  <2> QED BY <1>0, <2>2, <2>3, <2>4 DEF SaInv
<1> QED BY <1>1, <1>2

LEMMA ClockKeeps ==
  ASSUME SaInv, SaTick \/ StepClock(1) \/ StepClock(-1)
  PROVE  SaInv'
<1>0. /\ saClock \in SaClocks /\ saClock.now \in 0 .. ClockEnd /\ saClock.skew \in SaSkews
      /\ saCall \in SaTransit /\ saCall.left \in 0 .. TransitTicks /\ saCall.iat \in Int
  BY SaKnown, SaNumbers DEF SaInv, SaTicks
<1>1. CASE SaTick
  <2> DEFINE now == saClock.now + 1
             left == IF saCall.left > 0 THEN saCall.left - 1 ELSE 0
  <2>1. /\ saClock' = [saClock EXCEPT !.now = now] /\ saCall' = [saCall EXCEPT !.left = left]
        /\ UNCHANGED <<saMode, saCached, saSeen>> /\ (saCall.st = "sent" => saCall.left > 0)
    BY <1>1 DEF SaTick
  <2>2. now \in 0 .. ClockEnd /\ left \in 0 .. TransitTicks
    BY <1>0, <1>1, SaNumbers DEF SaTick
  <2>3. saCall.left > 0 => left = saCall.left - 1
    OBVIOUS
  <2>n. now = saClock.now + 1
    OBVIOUS
  <2> HIDE DEF now, left
  <2>4. saClock' \in SaClocks /\ saClock'.now = now
    BY <1>0, <2>1, <2>2 DEF SaClocks
  <2>5. saCall' \in SaTransit
    BY <1>0, <2>1, <2>2 DEF SaTransit
  <2>6. /\ saCall'.st = saCall.st /\ saCall'.iat = saCall.iat /\ saCall'.bad = saCall.bad
        /\ saCall'.own = saCall.own /\ saCall'.left = left
    BY <1>0, <2>1 DEF SaTransit
  <2>7. saCall.st = "sent" /\ saCall.own =>
          /\ saCall.iat <= now
          /\ now <= saCall.iat + ReuseTicks - 1 + TransitTicks - left
    BY <1>0, <2>1, <2>3, <2>n, SaNumbers DEF SaInv
  <2> QED BY <2>1, <2>4, <2>5, <2>6, <2>7 DEF SaInv
<1>2. ASSUME NEW d \in Int, StepClock(d) PROVE SaInv'
  <2> DEFINE skew == saClock.skew + d
  <2>1. /\ skew \in SaSkews /\ saClock' = [saClock EXCEPT !.skew = skew]
        /\ UNCHANGED <<saMode, saCached, saSeen, saCall>>
    BY <1>2 DEF StepClock, SaSkews
  <2> HIDE DEF skew
  <2>2. saClock' \in SaClocks /\ saClock'.now = saClock.now
    BY <1>0, <2>1 DEF SaClocks
  <2> QED BY <2>1, <2>2 DEF SaInv
<1>3. 1 \in Int /\ -1 \in Int
  OBVIOUS
<1> QED BY <1>1, <1>2, <1>3

LEMMA SaStarts ==
  ASSUME SaInit PROVE SaInv
<1>1. /\ saMode = "new" /\ saClock = [now |-> 0, skew |-> 0] /\ saCached = -1 /\ saSeen = {}
      /\ saCall = NoTransit
  BY DEF SaInit
<1>2. 0 \in 0 .. ClockEnd /\ 0 \in SaSkews /\ -1 \in SaTicks
  BY SaNumbers DEF SaSkews, SaTicks
<1>3. saClock \in SaClocks
  BY <1>1, <1>2 DEF SaClocks
<1> QED BY <1>1, <1>2, <1>3, NoTransitIs DEF SaInv, Modes

LEMMA SaKeeps ==
  ASSUME SaInv, [SaNext]_saVars PROVE SaInv'
<1>1. ASSUME NEW o, SaPrepare(o) PROVE SaInv'
  BY <1>1, PreparedIn DEF SaPrepare, SaInv
<1>2. CASE UNCHANGED saVars
  BY <1>2 DEF saVars, SaInv
<1> QED BY <1>1, <1>2, SendKeeps, ForeignKeeps, AdmitKeeps, ClockKeeps DEF SaNext

LEMMA SaSays ==
  ASSUME SaInv, [SaNext]_saVars
  PROVE  /\ SaTypeOK
         /\ saCall.st = "sent" /\ saCall'.st = "unauthenticated" => ~saCall.own
         /\ saCall.st = "sent" /\ saCall'.st = "served" /\ saMode # "off"
              => saCall.bad = "none" /\ saClock.now <= saCall.iat + TokenLife + 2 * ClockLeeway
<1>1. SaTypeOK
  BY SaKnown DEF SaInv, SaTypeOK, SaStates, SaTicks, SaClocks, SaSkews
<1>2. ASSUME saCall.st = "sent", saCall'.st \in {"unauthenticated", "served"}
      PROVE  \E listed \in BOOLEAN : Admit(listed)
  <2>1. ASSUME NEW o, SaPrepare(o) PROVE saCall' = saCall
    BY <2>1 DEF SaPrepare
  <2>2. ~SendCall /\ (\A b \in ForgedTokens : ~SendForged(b)) /\ (\A i \in saSeen : ~Replay(i))
    BY <1>2 DEF SendCall, SendForged, Replay
  <2>3. ASSUME SaTick PROVE saCall'.st = saCall.st
    <3> DEFINE left == IF saCall.left > 0 THEN saCall.left - 1 ELSE 0
    <3>1. saCall' = [saCall EXCEPT !.left = left]
      BY <2>3 DEF SaTick
    <3> HIDE DEF left
    <3> QED BY <3>1, SaKnown DEF SaTransit
  <2>4. ASSUME NEW d, StepClock(d) PROVE saCall' = saCall
    BY <2>4 DEF StepClock
  <2>5. CASE UNCHANGED saVars
    BY <1>2, <2>5 DEF saVars
  <2> QED BY <1>2, <2>1, <2>2, <2>3, <2>4, <2>5 DEF SaNext
<1>3. ASSUME NEW listed \in BOOLEAN, Admit(listed), saMode # "off"
      PROVE  /\ saCall'.st = "unauthenticated" => Remembered(saCall) # "ok"
             /\ saCall'.st = "served" => Remembered(saCall) = "ok"
  <2> DEFINE verdict == Remembered(saCall)
             st == IF verdict # "ok" THEN "unauthenticated" ELSE IF listed THEN "served" ELSE "denied"
  <2>1. saCall' = [NoTransit EXCEPT !.iat = saCall.iat, !.st = st]
    BY <1>3 DEF Admit
  <2>2. st \in SaStates /\ saCall.iat \in SaTicks
    BY SaKnown DEF SaStates, Replies
  <2>3. saCall'.st = st
    <3> HIDE DEF st
    <3> QED BY <2>1, <2>2, NoTransitIs
  <2> QED BY <2>3
<1>4. ASSUME NEW listed \in BOOLEAN, Admit(listed), saMode = "off"
      PROVE  saCall'.st = "served"
  <2>1. saCall' = [NoTransit EXCEPT !.st = "served"]
    BY <1>4 DEF Admit
  <2>2. "served" \in SaStates /\ saCall.iat \in SaTicks
    BY SaKnown DEF SaStates, Replies
  <2> QED BY <2>1, <2>2, NoTransitIs
<1>5. ASSUME saCall.st = "sent", saCall'.st = "unauthenticated" PROVE ~saCall.own
  BY <1>2, <1>3, <1>4, <1>5, OwnIsGood
<1>6. ASSUME saCall.st = "sent", saCall'.st = "served", saMode # "off"
      PROVE  saCall.bad = "none" /\ saClock.now <= saCall.iat + TokenLife + 2 * ClockLeeway
  <2>1. saCall.bad = "none" /\ NotExpired(saCall.iat)
    BY <1>2, <1>3, <1>6, CheckedIs
  <2>2. /\ saClock.now \in Nat /\ saClock.skew \in Int /\ saClock.skew <= ClockLeeway
        /\ saCall.iat \in Int
    BY SaKnown, SaNumbers DEF SaTicks, SaSkews
  <2> QED BY <2>1, <2>2, SaNumbers DEF NotExpired, ReceiverNow
<1> QED BY <1>1, <1>5, <1>6

\* A token that a source hands out is never refused by a receiver whose clock is within the leeway,
\* and nothing forged, or past its lifetime by both clocks' reckoning, is served, for every lifetime,
\* reuse, leeway, transit and size of the receiver's memory (authorization_at, remembered).
THEOREM ServiceTokensSafe == SaSpec => ServiceTokensHold
<1>1. SaInit => SaInv
  BY SaStarts
<1>2. SaInv /\ [SaNext]_saVars => SaInv'
  BY SaKeeps
<1>3. SaInv /\ [SaNext]_saVars =>
        [/\ SaTypeOK
         /\ saCall.st = "sent" /\ saCall'.st = "unauthenticated" => ~saCall.own
         /\ saCall.st = "sent" /\ saCall'.st = "served" /\ saMode # "off"
              => saCall.bad = "none" /\ saClock.now <= saCall.iat + TokenLife + 2 * ClockLeeway]_saVars
  BY SaSays
<1> QED BY <1>1, <1>2, <1>3, PTL DEF SaSpec, ServiceTokensHold

-----------------------------------------------------------------------------
(* Introspection *)

InsSpec == InsInit /\ [][InsNext]_insVars

\* A list of checks that admits found none of its conditions to hold.
LEMMA FirstOk ==
  ASSUME NEW checks, NEW n \in Nat, DOMAIN checks = 1 .. n, \A i \in 1 .. n : checks[i][2] # "ok",
         First(checks) = "ok"
  PROVE  \A i \in 1 .. n : ~checks[i][1]
BY FirstIs

LEMMA ClaimFields ==
  ASSUME NEW x \in ClaimSets PROVE "active" \in DOMAIN x /\ "exp" \in DOMAIN x
<1>1. "active" \in DOMAIN GoodClaims /\ "exp" \in DOMAIN GoodClaims
  BY DEF GoodClaims
<1> QED BY <1>1 DEF ClaimSets

\* An answer that counts as evidence says the token is active, and that it has not expired.
LEMMA EvidenceIs ==
  ASSUME NEW c, IntrospectionClaims(c) = "ok"
  PROVE  c.active /\ c.exp # "late"
<1> DEFINE first == << <<~c.reads, "Unavailable">>, <<~c.active, "Inactive">>,
                       <<"none" \in {c.iss, c.aud, c.exp}, "MissingClaim">>,
                       <<c.iss # "ours", "Issuer">>, <<c.aud # "ours", "Audience">> >>
           times == << <<c.exp = "late", "Expired">>, <<c.nbf = "early", "NotYetValid">> >>
<1>1. First(first) = "ok" /\ First(times) = "ok"
  BY DEF IntrospectionClaims, Then, CheckLifetime
<1>2. c.active
  <2>1. DOMAIN first = 1 .. 5
    OBVIOUS
  <2>2. \A i \in 1 .. 5 : i = 1 \/ i = 2 \/ i = 3 \/ i = 4 \/ i = 5
    OBVIOUS
  <2>3. /\ first[1][2] = "Unavailable" /\ first[2][2] = "Inactive" /\ first[3][2] = "MissingClaim"
        /\ first[4][2] = "Issuer" /\ first[5][2] = "Audience" /\ (first[2][1] <=> ~c.active)
    OBVIOUS
  <2> HIDE DEF first
  <2>4. \A i \in 1 .. 5 : first[i][2] # "ok"
    BY <2>2, <2>3
  <2>5. First(first) = "ok"
    <3> HIDE DEF times
    <3> QED BY <1>1
  <2>6. \A i \in 1 .. 5 : ~first[i][1]
    BY <2>1, <2>4, <2>5, FirstOk
  <2>7. 1 \in 1 .. 2 /\ 2 \in 1 .. 5
    OBVIOUS
  <2> QED BY <2>3, <2>6, <2>7
<1>3. c.exp # "late"
  <2>1. DOMAIN times = 1 .. 2
    OBVIOUS
  <2>2. \A i \in 1 .. 2 : i = 1 \/ i = 2
    OBVIOUS
  <2>3. times[1][2] = "Expired" /\ times[2][2] = "NotYetValid" /\ (times[1][1] <=> c.exp = "late")
    OBVIOUS
  <2> HIDE DEF times
  <2>4. \A i \in 1 .. 2 : times[i][2] # "ok"
    BY <2>2, <2>3
  <2>5. First(times) = "ok"
    <3> HIDE DEF first
    <3> QED BY <1>1
  <2>6. \A i \in 1 .. 2 : ~times[i][1]
    BY <2>1, <2>4, <2>5, FirstOk
  <2>7. 1 \in 1 .. 2 /\ 2 \in 1 .. 5
    OBVIOUS
  <2> QED BY <2>3, <2>6, <2>7
<1> QED BY <1>2, <1>3

LEMMA VerdictIs ==
  ASSUME NEW active \in BOOLEAN, "ok" \in ProviderVerdicts(active)
  PROVE  active /\ insToken.life # 0
<1>1. PICK a \in ProviderAnswers, x \in ClaimSets : ProviderVerdict(active, a, x) = "ok"
  BY DEF ProviderVerdicts
<1> DEFINE act == x.active /\ active
           exp == IF insToken.life = 0 THEN "late" ELSE x.exp
           y == [x EXCEPT !.active = act, !.exp = exp]
<1>2. IntrospectionClaims(y) = "ok"
  <2>1. Then(IF Receive(a, TRUE) = "ok" THEN "ok" ELSE "Unavailable", IntrospectionClaims(y)) = "ok"
    BY <1>1 DEF ProviderVerdict
  <2> HIDE DEF y
  <2> QED BY <2>1 DEF Then
<1>3. y.active = act /\ y.exp = exp
  <2> HIDE DEF act, exp
  <2> QED BY ClaimFields
<1>4. y.active /\ y.exp # "late"
  BY <1>2, EvidenceIs
<1> HIDE DEF y
<1> QED BY <1>3, <1>4

-----------------------------------------------------------------------------
(* Introspection: how long a revoked token is accepted *)

BearerStates == Pending \cup Outcomes
BearerCalls == [st: BearerStates, left: 0 .. BudgetTicks]

\* A retained result has been stale for no longer than it has already been retained, plus
\* the exchange that brought it.
RetainedSays ==
    insRetained > 0 => insToken.revoked + insRetained <= RetainTicks + ProviderTicks + 1

\* A provider that said "active" was asked before the revocation: the exchange has run for
\* at least as long as the token has been revoked.
FillSays ==
    insFill.leader # NoBearer /\ insFill.active
      => insToken.revoked + insFill.left <= ProviderTicks + 1

\* What a request holds was good when it was handed over, and its budget has run since.
Held(y, revoked) ==
    /\ y.st = "fresh" => revoked + y.left <= ProviderTicks + 1 + BudgetTicks
    /\ y.st = "retained" => revoked + y.left <= RetainTicks + ProviderTicks + 1 + BudgetTicks

HeldSays == \A c \in Bearers : Held(insCall[c], insToken.revoked)

InsInv == InsTypeOK /\ RetainedSays /\ FillSays /\ HeldSays

\* The bounds are counts.
LEMMA InsBounds ==
  /\ RetainTicks \in Nat /\ ProviderTicks \in Nat /\ BudgetTicks \in Nat /\ Leeway \in Nat
  /\ MaxLife \in Nat /\ RetainTicks > 0 /\ ProviderTicks > 0 /\ BudgetTicks > 0 /\ Leeway > 0
  /\ NoBearer \notin Bearers
BY IntrospectionAssumption

\* What the fields of a well-typed state are.
LEMMA InsFields ==
  ASSUME InsTypeOK
  PROVE  /\ insToken.life \in 0 .. MaxLife /\ insToken.revoked \in 0 .. RevocationTicks + 2
         /\ insToken.life \in Nat /\ insToken.revoked \in Nat /\ insRetained \in Nat
         /\ insRetained <= RetainTicks
         /\ insFill.leader \in Bearers \cup {NoBearer} /\ insFill.active \in BOOLEAN
         /\ insFill.left \in 0 .. ProviderTicks /\ insFill.left \in Nat
         /\ insCall \in [Bearers -> BearerCalls]
         /\ \A c \in Bearers : /\ insCall[c] \in BearerCalls /\ insCall[c].st \in BearerStates
                               /\ insCall[c].left \in 0 .. BudgetTicks /\ insCall[c].left \in Nat
<1>1. insCall \in [Bearers -> BearerCalls]
  BY DEF InsTypeOK, BearerCalls, BearerStates
<1>2. \A y \in BearerCalls : y.st \in BearerStates /\ y.left \in 0 .. BudgetTicks /\ y.left \in Nat
  BY InsBounds DEF BearerCalls
<1>3. \A c \in Bearers : insCall[c] \in BearerCalls
  BY <1>1
<1>4. /\ insToken.life \in 0 .. MaxLife /\ insToken.revoked \in 0 .. RevocationTicks + 2
      /\ insRetained \in 0 .. RetainTicks
      /\ insFill.leader \in Bearers \cup {NoBearer} /\ insFill.active \in BOOLEAN
      /\ insFill.left \in 0 .. ProviderTicks
  BY DEF InsTypeOK
<1>5. RevocationTicks + 2 \in Nat
  BY InsBounds DEF RevocationTicks
<1> QED BY <1>1, <1>2, <1>3, <1>4, <1>5, InsBounds

\* One request moves and nothing else: what it then holds is all there is to show.
LEMMA OneBearer ==
  ASSUME InsInv, NEW c \in Bearers, NEW y \in BearerCalls, insCall' = [insCall EXCEPT ![c] = y],
         Held(y, insToken.revoked), UNCHANGED <<insOptions, insToken, insRetained, insFill>>
  PROVE  InsInv'
<1>1. insCall \in [Bearers -> BearerCalls] /\ InsTypeOK
  BY InsFields DEF InsInv
<1>2. insCall' \in [Bearers -> BearerCalls] /\ \A x \in Bearers : insCall'[x] = IF x = c THEN y ELSE insCall[x]
  BY <1>1
<1>3. InsTypeOK'
  BY <1>1, <1>2 DEF InsTypeOK, BearerCalls, BearerStates
<1>4. HeldSays'
  <2>1. \A x \in Bearers : Held(insCall[x], insToken.revoked)
    BY DEF InsInv, HeldSays
  <2>2. \A x \in Bearers : Held(insCall'[x], insToken.revoked)
    BY <1>2, <2>1
  <2> QED BY <2>2 DEF HeldSays
<1>5. RetainedSays' /\ FillSays'
  BY DEF InsInv, RetainedSays, FillSays
<1> QED BY <1>3, <1>4, <1>5 DEF InsInv

\* A request that was answered holds nothing.
LEMMA AnsweredHolds ==
  ASSUME NEW o \in Outcomes, NEW r
  PROVE  [st |-> o, left |-> 0] \in BearerCalls /\ Held([st |-> o, left |-> 0], r)
<1>1. o # "fresh" /\ o # "retained"
  BY DEF Outcomes
<1>2. 0 \in 0 .. BudgetTicks
  BY InsBounds
<1> QED BY <1>1, <1>2 DEF BearerCalls, BearerStates, Held

LEMMA OutcomeIs ==
  ASSUME NEW v
  PROVE  /\ Outcome(v) \in Outcomes /\ (Outcome(v) = "accepted" <=> v = "ok")
BY DEF Outcome, Outcomes

LEMMA ToldKeeps ==
  ASSUME InsInv, NEW c \in Bearers, NEW o \in Outcomes, insCall' = Told(c, o),
         UNCHANGED <<insOptions, insToken, insRetained, insFill>>
  PROVE  InsInv'
BY AnsweredHolds, OneBearer DEF Told

\* A request that only changes state to one in which it holds nothing
LEMMA MoveKeeps ==
  ASSUME InsInv, NEW c \in Bearers, NEW s \in {"enter", "missed", "fill", "direct"},
         insCall' = [insCall EXCEPT ![c].st = s],
         UNCHANGED <<insOptions, insToken, insRetained, insFill>>
  PROVE  InsInv'
<1> DEFINE y == [insCall[c] EXCEPT !.st = s]
<1>1. insCall[c] \in BearerCalls
  BY InsFields DEF InsInv
<1>2. s \in BearerStates
  BY DEF BearerStates, Pending
<1>3. y \in BearerCalls /\ y.st = s
  BY <1>1, <1>2 DEF BearerCalls
<1>4. Held(y, insToken.revoked)
  BY <1>3 DEF Held
<1>5. insCall' = [insCall EXCEPT ![c] = y]
  OBVIOUS
<1> HIDE DEF y
<1> QED BY <1>3, <1>4, <1>5, OneBearer

\* The result of a fill reaches its leader and everyone who waits.
LEMMA ToldAllHolds ==
  ASSUME InsInv, NEW c \in Bearers, NEW s \in BearerStates,
         \A x \in Bearers : Held([st |-> s, left |-> insCall[x].left], insToken.revoked)
  PROVE  /\ ToldAll(c, s) \in [Bearers -> BearerCalls]
         /\ \A x \in Bearers : Held(ToldAll(c, s)[x], insToken.revoked)
         /\ s # "accepted" => \A x \in Bearers : insCall[x].st \in Pending => ToldAll(c, s)[x].st # "accepted"
<1> DEFINE y(x) == [st |-> s, left |-> IF s \in Outcomes THEN 0 ELSE insCall[x].left]
           z(x) == IF x # c /\ insCall[x].st # "fill" THEN insCall[x] ELSE y(x)
<1>1. \A x \in Bearers : insCall[x] \in BearerCalls /\ insCall[x].left \in 0 .. BudgetTicks
  BY InsFields DEF InsInv
<1>2. \A x \in Bearers : Held(insCall[x], insToken.revoked)
  BY DEF InsInv, HeldSays
<1>3. ASSUME NEW x \in Bearers PROVE y(x) \in BearerCalls /\ Held(y(x), insToken.revoked) /\ y(x).st = s
  <2>1. CASE s \in Outcomes
    BY <2>1, AnsweredHolds
  <2>2. CASE s \notin Outcomes
    <3>1. y(x) = [st |-> s, left |-> insCall[x].left]
      BY <2>2
    <3>2. [st |-> s, left |-> insCall[x].left] \in BearerCalls
      BY <1>1 DEF BearerCalls
    <3> QED BY <3>1, <3>2
  <2> QED BY <2>1, <2>2
<1> HIDE DEF y
<1>4. \A x \in Bearers : /\ z(x) \in BearerCalls /\ Held(z(x), insToken.revoked)
                         /\ z(x).st = s \/ z(x).st = insCall[x].st
  BY <1>1, <1>2, <1>3
<1>5. ToldAll(c, s) = [x \in Bearers |-> z(x)]
  BY DEF ToldAll, y
<1> HIDE DEF z
<1>6. \A x \in Bearers : ToldAll(c, s)[x] = z(x)
  BY <1>5
<1>7. ToldAll(c, s) \in [Bearers -> BearerCalls]
  BY <1>4, <1>5
<1>8. "accepted" \notin Pending
  BY DEF Pending
<1> QED BY <1>4, <1>6, <1>7, <1>8

LEMMA ToldAllKeeps ==
  ASSUME InsInv, NEW c \in Bearers, NEW s \in BearerStates,
         \A x \in Bearers : Held([st |-> s, left |-> insCall[x].left], insToken.revoked),
         insCall' = ToldAll(c, s), UNCHANGED <<insOptions, insToken>>,
         insRetained' \in 0 .. RetainTicks, RetainedSays',
         insFill' \in [leader: Bearers \cup {NoBearer}, active: BOOLEAN, left: 0 .. ProviderTicks],
         FillSays'
  PROVE  InsInv'
<1>1. insCall' \in [Bearers -> BearerCalls] /\ \A x \in Bearers : Held(insCall'[x], insToken.revoked)
  BY ToldAllHolds
<1>2. InsTypeOK'
  BY <1>1 DEF InsInv, InsTypeOK, BearerCalls, BearerStates
<1>3. HeldSays'
  BY <1>1 DEF HeldSays
<1> QED BY <1>2, <1>3 DEF InsInv

LEMMA InsStart == InsInit => InsInv
<1> SUFFICES ASSUME InsInit PROVE InsInv
  OBVIOUS
<1>1. InsTypeOK
  <2>1. 0 \in 0 .. RevocationTicks + 2 /\ MaxLife \in 0 .. MaxLife /\ 0 \in 0 .. RetainTicks
        /\ 0 \in 0 .. ProviderTicks /\ 0 \in 0 .. BudgetTicks
    BY InsBounds DEF RevocationTicks
  <2>2. "refused" \in Pending \cup Outcomes
    BY DEF Outcomes
  <2> QED BY <2>1, <2>2 DEF InsInit, InsTypeOK, NoFill
<1>2. RetainedSays
  BY DEF InsInit, RetainedSays
<1>3. FillSays
  BY DEF InsInit, FillSays, NoFill
<1>4. HeldSays
  BY DEF InsInit, HeldSays, Held
<1> QED BY <1>1, <1>2, <1>3, <1>4 DEF InsInv

\* What one step of a request may do to the bound
Justly(c) ==
    insCall[c].st \in Pending /\ insCall'[c].st = "accepted"
      => insToken.life > 0 /\ insToken.revoked <= RevocationTicks + 1

\* Only the request that moves may be accepted.
LEMMA OnlyMover ==
  ASSUME InsInv, NEW c \in Bearers, NEW y, insCall' = [insCall EXCEPT ![c] = y],
         y.st = "accepted" => insToken.life > 0 /\ insToken.revoked <= RevocationTicks + 1
  PROVE  \A x \in Bearers : Justly(x)
<1>1. insCall \in [Bearers -> BearerCalls]
  BY InsFields DEF InsInv
<1>2. "accepted" \notin Pending
  BY DEF Pending
<1> QED BY <1>1, <1>2 DEF Justly

LEMMA ToldJustly ==
  ASSUME InsInv, NEW c \in Bearers, NEW o, insCall' = Told(c, o),
         o = "accepted" => insToken.life > 0 /\ insToken.revoked <= RevocationTicks + 1
  PROVE  \A x \in Bearers : Justly(x)
BY OnlyMover DEF Told

LEMMA MoveJustly ==
  ASSUME InsInv, NEW c \in Bearers, NEW s, s # "accepted", insCall' = [insCall EXCEPT ![c].st = s]
  PROVE  \A x \in Bearers : Justly(x)
<1> DEFINE y == [insCall[c] EXCEPT !.st = s]
<1>1. insCall[c] \in BearerCalls
  BY InsFields DEF InsInv
<1>2. y.st = s
  BY <1>1 DEF BearerCalls
<1>3. insCall' = [insCall EXCEPT ![c] = y]
  OBVIOUS
<1> HIDE DEF y
<1> QED BY <1>2, <1>3, OnlyMover

\* A retained result that may be reused is within the bound.
LEMMA RetainedJustly ==
  ASSUME InsInv, insRetained > 0, Reusable
  PROVE  insToken.life > 0 /\ insToken.revoked <= RevocationTicks + 1
BY InsFields, InsBounds DEF InsInv, RetainedSays, Reusable, RevocationTicks

\* InsLead: the retained result again, no permit, or the exchange.
LEMMA LeadKeeps ==
  ASSUME InsInv, NEW c \in Bearers, InsLead(c)
  PROVE  InsInv' /\ \A x \in Bearers : Justly(x)
<1> USE DEF InsLead
<1>1. CASE insRetained > 0 /\ Reusable /\ insCall' = ToldAll(c, "retained") /\ UNCHANGED insFill
  <2>1. "retained" \in BearerStates
    BY DEF BearerStates, Pending
  <2>2. ASSUME NEW x \in Bearers
        PROVE  Held([st |-> "retained", left |-> insCall[x].left], insToken.revoked)
    BY <1>1, InsFields, InsBounds DEF InsInv, RetainedSays, Held
  <2>3. RetainedSays' /\ FillSays'
    BY <1>1 DEF InsInv, RetainedSays, FillSays
  <2>4. InsInv'
    BY <1>1, <2>1, <2>2, <2>3, ToldAllKeeps DEF InsInv, InsTypeOK
  <2>5. \A x \in Bearers : Justly(x)
    BY <1>1, <2>1, <2>2, ToldAllHolds DEF Justly
  <2> QED BY <2>4, <2>5
<1>2. CASE insCall' = ToldAll(c, "unavailable") /\ UNCHANGED insFill
  <2>1. "unavailable" \in BearerStates
    BY DEF BearerStates, Outcomes
  <2>2. ASSUME NEW x \in Bearers
        PROVE  Held([st |-> "unavailable", left |-> insCall[x].left], insToken.revoked)
    BY DEF Held
  <2>3. RetainedSays' /\ FillSays'
    BY <1>2 DEF InsInv, RetainedSays, FillSays
  <2>4. InsInv'
    BY <1>2, <2>1, <2>2, <2>3, ToldAllKeeps DEF InsInv, InsTypeOK
  <2>5. \A x \in Bearers : Justly(x)
    BY <1>2, <2>1, <2>2, ToldAllHolds DEF Justly
  <2> QED BY <2>4, <2>5
<1>3. CASE insFill' = Asked(c) /\ insCall' = [insCall EXCEPT ![c].st = "fill"]
  <2> DEFINE y == [insCall[c] EXCEPT !.st = "fill"]
  <2>1. insCall[c] \in BearerCalls /\ insCall \in [Bearers -> BearerCalls]
    BY InsFields DEF InsInv
  <2>2. y \in BearerCalls /\ y.st = "fill"
    BY <2>1 DEF BearerCalls, BearerStates, Pending
  <2>3. insCall' = [insCall EXCEPT ![c] = y]
    BY <1>3
  <2>4. Held(y, insToken.revoked)
    BY <2>2 DEF Held
  <2> HIDE DEF y
  <2>5. insCall' \in [Bearers -> BearerCalls] /\ \A x \in Bearers : insCall'[x] = IF x = c THEN y ELSE insCall[x]
    BY <2>1, <2>2, <2>3
  <2>6. HeldSays'
    BY <2>4, <2>5 DEF InsInv, HeldSays
  <2>7. /\ insFill'.leader = c /\ insFill'.left = ProviderTicks /\ (insFill'.active <=> insToken.revoked = 0)
        /\ insFill' \in [leader: Bearers \cup {NoBearer}, active: BOOLEAN, left: 0 .. ProviderTicks]
    <3> DEFINE act == insToken.revoked = 0
    <3>1. insFill' = [leader |-> c, active |-> act, left |-> ProviderTicks]
      BY <1>3 DEF Asked
    <3>2. act \in BOOLEAN /\ (act <=> insToken.revoked = 0)
      OBVIOUS
    <3> HIDE DEF act
    <3> QED BY <3>1, <3>2, InsBounds
  <2>8. FillSays'
    BY <2>7, InsBounds DEF FillSays
  <2>9. InsTypeOK' /\ RetainedSays'
    BY <2>5, <2>7 DEF InsInv, InsTypeOK, RetainedSays, BearerCalls, BearerStates
  <2>10. \A x \in Bearers : Justly(x)
    BY <1>3, MoveJustly
  <2> QED BY <2>6, <2>8, <2>9, <2>10 DEF InsInv
<1> QED BY <1>1, <1>2, <1>3

\* InsFilled: what an exchange brought is no older than the exchange.
LEMMA FilledKeeps ==
  ASSUME InsInv, InsFilled
  PROVE  InsInv' /\ \A x \in Bearers : Justly(x)
<1>1. PICK v \in ProviderVerdicts(insFill.active) :
          IF v = "ok"
          THEN insRetained' = Retention /\ insCall' = ToldAll(insFill.leader, "fresh")
          ELSE insCall' = ToldAll(insFill.leader, Outcome(v)) /\ UNCHANGED insRetained
  BY DEF InsFilled
<1>2. insFill.leader \in Bearers /\ insFill.leader # NoBearer
  BY InsFields DEF InsFilled, InsInv
<1>3. UNCHANGED <<insOptions, insToken>> /\ insFill' = NoFill
  BY DEF InsFilled
<1>4. /\ insFill' \in [leader: Bearers \cup {NoBearer}, active: BOOLEAN, left: 0 .. ProviderTicks]
      /\ FillSays'
  BY <1>3, InsBounds DEF NoFill, FillSays
<1>5. CASE v = "ok"
  <2>1. insFill.active /\ insToken.life # 0
    BY <1>1, <1>5, VerdictIs, InsFields DEF InsInv
  <2>2. insToken.revoked <= ProviderTicks + 1
    BY <1>2, <2>1, InsFields, InsBounds DEF InsInv, FillSays
  <2>3. insRetained' \in 0 .. RetainTicks
    <3>1. Retention \in 0 .. RetainTicks
      BY InsFields, InsBounds DEF InsInv, Retention, Reusable
    <3> QED BY <1>1, <1>5, <3>1
  <2>4. RetainedSays'
    BY <1>3, <2>2, <2>3, InsFields, InsBounds DEF InsInv, RetainedSays
  <2>5. "fresh" \in BearerStates
    BY DEF BearerStates, Pending
  <2>6. ASSUME NEW x \in Bearers
        PROVE  Held([st |-> "fresh", left |-> insCall[x].left], insToken.revoked)
    <3>1. insCall[x].left \in Nat /\ insCall[x].left <= BudgetTicks /\ insToken.revoked \in Nat
      BY InsFields DEF InsInv
    <3> QED BY <2>2, <3>1, InsBounds DEF Held
  <2>7. insCall' = ToldAll(insFill.leader, "fresh")
    BY <1>1, <1>5
  <2>8. InsInv'
    BY <1>2, <1>3, <1>4, <2>3, <2>4, <2>5, <2>6, <2>7, ToldAllKeeps
  <2>9. \A x \in Bearers : Justly(x)
    BY <1>2, <2>5, <2>6, <2>7, ToldAllHolds DEF Justly
  <2> QED BY <2>8, <2>9
<1>6. CASE v # "ok"
  <2> DEFINE o == Outcome(v)
  <2>1. o \in Outcomes /\ o # "accepted"
    BY <1>6, OutcomeIs
  <2>2. insCall' = ToldAll(insFill.leader, o) /\ UNCHANGED insRetained
    BY <1>1, <1>6
  <2> HIDE DEF o
  <2>3. o \in BearerStates /\ o # "fresh" /\ o # "retained"
    BY <2>1 DEF BearerStates, Outcomes
  <2>4. ASSUME NEW x \in Bearers
        PROVE  Held([st |-> o, left |-> insCall[x].left], insToken.revoked)
    BY <2>3 DEF Held
  <2>5. insRetained' \in 0 .. RetainTicks /\ RetainedSays'
    BY <1>3, <2>2 DEF InsInv, InsTypeOK, RetainedSays
  <2>6. InsInv'
    BY <1>2, <1>3, <1>4, <2>2, <2>3, <2>4, <2>5, ToldAllKeeps
  <2>7. \A x \in Bearers : Justly(x)
    BY <1>2, <2>1, <2>2, <2>3, <2>4, ToldAllHolds DEF Justly
  <2> QED BY <2>6, <2>7
<1> QED BY <1>5, <1>6

\* InsDeliver: what the fill handed over, checked again against exp.
LEMMA DeliverKeeps ==
  ASSUME InsInv, NEW c \in Bearers, InsDeliver(c)
  PROVE  InsInv' /\ \A x \in Bearers : Justly(x)
<1> USE DEF InsDeliver
<1>1. /\ insCall[c].left \in Nat /\ insToken.revoked \in Nat /\ insToken.life \in Nat
      /\ Held(insCall[c], insToken.revoked)
  BY InsFields DEF InsInv, HeldSays
<1>2. CASE insCall[c].st = "fresh" /\ insCall' = Told(c, IF insToken.life > 0 THEN "accepted" ELSE "refused")
  <2> DEFINE o == IF insToken.life > 0 THEN "accepted" ELSE "refused"
  <2>1. o \in Outcomes /\ (o = "accepted" => insToken.life > 0)
    BY DEF Outcomes
  <2>2. insCall' = Told(c, o)
    BY <1>2
  <2> HIDE DEF o
  <2>3. insToken.revoked <= RevocationTicks + 1
    BY <1>1, <1>2, InsBounds DEF Held, RevocationTicks
  <2>4. InsInv'
    BY <2>1, <2>2, ToldKeeps
  <2>5. \A x \in Bearers : Justly(x)
    BY <2>1, <2>2, <2>3, ToldJustly
  <2> QED BY <2>4, <2>5
<1>3. CASE insCall[c].st = "retained" /\ Reusable /\ insCall' = Told(c, "accepted")
  <2>1. insToken.life > 0 /\ insToken.revoked <= RevocationTicks + 1
    BY <1>1, <1>3, InsBounds DEF Held, RevocationTicks, Reusable
  <2>2. "accepted" \in Outcomes
    BY DEF Outcomes
  <2> QED BY <1>3, <2>1, <2>2, ToldKeeps, ToldJustly
<1>4. CASE insCall' = [insCall EXCEPT ![c].st = "enter"]
  BY <1>4, MoveKeeps, MoveJustly
<1> QED BY <1>2, <1>3, <1>4

\* InsDrop: the leader's fill goes with it.
LEMMA DropKeeps ==
  ASSUME InsInv, NEW c \in Bearers, InsDrop(c)
  PROVE  InsInv' /\ \A x \in Bearers : Justly(x)
<1> DEFINE y == [st |-> "unavailable", left |-> 0]
<1>1. insCall' = [insCall EXCEPT ![c] = y] /\ UNCHANGED <<insOptions, insToken, insRetained>>
  BY DEF InsDrop, Told
<1>2. insFill' = NoFill \/ insFill' = insFill
  BY DEF InsDrop
<1>3. y \in BearerCalls /\ Held(y, insToken.revoked) /\ y.st # "accepted"
  BY AnsweredHolds DEF Outcomes
<1> HIDE DEF y
<1>4. insCall \in [Bearers -> BearerCalls]
  BY InsFields DEF InsInv
<1>5. insCall' \in [Bearers -> BearerCalls] /\ \A x \in Bearers : insCall'[x] = IF x = c THEN y ELSE insCall[x]
  BY <1>1, <1>3, <1>4
<1>6. HeldSays' /\ RetainedSays'
  BY <1>1, <1>3, <1>5 DEF InsInv, HeldSays, RetainedSays
<1>7. /\ insFill' \in [leader: Bearers \cup {NoBearer}, active: BOOLEAN, left: 0 .. ProviderTicks]
      /\ FillSays'
  <2>1. CASE insFill' = NoFill
    BY <2>1, InsBounds DEF NoFill, FillSays
  <2>2. CASE insFill' = insFill
    BY <1>1, <2>2 DEF InsInv, InsTypeOK, FillSays
  <2> QED BY <1>2, <2>1, <2>2
<1>8. InsTypeOK'
  BY <1>1, <1>5, <1>7 DEF InsInv, InsTypeOK, BearerCalls, BearerStates
<1>9. \A x \in Bearers : Justly(x)
  BY <1>1, <1>3, OnlyMover
<1> QED BY <1>6, <1>7, <1>8, <1>9 DEF InsInv

\* Revoke: nothing that is held was revoked before.
LEMMA RevokeKeeps ==
  ASSUME InsInv, Revoke
  PROVE  InsInv' /\ \A x \in Bearers : Justly(x)
<1>1. insToken.revoked = 0 /\ UNCHANGED <<insOptions, insRetained, insFill, insCall>>
  BY DEF Revoke
<1>2. insToken'.revoked = 1 /\ insToken' \in [life: 0 .. MaxLife, revoked: 0 .. RevocationTicks + 2]
  <2>1. 1 \in 0 .. RevocationTicks + 2
    BY InsBounds DEF RevocationTicks
  <2> QED BY <2>1 DEF Revoke, InsInv, InsTypeOK
<1>3. InsTypeOK'
  BY <1>1, <1>2 DEF InsInv, InsTypeOK
<1>4. RetainedSays'
  BY <1>1, <1>2, InsFields, InsBounds DEF InsInv, RetainedSays
<1>5. FillSays'
  BY <1>1, <1>2, InsFields, InsBounds DEF InsInv, FillSays
<1>6. HeldSays'
  <2>1. ASSUME NEW x \in Bearers PROVE Held(insCall[x], 1)
    <3>1. insCall[x].left \in Nat /\ insCall[x].left <= BudgetTicks
      BY InsFields DEF InsInv
    <3> QED BY <3>1, InsBounds DEF Held
  <2> QED BY <1>1, <1>2, <2>1 DEF HeldSays
<1>7. \A x \in Bearers : Justly(x)
  BY <1>1 DEF Justly, Pending
<1> QED BY <1>3, <1>4, <1>5, <1>6, <1>7 DEF InsInv

LEMMA OneLessIs ==
  ASSUME NEW n \in Nat
  PROVE  OneLess(n) \in Nat /\ OneLess(n) <= n /\ (n > 0 => OneLess(n) = n - 1) /\ (OneLess(n) > 0 => n > 0)
BY DEF OneLess

\* InsTick: every tick of the token's end is a tick of the budget that still holds it.
LEMMA TimeKeeps ==
  ASSUME InsInv, InsTick
  PROVE  InsInv' /\ \A x \in Bearers : Justly(x)
<1> DEFINE r == IF insToken.revoked \in 1 .. RevocationTicks + 1
                THEN insToken.revoked + 1 ELSE insToken.revoked
           life == OneLess(insToken.life)
           kept == OneLess(insRetained)
           fleft == OneLess(insFill.left)
           left(x) == OneLess(insCall[x].left)
           y(x) == [insCall[x] EXCEPT !.left = left(x)]
<1>1. /\ insToken.life \in Nat /\ insToken.revoked \in Nat /\ insRetained \in Nat /\ insFill.left \in Nat
      /\ insRetained <= RetainTicks /\ insFill.left <= ProviderTicks /\ insToken.life <= MaxLife
      /\ insToken.revoked <= RevocationTicks + 2 /\ RevocationTicks \in Nat
  BY InsFields, InsBounds DEF InsInv, RevocationTicks
<1>2. /\ insToken' = [life |-> life, revoked |-> r] /\ insRetained' = kept
      /\ insFill' = [insFill EXCEPT !.left = fleft] /\ insCall' = [x \in Bearers |-> y(x)]
      /\ UNCHANGED insOptions
  BY DEF InsTick
<1>3. r \in 0 .. RevocationTicks + 2 /\ r <= insToken.revoked + 1 /\ r \in Nat
  BY <1>1
<1>4. /\ life \in 0 .. MaxLife /\ kept \in 0 .. RetainTicks /\ fleft \in 0 .. ProviderTicks
      /\ (kept > 0 => insRetained > 0 /\ kept = insRetained - 1) /\ kept \in Nat /\ fleft \in Nat
      /\ (insFill.left > 0 => fleft = insFill.left - 1)
  BY <1>1, OneLessIs, InsBounds
<1>5. ASSUME NEW x \in Bearers
      PROVE  /\ left(x) \in 0 .. BudgetTicks /\ left(x) \in Nat
             /\ (insCall[x].st \in Pending => insCall[x].left > 0 /\ left(x) = insCall[x].left - 1)
  <2>1. insCall[x].left \in Nat /\ insCall[x].left <= BudgetTicks
    BY InsFields DEF InsInv
  <2>2. insCall[x].st \in Pending => insCall[x].left > 0
    BY DEF InsTick
  <2> QED BY <2>1, <2>2, OneLessIs, InsBounds
<1> HIDE DEF r, life, kept, fleft, left
<1>6. ASSUME NEW x \in Bearers
      PROVE  y(x) \in BearerCalls /\ y(x).st = insCall[x].st /\ y(x).left = left(x)
  <2>1. insCall[x] \in BearerCalls
    BY InsFields DEF InsInv
  <2> QED BY <1>5, <2>1 DEF BearerCalls
<1> HIDE DEF y
<1>7. insToken'.revoked = r /\ insToken' \in [life: 0 .. MaxLife, revoked: 0 .. RevocationTicks + 2]
  BY <1>2, <1>3, <1>4
<1>8. /\ insFill' \in [leader: Bearers \cup {NoBearer}, active: BOOLEAN, left: 0 .. ProviderTicks]
      /\ insFill'.left = fleft /\ insFill'.leader = insFill.leader /\ insFill'.active = insFill.active
  BY <1>2, <1>4 DEF InsInv, InsTypeOK
<1>9. insCall' \in [Bearers -> BearerCalls] /\ \A x \in Bearers : insCall'[x] = y(x)
  BY <1>2, <1>6
<1>10. InsTypeOK'
  BY <1>2, <1>4, <1>7, <1>8, <1>9 DEF InsInv, InsTypeOK, BearerCalls, BearerStates
<1>11. RetainedSays'
  BY <1>1, <1>2, <1>3, <1>4, <1>7, InsBounds DEF InsInv, RetainedSays
<1>12. FillSays'
  BY <1>1, <1>3, <1>4, <1>7, <1>8, InsBounds DEF InsInv, FillSays, InsTick
<1>13. HeldSays'
  <2>1. ASSUME NEW x \in Bearers PROVE Held(y(x), r)
    <3>1. Held(insCall[x], insToken.revoked) /\ insCall[x].left \in Nat
      BY InsFields DEF InsInv, HeldSays
    <3>2. "fresh" \in Pending /\ "retained" \in Pending
      BY DEF Pending
    <3> QED BY <1>1, <1>3, <1>5, <1>6, <3>1, <3>2, InsBounds DEF Held
  <2> QED BY <1>7, <1>9, <2>1 DEF HeldSays
<1>14. \A x \in Bearers : Justly(x)
  BY <1>6, <1>9 DEF Justly, Pending
<1> QED BY <1>10, <1>11, <1>12, <1>13, <1>14 DEF InsInv

LEMMA InsStep ==
  ASSUME InsInv, InsNext
  PROVE  InsInv' /\ \A x \in Bearers : Justly(x)
<1>1. ASSUME NEW c \in Bearers, InsEnter(c) PROVE InsInv' /\ \A x \in Bearers : Justly(x)
  <2> DEFINE y == [st |-> "enter", left |-> BudgetTicks]
  <2>1. insCall' = [insCall EXCEPT ![c] = y] /\ UNCHANGED <<insOptions, insToken, insRetained, insFill>>
    BY <1>1 DEF InsEnter
  <2>2. y \in BearerCalls /\ Held(y, insToken.revoked) /\ y.st # "accepted"
    BY InsBounds DEF BearerCalls, BearerStates, Pending, Held
  <2> HIDE DEF y
  <2> QED BY <2>1, <2>2, OneBearer, OnlyMover
<1>2. ASSUME NEW c \in Bearers, InsLook(c) PROVE InsInv' /\ \A x \in Bearers : Justly(x)
  <2>1. UNCHANGED <<insOptions, insToken, insRetained, insFill>>
    BY <1>2 DEF InsLook
  <2>2. CASE insRetained > 0 /\ Reusable
    <3>1. insCall' = Told(c, "accepted") /\ "accepted" \in Outcomes
      BY <1>2, <2>2 DEF InsLook, Outcomes
    <3> QED BY <2>1, <2>2, <3>1, RetainedJustly, ToldKeeps, ToldJustly
  <2>3. CASE ~(insRetained > 0 /\ Reusable)
    <3> DEFINE s == IF insOptions.cache THEN "missed" ELSE "direct"
    <3>1. insCall' = [insCall EXCEPT ![c].st = s]
      BY <1>2, <2>3 DEF InsLook
    <3>2. s \in {"enter", "missed", "fill", "direct"} /\ s # "accepted"
      OBVIOUS
    <3> HIDE DEF s
    <3> QED BY <2>1, <3>1, <3>2, MoveKeeps, MoveJustly
  <2> QED BY <2>2, <2>3
<1>3. ASSUME NEW c \in Bearers, InsDirect(c) PROVE InsInv' /\ \A x \in Bearers : Justly(x)
  <2>1. UNCHANGED <<insOptions, insToken, insRetained, insFill>>
    BY <1>3 DEF InsDirect
  <2>2. CASE insCall' = Told(c, "unavailable")
    <3>1. "unavailable" \in Outcomes
      BY DEF Outcomes
    <3> QED BY <2>1, <2>2, <3>1, ToldKeeps, ToldJustly
  <2>3. CASE \E v \in ProviderVerdicts(insToken.revoked = 0) : insCall' = Told(c, Outcome(v))
    <3>1. PICK v \in ProviderVerdicts(insToken.revoked = 0) : insCall' = Told(c, Outcome(v))
      BY <2>3
    <3>2. Outcome(v) = "accepted" => insToken.life > 0 /\ insToken.revoked <= RevocationTicks + 1
      <4> SUFFICES ASSUME Outcome(v) = "accepted"
                   PROVE  insToken.life > 0 /\ insToken.revoked <= RevocationTicks + 1
        OBVIOUS
      <4>1. "ok" \in ProviderVerdicts(insToken.revoked = 0)
        BY <3>1, OutcomeIs
      <4>2. (insToken.revoked = 0) \in BOOLEAN
        OBVIOUS
      <4>3. insToken.revoked = 0 /\ insToken.life # 0
        BY <4>1, <4>2, VerdictIs
      <4> QED BY <4>3, InsFields, InsBounds DEF InsInv, RevocationTicks
    <3> QED BY <2>1, <3>1, <3>2, OutcomeIs, ToldKeeps, ToldJustly
  <2> QED BY <1>3, <2>2, <2>3 DEF InsDirect
<1>4. ASSUME NEW c \in Bearers, InsJoin(c) PROVE InsInv' /\ \A x \in Bearers : Justly(x)
  BY <1>4, MoveKeeps, MoveJustly DEF InsJoin
<1>5. ASSUME NEW c \in Bearers, InsLead(c) PROVE InsInv' /\ \A x \in Bearers : Justly(x)
  BY <1>5, LeadKeeps
<1>6. ASSUME NEW c \in Bearers, InsDeliver(c) PROVE InsInv' /\ \A x \in Bearers : Justly(x)
  BY <1>6, DeliverKeeps
<1>7. ASSUME NEW c \in Bearers, InsDrop(c) PROVE InsInv' /\ \A x \in Bearers : Justly(x)
  BY <1>7, DropKeeps
<1> QED BY <1>1, <1>2, <1>3, <1>4, <1>5, <1>6, <1>7, FilledKeeps, RevokeKeeps, TimeKeeps DEF InsNext

\* However fills are shared, abandoned and taken over, a revoked token is accepted for at
\* most the retention plus one exchange plus one request's budget, and one past exp and
\* leeway never (verify_with_now, Retention).
THEOREM RevocationSafe == InsSpec => RevocationBound
<1>1. InsInit => InsInv
  BY InsStart
<1>2. InsInv /\ [InsNext]_insVars
        => /\ InsInv'
           /\ [/\ InsTypeOK
               /\ \A c \in Bearers :
                    insCall[c].st \in Pending /\ insCall'[c].st = "accepted"
                      => insToken.life > 0 /\ insToken.revoked <= RevocationTicks + 1]_insVars
  <2>1. CASE InsInv /\ InsNext
    BY <2>1, InsStep DEF InsInv, Justly
  <2>2. CASE InsInv /\ UNCHANGED insVars
    BY <2>2 DEF InsInv, insVars, InsTypeOK, RetainedSays, FillSays, HeldSays
  <2> QED BY <2>1, <2>2
<1> QED BY <1>1, <1>2, PTL DEF InsSpec, RevocationBound

-----------------------------------------------------------------------------
(* Token exchange: sharing hurts nobody *)

ExSpec == ExInit /\ [][ExNext]_exVars

ActorStates == Busy \cup Rests
ActorCalls == [st: ActorStates, token: Nat, left: Nat, age: Nat, once: BOOLEAN, fresh: BOOLEAN, budget: Nat,
               fetch: Nat, in: Nat]
Entries == [token: Nat, left: Nat, age: Nat, once: BOOLEAN]

ExTyped ==
    /\ exOwner \in {"new", "refused", "open"} /\ exIssued \in 0 .. MaxTokens
    /\ exCached \in Entries /\ exLeader \in Actors \cup {NoActor} /\ exCall \in [Actors -> ActorCalls]

\* A token good for one request only cannot be reused; whoever uses it got it first, and
\* whoever has or uses a token has one that was issued.  A turn's fetch_deadline is the
\* caller's own deadline, or FETCH_TIMEOUT after the turn began.
Sound(y) ==
    /\ y.st \in Acquiring => y.fetch <= y.budget /\ (y.fetch < y.budget => y.fetch + y.in = FetchTicks)
    /\ y.once => y.left = 0
    /\ y.st \in {"got", "using"} => y.token # 0
    /\ y.st = "using" /\ y.once => y.fresh

\* Two holders of the same token agree on what it is good for.
Agree(y, z) == y.token # 0 /\ y.token = z.token => (y.once <=> z.once)

\* Whoever leads the exchange waits for it.
LeadSays == exLeader # NoActor => exCall[exLeader].st = "wait"

HoldersSay ==
    /\ \A c \in Actors : Sound(exCall[c]) /\ exCall[c].token <= exIssued /\ Agree(exCall[c], exCached)
    /\ \A c, d \in Actors : Agree(exCall[c], exCall[d])

\* Only one caller got it first.
OneFresh ==
    \A c, d \in Actors :
       exCall[c].fresh /\ exCall[d].fresh /\ exCall[c].token # 0 /\ exCall[c].token = exCall[d].token => c = d

EntrySays == exCached.token <= exIssued /\ (exCached.once => exCached.left = 0)

ExInv == ExTyped /\ LeadSays /\ HoldersSay /\ OneFresh /\ EntrySays

LEMMA ExBounds ==
  /\ FetchTicks \in Nat /\ ActorBudgets \subseteq Nat /\ EvictAge \in Nat /\ MaxTokens \in Nat
  /\ ReuseLives \subseteq Nat /\ NoActor \notin Actors
BY TokenExchangeAssumption

LEMMA ExFields ==
  ASSUME ExTyped
  PROVE  /\ exIssued \in Nat /\ exIssued <= MaxTokens
         /\ exCached.token \in Nat /\ exCached.left \in Nat /\ exCached.age \in Nat /\ exCached.once \in BOOLEAN
         /\ exLeader \in Actors \cup {NoActor}
         /\ \A c \in Actors :
              /\ exCall[c] \in ActorCalls /\ exCall[c].st \in ActorStates /\ exCall[c].token \in Nat
              /\ exCall[c].left \in Nat /\ exCall[c].age \in Nat /\ exCall[c].once \in BOOLEAN
              /\ exCall[c].fresh \in BOOLEAN /\ exCall[c].budget \in Nat
              /\ exCall[c].fetch \in Nat /\ exCall[c].in \in Nat
<1>1. \A y \in ActorCalls : /\ y.st \in ActorStates /\ y.token \in Nat /\ y.left \in Nat /\ y.age \in Nat
                            /\ y.once \in BOOLEAN /\ y.fresh \in BOOLEAN /\ y.budget \in Nat
                            /\ y.fetch \in Nat /\ y.in \in Nat
  BY DEF ActorCalls
<1>2. \A c \in Actors : exCall[c] \in ActorCalls
  BY DEF ExTyped
<1>3. /\ exCached.token \in Nat /\ exCached.left \in Nat /\ exCached.age \in Nat /\ exCached.once \in BOOLEAN
      /\ exLeader \in Actors \cup {NoActor}
  BY DEF ExTyped, Entries
<1>4. exIssued \in Nat /\ exIssued <= MaxTokens
  BY ExBounds DEF ExTyped
<1> QED BY <1>1, <1>2, <1>3, <1>4

\* Nothing is held by a caller at rest, and nothing is retained in an empty entry.
LEMMA RestingIs ==
  ASSUME NEW s \in ActorStates
  PROVE  /\ Resting(s) \in ActorCalls /\ Resting(s).st = s /\ Resting(s).token = 0 /\ ~Resting(s).fresh
         /\ Resting(s).budget = 0 /\ Resting(s).fetch = 0 /\ ~Resting(s).once /\ Resting(s).left = 0
         /\ s \notin {"got", "using"} => Sound(Resting(s))
BY DEF Resting, ActorCalls, Sound

LEMMA NoEntryIs == NoEntry \in Entries /\ NoEntry.token = 0 /\ ~NoEntry.once /\ NoEntry.left = 0
BY DEF NoEntry, Entries

\* A turn begins with a deadline no later than the caller's.
LEMMA EnteringIs ==
  ASSUME NEW b \in Nat
  PROVE  LET y == Entering(b)
         IN y \in ActorCalls /\ Sound(y) /\ y.token = 0 /\ y.st = "enter"
<1> DEFINE f == IF b < FetchTicks THEN b ELSE FetchTicks
           y == [Resting("enter") EXCEPT !.budget = b, !.fetch = f]
<1>1. f \in Nat /\ f <= b /\ (f < b => f = FetchTicks)
  BY ExBounds
<1>2. Entering(b) = y
  BY DEF Entering
<1> HIDE DEF f
<1>3. "enter" \in ActorStates
  BY DEF ActorStates, Busy, Acquiring
<1>4. /\ y \in ActorCalls /\ y.st = "enter" /\ y.token = 0 /\ y.budget = b /\ y.fetch = f /\ y.in = 0
      /\ y.once = FALSE /\ y.left = 0
  BY <1>1, <1>3 DEF Resting, ActorCalls
<1> HIDE DEF y
<1>5. Sound(y)
  BY <1>1, <1>4, ExBounds DEF Sound
<1> QED BY <1>2, <1>4, <1>5

\* Where a caller's token comes from: it has none, it keeps the one it has, or it takes
\* the entry's, of which it is not the first.
Origin(c, y) ==
    \/ y.token = 0
    \/ y.token = exCall[c].token /\ (y.once <=> exCall[c].once) /\ (y.fresh <=> exCall[c].fresh)
    \/ y.token = exCached.token /\ (y.once <=> exCached.once) /\ ~y.fresh

\* One caller moves.
LEMMA OneActor ==
  ASSUME ExInv, NEW c \in Actors, NEW y \in ActorCalls, exCall' = [exCall EXCEPT ![c] = y],
         Sound(y), Origin(c, y), exCached' \in {exCached, NoEntry}, UNCHANGED <<exOwner, exIssued>>,
         exLeader' \in Actors \cup {NoActor}, LeadSays'
  PROVE  ExInv'
<1>1. exCall \in [Actors -> ActorCalls]
  BY DEF ExInv, ExTyped
<1>2. exCall' \in [Actors -> ActorCalls] /\ \A x \in Actors : exCall'[x] = IF x = c THEN y ELSE exCall[x]
  BY <1>1
<1>3. exCached' \in Entries
  BY NoEntryIs DEF ExInv, ExTyped
<1>4. ExTyped'
  BY <1>2, <1>3 DEF ExInv, ExTyped
<1>5. EntrySays'
  BY NoEntryIs, ExFields DEF ExInv, EntrySays
<1>6. /\ \A x \in Actors : Sound(exCall[x]) /\ exCall[x].token <= exIssued /\ Agree(exCall[x], exCached)
      /\ \A x, d \in Actors : Agree(exCall[x], exCall[d])
      /\ exCached.token <= exIssued /\ exIssued \in Nat
  BY ExFields DEF ExInv, HoldersSay, EntrySays
<1>7. y.token <= exIssued /\ Agree(y, exCached) /\ \A d \in Actors : Agree(y, exCall[d]) /\ Agree(exCall[d], y)
  BY <1>6 DEF Origin, Agree
<1>8. \A z : Agree(z, exCached) => Agree(z, exCached')
  BY NoEntryIs DEF Agree
<1>9. Agree(y, y)
  BY DEF Agree
<1>10. HoldersSay'
  <2>1. \A x \in Actors : Sound(exCall'[x]) /\ exCall'[x].token <= exIssued /\ Agree(exCall'[x], exCached)
    BY <1>2, <1>6, <1>7
  <2>2. \A x, d \in Actors : Agree(exCall'[x], exCall'[d])
    BY <1>2, <1>6, <1>7, <1>9
  <2> QED BY <1>8, <2>1, <2>2 DEF HoldersSay
<1>11. OneFresh'
  <2>1. ASSUME NEW d \in Actors, d # c, y.fresh, exCall[d].fresh, y.token # 0, y.token = exCall[d].token
        PROVE  FALSE
    BY <2>1 DEF ExInv, OneFresh, Origin
  <2>2. \A x, d \in Actors : exCall'[x].fresh /\ exCall'[d].fresh /\ exCall'[x].token # 0
                                /\ exCall'[x].token = exCall'[d].token => x = d
    BY <1>2, <2>1 DEF ExInv, OneFresh
  <2> QED BY <2>2 DEF OneFresh
<1> QED BY <1>4, <1>5, <1>10, <1>11 DEF ExInv

\* What one step may do to the callers: the three clauses of SharingHurtsNobody
TimedOut(c) ==
    exCall[c].st \in Busy /\ exCall'[c].st = "timeout"
      => \/ exCall[c].budget = 0
         \/ \E x \in Actors :
              /\ exLeader \in {x, NoActor} /\ exCall'[x].st = "timeout"
              /\ exCall[x].st \in Acquiring /\ exCall[x].in = FetchTicks
UsedAlone(c) ==
    exCall[c].st = "got" /\ exCall'[c].st = "using" /\ exCall[c].once
      => \A x \in Actors \ {c} : ~(exCall[x].st = "using" /\ exCall[x].token = exCall[c].token)
EntryKept ==
    exCached.token # 0 /\ exCached'.token = 0
      => exCached.left = 0 \/ \E x \in Actors : exCall[x].token = exCached.token
Unhurt == (\A c \in Actors : TimedOut(c) /\ UsedAlone(c)) /\ EntryKept

\* Only the caller that moves may time out or start to use its token.
LEMMA MoverUnhurt ==
  ASSUME ExInv, NEW c \in Actors, NEW y, exCall' = [exCall EXCEPT ![c] = y],
         y.st = "timeout" => exCall[c].budget = 0, y.st # "using", EntryKept
  PROVE  Unhurt
<1>1. exCall \in [Actors -> ActorCalls]
  BY DEF ExInv, ExTyped
<1>2. \A x \in Actors : exCall'[x] = IF x = c THEN y ELSE exCall[x]
  BY <1>1
<1>3. "timeout" \notin Busy
  BY DEF Busy, Acquiring
<1>4. \A x \in Actors : TimedOut(x) /\ UsedAlone(x)
  BY <1>2, <1>3 DEF TimedOut, UsedAlone
<1> QED BY <1>4 DEF Unhurt

LEMMA EnterKeeps ==
  ASSUME ExInv, NEW c \in Actors, NEW a \in BOOLEAN, NEW s \in BOOLEAN, NEW b \in ActorBudgets, ExEnter(c, a, s, b)
  PROVE  ExInv' /\ Unhurt
<1> DEFINE y == IF ComposeCall(a, s) = "ok" THEN Entering(b) ELSE Resting("failed")
<1>1. b \in Nat /\ "failed" \in ActorStates
  BY ExBounds DEF ActorStates, Rests, CallErrors
<1>2. exCall' = [exCall EXCEPT ![c] = y] /\ UNCHANGED <<exOwner, exIssued, exCached, exLeader>>
  BY DEF ExEnter
<1>5. y \in ActorCalls /\ Sound(y) /\ y.token = 0 /\ y.st \in {"enter", "failed"}
  BY <1>1, EnteringIs, RestingIs
<1> HIDE DEF y
<1>6. exLeader # c /\ exCall \in [Actors -> ActorCalls]
  BY ExBounds DEF ExInv, LeadSays, ExEnter, ExTyped, Rests, CallErrors
<1>7. \A x \in Actors : x # c => exCall'[x] = exCall[x]
  BY <1>2, <1>6
<1>8. exLeader' \in Actors \cup {NoActor} /\ LeadSays'
  <2>1. exLeader \in Actors \cup {NoActor}
    BY ExFields DEF ExInv
  <2> QED BY <1>2, <1>6, <1>7, <2>1 DEF ExInv, ExTyped, LeadSays
<1>9. ExInv'
  BY <1>2, <1>5, <1>8, OneActor DEF Origin
<1>10. Unhurt
  BY <1>2, <1>5, MoverUnhurt DEF EntryKept
<1> QED BY <1>9, <1>10

\* Taking the entry, or the token of one's own exchange
LEMMA HoldingIs ==
  ASSUME ExInv, NEW c \in Actors, NEW e \in Entries, e.token # 0, e.once => e.left = 0, NEW f \in BOOLEAN
  PROVE  /\ Holding(c, e, f) \in ActorCalls /\ Sound(Holding(c, e, f)) /\ Holding(c, e, f).st = "got"
         /\ Holding(c, e, f).token = e.token /\ Holding(c, e, f).once = e.once
         /\ Holding(c, e, f).fresh = f
<1> DEFINE y == Holding(c, e, f)
<1>1. exCall[c] \in ActorCalls
  BY ExFields DEF ExInv
<1>2. "got" \in ActorStates
  BY DEF ActorStates, Busy, Acquiring
<1>3. e.token \in Nat /\ e.left \in Nat /\ e.age \in Nat /\ e.once \in BOOLEAN
  BY DEF Entries
<1>4. /\ y \in ActorCalls /\ y.st = "got" /\ y.token = e.token /\ y.once = e.once /\ y.fresh = f
      /\ y.left = e.left
  BY <1>1, <1>2, <1>3 DEF Holding, ActorCalls
<1> HIDE DEF y
<1>5. Sound(y)
  BY <1>4 DEF Sound, Acquiring
<1> QED BY <1>4, <1>5 DEF y

\* Waiting keeps what a caller has.
LEMMA WaitIs ==
  ASSUME ExInv, NEW c \in Actors, exCall[c].st \in Acquiring
  PROVE  LET y == [exCall[c] EXCEPT !.st = "wait"]
         IN /\ y \in ActorCalls /\ Sound(y) /\ y.st = "wait" /\ y.token = exCall[c].token
            /\ y.once = exCall[c].once /\ y.fresh = exCall[c].fresh /\ y.budget = exCall[c].budget
<1> DEFINE y == [exCall[c] EXCEPT !.st = "wait"]
<1>1. exCall[c] \in ActorCalls /\ Sound(exCall[c])
  BY ExFields DEF ExInv, HoldersSay
<1>2. "wait" \in ActorStates
  BY DEF ActorStates, Busy, Acquiring
<1>3. /\ y \in ActorCalls /\ y.st = "wait" /\ y.token = exCall[c].token /\ y.left = exCall[c].left
      /\ y.once = exCall[c].once /\ y.fresh = exCall[c].fresh /\ y.budget = exCall[c].budget
      /\ y.fetch = exCall[c].fetch /\ y.in = exCall[c].in
  BY <1>1, <1>2 DEF ActorCalls
<1> HIDE DEF y
<1>4. Sound(y)
  BY <1>1, <1>3 DEF Sound
<1>5. QED BY <1>3, <1>4 DEF y

\* The result of an exchange that failed, or found no permit, reaches those who wait.
LEMMA SharedRest ==
  ASSUME ExInv, NEW c \in Actors, NEW s \in CallErrors,
         exCall' = [x \in Actors |-> IF x = c \/ exCall[x].st = "wait" THEN Resting(s) ELSE exCall[x]],
         exLeader' = NoActor,
         UNCHANGED <<exOwner, exIssued, exCached>>,
         s = "timeout" => /\ exLeader \in {c, NoActor} /\ exCall[c].st \in Acquiring
                          /\ exCall[c].in = FetchTicks
  PROVE  ExInv' /\ Unhurt
<1> DEFINE r == Resting(s)
<1>1. s \in ActorStates /\ s \notin {"got", "using"}
  BY DEF ActorStates, Rests, CallErrors
<1>2. r \in ActorCalls /\ Sound(r) /\ r.token = 0 /\ ~r.fresh /\ r.st = s
  BY <1>1, RestingIs
<1> HIDE DEF r
<1>3. \A x \in Actors : exCall[x] \in ActorCalls
  BY ExFields DEF ExInv
<1>4. /\ exCall' \in [Actors -> ActorCalls]
      /\ \A x \in Actors : exCall'[x] = r \/ exCall'[x] = exCall[x]
  BY <1>2, <1>3 DEF r
<1>5. ExTyped'
  BY <1>4 DEF ExInv, ExTyped
<1>6. LeadSays' /\ EntrySays'
  BY DEF ExInv, LeadSays, EntrySays
<1>7. HoldersSay'
  <2>1. /\ \A x \in Actors : Sound(exCall[x]) /\ exCall[x].token <= exIssued /\ Agree(exCall[x], exCached)
        /\ \A x, d \in Actors : Agree(exCall[x], exCall[d])
        /\ exIssued \in Nat
    BY ExFields DEF ExInv, HoldersSay
  <2>2. \A z : Agree(r, z) /\ Agree(z, r)
    BY <1>2 DEF Agree
  <2>3. \A x \in Actors : Sound(exCall'[x]) /\ exCall'[x].token <= exIssued /\ Agree(exCall'[x], exCached)
    BY <1>2, <1>4, <2>1, <2>2
  <2>4. \A x, d \in Actors : Agree(exCall'[x], exCall'[d])
    BY <1>4, <2>1, <2>2
  <2> QED BY <2>3, <2>4 DEF HoldersSay
<1>8. OneFresh'
  <2>1. \A x, d \in Actors : exCall'[x].fresh /\ exCall'[d].fresh /\ exCall'[x].token # 0
                                /\ exCall'[x].token = exCall'[d].token => x = d
    BY <1>2, <1>4 DEF ExInv, OneFresh
  <2> QED BY <2>1 DEF OneFresh
<1>9. Unhurt
  <2>1. \A x \in Actors : TimedOut(x)
    <3>1. exCall'[c] = r
      BY DEF r
    <3>2. "timeout" \notin Busy
      BY DEF Busy, Acquiring
    <3> QED BY <1>2, <1>4, <3>1, <3>2 DEF TimedOut
  <2>2. \A x \in Actors : UsedAlone(x)
    BY <1>1, <1>2, <1>4 DEF UsedAlone
  <2>3. EntryKept
    BY DEF EntryKept
  <2> QED BY <2>1, <2>2, <2>3 DEF Unhurt
<1> QED BY <1>5, <1>6, <1>7, <1>8, <1>9 DEF ExInv

LEMMA GetKeeps ==
  ASSUME ExInv, NEW c \in Actors, ExGet(c)
  PROVE  ExInv' /\ Unhurt
<1> USE DEF ExGet
<1>1. UNCHANGED <<exOwner, exIssued, exCached>> /\ EntryKept
  BY DEF EntryKept
<1>2. exLeader # c /\ exCall \in [Actors -> ActorCalls] /\ exLeader \in Actors \cup {NoActor}
  BY ExBounds, ExFields DEF ExInv, LeadSays, ExTyped
<1>3. ASSUME NEW y, exCall' = [exCall EXCEPT ![c] = y], UNCHANGED exLeader
      PROVE  exLeader' \in Actors \cup {NoActor} /\ LeadSays'
  <2>1. \A x \in Actors : x # c => exCall'[x] = exCall[x]
    BY <1>2, <1>3
  <2> QED BY <1>2, <1>3, <2>1 DEF ExInv, ExTyped, LeadSays
<1>4. CASE exCached.token # 0 /\ exCall' = [exCall EXCEPT ![c] = Holding(c, exCached, FALSE)] /\ UNCHANGED exLeader
  <2> DEFINE y == Holding(c, exCached, FALSE)
  <2>1. exCached \in Entries /\ (exCached.once => exCached.left = 0)
    BY DEF ExInv, ExTyped, EntrySays
  <2>2. /\ y \in ActorCalls /\ Sound(y) /\ y.st = "got" /\ y.token = exCached.token
        /\ y.once = exCached.once /\ ~y.fresh
    BY <1>4, <2>1, HoldingIs
  <2> HIDE DEF y
  <2>3. exCall' = [exCall EXCEPT ![c] = y]
    BY <1>4 DEF y
  <2>4. Origin(c, y)
    BY <2>2 DEF Origin
  <2>5. exLeader' \in Actors \cup {NoActor} /\ LeadSays'
    BY <1>3, <1>4, <2>3
  <2> QED BY <1>1, <2>2, <2>3, <2>4, <2>5, OneActor, MoverUnhurt
<1>5. CASE exCall' = [exCall EXCEPT ![c].st = "wait"]
  <2> DEFINE y == [exCall[c] EXCEPT !.st = "wait"]
  <2>1. /\ y \in ActorCalls /\ Sound(y) /\ y.st = "wait" /\ y.token = exCall[c].token
        /\ y.once = exCall[c].once /\ y.fresh = exCall[c].fresh /\ y.budget = exCall[c].budget
    BY WaitIs DEF Acquiring
  <2>2. exCall' = [exCall EXCEPT ![c] = y]
    BY <1>5
  <2> HIDE DEF y
  <2>3. Origin(c, y)
    BY <2>1 DEF Origin
  <2>4. exLeader' \in Actors \cup {NoActor} /\ LeadSays'
    <3>1. CASE UNCHANGED exLeader
      BY <1>3, <2>2, <3>1
    <3>2. CASE exLeader' = c
      <4>1. exCall'[c] = y
        BY <1>2, <2>2
      <4> QED BY <2>1, <3>2, <4>1 DEF LeadSays
    <3> QED BY <1>5, <3>1, <3>2
  <2> QED BY <1>1, <2>1, <2>2, <2>3, <2>4, OneActor, MoverUnhurt
<1>6. CASE /\ exLeader = NoActor /\ exCall[c].fetch = 0
           /\ exCall' = Shared(c, LAMBDA x : Resting("timeout")) /\ UNCHANGED exLeader
  <2>1. exCall' = [x \in Actors |-> IF x = c \/ exCall[x].st = "wait" THEN Resting("timeout") ELSE exCall[x]]
    BY <1>6 DEF Shared
  <2>2. "timeout" \in CallErrors
    BY DEF CallErrors
  <2>3. exCall[c].st \in Acquiring /\ exCall[c].in = FetchTicks
    <3>1. exCall[c].st \in Acquiring /\ exCall[c].budget > 0
      BY DEF Acquiring
    <3>2. Sound(exCall[c]) /\ exCall[c].budget \in Nat /\ exCall[c].in \in Nat
      BY ExFields DEF ExInv, HoldersSay
    <3> QED BY <1>6, <3>1, <3>2, ExBounds DEF Sound
  <2> QED BY <1>1, <1>6, <2>1, <2>2, <2>3, SharedRest
<1>7. CASE exLeader = NoActor /\ exCall' = Shared(c, LAMBDA x : Resting("failed")) /\ UNCHANGED exLeader
  <2>1. exCall' = [x \in Actors |-> IF x = c \/ exCall[x].st = "wait" THEN Resting("failed") ELSE exCall[x]]
    BY <1>7 DEF Shared
  <2>2. "failed" \in CallErrors
    BY DEF CallErrors
  <2> QED BY <1>1, <1>7, <2>1, <2>2, SharedRest
<1> QED BY <1>4, <1>5, <1>6, <1>7

LEMMA FailKeeps ==
  ASSUME ExInv, ExProviderFails \/ ExFetchTimesOut
  PROVE  ExInv' /\ Unhurt
<1>1. exLeader \in Actors /\ exLeader # NoActor
  BY ExFields DEF ExInv, ExProviderFails, ExFetchTimesOut
<1>2. exLeader' = NoActor /\ UNCHANGED <<exOwner, exIssued, exCached>>
  BY DEF ExProviderFails, ExFetchTimesOut
<1>3. CASE ExProviderFails
  <2> DEFINE c == exLeader
  <2>1. exCall' = [x \in Actors |-> IF x = c \/ exCall[x].st = "wait" THEN Resting("failed") ELSE exCall[x]]
    BY <1>3 DEF ExProviderFails, Shared
  <2>2. "failed" \in CallErrors
    BY DEF CallErrors
  <2> HIDE DEF c
  <2>3. c \in Actors
    BY <1>1 DEF c
  <2> QED BY <1>2, <2>1, <2>2, <2>3, SharedRest
<1>4. CASE ExFetchTimesOut
  <2> DEFINE c == exLeader
  <2>1. exCall' = [x \in Actors |-> IF x = c \/ exCall[x].st = "wait" THEN Resting("timeout") ELSE exCall[x]]
    BY <1>4 DEF ExFetchTimesOut, Shared
  <2>2. "timeout" \in CallErrors
    BY DEF CallErrors
  <2>3. c \in Actors /\ exCall[c].st = "wait" /\ exCall[c].fetch = 0 /\ exCall[c].budget > 0
    BY <1>1, <1>4 DEF ExFetchTimesOut, ExInv, LeadSays
  <2>4. exLeader = c
    OBVIOUS
  <2> HIDE DEF c
  <2>5. Sound(exCall[c]) /\ exCall[c].budget \in Nat /\ exCall[c].in \in Nat
    BY <2>3, ExFields DEF ExInv, HoldersSay
  <2>6. exCall[c].st \in Acquiring /\ exCall[c].in = FetchTicks
    BY <2>3, <2>5, ExBounds DEF Sound, Acquiring
  <2> QED BY <1>2, <2>1, <2>2, <2>3, <2>4, <2>6, SharedRest
<1> QED BY <1>3, <1>4

\* ExAnswer: the new token is nobody's yet, and fresh for the leader only.
LEMMA ExAnswerKeeps ==
  ASSUME ExInv, NEW life \in ReuseLives, ExAnswer(life)
  PROVE  ExInv' /\ Unhurt
<1> DEFINE n == exIssued + 1
           once == life = 0
           e == [token |-> n, left |-> life, age |-> 0, once |-> once]
           l == exLeader
           f(x) == x = l
           h(x) == Holding(x, e, f(x))
<1>1. l \in Actors /\ exIssued \in Nat /\ exIssued < MaxTokens /\ life \in Nat
  BY ExFields, ExBounds DEF ExInv, ExAnswer
<1>2. n \in 0 .. MaxTokens /\ n \in Nat /\ n # 0 /\ n > exIssued
  BY <1>1, ExBounds
<1>3. exCall' = [x \in Actors |-> IF x = l \/ exCall[x].st = "wait" THEN h(x) ELSE exCall[x]]
  BY DEF ExAnswer, Shared
<1>4. exCached' = e /\ exIssued' = n /\ exLeader' = NoActor /\ UNCHANGED exOwner
  BY DEF ExAnswer
<1>5. once \in BOOLEAN /\ (once => life = 0) /\ \A x \in Actors : f(x) \in BOOLEAN /\ (f(x) <=> x = l)
  OBVIOUS
<1> HIDE DEF n, once, f
<1>6. e \in Entries /\ e.token = n /\ e.left = life /\ e.once = once
  BY <1>1, <1>2, <1>5 DEF Entries
<1> HIDE DEF e
<1>7. \A x \in Actors : /\ h(x) \in ActorCalls /\ Sound(h(x)) /\ h(x).st = "got" /\ h(x).token = n
                        /\ h(x).once = once /\ h(x).fresh = f(x)
  BY <1>2, <1>5, <1>6, HoldingIs
<1> HIDE DEF h, l
<1>8. \A x \in Actors : exCall[x] \in ActorCalls
  BY ExFields DEF ExInv
<1>9. /\ exCall' \in [Actors -> ActorCalls]
      /\ \A x \in Actors : exCall'[x] = h(x) \/ (x # l /\ exCall'[x] = exCall[x])
  BY <1>3, <1>7, <1>8
<1>10. ExTyped'
  BY <1>2, <1>4, <1>6, <1>9 DEF ExInv, ExTyped
<1>11. LeadSays'
  BY <1>4 DEF LeadSays
<1>12. EntrySays'
  BY <1>2, <1>4, <1>5, <1>6 DEF EntrySays
<1>13. \A x \in Actors : Sound(exCall[x]) /\ exCall[x].token <= exIssued /\ exCall[x].token \in Nat
  BY ExFields DEF ExInv, HoldersSay
<1>14. HoldersSay'
  <2>1. \A x \in Actors : Sound(exCall'[x]) /\ exCall'[x].token <= n
    BY <1>1, <1>2, <1>7, <1>9, <1>13
  <2>2. \A x \in Actors : Agree(exCall'[x], e)
    BY <1>1, <1>2, <1>6, <1>7, <1>9, <1>13 DEF Agree
  <2>3. \A x, d \in Actors : Agree(exCall'[x], exCall'[d])
    <3>1. \A x, d \in Actors : Agree(exCall[x], exCall[d])
      BY DEF ExInv, HoldersSay
    <3>2. \A x, d \in Actors : Agree(h(x), h(d)) /\ Agree(h(x), exCall[d]) /\ Agree(exCall[d], h(x))
      BY <1>1, <1>2, <1>7, <1>13 DEF Agree
    <3> QED BY <1>9, <3>1, <3>2
  <2> QED BY <1>4, <2>1, <2>2, <2>3 DEF HoldersSay
<1>15. OneFresh'
  <2>1. ASSUME NEW x \in Actors, NEW d \in Actors, exCall'[x].fresh, exCall'[d].fresh,
               exCall'[x].token # 0, exCall'[x].token = exCall'[d].token
        PROVE  x = d
    <3>1. CASE exCall'[x] = exCall[x] /\ exCall'[d] = exCall[d]
      BY <2>1, <3>1 DEF ExInv, OneFresh
    <3>2. CASE exCall'[x] = h(x) /\ exCall'[d] = h(d)
      BY <1>5, <1>7, <2>1, <3>2
    <3>3. CASE exCall'[x] = h(x) /\ exCall'[d] = exCall[d]
      BY <1>1, <1>2, <1>7, <1>13, <2>1, <3>3
    <3>4. CASE exCall'[x] = exCall[x] /\ exCall'[d] = h(d)
      BY <1>1, <1>2, <1>7, <1>13, <2>1, <3>4
    <3> QED BY <1>9, <3>1, <3>2, <3>3, <3>4
  <2> QED BY <2>1 DEF OneFresh
<1>16. Unhurt
  <2>1. \A x \in Actors : TimedOut(x) /\ UsedAlone(x)
    BY <1>7, <1>9 DEF TimedOut, UsedAlone, Busy, Acquiring
  <2>2. EntryKept
    BY <1>2, <1>4, <1>6 DEF EntryKept
  <2> QED BY <2>1, <2>2 DEF Unhurt
<1> QED BY <1>10, <1>11, <1>12, <1>14, <1>15, <1>16 DEF ExInv

\* ExStop: the caller's own exchange goes with it.
LEMMA StopKeeps ==
  ASSUME ExInv, NEW c \in Actors, ExStop(c)
  PROVE  ExInv' /\ Unhurt
<1> DEFINE s == IF exCall[c].budget = 0 THEN "timeout" ELSE "idle"
           y == Resting(s)
<1>1. exCall' = [exCall EXCEPT ![c] = y] /\ UNCHANGED <<exOwner, exIssued, exCached>>
  BY DEF ExStop
<1>2. s \in ActorStates /\ s \notin {"got", "using"} /\ (s = "timeout" => exCall[c].budget = 0)
  BY DEF ActorStates, Rests, CallErrors
<1> HIDE DEF s
<1>3. y \in ActorCalls /\ Sound(y) /\ y.token = 0 /\ y.st = s
  BY <1>2, RestingIs
<1> HIDE DEF y
<1>4. exLeader' \in Actors \cup {NoActor} /\ LeadSays'
  <2>1. CASE exLeader = c
    BY <2>1 DEF ExStop, LeadSays
  <2>2. CASE exLeader # c
    <3>1. exCall \in [Actors -> ActorCalls] /\ exLeader \in Actors \cup {NoActor}
      BY ExFields DEF ExInv, ExTyped
    <3>2. \A x \in Actors : x # c => exCall'[x] = exCall[x]
      BY <1>1, <3>1
    <3> QED BY <2>2, <3>1, <3>2 DEF ExStop, ExInv, ExTyped, LeadSays
  <2> QED BY <2>1, <2>2
<1>5. Origin(c, y) /\ EntryKept
  BY <1>1, <1>3 DEF Origin, EntryKept
<1> QED BY <1>1, <1>2, <1>3, <1>4, <1>5, OneActor, MoverUnhurt

\* ExUse: a request-only token is used by the one that got it first.
LEMMA UseKeeps ==
  ASSUME ExInv, NEW c \in Actors, ExUse(c)
  PROVE  ExInv' /\ Unhurt
<1>1. /\ exCall[c].st = "got" /\ UNCHANGED <<exOwner, exIssued, exLeader>>
      /\ exCall \in [Actors -> ActorCalls] /\ exLeader \in Actors \cup {NoActor}
      /\ exCall[c] \in ActorCalls /\ Sound(exCall[c])
      /\ exCall[c].left \in Nat /\ exCall[c].budget \in Nat
  BY ExFields DEF ExUse, ExInv, ExTyped, HoldersSay
<1>2. exLeader # c
  BY <1>1, ExBounds DEF ExInv, LeadSays
<1>3. ASSUME NEW y, exCall' = [exCall EXCEPT ![c] = y]
      PROVE  exLeader' \in Actors \cup {NoActor} /\ LeadSays' /\ \A x \in Actors : exCall'[x] = IF x = c THEN y ELSE exCall[x]
  <2>1. \A x \in Actors : exCall'[x] = IF x = c THEN y ELSE exCall[x]
    BY <1>1, <1>3
  <2> QED BY <1>1, <1>2, <2>1 DEF ExInv, LeadSays
<1>4. CASE exCall[c].fresh \/ exCall[c].left > 0
  <2> DEFINE y == [exCall[c] EXCEPT !.st = "using", !.left = 0, !.budget = 0]
  <2>1. exCall' = [exCall EXCEPT ![c] = y] /\ UNCHANGED exCached
    BY <1>4 DEF ExUse
  <2>2. "using" \in ActorStates
    BY DEF ActorStates, Busy, Acquiring
  <2>3. /\ y \in ActorCalls /\ y.st = "using" /\ y.token = exCall[c].token /\ y.left = 0
        /\ y.once = exCall[c].once /\ y.fresh = exCall[c].fresh
    BY <1>1, <2>2 DEF ActorCalls
  <2> HIDE DEF y
  <2>4. exCall[c].once => exCall[c].fresh
    BY <1>1, <1>4 DEF Sound
  <2>5. Sound(y) /\ Origin(c, y) /\ EntryKept
    BY <1>1, <2>1, <2>3, <2>4 DEF Sound, Origin, EntryKept, Acquiring
  <2>6. ExInv'
    BY <1>1, <1>3, <2>1, <2>3, <2>5, OneActor
  <2>7. ASSUME NEW x \in Actors \ {c}, exCall[c].once, exCall[x].st = "using", exCall[x].token = exCall[c].token
        PROVE  FALSE
    <3>1. exCall[c].token # 0 /\ exCall[c].fresh
      BY <1>1, <2>4, <2>7 DEF Sound
    <3>2. Sound(exCall[x]) /\ Agree(exCall[c], exCall[x])
      BY DEF ExInv, HoldersSay
    <3>3. exCall[x].fresh
      BY <2>7, <3>1, <3>2 DEF Sound, Agree
    <3> QED BY <2>7, <3>1, <3>3 DEF ExInv, OneFresh
  <2>8. \A x \in Actors : exCall'[x] = IF x = c THEN y ELSE exCall[x]
    BY <1>3, <2>1
  <2>9. \A x \in Actors : UsedAlone(x)
    BY <2>7, <2>8 DEF UsedAlone
  <2>10. \A x \in Actors : TimedOut(x)
    BY <2>3, <2>8 DEF TimedOut, Busy, Acquiring
  <2> QED BY <2>5, <2>6, <2>9, <2>10 DEF Unhurt
<1>5. CASE ~(exCall[c].fresh \/ exCall[c].left > 0)
  <2> DEFINE y == Entering(exCall[c].budget)
  <2>1. exCall' = [exCall EXCEPT ![c] = y] /\ exCached' = Forget(exCall[c].token)
    BY <1>5 DEF ExUse
  <2>4. y \in ActorCalls /\ Sound(y) /\ y.token = 0 /\ y.st = "enter"
    BY <1>1, EnteringIs
  <2> HIDE DEF y
  <2>5. Sound(y) /\ Origin(c, y)
    BY <2>4 DEF Origin
  <2>6. exCached' \in {exCached, NoEntry} /\ EntryKept
    BY <2>1 DEF Forget, EntryKept
  <2> QED BY <1>1, <1>3, <2>1, <2>4, <2>5, <2>6, OneActor, MoverUnhurt
<1> QED BY <1>4, <1>5

LEMMA RespondKeeps ==
  ASSUME ExInv, NEW c \in Actors, NEW u \in BOOLEAN, ExRespond(c, u)
  PROVE  ExInv' /\ Unhurt
<1> DEFINE y == Resting("idle")
<1>1. /\ exCall' = [exCall EXCEPT ![c] = y] /\ UNCHANGED <<exOwner, exIssued, exLeader>>
      /\ exCall[c].st = "using"
  BY DEF ExRespond
<1>2. "idle" \in ActorStates
  BY DEF ActorStates, Rests
<1>3. y \in ActorCalls /\ Sound(y) /\ y.token = 0 /\ y.st = "idle"
  BY <1>2, RestingIs
<1> HIDE DEF y
<1>4. exCached' \in {exCached, NoEntry} /\ EntryKept
  BY DEF ExRespond, Forget, EntryKept
<1>5. exLeader # c /\ exCall \in [Actors -> ActorCalls] /\ exLeader \in Actors \cup {NoActor}
  BY <1>1, ExFields, ExBounds DEF ExInv, LeadSays, ExTyped
<1>6. \A x \in Actors : x # c => exCall'[x] = exCall[x]
  BY <1>1, <1>5
<1>7. exLeader' \in Actors \cup {NoActor} /\ LeadSays'
  BY <1>1, <1>5, <1>6 DEF ExInv, ExTyped, LeadSays
<1>8. Origin(c, y)
  BY <1>3 DEF Origin
<1> QED BY <1>1, <1>3, <1>4, <1>7, <1>8, OneActor, MoverUnhurt

LEMMA MinusIs == ASSUME NEW n \in Nat PROVE Minus(n) \in Nat /\ (n = 0 => Minus(n) = 0) /\ (n > 0 => Minus(n) = n - 1)
BY DEF Minus

LEMMA OlderIs == ASSUME NEW n \in Nat PROVE Older(n) \in Nat
BY ExBounds DEF Older

\* ExTick: a turn's two deadlines come closer together; tokens and who has them stay.
LEMMA ExTickKeeps ==
  ASSUME ExInv, ExTick
  PROVE  ExInv' /\ Unhurt
<1> DEFINE left(x) == Minus(exCall[x].left)
           budget(x) == Minus(exCall[x].budget)
           age(x) == IF exCall[x].token = 0 THEN 0 ELSE Older(exCall[x].age)
           fetch(x) == Minus(exCall[x].fetch)
           in(x) == IF exCall[x].st \in Acquiring /\ exCall[x].in < FetchTicks THEN exCall[x].in + 1 ELSE exCall[x].in
           y(x) == [exCall[x] EXCEPT !.left = left(x), !.budget = budget(x), !.fetch = fetch(x), !.in = in(x),
                                     !.age = age(x)]
<1>1. UNCHANGED <<exOwner, exIssued, exLeader>> /\ exCall' = [x \in Actors |-> y(x)]
  BY DEF ExTick
<1>2. ASSUME NEW x \in Actors
      PROVE  /\ exCall[x] \in ActorCalls /\ exCall[x].budget \in Nat /\ exCall[x].left \in Nat
             /\ left(x) \in Nat /\ budget(x) \in Nat /\ age(x) \in Nat /\ fetch(x) \in Nat /\ in(x) \in Nat
             /\ (exCall[x].left = 0 => left(x) = 0)
             /\ exCall[x].st \in Acquiring =>
                  fetch(x) <= budget(x) /\ (fetch(x) < budget(x) => fetch(x) + in(x) = FetchTicks)
  <2>1. /\ exCall[x] \in ActorCalls /\ exCall[x].left \in Nat /\ exCall[x].budget \in Nat /\ exCall[x].age \in Nat
        /\ exCall[x].fetch \in Nat /\ exCall[x].in \in Nat /\ Sound(exCall[x])
    BY ExFields DEF ExInv, HoldersSay
  <2>2. /\ fetch(x) \in Nat /\ budget(x) \in Nat /\ left(x) \in Nat
        /\ (exCall[x].left = 0 => left(x) = 0)
        /\ (exCall[x].fetch = 0 => fetch(x) = 0) /\ (exCall[x].fetch > 0 => fetch(x) = exCall[x].fetch - 1)
        /\ (exCall[x].budget > 0 => budget(x) = exCall[x].budget - 1)
    BY <2>1, MinusIs
  <2>3. age(x) \in Nat /\ in(x) \in Nat
    BY <2>1, OlderIs, ExBounds
  <2>4. ASSUME exCall[x].st \in Acquiring
        PROVE  fetch(x) <= budget(x) /\ (fetch(x) < budget(x) => fetch(x) + in(x) = FetchTicks)
    <3>1. exCall[x].budget > 0
      BY <2>4 DEF ExTick, Busy, Acquiring
    <3>2. /\ exCall[x].fetch <= exCall[x].budget
          /\ exCall[x].fetch < exCall[x].budget => exCall[x].fetch + exCall[x].in = FetchTicks
      BY <2>1, <2>4 DEF Sound
    <3> HIDE DEF fetch, budget
    <3> QED BY <2>1, <2>2, <2>4, <3>1, <3>2, ExBounds
  <2> HIDE DEF left, budget, age, fetch, in
  <2> QED BY <2>1, <2>2, <2>3, <2>4
<1> HIDE DEF left, budget, age, fetch, in
<1>3. ASSUME NEW x \in Actors
      PROVE  /\ y(x) \in ActorCalls /\ y(x).st = exCall[x].st /\ y(x).token = exCall[x].token
             /\ y(x).once = exCall[x].once /\ y(x).fresh = exCall[x].fresh
             /\ y(x).left = left(x) /\ y(x).budget = budget(x) /\ y(x).fetch = fetch(x) /\ y(x).in = in(x)
  <2>1. /\ exCall[x] \in ActorCalls /\ left(x) \in Nat /\ budget(x) \in Nat /\ age(x) \in Nat
        /\ fetch(x) \in Nat /\ in(x) \in Nat
    BY <1>2
  <2> QED BY <2>1 DEF ActorCalls
<1> HIDE DEF y
<1>4. exCall' \in [Actors -> ActorCalls] /\ \A x \in Actors : exCall'[x] = y(x)
  BY <1>1, <1>3
<1>5. /\ exCached' \in Entries /\ exCached'.token = exCached.token
      /\ exCached.token # 0 => (exCached'.once = exCached.once /\ (exCached.left = 0 => exCached'.left = 0))
      /\ exCached.token = 0 => ~exCached'.once
  <2>1. CASE exCached.token = 0
    BY <2>1, NoEntryIs DEF ExTick
  <2>2. CASE exCached.token # 0
    <3> DEFINE m == Minus(exCached.left)
               o == Older(exCached.age)
    <3>1. exCached' = [exCached EXCEPT !.left = m, !.age = o]
      BY <2>2 DEF ExTick
    <3>2. m \in Nat /\ o \in Nat /\ (exCached.left = 0 => m = 0) /\ exCached \in Entries
      BY ExFields, MinusIs, OlderIs DEF ExInv, ExTyped
    <3> HIDE DEF m, o
    <3>3. /\ exCached' \in Entries /\ exCached'.token = exCached.token /\ exCached'.once = exCached.once
          /\ exCached'.left = m
      BY <3>1, <3>2 DEF Entries
    <3> QED BY <2>2, <3>2, <3>3
  <2> QED BY <2>1, <2>2
<1>6. exLeader' \in Actors \cup {NoActor} /\ LeadSays'
  <2>1. exLeader \in Actors \cup {NoActor}
    BY ExFields DEF ExInv
  <2> QED BY <1>1, <1>3, <1>4, <2>1 DEF ExInv, LeadSays
<1>7. ExTyped'
  BY <1>1, <1>4, <1>5, <1>6 DEF ExInv, ExTyped
<1>8. EntrySays'
  BY <1>1, <1>5 DEF ExInv, EntrySays
<1>9. HoldersSay'
  <2>1. /\ \A x \in Actors : Sound(exCall[x]) /\ exCall[x].token <= exIssued /\ Agree(exCall[x], exCached)
        /\ \A x, d \in Actors : Agree(exCall[x], exCall[d])
    BY DEF ExInv, HoldersSay
  <2>2. \A x \in Actors : Sound(y(x))
    BY <1>2, <1>3, <2>1 DEF Sound
  <2>3. \A x \in Actors : Agree(y(x), exCached')
    BY <1>3, <1>5, <2>1 DEF Agree
  <2>4. \A x, d \in Actors : Agree(y(x), y(d))
    BY <1>3, <2>1 DEF Agree
  <2>5. \A x \in Actors : y(x).token <= exIssued
    BY <1>3, <2>1
  <2> QED BY <1>1, <1>4, <2>2, <2>3, <2>4, <2>5 DEF HoldersSay
<1>10. OneFresh'
  <2>1. \A x, d \in Actors : exCall'[x].fresh /\ exCall'[d].fresh /\ exCall'[x].token # 0
                                /\ exCall'[x].token = exCall'[d].token => x = d
    BY <1>3, <1>4 DEF ExInv, OneFresh
  <2> QED BY <2>1 DEF OneFresh
<1>11. Unhurt
  <2>1. \A x \in Actors : TimedOut(x) /\ UsedAlone(x)
    BY <1>3, <1>4 DEF TimedOut, UsedAlone, Busy, Acquiring
  <2> QED BY <1>5, <2>1 DEF Unhurt, EntryKept
<1> QED BY <1>6, <1>7, <1>8, <1>9, <1>10, <1>11 DEF ExInv

LEMMA ExStart == ExInit => ExInv
<1> SUFFICES ASSUME ExInit PROVE ExInv
  OBVIOUS
<1>1. "idle" \in ActorStates
  BY DEF ActorStates, Rests
<1>2. /\ exOwner = "new" /\ exIssued = 0 /\ exCached = NoEntry /\ exLeader = NoActor
      /\ exCall \in [Actors -> ActorCalls] /\ \A c \in Actors : exCall[c] = Resting("idle")
  BY <1>1, RestingIs DEF ExInit
<1>3. ExTyped /\ LeadSays /\ EntrySays
  BY <1>2, NoEntryIs, ExBounds DEF ExTyped, LeadSays, EntrySays
<1>4. HoldersSay /\ OneFresh
  BY <1>1, <1>2, RestingIs DEF HoldersSay, OneFresh, Agree
<1> QED BY <1>3, <1>4 DEF ExInv

LEMMA ExStep ==
  ASSUME ExInv, ExNext
  PROVE  ExInv' /\ Unhurt
<1>1. ASSUME NEW o \in CredentialOptions, OpenCredentials(o) PROVE ExInv' /\ Unhurt
  <2>1. exOwner' \in {"new", "refused", "open"} /\ UNCHANGED <<exIssued, exCached, exLeader, exCall>>
    BY <1>1 DEF OpenCredentials
  <2>2. ExInv'
    BY <2>1 DEF ExInv, ExTyped, LeadSays, HoldersSay, OneFresh, EntrySays
  <2>3. Unhurt
    BY <2>1 DEF Unhurt, TimedOut, UsedAlone, EntryKept, Busy, Acquiring
  <2> QED BY <2>2, <2>3
<1>2. ASSUME ExReclaim PROVE ExInv' /\ Unhurt
  <2>1. /\ exCached' = NoEntry /\ exCached.left = 0 /\ UNCHANGED <<exOwner, exIssued, exLeader, exCall>>
    BY <1>2 DEF ExReclaim
  <2>2. \A z : Agree(z, NoEntry)
    BY NoEntryIs DEF Agree
  <2>3. ExInv'
    BY <2>1, <2>2, NoEntryIs, ExFields DEF ExInv, ExTyped, LeadSays, HoldersSay, OneFresh, EntrySays
  <2>4. Unhurt
    BY <2>1 DEF Unhurt, TimedOut, UsedAlone, EntryKept, Busy, Acquiring
  <2> QED BY <2>3, <2>4
<1> QED BY <1>1, <1>2, EnterKeeps, GetKeeps, StopKeeps, UseKeeps, RespondKeeps, ExAnswerKeeps, FailKeeps,
           ExTickKeeps DEF ExNext

\* Whoever leads, stops and takes over an exchange: a caller times out only when its own
\* budget is spent, or together with the caller whose turn the exchange was and who had
\* waited for all of FETCH_TIMEOUT; a request-only token is used by one caller, and an
\* entry goes only when it is spent or by a caller that held it (exchange,
\* exchanged_or_fetch, forget_exchanged).
THEOREM SharingSafe == ExSpec => SharingHurtsNobody
<1>1. ExInit => ExInv
  BY ExStart
<1>2. ASSUME ExInv PROVE ExTypeOK
  <2>1. \A c \in Actors : exCall[c].st \in Busy \cup Rests /\ exCall[c].token \in 0 .. exIssued
    <3>1. \A c \in Actors : /\ exCall[c].st \in ActorStates /\ exCall[c].token \in Nat
                            /\ exCall[c].token <= exIssued /\ exIssued \in Nat
      BY <1>2, ExFields DEF ExInv, HoldersSay
    <3> QED BY <3>1 DEF ActorStates
  <2>2. exCached.token \in 0 .. exIssued
    BY <1>2, ExFields DEF ExInv, EntrySays
  <2>3. exLeader \in Actors \cup {NoActor}
    BY <1>2, ExFields DEF ExInv
  <2>4. exOwner \in {"new", "refused", "open"} /\ exIssued \in 0 .. MaxTokens
    BY <1>2 DEF ExInv, ExTyped
  <2> QED BY <2>1, <2>2, <2>3, <2>4 DEF ExTypeOK
<1>3. ExInv /\ [ExNext]_exVars
        => /\ ExInv'
           /\ [ExTypeOK /\ \A c \in Actors :
                 /\ exCall[c].st \in Busy /\ exCall'[c].st = "timeout"
                      => \/ exCall[c].budget = 0
                         \/ \E x \in Actors :
                              /\ exLeader \in {x, NoActor} /\ exCall'[x].st = "timeout"
                              /\ exCall[x].st \in Acquiring /\ exCall[x].in = FetchTicks
                 /\ exCall[c].st = "got" /\ exCall'[c].st = "using" /\ exCall[c].once
                      => \A x \in Actors \ {c} : ~(exCall[x].st = "using" /\ exCall[x].token = exCall[c].token)
                 /\ exCached.token # 0 /\ exCached'.token = 0
                      => exCached.left = 0 \/ \E x \in Actors : exCall[x].token = exCached.token]_exVars
  <2>1. CASE ExInv /\ ExNext
    BY <1>2, <2>1, ExStep DEF Unhurt, TimedOut, UsedAlone, EntryKept
  <2>2. CASE ExInv /\ UNCHANGED exVars
    BY <2>2 DEF ExInv, exVars, ExTyped, LeadSays, HoldersSay, OneFresh, EntrySays
  <2> QED BY <2>1, <2>2
<1> QED BY <1>1, <1>3, PTL DEF ExSpec, SharingHurtsNobody

-----------------------------------------------------------------------------
(* Keys that rotate: verdicts are justified *)

JwtSpec == JwtInit /\ [][JwtNext]_jwtVars

\* A key set knows every key published for longer than age.
Knows(keys, age) == \A k \in Kids : jwtPublished[k] > age => k \in keys

\* The verifier never runs without keys, and the worker fetches only what is pending.
KeysSay ==
    /\ Prepared => jwtStore.keys # {}
    /\ jwtWorker.st = "fetch" => jwtStore.pending

\* A request that waits presented a token of its signer, or one that names no key.
WaitersSay ==
    \A c \in Verifications :
       jwtCall[c].st \in Waiting
         => Prepared /\ (jwtCall[c].kid = NoKid \/ jwtCall[c].kid = jwtCall[c].signer)

\* What a fetch brought has been growing old since the exchange began ...
FetchSays ==
    jwtWorker.st \in {"startup", "fetch"} /\ jwtWorker.got # {}
      => Knows(jwtWorker.got, ExchangeTicks - jwtWorker.left + 1)

\* ... and, once installed, for at most the exchange and what has run of the cooldown: the
\* first cooldown only starts when the startup fetch has ended.
CooldownSays ==
    ~jwtStore.pending /\ jwtStore.ok /\ jwtStore.cool > 0
      => Knows(jwtStore.keys, ExchangeTicks + Cooldown - jwtStore.cool + 1)

\* A request that was served is answered from keys no older than its own wait and the exchange.
ServedSays ==
    \A c \in Verifications :
       jwtCall[c].st = "served" /\ jwtStore.ok
         => Knows(jwtStore.keys, ExchangeTicks + (CallerTicks - jwtCall[c].left) + 1)

JwtInv == JwtTypeOK /\ KeysSay /\ WaitersSay /\ FetchSays /\ CooldownSays /\ ServedSays

LEMMA JwtBounds ==
  /\ Cooldown \in Nat /\ ExchangeTicks \in Nat /\ CallerTicks \in Nat
  /\ Cooldown > 0 /\ ExchangeTicks > 0 /\ CallerTicks > 0
  /\ FirstKid \in Kids /\ NoKid \notin Kids /\ Forger \notin Kids
  /\ KnownAfter \in Nat /\ KnownAfter >= ExchangeTicks + Cooldown /\ KnownAfter >= ExchangeTicks + CallerTicks
<1>1. /\ Cooldown \in Nat /\ ExchangeTicks \in Nat /\ CallerTicks \in Nat
      /\ Cooldown > 0 /\ ExchangeTicks > 0 /\ CallerTicks > 0
      /\ FirstKid \in Kids /\ NoKid \notin Kids /\ Forger \notin Kids
  BY KeyRefreshAssumption
<1>2. KnownAfter \in Nat /\ KnownAfter >= ExchangeTicks + Cooldown /\ KnownAfter >= ExchangeTicks + CallerTicks
  BY <1>1 DEF KnownAfter
<1> QED BY <1>1, <1>2

\* The keys an issuer publishes are admitted, if only their algorithm is configured.
LEMMA GoodAdmitted ==
  ASSUME NEW k, "Rs256" \in Algorithms
  PROVE  AdmitKey(GoodJwk(k)) = "ok"
<1> DEFINE g == GoodJwk(k)
           checks == << <<~g.parses, "MalformedEntry">>, <<~SignatureUsage(g), "IncompatibleUsage">>,
                        <<g.family \notin {"rsa", "p256", "ed25519"}, "UnsupportedFamily">>,
                        <<Served(g) = {}, "AlgorithmBinding">>, <<~g.material, "InvalidMaterial">> >>
<1>1. g.parses /\ g.use = "sig" /\ g.ops = "none" /\ g.family = "rsa" /\ g.alg = "Rs256" /\ g.material
  BY DEF GoodJwk
<1> HIDE DEF g
<1>2. SignatureUsage(g)
  BY <1>1 DEF SignatureUsage
<1>3. "Rs256" \in Served(g)
  <2>1. Family("Rs256") = "rsa"
    BY DEF Family
  <2> QED BY <1>1, <2>1 DEF Served
<1>4. DOMAIN checks = 1 .. 5
  OBVIOUS
<1>5. \A i \in 1 .. 5 : i = 1 \/ i = 2 \/ i = 3 \/ i = 4 \/ i = 5
  OBVIOUS
<1>6. /\ checks[1][1] <=> ~g.parses
      /\ checks[2][1] <=> ~SignatureUsage(g)
      /\ checks[3][1] <=> g.family \notin {"rsa", "p256", "ed25519"}
      /\ checks[4][1] <=> Served(g) = {}
      /\ checks[5][1] <=> ~g.material
  OBVIOUS
<1>7. AdmitKey(g) = First(checks)
  BY DEF AdmitKey
<1> HIDE DEF checks
<1>8. \A i \in 1 .. 5 : ~checks[i][1]
  BY <1>1, <1>2, <1>3, <1>5, <1>6
<1>9. First(checks) = "ok"
  BY <1>4, <1>8, FirstIs
<1> QED BY <1>7, <1>9 DEF g

\* An entry that is admitted has a supported family and serves a configured algorithm.
LEMMA AdmittedServes ==
  ASSUME NEW e, AdmitKey(e) = "ok"
  PROVE  Served(e) # {} /\ e.family \in {"rsa", "p256", "ed25519"}
<1> DEFINE checks == << <<~e.parses, "MalformedEntry">>, <<~SignatureUsage(e), "IncompatibleUsage">>,
                        <<e.family \notin {"rsa", "p256", "ed25519"}, "UnsupportedFamily">>,
                        <<Served(e) = {}, "AlgorithmBinding">>, <<~e.material, "InvalidMaterial">> >>
<1>1. DOMAIN checks = 1 .. 5
  OBVIOUS
<1>2. \A i \in 1 .. 5 : i = 1 \/ i = 2 \/ i = 3 \/ i = 4 \/ i = 5
  OBVIOUS
<1>3. /\ checks[3][1] <=> e.family \notin {"rsa", "p256", "ed25519"}
      /\ checks[4][1] <=> Served(e) = {}
      /\ checks[1][2] = "MalformedEntry" /\ checks[2][2] = "IncompatibleUsage"
      /\ checks[3][2] = "UnsupportedFamily" /\ checks[4][2] = "AlgorithmBinding"
      /\ checks[5][2] = "InvalidMaterial"
  OBVIOUS
<1>4. First(checks) = "ok"
  BY DEF AdmitKey
<1> HIDE DEF checks
<1>5. \A i \in 1 .. 5 : checks[i][2] # "ok"
  BY <1>2, <1>3
<1>6. \A i \in 1 .. 5 : ~checks[i][1]
  BY <1>1, <1>4, <1>5, FirstOk
<1>7. 3 \in 1 .. 5 /\ 4 \in 1 .. 5
  OBVIOUS
<1> QED BY <1>3, <1>6, <1>7

\* The other entries of a document carry a key of the issuer, and none of them is usable
\* without the algorithm of the good ones.
LEMMA StrangerIs ==
  ASSUME NEW k, NEW e \in Strangers(k)
  PROVE  e.kid = k /\ (AdmitKey(e) = "ok" => "Rs256" \in Algorithms)
<1> DEFINE g == GoodJwk(k)
<1>1. /\ g.kid = k /\ g.family = "rsa" /\ g.alg = "Rs256"
      /\ DOMAIN g = {"kid", "parses", "use", "ops", "family", "alg", "material"}
  BY DEF GoodJwk
<1>2. e \in {[g EXCEPT !.parses = FALSE], [g EXCEPT !.use = "enc"], [g EXCEPT !.ops = "other"],
             [g EXCEPT !.family = "p521", !.alg = "none"], [g EXCEPT !.family = "ed25519"],
             [g EXCEPT !.alg = "Es256"], [g EXCEPT !.material = FALSE]}
  BY DEF Strangers
<1> HIDE DEF g
<1>3. /\ e.kid = k
      /\ \/ e.alg = "Rs256"
         \/ e.family = "p521"
         \/ e.alg = "Es256" /\ e.family = "rsa"
  BY <1>1, <1>2
<1>4. ASSUME AdmitKey(e) = "ok" PROVE "Rs256" \in Algorithms
  <2>1. Served(e) # {} /\ e.family \in {"rsa", "p256", "ed25519"}
    BY <1>4, AdmittedServes
  <2>2. PICK a \in Algorithms : Family(a) = e.family /\ e.alg \in {"none", a}
    BY <2>1 DEF Served
  <2>3. Family("Es256") = "p256"
    BY DEF Family
  <2> QED BY <1>3, <2>1, <2>2, <2>3
<1> QED BY <1>3, <1>4

\* What a fetch brings: nothing, or every key that is published.
LEMMA FetchedIs ==
  ASSUME NEW got \in FetchedSets
  PROVE  got \in SUBSET Kids /\ (got # {} => Published \subseteq got)
<1>1. got = {} \/ got = ParseKeySet(Document)
  BY DEF FetchedSets
<1>2. ASSUME NEW e \in Document
      PROVE  e.kid \in Kids /\ (AdmitKey(e) = "ok" => "Rs256" \in Algorithms)
  <2>1. CASE \E k \in Published : e = GoodJwk(k)
    <3>1. PICK k \in Published : e = GoodJwk(k)
      BY <2>1
    <3>2. e.kid = k /\ e.alg = "Rs256" /\ k \in Kids
      BY <3>1 DEF GoodJwk, Published
    <3>3. ASSUME AdmitKey(e) = "ok" PROVE "Rs256" \in Algorithms
      BY <3>2, <3>3, AdmittedServes DEF Served
    <3> QED BY <3>2, <3>3
  <2>2. CASE \E k \in Kids : e \in Strangers(k)
    BY <2>2, StrangerIs
  <2> QED BY <2>1, <2>2 DEF Document
<1>3. ParseKeySet(Document) \in SUBSET Kids
  BY <1>2 DEF ParseKeySet
<1>4. ASSUME ParseKeySet(Document) # {} PROVE Published \subseteq ParseKeySet(Document)
  <2>1. PICK e \in Document : AdmitKey(e) = "ok"
    BY <1>4 DEF ParseKeySet
  <2>2. "Rs256" \in Algorithms
    BY <1>2, <2>1
  <2>3. ASSUME NEW k \in Published PROVE k \in ParseKeySet(Document)
    <3>1. GoodJwk(k) \in Document /\ GoodJwk(k).kid = k
      BY DEF Document, GoodJwk
    <3>2. AdmitKey(GoodJwk(k)) = "ok"
      BY <2>2, GoodAdmitted
    <3> QED BY <3>1, <3>2 DEF ParseKeySet
  <2> QED BY <2>3
<1> QED BY <1>1, <1>3, <1>4

\* What the claims say of a token is never that its key is unknown.
LEMMA ClaimsNeverUnknown ==
  ASSUME NEW c
  PROVE  JwtClaims(c) # "NoCandidate"
<1> DEFINE present == << <<~c.reads, "MalformedClaims">>, <<"none" \in {c.iss, c.aud, c.exp}, "MissingClaim">> >>
           times == << <<c.exp = "late", "Expired">>, <<c.nbf = "early", "NotYetValid">> >>
           rest == << <<c.iss # "ours", "Issuer">>, <<c.aud # "ours", "Audience">>,
                      <<~(c.sub \/ c.client \/ c.alias), "MissingClaim">>,
                      <<TokenProfile = "Rfc9068" /\ ~(c.iat # "none" /\ c.sub /\ c.client /\ c.jti),
                        "MissingClaim">>,
                      <<TokenProfile = "Rfc9068" /\ c.iat = "future", "Profile">>,
                      <<~c.scope, "Scope">>, <<c.act = "bad", "MalformedClaims">> >>
<1>1. JwtClaims(c) = Then(First(present), Then(First(times), First(rest)))
  BY DEF JwtClaims, CheckLifetime
<1>2. First(present) # "NoCandidate"
  <2>1. DOMAIN present = 1 .. 2
    OBVIOUS
  <2>2. \A i \in 1 .. 2 : i = 1 \/ i = 2
    OBVIOUS
  <2>3. present[1][2] = "MalformedClaims" /\ present[2][2] = "MissingClaim"
    OBVIOUS
  <2> HIDE DEF present
  <2>4. First(present) = "ok" \/ \E i \in 1 .. 2 : First(present) = present[i][2]
    BY <2>1, FirstIs
  <2> QED BY <2>2, <2>3, <2>4
<1>3. First(times) # "NoCandidate"
  <2>1. DOMAIN times = 1 .. 2
    OBVIOUS
  <2>2. \A i \in 1 .. 2 : i = 1 \/ i = 2
    OBVIOUS
  <2>3. times[1][2] = "Expired" /\ times[2][2] = "NotYetValid"
    OBVIOUS
  <2> HIDE DEF times
  <2>4. First(times) = "ok" \/ \E i \in 1 .. 2 : First(times) = times[i][2]
    BY <2>1, FirstIs
  <2> QED BY <2>2, <2>3, <2>4
<1>4. First(rest) # "NoCandidate"
  <2>1. DOMAIN rest = 1 .. 7
    OBVIOUS
  <2>2. \A i \in 1 .. 7 : i = 1 \/ i = 2 \/ i = 3 \/ i = 4 \/ i = 5 \/ i = 6 \/ i = 7
    OBVIOUS
  <2>3. /\ rest[1][2] = "Issuer" /\ rest[2][2] = "Audience" /\ rest[3][2] = "MissingClaim"
        /\ rest[4][2] = "MissingClaim" /\ rest[5][2] = "Profile" /\ rest[6][2] = "Scope"
        /\ rest[7][2] = "MalformedClaims"
    OBVIOUS
  <2> HIDE DEF rest
  <2>4. First(rest) = "ok" \/ \E i \in 1 .. 7 : First(rest) = rest[i][2]
    BY <2>1, FirstIs
  <2> QED BY <2>2, <2>3, <2>4
<1> HIDE DEF present, times, rest
<1> QED BY <1>1, <1>2, <1>3, <1>4 DEF Then

\* What the signature check of a token says: the key is not there, another one signed, or
\* the signer's key is.
LEMMA SignatureIs ==
  ASSUME NEW keys, NEW kid, NEW signer
  PROVE  LET v == VerifySignature(keys, kid, NoKid, signer)
         IN /\ v \in {"ok", "NoCandidate", "BadSignature"}
            /\ v = "ok" => signer \in keys
            /\ v = "NoCandidate" => Candidates(keys, kid, NoKid) = {}
<1> DEFINE tried == Candidates(keys, kid, NoKid)
           checks == << <<tried = {}, "NoCandidate">>, <<signer \notin tried, "BadSignature">> >>
           v == First(checks)
<1>1. VerifySignature(keys, kid, NoKid, signer) = v
  BY DEF VerifySignature
<1>2. tried \subseteq keys
  BY DEF Candidates
<1> HIDE DEF tried
<1>3. DOMAIN checks = 1 .. 2
  OBVIOUS
<1>4. \A i \in 1 .. 2 : i = 1 \/ i = 2
  OBVIOUS
<1>5. /\ checks[1][2] = "NoCandidate" /\ checks[2][2] = "BadSignature"
      /\ (checks[1][1] <=> tried = {}) /\ (checks[2][1] <=> signer \notin tried)
  OBVIOUS
<1> HIDE DEF checks
<1>6. \/ (\A i \in 1 .. 2 : ~checks[i][1]) /\ v = "ok"
      \/ \E i \in 1 .. 2 : checks[i][1] /\ v = checks[i][2]
  BY <1>3, FirstIs
<1> HIDE DEF v
<1>7. 1 \in 1 .. 2 /\ 2 \in 1 .. 2
  OBVIOUS
<1>8. /\ v \in {"ok", "NoCandidate", "BadSignature"} /\ (v = "ok" => signer \in keys)
      /\ (v = "NoCandidate" => tried = {})
  BY <1>2, <1>4, <1>5, <1>6, <1>7
<1> QED BY <1>1, <1>8 DEF tried

RequestStates == Waiting \cup Verdicts
KidNames == Kids \cup {NoKid}
Signers == Kids \cup {Forger}
KeyRequests == [st: RequestStates, kid: KidNames, signer: Signers, current: BOOLEAN, left: 0 .. CallerTicks]
WorkerStates == {"new", "startup", "refused", "idle", "fetch", "gone"}
Stores == [keys: SUBSET Kids, pending: BOOLEAN, cool: 0 .. Cooldown, ok: BOOLEAN, stopped: BOOLEAN]
Workers == [st: WorkerStates, left: 0 .. ExchangeTicks, permit: BOOLEAN, got: SUBSET Kids]

LEMMA JwtFields ==
  ASSUME JwtTypeOK
  PROVE  /\ \A k \in Kids : jwtPublished[k] \in Int /\ jwtPublished[k] <= KnownAfter + 2
         /\ jwtStore.keys \in SUBSET Kids /\ jwtStore.pending \in BOOLEAN /\ jwtStore.cool \in Nat
         /\ jwtStore.cool <= Cooldown /\ jwtStore.ok \in BOOLEAN /\ jwtStore.stopped \in BOOLEAN
         /\ jwtWorker.st \in WorkerStates /\ jwtWorker.left \in Nat /\ jwtWorker.left <= ExchangeTicks
         /\ jwtWorker.permit \in BOOLEAN /\ jwtWorker.got \in SUBSET Kids
         /\ jwtCall \in [Verifications -> KeyRequests]
         /\ \A c \in Verifications :
              /\ jwtCall[c] \in KeyRequests /\ jwtCall[c].st \in RequestStates /\ jwtCall[c].kid \in KidNames
              /\ jwtCall[c].signer \in Signers /\ jwtCall[c].current \in BOOLEAN
              /\ jwtCall[c].left \in Nat /\ jwtCall[c].left <= CallerTicks
<1>1. jwtCall \in [Verifications -> KeyRequests]
  BY DEF JwtTypeOK, KeyRequests, RequestStates, KidNames, Signers
<1>2. \A y \in KeyRequests : /\ y.st \in RequestStates /\ y.kid \in KidNames /\ y.signer \in Signers
                          /\ y.current \in BOOLEAN /\ y.left \in Nat /\ y.left <= CallerTicks
  BY JwtBounds DEF KeyRequests
<1>3. \A c \in Verifications : jwtCall[c] \in KeyRequests
  BY <1>1
<1>4. \A k \in Kids : jwtPublished[k] \in Int /\ jwtPublished[k] <= KnownAfter + 2
  BY JwtBounds DEF JwtTypeOK, Ages
<1>5. /\ jwtStore.keys \in SUBSET Kids /\ jwtStore.pending \in BOOLEAN /\ jwtStore.cool \in 0 .. Cooldown
      /\ jwtStore.ok \in BOOLEAN /\ jwtStore.stopped \in BOOLEAN
      /\ jwtWorker.st \in WorkerStates /\ jwtWorker.left \in 0 .. ExchangeTicks
      /\ jwtWorker.permit \in BOOLEAN /\ jwtWorker.got \in SUBSET Kids
  BY DEF JwtTypeOK, WorkerStates
<1> QED BY <1>1, <1>2, <1>3, <1>4, <1>5, JwtBounds

\* What the keys decide about a request that waits
LEMMA JudgedIs ==
  ASSUME JwtInv, NEW c \in Verifications, jwtCall[c].st \in Waiting, NEW v \in Retried(c) \cup {Missed(c)}
  PROVE  /\ v \in Verdicts /\ (v = "accepted" => jwtCall[c].signer \in jwtStore.keys)
         /\ (v = "unknown" => jwtCall[c].signer \notin jwtStore.keys)
<1> DEFINE keys == jwtStore.keys
           kid == jwtCall[c].kid
           signer == jwtCall[c].signer
           s == VerifySignature(keys, kid, NoKid, signer)
<1>1. keys # {} /\ (kid = NoKid \/ kid = signer)
  BY DEF JwtInv, KeysSay, WaitersSay
<1>2. /\ s \in {"ok", "NoCandidate", "BadSignature"} /\ (s = "ok" => signer \in keys)
      /\ (s = "NoCandidate" => Candidates(keys, kid, NoKid) = {})
  BY SignatureIs
<1>3. s = "NoCandidate" => signer \notin keys
  BY <1>1, <1>2 DEF Candidates
<1>4. \E r : v = Verdict(r) /\ (r = "ok" => s = "ok") /\ (r = "NoCandidate" => s = "NoCandidate")
  <2>1. CASE v \in Retried(c)
    <3>1. PICK claims \in JwtClaimVerdicts : v = Verdict(Then(s, claims))
      BY <2>1 DEF Retried
    <3>2. claims # "NoCandidate"
      BY <3>1, ClaimsNeverUnknown DEF JwtClaimVerdicts
    <3> HIDE DEF s
    <3>3. (Then(s, claims) = "ok" => s = "ok") /\ (Then(s, claims) = "NoCandidate" => s = "NoCandidate")
      BY <3>2 DEF Then
    <3> QED BY <3>1, <3>3
  <2>2. CASE v = Missed(c)
    BY <2>2 DEF Missed
  <2> QED BY <2>1, <2>2
<1> HIDE DEF s
<1>5. PICK r : v = Verdict(r) /\ (r = "ok" => s = "ok") /\ (r = "NoCandidate" => s = "NoCandidate")
  BY <1>4
<1>6. v \in Verdicts /\ (v = "accepted" => r = "ok") /\ (v = "unknown" => r = "NoCandidate")
  BY <1>5 DEF Verdict, Verdicts
<1> QED BY <1>2, <1>3, <1>5, <1>6

\* What one step may tell a request that waits
Justified(c) ==
    jwtCall[c].st \in Waiting =>
      /\ jwtCall'[c].st = "unknown" /\ jwtCall[c].signer \in Published
           => jwtPublished[jwtCall[c].signer] <= KnownAfter + 1
      /\ jwtCall'[c].st = "accepted" => jwtCall[c].signer \in jwtStore.keys

LEMMA OverIs ==
  ASSUME NEW v \in Verdicts
  PROVE  Over(v) \in KeyRequests /\ Over(v).st = v /\ Over(v).st \notin Waiting
<1>1. v \notin Waiting
  BY DEF Verdicts, Waiting
<1> QED BY <1>1, JwtBounds DEF Over, KeyRequests, RequestStates, KidNames, Signers

\* One request moves, or rests: what it holds is all there is to show.
LEMMA OneRequest ==
  ASSUME JwtInv, NEW c \in Verifications, NEW y \in KeyRequests, jwtCall' = [jwtCall EXCEPT ![c] = y],
         y.st \in Waiting => Prepared /\ (y.kid = NoKid \/ y.kid = y.signer),
         y.st # "served", UNCHANGED <<jwtPublished, jwtStore, jwtWorker>>
  PROVE  JwtInv'
<1>1. jwtCall \in [Verifications -> KeyRequests]
  BY JwtFields DEF JwtInv
<1>2. jwtCall' \in [Verifications -> KeyRequests]
      /\ \A x \in Verifications : jwtCall'[x] = IF x = c THEN y ELSE jwtCall[x]
  BY <1>1
<1>3. JwtTypeOK'
  BY <1>2 DEF JwtInv, JwtTypeOK, KeyRequests, RequestStates, KidNames, Signers
<1>4. KeysSay' /\ FetchSays' /\ CooldownSays'
  BY DEF JwtInv, KeysSay, FetchSays, CooldownSays, Prepared, Started, Knows
<1>5. WaitersSay'
  BY <1>2 DEF JwtInv, WaitersSay, Prepared, Started
<1>6. ServedSays'
  BY <1>2 DEF JwtInv, ServedSays, Knows
<1> QED BY <1>3, <1>4, <1>5, <1>6 DEF JwtInv

LEMMA AnswerKeeps ==
  ASSUME JwtInv, NEW c \in Verifications, NEW v \in Verdicts, Answer(c, v),
         UNCHANGED <<jwtPublished, jwtStore, jwtWorker>>
  PROVE  JwtInv'
<1>1. Over(v).st # "served"
  BY OverIs DEF Waiting
<1> QED BY <1>1, OverIs, OneRequest DEF Answer

\* Only the request that is answered is told anything.
LEMMA AnswerJustified ==
  ASSUME JwtInv, NEW c \in Verifications, NEW y, jwtCall' = [jwtCall EXCEPT ![c] = y],
         jwtCall[c].st \in Waiting =>
           /\ y.st = "unknown" /\ jwtCall[c].signer \in Published
                => jwtPublished[jwtCall[c].signer] <= KnownAfter + 1
           /\ y.st = "accepted" => jwtCall[c].signer \in jwtStore.keys
  PROVE  \A x \in Verifications : Justified(x)
<1>1. jwtCall \in [Verifications -> KeyRequests]
  BY JwtFields DEF JwtInv
<1>2. \A x \in Verifications : jwtCall'[x] = IF x = c THEN y ELSE jwtCall[x]
  BY <1>1
<1>3. "unknown" \notin Waiting /\ "accepted" \notin Waiting
  BY DEF Waiting
<1> QED BY <1>2, <1>3 DEF Justified

\* A verdict from keys that know everything published for longer than KnownAfter
LEMMA JudgedJustified ==
  ASSUME JwtInv, NEW c \in Verifications, jwtCall[c].st \in Waiting, NEW v \in Retried(c) \cup {Missed(c)},
         Knows(jwtStore.keys, KnownAfter + 1), Answer(c, v), UNCHANGED <<jwtPublished, jwtStore, jwtWorker>>
  PROVE  JwtInv' /\ \A x \in Verifications : Justified(x)
<1>1. /\ v \in Verdicts /\ (v = "accepted" => jwtCall[c].signer \in jwtStore.keys)
      /\ (v = "unknown" => jwtCall[c].signer \notin jwtStore.keys)
  BY JudgedIs
<1>2. Over(v).st = v
  BY <1>1, OverIs
<1>3. v = "unknown" /\ jwtCall[c].signer \in Published => jwtPublished[jwtCall[c].signer] <= KnownAfter + 1
  BY <1>1, JwtFields, JwtBounds DEF Knows, Published, JwtInv
<1>4. JwtInv'
  BY <1>1, AnswerKeeps
<1>5. \A x \in Verifications : Justified(x)
  BY <1>1, <1>2, <1>3, AnswerJustified DEF Answer
<1> QED BY <1>4, <1>5

\* A request that was answered early, from the headers or from the installed keys
LEMMA FirstVerdictKeeps ==
  ASSUME JwtInv, NEW c \in Verifications, jwtCall[c].st \in Verdicts, NEW v \in Verdicts, Answer(c, v),
         UNCHANGED <<jwtPublished, jwtStore, jwtWorker>>
  PROVE  JwtInv' /\ \A x \in Verifications : Justified(x)
<1>1. jwtCall[c].st \notin Waiting
  BY DEF Verdicts, Waiting
<1> QED BY <1>1, AnswerKeeps, AnswerJustified DEF Answer

LEMMA VerifyKeeps ==
  ASSUME JwtInv, NEW c \in Verifications, NEW t \in Presented, Verify(c, t[1], t[2])
  PROVE  JwtInv' /\ \A x \in Verifications : Justified(x)
<1> DEFINE kid == t[1]
           signer == t[2]
           result == VerifySignature(jwtStore.keys, kid, NoKid, signer)
<1>1. kid \in KidNames /\ signer \in Signers /\ (kid = NoKid \/ kid = signer)
  BY DEF Presented, KidNames, Signers
<1> HIDE DEF kid, signer
<1>2. /\ Prepared /\ jwtCall[c].st \in Verdicts /\ UNCHANGED <<jwtPublished, jwtStore, jwtWorker>>
      /\ IF MayNeedNewKeys(result, kid, NoKid)
         THEN jwtCall' = [jwtCall EXCEPT ![c] =
                [st |-> "checked", kid |-> kid, signer |-> signer, current |-> TRUE, left |-> CallerTicks]]
         ELSE \E v \in {Verdict(Then(result, claims)) : claims \in JwtClaimVerdicts} : Answer(c, v)
  BY DEF Verify, kid, signer
<1> HIDE DEF result
<1>3. CASE MayNeedNewKeys(result, kid, NoKid)
  <2> DEFINE y == [st |-> "checked", kid |-> kid, signer |-> signer, current |-> TRUE, left |-> CallerTicks]
  <2>1. jwtCall' = [jwtCall EXCEPT ![c] = y]
    BY <1>2, <1>3
  <2>2. y \in KeyRequests /\ y.st = "checked" /\ y.kid = kid /\ y.signer = signer
    BY <1>1, JwtBounds DEF KeyRequests, RequestStates, Waiting
  <2> HIDE DEF y
  <2>3. JwtInv'
    BY <1>1, <1>2, <2>1, <2>2, OneRequest
  <2>4. jwtCall[c].st \notin Waiting
    BY <1>2 DEF Verdicts, Waiting
  <2>5. \A x \in Verifications : Justified(x)
    BY <2>1, <2>4, AnswerJustified
  <2> QED BY <2>3, <2>5
<1>4. CASE ~MayNeedNewKeys(result, kid, NoKid)
  <2>1. PICK claims \in JwtClaimVerdicts : Answer(c, Verdict(Then(result, claims)))
    BY <1>2, <1>4
  <2>2. Verdict(Then(result, claims)) \in Verdicts
    BY DEF Verdict, Verdicts
  <2> QED BY <1>2, <2>1, <2>2, FirstVerdictKeeps
<1> QED BY <1>3, <1>4

\* A request joins the fetch that is pending.
LEMMA JoinKeeps ==
  ASSUME JwtInv, NEW c \in Verifications, jwtCall[c].st = "checked",
         jwtCall' = [jwtCall EXCEPT ![c].st = "joined"]
  PROVE  /\ jwtCall' \in [Verifications -> KeyRequests]
         /\ \A x \in Verifications :
              /\ jwtCall'[x].kid = jwtCall[x].kid /\ jwtCall'[x].signer = jwtCall[x].signer
              /\ jwtCall'[x].left = jwtCall[x].left
              /\ jwtCall'[x].st = IF x = c THEN "joined" ELSE jwtCall[x].st
         /\ \A x \in Verifications : Justified(x)
<1> DEFINE y == [jwtCall[c] EXCEPT !.st = "joined"]
<1>1. jwtCall \in [Verifications -> KeyRequests] /\ jwtCall[c] \in KeyRequests
  BY JwtFields DEF JwtInv
<1>2. /\ y \in KeyRequests /\ y.st = "joined" /\ y.kid = jwtCall[c].kid /\ y.signer = jwtCall[c].signer
      /\ y.left = jwtCall[c].left
  BY <1>1 DEF KeyRequests, RequestStates, Waiting
<1>3. jwtCall' = [jwtCall EXCEPT ![c] = y]
  OBVIOUS
<1> HIDE DEF y
<1>4. jwtCall' \in [Verifications -> KeyRequests] /\ \A x \in Verifications : jwtCall'[x] = IF x = c THEN y ELSE jwtCall[x]
  BY <1>1, <1>2, <1>3
<1>5. \A x \in Verifications : Justified(x)
  BY <1>2, <1>3, AnswerJustified
<1> QED BY <1>2, <1>4, <1>5

\* A ticket is taken: the cooldown starts with it.
LEMMA TicketIs ==
  ASSUME JwtInv
  PROVE  LET s == [jwtStore EXCEPT !.pending = TRUE, !.cool = Cooldown]
         IN s \in Stores /\ s.pending /\ s.cool = Cooldown /\ s.keys = jwtStore.keys /\ s.ok = jwtStore.ok
<1> DEFINE y == [jwtStore EXCEPT !.pending = TRUE, !.cool = Cooldown]
<1>1. jwtStore \in Stores
  BY DEF JwtInv, JwtTypeOK, Stores
<1>2. Cooldown \in 0 .. Cooldown
  BY JwtBounds
<1>3. y \in Stores
  BY <1>1, <1>2 DEF Stores
<1>4. y.pending = TRUE /\ y.cool = Cooldown /\ y.keys = jwtStore.keys /\ y.ok = jwtStore.ok
  BY <1>1 DEF Stores
<1> HIDE DEF y
<1>5. QED BY <1>3, <1>4 DEF y

LEMMA KeyAskKeeps ==
  ASSUME JwtInv, NEW c \in Verifications, Ask(c)
  PROVE  JwtInv' /\ \A x \in Verifications : Justified(x)
<1> USE DEF Ask
<1>1. jwtCall[c].st = "checked" /\ jwtCall[c].st \in Waiting /\ UNCHANGED jwtPublished
  BY DEF Waiting
<1>2. CASE Answer(c, "unavailable") /\ UNCHANGED <<jwtStore, jwtWorker>>
  <2>1. "unavailable" \in Verdicts /\ Over("unavailable").st = "unavailable"
    BY OverIs DEF Verdicts
  <2> QED BY <1>1, <1>2, <2>1, AnswerKeeps, AnswerJustified DEF Answer
<1>3. CASE jwtCall' = [jwtCall EXCEPT ![c].st = "joined"] /\ UNCHANGED <<jwtStore, jwtWorker>>
  <2>1. /\ jwtCall' \in [Verifications -> KeyRequests]
        /\ \A x \in Verifications :
              /\ jwtCall'[x].kid = jwtCall[x].kid /\ jwtCall'[x].signer = jwtCall[x].signer
              /\ jwtCall'[x].left = jwtCall[x].left
              /\ jwtCall'[x].st = IF x = c THEN "joined" ELSE jwtCall[x].st
        /\ \A x \in Verifications : Justified(x)
    BY <1>1, <1>3, JoinKeeps
  <2>2. JwtTypeOK'
    BY <1>1, <1>3, <2>1 DEF JwtInv, JwtTypeOK, KeyRequests, RequestStates, KidNames, Signers
  <2>3. KeysSay' /\ FetchSays' /\ CooldownSays'
    BY <1>1, <1>3 DEF JwtInv, KeysSay, FetchSays, CooldownSays, Prepared, Started, Knows
  <2>4. WaitersSay'
    BY <1>1, <1>3, <2>1 DEF JwtInv, WaitersSay, Prepared, Started
  <2>5. ServedSays'
    BY <1>1, <1>3, <2>1 DEF JwtInv, ServedSays, Knows
  <2> QED BY <2>1, <2>2, <2>3, <2>4, <2>5 DEF JwtInv
<1>4. CASE /\ ~jwtStore.stopped /\ ~jwtStore.pending /\ jwtStore.cool > 0
           /\ \E v \in IF ~jwtStore.ok THEN {"unavailable"}
                      ELSE IF jwtCall[c].current THEN {Missed(c)} ELSE Retried(c) : Answer(c, v)
           /\ UNCHANGED <<jwtStore, jwtWorker>>
  <2>1. CASE ~jwtStore.ok
    <3>1. Answer(c, "unavailable")
      BY <1>4, <2>1
    <3> QED BY <1>2, <1>4, <3>1
  <2>2. CASE jwtStore.ok
    <3>1. PICK v \in Retried(c) \cup {Missed(c)} : Answer(c, v)
      BY <1>4, <2>2
    <3>2. Knows(jwtStore.keys, ExchangeTicks + Cooldown - jwtStore.cool + 1)
      BY <1>4, <2>2 DEF JwtInv, CooldownSays
    <3>3. Knows(jwtStore.keys, KnownAfter + 1)
      BY <1>4, <3>2, JwtFields, JwtBounds DEF JwtInv, Knows
    <3> QED BY <1>1, <1>4, <3>1, <3>3, JudgedJustified
  <2> QED BY <2>1, <2>2
<1>5. CASE /\ ~jwtStore.stopped /\ ~jwtStore.pending /\ jwtStore.cool = 0
           /\ jwtStore' = [jwtStore EXCEPT !.pending = TRUE, !.cool = Cooldown]
           /\ jwtWorker' = [jwtWorker EXCEPT !.permit = TRUE]
           /\ jwtCall' = [jwtCall EXCEPT ![c].st = "joined"]
  <2>1. /\ jwtCall' \in [Verifications -> KeyRequests]
        /\ \A x \in Verifications :
              /\ jwtCall'[x].kid = jwtCall[x].kid /\ jwtCall'[x].signer = jwtCall[x].signer
              /\ jwtCall'[x].left = jwtCall[x].left
              /\ jwtCall'[x].st = IF x = c THEN "joined" ELSE jwtCall[x].st
        /\ \A x \in Verifications : Justified(x)
    BY <1>1, <1>5, JoinKeeps
  <2>2. /\ jwtStore' \in Stores
        /\ jwtStore'.pending /\ jwtStore'.cool = Cooldown /\ jwtStore'.keys = jwtStore.keys
        /\ jwtStore'.ok = jwtStore.ok
    BY <1>5, TicketIs
  <2>3. /\ jwtWorker' \in Workers
        /\ jwtWorker'.st = jwtWorker.st /\ jwtWorker.st # "fetch"
        /\ jwtWorker'.left = jwtWorker.left /\ jwtWorker'.got = jwtWorker.got
    BY <1>5 DEF JwtInv, JwtTypeOK, Workers, WorkerStates, KeysSay
  <2>4. JwtTypeOK'
    BY <1>1, <2>1, <2>2, <2>3 DEF JwtInv, JwtTypeOK, KeyRequests, RequestStates, KidNames, Signers, Stores, Workers, WorkerStates
  <2>5. Prepared' <=> Prepared
    BY <2>3 DEF Prepared, Started
  <2>6. KeysSay' /\ FetchSays' /\ CooldownSays'
    BY <1>1, <2>2, <2>3, <2>5 DEF JwtInv, KeysSay, FetchSays, CooldownSays, Knows
  <2>7. WaitersSay'
    BY <1>1, <2>1, <2>5 DEF JwtInv, WaitersSay
  <2>8. ServedSays'
    BY <1>1, <2>1, <2>2 DEF JwtInv, ServedSays, Knows
  <2> QED BY <2>1, <2>4, <2>6, <2>7, <2>8 DEF JwtInv
<1> QED BY <1>1, <1>2, <1>3, <1>4, <1>5

LEMMA ResumeKeeps ==
  ASSUME JwtInv, NEW c \in Verifications, Resume(c)
  PROVE  JwtInv' /\ \A x \in Verifications : Justified(x)
<1>1. jwtCall[c].st \in Waiting /\ UNCHANGED <<jwtPublished, jwtStore, jwtWorker>>
  BY DEF Resume, Waiting
<1>2. CASE jwtStore.stopped \/ ~jwtStore.ok
  <2>1. Answer(c, "unavailable")
    BY <1>2 DEF Resume
  <2>2. "unavailable" \in Verdicts /\ Over("unavailable").st = "unavailable"
    BY OverIs DEF Verdicts
  <2> QED BY <1>1, <2>1, <2>2, AnswerKeeps, AnswerJustified DEF Answer
<1>3. CASE ~(jwtStore.stopped \/ ~jwtStore.ok)
  <2>1. PICK v \in Retried(c) : Answer(c, v)
    BY <1>3 DEF Resume
  <2>2. Knows(jwtStore.keys, ExchangeTicks + (CallerTicks - jwtCall[c].left) + 1)
    BY <1>3 DEF Resume, JwtInv, ServedSays
  <2>3. Knows(jwtStore.keys, KnownAfter + 1)
    BY <2>2, JwtFields, JwtBounds DEF JwtInv, Knows
  <2> QED BY <1>1, <2>1, <2>3, JudgedJustified
<1> QED BY <1>2, <1>3

LEMMA ExpireKeeps ==
  ASSUME JwtInv, NEW c \in Verifications, Expire(c)
  PROVE  JwtInv' /\ \A x \in Verifications : Justified(x)
<1>1. "unavailable" \in Verdicts /\ Over("unavailable").st = "unavailable"
  BY OverIs DEF Verdicts
<1> QED BY <1>1, AnswerKeeps, AnswerJustified DEF Expire, Answer

LEMMA JwtRecords ==
  ASSUME JwtTypeOK PROVE jwtStore \in Stores /\ jwtWorker \in Workers /\ jwtPublished \in [Kids -> Ages]
BY DEF JwtTypeOK, Stores, Workers, WorkerStates

LEMMA JwtTypeIs ==
  ASSUME jwtPublished' \in [Kids -> Ages], jwtStore' \in Stores, jwtWorker' \in Workers,
         jwtCall' \in [Verifications -> KeyRequests]
  PROVE  JwtTypeOK'
BY DEF JwtTypeOK, Stores, Workers, WorkerStates, KeyRequests, RequestStates, KidNames, Signers

\* What has just been fetched knows all that was published before this tick.
LEMMA FreshKnows ==
  ASSUME JwtInv, NEW got \in FetchedSets, got # {}, NEW age \in Int, age >= 0
  PROVE  Knows(got, age)
<1>1. Published \subseteq got
  BY FetchedIs
<1>2. \A k \in Kids : jwtPublished[k] \in Int
  BY JwtFields DEF JwtInv
<1> QED BY <1>1, <1>2 DEF Knows, Published

\* Nobody is told anything.
LEMMA NobodyTold ==
  ASSUME UNCHANGED jwtCall
  PROVE  \A x \in Verifications : Justified(x)
BY DEF Justified, Waiting

LEMMA FetchKeeps ==
  ASSUME JwtInv, NEW p \in BOOLEAN, Fetch(p)
  PROVE  JwtInv' /\ \A x \in Verifications : Justified(x)
<1>1. jwtWorker.st = "idle" /\ UNCHANGED <<jwtPublished, jwtCall>>
  BY DEF Fetch
<1>2. /\ jwtStore \in Stores /\ jwtWorker \in Workers /\ jwtPublished \in [Kids -> Ages]
      /\ jwtCall \in [Verifications -> KeyRequests]
  BY JwtRecords, JwtFields DEF JwtInv
<1>3. CASE p \/ jwtStore.pending
  <2> DEFINE pm == p /\ jwtWorker.permit
  <2>1. PICK got \in FetchedSets :
          jwtWorker' = [st |-> "fetch", left |-> ExchangeTicks, got |-> got, permit |-> pm]
    BY <1>3 DEF Fetch
  <2>2. pm \in BOOLEAN /\ got \in SUBSET Kids
    BY FetchedIs
  <2> HIDE DEF pm
  <2>3. /\ jwtWorker' \in Workers /\ jwtWorker'.st = "fetch" /\ jwtWorker'.left = ExchangeTicks
        /\ jwtWorker'.got = got
    BY <2>1, <2>2, JwtBounds DEF Workers, WorkerStates
  <2>4. /\ jwtStore' \in Stores /\ jwtStore'.pending /\ jwtStore'.keys = jwtStore.keys
        /\ jwtStore'.ok = jwtStore.ok
    <3>1. CASE jwtStore.pending
      BY <1>2, <1>3, <3>1 DEF Fetch
    <3>2. CASE ~jwtStore.pending
      BY <1>3, <3>2, TicketIs DEF Fetch
    <3> QED BY <3>1, <3>2
  <2>5. JwtTypeOK'
    BY <1>1, <1>2, <2>3, <2>4, JwtTypeIs
  <2>6. Prepared /\ Prepared'
    BY <1>1, <2>3 DEF Prepared, Started
  <2>7. KeysSay'
    BY <2>4, <2>6 DEF JwtInv, KeysSay
  <2>8. FetchSays'
    <3>1. ExchangeTicks - ExchangeTicks + 1 \in Int /\ ExchangeTicks - ExchangeTicks + 1 >= 0
      BY JwtBounds
    <3>2. got # {} => Knows(got, ExchangeTicks - ExchangeTicks + 1)
      BY <3>1, FreshKnows
    <3> QED BY <1>1, <2>3, <3>2 DEF FetchSays, Knows
  <2>9. CooldownSays'
    BY <2>4 DEF CooldownSays
  <2>10. WaitersSay'
    BY <1>1, <2>6 DEF JwtInv, WaitersSay
  <2>11. ServedSays'
    BY <1>1, <2>4 DEF JwtInv, ServedSays, Knows
  <2> QED BY <1>1, <2>5, <2>7, <2>8, <2>9, <2>10, <2>11, NobodyTold DEF JwtInv
<1>4. CASE ~(p \/ jwtStore.pending)
  <2>1. jwtWorker' = [jwtWorker EXCEPT !.permit = FALSE] /\ UNCHANGED jwtStore
    BY <1>4 DEF Fetch
  <2>2. jwtWorker' \in Workers /\ jwtWorker'.st = jwtWorker.st
    BY <1>2, <2>1 DEF Workers
  <2>3. JwtTypeOK'
    BY <1>1, <1>2, <2>1, <2>2, JwtTypeIs
  <2>4. KeysSay' /\ FetchSays' /\ CooldownSays'
    BY <1>1, <2>1, <2>2 DEF JwtInv, KeysSay, FetchSays, CooldownSays, Prepared, Started, Knows
  <2>5. WaitersSay' /\ ServedSays'
    BY <1>1, <2>1, <2>2 DEF JwtInv, WaitersSay, ServedSays, Prepared, Started, Knows
  <2> QED BY <1>1, <2>3, <2>4, <2>5, NobodyTold DEF JwtInv
<1> QED BY <1>3, <1>4

LEMMA WorkerRests ==
  ASSUME NEW w \in Workers, NEW s \in WorkerStates
  PROVE  LET y == [w EXCEPT !.st = s, !.left = 0, !.got = {}] IN y \in Workers /\ y.st = s
<1> DEFINE none == {}
           zero == 0
           y == [w EXCEPT !.st = s, !.left = zero, !.got = none]
<1>1. none \in SUBSET Kids /\ zero \in 0 .. ExchangeTicks
  BY JwtBounds
<1> HIDE DEF none, zero
<1>2. y \in Workers
  BY <1>1 DEF Workers
<1>3. y.st = s
  BY DEF Workers
<1> HIDE DEF y
<1>4. QED BY <1>2, <1>3 DEF y, none, zero

\* Before the verifier is in use nobody waits for it.
LEMMA NobodyWaits ==
  ASSUME JwtInv, ~Prepared, UNCHANGED jwtCall
  PROVE  WaitersSay' /\ ServedSays'
BY DEF JwtInv, WaitersSay, ServedSays, Waiting

LEMMA PrepareKeeps ==
  ASSUME JwtInv, NEW o, NEW first, NEW second, Prepare(o, first, second)
  PROVE  JwtInv' /\ \A x \in Verifications : Justified(x)
<1>1. jwtWorker.st = "new" /\ ~Prepared /\ UNCHANGED <<jwtPublished, jwtStore, jwtCall>>
  BY DEF Prepare, Prepared, Started
<1>2. /\ jwtStore \in Stores /\ jwtWorker \in Workers /\ jwtPublished \in [Kids -> Ages]
      /\ jwtCall \in [Verifications -> KeyRequests]
  BY JwtRecords, JwtFields DEF JwtInv
<1>3. WaitersSay' /\ ServedSays' /\ CooldownSays'
  BY <1>1, NobodyWaits DEF JwtInv, CooldownSays, Knows
<1>4. CASE PrepareJwt(o, first, second) = "ok"
  <2>1. PICK got \in FetchedSets :
          jwtWorker' = [jwtWorker EXCEPT !.st = "startup", !.left = ExchangeTicks, !.got = got]
    BY <1>4 DEF Prepare
  <2>2. got \in SUBSET Kids /\ ExchangeTicks \in 0 .. ExchangeTicks
    BY FetchedIs, JwtBounds
  <2>3. /\ jwtWorker' \in Workers /\ jwtWorker'.st = "startup" /\ jwtWorker'.left = ExchangeTicks
        /\ jwtWorker'.got = got
    BY <1>2, <2>1, <2>2 DEF Workers, WorkerStates
  <2>4. KeysSay'
    BY <2>3 DEF KeysSay, Prepared, Started
  <2>5. FetchSays'
    <3>1. ExchangeTicks - ExchangeTicks + 1 \in Int /\ ExchangeTicks - ExchangeTicks + 1 >= 0
      BY JwtBounds
    <3>2. got # {} => Knows(got, ExchangeTicks - ExchangeTicks + 1)
      BY <3>1, FreshKnows
    <3> QED BY <1>1, <2>3, <3>2 DEF FetchSays, Knows
  <2>6. JwtTypeOK'
    BY <1>1, <1>2, <2>3, JwtTypeIs
  <2> QED BY <1>1, <1>3, <2>4, <2>5, <2>6, NobodyTold DEF JwtInv
<1>5. CASE PrepareJwt(o, first, second) # "ok"
  <2>1. jwtWorker' = [jwtWorker EXCEPT !.st = "refused"]
    BY <1>5 DEF Prepare
  <2>2. jwtWorker' \in Workers /\ jwtWorker'.st = "refused"
    BY <1>2, <2>1 DEF Workers, WorkerStates
  <2>3. JwtTypeOK'
    BY <1>1, <1>2, <2>2, JwtTypeIs
  <2>4. KeysSay' /\ FetchSays'
    BY <2>2 DEF KeysSay, FetchSays, Prepared, Started
  <2> QED BY <1>1, <1>3, <2>3, <2>4, NobodyTold DEF JwtInv
<1> QED BY <1>4, <1>5

\* The startup fetch ends: its document may be an exchange old when the first cooldown starts.
LEMMA InstallKeeps ==
  ASSUME JwtInv, InstallStartup
  PROVE  JwtInv' /\ \A x \in Verifications : Justified(x)
<1>1. jwtWorker.st = "startup" /\ ~Prepared /\ UNCHANGED <<jwtPublished, jwtCall>>
  BY DEF InstallStartup, Prepared, Started
<1>2. /\ jwtStore \in Stores /\ jwtWorker \in Workers /\ jwtPublished \in [Kids -> Ages]
      /\ jwtCall \in [Verifications -> KeyRequests] /\ jwtWorker.got \in SUBSET Kids
      /\ jwtWorker.left \in Nat /\ \A k \in Kids : jwtPublished[k] \in Int
  BY JwtRecords, JwtFields DEF JwtInv
<1>3. WaitersSay' /\ ServedSays'
  BY <1>1, NobodyWaits
<1>4. CASE jwtWorker.got # {}
  <2> DEFINE keys == jwtWorker.got
             y == [keys |-> keys, pending |-> FALSE, cool |-> Cooldown, ok |-> TRUE, stopped |-> FALSE]
  <2>1. jwtStore' = y /\ jwtWorker' = [jwtWorker EXCEPT !.st = "idle", !.left = 0, !.got = {}]
    BY <1>4 DEF InstallStartup
  <2>2. jwtWorker' \in Workers /\ jwtWorker'.st = "idle"
    BY <1>2, <2>1, WorkerRests DEF WorkerStates
  <2>3. Knows(keys, ExchangeTicks + Cooldown - Cooldown + 1) /\ keys # {} /\ keys \in SUBSET Kids
    <3>1. Knows(keys, ExchangeTicks - jwtWorker.left + 1)
      BY <1>1, <1>4 DEF JwtInv, FetchSays
    <3> HIDE DEF keys
    <3>2. Knows(keys, ExchangeTicks + Cooldown - Cooldown + 1)
      BY <1>2, <3>1, JwtBounds DEF Knows
    <3> QED BY <1>2, <1>4, <3>2 DEF keys
  <2> HIDE DEF keys
  <2>4. Cooldown \in 0 .. Cooldown
    BY JwtBounds
  <2>5. y \in Stores /\ y.keys = keys /\ y.cool = Cooldown
    BY <2>3, <2>4 DEF Stores
  <2> HIDE DEF y
  <2>6. JwtTypeOK'
    BY <1>1, <1>2, <2>1, <2>2, <2>5, JwtTypeIs
  <2>7. KeysSay' /\ FetchSays'
    BY <2>1, <2>2, <2>3, <2>5 DEF KeysSay, FetchSays
  <2>8. CooldownSays'
    BY <1>1, <2>1, <2>3, <2>5 DEF CooldownSays, Knows
  <2> QED BY <1>1, <1>3, <2>6, <2>7, <2>8, NobodyTold DEF JwtInv
<1>5. CASE jwtWorker.got = {}
  <2> DEFINE zero == 0
  <2>1. jwtWorker' = [jwtWorker EXCEPT !.st = "refused", !.left = zero] /\ UNCHANGED jwtStore
    BY <1>5 DEF InstallStartup
  <2>2. zero \in 0 .. ExchangeTicks
    BY JwtBounds
  <2> HIDE DEF zero
  <2>3. jwtWorker' \in Workers /\ jwtWorker'.st = "refused"
    BY <1>2, <2>1, <2>2 DEF Workers, WorkerStates
  <2>4. JwtTypeOK'
    BY <1>1, <1>2, <2>1, <2>3, JwtTypeIs
  <2>5. KeysSay' /\ FetchSays' /\ CooldownSays'
    BY <1>1, <2>1, <2>3 DEF JwtInv, KeysSay, FetchSays, CooldownSays, Prepared, Started, Knows
  <2> QED BY <1>1, <1>3, <2>4, <2>5, NobodyTold DEF JwtInv
<1> QED BY <1>4, <1>5

\* Finish: the keys that were fetched are installed, and everyone who joined is served.
LEMMA FinishKeeps ==
  ASSUME JwtInv, Finish
  PROVE  JwtInv' /\ \A x \in Verifications : Justified(x)
<1> DEFINE okay == jwtWorker.got # {}
           keys == IF okay THEN jwtWorker.got ELSE jwtStore.keys
           s(x) == IF jwtCall[x].st = "joined" THEN "served" ELSE jwtCall[x].st
           cur(x) == jwtCall[x].current /\ ~okay
           y(x) == [jwtCall[x] EXCEPT !.st = s(x), !.current = cur(x)]
<1>1. jwtWorker.st = "fetch" /\ UNCHANGED jwtPublished /\ jwtStore.pending /\ Prepared
  BY DEF Finish, JwtInv, KeysSay, Prepared, Started
<1>2. /\ jwtStore \in Stores /\ jwtWorker \in Workers /\ jwtPublished \in [Kids -> Ages]
      /\ \A x \in Verifications : jwtCall[x] \in KeyRequests /\ jwtCall[x].current \in BOOLEAN
                                  /\ jwtCall[x].st \in RequestStates
      /\ jwtWorker.got \in SUBSET Kids /\ jwtStore.keys \in SUBSET Kids /\ jwtStore.keys # {}
  BY <1>1, JwtRecords, JwtFields DEF JwtInv, KeysSay
<1>3. /\ jwtStore' = [jwtStore EXCEPT !.keys = keys, !.pending = FALSE, !.ok = okay]
      /\ jwtCall' = [x \in Verifications |-> y(x)]
      /\ jwtWorker' = [jwtWorker EXCEPT !.st = "idle", !.left = 0, !.got = {}]
  BY DEF Finish
<1>4. /\ keys \in SUBSET Kids /\ okay \in BOOLEAN /\ (okay => keys = jwtWorker.got) /\ (okay <=> jwtWorker.got # {})
      /\ keys # {}
      /\ \A x \in Verifications : /\ s(x) \in RequestStates /\ cur(x) \in BOOLEAN
                                  /\ (s(x) \in Waiting <=> jwtCall[x].st \in Waiting)
                                  /\ (s(x) # jwtCall[x].st => s(x) = "served")
  BY <1>2 DEF RequestStates, Waiting
<1> HIDE DEF okay, keys, s, cur
<1>5. /\ jwtStore' \in Stores /\ jwtStore'.keys = keys /\ jwtStore'.pending = FALSE /\ jwtStore'.ok = okay
      /\ jwtStore'.cool = jwtStore.cool
  BY <1>2, <1>3, <1>4 DEF Stores
<1>6. jwtWorker' \in Workers /\ jwtWorker'.st = "idle"
  BY <1>2, <1>3, WorkerRests DEF WorkerStates
<1>7. ASSUME NEW x \in Verifications
      PROVE  /\ y(x) \in KeyRequests /\ y(x).st = s(x) /\ y(x).kid = jwtCall[x].kid
             /\ y(x).signer = jwtCall[x].signer /\ y(x).left = jwtCall[x].left
  <2>1. jwtCall[x] \in KeyRequests /\ s(x) \in RequestStates /\ cur(x) \in BOOLEAN
    BY <1>2, <1>4
  <2>2. y(x) \in KeyRequests
    BY <2>1 DEF KeyRequests
  <2>3. /\ y(x).st = s(x) /\ y(x).kid = jwtCall[x].kid
        /\ y(x).signer = jwtCall[x].signer /\ y(x).left = jwtCall[x].left
    BY <2>1 DEF KeyRequests
  <2> QED BY <2>2, <2>3
<1> HIDE DEF y
<1>8. jwtCall' \in [Verifications -> KeyRequests] /\ \A x \in Verifications : jwtCall'[x] = y(x)
  BY <1>3, <1>7
<1>9. JwtTypeOK'
  BY <1>1, <1>2, <1>5, <1>6, <1>8, JwtTypeIs
<1>10. Prepared'
  BY <1>6 DEF Prepared, Started
<1>11. KeysSay' /\ FetchSays'
  BY <1>4, <1>5, <1>6 DEF KeysSay, FetchSays
<1>12. CooldownSays'
  <2> SUFFICES ASSUME okay, jwtStore.cool > 0
               PROVE  Knows(keys, ExchangeTicks + Cooldown - jwtStore.cool + 1)
    BY <1>1, <1>5 DEF CooldownSays, Knows
  <2>1. Knows(keys, ExchangeTicks - jwtWorker.left + 1)
    BY <1>1, <1>4 DEF JwtInv, FetchSays
  <2>2. /\ jwtStore.cool \in Nat /\ jwtStore.cool <= Cooldown /\ jwtWorker.left \in Nat
        /\ \A k \in Kids : jwtPublished[k] \in Int
    BY JwtFields DEF JwtInv
  <2> QED BY <2>1, <2>2, JwtBounds DEF Knows
<1>13. WaitersSay'
  BY <1>4, <1>7, <1>8, <1>10 DEF JwtInv, WaitersSay
<1>14. ServedSays'
  <2> SUFFICES ASSUME NEW x \in Verifications, okay
               PROVE  Knows(keys, ExchangeTicks + (CallerTicks - jwtCall[x].left) + 1)
    BY <1>1, <1>5, <1>7, <1>8 DEF ServedSays, Knows
  <2>1. Knows(keys, ExchangeTicks - jwtWorker.left + 1)
    BY <1>1, <1>4 DEF JwtInv, FetchSays
  <2>2. /\ jwtCall[x].left \in Nat /\ jwtCall[x].left <= CallerTicks /\ jwtWorker.left \in Nat
        /\ \A k \in Kids : jwtPublished[k] \in Int
    BY JwtFields DEF JwtInv
  <2> QED BY <2>1, <2>2, JwtBounds DEF Knows
<1>15. \A x \in Verifications : Justified(x)
  BY <1>4, <1>7, <1>8 DEF Justified, Waiting
<1> QED BY <1>9, <1>11, <1>12, <1>13, <1>14, <1>15 DEF JwtInv

\* KeyStore::stop, wherever the worker is
LEMMA KeyLeaveKeeps ==
  ASSUME JwtInv, Leave
  PROVE  JwtInv' /\ \A x \in Verifications : Justified(x)
<1>1. /\ jwtWorker.st \in {"idle", "fetch"} /\ UNCHANGED <<jwtPublished, jwtCall>>
      /\ jwtWorker' = [jwtWorker EXCEPT !.st = "gone", !.left = 0, !.got = {}]
      /\ jwtStore' = [jwtStore EXCEPT !.stopped = TRUE]
  BY DEF Leave
<1>2. /\ jwtStore \in Stores /\ jwtWorker \in Workers /\ jwtPublished \in [Kids -> Ages]
      /\ jwtCall \in [Verifications -> KeyRequests] /\ Prepared
  BY <1>1, JwtRecords, JwtFields DEF JwtInv, Prepared, Started
<1>3. jwtWorker' \in Workers /\ jwtWorker'.st = "gone"
  BY <1>1, <1>2, WorkerRests DEF WorkerStates
<1>4. /\ jwtStore' \in Stores /\ jwtStore'.keys = jwtStore.keys /\ jwtStore'.pending = jwtStore.pending
      /\ jwtStore'.ok = jwtStore.ok /\ jwtStore'.cool = jwtStore.cool
  BY <1>1, <1>2 DEF Stores
<1>5. JwtTypeOK' /\ Prepared'
  BY <1>1, <1>2, <1>3, <1>4, JwtTypeIs DEF Prepared, Started
<1>6. KeysSay' /\ FetchSays' /\ CooldownSays'
  BY <1>1, <1>2, <1>3, <1>4 DEF JwtInv, KeysSay, FetchSays, CooldownSays, Knows
<1>7. WaitersSay' /\ ServedSays'
  BY <1>1, <1>4, <1>5 DEF JwtInv, WaitersSay, ServedSays, Knows
<1> QED BY <1>1, <1>5, <1>6, <1>7, NobodyTold DEF JwtInv

\* A key that has just been published is known to nobody yet, and need not be.
LEMMA RotateKeeps ==
  ASSUME JwtInv, NEW k \in Kids, RotateKeys(k)
  PROVE  JwtInv' /\ \A x \in Verifications : Justified(x)
<1>1. /\ UNCHANGED <<jwtStore, jwtWorker, jwtCall>>
      /\ jwtPublished' = [jwtPublished EXCEPT ![k] = 1] \/ jwtPublished' = [jwtPublished EXCEPT ![k] = -1]
  BY DEF RotateKeys
<1>2. /\ jwtStore \in Stores /\ jwtWorker \in Workers /\ jwtPublished \in [Kids -> Ages]
      /\ jwtCall \in [Verifications -> KeyRequests]
  BY JwtRecords, JwtFields DEF JwtInv
<1>3. 1 \in Ages /\ -1 \in Ages
  BY JwtBounds DEF Ages
<1>4. /\ jwtPublished' \in [Kids -> Ages]
      /\ \A j \in Kids : jwtPublished'[j] = jwtPublished[j] \/ jwtPublished'[j] = 1 \/ jwtPublished'[j] = -1
  BY <1>1, <1>2, <1>3
<1>5. ASSUME NEW keys, NEW age \in Int, age >= 1, Knows(keys, age)
      PROVE  \A j \in Kids : jwtPublished'[j] > age => j \in keys
  BY <1>4, <1>5 DEF Knows
<1>6. /\ jwtStore.cool \in Nat /\ jwtStore.cool <= Cooldown /\ jwtWorker.left \in Nat
      /\ jwtWorker.left <= ExchangeTicks
      /\ \A x \in Verifications : jwtCall[x].left \in Nat /\ jwtCall[x].left <= CallerTicks
  BY JwtFields DEF JwtInv
<1>7. JwtTypeOK'
  BY <1>1, <1>2, <1>4, JwtTypeIs
<1>8. KeysSay' /\ WaitersSay'
  BY <1>1 DEF JwtInv, KeysSay, WaitersSay, Prepared, Started
<1>9. FetchSays'
  <2>1. ExchangeTicks - jwtWorker.left + 1 \in Int /\ ExchangeTicks - jwtWorker.left + 1 >= 1
    BY <1>6, JwtBounds
  <2> QED BY <1>1, <1>5, <2>1 DEF JwtInv, FetchSays, Knows
<1>10. CooldownSays'
  <2>1. /\ ExchangeTicks + Cooldown - jwtStore.cool + 1 \in Int
        /\ ExchangeTicks + Cooldown - jwtStore.cool + 1 >= 1
    BY <1>6, JwtBounds
  <2> QED BY <1>1, <1>5, <2>1 DEF JwtInv, CooldownSays, Knows
<1>11. ServedSays'
  <2>1. ASSUME NEW x \in Verifications
        PROVE  /\ ExchangeTicks + (CallerTicks - jwtCall[x].left) + 1 \in Int
               /\ ExchangeTicks + (CallerTicks - jwtCall[x].left) + 1 >= 1
    BY <1>6, JwtBounds
  <2> QED BY <1>1, <1>5, <2>1 DEF JwtInv, ServedSays, Knows
<1> QED BY <1>1, <1>7, <1>8, <1>9, <1>10, <1>11, NobodyTold DEF JwtInv

\* JwtTick: keys, cooldown, exchange and requests grow old together.
LEMMA KeyTickKeeps ==
  ASSUME JwtInv, JwtTick
  PROVE  JwtInv' /\ \A x \in Verifications : Justified(x)
<1> DEFINE age(k) == IF jwtPublished[k] \in 1 .. KnownAfter + 1 THEN jwtPublished[k] + 1 ELSE jwtPublished[k]
           cool == IF jwtStore.cool > 0 THEN jwtStore.cool - 1 ELSE 0
           wleft == IF jwtWorker.left > 0 THEN jwtWorker.left - 1 ELSE 0
           left(x) == IF jwtCall[x].left > 0 THEN jwtCall[x].left - 1 ELSE 0
           y(x) == [jwtCall[x] EXCEPT !.left = left(x)]
<1>1. /\ (jwtWorker.st \in {"startup", "fetch"} => jwtWorker.left > 0)
      /\ \A x \in Verifications : jwtCall[x].st \in Waiting => jwtCall[x].left > 0
      /\ jwtPublished' = [k \in Kids |-> age(k)]
      /\ jwtStore' = [jwtStore EXCEPT !.cool = cool]
      /\ jwtWorker' = [jwtWorker EXCEPT !.left = wleft]
      /\ jwtCall' = [x \in Verifications |-> y(x)]
  BY DEF JwtTick
<1>2. /\ jwtStore \in Stores /\ jwtWorker \in Workers /\ jwtPublished \in [Kids -> Ages]
      /\ \A k \in Kids : jwtPublished[k] \in Ages /\ jwtPublished[k] \in Int
      /\ \A x \in Verifications : jwtCall[x] \in KeyRequests
  BY JwtRecords, JwtFields DEF JwtInv
<1>3. /\ jwtStore.cool \in Nat /\ jwtStore.cool <= Cooldown /\ jwtWorker.left \in Nat
      /\ jwtWorker.left <= ExchangeTicks
      /\ \A x \in Verifications : jwtCall[x].left \in Nat /\ jwtCall[x].left <= CallerTicks
  BY JwtFields DEF JwtInv
<1>4. \A k \in Kids : age(k) \in Ages /\ age(k) \in Int /\ age(k) <= jwtPublished[k] + 1
  BY <1>2, JwtBounds DEF Ages
<1>5. /\ cool \in 0 .. Cooldown /\ cool \in Nat /\ (cool > 0 => jwtStore.cool > 0 /\ cool = jwtStore.cool - 1)
      /\ wleft \in 0 .. ExchangeTicks /\ wleft \in Nat /\ (jwtWorker.left > 0 => wleft = jwtWorker.left - 1)
  BY <1>3, JwtBounds
<1>6. \A x \in Verifications : /\ left(x) \in 0 .. CallerTicks /\ left(x) \in Nat
                               /\ (jwtCall[x].left > 0 => left(x) = jwtCall[x].left - 1)
  BY <1>3, JwtBounds
<1> HIDE DEF age, cool, wleft, left
<1>7. jwtPublished' \in [Kids -> Ages] /\ \A k \in Kids : jwtPublished'[k] = age(k)
  BY <1>1, <1>4
<1>8. /\ jwtStore' \in Stores /\ jwtStore'.cool = cool /\ jwtStore'.keys = jwtStore.keys
      /\ jwtStore'.pending = jwtStore.pending /\ jwtStore'.ok = jwtStore.ok
  BY <1>1, <1>2, <1>5 DEF Stores
<1>9. jwtWorker' \in Workers /\ jwtWorker'.left = wleft /\ jwtWorker'.st = jwtWorker.st /\ jwtWorker'.got = jwtWorker.got
  BY <1>1, <1>2, <1>5 DEF Workers
<1>10. ASSUME NEW x \in Verifications
       PROVE  /\ y(x) \in KeyRequests /\ y(x).st = jwtCall[x].st /\ y(x).kid = jwtCall[x].kid
              /\ y(x).signer = jwtCall[x].signer /\ y(x).left = left(x)
  BY <1>2, <1>6 DEF KeyRequests
<1> HIDE DEF y
<1>11. jwtCall' \in [Verifications -> KeyRequests] /\ \A x \in Verifications : jwtCall'[x] = y(x)
  BY <1>1, <1>10
<1>12. ASSUME NEW keys, NEW n \in Int, Knows(keys, n)
       PROVE  \A k \in Kids : jwtPublished'[k] > n + 1 => k \in keys
  BY <1>2, <1>4, <1>7, <1>12 DEF Knows
<1>13. JwtTypeOK'
  BY <1>7, <1>8, <1>9, <1>11, JwtTypeIs
<1>14. KeysSay' /\ (Prepared' <=> Prepared)
  BY <1>8, <1>9 DEF JwtInv, KeysSay, Prepared, Started
<1>15. WaitersSay'
  BY <1>10, <1>11, <1>14 DEF JwtInv, WaitersSay
<1>16. FetchSays'
  <2> SUFFICES ASSUME jwtWorker.st \in {"startup", "fetch"}, jwtWorker.got # {}
               PROVE  \A k \in Kids : jwtPublished'[k] > ExchangeTicks - wleft + 1 => k \in jwtWorker.got
    BY <1>8, <1>9 DEF FetchSays, Knows
  <2> DEFINE n == ExchangeTicks - jwtWorker.left + 1
  <2>1. n \in Int /\ n + 1 = ExchangeTicks - wleft + 1
    BY <1>1, <1>3, <1>5, JwtBounds
  <2>2. Knows(jwtWorker.got, n)
    BY DEF JwtInv, FetchSays
  <2> HIDE DEF n
  <2> QED BY <1>12, <2>1, <2>2
<1>17. CooldownSays'
  <2> SUFFICES ASSUME ~jwtStore.pending, jwtStore.ok, cool > 0
               PROVE  \A k \in Kids : jwtPublished'[k] > ExchangeTicks + Cooldown - cool + 1 => k \in jwtStore.keys
    BY <1>8 DEF CooldownSays, Knows
  <2> DEFINE n == ExchangeTicks + Cooldown - jwtStore.cool + 1
  <2>1. n \in Int /\ n + 1 = ExchangeTicks + Cooldown - cool + 1
    BY <1>3, <1>5, JwtBounds
  <2>2. Knows(jwtStore.keys, n)
    BY <1>5 DEF JwtInv, CooldownSays
  <2> HIDE DEF n
  <2> QED BY <1>12, <2>1, <2>2
<1>18. ServedSays'
  <2> SUFFICES ASSUME NEW x \in Verifications, jwtCall[x].st = "served", jwtStore.ok
               PROVE  \A k \in Kids : jwtPublished'[k] > ExchangeTicks + (CallerTicks - left(x)) + 1
                                        => k \in jwtStore.keys
    BY <1>8, <1>10, <1>11 DEF ServedSays, Knows
  <2> DEFINE n == ExchangeTicks + (CallerTicks - jwtCall[x].left) + 1
  <2>1. jwtCall[x].left > 0
    BY <1>1 DEF Waiting
  <2>2. n \in Int /\ n + 1 = ExchangeTicks + (CallerTicks - left(x)) + 1
    BY <1>3, <1>6, <2>1, JwtBounds
  <2>3. Knows(jwtStore.keys, n)
    BY DEF JwtInv, ServedSays
  <2> HIDE DEF n
  <2> QED BY <1>12, <2>2, <2>3
<1>19. \A x \in Verifications : Justified(x)
  BY <1>10, <1>11 DEF Justified, Waiting
<1> QED BY <1>13, <1>14, <1>15, <1>16, <1>17, <1>18, <1>19 DEF JwtInv

LEMMA JwtStart == JwtInit => JwtInv
<1> SUFFICES ASSUME JwtInit PROVE JwtInv
  OBVIOUS
<1> USE DEF JwtInit
<1>1. jwtPublished \in [Kids -> Ages]
  <2>1. KnownAfter + 2 \in Ages /\ 0 \in Ages
    BY JwtBounds DEF Ages
  <2> QED BY <2>1
<1>2. jwtStore \in Stores /\ jwtStore.ok = FALSE
  <2> DEFINE none == {}
             zero == 0
             y == [keys |-> none, pending |-> FALSE, cool |-> zero, ok |-> FALSE, stopped |-> TRUE]
  <2>1. none \in SUBSET Kids /\ zero \in 0 .. Cooldown
    BY JwtBounds
  <2>2. jwtStore = y
    OBVIOUS
  <2> HIDE DEF none, zero
  <2>3. y \in Stores
    BY <2>1 DEF Stores
  <2>4. y.ok = FALSE
    OBVIOUS
  <2> HIDE DEF y, JwtInit
  <2> QED BY <2>2, <2>3, <2>4
<1>3. jwtWorker \in Workers /\ jwtWorker.st = "new"
  <2> DEFINE none == {}
             zero == 0
             y == [st |-> "new", left |-> zero, permit |-> FALSE, got |-> none]
  <2>1. none \in SUBSET Kids /\ zero \in 0 .. ExchangeTicks /\ "new" \in WorkerStates
    BY JwtBounds DEF WorkerStates
  <2>2. jwtWorker = y
    OBVIOUS
  <2> HIDE DEF none, zero
  <2>3. y \in Workers
    BY <2>1 DEF Workers
  <2>4. y.st = "new"
    OBVIOUS
  <2> HIDE DEF y, JwtInit
  <2> QED BY <2>2, <2>3, <2>4
<1>4. "unavailable" \in Verdicts
  BY DEF Verdicts
<1>5. jwtCall \in [Verifications -> KeyRequests] /\ \A c \in Verifications : jwtCall[c].st \notin Waiting
  BY <1>4, OverIs
<1> HIDE DEF JwtInit
<1>6. JwtTypeOK
  BY <1>1, <1>2, <1>3, <1>5 DEF JwtTypeOK, Stores, Workers, WorkerStates, KeyRequests, RequestStates, KidNames, Signers
<1>7. KeysSay /\ WaitersSay
  BY <1>3, <1>5 DEF KeysSay, WaitersSay, Prepared, Started
<1>8. FetchSays /\ CooldownSays /\ ServedSays
  BY <1>2, <1>3 DEF FetchSays, CooldownSays, ServedSays
<1> QED BY <1>6, <1>7, <1>8 DEF JwtInv

LEMMA JwtStep ==
  ASSUME JwtInv, JwtNext
  PROVE  JwtInv' /\ \A x \in Verifications : Justified(x)
<1>1. ASSUME NEW c \in Verifications, RefuseEarly(c) PROVE JwtInv' /\ \A x \in Verifications : Justified(x)
  <2>1. "refused" \in Verdicts
    BY DEF Verdicts
  <2> QED BY <1>1, <2>1, FirstVerdictKeeps DEF RefuseEarly
<1> QED BY <1>1, PrepareKeeps, InstallKeeps, VerifyKeeps, KeyAskKeeps, ResumeKeeps, ExpireKeeps, FetchKeeps, FinishKeeps,
           KeyLeaveKeeps, RotateKeeps, KeyTickKeeps DEF JwtNext

\* Whatever joins, cooldowns, periodic fetches, failures and rotations interleave, a token
\* whose key has been published for longer than KnownAfter is never called unknown, and
\* one whose key is not installed is never accepted (refresh_for_unknown_key, finish).
THEOREM VerdictsSafe == JwtSpec => VerdictsJustified
<1>1. JwtInit => JwtInv
  BY JwtStart
<1>2. JwtInv /\ [JwtNext]_jwtVars
        => /\ JwtInv'
           /\ [/\ JwtTypeOK
               /\ \A c \in Verifications :
                    LET signer == jwtCall[c].signer
                    IN jwtCall[c].st \in Waiting =>
                       /\ jwtCall'[c].st = "unknown" /\ signer \in Published
                            => jwtPublished[signer] <= KnownAfter + 1
                       /\ jwtCall'[c].st = "accepted" => signer \in jwtStore.keys]_jwtVars
  <2>1. CASE JwtInv /\ JwtNext
    BY <2>1, JwtStep DEF JwtInv, Justified
  <2>2. CASE JwtInv /\ UNCHANGED jwtVars
    BY <2>2 DEF JwtInv, jwtVars, JwtTypeOK, KeysSay, WaitersSay, FetchSays, CooldownSays, ServedSays, Prepared, Started, Knows
  <2> QED BY <2>1, <2>2
<1> QED BY <1>1, <1>2, PTL DEF JwtSpec, VerdictsJustified
=============================================================================
