---------------------------- MODULE ServiceToken ----------------------------
(***************************************************************************)
(* The service token of one OAuth2 credential owner                        *)
(* (src/crates/infra-oauth2-client-credentials/src/lib.rs): callers share  *)
(* a cached token, one of them at a time requests a new one, a driver      *)
(* replaces it ahead of its expiry, a resource's 401 evicts it, and a      *)
(* completed failure is shared for a while.                                *)
(*                                                                         *)
(* Time is counted in ticks left.  A token's id stands for its allocation  *)
(* (Arc::ptr_eq); the holders of one token see the same ages, and an id    *)
(* nobody refers to is used again.                                         *)
(***************************************************************************)
EXTENDS Naturals

CONSTANTS
    Calls,        \* concurrent calls through an AuthenticatedClient
    Tokens,       \* ids of token allocations
    NoToken,
    Driver,       \* the RefreshDriver, as the holder of the acquisition lock
    NoOne,        \* the lock is free
    Budgets,      \* deadlines callers bring
    Lifetimes,    \* expires_in answers of the provider
    FetchTimeout, \* FETCH_TIMEOUT
    FailureWindow,\* FAILURE_WINDOW
    ReuseMargin,  \* REUSE_MARGIN
    RefreshAhead, \* REFRESH_AHEAD
    RefreshRetry, \* REFRESH_RETRY
    EvictionMinAge\* EVICTION_MIN_AGE

ASSUME ServiceTokenAssumption ==
    /\ NoToken \notin Tokens
    /\ Driver \notin Calls /\ NoOne \notin Calls /\ NoOne # Driver
    /\ Budgets \subseteq Nat \ {0}
    /\ Lifetimes \subseteq Nat
    /\ {FetchTimeout, FailureWindow, ReuseMargin, RefreshAhead, RefreshRetry,
        EvictionMinAge} \subseteq Nat
    /\ FetchTimeout > 0

VARIABLES
    cached,   \* Cached::token
    due,      \* Cached::refresh_after: ticks to it, when there is one
    failure,  \* Cached::failure: ticks left of its window
    pending,  \* Cached::refresh_pending
    lock,     \* holder of Inner::refresh
    call,     \* each call
    request,  \* the refresh queue's one slot
    driver,
    quiet     \* history: ticks a failure that was not a caller's own forbids requests

vars == <<cached, due, failure, pending, lock, call, request, driver, quiet>>

-----------------------------------------------------------------------------
(* Tokens: age and provider lifetime run from the request's start *)

\* reuse, ahead: ticks to reuse_until and refresh_after.  life: ticks to the
\* provider's expiry, which the code does not keep; timed: it gave one.
Token == [id: Tokens \cup {NoToken}, age: Nat, life: Nat, reuse: Nat, ahead: Nat, timed: BOOLEAN]

NoneHeld == [id |-> NoToken, age |-> 0, life |-> 0, reuse |-> 0, ahead |-> 0, timed |-> FALSE]

Less(a, b) == IF a > b THEN a - b ELSE 0
Lower(a, b) == IF a < b THEN a ELSE b

IsReusable(t) == t.reuse > 0
IsEvictable(t) == t.age >= EvictionMinAge
PtrEq(t, u) == t.id # NoToken /\ t.id = u.id

\* sampled_refresh_spread: up to a tenth of the window, in whole ticks.
Spread(window) == 0 .. (window \div 10)

\* The lead of refresh_after before reuse_until.
Leads(window) ==
    LET most == Lower(RefreshAhead, window \div 4) IN {most - x : x \in Spread(most)}

\* Mutation: the lifetime is counted from the response.
IntoTokenFromResponse(t, lifetime, spent) ==
    LET window == Less(lifetime, ReuseMargin)
    IN {[id |-> t, age |-> Lower(spent, EvictionMinAge), life |-> lifetime - spent,
         reuse |-> window, ahead |-> window - lead, timed |-> TRUE] : lead \in Leads(window)}

\* into_token, spent ticks after the request started: everything is counted from
\* the start, and one with no more than REUSE_MARGIN to live is never reused.
IntoToken(t, lifetime, spent) ==
    LET window == Less(lifetime, ReuseMargin)
    IN {[id |-> t, age |-> Lower(spent, EvictionMinAge), life |-> lifetime - spent,
         reuse |-> Less(window, spent), ahead |-> Less(window - lead, spent),
         timed |-> TRUE] : lead \in Leads(window)}

\* No expires_in: for the requesting call only.
RequestOnly(t, spent) == [NoneHeld EXCEPT !.id = t, !.age = Lower(spent, EvictionMinAge)]

\* What a provider's answer may become.  One that took its whole lifetime is refused.
Answers(t, spent) ==
    {RequestOnly(t, spent)}
        \cup UNION {IntoToken(t, l, spent) : l \in {m \in Lifetimes : spent < m}}

\* refresh_retry
Retries == {RefreshRetry + x : x \in Spread(RefreshRetry)}

-----------------------------------------------------------------------------
Idle == [st |-> "idle", left |-> 0, spent |-> 0, short |-> FALSE, tok |-> NoneHeld]
NoRequest == [cur |-> NoToken, left |-> 0]
Free == [st |-> "idle", cur |-> NoToken, left |-> 0, spent |-> 0]
NotDue == [on |-> FALSE, left |-> 0]

TypeOK ==
    /\ cached \in Token
    /\ due \in [on: BOOLEAN, left: Nat]
    /\ failure \in Nat /\ quiet \in Nat
    /\ pending \in BOOLEAN
    /\ lock \in Calls \cup {Driver, NoOne}
    /\ call \in [Calls -> [st: {"idle", "lock", "fetch", "use"}, left: Nat, spent: Nat,
                           short: BOOLEAN, tok: Token]]
    /\ request \in [cur: Tokens \cup {NoToken}, left: Nat]
    /\ driver \in [st: {"idle", "lock", "fetch", "stored", "ended", "closed"},
                   cur: Tokens \cup {NoToken}, left: Nat, spent: Nat]

Init ==
    /\ cached = NoneHeld /\ due = NotDue /\ failure = 0 /\ pending = FALSE
    /\ lock = NoOne
    /\ call = [c \in Calls |-> Idle]
    /\ request = NoRequest
    /\ driver = Free
    /\ quiet = 0

Closed == driver.st = "closed"

\* Names something still refers to, but for call c.
InUse(c) == {cached.id, request.cur, driver.cur} \cup {call[d].tok.id : d \in Calls \ {c}}

\* A new allocation; names nobody refers to are interchangeable.
Fresh(c) == LET free == Tokens \ InUse(c) IN IF free = {} THEN {} ELSE {CHOOSE t \in free : TRUE}

-----------------------------------------------------------------------------
(* Callers *)

\* reusable_service_token: a hit past refresh_after queues one refresh.
Schedule ==
    LET wanted == due.on /\ due.left = 0 /\ ~pending /\ failure = 0
        sent   == wanted /\ ~Closed /\ request.cur = NoToken
    IN /\ \E x \in Retries : due' = IF wanted THEN [on |-> TRUE, left |-> x] ELSE due
       /\ pending' = (pending \/ sent)
       /\ request' = IF sent THEN [cur |-> cached.id, left |-> FetchTimeout] ELSE request

Uses(c, t) == [call EXCEPT ![c].st = "use", ![c].tok = t]

\* service_token: an admitted call finds the token reusable, or goes to the lock.
StartCall(c, budget) ==
    /\ call[c].st = "idle"
    /\ ~Closed
    /\ IF IsReusable(cached)
       THEN /\ call' = [Uses(c, cached) EXCEPT ![c].left = budget]
            /\ Schedule
       ELSE /\ call' = [call EXCEPT ![c] = [Idle EXCEPT !.st = "lock", !.left = budget]]
            /\ UNCHANGED <<due, pending, request>>
    /\ UNCHANGED <<cached, failure, lock, driver, quiet>>

\* acquire_service_token after the lock: check deadline and lifecycle again, then
\* the token, then the shared failure; only then request a token.
Locked(c) ==
    /\ call[c].st = "lock" /\ lock = NoOne
    /\ \/ /\ call[c].left > 0 /\ ~Closed /\ IsReusable(cached)
          /\ call' = Uses(c, cached)
          /\ Schedule
          /\ UNCHANGED lock
       \/ /\ call[c].left = 0 \/ Closed \/ (~IsReusable(cached) /\ failure > 0)
          /\ call' = [call EXCEPT ![c] = Idle]
          /\ UNCHANGED <<lock, due, pending, request>>
       \/ /\ call[c].left > 0 /\ ~Closed /\ ~IsReusable(cached) /\ failure = 0
          /\ call' = [call EXCEPT ![c].st = "fetch", ![c].short = call[c].left < FetchTimeout]
          /\ lock' = c
          /\ UNCHANGED <<due, pending, request>>
    /\ UNCHANGED <<cached, failure, driver, quiet>>

\* The wait for the lock ends at the deadline.
LockTimeout(c) ==
    /\ call[c].st = "lock" /\ call[c].left = 0
    /\ call' = [call EXCEPT ![c] = Idle]
    /\ UNCHANGED <<cached, due, failure, pending, lock, request, driver, quiet>>

\* store_service_token
Store(value) ==
    /\ failure' = 0 /\ quiet' = 0
    /\ cached' = IF IsReusable(value) THEN value ELSE cached
    /\ due' = IF IsReusable(value) THEN [on |-> TRUE, left |-> value.ahead] ELSE due

\* fetch_service_token's own deadline: an answer at it is a timeout.
FetchOver(c) == call[c].spent = FetchTimeout \/ call[c].left = 0

Fetched(c) ==
    /\ call[c].st = "fetch" /\ ~FetchOver(c)
    /\ lock' = NoOne
    /\ \E t \in Fresh(c) : \E value \in Answers(t, call[c].spent) :
          /\ Store(value)
          /\ call' = Uses(c, value)
    /\ UNCHANGED <<pending, request, driver>>

\* remember_failure
Remember == failure' = FailureWindow /\ quiet' = FailureWindow

\* The provider refuses or fails, or there is no permit, which is not remembered.
FetchFails(c, capacity) ==
    /\ call[c].st = "fetch" /\ ~FetchOver(c)
    /\ lock' = NoOne
    /\ call' = [call EXCEPT ![c] = Idle]
    /\ IF capacity THEN UNCHANGED <<failure, quiet>> ELSE Remember
    /\ UNCHANGED <<cached, due, pending, request, driver>>

\* Mutation: every timeout is shared.
FetchTimesOutShared(c) ==
    /\ call[c].st = "fetch" /\ FetchOver(c)
    /\ lock' = NoOne
    /\ call' = [call EXCEPT ![c] = Idle]
    /\ failure' = FailureWindow
    /\ quiet' = IF call[c].short THEN quiet ELSE FailureWindow
    /\ UNCHANGED <<cached, due, pending, request, driver>>

\* Only a full attempt's timeout is shared, not a caller's earlier deadline.
FetchTimesOut(c) ==
    /\ call[c].st = "fetch" /\ FetchOver(c)
    /\ lock' = NoOne
    /\ call' = [call EXCEPT ![c] = Idle]
    /\ IF call[c].short THEN UNCHANGED <<failure, quiet>> ELSE Remember
    /\ UNCHANGED <<cached, due, pending, request, driver>>

\* The caller's future is dropped, its deadline or its resource call ends.
EndCall(c) ==
    /\ call[c].st # "idle"
    /\ call' = [call EXCEPT ![c] = Idle]
    /\ lock' = IF lock = c THEN NoOne ELSE lock
    /\ UNCHANGED <<cached, due, failure, pending, request, driver, quiet>>

\* Mutation: an old token's 401 evicts whatever is cached.
UnauthorizedAny(c) ==
    /\ call[c].st = "use"
    /\ IsEvictable(call[c].tok)
    /\ cached' = NoneHeld /\ due' = NotDue
    /\ call' = [call EXCEPT ![c] = Idle]
    /\ UNCHANGED <<failure, pending, lock, request, driver, quiet>>

\* execute_with_context on a 401: reject_service_token.  A 401 for a young or
\* replaced token changes nothing (EndCall).
Unauthorized(c) ==
    /\ call[c].st = "use"
    /\ IsEvictable(call[c].tok) /\ PtrEq(cached, call[c].tok)
    /\ cached' = NoneHeld /\ due' = NotDue
    /\ call' = [call EXCEPT ![c] = Idle]
    /\ UNCHANGED <<failure, pending, lock, request, driver, quiet>>

-----------------------------------------------------------------------------
(* RefreshDriver::run and refresh_ahead *)

Take ==
    /\ driver.st = "idle" /\ request.cur # NoToken
    /\ driver' = [Free EXCEPT !.st = "lock", !.cur = request.cur, !.left = request.left]
    /\ request' = NoRequest
    /\ UNCHANGED <<cached, due, failure, pending, lock, call, quiet>>

\* After the lock: an elapsed budget, a shared failure or another token ends it.
Begin ==
    /\ driver.st = "lock" /\ lock = NoOne
    /\ IF driver.left > 0 /\ failure = 0 /\ cached.id = driver.cur
       THEN driver' = [driver EXCEPT !.st = "fetch"] /\ lock' = Driver
       ELSE driver' = [driver EXCEPT !.st = "ended"] /\ UNCHANGED lock
    /\ UNCHANGED <<cached, due, failure, pending, call, request, quiet>>

DriverLockTimeout ==
    /\ driver.st = "lock" /\ driver.left = 0
    /\ driver' = [driver EXCEPT !.st = "ended"]
    /\ UNCHANGED <<cached, due, failure, pending, lock, call, request, quiet>>

Refreshed ==
    /\ driver.st = "fetch" /\ driver.left > 0
    /\ \E t \in Fresh(NoOne) : \E value \in Answers(t, driver.spent) : Store(value)
    /\ driver' = [driver EXCEPT !.st = "stored"]
    /\ UNCHANGED <<pending, lock, call, request>>

\* The spacing of the next refresh; an eviction meanwhile stays.
Spaced ==
    /\ driver.st = "stored"
    /\ \E x \in Retries :
          due' = IF due.on /\ due.left < x THEN [on |-> TRUE, left |-> x] ELSE due
    /\ driver' = [driver EXCEPT !.st = "ended"]
    /\ lock' = NoOne
    /\ UNCHANGED <<cached, failure, pending, call, request, quiet>>

\* A timeout of the background attempt is shared, however much the wait for the
\* lock took of it.
RefreshFails(capacity) ==
    /\ driver.st = "fetch" /\ (capacity => driver.left > 0)
    /\ driver' = [driver EXCEPT !.st = "ended"]
    /\ lock' = NoOne
    /\ IF capacity THEN UNCHANGED <<failure, quiet>> ELSE Remember
    /\ UNCHANGED <<cached, due, pending, call, request>>

\* Mutation: the flag outlives a refresh that ended early.
EndedKeepsFlag ==
    /\ driver.st = "ended"
    /\ driver' = Free
    /\ UNCHANGED <<cached, due, failure, pending, lock, call, request, quiet>>

Ended ==
    /\ driver.st = "ended"
    /\ driver' = Free
    /\ pending' = FALSE
    /\ UNCHANGED <<cached, due, failure, lock, call, request, quiet>>

\* Shutdown or the last owner's loss: the refresh in progress and the queued one
\* are dropped, and RefreshDriver::drop clears the flag.
Close ==
    /\ ~Closed
    /\ driver' = [Free EXCEPT !.st = "closed"]
    /\ request' = NoRequest
    /\ pending' = FALSE
    /\ lock' = IF lock = Driver THEN NoOne ELSE lock
    /\ UNCHANGED <<cached, due, failure, call, quiet>>

-----------------------------------------------------------------------------
Aged(t) == IF t = NoneHeld THEN t ELSE
    [t EXCEPT !.age = Lower(@ + 1, EvictionMinAge), !.life = Less(@, 1),
              !.reuse = Less(@, 1), !.ahead = Less(@, 1)]

\* Deadlines fire at zero, so time waits for them.
Tick ==
    /\ \A c \in Calls : /\ call[c].st \in {"lock", "use"} => call[c].left > 0
                        /\ call[c].st = "fetch" => ~FetchOver(c)
    /\ driver.st \in {"lock", "fetch"} => driver.left > 0
    /\ cached' = Aged(cached)
    /\ due' = [due EXCEPT !.left = Less(@, 1)]
    /\ failure' = Less(failure, 1) /\ quiet' = Less(quiet, 1)
    /\ call' = [c \in Calls |->
                   IF call[c].st = "idle" THEN Idle
                   ELSE [call[c] EXCEPT !.left = Less(@, 1), !.tok = Aged(@),
                                        !.spent = IF call[c].st = "fetch" THEN @ + 1 ELSE @]]
    /\ request' = [request EXCEPT !.left = Less(@, 1)]
    /\ driver' = [driver EXCEPT !.left = Less(@, 1),
                                !.spent = IF driver.st = "fetch" THEN @ + 1 ELSE @]
    /\ UNCHANGED <<pending, lock>>

Caller(c) == \/ \E b \in Budgets : StartCall(c, b)
             \/ Locked(c) \/ LockTimeout(c)
             \/ Fetched(c) \/ FetchTimesOut(c)
             \/ \E b \in BOOLEAN : FetchFails(c, b)
             \/ Unauthorized(c)
             \/ EndCall(c)

Drive == Take \/ Begin \/ DriverLockTimeout \/ Refreshed \/ Spaced \/ Ended
            \/ \E b \in BOOLEAN : RefreshFails(b)

Next == (\E c \in Calls : Caller(c)) \/ Drive \/ Close \/ Tick

Spec == Init /\ [][Next]_vars

\* Deadlines end what waits; nothing makes the provider answer.
FairSpec ==
    /\ Spec
    /\ WF_vars(Tick)
    /\ \A c \in Calls : /\ WF_vars(LockTimeout(c)) /\ WF_vars(FetchTimesOut(c))
                        /\ WF_vars(call[c].st = "use" /\ call[c].left = 0 /\ EndCall(c))
    /\ WF_vars(Take) /\ WF_vars(DriverLockTimeout) /\ WF_vars(Spaced) /\ WF_vars(Ended)
    /\ WF_vars(driver.left = 0 /\ RefreshFails(FALSE))
-----------------------------------------------------------------------------
(* Properties *)

\* A request to the provider begins.
Requests(c) == call[c].st # "fetch" /\ call'[c].st = "fetch"
Replaces == driver.st # "fetch" /\ driver'.st = "fetch"

\* A good token is kept: it leaves the cache only past its refresh time, or by a
\* 401 for that very token at EVICTION_MIN_AGE or later.  So a resource that
\* refuses every token costs one token request per such period, and neither a
\* late 401 for a predecessor nor a refresh that lost its race to a caller costs
\* the shared token (reject_service_token, refresh_ahead).
TokenKept ==
    cached'.id # cached.id /\ cached # NoneHeld =>
        \/ cached.ahead = 0
        \/ cached' = NoneHeld /\ IsEvictable(cached)

\* The provider is asked for a token only by one at a time, only while the owner
\* is open and no completed failure is being shared, and by a caller only when
\* there is nothing to reuse; a waiter is refused without a request only by such
\* a failure, its own deadline or the owner's end, never by another caller's short
\* deadline (acquire_service_token, refresh_ahead, remember_failure).
RequestsJustified ==
    /\ \A c \in Calls : Requests(c) => ~IsReusable(cached)
    /\ (Replaces \/ \E c \in Calls : Requests(c)) =>
          /\ ~Closed /\ quiet = 0
          /\ driver.st # "fetch" /\ \A c \in Calls : call[c].st # "fetch"
    /\ \A c \in Calls : Locked(c) /\ call'[c] = Idle => quiet > 0 \/ Closed \/ call[c].left = 0

\* No step costs the calls that share an owner a good token, a needless request or
\* somebody else's refusal.
SharedFairly == [][TokenKept /\ RequestsJustified]_vars

\* What a call takes from the shared cache has more than REUSE_MARGIN to live
\* however slow the provider's answer was, and a token without a lifetime stays
\* with the call that asked for it (into_token, is_reusable, store_service_token).
SharedTokensLive ==
    /\ TypeOK
    /\ cached # NoneHeld => cached.timed
    /\ IsReusable(cached) => cached.life >= cached.reuse + ReuseMargin
    /\ \A c, d \in Calls : c # d /\ PtrEq(call[c].tok, call[d].tok) => call[c].tok.timed

\* The refresh slot never stays taken: whatever the provider, the lock or an
\* eviction does, a later hit can ask for a refresh again, and the driver never
\* works on two (refresh_pending, RefreshDriver::run and drop).
RefreshSlotFreed == pending ~> ~pending
=============================================================================
