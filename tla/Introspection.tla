---------------------------- MODULE Introspection ---------------------------
(***************************************************************************)
(* Introspection of one opaque token, with its positive cache              *)
(* (src/crates/infra-bearerauthn/src/introspection.rs): requests are       *)
(* answered from the retained result, or share one fill, which looks at    *)
(* the retained result again and else asks the provider.  The provider may *)
(* revoke the token at any time; time is in ticks.                         *)
(***************************************************************************)
EXTENDS BearerAuthn

CONSTANTS
    Bearers,       \* requests that present the token
    NoBearer,      \* no request leads the fill
    RetainTicks,   \* cache ttl
    ProviderTicks, \* PROVIDER_TIMEOUT
    BudgetTicks,   \* what a request's context allows
    Leeway,        \* clock leeway granted to exp
    MaxLife        \* ticks until the token has expired for good, leeway included

ASSUME IntrospectionAssumption ==
    /\ {RetainTicks, ProviderTicks, BudgetTicks, Leeway, MaxLife} \subseteq Nat \ {0}
    /\ NoBearer \notin Bearers

VARIABLES
    insOptions,  \* cache: is there one; large: the payload exceeds MAX_ENTRY_BYTES
    insToken,    \* life: ticks until exp plus leeway; revoked: ticks since the revocation, and one
    insRetained, \* ticks the retained result has left; 0: none
    insFill,     \* the fill in flight: who leads it, what the provider answered, ticks left
    insCall      \* each request

insVars == <<insOptions, insToken, insRetained, insFill, insCall>>

\* A revoked token may still be accepted for this long.
RevocationTicks == RetainTicks + ProviderTicks + BudgetTicks

Pending == {"enter", "missed", "fill", "direct", "fresh", "retained"}
Outcomes == {"accepted", "refused", "unavailable"}
NoFill == [leader |-> NoBearer, active |-> FALSE, left |-> 0]

InsTypeOK ==
    /\ insOptions \in [cache: BOOLEAN, large: BOOLEAN]
    /\ insToken \in [life: 0 .. MaxLife, revoked: 0 .. RevocationTicks + 2]
    /\ insRetained \in 0 .. RetainTicks
    /\ insFill \in [leader: Bearers \cup {NoBearer}, active: BOOLEAN, left: 0 .. ProviderTicks]
    /\ insCall \in [Bearers -> [st: Pending \cup Outcomes, left: 0 .. BudgetTicks]]

InsInit ==
    /\ insOptions \in [cache: BOOLEAN, large: BOOLEAN]
    /\ insToken = [life |-> MaxLife, revoked |-> 0]
    /\ insRetained = 0
    /\ insFill = NoFill
    /\ insCall = [c \in Bearers |-> [st |-> "refused", left |-> 0]]

-----------------------------------------------------------------------------
\* VerifiedIntrospection::reusable_at: without the leeway
Reusable == insToken.life > Leeway

\* Retention: fixed when the entry is inserted, never beyond exp
Retention ==
    IF insOptions.large \/ ~Reusable THEN 0
    ELSE IF insToken.life - Leeway < RetainTicks THEN insToken.life - Leeway ELSE RetainTicks

\* What the provider's answer comes to: validate_introspection_claims, or a failed exchange
ProviderVerdict(active, a, x) ==
    Then(IF Receive(a, TRUE) = "ok" THEN "ok" ELSE "Unavailable",
         IntrospectionClaims([x EXCEPT !.active = @ /\ active,
                                       !.exp = IF insToken.life = 0 THEN "late" ELSE @]))

ProviderVerdicts(active) == {ProviderVerdict(active, a, x) : a \in ProviderAnswers, x \in ClaimSets}

Outcome(verdict) ==
    CASE verdict = "ok" -> "accepted"
      [] verdict = "Unavailable" -> "unavailable"
      [] OTHER -> "refused"

Told(c, outcome) == [insCall EXCEPT ![c] = [st |-> outcome, left |-> 0]]

\* Everyone who waits for the fill that c leads gets its result.
ToldAll(c, st) ==
    [x \in Bearers |->
       IF x # c /\ insCall[x].st # "fill" THEN insCall[x]
       ELSE [st |-> st, left |-> IF st \in Outcomes THEN 0 ELSE insCall[x].left]]

\* The call to the provider is asked at once; what it answers is what holds by then.
Asked(c) == [leader |-> c, active |-> insToken.revoked = 0, left |-> ProviderTicks]

-----------------------------------------------------------------------------
\* verify_with_context: a request arrives with its budget.
InsEnter(c) ==
    /\ insCall[c].st \in Outcomes
    /\ insCall' = [insCall EXCEPT ![c] = [st |-> "enter", left |-> BudgetTicks]]
    /\ UNCHANGED <<insOptions, insToken, insRetained, insFill>>

\* The retained result answers, or the request turns to the fill; without a cache it
\* asks the provider itself (introspect under the caller's context).
InsLook(c) ==
    /\ insCall[c].st = "enter"
    /\ IF insRetained > 0 /\ Reusable
       THEN insCall' = Told(c, "accepted")
       ELSE insCall' = [insCall EXCEPT ![c].st = IF insOptions.cache THEN "missed" ELSE "direct"]
    /\ UNCHANGED <<insOptions, insToken, insRetained, insFill>>

\* introspect: no free permit is an answer (Capacity).
InsDirect(c) ==
    /\ insCall[c].st = "direct"
    /\ \/ insCall' = Told(c, "unavailable")
       \/ \E v \in ProviderVerdicts(insToken.revoked = 0) : insCall' = Told(c, Outcome(v))
    /\ UNCHANGED <<insOptions, insToken, insRetained, insFill>>

\* try_get_with joins the fill in flight.
InsJoin(c) ==
    /\ insCall[c].st = "missed" /\ insFill.leader # NoBearer
    /\ insCall' = [insCall EXCEPT ![c].st = "fill"]
    /\ UNCHANGED <<insOptions, insToken, insRetained, insFill>>

\* Without one it runs the fill: the retained result again, then a permit, then the
\* provider.
InsLead(c) ==
    /\ insCall[c].st \in {"missed", "fill"} /\ insFill.leader = NoBearer
    /\ \/ /\ insRetained > 0 /\ Reusable
          /\ insCall' = ToldAll(c, "retained") /\ UNCHANGED insFill
       \/ /\ ~(insRetained > 0 /\ Reusable)
          /\ insCall' = ToldAll(c, "unavailable") /\ UNCHANGED insFill
       \/ /\ ~(insRetained > 0 /\ Reusable)
          /\ insFill' = Asked(c) /\ insCall' = [insCall EXCEPT ![c].st = "fill"]
    /\ UNCHANGED <<insOptions, insToken, insRetained>>

\* The exchange ends: a verified answer is retained and handed to the waiters, an error
\* is shared.
InsFilled ==
    /\ insFill.leader # NoBearer
    /\ insFill' = NoFill
    /\ \E v \in ProviderVerdicts(insFill.active) :
          IF v = "ok"
          THEN insRetained' = Retention /\ insCall' = ToldAll(insFill.leader, "fresh")
          ELSE insCall' = ToldAll(insFill.leader, Outcome(v)) /\ UNCHANGED insRetained
    /\ UNCHANGED <<insOptions, insToken>>

\* Mutation: a retained result handed over by the fill is not checked again.
DeliverUnchecked(c) ==
    /\ insCall[c].st \in {"fresh", "retained"}
    /\ insCall' = Told(c, IF insCall[c].st = "retained" \/ insToken.life > 0
                          THEN "accepted" ELSE "refused")
    /\ UNCHANGED <<insOptions, insToken, insRetained, insFill>>

\* A waiter takes the result of the fill: fresh evidence is checked with the leeway, a
\* retained one without; one that no longer holds sends it round the loop.
InsDeliver(c) ==
    /\ \/ /\ insCall[c].st = "fresh"
          /\ insCall' = Told(c, IF insToken.life > 0 THEN "accepted" ELSE "refused")
       \/ /\ insCall[c].st = "retained"
          /\ insCall' = IF Reusable THEN Told(c, "accepted")
                        ELSE [insCall EXCEPT ![c].st = "enter"]
    /\ UNCHANGED <<insOptions, insToken, insRetained, insFill>>

\* The request's context stops or its future is dropped, and with the leader the fill;
\* another waiter then runs its own.
InsDrop(c) ==
    /\ insCall[c].st \in Pending
    /\ insCall' = Told(c, "unavailable")
    /\ insFill' = IF insFill.leader = c THEN NoFill ELSE insFill
    /\ UNCHANGED <<insOptions, insToken, insRetained>>

Revoke ==
    /\ insToken.revoked = 0
    /\ insToken' = [insToken EXCEPT !.revoked = 1]
    /\ UNCHANGED <<insOptions, insRetained, insFill, insCall>>

OneLess(n) == IF n > 0 THEN n - 1 ELSE 0

\* Time: exchanges and requests end within their budgets.
InsTick ==
    /\ insFill.leader # NoBearer => insFill.left > 0
    /\ \A c \in Bearers : insCall[c].st \in Pending => insCall[c].left > 0
    /\ insToken' = [life |-> OneLess(insToken.life),
                    revoked |-> IF insToken.revoked \in 1 .. RevocationTicks + 1
                                THEN insToken.revoked + 1 ELSE insToken.revoked]
    /\ insRetained' = OneLess(insRetained)
    /\ insFill' = [insFill EXCEPT !.left = OneLess(@)]
    /\ insCall' = [c \in Bearers |-> [insCall[c] EXCEPT !.left = OneLess(@)]]
    /\ UNCHANGED insOptions

InsNext ==
    \/ \E c \in Bearers : \/ InsEnter(c) \/ InsLook(c) \/ InsDirect(c) \/ InsJoin(c) \/ InsLead(c)
                          \/ InsDeliver(c) \/ InsDrop(c)
    \/ InsFilled \/ Revoke \/ InsTick

-----------------------------------------------------------------------------
(* Properties *)

\* How long a token outlives its end, whatever fills are shared, abandoned and taken
\* over: a revoked one is accepted for at most the retention plus one exchange plus one
\* request's budget, and one past exp and leeway never
\* (verify_with_now, Retention: reads never extend an entry).
RevocationBound ==
    [][/\ InsTypeOK
       /\ \A c \in Bearers :
            insCall[c].st \in Pending /\ insCall'[c].st = "accepted"
              => insToken.life > 0 /\ insToken.revoked <= RevocationTicks + 1]_insVars
=============================================================================
