---------------------------- MODULE TokenExchange ---------------------------
(***************************************************************************)
(* Token exchange on behalf of one subject                                 *)
(* (src/crates/infra-oauth2-client-credentials): callers that miss the     *)
(* cache share the exchange of the first of them, which ends with that     *)
(* caller's budget; a waiter then starts its own, within what its entry    *)
(* left of FETCH_TIMEOUT.  A token may be good for one request only.  Time *)
(* is in ticks; a token is known by its number.                            *)
(***************************************************************************)
EXTENDS Refusals, FiniteSets

CONSTANTS
    Actors,       \* callers that act for the subject
    NoActor,      \* nobody leads an exchange
    FetchTicks,   \* FETCH_TIMEOUT
    ActorBudgets, \* the budgets calls bring
    ReuseLives,   \* for how long an answer may be reused; 0: one request only
    EvictAge,     \* EVICTION_MIN_AGE
    MaxTokens     \* bound: tokens the provider issues

ASSUME TokenExchangeAssumption ==
    /\ {FetchTicks, EvictAge, MaxTokens} \cup ActorBudgets \subseteq Nat \ {0}
    /\ ReuseLives \subseteq Nat /\ NoActor \notin Actors

VARIABLES
    exOwner,  \* the credentials: "new", "refused", "open"
    exIssued, \* tokens issued so far
    exCached, \* the entry of the subject: token number (0: none), reuse left, age, and
              \* whether it was issued for one request only
    exLeader, \* who leads the exchange in flight
    exCall    \* each caller: where it is, the token it has, is it fresh, budget left, and
              \* of its turn in exchanged_or_fetch: what is left to fetch_deadline, and
              \* (history) for how long it has been there

exVars == <<exOwner, exIssued, exCached, exLeader, exCall>>

NoEntry == [token |-> 0, left |-> 0, age |-> 0, once |-> FALSE]
Resting(st) == [st |-> st, token |-> 0, left |-> 0, age |-> 0, once |-> FALSE, fresh |-> FALSE,
                budget |-> 0, fetch |-> 0, in |-> 0]

\* A turn in exchanged_or_fetch begins: fetch_deadline is fixed here, for good.
Entering(budget) ==
    [Resting("enter") EXCEPT !.budget = budget,
                             !.fetch = IF budget < FetchTicks THEN budget ELSE FetchTicks]
Acquiring == {"enter", "wait"}
Busy == Acquiring \cup {"got", "using"}
\* How a call may have ended: AcquisitionError::Timeout, any other error, or (done, or
\* dropped) "idle"
CallErrors == {"timeout", "failed"}
Rests == {"idle"} \cup CallErrors

ExTypeOK ==
    /\ exOwner \in {"new", "refused", "open"}
    /\ exIssued \in 0 .. MaxTokens
    /\ exCached.token \in 0 .. exIssued
    /\ exLeader \in Actors \cup {NoActor}
    /\ \A c \in Actors : exCall[c].st \in Busy \cup Rests /\ exCall[c].token \in 0 .. exIssued

-----------------------------------------------------------------------------
(* Composition *)

GoodCredentials ==
    [concurrency |-> 1, client |-> TRUE, keyId |-> TRUE, assertionAudience |-> TRUE, key |-> TRUE,
     scopes |-> TRUE, audience |-> TRUE, capacity |-> 1, clean |-> TRUE, url |-> TRUE,
     https |-> TRUE, userinfo |-> FALSE, fragment |-> FALSE, signs |-> TRUE]

CredentialOptions ==
    {GoodCredentials, [GoodCredentials EXCEPT !.concurrency = 0],
     [GoodCredentials EXCEPT !.scopes = FALSE], [GoodCredentials EXCEPT !.capacity = 65537],
     [GoodCredentials EXCEPT !.https = FALSE], [GoodCredentials EXCEPT !.userinfo = TRUE],
     [GoodCredentials EXCEPT !.signs = FALSE]}

\* admit_options
AdmitOptions(o) ==
    First(<< <<o.concurrency = 0, "provider_concurrency">>,
             <<~o.client, "client_id">>,
             <<~o.keyId, "key_id">>,
             <<~o.assertionAudience, "assertion_audience">>,
             <<~o.key, "private_key">>,
             <<~o.scopes, "scopes">>,
             <<~o.audience, "audience">>,
             <<o.capacity \notin 1 .. 65536, "exchange_cache_capacity">>,
             <<~o.clean \/ ~o.url \/ ~o.https \/ o.userinfo \/ o.fragment, "token_url">> >>)

\* Signer::try_new proves the key by signing once.
SignerOf(o) == First(<< <<~o.signs, "private_key">> >>)

ExInit ==
    /\ exOwner = "new"
    /\ exIssued = 0
    /\ exCached = NoEntry
    /\ exLeader = NoActor
    /\ exCall = [c \in Actors |-> Resting("idle")]

OpenCredentials(o) ==
    /\ exOwner = "new"
    /\ exOwner' = IF Then(AdmitOptions(o), SignerOf(o)) = "ok" THEN "open" ELSE "refused"
    /\ UNCHANGED <<exIssued, exCached, exLeader, exCall>>

\* execute_with_context, and the gRPC binding: a caller's own Authorization and a missing
\* subject are refused before any I/O.
ComposeCall(authorization, subject) ==
    First(<< <<authorization, "conflict">>, <<~subject, "subject">> >>)

ExEnter(c, authorization, subject, budget) ==
    /\ exOwner = "open" /\ exCall[c].st \in Rests
    /\ LET verdict == ComposeCall(authorization, subject)
       IN exCall' = [exCall EXCEPT ![c] =
            IF verdict = "ok" THEN Entering(budget) ELSE Resting("failed")]
    /\ UNCHANGED <<exOwner, exIssued, exCached, exLeader>>

-----------------------------------------------------------------------------
(* exchanged_or_fetch *)

Holding(c, entry, fresh) ==
    [exCall[c] EXCEPT !.st = "got", !.token = entry.token, !.left = entry.left, !.age = entry.age,
                      !.once = entry.once, !.fresh = fresh, !.fetch = 0, !.in = 0]

\* The result of the exchange that c leads reaches everyone who waits for it.
Shared(c, update(_)) ==
    [x \in Actors |-> IF x = c \/ exCall[x].st = "wait" THEN update(x) ELSE exCall[x]]

\* or_try_insert_with, polled after the caller's own deadline: the entry of the subject,
\* the exchange in flight, or one's own.  admit_attempt answers Timeout when the caller
\* waited past its fetch_deadline, AtCapacity without a permit, and either is the result
\* that everyone who waits shares.
ExGet(c) ==
    /\ exCall[c].st = "enter" \/ (exCall[c].st = "wait" /\ exLeader = NoActor)
    /\ exCall[c].budget > 0
    /\ \/ /\ exCached.token # 0
          /\ exCall' = [exCall EXCEPT ![c] = Holding(c, exCached, FALSE)]
          /\ UNCHANGED exLeader
       \/ /\ exCached.token = 0 /\ exLeader # NoActor
          /\ exCall' = [exCall EXCEPT ![c].st = "wait"]
          /\ UNCHANGED exLeader
       \/ /\ exCached.token = 0 /\ exLeader = NoActor /\ exCall[c].fetch = 0
          /\ exCall' = Shared(c, LAMBDA x : Resting("timeout"))
          /\ UNCHANGED exLeader
       \/ /\ exCached.token = 0 /\ exLeader = NoActor /\ exCall[c].fetch > 0
          /\ exCall' = Shared(c, LAMBDA x : Resting("failed"))
          /\ UNCHANGED exLeader
       \/ /\ exCached.token = 0 /\ exLeader = NoActor /\ exCall[c].fetch > 0
          /\ exCall' = [exCall EXCEPT ![c].st = "wait"]
          /\ exLeader' = c
    /\ UNCHANGED <<exOwner, exIssued, exCached>>

\* fetch_exchange succeeds: the token is fresh for its leader only.
ExAnswer(life) ==
    /\ exLeader # NoActor /\ exIssued < MaxTokens
    /\ LET entry == [token |-> exIssued + 1, left |-> life, age |-> 0, once |-> life = 0]
       IN /\ exCached' = entry
          /\ exCall' = Shared(exLeader, LAMBDA x : Holding(x, entry, x = exLeader))
    /\ exIssued' = exIssued + 1
    /\ exLeader' = NoActor
    /\ UNCHANGED exOwner

\* The provider refuses or fails: post_form, into_token, Rejection.
ExProviderFails ==
    /\ exLeader # NoActor
    /\ exCall' = Shared(exLeader, LAMBDA x : Resting("failed"))
    /\ exLeader' = NoActor
    /\ UNCHANGED <<exOwner, exIssued, exCached>>

\* The exchange reaches its leader's fetch_deadline while the leader still has budget.
ExFetchTimesOut ==
    /\ exLeader # NoActor
    /\ exCall[exLeader].fetch = 0 /\ exCall[exLeader].budget > 0
    /\ exCall' = Shared(exLeader, LAMBDA x : Resting("timeout"))
    /\ exLeader' = NoActor
    /\ UNCHANGED <<exOwner, exIssued, exCached>>

\* Mutation: the leader's deadline is published as the result of the exchange.
StopForAll(c) ==
    /\ exCall[c].st \in Busy \ {"using"}
    /\ IF exLeader = c
       THEN exCall' = Shared(c, LAMBDA x : Resting("timeout")) /\ exLeader' = NoActor
       ELSE exCall' = [exCall EXCEPT ![c] = Resting("timeout")] /\ UNCHANGED exLeader
    /\ UNCHANGED <<exOwner, exIssued, exCached>>

\* The caller is out of budget (or dropped): its own exchange goes with it and nobody
\* else hears of it.
ExStop(c) ==
    /\ exCall[c].st \in Busy \ {"using"}
    /\ exCall' = [exCall EXCEPT ![c] = Resting(IF exCall[c].budget = 0 THEN "timeout" ELSE "idle")]
    /\ exLeader' = IF exLeader = c THEN NoActor ELSE exLeader
    /\ UNCHANGED <<exOwner, exIssued, exCached>>

-----------------------------------------------------------------------------
(* exchange, reject_exchanged *)

\* forget_exchanged: only while it is the entry the cache returns
Forget(token) == IF exCached.token = token THEN NoEntry ELSE exCached

\* Only the caller that got a request-only token first may use it; the others forget it
\* and start over.
ExUse(c) ==
    /\ exCall[c].st = "got"
    /\ IF exCall[c].fresh \/ exCall[c].left > 0
       THEN /\ exCall' = [exCall EXCEPT ![c] = [@ EXCEPT !.st = "using", !.left = 0, !.budget = 0]]
            /\ UNCHANGED exCached
       ELSE /\ exCall' = [exCall EXCEPT ![c] = Entering(exCall[c].budget)]
            /\ exCached' = Forget(exCall[c].token)
    /\ UNCHANGED <<exOwner, exIssued, exLeader>>

\* The resource answers; a 401 evicts a token that is old enough.
ExRespond(c, unauthorized) ==
    /\ exCall[c].st = "using"
    /\ exCall' = [exCall EXCEPT ![c] = Resting("idle")]
    /\ exCached' = IF unauthorized /\ exCall[c].age >= EvictAge THEN Forget(exCall[c].token)
                   ELSE exCached
    /\ UNCHANGED <<exOwner, exIssued, exLeader>>

\* ExchangedExpiry: reclaimed at any time once it is no longer reusable.
ExReclaim ==
    /\ exCached.token # 0 /\ exCached.left = 0
    /\ exCached' = NoEntry
    /\ UNCHANGED <<exOwner, exIssued, exLeader, exCall>>

Minus(n) == IF n > 0 THEN n - 1 ELSE 0
Older(n) == IF n < EvictAge THEN n + 1 ELSE n

ExTick ==
    /\ exOwner = "open"
    /\ exLeader # NoActor => exCall[exLeader].fetch > 0
    /\ \A c \in Actors : exCall[c].st \in Busy \ {"using"} => exCall[c].budget > 0
    /\ exCached' = IF exCached.token = 0 THEN NoEntry
                   ELSE [exCached EXCEPT !.left = Minus(@), !.age = Older(@)]
    /\ exCall' = [c \in Actors |->
         [exCall[c] EXCEPT !.left = Minus(@), !.budget = Minus(@), !.fetch = Minus(@),
                           !.in = IF exCall[c].st \in Acquiring /\ @ < FetchTicks THEN @ + 1 ELSE @,
                           !.age = IF exCall[c].token = 0 THEN 0 ELSE Older(@)]]
    /\ UNCHANGED <<exOwner, exIssued, exLeader>>

ExNext ==
    \/ \E o \in CredentialOptions : OpenCredentials(o)
    \/ \E c \in Actors :
         \/ \E a, s \in BOOLEAN, b \in ActorBudgets : ExEnter(c, a, s, b)
         \/ ExGet(c) \/ ExStop(c) \/ ExUse(c)
         \/ \E u \in BOOLEAN : ExRespond(c, u)
    \/ \E life \in ReuseLives : ExAnswer(life)
    \/ ExProviderFails \/ ExFetchTimesOut \/ ExReclaim \/ ExTick

-----------------------------------------------------------------------------
(* Properties *)

\* Sharing hurts nobody, whoever leads, stops and takes over: a caller times out only when
\* its own budget is spent, or together with the caller whose turn the exchange was and who
\* had been waiting for a token for all of FETCH_TIMEOUT (another caller's budget never
\* fails it); a token that cannot be reused is used by one caller only; an entry is removed
\* only once it is spent or by a caller that held that very token (exchange,
\* exchanged_or_fetch, forget_exchanged).
SharingHurtsNobody ==
    [][ExTypeOK /\ \A c \in Actors :
         /\ exCall[c].st \in Busy /\ exCall'[c].st = "timeout"
              => \/ exCall[c].budget = 0
                 \/ \E x \in Actors :
                      /\ exLeader \in {x, NoActor} /\ exCall'[x].st = "timeout"
                      /\ exCall[x].st \in Acquiring /\ exCall[x].in = FetchTicks
         /\ exCall[c].st = "got" /\ exCall'[c].st = "using" /\ exCall[c].once
              => \A x \in Actors \ {c} : ~(exCall[x].st = "using" /\ exCall[x].token = exCall[c].token)
         /\ exCached.token # 0 /\ exCached'.token = 0
              => exCached.left = 0 \/ \E x \in Actors : exCall[x].token = exCached.token]_exVars
=============================================================================
