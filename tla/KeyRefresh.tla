----------------------------- MODULE KeyRefresh -----------------------------
(***************************************************************************)
(* JWT verification against keys that rotate                               *)
(* (src/crates/infra-bearerauthn: jwt.rs, refresh.rs): requests verify     *)
(* against the installed key set; one that misses its key joins the fetch  *)
(* in flight, starts one outside the cooldown, or is answered from the     *)
(* last one; one worker performs every fetch.                              *)
(*                                                                         *)
(* A ticket is requested only when none is pending, so a waiter's ticket   *)
(* is the pending one: it is "joined" until that fetch is finished, and    *)
(* "served" from then on.  Time is in ticks.                               *)
(***************************************************************************)
EXTENDS BearerAuthn, Integers

CONSTANTS
    Kids,          \* keys of the issuer
    FirstKid,      \* the one published when the service starts
    NoKid,         \* a token without kid
    Forger,        \* a signer whose key is never published
    Verifications, \* concurrent requests
    Cooldown,      \* REFRESH_COOLDOWN
    ExchangeTicks, \* PROVIDER_TIMEOUT
    CallerTicks    \* the deadline a request brings

ASSUME KeyRefreshAssumption ==
    /\ {Cooldown, ExchangeTicks, CallerTicks} \subseteq Nat \ {0}
    /\ FirstKid \in Kids /\ NoKid \notin Kids /\ Forger \notin Kids

VARIABLES
    jwtPublished, \* ticks since each key was published, and one; 0: not yet; -1: withdrawn
    jwtStore,     \* State: keys, pending, last_started, last_succeeded, stopped
    jwtWorker,    \* run_refresh_worker: what it fetches and its `wake` permit
    jwtCall       \* each request

jwtVars == <<jwtPublished, jwtStore, jwtWorker, jwtCall>>

\* A key published for longer than this is known to every verdict: a document may be an
\* exchange old when it is installed, and then answers for a cooldown (the first one is
\* counted from the end of the startup fetch) or for as long as a request waits.
KnownAfter == ExchangeTicks + (IF Cooldown > CallerTicks THEN Cooldown ELSE CallerTicks)

Ages == -1 .. KnownAfter + 2
Waiting == {"checked", "joined", "served"}
Verdicts == {"accepted", "refused", "unknown", "unavailable"}

JwtTypeOK ==
    /\ jwtPublished \in [Kids -> Ages]
    /\ jwtStore \in [keys: SUBSET Kids, pending: BOOLEAN, cool: 0 .. Cooldown, ok: BOOLEAN,
                     stopped: BOOLEAN]
    /\ jwtWorker \in [st: {"new", "startup", "refused", "idle", "fetch", "gone"}, left: 0 .. ExchangeTicks,
                      permit: BOOLEAN, got: SUBSET Kids]
    /\ jwtCall \in [Verifications ->
                    [st: Waiting \cup Verdicts, kid: Kids \cup {NoKid}, signer: Kids \cup {Forger},
                     current: BOOLEAN, left: 0 .. CallerTicks]]

Published == {k \in Kids : jwtPublished[k] > 0}

\* The document at the JWKS endpoint
Document == {GoodJwk(k) : k \in Published} \cup UNION {Strangers(k) : k \in Kids}

\* A request that was answered
Over(verdict) == [st |-> verdict, kid |-> NoKid, signer |-> Forger, current |-> FALSE, left |-> 0]

JwtInit ==
    /\ jwtPublished = [k \in Kids |-> IF k = FirstKid THEN KnownAfter + 2 ELSE 0]
    /\ jwtStore = [keys |-> {}, pending |-> FALSE, cool |-> 0, ok |-> FALSE, stopped |-> TRUE]
    /\ jwtWorker = [st |-> "new", left |-> 0, permit |-> FALSE, got |-> {}]
    /\ jwtCall = [c \in Verifications |-> Over("unavailable")]

\* What one exchange may bring: fetch_key_set
FetchedSets ==
    LET keys == ParseKeySet(Document)
    IN {IF Receive(a, FALSE) = "ok" THEN keys ELSE {} : a \in ProviderAnswers}

\* prepare_with_provider: options and discovery, then the first fetch begins, of the
\* document of now.  A refusal fails the start of the service.
Prepare(o, first, second) ==
    /\ jwtWorker.st = "new"
    /\ IF PrepareJwt(o, first, second) = "ok"
       THEN \E got \in FetchedSets :
              jwtWorker' = [jwtWorker EXCEPT !.st = "startup", !.left = ExchangeTicks, !.got = got]
       ELSE jwtWorker' = [jwtWorker EXCEPT !.st = "refused"]
    /\ UNCHANGED <<jwtPublished, jwtStore, jwtCall>>

\* The fetch has ended: KeyStore::new takes what it brought and only now starts the first
\* cooldown, however long the exchange took.  No usable key refuses the start.
InstallStartup ==
    /\ jwtWorker.st = "startup"
    /\ IF jwtWorker.got # {}
       THEN /\ jwtStore' = [keys |-> jwtWorker.got, pending |-> FALSE, cool |-> Cooldown, ok |-> TRUE,
                            stopped |-> FALSE]
            /\ jwtWorker' = [jwtWorker EXCEPT !.st = "idle", !.left = 0, !.got = {}]
       ELSE /\ jwtWorker' = [jwtWorker EXCEPT !.st = "refused", !.left = 0]
            /\ UNCHANGED jwtStore
    /\ UNCHANGED <<jwtPublished, jwtCall>>

-----------------------------------------------------------------------------
(* Requests *)

\* What validate_jwt_claims may say of the payload
JwtClaimVerdicts == {JwtClaims(x) : x \in ClaimSets}

\* What a caller is told
Verdict(result) ==
    CASE result = "ok" -> "accepted"
      [] result = "NoCandidate" -> "unknown"
      [] OTHER -> "refused"

Answer(c, verdict) == jwtCall' = [jwtCall EXCEPT ![c] = Over(verdict)]

\* authenticate_with_context: what the headers decide before any key is looked at
EarlyVerdicts == {Then(ParseBearer(h), HeaderVerdict(j)) : h \in Authorizations, j \in JwsHeaders}

\* The process runs; the verifier is in use.
Started == jwtWorker.st \notin {"new", "refused"}
Prepared == Started /\ jwtWorker.st # "startup"

RefuseEarly(c) ==
    /\ Prepared /\ jwtCall[c].st \in Verdicts
    /\ EarlyVerdicts # {"ok"}
    /\ Answer(c, "refused")
    /\ UNCHANGED <<jwtPublished, jwtStore, jwtWorker>>

\* JwtVerifier::verify: checked against the installed set; the claims only after the
\* signature.
Verify(c, kid, signer) ==
    LET result == VerifySignature(jwtStore.keys, kid, NoKid, signer)
    IN /\ "ok" \in EarlyVerdicts
       /\ Prepared /\ jwtCall[c].st \in Verdicts
       /\ IF MayNeedNewKeys(result, kid, NoKid)
          THEN jwtCall' = [jwtCall EXCEPT ![c] =
                 [st |-> "checked", kid |-> kid, signer |-> signer, current |-> TRUE,
                  left |-> CallerTicks]]
          ELSE \E v \in {Verdict(Then(result, claims)) : claims \in JwtClaimVerdicts} : Answer(c, v)
       /\ UNCHANGED <<jwtPublished, jwtStore, jwtWorker>>

\* Retried against a set newer than the one it was checked against.
Retried(c) ==
    {Verdict(Then(VerifySignature(jwtStore.keys, jwtCall[c].kid, NoKid, jwtCall[c].signer), claims)) :
        claims \in JwtClaimVerdicts}

\* StillUnknown gives back the miss of the check.
Missed(c) == Verdict(VerifySignature(jwtStore.keys, jwtCall[c].kid, NoKid, jwtCall[c].signer))

\* Mutation: any fetch within the cooldown answers, also one that failed.
AskEvenAfterFailure(c) ==
    /\ jwtCall[c].st = "checked"
    /\ \/ /\ jwtStore.stopped
          /\ Answer(c, "unavailable") /\ UNCHANGED <<jwtStore, jwtWorker>>
       \/ /\ ~jwtStore.stopped /\ jwtStore.pending
          /\ jwtCall' = [jwtCall EXCEPT ![c].st = "joined"] /\ UNCHANGED <<jwtStore, jwtWorker>>
       \/ /\ ~jwtStore.stopped /\ ~jwtStore.pending /\ jwtStore.cool > 0
          /\ \E v \in IF jwtCall[c].current THEN {Missed(c)} ELSE Retried(c) : Answer(c, v)
          /\ UNCHANGED <<jwtStore, jwtWorker>>
       \/ /\ ~jwtStore.stopped /\ ~jwtStore.pending /\ jwtStore.cool = 0
          /\ jwtStore' = [jwtStore EXCEPT !.pending = TRUE, !.cool = Cooldown]
          /\ jwtWorker' = [jwtWorker EXCEPT !.permit = TRUE]
          /\ jwtCall' = [jwtCall EXCEPT ![c].st = "joined"]
    /\ UNCHANGED jwtPublished

\* Mutation: the ticket is taken and the worker not notified.
AskQuietly(c) ==
    /\ jwtCall[c].st = "checked"
    /\ \/ /\ jwtStore.stopped
          /\ Answer(c, "unavailable") /\ UNCHANGED jwtStore
       \/ /\ ~jwtStore.stopped /\ jwtStore.pending
          /\ jwtCall' = [jwtCall EXCEPT ![c].st = "joined"] /\ UNCHANGED jwtStore
       \/ /\ ~jwtStore.stopped /\ ~jwtStore.pending
          /\ jwtStore' = [jwtStore EXCEPT !.pending = TRUE, !.cool = Cooldown]
          /\ jwtCall' = [jwtCall EXCEPT ![c].st = "joined"]
    /\ UNCHANGED <<jwtPublished, jwtWorker>>

\* refresh_for_unknown_key, under the watch lock
Ask(c) ==
    /\ jwtCall[c].st = "checked"
    /\ \/ /\ jwtStore.stopped
          /\ Answer(c, "unavailable") /\ UNCHANGED <<jwtStore, jwtWorker>>
       \/ /\ ~jwtStore.stopped /\ jwtStore.pending
          /\ jwtCall' = [jwtCall EXCEPT ![c].st = "joined"] /\ UNCHANGED <<jwtStore, jwtWorker>>
       \/ /\ ~jwtStore.stopped /\ ~jwtStore.pending /\ jwtStore.cool > 0
          /\ \E v \in IF ~jwtStore.ok THEN {"unavailable"}
                     ELSE IF jwtCall[c].current THEN {Missed(c)} ELSE Retried(c) : Answer(c, v)
          /\ UNCHANGED <<jwtStore, jwtWorker>>
       \/ /\ ~jwtStore.stopped /\ ~jwtStore.pending /\ jwtStore.cool = 0
          /\ jwtStore' = [jwtStore EXCEPT !.pending = TRUE, !.cool = Cooldown]
          /\ jwtWorker' = [jwtWorker EXCEPT !.permit = TRUE]
          /\ jwtCall' = [jwtCall EXCEPT ![c].st = "joined"]
    /\ UNCHANGED jwtPublished

\* wait_for is satisfied: the state of now answers, whichever fetch it is of.
Resume(c) ==
    /\ jwtCall[c].st = "served" \/ (jwtCall[c].st = "joined" /\ jwtStore.stopped)
    /\ \E v \in IF jwtStore.stopped \/ ~jwtStore.ok THEN {"unavailable"} ELSE Retried(c) :
          Answer(c, v)
    /\ UNCHANGED <<jwtPublished, jwtStore, jwtWorker>>

\* The request's context stops, or its future is dropped; the worker is not touched.
Expire(c) ==
    /\ jwtCall[c].st \in Waiting
    /\ Answer(c, "unavailable")
    /\ UNCHANGED <<jwtPublished, jwtStore, jwtWorker>>

-----------------------------------------------------------------------------
(* The worker *)

\* The pending ticket is fetched; the periodic refresh takes a ticket of its own first,
\* whatever the cooldown.
Fetch(periodic) ==
    /\ jwtWorker.st = "idle"
    /\ periodic \/ jwtWorker.permit
    /\ IF periodic \/ jwtStore.pending
       THEN /\ \E got \in FetchedSets :
                 jwtWorker' = [st |-> "fetch", left |-> ExchangeTicks, got |-> got,
                               permit |-> periodic /\ jwtWorker.permit]
            /\ jwtStore' = IF jwtStore.pending THEN jwtStore
                           ELSE [jwtStore EXCEPT !.pending = TRUE, !.cool = Cooldown]
       ELSE /\ jwtWorker' = [jwtWorker EXCEPT !.permit = FALSE]
            /\ UNCHANGED jwtStore
    /\ UNCHANGED <<jwtPublished, jwtCall>>

\* KeyStore::finish: a failed fetch leaves the keys.
Finish ==
    /\ jwtWorker.st = "fetch"
    /\ LET ok == jwtWorker.got # {}
       IN /\ jwtStore' = [jwtStore EXCEPT !.keys = IF ok THEN jwtWorker.got ELSE @,
                                          !.pending = FALSE, !.ok = ok]
          /\ jwtCall' = [c \in Verifications |->
               [jwtCall[c] EXCEPT !.st = IF @ = "joined" THEN "served" ELSE @,
                                  !.current = @ /\ ~ok]]
    /\ jwtWorker' = [jwtWorker EXCEPT !.st = "idle", !.left = 0, !.got = {}]
    /\ UNCHANGED jwtPublished

\* Cancelled, also in the middle of a fetch: KeyStore::stop.
Leave ==
    /\ jwtWorker.st \in {"idle", "fetch"}
    /\ jwtWorker' = [jwtWorker EXCEPT !.st = "gone", !.left = 0, !.got = {}]
    /\ jwtStore' = [jwtStore EXCEPT !.stopped = TRUE]
    /\ UNCHANGED <<jwtPublished, jwtCall>>

\* The issuer publishes a key, or withdraws one that is not its last.
RotateKeys(k) ==
    /\ Started
    /\ \/ jwtPublished[k] = 0 /\ jwtPublished' = [jwtPublished EXCEPT ![k] = 1]
       \/ k \in Published /\ Published # {k} /\ jwtPublished' = [jwtPublished EXCEPT ![k] = -1]
    /\ UNCHANGED <<jwtStore, jwtWorker, jwtCall>>

\* Time: an exchange and a request end within their budgets.
JwtTick ==
    /\ Started
    /\ jwtWorker.st \in {"startup", "fetch"} => jwtWorker.left > 0
    /\ \A c \in Verifications : jwtCall[c].st \in Waiting => jwtCall[c].left > 0
    /\ jwtPublished' = [k \in Kids |-> IF jwtPublished[k] \in 1 .. KnownAfter + 1 THEN jwtPublished[k] + 1
                                       ELSE jwtPublished[k]]
    /\ jwtStore' = [jwtStore EXCEPT !.cool = IF @ > 0 THEN @ - 1 ELSE 0]
    /\ jwtWorker' = [jwtWorker EXCEPT !.left = IF @ > 0 THEN @ - 1 ELSE 0]
    /\ jwtCall' = [c \in Verifications |->
                     [jwtCall[c] EXCEPT !.left = IF @ > 0 THEN @ - 1 ELSE 0]]

\* Tokens as <<kid, signer>>: one whose kid is not its signer's is as good as forged.
Presented == {<<k, k>> : k \in Kids} \cup {<<NoKid, k>> : k \in Kids} \cup {<<NoKid, Forger>>}

JwtNext ==
    \/ \E o \in JwtOptions, first, second \in ProviderAnswers : Prepare(o, first, second)
    \/ InstallStartup
    \/ \E c \in Verifications :
         \/ RefuseEarly(c)
         \/ \E t \in Presented : Verify(c, t[1], t[2])
         \/ Ask(c) \/ Resume(c) \/ Expire(c)
    \/ \E p \in BOOLEAN : Fetch(p)
    \/ Finish \/ Leave \/ JwtTick
    \/ \E k \in Kids : RotateKeys(k)

-----------------------------------------------------------------------------
(* Properties *)

\* What the keys say reaches the callers in time, whatever joins, cooldowns, periodic
\* fetches, failures and rotations interleave: a token signed with a key that has been
\* published for longer than KnownAfter is never called unknown, and one signed with a
\* key nobody published is never accepted.
VerdictsJustified ==
    [][/\ JwtTypeOK
       /\ \A c \in Verifications :
            LET signer == jwtCall[c].signer
            IN jwtCall[c].st \in Waiting =>
               /\ jwtCall'[c].st = "unknown" /\ signer \in Published
                    => jwtPublished[signer] <= KnownAfter + 1
               /\ jwtCall'[c].st = "accepted" => signer \in jwtStore.keys]_jwtVars

\* A request that joined a fetch is answered, by that fetch or by the worker's end,
\* without any help from its own deadline (refresh_for_unknown_key, stop).
JoinersAnswered ==
    \A c \in Verifications : jwtCall[c].st = "joined" ~> jwtCall[c].st # "joined"
=============================================================================
