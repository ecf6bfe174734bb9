----------------------------- MODULE ServiceAuth ----------------------------
(***************************************************************************)
(* Caller-signed service tokens (src/crates/infra-serviceauth) on gRPC     *)
(* (src/crates/infra-grpc/src/service_auth.rs): a caller signs a token for *)
(* one receiver and reuses it for half its life; the receiver verifies it  *)
(* by its own clock, remembers what it verified, and admits the caller to  *)
(* the methods whose rule lists it.  The two clocks differ and are stepped *)
(* within the leeway.  The caller's clock counts ticks; a token is known   *)
(* by the tick it was issued at.                                           *)
(***************************************************************************)
EXTENDS Refusals, Integers, FiniteSets

CONSTANTS
    TokenLife,   \* MAX_TOKEN_LIFETIME_SECONDS
    ReuseTicks,  \* REUSE_SECONDS
    ClockLeeway, \* LEEWAY_SECONDS
    SeenTokens,  \* SEEN_TOKENS
    TransitTicks,\* how long a call may take to reach the receiver
    ClockEnd     \* bound of the caller's clock

ASSUME ServiceAuthAssumption ==
    /\ {TokenLife, ReuseTicks, ClockLeeway, SeenTokens, ClockEnd} \subseteq Nat \ {0}
    /\ TransitTicks \in Nat
    /\ ReuseTicks + TransitTicks <= TokenLife

VARIABLES
    saMode,   \* what prepare made of the section: "new", "refused", "off", "nokey", "on"
    saClock,  \* now: the caller's clock; skew: how far it is ahead of the receiver's
    saCached, \* issued_at of the cached token, -1 without one
    saSeen,   \* tokens the receiver remembers
    saCall    \* the call under way (own: the source handed its token out for it), or what
              \* came of the last one

saVars == <<saMode, saClock, saCached, saSeen, saCall>>

Modes == {"new", "refused", "off", "nokey", "on"}
Replies == {"none", "served", "unauthenticated", "denied", "unavailable"}
NoTransit == [st |-> "none", iat |-> -1, bad |-> "none", own |-> FALSE, left |-> 0]

SaTypeOK ==
    /\ saMode \in Modes
    /\ saClock \in [now: 0 .. ClockEnd, skew: -ClockLeeway .. ClockLeeway]
    /\ saCached \in -1 .. ClockEnd
    /\ saSeen \subseteq 0 .. ClockEnd
    /\ saCall.st \in Replies \cup {"sent"}

-----------------------------------------------------------------------------
(* Bootstrap: the inputs of the section *)

\* Features of one registry entry: TrustRegistry::parse and admit
GoodTrust == [object |-> TRUE, repeated |-> FALSE, callers |-> 1, name |-> TRUE, set |-> TRUE,
              keys |-> 1, private |-> FALSE, jwk |-> TRUE, p256 |-> TRUE, alg |-> TRUE,
              use |-> TRUE, ops |-> TRUE, kid |-> TRUE, point |-> TRUE, repeats |-> FALSE]

AdmitTrustedKey(k) ==
    First(<< <<k.private, "contains private key material">>,
             <<~k.jwk, "is not a valid JWK">>,
             <<~k.p256, "is not an EC P-256 key">>,
             <<~k.alg, "names an algorithm other than ES256">>,
             <<~k.use, "is not a signature key">>,
             <<~k.ops, "allows operations other than verify">>,
             <<~k.kid, "has no kid">>,
             <<~k.point, "is not a point on P-256">> >>)

TrustRegistry(t) ==
    Then(First(<< <<~t.object, "is not one JSON object">>,
                  <<t.repeated, "repeats a caller">>,
                  <<t.callers = 0, "names no caller">>,
                  <<~t.name, "caller name">>,
                  <<~t.set, "is not a JWK Set">>,
                  <<t.keys = 0, "has no key">> >>),
    Then(AdmitTrustedKey(t), First(<< <<t.repeats, "repeats a kid">> >>)))

GoodSection == [jwt |-> TRUE, name |-> TRUE, type |-> TRUE, trust |-> GoodTrust, signs |-> TRUE,
                keyId |-> TRUE, key |-> TRUE]

\* CallerName::parse, JwtType::parse, TrustRegistry::parse, TokenSource::try_new: each
\* refusal names its key.
PrepareServiceAuth(o) ==
    First(<< <<~o.jwt, "off">>,
             <<~o.name, "refused">>,
             <<~o.type, "refused">>,
             <<TrustRegistry(o.trust) # "ok", "refused">>,
             <<~o.signs, "nokey">>,
             <<~o.keyId \/ ~o.key, "refused">>,
             <<TRUE, "on">> >>)

Sections ==
    {GoodSection, [GoodSection EXCEPT !.jwt = FALSE], [GoodSection EXCEPT !.signs = FALSE],
     [GoodSection EXCEPT !.name = FALSE], [GoodSection EXCEPT !.keyId = FALSE],
     [GoodSection EXCEPT !.trust.repeated = TRUE], [GoodSection EXCEPT !.trust.private = TRUE],
     [GoodSection EXCEPT !.trust.p256 = FALSE]}

SaInit ==
    /\ saMode = "new"
    /\ saClock = [now |-> 0, skew |-> 0]
    /\ saCached = -1
    /\ saSeen = {}
    /\ saCall = NoTransit

SaPrepare(o) ==
    /\ saMode = "new"
    /\ saMode' = PrepareServiceAuth(o)
    /\ UNCHANGED <<saClock, saCached, saSeen, saCall>>

-----------------------------------------------------------------------------
(* The caller *)

\* Mutation: a token is reused for as long as it lives.
ReusableForLife(iat, now) == iat >= 0 /\ now \in iat .. iat + TokenLife + ClockLeeway

\* authorization_at: the cached token's first half, and never one issued in the future
ReusableToken(iat, now) == iat >= 0 /\ now \in iat .. iat + ReuseTicks - 1

\* ReceiverTokens::authorization: issued_at of the token for the next call
HandOut == IF ReusableToken(saCached, saClock.now) THEN saCached ELSE saClock.now

\* ServiceTokenClient::call: no token while the mode is off,
\* no call without a key to sign with.
SendCall ==
    /\ saMode \in {"off", "nokey", "on"} /\ saCall.st # "sent"
    /\ CASE saMode = "nokey" ->
              saCall' = [NoTransit EXCEPT !.st = "unavailable"] /\ UNCHANGED saCached
         [] saMode = "off" ->
              saCall' = [NoTransit EXCEPT !.st = "sent", !.left = TransitTicks] /\ UNCHANGED saCached
         [] OTHER ->
              /\ saCached' = HandOut
              /\ saCall' = [st |-> "sent", iat |-> HandOut, bad |-> "none", own |-> TRUE,
                            left |-> TransitTicks]
    /\ UNCHANGED <<saMode, saClock, saSeen>>

\* A token no source of ours would produce
ForgedTokens ==
    {"missing", "malformed", "header", "algorithm", "type", "key_id", "claims", "issuer",
     "unknown_key", "signature", "subject", "audience", "lifetime"}

SendForged(b) ==
    /\ saMode \in {"nokey", "on"} /\ saCall.st # "sent"
    /\ saCall' = [st |-> "sent", iat |-> saClock.now, bad |-> b, own |-> FALSE,
                  left |-> TransitTicks]
    /\ UNCHANGED <<saMode, saClock, saCached, saSeen>>

-----------------------------------------------------------------------------
(* The receiver *)

ReceiverNow == saClock.now - saClock.skew

NotExpired(iat) == ReceiverNow <= iat + TokenLife + ClockLeeway

\* Verifier::checked: the form, the caller's key, the claims, then the times
Checked(call) ==
    First(<< <<call.bad # "none", call.bad>>,
             <<~NotExpired(call.iat), "expired">>,
             <<call.iat > ReceiverNow + ClockLeeway, "not_yet_valid">> >>)

\* Verifier::remembered: known bytes pass until they expire.
Remembered(call) ==
    IF call.bad = "none" /\ call.iat \in saSeen /\ NotExpired(call.iat) THEN "ok" ELSE Checked(call)

\* What is remembered after a token passed: at the limit the expired are dropped, and all
\* if that makes no room.
SeenAfter(call) ==
    LET live == {i \in saSeen : NotExpired(i)}
        kept == IF call.iat \in saSeen /\ NotExpired(call.iat) THEN saSeen
                ELSE IF Cardinality(saSeen \ {call.iat}) < SeenTokens THEN saSeen
                ELSE IF Cardinality(live) < SeenTokens THEN live ELSE {}
    IN kept \cup {call.iat}

\* admit: the caller must be in the method's rule; without a verifier the call passes.
Admit(listed) ==
    /\ saCall.st = "sent"
    /\ IF saMode = "off"
       THEN saCall' = [NoTransit EXCEPT !.st = "served"] /\ UNCHANGED saSeen
       ELSE LET verdict == Remembered(saCall)
            IN /\ saCall' = [NoTransit EXCEPT
                   !.iat = saCall.iat,
                   !.st = IF verdict # "ok" THEN "unauthenticated"
                          ELSE IF listed THEN "served" ELSE "denied"]
               /\ saSeen' = IF verdict = "ok" THEN SeenAfter(saCall)
                            ELSE saSeen \ {i \in {saCall.iat} : ~NotExpired(i)}
    /\ UNCHANGED <<saMode, saClock, saCached>>

\* A captured token may be presented again at any time.
Replay(iat) ==
    /\ saMode = "on" /\ saCall.st # "sent" /\ iat \in saSeen
    /\ saCall' = [st |-> "sent", iat |-> iat, bad |-> "none", own |-> FALSE, left |-> 0]
    /\ UNCHANGED <<saMode, saClock, saCached, saSeen>>

-----------------------------------------------------------------------------
SaTick ==
    /\ saMode \in {"nokey", "on"} /\ saClock.now < ClockEnd
    /\ saCall.st = "sent" => saCall.left > 0
    /\ saClock' = [saClock EXCEPT !.now = @ + 1]
    /\ saCall' = [saCall EXCEPT !.left = IF @ > 0 THEN @ - 1 ELSE 0]
    /\ UNCHANGED <<saMode, saCached, saSeen>>

\* Either clock is stepped; they stay within the leeway.
StepClock(d) ==
    /\ saMode \in {"nokey", "on"} /\ saClock.skew + d \in -ClockLeeway .. ClockLeeway
    /\ saClock' = [saClock EXCEPT !.skew = @ + d]
    /\ UNCHANGED <<saMode, saCached, saSeen, saCall>>

SaNext ==
    \/ \E o \in Sections : SaPrepare(o)
    \/ SendCall \/ \E b \in ForgedTokens : SendForged(b)
    \/ \E listed \in BOOLEAN : Admit(listed)
    \/ \E i \in saSeen : Replay(i)
    \/ SaTick \/ StepClock(1) \/ StepClock(-1)

-----------------------------------------------------------------------------
(* Properties *)

\* Reuse, the receiver's memory, clock differences and transit together: a token that a
\* source hands out is never refused by a receiver whose clock is within the leeway, and
\* nothing forged, or past its lifetime by both clocks' reckoning, is served, however
\* often it was served before (authorization_at, remembered).
ServiceTokensHold ==
    [][/\ SaTypeOK
       /\ saCall.st = "sent" /\ saCall'.st = "unauthenticated"
            => ~saCall.own
       /\ saCall.st = "sent" /\ saCall'.st = "served" /\ saMode # "off"
            => saCall.bad = "none" /\ saClock.now <= saCall.iat + TokenLife + 2 * ClockLeeway]_saVars
=============================================================================
