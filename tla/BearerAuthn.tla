---------------------------- MODULE BearerAuthn -----------------------------
(***************************************************************************)
(* What the bearer authentication of src/crates/infra-bearerauthn decides  *)
(* about one request: the Authorization header, a JWT's header and claims, *)
(* an introspection answer, a key of a JWKS document, a provider exchange. *)
(* Bytes are reduced to the features the code tells apart; the order of    *)
(* the checks is the code's.                                               *)
(***************************************************************************)
EXTENDS Refusals

CONSTANTS
    Algorithms,    \* configured JwtAlgorithms
    TokenProfile   \* "ResourceServer" or "Rfc9068"

-----------------------------------------------------------------------------
(* Transport boundary *)

\* Authorization header values: how many, the scheme of the first, its credentials
GoodHeader == [count |-> 1, scheme |-> "bearer", token |-> TRUE]
Authorizations ==
    {GoodHeader, [GoodHeader EXCEPT !.count = 0], [GoodHeader EXCEPT !.count = 2],
     [GoodHeader EXCEPT !.scheme = "unreadable"], [GoodHeader EXCEPT !.scheme = "basic"],
     [GoodHeader EXCEPT !.token = FALSE]}

\* parse_bearer
ParseBearer(h) ==
    First(<< <<h.count = 0, "Missing">>,
             <<h.count > 1, "Malformed">>,
             <<h.scheme = "unreadable", "Malformed">>,
             <<h.scheme # "bearer", "Missing">>,
             <<~h.token, "Malformed">> >>)

-----------------------------------------------------------------------------
(* JWS header *)

GoodJws == [parts |-> TRUE, crit |-> FALSE, alg |-> "Rs256", typ |-> "at", sig |-> TRUE]
JwsHeaders ==
    {GoodJws, [GoodJws EXCEPT !.parts = FALSE], [GoodJws EXCEPT !.crit = TRUE],
     [GoodJws EXCEPT !.alg = "Hs256"], [GoodJws EXCEPT !.sig = FALSE]}
        \cup {[GoodJws EXCEPT !.typ = y] : y \in {"none", "jwt", "other"}}

\* The types a profile admits: is_access_token_type, is_generic_jwt_type
AdmittedTypes == IF TokenProfile = "Rfc9068" THEN {"at"} ELSE {"none", "jwt", "at"}

\* verify_with_now up to the signature; "ok" means a signature check is due.
HeaderVerdict(j) ==
    First(<< <<~j.parts \/ j.crit, "Header">>,
             <<j.alg \notin Algorithms, "Algorithm">>,
             <<j.typ \notin AdmittedTypes, "Profile">>,
             <<~j.sig, "Signature">> >>)

-----------------------------------------------------------------------------
(* Keys *)

\* KeySet::verify: a kid names its key, a token without one tries them all.
Candidates(keys, kid, noKid) == IF kid = noKid THEN keys ELSE keys \cap {kid}

VerifySignature(keys, kid, noKid, signer) ==
    LET tried == Candidates(keys, kid, noKid)
    IN First(<< <<tried = {}, "NoCandidate">>, <<signer \notin tried, "BadSignature">> >>)

\* may_need_new_keys: only an unknown kid, or no kid at all, can be helped by a fetch.
MayNeedNewKeys(miss, kid, noKid) ==
    miss = "NoCandidate" \/ (miss = "BadSignature" /\ kid = noKid)

\* One JWKS entry: use is sig, none, enc; ops none, verify, other; alg none or named
Family(alg) == CASE alg \in {"Rs256", "Ps256"} -> "rsa" [] alg = "Es256" -> "p256"
                 [] alg = "EdDsa" -> "ed25519" [] OTHER -> "none"

GoodJwk(kid) == [kid |-> kid, parses |-> TRUE, use |-> "sig", ops |-> "none", family |-> "rsa",
                 alg |-> "Rs256", material |-> TRUE]

\* signature_usage
SignatureUsage(k) == k.use \in {"none", "sig"} /\ k.ops \in {"none", "verify"}

\* The algorithms an admitted key serves
Served(k) == {a \in Algorithms : Family(a) = k.family /\ k.alg \in {"none", a}}

\* admit_key
AdmitKey(k) ==
    First(<< <<~k.parses, "MalformedEntry">>,
             <<~SignatureUsage(k), "IncompatibleUsage">>,
             <<k.family \notin {"rsa", "p256", "ed25519"}, "UnsupportedFamily">>,
             <<Served(k) = {}, "AlgorithmBinding">>,
             <<~k.material, "InvalidMaterial">> >>)

\* Entries a real document also holds, none of them usable
Strangers(kid) ==
    LET g == GoodJwk(kid)
    IN {[g EXCEPT !.parses = FALSE], [g EXCEPT !.use = "enc"], [g EXCEPT !.ops = "other"],
        [g EXCEPT !.family = "p521", !.alg = "none"], [g EXCEPT !.family = "ed25519"],
        [g EXCEPT !.alg = "Es256"], [g EXCEPT !.material = FALSE]}

\* parse_key_set: unusable entries are skipped; {} stands for NoUsableKeys.
ParseKeySet(entries) == {k.kid : k \in {e \in entries : AdmitKey(e) = "ok"}}

-----------------------------------------------------------------------------
(* Claims.  Times are relative to now: "late" is past the leeway. *)

GoodClaims == [reads |-> TRUE, active |-> TRUE, iss |-> "ours", aud |-> "ours", exp |-> "live",
               nbf |-> "none", sub |-> TRUE, client |-> TRUE, alias |-> FALSE, jti |-> TRUE,
               iat |-> "past", scope |-> TRUE, act |-> "none"]

ClaimSets ==
    {GoodClaims, [GoodClaims EXCEPT !.reads = FALSE], [GoodClaims EXCEPT !.active = FALSE],
     [GoodClaims EXCEPT !.iss = "none"], [GoodClaims EXCEPT !.iss = "other"],
     [GoodClaims EXCEPT !.aud = "other"], [GoodClaims EXCEPT !.exp = "none"],
     [GoodClaims EXCEPT !.exp = "late"], [GoodClaims EXCEPT !.nbf = "early"],
     [GoodClaims EXCEPT !.sub = FALSE, !.client = FALSE],
     [GoodClaims EXCEPT !.client = FALSE, !.alias = TRUE], [GoodClaims EXCEPT !.jti = FALSE],
     [GoodClaims EXCEPT !.iat = "future"], [GoodClaims EXCEPT !.scope = FALSE],
     [GoodClaims EXCEPT !.act = "bad"], [GoodClaims EXCEPT !.act = "ok"]}

\* check_lifetime, with the leeway
CheckLifetime(c) ==
    First(<< <<c.exp = "late", "Expired">>, <<c.nbf = "early", "NotYetValid">> >>)

\* validate_jwt_claims and check_registered_claims
JwtClaims(c) ==
    Then(First(<< <<~c.reads, "MalformedClaims">>,
                  <<"none" \in {c.iss, c.aud, c.exp}, "MissingClaim">> >>),
    Then(CheckLifetime(c),
    First(<< <<c.iss # "ours", "Issuer">>,
             <<c.aud # "ours", "Audience">>,
             <<~(c.sub \/ c.client \/ c.alias), "MissingClaim">>,
             <<TokenProfile = "Rfc9068" /\ ~(c.iat # "none" /\ c.sub /\ c.client /\ c.jti),
               "MissingClaim">>,
             <<TokenProfile = "Rfc9068" /\ c.iat = "future", "Profile">>,
             <<~c.scope, "Scope">>,
             <<c.act = "bad", "MalformedClaims">> >>)))

\* validate_introspection_claims: what cannot be read is no evidence about the token.
IntrospectionClaims(c) ==
    Then(First(<< <<~c.reads, "Unavailable">>,
                  <<~c.active, "Inactive">>,
                  <<"none" \in {c.iss, c.aud, c.exp}, "MissingClaim">>,
                  <<c.iss # "ours", "Issuer">>,
                  <<c.aud # "ours", "Audience">> >>),
    Then(CheckLifetime(c),
    First(<< <<~(c.sub \/ c.client), "MissingClaim">>,
             <<~c.scope \/ c.act = "bad", "Unavailable">> >>)))

-----------------------------------------------------------------------------
(* The provider exchange *)

\* What a provider may answer: transport, status, media type, length
ProviderAnswers ==
    {"ok", "timeout", "connect", "transfer", "status", "media", "length", "chunk"}

\* Exchange::run and receive
Receive(a, requireJson) ==
    First(<< <<a \in {"timeout", "connect", "transfer"}, a>>,
             <<a = "status", "status">>,
             <<a = "media" /\ requireJson, "media_type">>,
             <<a \in {"length", "chunk"}, "too_large">> >>)

\* A provider URL: admit
GoodUrl == [clean |-> TRUE, parses |-> TRUE, scheme |-> "https", host |-> TRUE,
            userinfo |-> FALSE, fragment |-> FALSE, query |-> FALSE]

AdmitUrl(u, allowQuery) ==
    u.clean /\ u.parses /\ u.scheme = "https" /\ u.host /\ ~u.userinfo /\ ~u.fragment
        /\ (allowQuery \/ ~u.query)

\* fetch_discovery asks the RFC 8414 location when the first answered with a status;
\* discover_jwks_uri then compares the issuer and admits the location of the keys.
Discovery(first, second, d) ==
    LET used == IF Receive(first, FALSE) = "status" THEN second ELSE first
    IN First(<< <<Receive(used, FALSE) # "ok", "Fetch">>,
                <<d.issuer = "unreadable", "Parse">>,
                <<d.issuer # "ours", "IssuerMismatch">>,
                <<~AdmitUrl(d.jwks, TRUE), "InvalidUrl">> >>)

\* What bootstrap prepares the JWT verifier from
GoodOptions == [issuer |-> GoodUrl, audiences |-> {"ours"}, jwks |-> FALSE,
                discovered |-> [issuer |-> "ours", jwks |-> GoodUrl]]
JwtOptions ==
    {GoodOptions, [GoodOptions EXCEPT !.jwks = TRUE], [GoodOptions EXCEPT !.audiences = {}],
     [GoodOptions EXCEPT !.issuer.query = TRUE], [GoodOptions EXCEPT !.issuer.scheme = "http"],
     [GoodOptions EXCEPT !.discovered.issuer = "other"],
     [GoodOptions EXCEPT !.discovered.jwks.userinfo = TRUE]}

\* issuer_url and prepare_with_provider, up to the first fetch of the keys
PrepareJwt(o, first, second) ==
    Then(First(<< <<~AdmitUrl(o.issuer, FALSE), "InvalidUrl">>,
                  <<o.audiences = {} \/ Algorithms = {}, "Parse">> >>),
    IF o.jwks THEN "ok" ELSE Discovery(first, second, o.discovered))
=============================================================================
