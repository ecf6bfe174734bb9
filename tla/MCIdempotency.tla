---------------------------- MODULE MCIdempotency ----------------------------
EXTENDS Idempotency, TLC
CONSTANTS a1, a2, a3, c1, c2, k1, f1, f2
\* Two retries of one request, and the same key with another request.
OneScope == (a1 :> c1 @@ a2 :> c1 @@ a3 :> c1)
TwoPrints == (a1 :> f1 @@ a2 :> f1 @@ a3 :> f2)
SharedKey == (c1 :> k1 @@ c2 :> k1)
==============================================================================
