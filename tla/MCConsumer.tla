------------------------------ MODULE MCConsumer ------------------------------
EXTENDS Consumer, TLC
CONSTANTS r1, r2, s1, s2, m1

OwnEach == (s1 :> r1) @@ (s2 :> r2)
OwnBoth == (s1 :> r1) @@ (s2 :> r1)
OneDelay == <<1>>

\* The two replicas, with their slots, are interchangeable.
Swap == (r1 :> r2) @@ (r2 :> r1) @@ (s1 :> s2) @@ (s2 :> s1)
Symmetry == {Swap}
=============================================================================
