----------------------------- MODULE MCLifecycle -----------------------------
(* Instances of Lifecycle. *)
EXTENDS Lifecycle

CONSTANTS t1, q1, q2

\* With every budget one tick the tail is six: the exact fit, a grace one tick
\* too short, and a request that fits only without the propagation delay.
Deployments == {
    [grace |-> 9, drain |-> 3, propagation |-> 1, request |-> 2],
    [grace |-> 8, drain |-> 3, propagation |-> 1, request |-> 2],
    [grace |-> 9, drain |-> 3, propagation |-> 1, request |-> 3]}
=============================================================================
