------------------------------ MODULE Refusals ------------------------------
(***************************************************************************)
(* A validation in this code base is a list of early returns.  A list of   *)
(* pairs <<condition, error>> stands for one: the first condition that     *)
(* holds gives the verdict.                                                *)
(***************************************************************************)
EXTENDS Naturals, Sequences

First(checks) ==
    LET hit == {i \in DOMAIN checks : checks[i][1]}
    IN IF hit = {} THEN "ok" ELSE checks[CHOOSE i \in hit : \A j \in hit : i <= j][2]

\* The `?` operator between two fallible steps.
Then(first, second) == IF first = "ok" THEN second ELSE first
=============================================================================
