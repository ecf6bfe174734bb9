----------------------------- MODULE MCJobQueue -----------------------------
EXTENDS JobQueue, TLC
CONSTANTS w1, w2, s1, s2
OneEach == (s1 :> w1 @@ s2 :> w2)
BothOne == (s1 :> w1 @@ s2 :> w1)
\* w2 still runs a release whose policy allows one attempt less.
RollingBudget == (w1 :> 2 @@ w2 :> 1)
SingleBudget  == (w1 :> 1)
=============================================================================
