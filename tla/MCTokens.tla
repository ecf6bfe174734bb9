------------------------------ MODULE MCTokens ------------------------------
(* The components that obtain, cache and judge tokens, one at a time: the   *)
(* behaviours of this module are the disjoint union of theirs.  `focus`     *)
(* names the component that moves; the others rest where they start.        *)
(* Service tokens: two calls on one owner; four names are enough, because   *)
(* while a token is requested at most three others are referred to.         *)
EXTENDS ServiceToken, KeyRefresh, Introspection, ServiceAuth, TokenExchange

CONSTANTS c1, c2, t1, t2, t3, t4, none, bg, nobody

VARIABLE focus

MCCalls == {c1, c2}
MCTokens4 == {t1, t2, t3, t4}
\* A caller that can wait for a whole attempt, and one that cannot.
MCBudgets == {1, 2}
\* One lifetime below the reuse margin's reach, one that lasts.
MCLifetimes == {2, 5}

tokenVars == <<vars, jwtVars, insVars, saVars, exVars, focus>>

TokensInit ==
    /\ focus \in {"service", "keys", "introspection", "internal", "exchange"}
    /\ Init /\ JwtInit /\ InsInit /\ SaInit /\ ExInit
    /\ focus # "introspection" => insOptions = [cache |-> TRUE, large |-> FALSE]

OfService(A) == focus = "service" /\ A /\ UNCHANGED <<jwtVars, insVars, saVars, exVars, focus>>
OfKeys(A) == focus = "keys" /\ A /\ UNCHANGED <<vars, insVars, saVars, exVars, focus>>

TokensNext ==
    \/ OfService(Next)
    \/ OfKeys(JwtNext)
    \/ focus = "introspection" /\ InsNext /\ UNCHANGED <<vars, jwtVars, saVars, exVars, focus>>
    \/ focus = "internal" /\ SaNext /\ UNCHANGED <<vars, jwtVars, insVars, exVars, focus>>
    \/ focus = "exchange" /\ ExNext /\ UNCHANGED <<vars, jwtVars, insVars, saVars, focus>>

\* Each task is polled: a call and the refresh driver go on, at a deadline if need be;
\* nothing makes the provider answer.
ServiceFairness ==
    /\ WF_vars(OfService(Tick))
    /\ \A c \in Calls : WF_vars(OfService(\/ LockTimeout(c) \/ FetchTimesOut(c)
                                          \/ call[c].st = "use" /\ call[c].left = 0 /\ EndCall(c)))
    /\ WF_vars(OfService(\/ Take \/ DriverLockTimeout \/ Spaced \/ Ended
                         \/ driver.left = 0 /\ RefreshFails(FALSE)))

\* The key worker is polled: a fetch ends, at its timeout if need be, and is finished; a
\* request that was answered resumes.
KeyFairness ==
    /\ WF_jwtVars(OfKeys(Finish \/ Fetch(FALSE)))
    /\ \A c \in Verifications : WF_jwtVars(OfKeys(Resume(c)))

TokensSpec == TokensInit /\ [][TokensNext]_tokenVars /\ ServiceFairness /\ KeyFairness
=============================================================================
