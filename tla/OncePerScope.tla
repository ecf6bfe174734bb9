---------------------------- MODULE OncePerScope ----------------------------
(***************************************************************************)
(* What HTTP idempotency promises a client (docs/http-idempotency.md): of  *)
(* the attempts with one caller and key, at most one commits its work while *)
(* a record is kept, and the others see that record or do nothing.          *)
(***************************************************************************)
CONSTANTS Attempts, Scopes, ScopeOf, NoOne

VARIABLES
    current,  \* the attempt whose record a scope keeps, NoOne without one
    fate      \* what became of each attempt's work; saw: the attempt whose record decided

onceVars == <<current, fate>>

OnceInit == /\ current = [c \in Scopes |-> NoOne]
            /\ fate = [a \in Attempts |-> [st |-> "open", saw |-> NoOne]]

\* The work and its record commit together, while the scope keeps none.  The
\* record's retention counts from its writing, so it may already be over.
CommitOnce(a) ==
    /\ fate[a].st = "open"
    /\ current[ScopeOf[a]] = NoOne
    /\ fate' = [fate EXCEPT ![a] = [st |-> "committed", saw |-> NoOne]]
    /\ \E c \in {a, NoOne} : current' = [current EXCEPT ![ScopeOf[a]] = c]

\* The record kept at this moment decides the attempt.
See(a) ==
    /\ fate[a].st = "open"
    /\ current[ScopeOf[a]] # NoOne
    /\ fate' = [fate EXCEPT ![a] = [st |-> "saw", saw |-> current[ScopeOf[a]]]]
    /\ UNCHANGED current

GiveUpOnce(a) ==
    /\ fate[a].st = "open"
    /\ fate' = [fate EXCEPT ![a] = [st |-> "nothing", saw |-> NoOne]]
    /\ UNCHANGED current

\* Time passes: any number of records reach the end of their retention.
Forget == /\ current' \in [Scopes -> Attempts \cup {NoOne}]
          /\ \A c \in Scopes : current'[c] \in {current[c], NoOne}
          /\ UNCHANGED fate

OnceNext == (\E a \in Attempts : CommitOnce(a) \/ See(a) \/ GiveUpOnce(a)) \/ Forget

OnceSpec == OnceInit /\ [][OnceNext]_onceVars
=============================================================================
