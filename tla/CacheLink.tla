----------------------------- MODULE CacheLink ------------------------------
(***************************************************************************)
(* The cache client (src/crates/infra-cache): what an address and its      *)
(* credentials must look like to be admitted, one supervisor that owns the *)
(* connection generations, and commands that share the current one.  A     *)
(* command that may have been dispatched and is given up retires its       *)
(* generation, so that nobody sends behind it.                             *)
(*                                                                         *)
(* A generation is an allocation (Arc::ptr_eq); an id nobody refers to is  *)
(* used again.  Time is left to choice: a context may stop, a connection   *)
(* attempt or a ping may time out, whenever it runs.                       *)
(***************************************************************************)
EXTENDS Refusals, FiniteSets

CONSTANTS
    CacheCallers,   \* tasks that run GET, SET and DEL
    CacheProber,    \* the task that runs CacheProbe::check
    Generations,
    NoGeneration,
    CacheSlots,     \* APPLICATION_SLOTS
    CacheTtls,      \* TTLs callers pass to SET, in whole milliseconds
    MaxTtl          \* i64::MAX milliseconds

ASSUME CacheAssumption ==
    /\ CacheProber \notin CacheCallers
    /\ NoGeneration \notin Generations
    /\ CacheSlots \in Nat \ {0}

VARIABLES
    cacheLink,    \* what Cache::connect_lazy decided
    cacheState,   \* State: current, closed, error
    cacheRetired, \* generations whose `retired` token is cancelled
    cacheSup,     \* the supervisor task
    cacheFile,    \* the password file, against the password last authenticated with
    cacheCmd,     \* each caller's command
    cacheDirty    \* generations with a dispatch that was given up

cacheVars == <<cacheLink, cacheState, cacheRetired, cacheSup, cacheFile, cacheCmd, cacheDirty>>

CacheTasks == CacheCallers \cup {CacheProber}
Gen == Generations \cup {NoGeneration}

-----------------------------------------------------------------------------
(* Admission *)

CacheOptions ==
    [addr: {"unparsable", "tcp", "tls", "insecure", "unix"}, password: BOOLEAN,
     file: {"none", "unreadable", "empty", "ok"},
     ca: {"none", "unreadable", "invalid", "ok"},
     cert: {"none", "unreadable", "invalid", "key_unreadable", "key_invalid", "ok"},
     plaintext: BOOLEAN, unauthenticated: BOOLEAN]

\* admit_address
AdmitAddress(o) ==
    First(<< <<o.addr = "tcp" /\ ~o.plaintext, "PlaintextRefused">>,
             <<o.addr = "tcp" /\ o.ca # "none", "CaRequiresTls">>,
             <<o.addr = "tcp" /\ o.cert # "none", "ClientCertificateRequiresTls">>,
             <<o.addr = "insecure", "InsecureTlsRefused">>,
             <<o.addr \notin {"tcp", "tls"}, "UnsupportedAddress">> >>)

\* PasswordFile::admit and password_from
AdmitPasswordFile(o) ==
    First(<< <<o.file = "unreadable", "PasswordFile">>,
             <<o.file = "empty", "PasswordFileEmpty">> >>)

\* read_root_ca
ReadRootCa(o) ==
    First(<< <<o.ca = "unreadable", "CaFile">>, <<o.ca = "invalid", "InvalidCa">> >>)

\* read_client_certificate: both files, the chain, then the key against the leaf
ReadClientCertificate(o) ==
    First(<< <<o.cert = "unreadable", "ClientCertificateFile">>,
             <<o.cert = "key_unreadable", "ClientKeyFile">>,
             <<o.cert = "invalid", "InvalidClientCertificate">>,
             <<o.cert = "key_invalid", "InvalidClientKey">> >>)

\* Cache::connect_lazy, up to the client it builds
ConnectLazy(o) ==
    Then(First(<< <<o.addr = "unparsable", "InvalidDsn">> >>),
    Then(AdmitAddress(o),
    Then(First(<< <<o.file # "none" /\ o.password, "PasswordInDsn">> >>),
    Then(AdmitPasswordFile(o),
    Then(First(<< <<o.file = "none" /\ ~o.password /\ ~o.unauthenticated,
                    "UnauthenticatedRefused">> >>),
    Then(ReadRootCa(o), ReadClientCertificate(o)))))))

-----------------------------------------------------------------------------
\* ErrorType: of its values the code tells only `auth` apart.
Errors == {"auth", "other"}

\* Whether a command returns a value, Unavailable, or was dropped changes nothing but
\* its OperationGuard's label, and is not kept.
NoCmd == [st |-> "idle", gen |-> NoGeneration, woken |-> FALSE]

CacheTypeOK ==
    /\ cacheLink \in [st: {"new", "open", "dropped"} \cup {"refused"}, file: BOOLEAN]
    /\ cacheState \in [current: Gen, closed: BOOLEAN, error: Errors \cup {"none"}]
    /\ cacheRetired \subseteq Generations /\ cacheDirty \subseteq Generations
    /\ cacheSup \in [st: {"pause", "connect", "maintain", "gone"}, gen: Gen]
    /\ cacheFile \in {"same", "rotated", "unreadable"}
    /\ cacheCmd \in [CacheTasks ->
                     [st: {"idle", "acquire", "looked", "wait", "got", "sent"}, gen: Gen, woken: BOOLEAN]]

CacheInit ==
    /\ cacheLink = [st |-> "new", file |-> FALSE]
    /\ cacheState = [current |-> NoGeneration, closed |-> FALSE, error |-> "none"]
    /\ cacheRetired = {} /\ cacheDirty = {}
    /\ cacheSup = [st |-> "gone", gen |-> NoGeneration]
    /\ cacheFile = "same"
    /\ cacheCmd = [c \in CacheTasks |-> NoCmd]

\* bootstrap's cache::open: the client is built, its supervisor spawned by Link::start.
OpenCache(o) ==
    /\ cacheLink.st = "new"
    /\ IF ConnectLazy(o) = "ok"
       THEN /\ cacheLink' = [st |-> "open", file |-> o.file # "none"]
            /\ cacheSup' = [cacheSup EXCEPT !.st = "pause"]
       ELSE /\ cacheLink' = [cacheLink EXCEPT !.st = "refused"]
            /\ UNCHANGED cacheSup
    /\ UNCHANGED <<cacheState, cacheRetired, cacheFile, cacheCmd, cacheDirty>>

-----------------------------------------------------------------------------
(* Shared: the state every command and the supervisor look at *)

\* Mutation: a waiter registers only when it awaits, after it looked at the state.
NotifyAwaiting(cmds) ==
    [c \in CacheTasks |-> [cmds[c] EXCEPT !.woken = @ \/ cmds[c].st = "wait"]]

\* notify_waiters, to those that registered: before they look at the state.
NotifyWaiters(cmds) ==
    [c \in CacheTasks |-> [cmds[c] EXCEPT !.woken = @ \/ cmds[c].st \in {"acquire", "looked", "wait"}]]

\* Shared::close
Close(cmds) ==
    /\ cacheState' = [cacheState EXCEPT !.closed = TRUE, !.current = NoGeneration]
    /\ cacheRetired' = cacheRetired \cup ({cacheState.current} \ {NoGeneration})
    /\ cacheCmd' = NotifyWaiters(cmds)

\* Mutation: whatever is current goes, with no Arc::ptr_eq.
RetireAny(g, cmds) ==
    /\ cacheRetired' = cacheRetired \cup {g}
    /\ cacheState' = [cacheState EXCEPT !.current = NoGeneration]
    /\ cacheCmd' = NotifyWaiters(cmds)

\* Shared::retire: g's token is cancelled; only g itself stops being current.
Retire(g, cmds) ==
    /\ cacheRetired' = cacheRetired \cup {g}
    /\ cacheState' = [cacheState EXCEPT !.current = IF @ = g THEN NoGeneration ELSE @]
    /\ cacheCmd' = NotifyWaiters(cmds)

Live(g) == g # NoGeneration /\ g \notin cacheRetired

-----------------------------------------------------------------------------
(* Commands *)

\* Admission, held until the command is over
Admitted == {c \in CacheCallers : cacheCmd[c].st # "idle"}

\* The command is over: its OperationGuard records an outcome and its slot is free.
Ended(c) == [cacheCmd EXCEPT ![c] = NoCmd]

LinkUnchanged == UNCHANGED <<cacheLink, cacheSup, cacheFile>>

\* get_with_context, set_with_context and delete_with_context: SET alone refuses an
\* argument, before it asks for admission.
Admissible(op, millis) == op = "set" => millis \in 1 .. MaxTtl

\* CacheNamespace::run and Link::command, or Link::probe: with no slot left, or a
\* context stopped before it starts, nothing happens; else register with `changed`.
Start(c) ==
    /\ cacheLink.st = "open" /\ cacheCmd[c].st = "idle"
    /\ \/ c = CacheProber
       \/ \E op \in {"get", "set", "delete"}, millis \in CacheTtls : Admissible(op, millis)
    /\ c = CacheProber \/ Cardinality(Admitted) < CacheSlots
    /\ cacheCmd' = [cacheCmd EXCEPT ![c] = [NoCmd EXCEPT !.st = "acquire"]]
    /\ LinkUnchanged /\ UNCHANGED <<cacheState, cacheRetired, cacheDirty>>

\* One turn of Shared::acquire under the lock.
Acquire(c) ==
    /\ cacheCmd[c].st = "acquire"
    /\ cacheCmd' =
         IF ~cacheState.closed /\ Live(cacheState.current)
         THEN [cacheCmd EXCEPT ![c].st = "got", ![c].gen = cacheState.current]
         ELSE IF cacheState.closed \/ cacheState.error # "none" THEN Ended(c)
         ELSE [cacheCmd EXCEPT ![c].st = "looked"]
    /\ LinkUnchanged /\ UNCHANGED <<cacheState, cacheRetired, cacheDirty>>

\* The lock is released and `changed` awaited.
Await(c) ==
    /\ cacheCmd[c].st = "looked"
    /\ cacheCmd' = [cacheCmd EXCEPT ![c].st = "wait"]
    /\ LinkUnchanged /\ UNCHANGED <<cacheState, cacheRetired, cacheDirty>>

\* Notified: register again and look again.
Wake(c) ==
    /\ cacheCmd[c].st = "wait" /\ cacheCmd[c].woken
    /\ cacheCmd' = [cacheCmd EXCEPT ![c].st = "acquire", ![c].woken = FALSE]
    /\ LinkUnchanged /\ UNCHANGED <<cacheState, cacheRetired, cacheDirty>>

\* The context stops or the future is dropped before an Exchange exists, also at the
\* second context.check: the admission alone is dropped.
GiveUpWaiting(c) ==
    /\ cacheCmd[c].st \in {"acquire", "looked", "wait", "got"}
    /\ cacheCmd' = Ended(c)
    /\ LinkUnchanged /\ UNCHANGED <<cacheState, cacheRetired, cacheDirty>>

\* Mutation: query_async is polled whatever became of the generation.
DispatchAnyway(c) ==
    /\ cacheCmd[c].st = "got"
    /\ cacheCmd' = [cacheCmd EXCEPT ![c].st = "sent"]
    /\ UNCHANGED <<cacheState, cacheRetired>>
    /\ LinkUnchanged /\ UNCHANGED cacheDirty

\* The select of exchange and exchange_with_context is biased: a retired
\* generation is seen before query_async is polled.
Dispatch(c) ==
    /\ cacheCmd[c].st = "got"
    /\ IF Live(cacheCmd[c].gen)
       THEN /\ cacheCmd' = [cacheCmd EXCEPT ![c].st = "sent"]
            /\ UNCHANGED <<cacheState, cacheRetired>>
       ELSE Retire(cacheCmd[c].gen, Ended(c))
    /\ LinkUnchanged /\ UNCHANGED cacheDirty

\* The server's reply, before the generation retires.  (A GET whose reply crossed the
\* cutoff is reported as a timeout; a confirmed mutation keeps its result.)
Reply(c) ==
    /\ cacheCmd[c].st = "sent" /\ Live(cacheCmd[c].gen)
    /\ cacheCmd' = Ended(c)
    /\ LinkUnchanged /\ UNCHANGED <<cacheState, cacheRetired, cacheDirty>>

\* Exchange dropped before it completed: an error, a timeout, a retired generation
\* or a dropped future.  What was dispatched may still be on the wire.
GiveUpSent(c) ==
    /\ cacheCmd[c].st = "sent"
    /\ Retire(cacheCmd[c].gen, Ended(c))
    /\ cacheDirty' = cacheDirty \cup {cacheCmd[c].gen}
    /\ LinkUnchanged

-----------------------------------------------------------------------------
(* The supervisor *)

InUse(g) == g \in {cacheState.current, cacheSup.gen} \/ \E c \in CacheTasks : cacheCmd[c].gen = g

\* The delay is over: forget the last error and dial, with a fresh `retired` token.
Dial(g) ==
    /\ cacheSup.st = "pause"
    /\ ~InUse(g)
    /\ cacheState' = [cacheState EXCEPT !.error = "none"]
    /\ cacheSup' = [cacheSup EXCEPT !.st = "connect", !.gen = g]
    /\ cacheRetired' = cacheRetired \ {g} /\ cacheDirty' = cacheDirty \ {g}
    /\ UNCHANGED <<cacheLink, cacheFile, cacheCmd>>

\* connect: the file is read for each attempt; then redis-rs dials and authenticates.
ConnectResults ==
    IF cacheLink.file /\ cacheFile = "unreadable" THEN {"auth"}
    ELSE Errors \cup (IF Live(cacheSup.gen) THEN {"ok"} ELSE {})

\* connect succeeded and was not cut meanwhile: publish the generation.
Publish ==
    /\ cacheSup.st = "connect" /\ "ok" \in ConnectResults
    /\ cacheState' = [cacheState EXCEPT !.current = cacheSup.gen]
    /\ cacheSup' = [cacheSup EXCEPT !.st = "maintain"]
    /\ cacheFile' = "same"
    /\ cacheCmd' = NotifyWaiters(cacheCmd)
    /\ UNCHANGED <<cacheLink, cacheRetired, cacheDirty>>

\* The attempt failed; io also when its connection was cut before it was published.
DialFails(error) ==
    /\ cacheSup.st = "connect"
    /\ error \in ConnectResults
    /\ cacheState' = [cacheState EXCEPT !.error = error]
    /\ cacheSup' = [cacheSup EXCEPT !.st = "pause", !.gen = NoGeneration]
    /\ cacheCmd' = NotifyWaiters(cacheCmd)
    /\ UNCHANGED <<cacheLink, cacheRetired, cacheFile, cacheDirty>>

\* maintain returns: the token is cancelled, a ping failed, or a refresh failed in
\* any way but a rejected AUTH.
Abandon ==
    /\ cacheSup.st = "maintain"
    /\ Retire(cacheSup.gen, cacheCmd)
    /\ cacheSup' = [cacheSup EXCEPT !.st = "pause", !.gen = NoGeneration]
    /\ UNCHANGED <<cacheLink, cacheFile, cacheDirty>>

\* refresh: an unreadable file, an unchanged password and a rejected AUTH all keep
\* the generation and its password.
Refresh(accepted) ==
    /\ cacheSup.st = "maintain" /\ cacheLink.file /\ Live(cacheSup.gen)
    /\ cacheFile' = IF cacheFile = "rotated" /\ accepted THEN "same" ELSE cacheFile
    /\ UNCHANGED <<cacheLink, cacheState, cacheRetired, cacheSup, cacheCmd, cacheDirty>>

\* redis-rs pushes Disconnection: the token only; `current` still names the generation.
Disconnect ==
    /\ cacheSup.st \in {"connect", "maintain"}
    /\ cacheRetired' = cacheRetired \cup {cacheSup.gen}
    /\ UNCHANGED <<cacheLink, cacheState, cacheSup, cacheFile, cacheCmd, cacheDirty>>

\* SupervisorExit: the task panics or ends.
SupervisorExits ==
    /\ cacheLink.st = "open" /\ cacheSup.st # "gone"
    /\ Close(cacheCmd)
    /\ cacheSup' = [cacheSup EXCEPT !.st = "gone", !.gen = NoGeneration]
    /\ UNCHANGED <<cacheLink, cacheFile, cacheDirty>>

\* Link dropped with its last Cache: no command borrows it any more.
DropLink ==
    /\ cacheLink.st = "open" /\ \A c \in CacheTasks : cacheCmd[c].st = "idle"
    /\ cacheLink' = [cacheLink EXCEPT !.st = "dropped"]
    /\ Close(cacheCmd)
    /\ cacheSup' = [cacheSup EXCEPT !.st = "gone", !.gen = NoGeneration]
    /\ UNCHANGED <<cacheFile, cacheDirty>>

\* The platform rewrites the password file, or breaks it.
RotatePassword(p) ==
    /\ cacheLink.st = "open" /\ cacheLink.file
    /\ cacheFile' = p
    /\ UNCHANGED <<cacheLink, cacheState, cacheRetired, cacheSup, cacheCmd, cacheDirty>>

CommandStep(c) ==
    \/ Start(c) \/ Acquire(c) \/ Await(c) \/ Wake(c) \/ GiveUpWaiting(c)
    \/ Dispatch(c) \/ Reply(c) \/ GiveUpSent(c)

SupervisorStep ==
    \/ \E g \in Generations : Dial(g)
    \/ Publish \/ Abandon \/ Disconnect \/ SupervisorExits
    \/ \E e \in Errors : DialFails(e)
    \/ \E a \in BOOLEAN : Refresh(a)

CacheNext ==
    \/ \E o \in CacheOptions : OpenCache(o)
    \/ \E c \in CacheTasks : CommandStep(c)
    \/ SupervisorStep
    \/ \E p \in {"rotated", "unreadable"} : RotatePassword(p)
    \/ DropLink

-----------------------------------------------------------------------------
(* Properties *)

\* Nobody sleeps through news: a waiter of Shared::acquire that no notification
\* reached has neither a usable generation, an error nor a closed link to see.  (With
\* the types of the state.)
NewsReachesWaiters ==
    CacheTypeOK /\ \A c \in CacheTasks : cacheCmd[c].st = "wait" /\ ~cacheCmd[c].woken
        => ~Live(cacheState.current) /\ ~cacheState.closed /\ cacheState.error = "none"

\* Which generation a command runs on.  It is never sent on one on which an earlier exchange was
\* given up, whoever gave it up and whenever it retired the generation: Exchange::drop retires it
\* and a command that had already acquired it sees that before it polls.  And a late retirement
\* of a replaced generation leaves its successor in place: the current one goes only when it is
\* itself retired (Shared::retire, close).  Meanwhile nobody sleeps through news.
LinkCustody ==
    /\ []NewsReachesWaiters
    /\ [][/\ \A c \in CacheTasks :
               cacheCmd[c].st # "sent" /\ cacheCmd'[c].st = "sent" => cacheCmd'[c].gen \notin cacheDirty
          /\ cacheState'.current # cacheState.current =>
               cacheState.current \in cacheRetired' \cup {NoGeneration}]_cacheVars
=============================================================================
