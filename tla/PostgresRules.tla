---------------------------- MODULE PostgresRules ----------------------------
(***************************************************************************)
(* What src/crates/infra-postgres decides without keeping state: whether a *)
(* connection string and a session are admitted, what a driver error means *)
(* and how long a caller waits for a connection.  A URL is the set of      *)
(* rules it breaks and the parameters it carries.                          *)
(***************************************************************************)
EXTENDS Integers, Sequences, FiniteSets, Refusals

\* The rules Dsn::admit_from checks, in the order it checks them.
DsnFaults == {"empty", "ambient", "scheme", "invalid", "fragment", "host", "port", "user",
              "password", "database", "unusable", "socket", "hosts"}

\* Every component the driver would otherwise take from elsewhere; the password
\* has exactly one source.
RequireComponents(faults, fromFile) ==
    First(<< <<"host" \in faults, "Missing">>, <<"port" \in faults, "Missing">>,
             <<"user" \in faults, "Missing">>,
             <<"password" \in faults /\ ~fromFile, "Missing">>,
             <<"password" \notin faults /\ fromFile, "PasswordSources">>,
             <<"database" \in faults, "Missing">> >>)

SslModes == {"disable", "allow", "prefer", "require", "verify-ca", "verify-full"}

\* check_parameters over the query pairs in order; the first refusal is the
\* answer, and a key given twice is a key not supported.
Parameter(query, i) ==
    LET key == query[i].key
        again == \E j \in 1..(i - 1) : query[j].key = key
    IN  First(<< <<key \notin {"sslmode", "sslrootcert"} \/ again, "Parameter">>,
                 <<key = "sslmode" /\ query[i].value \notin {"disable", "require", "verify-ca",
                                                             "verify-full"}, "SslMode">>,
                 <<key = "sslrootcert" /\ query[i].value # "absolute", "RootCertPath">> >>)

CheckParameters(query) ==
    LET refused == {i \in DOMAIN query : Parameter(query, i) # "ok"}
        Has(key, values) == \E i \in DOMAIN query : query[i].key = key /\ query[i].value \in values
    IN  IF refused # {}
        THEN Parameter(query, CHOOSE i \in refused : \A j \in refused : i <= j)
        ELSE First(<< <<~Has("sslmode", SslModes), "Missing">>,
                      <<Has("sslrootcert", {"absolute"})
                           /\ Has("sslmode", {"disable", "require"}),
                        "RootCertWithoutVerification">> >>)

\* password_from: one trailing line break is not part of the password.
PasswordFrom(content) ==
    LET n == Len(content)
        cut == IF n = 0 \/ content[n] # "\n" THEN n
               ELSE IF n > 1 /\ content[n - 1] = "\r" THEN n - 2 ELSE n - 1
    IN  IF cut = 0 THEN "PasswordFileEmpty" ELSE SubSeq(content, 1, cut)

\* Dsn::admit_with; file is "none", "unreadable", "empty" or "password".
AdmitDsn(faults, query, file) ==
    Then(Then(Then(
        First(<< <<"empty" \in faults, "Empty">>, <<"ambient" \in faults, "Ambient">>,
                 <<"scheme" \in faults, "Scheme">>, <<"invalid" \in faults, "Invalid">>,
                 <<"fragment" \in faults, "Fragment">> >>),
        RequireComponents(faults, file # "none")),
        CheckParameters(query)),
        First(<< <<"unusable" \in faults, "Unusable">>, <<"socket" \in faults, "Socket">>,
                 <<"hosts" \in faults, "MultipleHosts">>,
                 <<file = "unreadable", "PasswordFile">>, <<file = "empty", "PasswordFileEmpty">> >>))

\* check_budget: zero is PostgreSQL's "no limit".
CheckBudget(found, budget) == IF found > 0 /\ found <= budget THEN "ok" ELSE "SessionBudget"

\* What a new session carries: the startup packet's settings when this process
\* publishes them and nothing on the way drops them, else the server's own.
PublishedSetting(budgets, budget, server, dropped) ==
    IF budgets = "startup" /\ ~dropped THEN budget ELSE server

\* verify_session
VerifySession(statement, idle, budget, isolation, expected) ==
    Then(Then(CheckBudget(statement, budget), CheckBudget(idle, budget)),
         IF expected \notin {"server", isolation} THEN "SessionIsolation" ELSE "ok")

\* admit_pool: the readback is bounded as a whole, its acquisition too.
AdmitSession(readback, verdict) ==
    CASE readback = "stuck"          -> "SessionVerificationTimeout"
      [] readback = "pool_timed_out" -> "Timeout"
      [] readback = "refused"        -> "Connect"
      [] readback = "answered"       -> verdict

\* connect closes the pool it does not return.
ConnectPool(readback, verdict) ==
    LET admitted == AdmitSession(readback, verdict)
    IN  [result |-> admitted, open |-> admitted = "ok"]

\* to_runtime_param rounds up, so that no budget shrinks.
RuntimeParam(nanos, unit) == (nanos + unit - 1) \div unit

\* before_acquire: a connection idle past the threshold is pinged within a bound.
HandedOut(idle, threshold, ping) == idle <= threshold \/ ping = "answered"

\* acquire, acquire_until: a native wait that times out is repeated until the
\* deadline; a connection becomes free at the tick frees.
AcquireUntil(frees, native, deadline) ==
    LET starts == {w \in 0..deadline : w < deadline /\ w % native = 0}
    IN  IF \E w \in starts : w <= frees /\ frees < w + native /\ frees < deadline
        THEN "ok" ELSE "PoolTimedOut"

\* A driver error is the class of its SQLSTATE, or what failed without one.
ServerCodes == {"08006", "53300", "23505", "40001", "40P01", "40003", "25P02", "25006",
                "57P01", "57014", "42P01", "55P03"}
DriverErrors == {"PoolTimedOut", "PoolClosed", "Io", "Tls", "Protocol", "Decode"}

Transient(error) ==
    error \in {"08006", "53300", "40001", "40003", "40P01", "57P01", "57014", "25006"}
              \cup {"PoolTimedOut", "PoolClosed", "Io", "Tls"}

\* failure_cause, the label of an error without a SQLSTATE
FailureCause(error) == IF error \in ServerCodes THEN "database" ELSE error

\* classify_commit: rejected for sure, or unknown.
ClassifyCommit(error) ==
    IF error \in {"23505", "40001", "40P01", "25P02"} THEN "commit_failed" ELSE "commit_unknown"

\* PostgresProbe::check: a ping over the shared pool.
PostgresProbe(acquired, ping) == Then(acquired, ping)

\* Refresh::step: what the pool opens its next connections with.
RefreshPassword(current, read) == IF read \in {"unreadable", "empty"} THEN current ELSE read
=============================================================================
