----------------------------- MODULE MCBackends -----------------------------
(* The components behind the service, one at a time: the outbox and its      *)
(* producer, the worker process, the job engines of one process, an operator *)
(* command over the transaction seam, the schema migrations and the table    *)
(* maintenance.  `focus` names the component that moves; the others rest     *)
(* where they start.  The stateless decisions behind the service are checked *)
(* against a second description of them over bounded inputs: subjects,       *)
(* schema versions and routes, connection strings and sessions, payloads,    *)
(* pages.                                                                    *)
EXTENDS Outbox, JobsWorker, JobEngine, OperatorCommand, Migrations, Maintenance

VARIABLE focus

backendVars == <<obVars, wkVars, jeVars, opVars, mgVars, mtVars, focus>>

\* A deployment of the worker: what it declares, what is wrong with it and its grace.
Setting(jobs, factory, faults, grace) ==
    [grace |-> grace, drain |-> 1, jobs |-> jobs, messages |-> FALSE, factory |-> factory,
     faults |-> faults]
Plain == Setting(TRUE, FALSE, {}, 7)
MCSettings ==
    {Plain, Setting(FALSE, TRUE, {}, 8), Setting(TRUE, FALSE, {"reserved_kind"}, 8),
     Setting(TRUE, FALSE, {"dsn"}, 8), Setting(TRUE, FALSE, {}, 2)}

\* Two engines in one process, each with a kind of its own.
MCKinds == [e \in {"e1", "e2"} |-> IF e = "e1" THEN {"k1"} ELSE {"k2"}]

\* A kind that runs one attempt at a time or as many as its engine has slots.
MCMaxRunning == [k \in {"k1", "k2"} |-> IF k = "k1" THEN {0, 1} ELSE {0}]

\* A release and its successor: one migration more.
MCEmbedded == [m \in {"m1", "m2"} |-> IF m = "m1" THEN {1, 2} ELSE {1, 2, 3}]

-----------------------------------------------------------------------------
BackendsInit ==
    /\ focus \in {"outbox", "worker", "engine", "operator", "migrations", "maintenance"}
    /\ ObInit /\ WkInit /\ JeInit /\ OpInit /\ MgInit /\ MtInit
    /\ focus # "engine" => due["k1"].limit = 0
    /\ focus # "worker" => wk.cfg = Plain
    /\ focus # "operator" => op.at = "arguments" /\ op.mutation
    /\ focus # "migrations" => \A v \in MgVersions : hist[v] = "none"

BackendsNext ==
    \/ focus = "outbox" /\ ObNext /\ UNCHANGED <<wkVars, jeVars, opVars, mgVars, mtVars, focus>>
    \/ focus = "worker" /\ WkNext /\ UNCHANGED <<obVars, jeVars, opVars, mgVars, mtVars, focus>>
    \/ focus = "engine" /\ JeNext /\ UNCHANGED <<obVars, wkVars, opVars, mgVars, mtVars, focus>>
    \/ focus = "operator" /\ OpNext /\ UNCHANGED <<obVars, wkVars, jeVars, mgVars, mtVars, focus>>
    \/ focus = "migrations" /\ MgNext /\ UNCHANGED <<obVars, wkVars, jeVars, opVars, mtVars, focus>>
    \/ focus = "maintenance" /\ MtNext /\ UNCHANGED <<obVars, wkVars, jeVars, opVars, mgVars, focus>>

BackendsSpec == BackendsInit /\ [][BackendsNext]_backendVars

-----------------------------------------------------------------------------
\* Every sequence over S of at most n members.
Words(S, n) == UNION {[1..k -> S] : k \in 0..n}

-----------------------------------------------------------------------------
(* Messaging *)

\* A filter without wildcards means itself, `*` stands for any one token, `>` for any
\* tail but the empty one (subject_matches).
ASSUME SubjectFilters ==
    \A s, t \in Words({"a", "b"}, 3) \ {<<>>} :
        /\ SubjectMatches(s, t) <=> s = t
        /\ ~SubjectMatches(Append(s, ">"), s)
        /\ \A i \in DOMAIN s : /\ SubjectMatches([s EXCEPT ![i] = "*"], s)
                               /\ SubjectMatches(Append(SubSeq(s, 1, i - 1), ">"), s)

\* The versions that parse are the u16 numbers but 0, in one spelling each (parse_schema).
ASSUME SchemaVersions ==
    LET Digits(n, k) == [i \in 1..k |-> (n \div 10 ^ (k - i)) % 10]
        Width(n) == CHOOSE k \in 1..6 : n < 10 ^ k /\ (k = 1 \/ n >= 10 ^ (k - 1))
    IN  \A n \in (0..120) \cup (65500..65600) \cup (99990..100010) :
            /\ ParseSchema("v", Digits(n, Width(n))) <=> n \in 1..65535
            /\ ~ParseSchema("v", <<0>> \o Digits(n, Width(n)))

\* What admission promises of the longest subject holds of every one the stream carries:
\* its dead letter fits (admit_dead_letter).  An absent domain travels as one byte.
ASSUME DeadLettersFit ==
    /\ \A source \in {100, 8192, 65000}, subjects \in (SUBSET {5, 50, 255}) \ {{}},
          serverLimit \in {8192, 65536}, messageLimit \in {0, 8192, 65536} :
         AdmitDeadLetter(source, subjects, 10, messageLimit, serverLimit) = "ok"
           <=> \A s \in subjects :
                 LET bytes == source + TransferAdditions(s, 10)
                 IN  bytes <= serverLimit /\ (messageLimit = 0 \/ bytes <= messageLimit)
    /\ \A p \in {0, 10} : PullDeliveryBytes(p, 3, 3, 3, 0) = PullDeliveryBytes(p, 3, 3, 3, 1)

\* An admitted registry knows one subject for each event, dispatches it from there only,
\* and its document shows every route in one channel under a name that means one schema.
ASSUME RoutesUnambiguous ==
    LET Route == [type: {"t", "u"}, version: {1}, subject: {<<"a">>, <<"b">>, <<"*">>},
                  schema: {"", "S"}, shape: {1, 2}]
    IN  \A r, q \in Route :
          LET routes == {r, q}
          IN  /\ RegistryOf(routes) = "ok"
                   => \A x \in routes, s \in {<<"a">>, <<"b">>} :
                        DispatchVerdict(routes, {<<x.type, 1>>}, s, <<x.type, 1>>, TRUE) = "ok"
                          <=> s = x.subject
              /\ RegistryOf(routes) = "ok" /\ AsyncApi(routes) = "ok"
                   => LET listed == UNION {Channels(routes)[s] : s \in DOMAIN Channels(routes)}
                      IN  /\ Cardinality(listed) = Cardinality(routes)
                          /\ \A x, y \in routes : x.schema = y.schema => x.shape = y.shape

\* Trace headers at their limits; servers learned over a connection are believed only
\* when plain and TLS addresses are not mixed; reconnects wait at most 4 s, back off
\* monotonically and are spread by at most a tenth.
ASSUME ConnectionBounds ==
    /\ \A n \in {"traceparent", "tracestate", "baggage"}, b \in {0, 1, 256, 257, 512, 513} :
         LET h == [name |-> n, ascii |-> TRUE, bytes |-> b]
         IN  h \in Carried({h}) <=> n # "baggage" /\ 0 < b /\ b <= IF n = "tracestate" THEN 512 ELSE 256
    /\ \A f \in SUBSET {"tls_first", "any_tls", "some_plain"} :
         ConnectOptions(f) = "ok" /\ DiscoveryTrusted(f) => ~({"any_tls", "some_plain"} \subseteq f)
    /\ \A n \in 0..16, tenth \in 0..10 :
         LET most == ReconnectDelay(n, 0)
         IN  /\ ReconnectDelay(n, tenth) \in (most - most \div 10)..most
             /\ most <= ReconnectDelay(n + 1, 0) /\ most <= 4000000

-----------------------------------------------------------------------------
(* Postgres *)

\* A connection string is admitted exactly when nothing is wrong with it, its password
\* has one source, and its TLS mode is given once and verifies any root it names.
ASSUME DsnAdmission ==
    LET Pairs == [key: {"sslmode"}, value: {"prefer", "require", "verify-full"}]
                   \cup [key: {"sslrootcert"}, value: {"absolute", "relative"}]
                   \cup {[key |-> "options", value |-> ""]}
        Mode(m) == [key |-> "sslmode", value |-> m]
        Root == [key |-> "sslrootcert", value |-> "absolute"]
        Good == {<<Mode("require")>>, <<Mode("verify-full")>>, <<Mode("verify-full"), Root>>,
                 <<Root, Mode("verify-full")>>}
    IN  \A faults \in {f \in SUBSET DsnFaults : Cardinality(f) <= 1}, query \in Words(Pairs, 2),
           file \in {"none", "unreadable", "empty", "password"} :
          AdmitDsn(faults, query, file) = "ok"
            <=> /\ faults = IF file = "password" THEN {"password"} ELSE {}
                /\ file \in {"none", "password"}
                /\ query \in Good

\* One line break at the end of a password file is not part of the password, a second one is.
ASSUME PasswordLines ==
    /\ \A p \in Words({"p", "\r", "\n"}, 2) \ {<<>>} :
         /\ p[Len(p)] = "p" => PasswordFrom(p) = p /\ PasswordFrom(p \o <<"\n">>) = p
         /\ PasswordFrom(p \o <<"\r", "\n">>) = p
    /\ \A empty \in {<<>>, <<"\n">>, <<"\r", "\n">>} : PasswordFrom(empty) = "PasswordFileEmpty"
    /\ \A read \in {"unreadable", "empty"} : RefreshPassword("old", read) = "old"
    /\ RefreshPassword("old", "new") = "new"

\* A session whose limits were dropped on the way, or are the server's "none", is not
\* admitted, and a pool that is not admitted is closed.
ASSUME SessionsBounded ==
    \A budget \in 1..3, server \in 0..3, dropped \in BOOLEAN, mode \in {"startup", "server"},
       readback \in {"stuck", "pool_timed_out", "refused", "answered"} :
      LET found == PublishedSetting(mode, budget, server, dropped)
          verdict == VerifySession(found, found, budget, "read committed", "server")
          pool == ConnectPool(readback, verdict)
      IN  /\ verdict = "ok" <=> found \in 1..budget
          /\ pool.open <=> pool.result = "ok" /\ readback = "answered"

\* Budgets are rounded up by less than a unit; a wait made of native waits ends as one
\* wait up to the deadline would; a connection idle for long is used only once it answered.
ASSUME PoolWaits ==
    /\ \A n, u \in 1..12 : LET p == RuntimeParam(n, u) IN n <= p * u /\ (p - 1) * u < n
    /\ \A frees \in 0..8, native \in 1..4, deadline \in 0..6 :
         LET until == AcquireUntil(frees, native, deadline)
         IN  /\ until = "ok" <=> frees < deadline
             /\ PostgresProbe(until, "ok") = until
    /\ \A idle \in 0..3, ping \in {"answered", "stuck", "failed"} :
         HandedOut(idle, 1, ping) /\ idle > 1 => ping = "answered"

\* What may be retried and certainly left nothing behind: conflicts only.  Every error
\* without a SQLSTATE leaves a commit unknown and keeps its own label.
ASSUME RetriesSafe ==
    /\ {e \in ServerCodes \cup DriverErrors : Transient(e) /\ ClassifyCommit(e) = "commit_failed"}
         = {"40001", "40P01"}
    /\ \A e \in DriverErrors : ClassifyCommit(e) = "commit_unknown" /\ FailureCause(e) = e

-----------------------------------------------------------------------------
(* Jobs, operator and maintenance *)

\* A NUL is an escape whose backslash is not itself escaped: an odd number of
\* backslashes before u0000 (contains_decoded_nul, one pass over the bytes).
ASSUME NulEscapes ==
    \A bytes \in Words({"b", "u", "x"}, 6) :
        DecodedNul(bytes) <=>
          \E i \in DOMAIN bytes :
             /\ bytes[i] = "u"
             /\ \E n \in 1..(i - 1) :
                  /\ n % 2 = 1 /\ \A j \in (i - n)..(i - 1) : bytes[j] = "b"
                  /\ i - n = 1 \/ bytes[i - n - 1] # "b"

\* A job, kind or session is admitted exactly without faults; an oversized payload is
\* counted to its end and kept to its limit; a pool's refusal anywhere in an error's
\* sources is nobody's failure; a trace is linked only whole.
ASSUME JobAdmission ==
    /\ \A f \in SUBSET KindFaults : ValidateKind(f) = "ok" <=> f = {}
    /\ \A f \in SUBSET SessionFaults : CheckJobsStartup(f) = "ok" <=> f = {}
    /\ \A f \in SUBSET PayloadFaults : PrepareJob(f) = "ok" <=> f = {}
    /\ \A w \in Words(0..2, 3), limit \in 0..4 :
         LET r == Retained(w, limit)
         IN  r.kept <= limit /\ (r.kept = r.total <=> r.total <= limit)
    /\ \A c \in Words({"pool_timed_out", "other"}, 3) :
         ErrorDisposition(c) = "snooze" <=> \E i \in DOMAIN c : c[i] = "pool_timed_out"
    /\ \A s \in {"none", "empty", "valid", "bad"} : LinkAdded("valid", s) <=> s # "bad"

\* Walking a listing by its cursor shows every matching row once, however many rows of a
\* page are filtered away, and says complete only at the end (inspect).
ASSUME PagesCoverRows ==
    LET Row == [state: {"failed", "pending"}, reason: {"none"}, kind: {"k"}]
    IN  \A rows \in Words(Row, 4), limit \in 1..3 :
          LET last == Len(rows) \div limit
              page == [p \in 0..last |-> Page(rows, p * limit, limit, "failed", {})]
          IN  /\ UNION {page[p].items : p \in 0..last} = {i \in DOMAIN rows : rows[i].state = "failed"}
              /\ \A p \in 0..last : /\ page[p].complete <=> p = last
                                    /\ page[p].next = IF p = last THEN 0 ELSE (p + 1) * limit

\* Each command refuses its own malformed inputs and ignores the others'.
ASSUME OperatorAdmission ==
    \A c \in {"inspect", "failed", "unhandled", "redrive"}, f \in SUBSET OperatorInputs :
        LET its == CASE c = "inspect" -> {"id"} [] c = "failed" -> {"limit", "cursor"}
                     [] c = "unhandled" -> {"handled_kinds", "limit", "cursor"}
                     [] OTHER -> {"id", "kind", "version"}
        IN  RequestOf(c, f) = "ok" <=> f \cap its = {}

\* A sample dated outside its own attempt, or read across a clock step, is not published;
\* cleanup failures of the transaction keep their outcome.
ASSUME SamplesDated ==
    /\ \A step \in -2..2, observed \in -1..6, oldest \in -1..6 :
         LET at(t, w) == [mono |-> t, wall |-> w]
             valid == SampleValid(at(0, 1), at(1, 2 + step), at(2, 3 + step), observed, oldest)
         IN  valid <=> /\ step \in -ClockSlack..ClockSlack
                       /\ observed \in (2 + step - ClockSlack)..(3 + step + ClockSlack)
                       /\ observed > 0 /\ oldest \in 0..observed
    /\ \A e \in {"commit_failed", "commit_unknown", "begin_failed"} : FailureOf(e) = e
=============================================================================
