----------------------------- MODULE ConfigLoad -----------------------------
(***************************************************************************)
(* One load of the configuration (src/crates/config/src/load.rs): the      *)
(* secrets directory, the environment, the rules each file must meet, the  *)
(* merge, the decoding and the validation.  A file is read twice, once for *)
(* its rules and once by the merge, and may be replaced in between.  The   *)
(* decoder is external: it refuses a value at its key, at a key above it   *)
(* or at none, and may quote the value.                                    *)
(***************************************************************************)
EXTENDS ConfigSections

CONSTANTS
    LoadVariables,   \* what the environment may hold: sets of entries
    LoadSecrets,     \* what the secrets directory may hold; {} is no directory
    LoadFiles,       \* what the files may hold, the base file first
    MaxReplaced      \* bound on files replaced during the load

\* A path has at least one segment.
Paths == Seq(STRING) \ {<<>>}
Values == [text : STRING, breaks : BOOLEAN]
Files == [keys : SUBSET [path : Paths, value : Values], faults : SUBSET STRING]

ASSUME LoadAssumption ==
    /\ \A entries \in LoadVariables \cup LoadSecrets :
         \A e \in entries : e.path \in Paths /\ e.value \in Values
    /\ LoadFiles \subseteq Seq(Files)
    /\ MaxReplaced \in Nat

VARIABLES
    source,   \* the carriers and the files as they are now
    load      \* the load itself

loadVars == <<source, load>>

-----------------------------------------------------------------------------
(* Names and keys *)

\* The words of a key, between its dots, underscores and dashes.
KeyWords(key) ==
    CASE key = "request_timeout" -> <<"request", "timeout">>
      [] key = "password_file" -> <<"password", "file">>
      [] key = "token_url" -> <<"token", "url">>
      [] key = "token_profile" -> <<"token", "profile">>
      [] key = "private_key" -> <<"private", "key">>
      [] key = "otlp_headers" -> <<"otlp", "headers">>
      [] OTHER -> <<key>>

IsSecretLikeKey(path) ==
    LET upTo[n \in 0 .. Len(path)] == IF n = 0 THEN <<>> ELSE upTo[n - 1] \o KeyWords(path[n])
        words == upTo[Len(path)]
        After(i) == SubSeq(words, i + 1, Len(words))
        Before(i) == IF i = 1 THEN "" ELSE words[i - 1]
        Names(i) ==
            \/ words[i] \in {"secret", "secrets", "authorization", "dsn"}
            \/ words[i] \in {"password", "credentials"} /\ After(i) # <<"file">>
            \/ words[i] = "token" /\ (i = Len(words) \/ words[i + 1] # "url")
            \/ words[i] = "key" /\ Before(i) \in {"api", "private"}
            \/ words[i] = "headers" /\ Before(i) = "otlp"
    IN path # <<"authn", "token_profile">> /\ \E i \in 1 .. Len(words) : Names(i)

HasNonEmptyValue(value) == value.text \notin {"blank", "no_items"}

\* Whether the dotted path is the key or lies beneath it.
IsAtOrUnder(path, key) == Len(key) <= Len(path) /\ SubSeq(path, 1, Len(key)) = key

\* A name's segments are plain identifiers.
IsKeyPath(entry) == entry.faults \cap {"empty_segment", "symbol"} = {}

-----------------------------------------------------------------------------
(* The carriers of variables *)

\* Mutation: the later spelling wins.
AdmitLastSpelling(held, variable) ==
    [verdict |-> "ok", held |-> {v \in held : v.path # variable.path} \cup {variable}]

\* A second spelling of a name is refused: which value won would depend on the listing.
AdmitVariable(held, variable) ==
    IF \E v \in held : v.path = variable.path
    THEN [verdict |-> "AmbiguousName", held |-> held]
    ELSE [verdict |-> "ok", held |-> held \cup {variable}]

VariableOf(entry, from, value) == [path |-> entry.path, value |-> value, from |-> from]

ReadVariable(held, entry) ==
    CASE "foreign" \in entry.faults -> [verdict |-> "ok", held |-> held]
      [] ~IsKeyPath(entry) -> [verdict |-> "MalformedEnvName", held |-> held]
      [] "not_unicode" \in entry.faults -> [verdict |-> "NonUnicodeEnvValue", held |-> held]
      [] OTHER -> AdmitVariable(held, VariableOf(entry, "environment", entry.value))

\* A file of the directory is one variable; its trailing line breaks are not its value.
ReadSecret(held, entry) ==
    CASE "foreign" \in entry.faults -> [verdict |-> "ok", held |-> held]
      [] ~IsKeyPath(entry) -> [verdict |-> "MalformedSecretName", held |-> held]
      [] entry.faults \cap {"not_unicode", "io", "nul"} # {} -> [verdict |-> "ReadSecret", held |-> held]
      [] OTHER -> AdmitVariable(held, VariableOf(entry, "secrets", [entry.value EXCEPT !.breaks = FALSE]))

\* The environment's value wins for a name both carry.
Extended(held, more) == {v \in held : \A m \in more : m.path # v.path} \cup more

-----------------------------------------------------------------------------
(* The files *)

FirstUnaddressableKey(file) == "case" \in file.faults

FirstSecretLikeKey(file) ==
    \E k \in file.keys : IsSecretLikeKey(k.path) /\ HasNonEmptyValue(k.value)

\* Mutation: a file is only read and parsed.
ScanReadable(file) ==
    First(<< <<"io" \in file.faults, "ReadFile">>, <<"toml" \in file.faults, "ParseFile">> >>)

ScanFile(file) ==
    First(<< <<"io" \in file.faults, "ReadFile">>,
             <<"toml" \in file.faults, "ParseFile">>,
             <<FirstUnaddressableKey(file), "UnaddressableKey">>,
             <<FirstSecretLikeKey(file), "SecretInFile">> >>)

\* The merge reads every file again; a later file overrides an earlier one, a variable all.
MergeFiles(files) ==
    {[path |-> k.path, value |-> k.value, from |-> "file"] :
       k \in UNION {{k \in files[i].keys :
                       \A j \in (i + 1) .. Len(files) : \A l \in files[j].keys : l.path # k.path} :
                    i \in 1 .. Len(files)}}

Merge(files, variables) ==
    IF \E i \in 1 .. Len(files) : files[i].faults \cap {"io", "toml"} # {}
    THEN [verdict |-> "Merge", merged |-> {}]
    ELSE [verdict |-> "ok", merged |-> Extended(MergeFiles(files), variables)]

-----------------------------------------------------------------------------
(* Decoding and what a refusal may say *)

VALUE_FREE_SECTIONS == {<<"integrations">>}

\* What a decode failure's message may be trusted for.
RejectionOf(error) ==
    CASE error.form \in {"value_free", "keys_only", "not_found"} -> "AsWritten"
      [] error.form \in {"type", "quotes_expected"} -> "Expected"
      [] OTHER -> "Unexplained"

\* Mutation: only a failure that names its key is put down to a variable.
FromNamedVariable(error, variables) ==
    error.key # <<>> /\ \E v \in variables : IsAtOrUnder(v.path, error.key)

\* A failure at no key may be about a variable.
FromVariable(error, variables) ==
    error.key = <<>> \/ \E v \in variables : IsAtOrUnder(v.path, error.key)

DescribeRejection(error, variables) ==
    LET hidden == \/ FromVariable(error, variables)
                  \/ error.key # <<>> /\ \E s \in VALUE_FREE_SECTIONS : IsAtOrUnder(error.key, s)
    IN IF RejectionOf(error) # "AsWritten" /\ hidden THEN {} ELSE error.quotes

\* The sections each of the three loads decodes.
SectionsOf(kind) ==
    CASE kind = "service" -> {"app", "http", "grpc", "postgres", "integrations"}
      [] kind = "migration" -> {"app", "postgres"}
      [] OTHER -> {"postgres"}

Known == {<<"app", "env">>, <<"http", "request_timeout">>, <<"postgres", "dsn">>,
          <<"postgres", "enabled">>, <<"integrations", "p", "oauth", "algorithm">>}

Decodes(setting) ==
    CASE setting.path = <<"http", "request_timeout">> -> setting.value.text \in {"8s", "30s"}
      [] setting.path = <<"postgres", "enabled">> -> setting.value.text \in {"true", "false"}
      [] setting.path = <<"integrations", "p", "oauth", "algorithm">> -> setting.value.text = "RS256"
      [] OTHER -> TRUE

\* External: how the decoder reports a value it refuses, and a field it does not know.
DecodeErrors(kind, merged) ==
    LET read == {s \in merged : s.path[1] \in SectionsOf(kind)}
        unknown == {s \in read : s.path \notin Known}
        refused == {s \in read \ unknown : ~Decodes(s)}
        At(s) == {SubSeq(s.path, 1, n) : n \in 0 .. Len(s.path)}
    IN UNION ({{[key |-> key, form |-> form, quotes |-> {s}] :
                  key \in At(s), form \in {"type", "quotes_expected", "other"}} : s \in refused}
              \cup {{[key |-> key, form |-> "value_free", quotes |-> {}] : key \in At(s)} : s \in refused}
              \cup {{[key |-> <<>>, form |-> "keys_only", quotes |-> {}]} : s \in unknown})

TextAt(merged, path, default) ==
    IF \E s \in merged : s.path = path
    THEN (CHOOSE s \in merged : s.path = path).value.text ELSE default

Snapshot(merged) ==
    LET timeout == TextAt(merged, <<"http", "request_timeout">>, "8s")
        app == [AppDefault EXCEPT !.env = TextAt(merged, <<"app", "env">>, AppDefault.env)]
    IN [ConfigDefault EXCEPT
          !.app = ApplyBuildInfo(app, [version |-> "v", commit |-> "c"]),
          !.http.request_timeout = IF timeout = "30s" THEN 30 * CfgSecond ELSE 8 * CfgSecond,
          !.postgres.enabled = TextAt(merged, <<"postgres", "enabled">>, "false") = "true",
          !.postgres.dsn = BlankAsNone(TextAt(merged, <<"postgres", "dsn">>, "blank")),
          !.integrations =
            IF \E s \in merged : s.path[1] = "integrations"
            THEN << [oauth |-> {[url_faults |-> {"unparsable"}, client_id |-> "blank",
                                 private_key |-> "blank", key_id |-> "blank",
                                 assertion_audience |-> "blank", audience |-> {}, scopes |-> {},
                                 exchange_cache_capacity |-> 1024, provider_concurrency |-> 32]},
                     grpc |-> {}] >>
            ELSE <<>>]

Validated(kind, snapshot) ==
    CASE kind = "service" -> ValidateConfig(snapshot)
      [] kind = "migration" -> ValidateMigrationConfig(snapshot)
      [] OTHER -> ValidateJobsOperator(snapshot)

-----------------------------------------------------------------------------
(* The load, step by step *)

LoadInit ==
    /\ source \in [env : LoadVariables, secrets : LoadSecrets, files : LoadFiles, replaced : {0}]
    /\ \E kind \in {"service", "migration", "operator"} :
         load = [stage |-> "secrets", kind |-> kind, todo |-> source.secrets, held |-> {},
                 variables |-> {}, scanned |-> 0, merged |-> {}, out |-> "none", shown |-> {},
                 raced |-> FALSE]

Refuse(verdict, shown) ==
    [load EXCEPT !.stage = "ended", !.out = verdict, !.shown = shown]

\* One entry of the carrier at hand, in the order its listing gives.
ReadEntry(Reads(_, _), stage) ==
    /\ load.stage = stage
    /\ \E entry \in load.todo :
         LET read == Reads(load.held, entry)
         IN load' = IF read.verdict = "ok"
                    THEN [load EXCEPT !.todo = @ \ {entry}, !.held = read.held]
                    ELSE Refuse(read.verdict, {})
    /\ UNCHANGED source

ReadSecretsDir == ReadEntry(ReadSecret, "secrets")

ReadEnvironment == ReadEntry(ReadVariable, "environment")

\* The directory's variables, then the environment's over them.
CollectNamespace ==
    /\ load.todo = {}
    /\ \/ /\ load.stage = "secrets"
          /\ load' = [load EXCEPT !.stage = "environment", !.todo = source.env,
                                  !.variables = load.held, !.held = {}]
       \/ /\ load.stage = "environment"
          /\ load' = [load EXCEPT !.stage = "files", !.held = {},
                                  !.variables = Extended(@, load.held)]
    /\ UNCHANGED source

ScanNext ==
    /\ load.stage = "files" /\ load.scanned < Len(source.files)
    /\ LET verdict == ScanFile(source.files[load.scanned + 1])
       IN load' = IF verdict = "ok" THEN [load EXCEPT !.scanned = @ + 1] ELSE Refuse(verdict, {})
    /\ UNCHANGED source

BuildMerged ==
    /\ load.stage = "files" /\ load.scanned = Len(source.files)
    /\ LET built == Merge(source.files, load.variables)
       IN load' = IF built.verdict = "ok"
                  THEN [load EXCEPT !.stage = "decode", !.merged = built.merged]
                  ELSE Refuse(built.verdict, {})
    /\ UNCHANGED source

DecodeMerged ==
    /\ load.stage = "decode"
    /\ LET errors == DecodeErrors(load.kind, load.merged)
           verdict == Validated(load.kind, Snapshot(load.merged))
       IN IF errors # {}
          THEN \E e \in errors :
                 load' = Refuse("Deserialize", DescribeRejection(e, load.variables))
          ELSE load' = IF verdict = "ok" THEN [load EXCEPT !.stage = "ended", !.out = "ok"]
                       ELSE Refuse(verdict, {})
    /\ UNCHANGED source

\* Someone replaces a file while the load is under way.
ReplaceFile ==
    /\ load.stage # "ended" /\ source.replaced < MaxReplaced
    /\ \E files \in LoadFiles, i \in 1 .. Len(source.files) :
         /\ i <= Len(files) /\ files[i] # source.files[i]
         /\ source' = [source EXCEPT !.files[i] = files[i], !.replaced = @ + 1]
         /\ load' = [load EXCEPT !.raced = @ \/ i <= load.scanned]

LoadNext ==
    \/ ReadSecretsDir \/ ReadEnvironment \/ CollectNamespace
    \/ ScanNext \/ BuildMerged \/ DecodeMerged \/ ReplaceFile

-----------------------------------------------------------------------------
LoadTypeOK ==
    /\ load.stage \in {"secrets", "environment", "files", "decode", "ended"}
    /\ load.scanned \in 0 .. Len(source.files)
    /\ load.stage = "ended" <=> load.out # "none"

\* What each carrier of the load gives for a path, for reference.
GivenBy(entries, path) == {e \in entries : e.path = path /\ "foreign" \notin e.faults}

\* The snapshot of an accepted load (config/src/load.rs: load_from): no carrier spelled a key
\* twice, each value is the one of its strongest carrier, no file gave a credential unless it
\* was replaced after its scan, and the budgets of the service nest.
SnapshotAdmitted ==
    /\ LoadTypeOK
    /\ load.out = "ok" =>
         /\ \A s \in load.merged :
              LET env == GivenBy(source.env, s.path)
                  dir == GivenBy(source.secrets, s.path)
              IN /\ Cardinality(env) <= 1 /\ Cardinality(dir) <= 1
                 /\ s.from = IF env # {} THEN "environment" ELSE IF dir # {} THEN "secrets" ELSE "file"
                 /\ \A e \in IF env # {} THEN env ELSE dir : s.value.text = e.value.text
                 /\ s.from = "secrets" => ~s.value.breaks
                 /\ s.from = "file" /\ IsSecretLikeKey(s.path) /\ ~load.raced
                      => ~HasNonEmptyValue(s.value)
         /\ LET c == Snapshot(load.merged)
            IN /\ c.postgres.enabled => c.postgres.dsn # {}
               /\ load.kind = "service" =>
                    c.http.request_timeout + c.http.readiness_propagation_delay <= c.http.grace_period

\* No refusal shows a value a variable supplied, nor one of a section whose values stay out of
\* every message (config/src/load.rs: describe_rejection).
ValuesHidden ==
    \A s \in load.shown : s.from = "file" /\ s.path[1] # "integrations"

\* What a load accepts and what a refusal shows (config/src/load.rs): the snapshot is the one its
\* carriers spell without contradiction, and no message repeats a supplied value.
LoadSound == SnapshotAdmitted /\ ValuesHidden
=============================================================================
