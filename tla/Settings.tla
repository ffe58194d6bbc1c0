------------------------------- MODULE Settings --------------------------------
(***************************************************************************)
(* The two environment schemas, apps/backend/src/config/env.schema.ts and  *)
(* apps/frontend/config/env.schema.ts: what an environment file must hold  *)
(* for an application to start, and the settings it then runs on until it  *)
(* is stopped.  One file may serve the whole stack, and the two schemas    *)
(* read some variables differently.  Settings that nothing else depends on *)
(* (ports, timeouts, those of the sinks, names, levels, URLs) are left out.*)
(*                                                                         *)
(* A raw value is a record: what it is, and the number it spells or the    *)
(* length it has.                                                          *)
(***************************************************************************)
EXTENDS Integers

CONSTANTS
  Figure,  \* the numbers an operator writes for each numeric variable
  MaxEdits \* bound on the edits to a shipped file

VARIABLES
  file,  \* the environment given to the processes
  edits, \* how often it was edited
  env    \* for each application, its settings while it is up

vars == <<file, edits, env>>

Raw(is, n) == [is |-> is, n |-> n]
Absent     == Raw("absent", 0)
Blank      == Raw("blank", 0)
Word       == Raw("word", 0)
Digits(n)  == Raw("digits", n)
Odd(n)     == Raw("odd", n)    \* 1e3, 0x10: a number, not in decimal digits
Text(n)    == Raw("text", n)   \* a secret of n characters
Dev(n)     == Raw("dev", n)    \* the one committed to the repository

Unset   == "unset"
Refused == "refused"
NoNumber == -1
Unbounded == 0   \* no maximum of its own

NodeEnvs == {"development", "test", "staging", "production"}

Deployed(f) == f.NODE_ENV.is \in {"staging", "production"}

--------------------------------------------------------------------------------
(* Parsers *)

Within(n, max) == n \in Nat \ {0} /\ (max = Unbounded \/ n <= max)

\* z.coerce.number().int().positive(): a blank is zero, and refused.
Coerced(raw, default, max) ==
  CASE raw = Absent -> default
    [] raw.is \in {"digits", "odd"} /\ Within(raw.n, max) -> raw.n
    [] OTHER -> NoNumber

\* positiveIntEnvSchema: a blank is no value, and only decimal digits count.
Whole(raw, default, max) ==
  CASE raw \in {Absent, Blank} -> default
    [] raw.is = "digits" /\ Within(raw.n, max) -> raw.n
    [] OTHER -> NoNumber

\* booleanFromEnvString takes 1 and 0 too, booleanFlagSchema the words only.
Flag(raw, default, digits) ==
  CASE raw = Absent -> default
    [] raw.is = "true"  \/ (digits /\ raw = Digits(1)) -> "on"
    [] raw.is = "false" \/ (digits /\ raw = Digits(0)) -> "off"
    [] OTHER -> Refused

\* optionalNonEmptyString
Optional(raw) == IF raw \in {Absent, Blank} THEN Unset ELSE raw.is

\* resolveTrustedProxyHops: what cannot be read as a depth counts as none.
TrustedHops(raw) == IF raw.is = "digits" /\ raw.n <= 16 THEN raw.n ELSE 0

--------------------------------------------------------------------------------
(* The backend *)

Bounds(default, max) == [default |-> default, max |-> max]

BackendNumbers ==
  [AUTH_SESSION_TTL_SECONDS            |-> Bounds(604800, Unbounded),
   AUTH_SESSION_ROTATE_AFTER_SECONDS   |-> Bounds(3600, Unbounded),
   AUTH_SESSION_ROTATION_GRACE_SECONDS |-> Bounds(60, Unbounded),
   AUTH_SESSION_PRUNE_BATCH_SIZE       |-> Bounds(500, 10000),
   AUTH_SESSION_PRUNE_MAX_BATCHES      |-> Bounds(200, 10000),
   AUTH_ARGON2_MEMORY_KIB              |-> Bounds(65536, Unbounded),
   AUTH_ARGON2_TIME_COST               |-> Bounds(3, Unbounded),
   AUTH_ARGON2_PARALLELISM             |-> Bounds(4, Unbounded),
   BACKEND_INSTANCE_COUNT              |-> Bounds(1, 1000)]

BackendFlags ==
  [AUTH_SESSION_PRUNE_ENABLED |-> Unset,
   RATE_LIMITING_ENABLED      |-> "on",
   OTEL_TRACES_ENABLED        |-> "off",
   OTEL_METRICS_ENABLED       |-> Unset]

BackendTexts == {"OTEL_EXPORTER_OTLP_TRACES_ENDPOINT", "OTEL_EXPORTER_OTLP_METRICS_ENDPOINT",
                 "FRONTEND_ORIGIN"}

BackendSecrets == {"BACKEND_API_SECRET", "ADMIN_API_KEY"}

BackendFields(f) ==
  [num  |-> [k \in DOMAIN BackendNumbers |->
               LET b == BackendNumbers[k]
               IN  IF k = "BACKEND_INSTANCE_COUNT" THEN Whole(f[k], b.default, b.max)
                                                   ELSE Coerced(f[k], b.default, b.max)],
   flag |-> [k \in DOMAIN BackendFlags |-> Flag(f[k], BackendFlags[k], TRUE)],
   text |-> [k \in BackendTexts |-> Optional(f[k])]]

\* deriveMetricsEndpointFromTraces: only from the standard path.
DerivedMetrics(traces) == IF traces = "traces" THEN "metrics" ELSE Unset

Mirrored(flag) ==
  IF flag.OTEL_METRICS_ENABLED = Unset THEN flag.OTEL_TRACES_ENABLED
                                       ELSE flag.OTEL_METRICS_ENABLED

\* Mutant: the flag of the metrics is read before it mirrors that of the traces.
EndpointsUnmirrored(e) ==
  /\ e.flag.OTEL_TRACES_ENABLED = "on" => e.text.OTEL_EXPORTER_OTLP_TRACES_ENDPOINT # Unset
  /\ e.flag.OTEL_METRICS_ENABLED = "on" =>
       \/ e.text.OTEL_EXPORTER_OTLP_METRICS_ENDPOINT # Unset
       \/ DerivedMetrics(e.text.OTEL_EXPORTER_OTLP_TRACES_ENDPOINT) # Unset

TelemetryHasEndpoints(e) ==
  /\ e.flag.OTEL_TRACES_ENABLED = "on" => e.text.OTEL_EXPORTER_OTLP_TRACES_ENDPOINT # Unset
  /\ Mirrored(e.flag) = "on" =>
       \/ e.text.OTEL_EXPORTER_OTLP_METRICS_ENDPOINT # Unset
       \/ DerivedMetrics(e.text.OTEL_EXPORTER_OTLP_TRACES_ENDPOINT) # Unset

IntervalsOrdered(e) ==
  /\ e.num.AUTH_SESSION_ROTATE_AFTER_SECONDS < e.num.AUTH_SESSION_TTL_SECONDS
  /\ e.num.AUTH_SESSION_ROTATION_GRACE_SECONDS < e.num.AUTH_SESSION_ROTATE_AFTER_SECONDS

\* Lanes, and in a deployment the strength of every new hash.
HashingStrong(f, e) ==
  /\ 8 * e.num.AUTH_ARGON2_PARALLELISM <= e.num.AUTH_ARGON2_MEMORY_KIB
  /\ Deployed(f) => /\ e.num.AUTH_ARGON2_MEMORY_KIB >= 65536
                    /\ e.num.AUTH_ARGON2_TIME_COST >= 3
                    /\ e.num.AUTH_ARGON2_PARALLELISM >= 4

LimitsCount(f, e) ==
  Deployed(f) => e.num.BACKEND_INSTANCE_COUNT <= 1 /\ e.flag.RATE_LIMITING_ENABLED # "off"

\* An origin is compared exactly: one with a slash would match nothing.
OriginExplicit(f, e) ==
  /\ Deployed(f) => e.text.FRONTEND_ORIGIN # Unset
  /\ e.text.FRONTEND_ORIGIN \in {Unset, "origin"}

SecretsReal(f) ==
  \A k \in BackendSecrets : f[k].n >= 1 /\ (Deployed(f) => f[k].is # "dev" /\ f[k].n >= 32)

\* envSchema: the fields, then the refinements on what they parsed to.
BackendAccepts(f) ==
  LET e == BackendFields(f)
  IN  /\ f.NODE_ENV.is \in NodeEnvs
      /\ \A k \in DOMAIN e.num : e.num[k] # NoNumber
      /\ \A k \in DOMAIN e.flag : e.flag[k] # Refused
      /\ HashingStrong(f, e) /\ IntervalsOrdered(e) /\ LimitsCount(f, e)
      /\ TelemetryHasEndpoints(e) /\ OriginExplicit(f, e) /\ SecretsReal(f)

\* The transform resolves what depends on other fields.
BackendEnv(f) ==
  LET e == BackendFields(f)
      traces == e.text.OTEL_EXPORTER_OTLP_TRACES_ENDPOINT
  IN  [num  |-> e.num,
       flag |-> [e.flag EXCEPT
                   !.OTEL_METRICS_ENABLED = Mirrored(e.flag),
                   !.AUTH_SESSION_PRUNE_ENABLED =
                      IF @ # Unset THEN @ ELSE IF f.NODE_ENV.is # "test" THEN "on" ELSE "off"],
       text |-> [e.text EXCEPT
                   !.FRONTEND_ORIGIN = IF @ = Unset THEN "localhost" ELSE @,
                   !.OTEL_EXPORTER_OTLP_METRICS_ENDPOINT =
                      IF @ = Unset THEN DerivedMetrics(traces) ELSE @]]

\* isRateLimitingDisabled in app-throttler.guard.ts asks the environment itself.
LimitingDisabled(f) == ~Deployed(f) /\ f.RATE_LIMITING_ENABLED.is = "false"

--------------------------------------------------------------------------------
(* The frontend *)

FrontendNumbers ==
  [AUTH_IDLE_TIMEOUT_SECONDS                 |-> Bounds(28800, 2592000),
   AUTH_ROTATION_RETRY_SECONDS               |-> Bounds(60, 3600),
   FRONTEND_INSTANCE_COUNT                   |-> Bounds(1, 1000),
   CLIENT_LOG_RATE_LIMIT_PER_MINUTE          |-> Bounds(300, 600),
   CLIENT_LOG_RATE_LIMIT_SHARED_PER_MINUTE   |-> Bounds(6000, 60000),
   CLIENT_LOG_RECORD_LIMIT_PER_MINUTE        |-> Bounds(12000, 60000),
   CLIENT_LOG_RECORD_LIMIT_SHARED_PER_MINUTE |-> Bounds(240000, 1200000)]

FrontendSecrets == {"BACKEND_API_SECRET", "SESSION_SECRET", "BINDING_SECRET"}

\* clientLogAllowedOriginSchema normalises a trailing slash and refuses more.
AllowedOrigin(raw) ==
  CASE raw \in {Absent, Blank} -> Unset
    [] raw.is \in {"origin", "slash"} -> "origin"
    [] OTHER -> Refused

FrontendEnv(f) ==
  [num    |-> [k \in DOMAIN FrontendNumbers |->
                 Whole(f[k], FrontendNumbers[k].default, FrontendNumbers[k].max)],
   ingest |-> Flag(f.CLIENT_LOG_INGEST_ENABLED, "off", FALSE),
   origin |-> AllowedOrigin(f.CLIENT_LOG_ALLOWED_ORIGIN),
   hops   |-> TrustedHops(f.TRUST_PROXY)]

SharedAboveOwn(e) ==
  /\ e.num.CLIENT_LOG_RATE_LIMIT_PER_MINUTE <= e.num.CLIENT_LOG_RATE_LIMIT_SHARED_PER_MINUTE
  /\ e.num.CLIENT_LOG_RECORD_LIMIT_PER_MINUTE
       <= e.num.CLIENT_LOG_RECORD_LIMIT_SHARED_PER_MINUTE

FrontendAccepts(f) ==
  LET e == FrontendEnv(f)
  IN  /\ f.NODE_ENV.is \in NodeEnvs
      /\ \A k \in DOMAIN e.num : e.num[k] # NoNumber
      /\ e.ingest # Refused /\ e.origin # Refused
      /\ \A k \in FrontendSecrets : f[k].n >= IF k = "BACKEND_API_SECRET" THEN 1 ELSE 32
      /\ SharedAboveOwn(e)
      /\ Deployed(f) => /\ e.num.FRONTEND_INSTANCE_COUNT <= 1
                        /\ \A k \in FrontendSecrets : f[k].is # "dev"

----------------------------------------------------------------------------
(* Applications start and stop.  A running one does not read its file      *)
(* again, so it is edited while both are down.                             *)

Numbers == DOMAIN BackendNumbers \cup DOMAIN FrontendNumbers
Secrets == BackendSecrets \cup FrontendSecrets
Flags == DOMAIN BackendFlags \cup {"CLIENT_LOG_INGEST_ENABLED"}
Variables == Numbers \cup Secrets \cup Flags \cup BackendTexts
               \cup {"NODE_ENV", "TRUST_PROXY", "CLIENT_LOG_ALLOWED_ORIGIN"}

DevSecret(k) == IF k \in {"SESSION_SECRET", "BINDING_SECRET"} THEN Dev(44) ELSE Dev(22)

Written(k) ==
  CASE k \in Numbers -> {Absent, Blank, Odd(1000)} \cup {Digits(n) : n \in Figure[k]}
    [] k \in Secrets -> {Absent, DevSecret(k), Text(1), Text(31), Text(32)}
    [] k \in Flags -> {Absent, Blank, Digits(0), Digits(1), Raw("true", 0), Raw("false", 0)}
    [] k = "NODE_ENV" -> {Absent} \cup {Raw(e, 0) : e \in NodeEnvs}
    [] k = "TRUST_PROXY" -> {Absent, Word, Digits(1), Digits(16), Digits(17)}
    [] OTHER -> {Absent, Blank, Word, Raw("origin", 0), Raw("slash", 0), Raw("traces", 0)}

\* The files of a fresh clone, of the test suites and of a deployment.
Example ==
  [k \in Variables |-> CASE k = "NODE_ENV" -> Raw("development", 0)
                         [] k \in Secrets -> DevSecret(k)
                         [] OTHER -> Absent]
TestFile ==
  [Example EXCEPT !.NODE_ENV = Raw("test", 0),
                  !.BACKEND_API_SECRET = Text(15), !.ADMIN_API_KEY = Text(18),
                  !.AUTH_ARGON2_MEMORY_KIB = Digits(8),
                  !.AUTH_ARGON2_TIME_COST = Digits(1), !.AUTH_ARGON2_PARALLELISM = Digits(1)]
DeployedFile ==
  [k \in Variables |-> CASE k = "NODE_ENV" -> Raw("production", 0)
                         [] k \in Secrets -> Text(32)
                         [] k = "FRONTEND_ORIGIN" -> Raw("origin", 0)
                         [] OTHER -> Absent]

Down == [up |-> FALSE]

Init ==
  /\ file \in {Example, TestFile, DeployedFile} /\ edits = 0
  /\ env = [backend |-> Down, frontend |-> Down]

Edit ==
  /\ edits < MaxEdits /\ edits' = edits + 1
  /\ ~env.backend.up /\ ~env.frontend.up
  /\ \E k \in Variables : \E raw \in Written(k) : file' = [file EXCEPT ![k] = raw]
  /\ UNCHANGED env

\* main.ts and instrumentation.ts: a file that does not parse ends the process.
BootBackend ==
  /\ ~env.backend.up /\ BackendAccepts(file)
  /\ env' = [env EXCEPT !.backend =
               [up |-> TRUE, mode |-> file.NODE_ENV.is, set |-> BackendEnv(file),
                unlimited |-> LimitingDisabled(file)]]
  /\ UNCHANGED <<file, edits>>
BootFrontend ==
  /\ ~env.frontend.up /\ FrontendAccepts(file)
  /\ env' = [env EXCEPT !.frontend =
               [up |-> TRUE, mode |-> file.NODE_ENV.is, set |-> FrontendEnv(file)]]
  /\ UNCHANGED <<file, edits>>
Stop(app) == /\ env[app].up /\ env' = [env EXCEPT ![app] = Down]
             /\ UNCHANGED <<file, edits>>

Next == Edit \/ BootBackend \/ BootFrontend \/ \E app \in {"backend", "frontend"} : Stop(app)

Spec == Init /\ [][Next]_vars

----------------------------------------------------------------------------
\* What every backend that is up can rely on, and one that is deployed.
BackendFit(up) ==
  LET num == up.set.num  flag == up.set.flag  text == up.set.text
  IN  /\ 0 < num.AUTH_SESSION_ROTATION_GRACE_SECONDS
      /\ num.AUTH_SESSION_ROTATION_GRACE_SECONDS < num.AUTH_SESSION_ROTATE_AFTER_SECONDS
      /\ num.AUTH_SESSION_ROTATE_AFTER_SECONDS < num.AUTH_SESSION_TTL_SECONDS
      /\ num.AUTH_SESSION_PRUNE_BATCH_SIZE * num.AUTH_SESSION_PRUNE_MAX_BATCHES > 0
      /\ num.AUTH_ARGON2_MEMORY_KIB >= 8 * num.AUTH_ARGON2_PARALLELISM
      /\ flag.OTEL_TRACES_ENABLED = "on" => text.OTEL_EXPORTER_OTLP_TRACES_ENDPOINT # Unset
      /\ flag.OTEL_METRICS_ENABLED = "on" => text.OTEL_EXPORTER_OTLP_METRICS_ENDPOINT # Unset
      /\ up.unlimited => flag.RATE_LIMITING_ENABLED = "off"
      /\ up.mode \in {"staging", "production"} =>
           /\ ~up.unlimited /\ text.FRONTEND_ORIGIN = "origin" /\ num.BACKEND_INSTANCE_COUNT = 1
           /\ flag.AUTH_SESSION_PRUNE_ENABLED = "off" => file.AUTH_SESSION_PRUNE_ENABLED # Absent

FrontendFit(up) ==
  LET num == up.set.num
  IN  /\ num.CLIENT_LOG_RATE_LIMIT_PER_MINUTE
           \in 1..num.CLIENT_LOG_RATE_LIMIT_SHARED_PER_MINUTE
      /\ num.CLIENT_LOG_RECORD_LIMIT_PER_MINUTE
           \in 1..num.CLIENT_LOG_RECORD_LIMIT_SHARED_PER_MINUTE
      /\ up.set.hops \in 0..16 /\ up.set.origin \in {Unset, "origin"}
      /\ up.mode \in {"staging", "production"} => num.FRONTEND_INSTANCE_COUNT = 1

\* An application that is up has settings the rest of it can live with, however
\* its file was edited, left blank or written in another notation: intervals in
\* order, telemetry on only with somewhere to send it, allowances that can be
\* reached; deployed, the limits are counted by one process each, rate limits
\* are on for the guard that asks, nothing falls back on a local origin, and
\* where both run from one file they share a secret that is not the published
\* one (the superRefine rules, seen from the settings they leave).
UpMeansFit ==
  /\ env.backend.up => BackendFit(env.backend)
  /\ env.frontend.up => FrontendFit(env.frontend)
  /\ (env.backend.up \/ env.frontend.up) /\ Deployed(file) =>
       file.BACKEND_API_SECRET.is = "text"
=============================================================================
