------------------------------- MODULE ConfigLoad -------------------------------
(***************************************************************************)
(* How a process of TaskForge comes to its configuration (internal/config  *)
(* and the first lines of every main): the environment it was given, the   *)
(* lines of its .env file, defaults for what neither sets, validation, and *)
(* for a worker two validations more.  A process that refuses exits.       *)
(*                                                                         *)
(* A variable's raw value is blank, junk (it does not parse), or parsed.   *)
(***************************************************************************)
EXTENDS ConfigRules, TLC

CONSTANTS
    Groups,     \* the sets of variables that are set together
    Values,     \* the raw values tried, by variable
    MaxSet,     \* by group, bound on the variables of the environment and lines of the file
    MaxLines    \* bound on the lines of the file

VARIABLES
    group,     \* the variables of this deployment
    env,       \* the process environment: variable -> raw value
    lines,     \* the lines of .env
    given,     \* the environment before .env was read
    phase,     \* "deploy", "dotenv", "load", "worker", "timings", "run", "exit"
    pos,       \* lines read
    cfg,       \* the configuration loaded
    problems   \* what the validation that refused it names

vars == <<group, env, lines, given, phase, pos, cfg, problems>>

Defaults ==
    [API_ADDR |-> Address(LoopbackV4, Port("8080", 8080)), API_PUBLIC_ADDR |-> NoAddress,
     API_CONTROL_ADDR |-> NoAddress, API_CONTROL_HOSTS |-> <<>>,
     OUTBOX_ADDR |-> Address(LoopbackV4, Port("8081", 8081)), WORKER_ADDR |-> Address(LoopbackV4, Port("8082", 8082)),
     RECONCILER_ADDR |-> Address(LoopbackV4, Port("8083", 8083)),
     SCHEDULER_ADDR |-> Address(LoopbackV4, Port("8084", 8084)),
     MAX_REQUEST_BYTES |-> 256 * 1024, RESULT_INLINE_THRESHOLD_BYTES |-> 64 * 1024,
     API_REQUEST_TIMEOUT |-> 25 * Second, LEASE_DURATION |-> 30 * Second,
     HEARTBEAT_INTERVAL |-> 5 * Second, SESSION_STALE_AFTER |-> 15 * Second,
     LEASE_RENEW_INTERVAL |-> 10 * Second,
     RECONCILER_POLL_INTERVAL |-> 2 * Second, RECONCILER_BATCH_SIZE |-> 50,
     SCHEDULER_POLL_INTERVAL |-> 2 * Second, SCHEDULER_BATCH_SIZE |-> 50,
     SCHEDULER_RENOTIFY_AFTER |-> 60 * Second,
     JOB_RETRY_BASE |-> Second, JOB_RETRY_MAX |-> 5 * Minute,
     JOB_RETRY_MULTIPLIER |-> Finite(20), JOB_RETRY_JITTER |-> Finite(2),
     OUTBOX_BATCH_SIZE |-> 50, OUTBOX_POLL_INTERVAL |-> Second,
     OUTBOX_CLAIM_TIMEOUT |-> 30 * Second, OUTBOX_BACKOFF_BASE |-> Second,
     OUTBOX_BACKOFF_MAX |-> 5 * Minute, OUTBOX_BACKOFF_MULTIPLIER |-> Finite(20),
     OUTBOX_BACKOFF_JITTER |-> Finite(2),
     BROKER_ENDPOINT |-> "local", BROKER_ACCESS_KEY_ID |-> "local",
     BROKER_SECRET_ACCESS_KEY |-> "local", BROKER_REGION |-> "us-east-1",
     RESULTS_ENDPOINT |-> "local", RESULTS_ACCESS_KEY_ID |-> "local",
     RESULTS_SECRET_ACCESS_KEY |-> "local", RESULTS_REGION |-> "us-east-1",
     OTEL_EXPORTER |-> "none", OTEL_ENDPOINT |-> ""]

DefaultsWorker ==
    [WORKER_API_URL |-> "loopback", WORKER_API_KEY |-> "", WORKER_ALLOW_REMOTE_API |-> "",
     WORKER_ADDR |-> Address(LoopbackV4, Port("8082", 8082)), WORKER_NAME |-> "valid",
     WORKER_HOSTNAME |-> "valid", WORKER_GROUP |-> "valid", WORKER_QUEUE |-> "valid",
     WORKER_CAPABILITIES |-> "valid", WORKER_CONCURRENCY |-> 4,
     WORKER_POLL_WAIT |-> 10 * Second, WORKER_REQUEST_TIMEOUT |-> 10 * Second,
     WORKER_SHUTDOWN_TIMEOUT |-> 15 * Second]

Floats == {"JOB_RETRY_MULTIPLIER", "JOB_RETRY_JITTER", "OUTBOX_BACKOFF_MULTIPLIER",
           "OUTBOX_BACKOFF_JITTER"}

------------------------------------------------------------------------------
(* Reading one variable.                                                    *)

(* A variable set to nothing counts as unset. *)
envOf(e, v) == IF v \in DOMAIN e THEN e[v] ELSE Blank

(* envInt, envInt64, envDuration: what does not parse is the default. *)
envDuration(raw, def) == IF raw[1] = "ok" THEN raw[2] ELSE def

envFloat(raw, def) ==
    CASE raw = Blank -> def [] raw = Junk -> NaN [] OTHER -> raw[2]

Read(e, v, def) ==
    IF v \in Floats THEN envFloat(envOf(e, v), def) ELSE envDuration(envOf(e, v), def)

(* Presence is looked up: present and blank is present.                     *)
loadAWSDefaultChain(e) ==
    LET on == envOf(e, "AWS_DEFAULT_CHAIN") = Ok(TRUE)
    IN  [AWS_DEFAULT_CHAIN |-> on,
         awsChainInvalid |-> envOf(e, "AWS_DEFAULT_CHAIN") = Junk,
         awsPresent |-> {v \in awsStaticVariables : on /\ v \in DOMAIN e},
         awsRegionMissing |-> {v \in awsRegionVariables : on /\ envOf(e, v) = Blank}]
        @@ [v \in IF on THEN awsStaticVariables ELSE {} |-> ""]

LoadOf(e) == loadAWSDefaultChain(e) @@ [v \in DOMAIN Defaults |-> Read(e, v, Defaults[v])]

LoadWorkerOf(e) == [v \in DOMAIN DefaultsWorker |-> Read(e, v, DefaultsWorker[v])]

------------------------------------------------------------------------------
(* The deployment: an environment, then a file.                             *)

Export(v, raw) ==
    /\ phase = "deploy" /\ lines = <<>>
    /\ v \notin DOMAIN env
    /\ Cardinality(DOMAIN env) < MaxSet[group]
    /\ env' = (v :> raw) @@ env
    /\ UNCHANGED <<group, lines, given, phase, pos, cfg, problems>>

WriteLine(v, raw) ==
    /\ phase = "deploy"
    /\ Cardinality(DOMAIN env) + Len(lines) < MaxSet[group]
    /\ Len(lines) < MaxLines
    /\ lines' = Append(lines, <<v, raw>>)
    /\ UNCHANGED <<group, env, given, phase, pos, cfg, problems>>

Exec ==
    /\ phase = "deploy"
    /\ given' = env
    /\ phase' = "dotenv"
    /\ UNCHANGED <<group, env, lines, pos, cfg, problems>>

(* A line sets a variable that is not there, blank ones included. *)
LoadDotEnv ==
    /\ phase = "dotenv"
    /\ IF pos = Len(lines) THEN phase' = "load" /\ UNCHANGED <<env, pos>>
       ELSE /\ pos' = pos + 1
            /\ env' = env @@ (lines[pos'][1] :> lines[pos'][2])
            /\ UNCHANGED phase
    /\ UNCHANGED <<group, lines, given, cfg, problems>>

Validated(named, next) ==
    /\ problems' = named
    /\ phase' = IF named = {} THEN next ELSE "exit"
    /\ UNCHANGED <<group, env, lines, given, pos>>

(* The other processes stop here. *)
Load ==
    /\ phase = "load"
    /\ cfg' = LoadOf(env)
    /\ \E next \in {"run", "worker"} : Validated(Validate(cfg'), next)

LoadWorker ==
    /\ phase = "worker"
    /\ cfg' = LoadWorkerOf(env) @@ cfg
    /\ Validated(ValidateWorker(cfg'), "timings")

CheckTimings ==
    /\ phase = "timings"
    /\ UNCHANGED cfg
    /\ Validated(ValidateWorkerTimings(cfg, cfg), "run")

Init ==
    /\ group \in Groups
    /\ env = <<>> /\ lines = <<>> /\ given = <<>>
    /\ phase = "deploy"
    /\ pos = 0
    /\ cfg = <<>>
    /\ problems = {}

Next ==
    \/ \E v \in group : \E raw \in Values[v] : Export(v, raw) \/ WriteLine(v, raw)
    \/ Exec \/ LoadDotEnv \/ Load \/ LoadWorker \/ CheckTimings

Spec == Init /\ [][Next]_vars

------------------------------------------------------------------------------
Mentions(v) == {i \in DOMAIN lines : lines[i][1] = v}

Without(e, names) == [v \in DOMAIN e \ names |-> e[v]]

RECURSIVE Settings(_)
Settings(names) ==
    IF names = {} THEN {<<>>}
    ELSE LET v == CHOOSE n \in names : TRUE
         IN  UNION {{s} \cup {(v :> raw) @@ s : raw \in Values[v]} :
                        s \in Settings(names \ {v})}

(* "It returns every problem it finds rather than only the first, so a      *)
(* misconfigured deployment can be fixed in one pass": a change of the      *)
(* variables that Load's refusal names, and of no other, is enough.  Stated *)
(* where there is no .env: only the environment it leaves matters.          *)
RefusalIsComplete ==
    phase = "exit" /\ lines = <<>> /\ Validate(LoadOf(env)) # {} =>
        \E fix \in Settings(problems \cap group) :
            Validate(LoadOf(fix @@ Without(env, problems))) = {}

(* A variable has the value it was given, blank or not, and failing that    *)
(* the value of the first line that names it (LoadDotEnv).                  *)
FirstMentionWins ==
    phase \notin {"deploy", "dotenv"} =>
        \A v \in group :
            IF v \in DOMAIN given THEN env[v] = given[v]
            ELSE IF Mentions(v) = {} THEN v \notin DOMAIN env
            ELSE env[v] = lines[CHOOSE i \in Mentions(v) : \A j \in Mentions(v) : i <= j][2]

(* No factor an operator set is replaced by its default: the process runs   *)
(* on it, or refuses to run (envFloat).                                     *)
FloatNeverReplaced ==
    phase = "run" =>
        \A v \in Floats \cap DOMAIN env : env[v] # Blank => env[v] = Ok(cfg[v])

(* A client of the broker or of the object store is configured in one way:  *)
(* all its settings local and static, or none of them even present and the  *)
(* region chosen by the operator (loadAWSDefaultChain).                     *)
AwsNeverMixes ==
    phase = "run" =>
        IF cfg.AWS_DEFAULT_CHAIN
        THEN /\ awsStaticVariables \cap DOMAIN env = {}
             /\ \A v \in awsRegionVariables : v \in DOMAIN env /\ env[v] = Ok(cfg[v])
             /\ \A v \in awsStaticVariables : cfg[v] = ""
        ELSE \A v \in awsStaticVariables : cfg[v] # ""

(* The addresses a listener's socket takes: all of them for a wildcard.     *)
Interfaces == {"127.0.0.1", "::1", "10.0.0.5", "2001:db8::5"}

Sockets(a) ==
    IF ~a.given \/ a.port.number = 0 THEN {}
    ELSE {<<i, a.port.number>> : i \in IF isWildcardHost(a.host) THEN Interfaces ELSE {a.host.ip}}

(* The listeners of an accepted configuration, where their hosts are        *)
(* addresses, can all be opened: no two take one socket (addressesOverlap). *)
ListenersDoNotContend ==
    phase = "run" =>
        \A i, j \in 1..3 : i < j =>
            LET a == cfg[Listeners[i]]
                b == cfg[Listeners[j]]
            IN  (a.host.name = "" /\ b.host.name = "") => Sockets(a) \cap Sockets(b) = {}

(* A process runs on what its operator set, in a combination that works, or *)
(* says everything that has to be changed (LoadDotEnv, Load,                *)
(* Config.Validate).                                                        *)
RunsOnWhatWasSet ==
    /\ FirstMentionWins
    /\ FloatNeverReplaced
    /\ AwsNeverMixes
    /\ ListenersDoNotContend
    /\ RefusalIsComplete
==============================================================================
