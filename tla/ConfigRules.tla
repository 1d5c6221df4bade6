------------------------------ MODULE ConfigRules -------------------------------
(***************************************************************************)
(* The configuration TaskForge's processes accept (internal/config).       *)
(*                                                                         *)
(* A configuration is a function from settings to values.  A validation    *)
(* yields the settings its messages name; a configuration is accepted when *)
(* it names none.  A duration is a number of half milliseconds, so that    *)
(* one which is not a whole number of milliseconds can be told apart, and  *)
(* as in Go its arithmetic wraps, at MaxDuration.                          *)
(***************************************************************************)
EXTENDS Integers, Sequences, FiniteSets

CONSTANT MaxDuration   \* the greatest duration there is

DurationAssumption == MaxDuration \in Nat \ {0}

Millisecond == 2
Second == 2000
Minute == 60 * Second
Hour == 60 * Minute

Wrap(d) == ((d + MaxDuration + 1) % (2 * (MaxDuration + 1))) - (MaxDuration + 1)
Thrice(d) == Wrap(3 * d)

(* The text of a variable, by what is made of it.                           *)
Blank == <<"blank">>
Junk == <<"junk">>
Ok(v) == <<"ok", v>>

(* A number that may be none: strconv.ParseFloat accepts NaN and Inf.       *)
Finite(tenths) == <<"finite", tenths>>
NaN == <<"nan">>
Inf == <<"inf">>

(* A host as net.ParseIP and strings.ToLower see it: the address it is, in  *)
(* canonical form, or "", and the name it is otherwise.  A port is its text *)
(* and the number strconv.Atoi makes of it.                                 *)
Host(text, ip, name) == [text |-> text, ip |-> ip, name |-> name]
Address(host, port) == [given |-> TRUE, split |-> TRUE, host |-> host, port |-> port]
Port(text, number) == [text |-> text, number |-> number]
NotAPort == Port("http", -1)
NoAddress == [given |-> FALSE, split |-> FALSE, host |-> Host("", "", ""), port |-> NotAPort]
LoopbackV4 == Host("127.0.0.1", "127.0.0.1", "")

IsLoopbackHost(h) == h.name = "localhost" \/ h.ip \in {"127.0.0.1", "::1"}

isLoopbackBind(a) == a.split /\ IsLoopbackHost(a.host)

isBindAddress(a) == a.split /\ a.port.number \in 0..65535

isWildcardHost(h) == h.text = "" \/ h.ip \in {"0.0.0.0", "::"}

canonicalHost(h) == IF h.ip # "" THEN h.ip ELSE h.name

addressesOverlap(a, b) ==
    /\ a.given /\ b.given /\ a.split /\ b.split
    /\ a.port.text = b.port.text /\ a.port.text # "0"
    /\ \/ isWildcardHost(a.host) \/ isWildcardHost(b.host)
       \/ canonicalHost(a.host) = canonicalHost(b.host)

------------------------------------------------------------------------------
(* Config.Validate                                                          *)

Problem(bad, names) == IF bad THEN names ELSE {}

Listeners == <<"API_ADDR", "API_PUBLIC_ADDR", "API_CONTROL_ADDR">>
BrokerStatic == {"BROKER_ENDPOINT", "BROKER_ACCESS_KEY_ID", "BROKER_SECRET_ACCESS_KEY"}
ResultsStatic == {"RESULTS_ENDPOINT", "RESULTS_ACCESS_KEY_ID", "RESULTS_SECRET_ACCESS_KEY"}
awsStaticVariables == BrokerStatic \cup ResultsStatic
awsRegionVariables == {"BROKER_REGION", "RESULTS_REGION"}

(* The host allowlist goes with the control listener, and with no other.    *)
listenerProblems(c) ==
    LET control == c.API_CONTROL_ADDR
        hosts == c.API_CONTROL_HOSTS
    IN  Problem(c.API_PUBLIC_ADDR.given /\ ~isBindAddress(c.API_PUBLIC_ADDR),
                {"API_PUBLIC_ADDR"})
        \cup Problem(control.given /\ ~isBindAddress(control), {"API_CONTROL_ADDR"})
        \cup Problem(control.given # (hosts # <<>>), {"API_CONTROL_ADDR", "API_CONTROL_HOSTS"})
        \cup Problem(\E i \in DOMAIN hosts : hosts[i] = "not a host", {"API_CONTROL_HOSTS"})
        \cup UNION {Problem(addressesOverlap(c[Listeners[p[1]]], c[Listeners[p[2]]]),
                            {Listeners[p[1]], Listeners[p[2]]}) :
                        p \in {q \in (1..3) \X (1..3) : q[1] < q[2]}}

awsProblems(c) ==
    Problem(c.awsChainInvalid, {"AWS_DEFAULT_CHAIN"})
    \cup (IF c.AWS_DEFAULT_CHAIN THEN c.awsPresent \cup c.awsRegionMissing ELSE {})
    \cup {v \in awsStaticVariables : c.AWS_DEFAULT_CHAIN /\ c[v] # ""}

(* The required texts have defaults, so that Load never leaves one empty.   *)
addressProblems(c) ==
    Problem(~isLoopbackBind(c.API_ADDR), {"API_ADDR"})
    \cup listenerProblems(c)
    \cup awsProblems(c)
    \cup {v \in {"OUTBOX_ADDR", "RECONCILER_ADDR", "SCHEDULER_ADDR"} : ~isLoopbackBind(c[v])}

exporterProblems(c) ==
    Problem(c.OTEL_EXPORTER \notin {"none", "stdout", "otlp"}, {"OTEL_EXPORTER"})
    \cup Problem(c.OTEL_EXPORTER = "otlp" /\ c.OTEL_ENDPOINT = "",
                 {"OTEL_EXPORTER", "OTEL_ENDPOINT"})

sizeProblems(c) ==
    LET inline == c.RESULT_INLINE_THRESHOLD_BYTES
    IN  Problem(c.MAX_REQUEST_BYTES < 1024, {"MAX_REQUEST_BYTES"})
        \cup Problem(inline < 1, {"RESULT_INLINE_THRESHOLD_BYTES"})
        \cup Problem(inline >= 1 /\ inline >= c.MAX_REQUEST_BYTES,
                     {"RESULT_INLINE_THRESHOLD_BYTES", "MAX_REQUEST_BYTES"})

(* Seeded fault: one interval in a window is enough. *)
RareTimings(c) ==
    Problem(c.HEARTBEAT_INTERVAL <= 0, {"HEARTBEAT_INTERVAL"})
    \cup Problem(c.SESSION_STALE_AFTER < c.HEARTBEAT_INTERVAL,
                 {"SESSION_STALE_AFTER", "HEARTBEAT_INTERVAL"})
    \cup Problem(c.LEASE_RENEW_INTERVAL <= 0, {"LEASE_RENEW_INTERVAL"})
    \cup Problem(c.LEASE_RENEW_INTERVAL > c.LEASE_DURATION,
                 {"LEASE_RENEW_INTERVAL", "LEASE_DURATION"})

livenessProblems(c) ==
    Problem(c.HEARTBEAT_INTERVAL <= 0, {"HEARTBEAT_INTERVAL"})
    \cup Problem(c.SESSION_STALE_AFTER < Thrice(c.HEARTBEAT_INTERVAL),
                 {"SESSION_STALE_AFTER", "HEARTBEAT_INTERVAL"})
    \cup Problem(c.LEASE_RENEW_INTERVAL <= 0, {"LEASE_RENEW_INTERVAL"})
    \cup Problem(Thrice(c.LEASE_RENEW_INTERVAL) > c.LEASE_DURATION,
                 {"LEASE_RENEW_INTERVAL", "LEASE_DURATION"})

requestProblems(c) ==
    Problem(c.API_REQUEST_TIMEOUT \notin 100 * Millisecond .. 5 * Minute,
            {"API_REQUEST_TIMEOUT"})
    \cup Problem(c.LEASE_DURATION \notin Second .. 24 * Hour, {"LEASE_DURATION"})

scanProblems(c) ==
    {v \in {"RECONCILER_POLL_INTERVAL", "SCHEDULER_POLL_INTERVAL"} : c[v] <= 0}
    \cup {v \in {"RECONCILER_BATCH_SIZE", "SCHEDULER_BATCH_SIZE"} : c[v] \notin 1..1000}
    \cup Problem(c.SCHEDULER_RENOTIFY_AFTER < Thrice(c.SCHEDULER_POLL_INTERVAL),
                 {"SCHEDULER_RENOTIFY_AFTER", "SCHEDULER_POLL_INTERVAL"})
    \cup Problem(c.SCHEDULER_RENOTIFY_AFTER < c.OUTBOX_CLAIM_TIMEOUT,
                 {"SCHEDULER_RENOTIFY_AFTER", "OUTBOX_CLAIM_TIMEOUT"})

factorProblems(c, multiplier, jitter) ==
    Problem(c[multiplier][1] # "finite" \/ c[multiplier][2] < 10, {multiplier})
    \cup Problem(c[jitter][1] # "finite" \/ c[jitter][2] \notin 0..10, {jitter})

retryProblems(c) ==
    Problem(c.JOB_RETRY_BASE <= 0, {"JOB_RETRY_BASE"})
    \cup Problem(c.JOB_RETRY_MAX < Millisecond \/ c.JOB_RETRY_MAX % Millisecond # 0,
                 {"JOB_RETRY_MAX"})
    \cup Problem(c.JOB_RETRY_MAX < c.JOB_RETRY_BASE, {"JOB_RETRY_MAX", "JOB_RETRY_BASE"})
    \cup factorProblems(c, "JOB_RETRY_MULTIPLIER", "JOB_RETRY_JITTER")

outboxProblems(c) ==
    Problem(c.OUTBOX_BATCH_SIZE \notin 1..1000, {"OUTBOX_BATCH_SIZE"})
    \cup Problem(c.OUTBOX_POLL_INTERVAL <= 0, {"OUTBOX_POLL_INTERVAL"})
    \cup Problem(c.OUTBOX_CLAIM_TIMEOUT < c.OUTBOX_POLL_INTERVAL,
                 {"OUTBOX_CLAIM_TIMEOUT", "OUTBOX_POLL_INTERVAL"})
    \cup Problem(c.OUTBOX_BACKOFF_BASE <= 0, {"OUTBOX_BACKOFF_BASE"})
    \cup Problem(c.OUTBOX_BACKOFF_MAX < c.OUTBOX_BACKOFF_BASE,
                 {"OUTBOX_BACKOFF_MAX", "OUTBOX_BACKOFF_BASE"})
    \cup factorProblems(c, "OUTBOX_BACKOFF_MULTIPLIER", "OUTBOX_BACKOFF_JITTER")

(* Seeded fault: validation returns at the first group of problems. *)
ValidateFirst(c) ==
    IF addressProblems(c) # {} THEN addressProblems(c)
    ELSE IF livenessProblems(c) # {} THEN livenessProblems(c)
    ELSE exporterProblems(c) \cup sizeProblems(c) \cup requestProblems(c)
         \cup scanProblems(c) \cup retryProblems(c) \cup outboxProblems(c)

Validate(c) ==
    addressProblems(c) \cup exporterProblems(c) \cup sizeProblems(c) \cup requestProblems(c)
    \cup livenessProblems(c) \cup scanProblems(c) \cup retryProblems(c) \cup outboxProblems(c)

------------------------------------------------------------------------------
(* The worker's own settings, and both together.                            *)

ValidateWorker(w) ==
    Problem(w.WORKER_API_URL = "not a URL", {"WORKER_API_URL"})
    \cup Problem(w.WORKER_API_URL = "remote" /\ w.WORKER_ALLOW_REMOTE_API # "true",
                 {"WORKER_API_URL"})
    \cup Problem(w.WORKER_ALLOW_REMOTE_API = "junk", {"WORKER_ALLOW_REMOTE_API"})
    \cup Problem(w.WORKER_API_KEY = "", {"WORKER_API_KEY"})
    \cup Problem(~isLoopbackBind(w.WORKER_ADDR), {"WORKER_ADDR"})
    \cup {v \in {"WORKER_NAME", "WORKER_HOSTNAME", "WORKER_GROUP", "WORKER_QUEUE",
                 "WORKER_CAPABILITIES"} : w[v] = "invalid"}
    \cup Problem(w.WORKER_CONCURRENCY \notin 1..256, {"WORKER_CONCURRENCY"})
    \cup Problem(w.WORKER_POLL_WAIT \notin Second .. 20 * Second, {"WORKER_POLL_WAIT"})
    \cup {v \in {"WORKER_REQUEST_TIMEOUT", "WORKER_SHUTDOWN_TIMEOUT"} : w[v] <= 0}

ValidateWorkerTimings(c, w) ==
    Problem(w.WORKER_REQUEST_TIMEOUT > c.SESSION_STALE_AFTER,
            {"WORKER_REQUEST_TIMEOUT", "SESSION_STALE_AFTER"})
    \cup Problem(w.WORKER_REQUEST_TIMEOUT > c.LEASE_RENEW_INTERVAL,
                 {"WORKER_REQUEST_TIMEOUT", "LEASE_RENEW_INTERVAL"})
==============================================================================
