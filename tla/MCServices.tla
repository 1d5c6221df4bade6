------------------------------ MODULE MCServices -----------------------------
(* The parts that run beside the API, each by itself: the outbox            *)
(* publishers, the scans of scheduler and reconciler, the migrations, the   *)
(* retry policy, and the configuration.  A behaviour is one of a component, *)
(* which the first state chooses.                                           *)
EXTENDS ConfigRules, TLC

CONSTANTS Publishers, Events, Migrators, NULL

VARIABLES
    part,   \* the component of this behaviour; the others hold its variables
    x1, x2, x3, x4, x5, x6, x7, x8, x9, x10, x11

vars == <<part,
          x1, x2, x3, x4, x5, x6, x7, x8, x9, x10, x11>>

(* The variables that a component of k variables does not need. *)
Idle9 == x10 = 0 /\ x11 = 0
Idle8 == x9 = 0 /\ Idle9
Idle5 == x6 = 0 /\ x7 = 0 /\ x8 = 0 /\ Idle8
Still5 == UNCHANGED <<part, x6, x7, x8, x9, x10, x11>>
Still8 == UNCHANGED <<part, x9, x10, x11>>
Still9 == UNCHANGED <<part, x10, x11>>
Still11 == UNCHANGED <<part>>

(* Releases of one history: the first, a later one whose directory order is *)
(* not its version order, one that edited a shipped file, and one with two  *)
(* files of a version.                                                      *)
File(n, s) == [v |-> n, sum |-> s]

Shipped == {
    <<File(1, "a"), File(2, "a")>>,
    <<File(10, "a"), File(1, "a"), File(2, "a")>>,
    <<File(1, "a"), File(2, "b")>>,
    <<File(1, "a"), File(1, "b")>> }

(* Settings on both sides of the bounds they are compared with.             *)
Any4 == Host("0.0.0.0", "0.0.0.0", "")
Local6 == Host("::1", "::1", "")
Local6Long == Host("::0001", "::1", "")
Net4 == Host("10.0.0.5", "10.0.0.5", "")
Named == Host("api", "", "api")

Times(S) == {Ok(d) : d \in S} \cup {Junk}
Addresses ==
    {Ok(Address(h, Port("8080", 8080))) : h \in {Any4, Local6, Local6Long, Net4}}
    \cup {Ok(Address(LoopbackV4, Port("0", 0))), Ok(Address(Local6, Port("9090", 9090))), Ok(Address(Named, NotAPort)), Blank}
Factors == {Ok(Finite(5)), Ok(Finite(20)), Ok(NaN), Ok(Inf), Junk, Blank}
Text == {Ok("local"), Blank}

SettingGroups ==
    {{"API_ADDR", "API_PUBLIC_ADDR", "API_CONTROL_ADDR", "API_CONTROL_HOSTS"},
     {"AWS_DEFAULT_CHAIN", "BROKER_ENDPOINT", "BROKER_REGION", "RESULTS_REGION"},
     {"HEARTBEAT_INTERVAL", "SESSION_STALE_AFTER", "LEASE_RENEW_INTERVAL", "LEASE_DURATION"},
     {"SCHEDULER_POLL_INTERVAL", "SCHEDULER_RENOTIFY_AFTER", "OUTBOX_CLAIM_TIMEOUT",
      "OUTBOX_POLL_INTERVAL"},
     {"JOB_RETRY_BASE", "JOB_RETRY_MAX", "JOB_RETRY_MULTIPLIER", "OUTBOX_BACKOFF_JITTER"},
     {"WORKER_API_URL", "WORKER_ALLOW_REMOTE_API", "WORKER_API_KEY", "WORKER_REQUEST_TIMEOUT"},
     {"MAX_REQUEST_BYTES", "RESULT_INLINE_THRESHOLD_BYTES", "OTEL_EXPORTER", "OTEL_ENDPOINT"}}

SettingValues ==
    [API_ADDR |-> Addresses, API_PUBLIC_ADDR |-> Addresses, API_CONTROL_ADDR |-> Addresses,
     API_CONTROL_HOSTS |-> {Ok(<<"api">>), Ok(<<"api", "not a host">>), Blank},
     AWS_DEFAULT_CHAIN |-> {Ok(TRUE), Ok(FALSE), Junk, Blank},
     BROKER_ENDPOINT |-> Text, BROKER_REGION |-> {Ok("eu-west-1"), Blank},
     RESULTS_REGION |-> {Ok("eu-west-1"), Blank},
     HEARTBEAT_INTERVAL |-> Times({0, 600, 6 * Second}),
     SESSION_STALE_AFTER |-> Times({Second, 15 * Second, 18 * Second}),
     LEASE_RENEW_INTERVAL |-> Times({0, 600, 11 * Second}),
     LEASE_DURATION |-> Times({Second, 33 * Second, 25 * Hour}),
     SCHEDULER_POLL_INTERVAL |-> Times({0, Second, 30 * Second}),
     SCHEDULER_RENOTIFY_AFTER |-> Times({3 * Second, 120 * Second}),
     OUTBOX_CLAIM_TIMEOUT |-> Times({Second, 120 * Second}),
     OUTBOX_POLL_INTERVAL |-> Times({0, Second, 60 * Second}),
     JOB_RETRY_BASE |-> Times({0, 1, Second}),
     JOB_RETRY_MAX |-> Times({1, Millisecond, 3, Minute}),
     JOB_RETRY_MULTIPLIER |-> Factors, OUTBOX_BACKOFF_JITTER |-> Factors,
     WORKER_API_URL |-> {Ok("loopback"), Ok("remote"), Ok("not a URL")},
     WORKER_ALLOW_REMOTE_API |-> {Ok("true"), Ok("false"), Ok("junk"), Blank},
     WORKER_API_KEY |-> {Ok("key"), Blank},
     WORKER_REQUEST_TIMEOUT |-> Times({0, Second, 11 * Second}),
     MAX_REQUEST_BYTES |-> {Ok(512), Ok(2048), Junk},
     RESULT_INLINE_THRESHOLD_BYTES |-> {Ok(0), Ok(1000), Ok(2047), Ok(2048), Blank},
     OTEL_EXPORTER |-> {Ok("otlp"), Ok("stdout"), Ok("zipkin"), Blank},
     OTEL_ENDPOINT |-> {Ok("collector"), Blank}]

SettingsSet == [g \in SettingGroups |-> IF "AWS_DEFAULT_CHAIN" \in g THEN 4 ELSE 3]

------------------------------------------------------------------------------
Publish == INSTANCE Outbox WITH
    BatchSize <- 2, ClaimTimeout <- 2, Base <- 1, Multiplier <- 2,
    MaxDelay <- 2, Jitter <- 50, Saturation <- 2, Overdue <- 1,
    MaxFaults <- 2, outbox <- x1, delivered <- x2, pc <- x3, batch <- x4,
    cur <- x5, full <- x6, failed <- x7, stopping <- x8, age <- x9,
    overran <- x10, faults <- x11
PublishInit == part = "outbox" /\ Publish!Init
PublishNext == part = "outbox" /\ Publish!Next /\ Still11

Scan == INSTANCE ScanPass WITH
    Replicas <- Publishers, RowCount <- 2, BatchSize <- 2, engine <- x1,
    ripe <- x2, repaired <- x3, times <- x4, scan <- x5, cands <- x6,
    stats <- x7, counted <- x8, failures <- x9
ScanInit == part = "scan" /\ Scan!Init /\ Idle9
ScanNext == part = "scan" /\ Scan!Next /\ Still9

Migration == INSTANCE Migrate WITH
    Releases <- Shipped, release <- x1, pc <- x2, pending <- x3, seen <- x4,
    tx <- x5, lock <- x6, table <- x7, applied <- x8, history <- x9
MigrationInit == part = "migrate" /\ Migration!Init /\ Idle9
MigrationNext == part = "migrate" /\ Migration!Next /\ Still9

Backoff == INSTANCE RetryDelay WITH
    MaxInt <- 255, Milli <- 4, Second <- 40, Exact <- 64, Grain <- 8,
    Half <- 2, Durations <- {-1, 0, 1, 3, 4, 5, 12, 48, 252, 255},
    Multipliers <- {0, 1, 2, 9}, MaxAttempts <- 4, policy <- x1, jitter <- x2,
    used <- x3, class <- x4, decision <- x5
BackoffInit == part = "retry" /\ Backoff!Init /\ Idle5
BackoffNext == part = "retry" /\ Backoff!Next /\ Still5

Config == INSTANCE ConfigLoad WITH
    Groups <- SettingGroups, Values <- SettingValues, MaxSet <- SettingsSet,
    MaxLines <- 2, group <- x1, env <- x2, lines <- x3, given <- x4,
    phase <- x5, pos <- x6, cfg <- x7, problems <- x8
ConfigInit == part = "config" /\ Config!Init /\ Idle8
ConfigNext == part = "config" /\ Config!Next /\ Still8

(* The constants are what the components take them to be. *)
ASSUME ServicesAssumption == Publish!OutboxAssumption /\
    Publish!SaturationAssumption /\ Scan!SizesAssumption /\
    Backoff!UnitsAssumption

------------------------------------------------------------------------------
Init == PublishInit \/ ScanInit \/ MigrationInit \/ BackoffInit \/ ConfigInit

(* The components that may come to an end. *)
Stop == part \in {"migrate", "retry", "config"} /\ UNCHANGED vars

Next == PublishNext \/ ScanNext \/ MigrationNext \/ BackoffNext \/ ConfigNext
    \/ Stop

Spec == Init /\ [][Next]_vars

------------------------------------------------------------------------------
(* Outbox: As long as every publisher finishes its batch within             *)
(* ClaimTimeout, no two publishers ever hold the same event: the claim's    *)
(* window, and a recorded failure's shorter one, keep it exclusive          *)
(* (ClaimDue, RecordFailure).  The window is that of the batch, not of the  *)
(* event, and a late RecordFailure cuts a successor's window short, so one  *)
(* overrun ends the guarantee.                                              *)
ExclusiveUnlessOverrun == part = "outbox" => Publish!ExclusiveUnlessOverrun

(* ScanPass: Repairs are made once and reported as made, with several       *)
(* replicas and with passes that fail half way (promoteDueJob,              *)
(* reconcileDueTimeout, Reconciler.RunOnce).                                *)
RepairsAreExact == part = "scan" => Scan!RepairsAreExact

(* Migrate: The schema is what the bookkeeping says it is, and what a       *)
(* migrator that succeeded needs (Migrate, applyMigration).                 *)
SchemaIsAsRecorded == part = "migrate" => Migration!SchemaIsAsRecorded

(* RetryDelay: Whatever the policy, a validated one or one built in code    *)
(* with NaN or infinite settings, a delay is a duration an int64 holds and  *)
(* a whole number of milliseconds.  A validated policy's backoff lies       *)
(* between the documented formula with the most negative jitter and the     *)
(* maximum: no rounding and no overflow turns it into an early retry.       *)
BackoffWithinBounds == part = "retry" => Backoff!BackoffWithinBounds

(* ConfigLoad: A process runs on what its operator set, in a combination    *)
(* that works, or says everything that has to be changed (LoadDotEnv, Load, *)
(* Config.Validate).                                                        *)
RunsOnWhatWasSet == part = "config" => Config!RunsOnWhatWasSet

PeerSymmetry == Permutations(Publishers) \cup Permutations(Events) \cup Permutations(Migrators)
==============================================================================
