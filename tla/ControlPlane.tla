---------------------------- MODULE ControlPlane ----------------------------
(***************************************************************************)
(* The PostgreSQL-authoritative control plane of TaskForge: jobs, their    *)
(* attempts and leases, worker sessions, the outbox, the dead-letter queue *)
(* and the two idempotency tables, with one action per transaction of      *)
(* internal/jobs and internal/workers that changes them.                   *)
(*                                                                         *)
(* Every transaction takes its row locks in the order queue, session, job, *)
(* attempt, lease, samples clock_timestamp() after the last lock and then  *)
(* decides, so a transaction is one atomic step that reads one clock.      *)
(* Submit alone samples before it waits (for the owner of its idempotency  *)
(* key), so its instant may lie in the past when its rows appear.  A       *)
(* transaction that is refused, or that recognises a replay, rolls back or *)
(* writes nothing: it is a stuttering step.  A worker crash, a lost        *)
(* response and a skipped scan need no action of their own, since no       *)
(* process is ever obliged to take its next step.                          *)
(*                                                                         *)
(* Tables are functions whose domain is the set of rows.  A job's n-th     *)
(* attempt is <<j, n>> (UNIQUE (job_id, attempt_number)) and so is its     *)
(* lease (UNIQUE (attempt_id)).  The outbox event that a job's generation  *)
(* g gets at instant t is <<j, g, t>>; QueuedJobsAdvertised shows that an  *)
(* inserted event never meets an older one of that name.                   *)
(***************************************************************************)
EXTENDS Integers, FiniteSetsExt

CONSTANTS
    JobIds,         \* identities uuid.New() may return for a job
    SessionIds,     \* identities of worker process boots
    Keys,           \* Idempotency-Key values of submissions and replays
    Scopes,         \* tenants
    Workers,        \* logical workers
    Queues,         \* rows of the queues table, which no code changes
    Groups,         \* worker groups
    QueueGroup,     \* queues.worker_group
    QueueLimit,     \* queues.max_concurrency
    Skills,         \* job types and capabilities
    Definitions,    \* what a client may submit
    Registrations,  \* what a process boot may register
    Schedules,      \* offsets of scheduled_at; 0 is an immediate submission
    SubmitLags,     \* how long a submission may wait after its clock sample
    RetryDelays,    \* delays RetryPolicy.Delay may return
    LeaseDuration, StaleAfter, RenotifyAfter,
    Horizon,        \* bound on the clock
    NULL

\* A submitted job: queue, eligibility requirements, priority and budgets.
Definition == [scope : Scopes, queue : Queues, needs : SUBSET Skills,
               priority : Int, maxAttempts : Nat \ {0}, timeout : Nat \ {0}]

\* A registration request: the logical worker and what this boot can run.
Registration == [scope : Scopes, worker : Workers, group : Groups,
                 limit : Nat \ {0}, offers : SUBSET Skills]

ASSUME ConstantsAssumption ==
    /\ Definitions \subseteq Definition
    /\ Registrations \subseteq Registration
    /\ QueueGroup \in [Queues -> Groups]
    /\ QueueLimit \in [Queues -> Nat \ {0}]
    /\ \A r, t \in Registrations : r.worker = t.worker => r.scope = t.scope
    /\ Schedules \subseteq Nat
    /\ SubmitLags \subseteq Nat
    /\ RetryDelays \subseteq Nat
    /\ LeaseDuration \in Nat \ {0}
    /\ StaleAfter \in Nat \ {0}
    /\ RenotifyAfter \in Nat \ {0}
    /\ Horizon \in Nat
    /\ NULL \notin Nat

VARIABLES
    now,          \* clock_timestamp()
    jobs,         \* job -> row
    attempts,     \* <<job, number>> -> row
    leases,       \* <<job, number>> -> row
    sessions,     \* session -> row
    outbox,       \* <<job, generation, instant>> -> "PENDING" or "PUBLISHED"
    dlq,          \* job -> [attempt, reason]
    results,      \* attempts whose result row exists
    submissions,  \* <<scope, key>> -> job          (idempotency_records)
    replays       \* <<original job, key>> -> job   (dlq_replays)

vars == <<now, jobs, attempts, leases, sessions, outbox, dlq, results,
          submissions, replays>>

JobStatus == {"PENDING", "QUEUED", "LEASED", "RUNNING", "RETRY_WAIT",
              "CANCEL_REQUESTED", "SUCCEEDED", "CANCELED", "DEAD_LETTERED"}

TerminalJob == {"SUCCEEDED", "CANCELED", "DEAD_LETTERED"}

AttemptStatus == {"LEASED", "RUNNING", "SUCCEEDED", "FAILED", "TIMED_OUT",
                  "CANCELED", "ABANDONED"}

LeaseStatus == {"ACTIVE", "COMPLETED", "EXPIRED", "RELEASED"}

SessionStatus == {"STARTING", "HEALTHY", "DRAINING", "UNHEALTHY", "OFFLINE"}

FailureClass == {"RETRYABLE", "PERMANENT", "TIMED_OUT", "CANCELED",
                 "ABANDONED"}

DLQReason == {"PERMANENT_FAILURE", "ATTEMPTS_EXHAUSTED"}

AttemptIds == JobIds \X (Nat \ {0})

EventIds == JobIds \X (Nat \ {0}) \X Nat

JobRow == [def : Definitions, status : JobStatus, availableAt : Nat,
           generation : Nat, notifiedAt : Nat \cup {NULL},
           replayOf : JobIds \cup {NULL}]

AttemptRow == [session : SessionIds, status : AttemptStatus,
               timeoutAt : Nat \cup {NULL}, class : FailureClass \cup {NULL},
               retryDelay : Nat \cup {NULL}]

LeaseRow == [status : LeaseStatus, expiresAt : Nat, claim : EventIds]

SessionRow == [reg : Registrations, status : SessionStatus,
               heartbeatAt : Nat]

\* Every row has the shape of its table.
TypeOK ==
    /\ now \in Nat
    /\ DOMAIN jobs \subseteq JobIds
    /\ jobs \in [DOMAIN jobs -> JobRow]
    /\ DOMAIN attempts \subseteq AttemptIds
    /\ attempts \in [DOMAIN attempts -> AttemptRow]
    /\ leases \in [DOMAIN attempts -> LeaseRow]
    /\ DOMAIN sessions \subseteq SessionIds
    /\ sessions \in [DOMAIN sessions -> SessionRow]
    /\ DOMAIN outbox \subseteq EventIds
    /\ outbox \in [DOMAIN outbox -> {"PENDING", "PUBLISHED"}]
    /\ DOMAIN dlq \subseteq JobIds
    /\ dlq \in [DOMAIN dlq -> [attempt : AttemptIds, reason : DLQReason]]
    /\ results \subseteq AttemptIds
    /\ DOMAIN submissions \subseteq Scopes \X Keys
    /\ submissions \in [DOMAIN submissions -> JobIds]
    /\ DOMAIN replays \subseteq JobIds \X Keys
    /\ replays \in [DOMAIN replays -> JobIds]

-----------------------------------------------------------------------------
(***************************************************************************)
(* Rows and predicates the transactions share.                             *)
(***************************************************************************)

EmptyTable == [x \in {} |-> x]

\* INSERT of one row.
WithRow(table, id, row) ==
    [x \in DOMAIN table \cup {id} |-> IF x = id THEN row ELSE table[x]]

JobOf(a) == a[1]

NumberOf(a) == a[2]

\* The attempt numbers a job has used.
Numbers(j) == {NumberOf(a) : a \in {b \in DOMAIN attempts : JobOf(b) = j}}

\* COALESCE(max(attempt_number), 0) + 1.
NextNumber(j) == Max({0} \cup Numbers(j)) + 1

WorkerOf(a) == sessions[attempts[a].session].reg.worker

ActiveOn(q) == {a \in DOMAIN leases : /\ leases[a].status = "ACTIVE"
                                      /\ jobs[JobOf(a)].def.queue = q}

ActiveBy(w) == {a \in DOMAIN leases : /\ leases[a].status = "ACTIVE"
                                      /\ WorkerOf(a) = w}

\* Seeded fault: a lease is trusted until somebody closes it.
LeaseUsableUntilClosed(a) == leases[a].status = "ACTIVE"

LeaseUsable(a) == leases[a].status = "ACTIVE" /\ now < leases[a].expiresAt

TimedOut(a) ==
    attempts[a].timeoutAt # NULL /\ now >= attempts[a].timeoutAt

\* Seeded fault: the deadline alone decides, however early the lease lapsed.
TimedOutWheneverDue(a) == TimedOut(a)

TimedOutBeforeLapse(a) ==
    /\ attempts[a].timeoutAt # NULL
    /\ leases[a].expiresAt >= attempts[a].timeoutAt
    /\ TimedOut(a)

SessionHealthy(a) == sessions[attempts[a].session].status = "HEALTHY"

Executing(a) == attempts[a].status \in {"LEASED", "RUNNING"}

CurrentSession == {"STARTING", "HEALTHY", "DRAINING"}

\* Seeded fault: the scheduler does not look at the outbox.
PendingEventUnseen(j, g) == FALSE

\* HasPendingWorkAvailableTx.
PendingEvent(j, g) ==
    \E e \in DOMAIN outbox : e[1] = j /\ e[2] = g /\ outbox[e] = "PENDING"

-----------------------------------------------------------------------------
(***************************************************************************)
(* Submission, cancellation and the scheduler (internal/jobs).             *)
(***************************************************************************)

Init ==
    /\ now = 0
    /\ jobs = EmptyTable
    /\ attempts = EmptyTable
    /\ leases = EmptyTable
    /\ sessions = EmptyTable
    /\ outbox = EmptyTable
    /\ dlq = EmptyTable
    /\ results = {}
    /\ submissions = EmptyTable
    /\ replays = EmptyTable

Tick ==
    /\ now < Horizon
    /\ now' = now + 1
    /\ UNCHANGED <<jobs, attempts, leases, sessions, outbox, dlq, results,
                   submissions, replays>>

\* InsertWorkAvailableTx: the event that advertises generation g of job j.
WorkAvailable(j, g, at) == WithRow(outbox, <<j, g, at>>, "PENDING")

\* A job that is claimable at once, with its first generation open.
QueuedRow(d, at, original) ==
    [def |-> d, status |-> "QUEUED", availableAt |-> at, generation |-> 1,
     notifiedAt |-> at, replayOf |-> original]

\* A job whose schedule PostgreSQL time has not reached: no generation yet.
PendingRow(d, at) ==
    [def |-> d, status |-> "PENDING", availableAt |-> at, generation |-> 0,
     notifiedAt |-> NULL, replayOf |-> NULL]

(***************************************************************************)
(* Store.Submit.  The idempotency insert decides between two submissions   *)
(* of one key: the loser rolls its job back and reads the winner's.  The   *)
(* clock was read lag ticks before that.                                   *)
(***************************************************************************)
Submit(j, k, d, delay, lag) ==
    /\ lag <= now
    /\ j \notin DOMAIN jobs
    /\ <<d.scope, k>> \notin DOMAIN submissions
    /\ submissions' = WithRow(submissions, <<d.scope, k>>, j)
    /\ \/ /\ delay > 0
          /\ jobs' = WithRow(jobs, j, PendingRow(d, now - lag + delay))
          /\ UNCHANGED outbox
       \/ /\ delay = 0
          /\ jobs' = WithRow(jobs, j, QueuedRow(d, now - lag, NULL))
          /\ outbox' = WorkAvailable(j, 1, now - lag)
    /\ UNCHANGED <<now, attempts, leases, sessions, dlq, results, replays>>

\* Seeded fault: cancellation ends a held job without waiting for its holder.
RequestCancelAtOnce(j) ==
    /\ jobs[j].status \notin TerminalJob
    /\ jobs' = [jobs EXCEPT ![j].status = "CANCELED"]
    /\ UNCHANGED <<now, attempts, leases, sessions, outbox, dlq, results,
                   submissions, replays>>

(***************************************************************************)
(* Store.RequestCancel.  Without an attempt the job ends here; with one it *)
(* waits for the acknowledgment or for the lease to lapse.                 *)
(***************************************************************************)
RequestCancel(j) ==
    /\ \/ /\ jobs[j].status \in {"PENDING", "QUEUED", "RETRY_WAIT"}
          /\ jobs' = [jobs EXCEPT ![j].status = "CANCELED"]
       \/ /\ jobs[j].status \in {"LEASED", "RUNNING"}
          /\ jobs' = [jobs EXCEPT ![j].status = "CANCEL_REQUESTED"]
    /\ UNCHANGED <<now, attempts, leases, sessions, outbox, dlq, results,
                   submissions, replays>>

\* The row of a job that is queued again, under its next generation.
Requeued(row) ==
    [row EXCEPT !.status = "QUEUED", !.generation = @ + 1, !.notifiedAt = now]

\* promoteDueJob: the scheduler opens a generation for a due job.
PromoteDueJob(j) ==
    /\ jobs[j].status \in {"PENDING", "RETRY_WAIT"}
    /\ now >= jobs[j].availableAt
    /\ jobs' = [jobs EXCEPT ![j] = Requeued(@)]
    /\ outbox' = WorkAvailable(j, jobs[j].generation + 1, now)
    /\ UNCHANGED <<now, attempts, leases, sessions, dlq, results,
                   submissions, replays>>

\* renotifyStrandedJob: a second event for the generation already open.
RenotifyStrandedJob(j) ==
    /\ jobs[j].status = "QUEUED"
    /\ jobs[j].generation >= 1
    /\ jobs[j].notifiedAt # NULL
    /\ jobs[j].notifiedAt < now - RenotifyAfter
    /\ ~PendingEvent(j, jobs[j].generation)
    /\ jobs' = [jobs EXCEPT ![j].notifiedAt = now]
    /\ outbox' = WorkAvailable(j, jobs[j].generation, now)
    /\ UNCHANGED <<now, attempts, leases, sessions, dlq, results,
                   submissions, replays>>

\* MarkPublished: the publisher has handed the event to the broker.
MarkPublished(e) ==
    /\ outbox[e] = "PENDING"
    /\ outbox' = [outbox EXCEPT ![e] = "PUBLISHED"]
    /\ UNCHANGED <<now, jobs, attempts, leases, sessions, dlq, results,
                   submissions, replays>>

\* Seeded fault: any finished job may be replayed.
ReplayableOnceTerminal(original) == jobs[original].status \in TerminalJob

Replayable(original) ==
    jobs[original].status = "DEAD_LETTERED" /\ original \in DOMAIN dlq

(***************************************************************************)
(* Store.Replay.  The dead-lettered original stays as it is; a new job     *)
(* with the same definition and a fresh budget points back at it.          *)
(***************************************************************************)
Replay(original, k, j) ==
    /\ Replayable(original)
    /\ <<original, k>> \notin DOMAIN replays
    /\ j \notin DOMAIN jobs
    /\ jobs' = WithRow(jobs, j, QueuedRow(jobs[original].def, now, original))
    /\ replays' = WithRow(replays, <<original, k>>, j)
    /\ outbox' = WorkAvailable(j, 1, now)
    /\ UNCHANGED <<now, attempts, leases, sessions, dlq, results,
                   submissions>>

-----------------------------------------------------------------------------
(***************************************************************************)
(* Sessions and claims (internal/workers).                                 *)
(***************************************************************************)

\* Store.Register: a new boot replaces the worker's current one.
Register(s, r) ==
    /\ s \notin DOMAIN sessions
    /\ sessions' =
         WithRow([x \in DOMAIN sessions |->
                    IF /\ sessions[x].reg.worker = r.worker
                       /\ sessions[x].status \in CurrentSession
                    THEN [sessions[x] EXCEPT !.status = "OFFLINE"]
                    ELSE sessions[x]],
                 s, [reg |-> r, status |-> "HEALTHY", heartbeatAt |-> now])
    /\ UNCHANGED <<now, jobs, attempts, leases, outbox, dlq, results,
                   submissions, replays>>

\* Seeded fault: a late heartbeat revives a fenced boot.
HeartbeatRevives(s) ==
    /\ sessions' = [sessions EXCEPT ![s] = [@ EXCEPT !.status = "HEALTHY",
                                                     !.heartbeatAt = now]]
    /\ UNCHANGED <<now, jobs, attempts, leases, outbox, dlq, results,
                   submissions, replays>>

\* Store.Heartbeat: only a healthy session is kept alive.
Heartbeat(s) ==
    /\ sessions[s].status = "HEALTHY"
    /\ sessions' = [sessions EXCEPT ![s].heartbeatAt = now]
    /\ UNCHANGED <<now, jobs, attempts, leases, outbox, dlq, results,
                   submissions, replays>>

\* markSessionStale: fences a silent boot and leaves its leases alone.
MarkSessionStale(s) ==
    /\ sessions[s].status \in CurrentSession
    /\ sessions[s].heartbeatAt < now - StaleAfter
    /\ sessions' = [sessions EXCEPT ![s].status = "UNHEALTHY"]
    /\ UNCHANGED <<now, jobs, attempts, leases, outbox, dlq, results,
                   submissions, replays>>

\* The jobs a claim on queue q by registration r may reserve.
Claimable(q, r) ==
    {j \in DOMAIN jobs :
        /\ jobs[j].status = "QUEUED"
        /\ jobs[j].availableAt <= now
        /\ jobs[j].def.scope = r.scope
        /\ jobs[j].def.queue = q
        /\ jobs[j].def.needs \subseteq r.offers
        /\ Cardinality(Numbers(j)) < jobs[j].def.maxAttempts}

\* ORDER BY priority DESC, available_at; created_at and id break ties.
ClaimedBefore(j, k) ==
    \/ jobs[j].def.priority > jobs[k].def.priority
    \/ /\ jobs[j].def.priority = jobs[k].def.priority
       /\ jobs[j].availableAt <= jobs[k].availableAt

\* Seeded fault: only a lease that is still active consumes its event.
ConsumedWhileActive(e) ==
    \E a \in DOMAIN leases : /\ leases[a].claim = e
                             /\ leases[a].status = "ACTIVE"

\* lookupClaim: an event id that already claimed something claims no more.
Consumed(e) == \E a \in DOMAIN leases : leases[a].claim = e

\* Seeded fault: a boot does not count the leases it inherits.
HasRoomForBoot(s, q) ==
    /\ Cardinality(ActiveOn(q)) < QueueLimit[q]
    /\ Cardinality({a \in ActiveBy(sessions[s].reg.worker) :
                       attempts[a].session = s}) < sessions[s].reg.limit

\* Queue capacity, then the logical worker's, over all of its boots.
HasRoom(s, q) ==
    /\ Cardinality(ActiveOn(q)) < QueueLimit[q]
    /\ Cardinality(ActiveBy(sessions[s].reg.worker)) < sessions[s].reg.limit

(***************************************************************************)
(* Store.Claim by session s under the id of notification e, for the queue  *)
(* that e names.  The job reserved is the best one of that queue, not      *)
(* necessarily the one e was written for.  A message may reach a worker    *)
(* any number of times and before its event is marked published.           *)
(***************************************************************************)
Claim(s, e, j) ==
    LET r == sessions[s].reg
        q == jobs[JobOf(e)].def.queue
        a == <<j, NextNumber(j)>>
    IN  /\ sessions[s].status = "HEALTHY"
        /\ ~Consumed(e)
        /\ r.group = QueueGroup[q]
        /\ HasRoom(s, q)
        /\ j \in Claimable(q, r)
        /\ \A k \in Claimable(q, r) : ClaimedBefore(j, k)
        /\ attempts' = WithRow(attempts, a,
                         [session |-> s, status |-> "LEASED",
                          timeoutAt |-> NULL, class |-> NULL,
                          retryDelay |-> NULL])
        /\ leases' = WithRow(leases, a,
                       [status |-> "ACTIVE", claim |-> e,
                        expiresAt |-> now + LeaseDuration])
        /\ jobs' = [jobs EXCEPT ![j].status = "LEASED"]
        /\ UNCHANGED <<now, sessions, outbox, dlq, results, submissions,
                       replays>>

-----------------------------------------------------------------------------
(***************************************************************************)
(* Fenced transitions of one attempt and its lease.  The five-part fence   *)
(* a worker presents is immutable and is named here by the attempt.        *)
(***************************************************************************)

\* Store.Start: the execution deadline is stamped here and never again.
Start(a) ==
    /\ SessionHealthy(a)
    /\ LeaseUsable(a)
    /\ jobs[JobOf(a)].status = "LEASED"
    /\ attempts[a].status = "LEASED"
    /\ attempts' = [attempts EXCEPT ![a] =
                      [@ EXCEPT !.status = "RUNNING",
                                !.timeoutAt = now + jobs[JobOf(a)].def.timeout]]
    /\ jobs' = [jobs EXCEPT ![JobOf(a)].status = "RUNNING"]
    /\ UNCHANGED <<now, leases, sessions, outbox, dlq, results, submissions,
                   replays>>

\* Seeded fault: renewal does not look at the execution deadline.
RenewLeaseWithoutDeadline(a) ==
    /\ SessionHealthy(a)
    /\ LeaseUsable(a)
    /\ jobs[JobOf(a)].status \in {"LEASED", "RUNNING"}
    /\ Executing(a)
    /\ leases' = [leases EXCEPT ![a].expiresAt = now + LeaseDuration]
    /\ UNCHANGED <<now, jobs, attempts, sessions, outbox, dlq, results,
                   submissions, replays>>

\* Store.RenewLease: extends authority, never the execution budget.
RenewLease(a) ==
    /\ SessionHealthy(a)
    /\ LeaseUsable(a)
    /\ ~TimedOut(a)
    /\ jobs[JobOf(a)].status \in {"LEASED", "RUNNING"}
    /\ Executing(a)
    /\ leases' = [leases EXCEPT ![a].expiresAt = now + LeaseDuration]
    /\ UNCHANGED <<now, jobs, attempts, sessions, outbox, dlq, results,
                   submissions, replays>>

\* Seeded fault: a report is checked against the attempt and not the job.
MayReportWhenCanceled(a) ==
    /\ SessionHealthy(a)
    /\ ~TimedOut(a)
    /\ LeaseUsable(a)
    /\ attempts[a].status = "RUNNING"

\* Seeded fault: a report is accepted until the lease's expiry instant.
MayReportUntilExpiry(a) ==
    SessionHealthy(a) /\ ~TimedOut(a) /\ now < leases[a].expiresAt

\* What Succeed and Fail require before they record a first outcome.
MayReport(a) ==
    /\ SessionHealthy(a)
    /\ ~TimedOut(a)
    /\ LeaseUsable(a)
    /\ jobs[JobOf(a)].status = "RUNNING"
    /\ attempts[a].status = "RUNNING"

\* Store.Succeed, with or without a result row.
Succeed(a, withResult) ==
    /\ MayReport(a)
    /\ jobs' = [jobs EXCEPT ![JobOf(a)].status = "SUCCEEDED"]
    /\ attempts' = [attempts EXCEPT ![a].status = "SUCCEEDED"]
    /\ leases' = [leases EXCEPT ![a].status = "COMPLETED"]
    /\ results' = IF withResult THEN results \cup {a} ELSE results
    /\ UNCHANGED <<now, sessions, outbox, dlq, submissions, replays>>

\* Seeded fault: one retry too many.
DecideOneMore(class, n, max) ==
    IF class # "PERMANENT" /\ n <= max
    THEN {[delay |-> d, reason |-> NULL] : d \in RetryDelays}
    ELSE {[delay |-> NULL, reason |-> "PERMANENT_FAILURE"]}

\* Seeded fault: the budget is looked at before the failure class.
DecideByBudget(class, n, max) ==
    IF n < max
    THEN {[delay |-> d, reason |-> NULL] : d \in RetryDelays}
    ELSE {[delay |-> NULL, reason |-> "ATTEMPTS_EXHAUSTED"]}

\* RetryPolicy.Decide: the outcomes possible for the n-th attempt of max.
Decide(class, n, max) ==
    CASE class = "PERMANENT" ->
           {[delay |-> NULL, reason |-> "PERMANENT_FAILURE"]}
      [] class \in {"RETRYABLE", "TIMED_OUT"} /\ n < max ->
           {[delay |-> d, reason |-> NULL] : d \in RetryDelays}
      [] class = "ABANDONED" /\ n < max ->
           {[delay |-> 0, reason |-> NULL]}
      [] OTHER ->
           {[delay |-> NULL, reason |-> "ATTEMPTS_EXHAUSTED"]}

\* Seeded fault: a retry without delay is recorded as no retry.
RecordedZeroAsNull(row, status, class, delay) ==
    [row EXCEPT !.status = status, !.class = class,
                !.retryDelay = IF delay = 0 THEN NULL ELSE delay]

\* The columns finalizeAttempt writes on the attempt.
Recorded(row, status, class, delay) ==
    [row EXCEPT !.status = status, !.class = class, !.retryDelay = delay]

(***************************************************************************)
(* finalizeAttempt: the attempt row keeps the decision, the lease closes,  *)
(* and the job waits, is queued again under a new generation, or is        *)
(* dead-lettered together with its one DLQ entry.                          *)
(***************************************************************************)
FinalizeAttempt(a, status, class, leaseStatus) ==
    LET j == JobOf(a) IN
    \E decision \in Decide(class, NumberOf(a), jobs[j].def.maxAttempts) :
        /\ attempts' = [attempts EXCEPT ![a] =
                          Recorded(@, status, class, decision.delay)]
        /\ leases' = [leases EXCEPT ![a].status = leaseStatus]
        /\ \/ /\ decision.delay # NULL /\ decision.delay > 0
              /\ jobs' = [jobs EXCEPT ![j] =
                            [@ EXCEPT !.status = "RETRY_WAIT",
                                      !.availableAt = now + decision.delay]]
              /\ UNCHANGED <<outbox, dlq>>
           \/ /\ decision.delay = 0
              /\ jobs' = [jobs EXCEPT ![j] =
                            [Requeued(@) EXCEPT !.availableAt = now]]
              /\ outbox' = WorkAvailable(j, jobs[j].generation + 1, now)
              /\ UNCHANGED dlq
           \/ /\ decision.delay = NULL
              /\ jobs' = [jobs EXCEPT ![j].status = "DEAD_LETTERED"]
              /\ dlq' = WithRow(dlq, j, [attempt |-> a,
                                         reason |-> decision.reason])
              /\ UNCHANGED outbox
        /\ UNCHANGED <<now, sessions, results, submissions, replays>>

\* Store.Fail with a class a handler may report.
Fail(a, class) ==
    /\ MayReport(a)
    /\ FinalizeAttempt(a, "FAILED", class, "RELEASED")

\* Seeded fault: the attempt is canceled and its job forgotten.
FinalizeCancellationOfAttempt(a, leaseStatus) ==
    /\ attempts' = [attempts EXCEPT ![a] = [@ EXCEPT !.status = "CANCELED",
                                                     !.class = "CANCELED"]]
    /\ leases' = [leases EXCEPT ![a].status = leaseStatus]
    /\ UNCHANGED <<now, jobs, sessions, outbox, dlq, results, submissions,
                   replays>>

\* finalizeCancellation: neither a retry nor a DLQ entry.
FinalizeCancellation(a, leaseStatus) ==
    /\ attempts' = [attempts EXCEPT ![a] = [@ EXCEPT !.status = "CANCELED",
                                                     !.class = "CANCELED"]]
    /\ leases' = [leases EXCEPT ![a].status = leaseStatus]
    /\ jobs' = [jobs EXCEPT ![JobOf(a)].status = "CANCELED"]
    /\ UNCHANGED <<now, sessions, outbox, dlq, results, submissions, replays>>

\* Store.AcknowledgeCancellation: deliberately blind to the deadline.
AcknowledgeCancellation(a) ==
    /\ SessionHealthy(a)
    /\ LeaseUsable(a)
    /\ jobs[JobOf(a)].status = "CANCEL_REQUESTED"
    /\ Executing(a)
    /\ FinalizeCancellation(a, "RELEASED")

\* finalizeTimeout: RELEASED while the lease lives, EXPIRED once it lapsed.
FinalizeTimeout(a) ==
    FinalizeAttempt(a, "TIMED_OUT", "TIMED_OUT",
                    IF now < leases[a].expiresAt THEN "RELEASED"
                                                 ELSE "EXPIRED")

\* reconcileDueTimeout: the deadline passed under a live lease.
ReconcileDueTimeout(a) ==
    /\ LeaseUsable(a)
    /\ TimedOut(a)
    /\ jobs[JobOf(a)].status = "RUNNING"
    /\ attempts[a].status = "RUNNING"
    /\ FinalizeTimeout(a)

(***************************************************************************)
(* reconcileExpiredLease: whatever the session's health, a lapsed lease is *)
(* closed.  Cancellation first, then a deadline the lease outlived, then   *)
(* abandonment.                                                            *)
(***************************************************************************)
ReconcileExpiredLease(a) ==
    /\ leases[a].status = "ACTIVE"
    /\ now >= leases[a].expiresAt
    /\ Executing(a)
    /\ \/ /\ jobs[JobOf(a)].status = "CANCEL_REQUESTED"
          /\ FinalizeCancellation(a, "EXPIRED")
       \/ /\ jobs[JobOf(a)].status \in {"LEASED", "RUNNING"}
          /\ TimedOutBeforeLapse(a)
          /\ FinalizeTimeout(a)
       \/ /\ jobs[JobOf(a)].status \in {"LEASED", "RUNNING"}
          /\ ~TimedOutBeforeLapse(a)
          /\ FinalizeAttempt(a, "ABANDONED", "ABANDONED", "EXPIRED")

-----------------------------------------------------------------------------
ClientStep ==
    \/ \E j \in JobIds, k \in Keys, d \in Definitions, delay \in Schedules,
          lag \in SubmitLags : Submit(j, k, d, delay, lag)
    \/ \E j \in DOMAIN jobs : RequestCancel(j)
    \/ \E original \in DOMAIN jobs, k \in Keys, j \in JobIds :
          Replay(original, k, j)

WorkerStep ==
    \/ \E s \in SessionIds, r \in Registrations : Register(s, r)
    \/ \E s \in DOMAIN sessions : Heartbeat(s)
    \/ \E s \in DOMAIN sessions, e \in DOMAIN outbox, j \in DOMAIN jobs :
          Claim(s, e, j)
    \/ \E a \in DOMAIN attempts :
          \/ Start(a)
          \/ RenewLease(a)
          \/ \E withResult \in BOOLEAN : Succeed(a, withResult)
          \/ \E class \in {"RETRYABLE", "PERMANENT"} : Fail(a, class)
          \/ AcknowledgeCancellation(a)

ServiceStep ==
    \/ \E j \in DOMAIN jobs : PromoteDueJob(j) \/ RenotifyStrandedJob(j)
    \/ \E e \in DOMAIN outbox : MarkPublished(e)
    \/ \E s \in DOMAIN sessions : MarkSessionStale(s)
    \/ \E a \in DOMAIN attempts :
          ReconcileDueTimeout(a) \/ ReconcileExpiredLease(a)

Next == Tick \/ ClientStep \/ WorkerStep \/ ServiceStep

Spec == Init /\ [][Next]_vars

-----------------------------------------------------------------------------
(***************************************************************************)
(* Safety.                                                                 *)
(***************************************************************************)

HeldJob == {"LEASED", "RUNNING", "CANCEL_REQUESTED"}

WaitingJob == {"PENDING", "QUEUED", "RETRY_WAIT"}

Newest(j) == <<j, Max(Numbers(j))>>

(***************************************************************************)
(* Authority over a job is never shared and never dangling: an attempt     *)
(* executes exactly while its lease is ACTIVE, a job that is held is held  *)
(* by its newest attempt in the state the job shows, and no other attempt  *)
(* of it executes.  Claim, Start, every outcome and both reconciliations   *)
(* update the three rows together.                                         *)
(***************************************************************************)
HolderIsNewest ==
    /\ \A a \in DOMAIN attempts :
          /\ Executing(a) <=> leases[a].status = "ACTIVE"
          /\ Executing(a) => /\ jobs[JobOf(a)].status \in HeldJob
                             /\ \A b \in DOMAIN attempts :
                                   JobOf(b) = JobOf(a)
                                      => NumberOf(b) <= NumberOf(a)
    /\ \A j \in DOMAIN jobs :
          jobs[j].status \in HeldJob =>
             /\ Numbers(j) # {}
             /\ Executing(Newest(j))
             /\ jobs[j].status \in {attempts[Newest(j)].status,
                                    "CANCEL_REQUESTED"}

(***************************************************************************)
(* Attempt numbers are 1, 2, ... without gaps and never pass max_attempts, *)
(* and a job that waits for a claim always has an attempt left: otherwise  *)
(* Claim's budget predicate would leave it QUEUED for ever.                *)
(***************************************************************************)
AttemptBudget ==
    \A j \in DOMAIN jobs :
        LET used == Cardinality(Numbers(j)) IN
        /\ Numbers(j) = 1..used
        /\ used <= jobs[j].def.maxAttempts
        /\ jobs[j].status \in WaitingJob => used < jobs[j].def.maxAttempts

(***************************************************************************)
(* Attempt history explains the job: a job is SUCCEEDED exactly when its   *)
(* newest attempt is, under a lease that closed COMPLETED; every earlier   *)
(* attempt failed, timed out or was abandoned; a result row belongs to the *)
(* attempt that succeeded.                                                 *)
(***************************************************************************)
OutcomeMatchesHistory ==
    /\ \A a \in DOMAIN attempts :
          /\ attempts[a].status = "SUCCEEDED"
                => /\ jobs[JobOf(a)].status = "SUCCEEDED"
                   /\ leases[a].status = "COMPLETED"
          /\ attempts[a].status = "CANCELED"
                => jobs[JobOf(a)].status = "CANCELED"
          /\ NumberOf(a) + 1 \in Numbers(JobOf(a))
                => attempts[a].status \in {"FAILED", "TIMED_OUT", "ABANDONED"}
    /\ \A j \in DOMAIN jobs :
          jobs[j].status = "SUCCEEDED"
             => /\ Numbers(j) # {}
                /\ attempts[Newest(j)].status = "SUCCEEDED"
    /\ \A a \in results : /\ a \in DOMAIN attempts
                          /\ attempts[a].status = "SUCCEEDED"

(***************************************************************************)
(* The dead-letter queue lists exactly the DEAD_LETTERED jobs, each with   *)
(* the attempt that ended it and the reason that attempt's class and       *)
(* number imply (finalizeAttempt and InsertDLQEntryTx, whichever of the    *)
(* four paths got there).                                                  *)
(***************************************************************************)
DeadLetterRecord ==
    /\ \A j \in DOMAIN jobs :
          j \in DOMAIN dlq <=> jobs[j].status = "DEAD_LETTERED"
    /\ \A j \in DOMAIN dlq :
          LET a == dlq[j].attempt IN
          /\ j \in DOMAIN jobs
          /\ a \in DOMAIN attempts
          /\ a = Newest(j)
          /\ attempts[a].status \in {"FAILED", "TIMED_OUT", "ABANDONED"}
          /\ dlq[j].reason = IF attempts[a].class = "PERMANENT"
                             THEN "PERMANENT_FAILURE"
                             ELSE "ATTEMPTS_EXHAUSTED"
          /\ attempts[a].class # "PERMANENT"
                => NumberOf(a) = jobs[j].def.maxAttempts

(***************************************************************************)
(* TIMED_OUT or ABANDONED is decided by the two stored instants alone, not *)
(* by which sweep came first or how late it came (ADR-0025): a timed-out   *)
(* attempt's lease reached its deadline, an abandoned one's did not.       *)
(***************************************************************************)
VerdictFromStoredInstants ==
    \A a \in DOMAIN attempts :
        /\ attempts[a].status = "TIMED_OUT"
              => /\ attempts[a].timeoutAt # NULL
                 /\ leases[a].expiresAt >= attempts[a].timeoutAt
        /\ attempts[a].status = "ABANDONED" /\ attempts[a].timeoutAt # NULL
              => leases[a].expiresAt < attempts[a].timeoutAt

(***************************************************************************)
(* Renewing cannot keep an attempt alive past its deadline: a started      *)
(* attempt's lease ends less than one lease duration after timeout_at, so  *)
(* its capacity comes back in bounded time whatever the worker does.       *)
(***************************************************************************)
AuthorityBoundedByDeadline ==
    \A a \in DOMAIN attempts :
        attempts[a].timeoutAt # NULL
           => leases[a].expiresAt < attempts[a].timeoutAt + LeaseDuration

(***************************************************************************)
(* A queued job is always advertised: its current generation has an event, *)
(* written when the job was last notified, and the job is due.  No event   *)
(* is ahead of its job, so generations never repeat, and however often the *)
(* scheduler re-notifies, at most one event of a generation is still       *)
(* waiting for the publisher.                                              *)
(***************************************************************************)
QueuedJobsAdvertised ==
    /\ \A j \in DOMAIN jobs :
          jobs[j].status = "QUEUED"
             => /\ jobs[j].generation >= 1
                /\ jobs[j].notifiedAt # NULL
                /\ <<j, jobs[j].generation, jobs[j].notifiedAt>>
                      \in DOMAIN outbox
                /\ jobs[j].availableAt <= now
    /\ \A e \in DOMAIN outbox :
          /\ e[1] \in DOMAIN jobs
          /\ e[2] <= jobs[e[1]].generation
          /\ e[2] = jobs[e[1]].generation => e[3] <= jobs[e[1]].notifiedAt
    /\ \A e, f \in DOMAIN outbox :
          /\ outbox[e] = "PENDING" /\ outbox[f] = "PENDING"
          /\ e[1] = f[1] /\ e[2] = f[2]
          => e = f

(***************************************************************************)
(* One notification admits one attempt, whoever receives it and however    *)
(* often, and only a session of the job's scope that offers what the job   *)
(* needs ever holds it.                                                    *)
(***************************************************************************)
ClaimedOnce ==
    /\ \A a, b \in DOMAIN leases : leases[a].claim = leases[b].claim => a = b
    /\ \A a \in DOMAIN attempts :
          LET d == jobs[JobOf(a)].def
              r == sessions[attempts[a].session].reg
          IN  d.scope = r.scope /\ d.needs \subseteq r.offers

(***************************************************************************)
(* Active leases never exceed a queue's limit, nor the limit some boot of  *)
(* the logical worker declared, even across boots that inherit leases.     *)
(***************************************************************************)
CapacityRespected ==
    /\ \A q \in Queues : Cardinality(ActiveOn(q)) <= QueueLimit[q]
    /\ \A w \in Workers :
          ActiveBy(w) # {}
             => \E s \in DOMAIN sessions :
                   /\ sessions[s].reg.worker = w
                   /\ Cardinality(ActiveBy(w)) <= sessions[s].reg.limit

(***************************************************************************)
(* docs/ARCHITECTURE.md, section 12, invariant 6: a worker never exceeds   *)
(* its declared concurrency limit, here the limit of its current boot.     *)
(***************************************************************************)
WithinDeclaredLimit ==
    \A s \in DOMAIN sessions :
        sessions[s].status \in CurrentSession
           => Cardinality(ActiveBy(sessions[s].reg.worker))
                 <= sessions[s].reg.limit

\* A logical worker has at most one current boot (Register fences the rest).
OneCurrentSession ==
    \A s, t \in DOMAIN sessions :
        /\ sessions[s].status \in CurrentSession
        /\ sessions[t].status \in CurrentSession
        /\ sessions[s].reg.worker = sessions[t].reg.worker
        => s = t

(***************************************************************************)
(* A replay names a dead-lettered original and a distinct job of the same  *)
(* definition that points back at it; no job replaces two originals, and   *)
(* no submission key and replay key share a job.                           *)
(***************************************************************************)
ReplayLineage ==
    /\ \A x \in DOMAIN replays :
          /\ x[1] \in DOMAIN jobs
          /\ jobs[x[1]].status = "DEAD_LETTERED"
          /\ replays[x] \in DOMAIN jobs
          /\ replays[x] # x[1]
          /\ jobs[replays[x]].replayOf = x[1]
          /\ jobs[replays[x]].def = jobs[x[1]].def
    /\ \A x, y \in DOMAIN replays : replays[x] = replays[y] => x = y
    /\ \A x, y \in DOMAIN submissions :
          submissions[x] = submissions[y] => x = y
    /\ \A x \in DOMAIN submissions :
          /\ submissions[x] \in DOMAIN jobs
          /\ jobs[submissions[x]].replayOf = NULL
          /\ jobs[submissions[x]].def.scope = x[1]

-----------------------------------------------------------------------------
(***************************************************************************)
(* What a step may never do.                                               *)
(***************************************************************************)

(***************************************************************************)
(* Terminal history is immutable: no later claim, reconciliation, late     *)
(* report, cancellation or replay rewrites a terminal job, a finished      *)
(* attempt or a closed lease, and a dead-letter entry or a published event *)
(* stays what it is.                                                       *)
(***************************************************************************)
HistoryIsImmutable ==
    [][/\ \A j \in DOMAIN jobs :
             jobs[j].status \in TerminalJob => jobs'[j] = jobs[j]
       /\ \A a \in DOMAIN attempts :
             ~Executing(a) => /\ attempts'[a] = attempts[a]
                              /\ leases'[a] = leases[a]
       /\ \A j \in DOMAIN dlq : dlq'[j] = dlq[j]
       /\ \A e \in DOMAIN outbox :
             outbox[e] = "PUBLISHED" => outbox'[e] = "PUBLISHED"]_vars

\* Once cancellation has won, the job can only become CANCELED.
CancellationWins ==
    [][\A j \in DOMAIN jobs :
         jobs[j].status = "CANCEL_REQUESTED"
            => jobs'[j].status \in {"CANCEL_REQUESTED", "CANCELED"}]_vars

\* A lapsed lease is never extended, and a deadline is stamped only once.
LapsedAuthorityStaysLapsed ==
    [][\A a \in DOMAIN attempts :
         /\ now >= leases[a].expiresAt
               => leases'[a].expiresAt = leases[a].expiresAt
         /\ attempts[a].timeoutAt # NULL
               => attempts'[a].timeoutAt = attempts[a].timeoutAt]_vars

\* decidedJobStatus: what a replay reports, from the attempt row alone.
DecidedJobStatus(row) ==
    CASE row.status = "CANCELED" -> "CANCELED"
      [] row.status # "CANCELED" /\ row.retryDelay = NULL -> "DEAD_LETTERED"
      [] row.status # "CANCELED" /\ row.retryDelay = 0 -> "QUEUED"
      [] OTHER -> "RETRY_WAIT"

(***************************************************************************)
(* A report and its later replay agree: the step that ends an attempt in   *)
(* anything but success puts the job in the status decidedJobStatus will   *)
(* reconstruct from the attempt row, which HistoryIsImmutable then fixes.  *)
(***************************************************************************)
ReplayReportsTheDecision ==
    [][\A a \in DOMAIN attempts :
         Executing(a) /\ ~Executing(a)' /\ attempts'[a].status # "SUCCEEDED"
            => jobs'[JobOf(a)].status = DecidedJobStatus(attempts'[a])]_vars

\* A fenced boot never becomes current again (Heartbeat revives nothing).
FencedSessionStaysFenced ==
    [][\A s \in DOMAIN sessions :
         sessions[s].status \notin CurrentSession
            => sessions'[s] = sessions[s]]_vars

-----------------------------------------------------------------------------
(***************************************************************************)
(* The promise to the client.                                              *)
(***************************************************************************)

StatusOf(j) == IF j \in DOMAIN jobs THEN jobs[j].status ELSE "ABSENT"

AttemptsLeft(j) ==
    IF j \in DOMAIN jobs
    THEN jobs[j].def.maxAttempts - Cardinality(Numbers(j))
    ELSE 0

Lifecycle == INSTANCE JobLifecycle
    WITH Budgets <- {d.maxAttempts : d \in Definitions},
         status <- [j \in JobIds |-> StatusOf(j)],
         left <- [j \in JobIds |-> AttemptsLeft(j)]

(***************************************************************************)
(* Every transaction moves at most one job, along an edge of the           *)
(* transition matrix, and accounts for the attempts it spends.             *)
(***************************************************************************)
ImplementsLifecycle == Lifecycle!Spec

=============================================================================
