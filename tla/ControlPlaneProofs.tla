------------------------- MODULE ControlPlaneProofs -------------------------
(***************************************************************************)
(* Proofs about ControlPlane for every set of jobs, sessions, definitions  *)
(* and registrations, every duration and every clock bound: the types, and *)
(* what a step does to the rows of an attempt.                             *)
(***************************************************************************)
EXTENDS ControlPlane, TLAPS

\* The time each leaf is given.
USE SMTT(20), ZenonT(20)

-----------------------------------------------------------------------------
(***************************************************************************)
(* Rows, decisions and attempt numbers.                                    *)
(***************************************************************************)

\* The rows the transactions write are well-formed.
LEMMA JobRowTypes ==
    ASSUME NEW row \in JobRow, NEW s \in JobStatus, NEW t \in Nat
    PROVE  /\ [row EXCEPT !.status = s] \in JobRow
           /\ [row EXCEPT !.notifiedAt = t] \in JobRow
           /\ [row EXCEPT !.availableAt = t] \in JobRow
           /\ [row EXCEPT !.status = s, !.availableAt = t] \in JobRow
BY Zenon DEF JobRow

LEMMA RequeuedType ==
    ASSUME NEW row \in JobRow, now \in Nat
    PROVE  Requeued(row) \in JobRow
<1>1. row.generation + 1 \in Nat
  BY DEF JobRow
<1> QED BY Zenon, <1>1 DEF JobRow, Requeued, JobStatus

LEMMA NewJobRowTypes ==
    ASSUME NEW d \in Definitions, NEW t \in Nat,
           NEW original \in JobIds \cup {NULL}
    PROVE  QueuedRow(d, t, original) \in JobRow /\ PendingRow(d, t) \in JobRow
BY DEF JobRow, QueuedRow, PendingRow, JobStatus

LEMMA SessionRowTypes ==
    ASSUME NEW row \in SessionRow, NEW s \in SessionStatus, NEW t \in Nat
    PROVE  /\ [row EXCEPT !.status = s] \in SessionRow
           /\ [row EXCEPT !.heartbeatAt = t] \in SessionRow
BY DEF SessionRow

\* What a decision of RetryPolicy.Decide says.
LEMMA DecideFacts ==
    ASSUME NEW class \in FailureClass, NEW n \in Nat, NEW max \in Nat,
           NEW decision \in Decide(class, n, max)
    PROVE  /\ decision.delay \in Nat \cup {NULL}
           /\ decision.delay # NULL => n < max
           /\ decision.delay = NULL =>
                 /\ decision.reason \in DLQReason
                 /\ decision.reason = IF class = "PERMANENT"
                                      THEN "PERMANENT_FAILURE"
                                      ELSE "ATTEMPTS_EXHAUSTED"
                 /\ class # "PERMANENT" /\ class # "CANCELED" => n >= max
<1>1. CASE class = "PERMANENT"
  BY <1>1 DEF Decide, DLQReason
<1>2. CASE class \in {"RETRYABLE", "TIMED_OUT"} /\ n < max
  BY <1>2, ConstantsAssumption DEF Decide, DLQReason
<1>3. CASE class = "ABANDONED" /\ n < max
  BY <1>3, ConstantsAssumption DEF Decide, DLQReason
<1>4. CASE /\ class # "PERMANENT"
           /\ ~(class \in {"RETRYABLE", "TIMED_OUT"} /\ n < max)
           /\ ~(class = "ABANDONED" /\ n < max)
  <2>1. Decide(class, n, max) =
           {[delay |-> NULL, reason |-> "ATTEMPTS_EXHAUSTED"]}
    BY <1>4 DEF Decide
  <2> QED BY <2>1, <1>4 DEF DLQReason, FailureClass
<1> QED BY <1>1, <1>2, <1>3, <1>4

\* The numbers of a job with k attempts are 1..k: the largest, and the one
\* that comes next.
LEMMA Largest ==
    ASSUME NEW k \in Nat
    PROVE  Max({0} \cup (1..k)) = k /\ (k > 0 => Max(1..k) = k)
<1>1. Max({0} \cup (1..k)) = k
  <2>1. k \in {0} \cup (1..k) /\ \A y \in {0} \cup (1..k) : k >= y
    OBVIOUS
  <2>2. \A x \in {0} \cup (1..k) :
            (\A y \in {0} \cup (1..k) : x >= y) => x = k
    BY <2>1
  <2> QED BY <2>1, <2>2 DEF Max
<1>2. ASSUME k > 0 PROVE Max(1..k) = k
  <2>1. k \in 1..k /\ \A y \in 1..k : k >= y
    BY <1>2
  <2>2. \A x \in 1..k : (\A y \in 1..k : x >= y) => x = k
    BY <2>1
  <2> QED BY <2>1, <2>2 DEF Max
<1> QED BY <1>1, <1>2

LEMMA NumbersFacts ==
    ASSUME NEW j, NEW k \in Nat, Numbers(j) = 1..k
    PROVE  /\ NextNumber(j) = k + 1
           /\ k > 0 => Newest(j) = <<j, k>>
BY Largest DEF NextNumber, Newest

-----------------------------------------------------------------------------
(***************************************************************************)
(* Type correctness.  A claim writes a well-typed attempt only because the *)
(* numbers used so far have a largest, and an outcome a well-typed job row *)
(* only because the attempt's job exists: both belong to the invariant.    *)
(***************************************************************************)

Linked == \A a \in DOMAIN attempts : /\ JobOf(a) \in DOMAIN jobs
                                     /\ attempts[a].session \in DOMAIN sessions

Dense == \A j \in DOMAIN jobs : \E k \in Nat : Numbers(j) = 1..k

TypeInv == TypeOK /\ Linked /\ Dense

\* A step that adds no attempt and loses no job or session keeps the links
\* and the numbering, new jobs included.
LEMMA KeepsTypeInv ==
    ASSUME TypeInv, TypeOK',
           DOMAIN attempts' = DOMAIN attempts,
           \A a \in DOMAIN attempts :
              attempts'[a].session = attempts[a].session,
           DOMAIN jobs \subseteq DOMAIN jobs',
           DOMAIN sessions \subseteq DOMAIN sessions'
    PROVE  TypeInv'
<1>1. Linked'
  BY DEF TypeInv, Linked
<1>2. \A j : Numbers(j)' = Numbers(j)
  BY DEF Numbers
<1>3. ASSUME NEW j \in DOMAIN jobs' PROVE \E k \in Nat : Numbers(j)' = 1..k
  <2>1. CASE j \in DOMAIN jobs
    BY <2>1, <1>2 DEF TypeInv, Dense
  <2>2. CASE j \notin DOMAIN jobs
    <3>1. Numbers(j) = {}
      BY <2>2 DEF TypeInv, Linked, Numbers
    <3>2. Numbers(j)' = 1..0
      BY <3>1, <1>2
    <3> QED BY <3>2
  <2> QED BY <2>1, <2>2
<1> QED BY <1>1, <1>3 DEF TypeInv, Dense

LEMMA TypeInvInit == Init => TypeInv
BY ConstantsAssumption
   DEF Init, EmptyTable, TypeInv, TypeOK, Linked, Dense

LEMMA SubmitType ==
    ASSUME TypeInv, NEW j \in JobIds, NEW k \in Keys, NEW d \in Definitions,
           NEW delay \in Schedules, NEW lag \in SubmitLags,
           Submit(j, k, d, delay, lag)
    PROVE  TypeInv'
<1>1. now - lag \in Nat /\ now - lag + delay \in Nat
  BY ConstantsAssumption DEF TypeInv, TypeOK, Submit
<1>2. PICK row \in JobRow : jobs' = WithRow(jobs, j, row)
  BY <1>1, NewJobRowTypes DEF Submit
<1>3. /\ DOMAIN jobs' = DOMAIN jobs \cup {j}
      /\ DOMAIN jobs' \subseteq JobIds
      /\ jobs' \in [DOMAIN jobs' -> JobRow]
  BY <1>2 DEF TypeInv, TypeOK, WithRow
<1>4. /\ DOMAIN outbox' \subseteq EventIds
      /\ outbox' \in [DOMAIN outbox' -> {"PENDING", "PUBLISHED"}]
  <2>1. <<j, 1, now - lag>> \in EventIds
    BY <1>1 DEF EventIds
  <2>2. CASE UNCHANGED outbox
    BY <2>2 DEF TypeInv, TypeOK
  <2>3. CASE outbox' = WithRow(outbox, <<j, 1, now - lag>>, "PENDING")
    BY <2>1, <2>3 DEF TypeInv, TypeOK, WithRow
  <2> QED BY <2>2, <2>3 DEF Submit, WorkAvailable
<1>5. /\ DOMAIN submissions' \subseteq Scopes \X Keys
      /\ submissions' \in [DOMAIN submissions' -> JobIds]
  <2>1. <<d.scope, k>> \in Scopes \X Keys
    BY ConstantsAssumption DEF Definition
  <2> QED BY <2>1 DEF TypeInv, TypeOK, Submit, WithRow
<1>6. TypeOK'
  BY <1>3, <1>4, <1>5 DEF TypeInv, TypeOK, Submit
<1> QED BY <1>3, <1>6, KeepsTypeInv DEF Submit

LEMMA ReplayType ==
    ASSUME TypeInv, NEW original \in DOMAIN jobs, NEW k \in Keys,
           NEW j \in JobIds, Replay(original, k, j)
    PROVE  TypeInv'
<1>1. PICK row \in JobRow : jobs' = WithRow(jobs, j, row)
  <2>1. jobs[original].def \in Definitions /\ now \in Nat
    BY DEF TypeInv, TypeOK, JobRow
  <2>2. original \in JobIds
    BY DEF TypeInv, TypeOK
  <2> QED BY <2>1, <2>2, NewJobRowTypes DEF Replay
<1>2. /\ DOMAIN jobs' = DOMAIN jobs \cup {j}
      /\ DOMAIN jobs' \subseteq JobIds
      /\ jobs' \in [DOMAIN jobs' -> JobRow]
  BY <1>1 DEF TypeInv, TypeOK, WithRow
<1>3. /\ DOMAIN outbox' \subseteq EventIds
      /\ outbox' \in [DOMAIN outbox' -> {"PENDING", "PUBLISHED"}]
  <2>1. <<j, 1, now>> \in EventIds BY DEF TypeInv, TypeOK, EventIds
  <2> QED BY <2>1, Zenon DEF TypeInv, TypeOK, Replay, WorkAvailable, WithRow
<1>4. /\ DOMAIN replays' \subseteq JobIds \X Keys
      /\ replays' \in [DOMAIN replays' -> JobIds]
  BY DEF TypeInv, TypeOK, Replay, WithRow
<1>5. UNCHANGED <<now, attempts, leases, sessions, dlq, results, submissions>>
  BY DEF Replay
<1>6. TypeOK'
  BY <1>2, <1>3, <1>4, <1>5 DEF TypeInv, TypeOK
<1> QED BY <1>2, <1>6, KeepsTypeInv DEF Replay

LEMMA JobStepType ==
    ASSUME TypeInv, NEW j \in DOMAIN jobs,
           RequestCancel(j) \/ PromoteDueJob(j) \/ RenotifyStrandedJob(j)
    PROVE  TypeInv'
<1>1. jobs[j] \in JobRow /\ now \in Nat /\ j \in JobIds
  BY DEF TypeInv, TypeOK
<1>2. jobs[j].generation \in Nat
  BY <1>1 DEF JobRow
<1>3. PICK row \in JobRow : jobs' = [jobs EXCEPT ![j] = row]
  <2>1. CASE RequestCancel(j)
    BY Zenon, <2>1, <1>1, JobRowTypes DEF RequestCancel, JobStatus
  <2>2. CASE PromoteDueJob(j)
    BY Zenon, <2>2, <1>1, RequeuedType DEF PromoteDueJob
  <2>3. CASE RenotifyStrandedJob(j)
    BY Zenon, <2>3, <1>1, JobRowTypes DEF RenotifyStrandedJob, JobStatus
  <2> QED BY <2>1, <2>2, <2>3
<1>4. DOMAIN jobs' = DOMAIN jobs /\ jobs' \in [DOMAIN jobs' -> JobRow]
  BY <1>3 DEF TypeInv, TypeOK
<1>5. /\ DOMAIN outbox' \subseteq EventIds
      /\ outbox' \in [DOMAIN outbox' -> {"PENDING", "PUBLISHED"}]
  BY <1>1, <1>2 DEF TypeInv, TypeOK, RequestCancel, PromoteDueJob,
                    RenotifyStrandedJob, WorkAvailable, EventIds, WithRow
<1>6. UNCHANGED <<now, attempts, leases, sessions, dlq, results, submissions,
                  replays>>
  BY DEF RequestCancel, PromoteDueJob, RenotifyStrandedJob
<1>7. TypeOK'
  BY <1>4, <1>5, <1>6 DEF TypeInv, TypeOK
<1> QED BY <1>4, <1>6, <1>7, KeepsTypeInv

LEMMA SessionStepType ==
    ASSUME TypeInv,
           \/ \E s \in SessionIds, r \in Registrations : Register(s, r)
           \/ \E s \in DOMAIN sessions : Heartbeat(s) \/ MarkSessionStale(s)
    PROVE  TypeInv'
<1> DEFINE Typed == /\ DOMAIN sessions' \subseteq SessionIds
                    /\ sessions' \in [DOMAIN sessions' -> SessionRow]
                    /\ DOMAIN sessions \subseteq DOMAIN sessions'
<1>1. Typed
  <2>1. ASSUME NEW s \in SessionIds, NEW r \in Registrations, Register(s, r)
        PROVE  Typed
    <3>1. [reg |-> r, status |-> "HEALTHY", heartbeatAt |-> now] \in SessionRow
      BY DEF SessionRow, SessionStatus, TypeInv, TypeOK
    <3>2. \A x \in DOMAIN sessions :
             /\ sessions[x] \in SessionRow
             /\ [sessions[x] EXCEPT !.status = "OFFLINE"] \in SessionRow
      BY Zenon, SessionRowTypes DEF TypeInv, TypeOK, SessionStatus
    <3> QED BY <2>1, <3>1, <3>2 DEF Register, TypeInv, TypeOK, WithRow
  <2>2. ASSUME NEW s \in DOMAIN sessions, Heartbeat(s) \/ MarkSessionStale(s)
        PROVE  Typed
    <3>1. sessions[s] \in SessionRow /\ now \in Nat
      BY DEF TypeInv, TypeOK
    <3>2. PICK row \in SessionRow : sessions' = [sessions EXCEPT ![s] = row]
      BY Zenon, <2>2, <3>1, SessionRowTypes
         DEF Heartbeat, MarkSessionStale, SessionStatus
    <3> QED BY <3>2 DEF TypeInv, TypeOK
  <2> QED BY <2>1, <2>2
<1>2. UNCHANGED <<now, jobs, attempts, leases, outbox, dlq, results,
                  submissions, replays>>
  BY Zenon DEF Register, Heartbeat, MarkSessionStale
<1>3. TypeOK'
  BY <1>1, <1>2 DEF TypeInv, TypeOK
<1> QED BY <1>1, <1>2, <1>3, KeepsTypeInv

\* The attempt a claim creates is the next of its job.
LEMMA ClaimType ==
    ASSUME TypeInv, NEW s \in DOMAIN sessions, NEW e \in DOMAIN outbox,
           NEW j \in DOMAIN jobs, Claim(s, e, j)
    PROVE  TypeInv'
<1>1. PICK k \in Nat : Numbers(j) = 1..k
  BY DEF TypeInv, Dense
<1> DEFINE a == <<j, k + 1>>
<1>2. NextNumber(j) = k + 1
  BY <1>1, NumbersFacts
<1>3. PICK row \in AttemptRow, lease \in LeaseRow :
         /\ attempts' = WithRow(attempts, a, row)
         /\ leases' = WithRow(leases, a, lease)
         /\ row.session = s
  <2>1. [session |-> s, status |-> "LEASED", timeoutAt |-> NULL,
         class |-> NULL, retryDelay |-> NULL] \in AttemptRow
    BY DEF AttemptRow, AttemptStatus, TypeInv, TypeOK
  <2>2. [status |-> "ACTIVE", claim |-> e, expiresAt |-> now + LeaseDuration]
           \in LeaseRow
    BY ConstantsAssumption DEF LeaseRow, LeaseStatus, TypeInv, TypeOK
  <2> QED BY <1>2, <2>1, <2>2 DEF Claim
<1>4. a \in AttemptIds /\ a \notin DOMAIN attempts
  <2>1. j \in JobIds
    BY DEF TypeInv, TypeOK
  <2>2. k + 1 \notin Numbers(j)
    BY <1>1
  <2> QED BY <2>1, <2>2 DEF AttemptIds, Numbers, JobOf, NumberOf
<1>5. jobs' = [jobs EXCEPT ![j] = [@ EXCEPT !.status = "LEASED"]]
  BY DEF Claim
<1>6. DOMAIN jobs' = DOMAIN jobs /\ jobs' \in [DOMAIN jobs' -> JobRow]
  <2>1. [jobs[j] EXCEPT !.status = "LEASED"] \in JobRow
    BY Zenon, JobRowTypes DEF TypeInv, TypeOK, JobStatus
  <2> QED BY <1>5, <2>1 DEF TypeInv, TypeOK
<1>7. /\ DOMAIN attempts' = DOMAIN attempts \cup {a}
      /\ DOMAIN attempts' \subseteq AttemptIds
      /\ attempts' \in [DOMAIN attempts' -> AttemptRow]
      /\ leases' \in [DOMAIN attempts' -> LeaseRow]
      /\ attempts'[a].session = s
      /\ \A b \in DOMAIN attempts : attempts'[b] = attempts[b]
  BY Zenon, <1>3, <1>4 DEF TypeInv, TypeOK, WithRow
<1>8. UNCHANGED <<now, sessions, outbox, dlq, results, submissions, replays>>
  BY DEF Claim
<1>9. TypeOK'
  BY <1>6, <1>7, <1>8 DEF TypeInv, TypeOK
<1>10. Linked'
  BY <1>6, <1>7, <1>8 DEF TypeInv, Linked, JobOf
<1>11. ASSUME NEW i \in DOMAIN jobs' PROVE \E n \in Nat : Numbers(i)' = 1..n
  <2>1. CASE i = j
    <3>1. Numbers(j)' = Numbers(j) \cup {k + 1}
      BY <1>7 DEF Numbers, JobOf, NumberOf
    <3>2. Numbers(j)' = 1..(k + 1)
      BY <1>1, <3>1
    <3> QED BY <2>1, <3>2
  <2>2. CASE i # j
    <3>1. Numbers(i)' = Numbers(i)
      BY <2>2, <1>7 DEF Numbers, JobOf, NumberOf
    <3> QED BY <3>1, <1>6 DEF TypeInv, Dense
  <2> QED BY <2>1, <2>2
<1> QED BY <1>9, <1>10, <1>11 DEF TypeInv, Dense

\* A step that rewrites the rows of one attempt and of its job.
LEMMA AttemptStepType ==
    ASSUME TypeInv, NEW a \in DOMAIN attempts,
           NEW attempt \in AttemptRow, NEW lease \in LeaseRow,
           NEW job \in JobRow,
           attempt.session = attempts[a].session,
           attempts' = [attempts EXCEPT ![a] = attempt],
           leases' = [leases EXCEPT ![a] = lease],
           jobs' = [jobs EXCEPT ![JobOf(a)] = job],
           UNCHANGED <<now, sessions, submissions, replays>>,
           DOMAIN outbox' \subseteq EventIds,
           outbox' \in [DOMAIN outbox' -> {"PENDING", "PUBLISHED"}],
           DOMAIN dlq' \subseteq JobIds,
           dlq' \in [DOMAIN dlq' -> [attempt : AttemptIds, reason : DLQReason]],
           results' \subseteq AttemptIds
    PROVE  TypeInv'
<1>1. DOMAIN jobs' = DOMAIN jobs /\ jobs' \in [DOMAIN jobs' -> JobRow]
  BY Zenon DEF TypeInv, TypeOK
<1>2. /\ DOMAIN attempts' = DOMAIN attempts
      /\ attempts' \in [DOMAIN attempts' -> AttemptRow]
      /\ leases' \in [DOMAIN attempts' -> LeaseRow]
      /\ \A b \in DOMAIN attempts : attempts'[b].session = attempts[b].session
  BY DEF TypeInv, TypeOK
<1>3. TypeOK'
  BY <1>1, <1>2 DEF TypeInv, TypeOK
<1> QED BY <1>1, <1>2, <1>3, KeepsTypeInv

\* The three rows a fenced transition reads are well-formed.
LEMMA FencedRows ==
    ASSUME TypeInv, NEW a \in DOMAIN attempts
    PROVE  /\ a \in AttemptIds /\ a = <<JobOf(a), NumberOf(a)>>
           /\ JobOf(a) \in DOMAIN jobs /\ JobOf(a) \in JobIds
           /\ NumberOf(a) \in Nat \ {0}
           /\ attempts[a] \in AttemptRow /\ leases[a] \in LeaseRow
           /\ jobs[JobOf(a)] \in JobRow
           /\ jobs[JobOf(a)].def.maxAttempts \in Nat \ {0}
           /\ jobs[JobOf(a)].def.timeout \in Nat \ {0}
           /\ attempts[a].session \in DOMAIN sessions
           /\ now \in Nat
<1>1. a \in AttemptIds /\ JobOf(a) \in DOMAIN jobs /\ now \in Nat
  BY DEF TypeInv, TypeOK, Linked
<1>2. attempts[a] \in AttemptRow /\ leases[a] \in LeaseRow
      /\ jobs[JobOf(a)] \in JobRow
  BY <1>1 DEF TypeInv, TypeOK
<1>3. jobs[JobOf(a)].def \in Definition
  BY <1>2, ConstantsAssumption DEF JobRow
<1>4. /\ jobs[JobOf(a)].def.maxAttempts \in Nat \ {0}
      /\ jobs[JobOf(a)].def.timeout \in Nat \ {0}
  BY <1>3 DEF Definition
<1> QED BY <1>1, <1>2, <1>4 DEF AttemptIds, JobOf, NumberOf, TypeInv, Linked

(***************************************************************************)
(* What finalizeAttempt leaves behind, whatever its decision: job is the   *)
(* job's new row, delay what the attempt records and reason what the       *)
(* dead-letter entry says, if there is one.                                *)
(***************************************************************************)
Finalized(a, status, class, leaseStatus, job, delay, reason) ==
    /\ attempts' = [attempts EXCEPT ![a] =
                      Recorded(attempts[a], status, class, delay)]
    /\ leases' = [leases EXCEPT ![a] =
                    [leases[a] EXCEPT !.status = leaseStatus]]
    /\ jobs' = [jobs EXCEPT ![JobOf(a)] = job]
    /\ job.def = jobs[JobOf(a)].def
    /\ job.replayOf = jobs[JobOf(a)].replayOf
    /\ UNCHANGED <<now, sessions, results, submissions, replays>>
    /\ \/ /\ job.status = "RETRY_WAIT"
          /\ delay # NULL /\ delay > 0
          /\ NumberOf(a) < job.def.maxAttempts
          /\ UNCHANGED <<outbox, dlq>>
       \/ /\ job.status = "QUEUED"
          /\ delay = 0
          /\ NumberOf(a) < job.def.maxAttempts
          /\ job.generation = jobs[JobOf(a)].generation + 1
          /\ job.notifiedAt = now
          /\ job.availableAt = now
          /\ outbox' = WorkAvailable(JobOf(a), job.generation, now)
          /\ UNCHANGED dlq
       \/ /\ job.status = "DEAD_LETTERED"
          /\ delay = NULL
          /\ dlq' = WithRow(dlq, JobOf(a), [attempt |-> a, reason |-> reason])
          /\ reason = IF class = "PERMANENT" THEN "PERMANENT_FAILURE"
                                             ELSE "ATTEMPTS_EXHAUSTED"
          /\ class # "PERMANENT" => NumberOf(a) >= job.def.maxAttempts
          /\ UNCHANGED outbox

LEMMA FinalizeAttemptFacts ==
    ASSUME TypeInv, NEW a \in DOMAIN attempts, NEW status,
           NEW class \in FailureClass \ {"CANCELED"}, NEW leaseStatus,
           FinalizeAttempt(a, status, class, leaseStatus)
    PROVE  \E job \in JobRow, delay \in Nat \cup {NULL}, reason \in DLQReason :
              Finalized(a, status, class, leaseStatus, job, delay, reason)
<1> DEFINE j == JobOf(a)
           old == jobs[j]
<1>1. /\ old \in JobRow /\ NumberOf(a) \in Nat
      /\ old.def.maxAttempts \in Nat /\ now \in Nat /\ j \in DOMAIN jobs
  BY FencedRows
<1>2. PICK decision \in Decide(class, NumberOf(a), old.def.maxAttempts) :
         FinalizeAttempt(a, status, class, leaseStatus)!1!(decision)
  BY Zenon DEF FinalizeAttempt
<1> DEFINE delay == decision.delay
<1>3. /\ delay \in Nat \cup {NULL}
      /\ delay # NULL => NumberOf(a) < old.def.maxAttempts
      /\ delay = NULL =>
            /\ decision.reason \in DLQReason
            /\ decision.reason = IF class = "PERMANENT"
                                 THEN "PERMANENT_FAILURE"
                                 ELSE "ATTEMPTS_EXHAUSTED"
            /\ class # "PERMANENT" => NumberOf(a) >= old.def.maxAttempts
  BY <1>1, <1>2, DecideFacts
<1>4. /\ attempts' = [attempts EXCEPT ![a] =
                        Recorded(attempts[a], status, class, delay)]
      /\ leases' = [leases EXCEPT ![a] =
                      [leases[a] EXCEPT !.status = leaseStatus]]
      /\ UNCHANGED <<now, sessions, results, submissions, replays>>
  BY <1>2
<1>5. CASE delay # NULL /\ delay > 0
  <2> DEFINE job == [old EXCEPT !.status = "RETRY_WAIT",
                                !.availableAt = now + delay]
  <2>0. job \in JobRow
    <3>1. now + delay \in Nat
      BY <1>1, <1>3, <1>5
    <3> QED BY Zenon, <1>1, <3>1, JobRowTypes DEF JobStatus
  <2>1. /\ job.status = "RETRY_WAIT" /\ job.def = old.def
        /\ job.replayOf = old.replayOf
    BY <1>1 DEF JobRow
  <2>2. jobs' = [jobs EXCEPT ![j] = job] /\ UNCHANGED <<outbox, dlq>>
    BY <1>2, <1>5, ConstantsAssumption
  <2>3. Finalized(a, status, class, leaseStatus, job, delay,
                  "ATTEMPTS_EXHAUSTED")
    BY <1>3, <1>4, <1>5, <2>1, <2>2 DEF Finalized
  <2> QED BY <1>3, <2>0, <2>3 DEF DLQReason
<1>6. CASE delay = 0
  <2> DEFINE job == [Requeued(old) EXCEPT !.availableAt = now]
  <2>1. Requeued(old) \in JobRow
    BY <1>1, RequeuedType
  <2>2. /\ Requeued(old).status = "QUEUED" /\ Requeued(old).def = old.def
        /\ Requeued(old).replayOf = old.replayOf
        /\ Requeued(old).generation = old.generation + 1
        /\ Requeued(old).notifiedAt = now
    BY <1>1 DEF Requeued, JobRow
  <2>3. /\ job \in JobRow
        /\ job.status = "QUEUED" /\ job.def = old.def
        /\ job.replayOf = old.replayOf
        /\ job.generation = old.generation + 1
        /\ job.notifiedAt = now /\ job.availableAt = now
    BY Zenon, <1>1, <2>1, <2>2, JobRowTypes DEF JobRow
  <2>4. /\ jobs' = [jobs EXCEPT ![j] = job] /\ UNCHANGED dlq
        /\ outbox' = WorkAvailable(j, old.generation + 1, now)
    BY <1>2, <1>6, ConstantsAssumption
  <2>5. NumberOf(a) < old.def.maxAttempts
    BY <1>3, <1>6, ConstantsAssumption
  <2> HIDE DEF job
  <2>6. Finalized(a, status, class, leaseStatus, job, delay,
                  "ATTEMPTS_EXHAUSTED")
    BY <1>4, <1>6, <2>3, <2>4, <2>5 DEF Finalized
  <2> QED BY Zenon, <1>3, <2>3, <2>6 DEF DLQReason
<1>7. CASE delay = NULL
  <2> DEFINE job == [old EXCEPT !.status = "DEAD_LETTERED"]
  <2>0. job \in JobRow
    BY Zenon, <1>1, JobRowTypes DEF JobStatus
  <2>1. /\ job.status = "DEAD_LETTERED" /\ job.def = old.def
        /\ job.replayOf = old.replayOf
    BY <1>1 DEF JobRow
  <2>2. /\ jobs' = [jobs EXCEPT ![j] = job] /\ UNCHANGED outbox
        /\ dlq' = WithRow(dlq, j, [attempt |-> a, reason |-> decision.reason])
    BY <1>2, <1>7, ConstantsAssumption
  <2>3. Finalized(a, status, class, leaseStatus, job, delay, decision.reason)
    BY <1>3, <1>4, <1>7, <2>1, <2>2 DEF Finalized
  <2> QED BY <1>3, <1>7, <2>0, <2>3
<1> QED BY <1>2, <1>5, <1>6, <1>7

\* A transaction that ends attempt a.
Ends(a) ==
    \/ \E withResult \in BOOLEAN : Succeed(a, withResult)
    \/ \E class \in {"RETRYABLE", "PERMANENT"} : Fail(a, class)
    \/ AcknowledgeCancellation(a)
    \/ ReconcileDueTimeout(a)
    \/ ReconcileExpiredLease(a)

\* Whoever ends an attempt ends one that executes under an ACTIVE lease, with
\* success, by finalizeAttempt or, if the job's cancellation was requested,
\* by finalizeCancellation.
LEMMA EndsCases ==
    ASSUME NEW a, Ends(a)
    PROVE  /\ Executing(a)
           /\ leases[a].status = "ACTIVE"
           /\ jobs[JobOf(a)].status \in HeldJob
           /\ \/ \E withResult \in BOOLEAN : Succeed(a, withResult)
              \/ /\ jobs[JobOf(a)].status \in {"LEASED", "RUNNING"}
                 /\ \E status \in {"FAILED", "TIMED_OUT", "ABANDONED"},
                       class \in FailureClass \ {"CANCELED"},
                       leaseStatus \in {"RELEASED", "EXPIRED"} :
                          FinalizeAttempt(a, status, class, leaseStatus)
              \/ /\ jobs[JobOf(a)].status = "CANCEL_REQUESTED"
                 /\ \E leaseStatus \in {"RELEASED", "EXPIRED"} :
                       FinalizeCancellation(a, leaseStatus)
<1>1. CASE \E withResult \in BOOLEAN : Succeed(a, withResult)
  BY <1>1 DEF Succeed, MayReport, LeaseUsable, Executing, HeldJob
<1>2. CASE \E class \in {"RETRYABLE", "PERMANENT"} : Fail(a, class)
  BY <1>2 DEF Fail, MayReport, LeaseUsable, Executing, HeldJob, FailureClass
<1>3. CASE AcknowledgeCancellation(a)
  BY <1>3 DEF AcknowledgeCancellation, LeaseUsable, HeldJob
<1>4. CASE ReconcileDueTimeout(a)
  BY <1>4 DEF ReconcileDueTimeout, FinalizeTimeout, LeaseUsable, Executing,
              HeldJob, FailureClass
<1>5. CASE ReconcileExpiredLease(a)
  BY <1>5 DEF ReconcileExpiredLease, FinalizeTimeout, HeldJob, FailureClass
<1> QED BY <1>1, <1>2, <1>3, <1>4, <1>5 DEF Ends

LEMMA EndsType ==
    ASSUME TypeInv, NEW a \in DOMAIN attempts, Ends(a)
    PROVE  TypeInv'
<1> DEFINE j == JobOf(a)
<1>1. /\ a \in AttemptIds /\ j \in DOMAIN jobs /\ j \in JobIds
      /\ attempts[a] \in AttemptRow /\ leases[a] \in LeaseRow
      /\ jobs[j] \in JobRow /\ now \in Nat
  BY FencedRows
<1>2. CASE \E withResult \in BOOLEAN : Succeed(a, withResult)
  <2>1. /\ [jobs[j] EXCEPT !.status = "SUCCEEDED"] \in JobRow
        /\ [attempts[a] EXCEPT !.status = "SUCCEEDED"] \in AttemptRow
        /\ [attempts[a] EXCEPT !.status = "SUCCEEDED"].session
              = attempts[a].session
        /\ [leases[a] EXCEPT !.status = "COMPLETED"] \in LeaseRow
    BY <1>1 DEF JobRow, AttemptRow, LeaseRow, JobStatus, AttemptStatus,
                LeaseStatus
  <2>2. /\ attempts' = [attempts EXCEPT ![a] =
                          [attempts[a] EXCEPT !.status = "SUCCEEDED"]]
        /\ leases' = [leases EXCEPT ![a] =
                        [leases[a] EXCEPT !.status = "COMPLETED"]]
        /\ jobs' = [jobs EXCEPT ![j] =
                      [jobs[j] EXCEPT !.status = "SUCCEEDED"]]
        /\ UNCHANGED <<now, sessions, outbox, dlq, submissions, replays>>
        /\ results' \subseteq results \cup {a}
    BY <1>2 DEF Succeed
  <2>3. results' \subseteq AttemptIds
    BY <1>1, <2>2 DEF TypeInv, TypeOK
  <2> QED BY Zenon, <2>1, <2>2, <2>3, AttemptStepType DEF TypeInv, TypeOK
<1>3. ASSUME NEW status \in {"FAILED", "TIMED_OUT", "ABANDONED"},
             NEW class \in FailureClass \ {"CANCELED"},
             NEW leaseStatus \in {"RELEASED", "EXPIRED"},
             FinalizeAttempt(a, status, class, leaseStatus)
      PROVE  TypeInv'
  <2>1. PICK job \in JobRow, delay \in Nat \cup {NULL}, reason \in DLQReason :
           Finalized(a, status, class, leaseStatus, job, delay, reason)
    BY <1>3, FinalizeAttemptFacts
  <2>2. /\ Recorded(attempts[a], status, class, delay) \in AttemptRow
        /\ Recorded(attempts[a], status, class, delay).session
              = attempts[a].session
        /\ [leases[a] EXCEPT !.status = leaseStatus] \in LeaseRow
    BY Zenon, <1>1
    DEF Recorded, AttemptRow, LeaseRow, AttemptStatus, LeaseStatus
  <2>3. /\ DOMAIN outbox' \subseteq EventIds
        /\ outbox' \in [DOMAIN outbox' -> {"PENDING", "PUBLISHED"}]
    <3>1. CASE UNCHANGED outbox
      BY <3>1 DEF TypeInv, TypeOK
    <3>2. CASE /\ outbox' = WorkAvailable(j, job.generation, now)
               /\ job.generation = jobs[j].generation + 1
      <4>1. <<j, job.generation, now>> \in EventIds
        BY <1>1, <3>2 DEF JobRow, EventIds
      <4> QED BY <3>2, <4>1 DEF TypeInv, TypeOK, WorkAvailable, WithRow
    <3> QED BY <2>1, <3>1, <3>2 DEF Finalized
  <2>4. /\ DOMAIN dlq' \subseteq JobIds
        /\ dlq' \in [DOMAIN dlq' ->
                       [attempt : AttemptIds, reason : DLQReason]]
    <3>1. CASE UNCHANGED dlq
      BY <3>1 DEF TypeInv, TypeOK
    <3>2. CASE dlq' = WithRow(dlq, j, [attempt |-> a, reason |-> reason])
      BY <1>1, <3>2 DEF TypeInv, TypeOK, WithRow
    <3> QED BY <2>1, <3>1, <3>2 DEF Finalized
  <2> QED BY Zenon, <2>1, <2>2, <2>3, <2>4, AttemptStepType
             DEF Finalized, TypeInv, TypeOK
<1>4. ASSUME NEW leaseStatus \in {"RELEASED", "EXPIRED"},
             FinalizeCancellation(a, leaseStatus)
      PROVE  TypeInv'
  <2> DEFINE attempt == [attempts[a] EXCEPT !.status = "CANCELED",
                                            !.class = "CANCELED"]
             lease == [leases[a] EXCEPT !.status = leaseStatus]
             job == [jobs[j] EXCEPT !.status = "CANCELED"]
  <2>1. /\ job \in JobRow /\ attempt \in AttemptRow /\ lease \in LeaseRow
        /\ attempt.session = attempts[a].session
    BY Zenon, <1>1 DEF JobRow, AttemptRow, LeaseRow, JobStatus, AttemptStatus,
                LeaseStatus, FailureClass
  <2>2. /\ attempts' = [attempts EXCEPT ![a] = attempt]
        /\ leases' = [leases EXCEPT ![a] = lease]
        /\ jobs' = [jobs EXCEPT ![j] = job]
        /\ UNCHANGED <<now, sessions, outbox, dlq, results, submissions,
                       replays>>
    BY <1>4 DEF FinalizeCancellation
  <2> HIDE DEF attempt, lease, job
  <2> QED BY Zenon, <2>1, <2>2, AttemptStepType DEF TypeInv, TypeOK
<1> QED BY <1>2, <1>3, <1>4, EndsCases

LEMMA StartType ==
    ASSUME TypeInv, NEW a \in DOMAIN attempts, Start(a)
    PROVE  TypeInv'
<1> DEFINE j == JobOf(a)
           attempt == [attempts[a] EXCEPT
                         !.status = "RUNNING",
                         !.timeoutAt = now + jobs[j].def.timeout]
           job == [jobs[j] EXCEPT !.status = "RUNNING"]
<1>1. /\ attempts[a] \in AttemptRow /\ leases[a] \in LeaseRow
      /\ jobs[j] \in JobRow /\ now + jobs[j].def.timeout \in Nat
  BY FencedRows
<1>2. job \in JobRow
  BY <1>1 DEF JobRow, JobStatus
<1>3. attempt \in AttemptRow /\ attempt.session = attempts[a].session
  BY Zenon, <1>1 DEF AttemptRow, AttemptStatus
<1>4. /\ attempts' = [attempts EXCEPT ![a] = attempt]
      /\ leases' = [leases EXCEPT ![a] = leases[a]]
      /\ jobs' = [jobs EXCEPT ![j] = job]
      /\ UNCHANGED <<now, sessions, outbox, dlq, results, submissions,
                     replays>>
  BY DEF Start, TypeInv, TypeOK
<1> HIDE DEF attempt, job
<1> QED BY Zenon, <1>1, <1>2, <1>3, <1>4, AttemptStepType DEF TypeInv, TypeOK

LEMMA RenewLeaseType ==
    ASSUME TypeInv, NEW a \in DOMAIN attempts, RenewLease(a)
    PROVE  TypeInv'
<1>1. leases[a] \in LeaseRow /\ now + LeaseDuration \in Nat
  BY FencedRows, ConstantsAssumption
<1>2. leases' \in [DOMAIN attempts -> LeaseRow]
  <2>1. [leases[a] EXCEPT !.expiresAt = now + LeaseDuration] \in LeaseRow
    BY <1>1 DEF LeaseRow
  <2> QED BY <2>1 DEF TypeInv, TypeOK, RenewLease
<1>3. UNCHANGED <<now, jobs, attempts, sessions, outbox, dlq, results,
                  submissions, replays>>
  BY DEF RenewLease
<1>4. TypeOK'
  BY <1>2, <1>3 DEF TypeInv, TypeOK
<1> QED BY <1>3, <1>4, KeepsTypeInv

\* A step that leaves every table but the outbox alone.
LEMMA QuietType ==
    ASSUME TypeInv,
           Tick \/ (\E e \in DOMAIN outbox : MarkPublished(e)) \/ UNCHANGED vars
    PROVE  TypeInv'
<1>1. /\ now' \in Nat
      /\ DOMAIN outbox' \subseteq EventIds
      /\ outbox' \in [DOMAIN outbox' -> {"PENDING", "PUBLISHED"}]
  BY DEF TypeInv, TypeOK, Tick, MarkPublished, vars
<1>2. UNCHANGED <<jobs, attempts, leases, sessions, dlq, results, submissions,
                  replays>>
  BY DEF Tick, MarkPublished, vars
<1>3. TypeOK'
  BY <1>1, <1>2 DEF TypeInv, TypeOK
<1> QED BY <1>2, <1>3, KeepsTypeInv

\* Next, with the five ways to end an attempt taken together.
LEMMA NextCases ==
    ASSUME [Next]_vars
    PROVE  \/ Tick \/ (\E e \in DOMAIN outbox : MarkPublished(e))
              \/ UNCHANGED vars
           \/ \E j \in JobIds, k \in Keys, d \in Definitions,
                 delay \in Schedules, lag \in SubmitLags :
                    Submit(j, k, d, delay, lag)
           \/ \E original \in DOMAIN jobs, k \in Keys, j \in JobIds :
                 Replay(original, k, j)
           \/ \E j \in DOMAIN jobs : \/ RequestCancel(j) \/ PromoteDueJob(j)
                                     \/ RenotifyStrandedJob(j)
           \/ \/ \E s \in SessionIds, r \in Registrations : Register(s, r)
              \/ \E s \in DOMAIN sessions : Heartbeat(s) \/ MarkSessionStale(s)
           \/ \E s \in DOMAIN sessions, e \in DOMAIN outbox,
                 j \in DOMAIN jobs : Claim(s, e, j)
           \/ \E a \in DOMAIN attempts : Start(a)
           \/ \E a \in DOMAIN attempts : RenewLease(a)
           \/ \E a \in DOMAIN attempts : Ends(a)
BY DEF Next, ClientStep, WorkerStep, ServiceStep, Ends

LEMMA TypeInvStep == TypeInv /\ [Next]_vars => TypeInv'
BY NextCases, QuietType, SubmitType, ReplayType, JobStepType, SessionStepType,
   ClaimType, StartType, RenewLeaseType, EndsType

\* Every transaction leaves well-formed rows, whatever jobs and workers do.
THEOREM TypeCorrect == Spec => []TypeOK
<1>1. TypeInv => TypeOK
  BY DEF TypeInv
<1> QED BY <1>1, TypeInvInit, TypeInvStep, PTL DEF Spec

-----------------------------------------------------------------------------
(***************************************************************************)
(* Claims.                                                                 *)
(***************************************************************************)

\* What Claim leaves behind: attempt a of a queued job, and no other change.
Claimed(s, e, j, a) ==
    /\ a \notin DOMAIN attempts
    /\ DOMAIN attempts' = DOMAIN attempts \cup {a}
    /\ attempts'[a] = [session |-> s, status |-> "LEASED", timeoutAt |-> NULL,
                       class |-> NULL, retryDelay |-> NULL]
    /\ leases'[a] = [status |-> "ACTIVE", claim |-> e,
                     expiresAt |-> now + LeaseDuration]
    /\ \A b \in DOMAIN attempts : /\ attempts'[b] = attempts[b]
                                  /\ leases'[b] = leases[b]
    /\ DOMAIN jobs' = DOMAIN jobs
    /\ jobs'[j] = [jobs[j] EXCEPT !.status = "LEASED"]
    /\ \A i \in DOMAIN jobs : i # j => jobs'[i] = jobs[i]
    /\ jobs[j].status = "QUEUED"
    /\ UNCHANGED <<now, sessions, outbox, dlq, results, submissions, replays>>

\* A claim creates the next attempt of its job.
LEMMA ClaimRows ==
    ASSUME TypeInv, NEW s \in DOMAIN sessions, NEW e \in DOMAIN outbox,
           NEW j \in DOMAIN jobs, Claim(s, e, j)
    PROVE  Claimed(s, e, j, <<j, NextNumber(j)>>)
<1>1. PICK k \in Nat : Numbers(j) = 1..k /\ NextNumber(j) = k + 1
  BY NumbersFacts DEF TypeInv, Dense
<1>a. PICK a : a = <<j, k + 1>>
  BY Zenon
<1>2. a \notin DOMAIN attempts
  <2>1. k + 1 \notin Numbers(j)
    BY <1>1
  <2> QED BY <1>a, <2>1 DEF Numbers, JobOf, NumberOf
<1>3. /\ attempts' = WithRow(attempts, a,
                        [session |-> s, status |-> "LEASED", timeoutAt |-> NULL,
                         class |-> NULL, retryDelay |-> NULL])
      /\ leases' = WithRow(leases, a,
                      [status |-> "ACTIVE", claim |-> e,
                       expiresAt |-> now + LeaseDuration])
      /\ jobs' = [jobs EXCEPT ![j] = [jobs[j] EXCEPT !.status = "LEASED"]]
      /\ UNCHANGED <<now, sessions, outbox, dlq, results, submissions, replays>>
  BY <1>1, <1>a DEF Claim
<1>4. DOMAIN leases = DOMAIN attempts
  BY DEF TypeInv, TypeOK
<1>5. /\ DOMAIN attempts' = DOMAIN attempts \cup {a}
      /\ attempts'[a] = [session |-> s, status |-> "LEASED",
                         timeoutAt |-> NULL, class |-> NULL,
                         retryDelay |-> NULL]
      /\ \A b \in DOMAIN attempts : attempts'[b] = attempts[b]
  BY <1>2, <1>3 DEF WithRow
<1>6. /\ leases'[a] = [status |-> "ACTIVE", claim |-> e,
                       expiresAt |-> now + LeaseDuration]
      /\ \A b \in DOMAIN attempts : leases'[b] = leases[b]
  BY <1>2, <1>3, <1>4 DEF WithRow
<1>7. /\ DOMAIN jobs' = DOMAIN jobs
      /\ jobs'[j] = [jobs[j] EXCEPT !.status = "LEASED"]
      /\ \A i \in DOMAIN jobs : i # j => jobs'[i] = jobs[i]
  BY <1>3 DEF TypeInv, TypeOK
<1>8. jobs[j].status = "QUEUED"
  BY DEF Claim, Claimable
<1> QED BY <1>1, <1>a, <1>2, <1>3, <1>5, <1>6, <1>7, <1>8 DEF Claimed

-----------------------------------------------------------------------------
(***************************************************************************)
(* What a step does to an attempt and its lease.                           *)
(***************************************************************************)

Untouched(a) == attempts'[a] = attempts[a] /\ leases'[a] = leases[a]

Started(a) ==
    /\ attempts[a].status = "LEASED"
    /\ attempts'[a].status = "RUNNING"
    /\ attempts'[a].session = attempts[a].session
    /\ \E t \in Nat \ {0} : attempts'[a].timeoutAt = now + t
    /\ leases'[a] = leases[a]

Renewed(a) ==
    /\ Executing(a)
    /\ now < leases[a].expiresAt
    /\ ~TimedOut(a)
    /\ attempts'[a] = attempts[a]
    /\ leases'[a].expiresAt = now + LeaseDuration
    /\ leases'[a].claim = leases[a].claim

\* The verdict of a step that ends an attempt follows from the two instants.
Concluded(a) ==
    /\ Executing(a)
    /\ ~Executing(a)'
    /\ attempts'[a].session = attempts[a].session
    /\ attempts'[a].timeoutAt = attempts[a].timeoutAt
    /\ leases'[a].expiresAt = leases[a].expiresAt
    /\ leases'[a].claim = leases[a].claim
    /\ attempts'[a].status = "TIMED_OUT"
          => /\ attempts[a].timeoutAt # NULL
             /\ leases[a].expiresAt >= attempts[a].timeoutAt
    /\ attempts'[a].status = "ABANDONED" /\ attempts[a].timeoutAt # NULL
          => leases[a].expiresAt < attempts[a].timeoutAt

\* A row of attempts, and one of leases, that is overwritten.
LEMMA OneAttemptWritten ==
    ASSUME TypeInv, NEW a \in DOMAIN attempts, NEW attempt, NEW lease,
           attempts' = [attempts EXCEPT ![a] = attempt],
           leases' = [leases EXCEPT ![a] = lease]
    PROVE  /\ DOMAIN attempts' = DOMAIN attempts
           /\ attempts'[a] = attempt /\ leases'[a] = lease
           /\ \A b \in DOMAIN attempts \ {a} : Untouched(b)
<1>1. DOMAIN leases = DOMAIN attempts BY DEF TypeInv, TypeOK
<1> QED BY <1>1 DEF Untouched

\* The columns of an attempt that ends.
LEMMA EndedColumns ==
    ASSUME NEW row \in AttemptRow, NEW lease \in LeaseRow, NEW status,
           NEW class, NEW delay, NEW leaseStatus
    PROVE  /\ Recorded(row, status, class, delay).status = status
           /\ Recorded(row, status, class, delay).session = row.session
           /\ Recorded(row, status, class, delay).timeoutAt = row.timeoutAt
           /\ Recorded(row, status, class, delay).retryDelay = delay
           /\ [row EXCEPT !.status = status].status = status
           /\ [row EXCEPT !.status = status].session = row.session
           /\ [row EXCEPT !.status = status].timeoutAt = row.timeoutAt
           /\ [row EXCEPT !.status = status, !.class = class].status = status
           /\ [row EXCEPT !.status = status, !.class = class].session = row.session
           /\ [row EXCEPT !.status = status, !.class = class].timeoutAt = row.timeoutAt
           /\ [lease EXCEPT !.status = leaseStatus].expiresAt = lease.expiresAt
           /\ [lease EXCEPT !.status = leaseStatus].claim = lease.claim
BY DEF AttemptRow, LeaseRow, Recorded

\* What finalizeAttempt and finalizeCancellation do to the attempt's rows.
LEMMA FinalizeRows ==
    ASSUME TypeInv, NEW a \in DOMAIN attempts, NEW status, NEW class, NEW leaseStatus,
           FinalizeAttempt(a, status, class, leaseStatus)
    PROVE  /\ DOMAIN attempts' = DOMAIN attempts
           /\ \A b \in DOMAIN attempts \ {a} : Untouched(b)
           /\ attempts'[a].status = status
           /\ attempts'[a].session = attempts[a].session
           /\ attempts'[a].timeoutAt = attempts[a].timeoutAt
           /\ leases'[a].expiresAt = leases[a].expiresAt
           /\ leases'[a].claim = leases[a].claim
<1>1. attempts[a] \in AttemptRow /\ leases[a] \in LeaseRow BY FencedRows
<1>2. PICK delay : /\ attempts' = [attempts EXCEPT ![a] = Recorded(attempts[a], status, class, delay)]
                   /\ leases' = [leases EXCEPT ![a] = [leases[a] EXCEPT !.status = leaseStatus]]
  BY Zenon DEF FinalizeAttempt
<1>3. /\ DOMAIN attempts' = DOMAIN attempts
      /\ attempts'[a] = Recorded(attempts[a], status, class, delay)
      /\ leases'[a] = [leases[a] EXCEPT !.status = leaseStatus]
      /\ \A b \in DOMAIN attempts \ {a} : Untouched(b)
  BY Zenon, <1>2, OneAttemptWritten
<1> QED BY <1>1, <1>3, EndedColumns

LEMMA CancellationRows ==
    ASSUME TypeInv, NEW a \in DOMAIN attempts, NEW leaseStatus,
           FinalizeCancellation(a, leaseStatus)
    PROVE  /\ DOMAIN attempts' = DOMAIN attempts
           /\ \A b \in DOMAIN attempts \ {a} : Untouched(b)
           /\ attempts'[a].status = "CANCELED"
           /\ attempts'[a].session = attempts[a].session
           /\ attempts'[a].timeoutAt = attempts[a].timeoutAt
           /\ leases'[a].expiresAt = leases[a].expiresAt
           /\ leases'[a].claim = leases[a].claim
<1>1. attempts[a] \in AttemptRow /\ leases[a] \in LeaseRow BY FencedRows
<1>2. /\ DOMAIN attempts' = DOMAIN attempts
      /\ attempts'[a] = [attempts[a] EXCEPT !.status = "CANCELED", !.class = "CANCELED"]
      /\ leases'[a] = [leases[a] EXCEPT !.status = leaseStatus]
      /\ \A b \in DOMAIN attempts \ {a} : Untouched(b)
  BY Zenon, OneAttemptWritten DEF FinalizeCancellation
<1> QED BY <1>1, <1>2, EndedColumns

\* Every way to end an attempt: the verdict is timed out exactly when the
\* lease reached the deadline, whichever sweep or report decides it.
LEMMA EndsRows ==
    ASSUME TypeInv, NEW a \in DOMAIN attempts, Ends(a)
    PROVE  /\ DOMAIN attempts' = DOMAIN attempts
           /\ \A b \in DOMAIN attempts \ {a} : Untouched(b)
           /\ Concluded(a)
           /\ now' = now
<1>1. Executing(a) BY EndsCases
<1>2. /\ attempts[a] \in AttemptRow /\ leases[a] \in LeaseRow /\ now \in Nat
      /\ leases[a].expiresAt \in Nat
      /\ attempts[a].timeoutAt # NULL => attempts[a].timeoutAt \in Nat
  BY FencedRows DEF LeaseRow, AttemptRow
<1>3. CASE \E withResult \in BOOLEAN : Succeed(a, withResult)
  <2>1. /\ DOMAIN attempts' = DOMAIN attempts
        /\ attempts'[a] = [attempts[a] EXCEPT !.status = "SUCCEEDED"]
        /\ leases'[a] = [leases[a] EXCEPT !.status = "COMPLETED"]
        /\ \A b \in DOMAIN attempts \ {a} : Untouched(b)
    <3>1. /\ attempts' = [attempts EXCEPT ![a] = [attempts[a] EXCEPT !.status = "SUCCEEDED"]]
          /\ leases' = [leases EXCEPT ![a] = [leases[a] EXCEPT !.status = "COMPLETED"]]
      BY <1>3 DEF Succeed
    <3> QED BY Zenon, <3>1, OneAttemptWritten
  <2>2. now' = now BY <1>3 DEF Succeed
  <2> QED BY <1>1, <1>2, <2>1, <2>2, EndedColumns DEF Concluded, Executing
<1>4. CASE \E class \in {"RETRYABLE", "PERMANENT"} : Fail(a, class)
  <2>1. PICK class : FinalizeAttempt(a, "FAILED", class, "RELEASED") BY <1>4 DEF Fail
  <2>2. now' = now BY <2>1 DEF FinalizeAttempt
  <2> QED BY <1>1, <2>1, <2>2, FinalizeRows DEF Concluded, Executing
<1>5. ASSUME NEW leaseStatus, FinalizeCancellation(a, leaseStatus)
      PROVE  /\ DOMAIN attempts' = DOMAIN attempts /\ Concluded(a) /\ now' = now
             /\ \A b \in DOMAIN attempts \ {a} : Untouched(b)
  <2>1. now' = now BY <1>5 DEF FinalizeCancellation
  <2> QED BY <1>1, <1>5, <2>1, CancellationRows DEF Concluded, Executing
<1>6. ASSUME FinalizeTimeout(a), TimedOut(a), leases[a].expiresAt >= attempts[a].timeoutAt
      PROVE  /\ DOMAIN attempts' = DOMAIN attempts /\ Concluded(a) /\ now' = now
             /\ \A b \in DOMAIN attempts \ {a} : Untouched(b)
  <2>1. PICK leaseStatus : FinalizeAttempt(a, "TIMED_OUT", "TIMED_OUT", leaseStatus)
    BY <1>6 DEF FinalizeTimeout
  <2>2. now' = now BY <2>1 DEF FinalizeAttempt
  <2> QED BY <1>1, <1>6, <2>1, <2>2, FinalizeRows DEF Concluded, Executing, TimedOut
<1>7. CASE ReconcileDueTimeout(a)
  <2>1. leases[a].expiresAt >= attempts[a].timeoutAt
    BY <1>2, <1>7 DEF ReconcileDueTimeout, LeaseUsable, TimedOut
  <2> QED BY <1>6, <1>7, <2>1 DEF ReconcileDueTimeout
<1>8. CASE ReconcileExpiredLease(a)
  <2>1. CASE FinalizeCancellation(a, "EXPIRED") BY <1>5, <2>1
  <2>2. CASE TimedOutBeforeLapse(a) /\ FinalizeTimeout(a)
    BY <1>6, <2>2 DEF TimedOutBeforeLapse
  <2>3. CASE ~TimedOutBeforeLapse(a) /\ FinalizeAttempt(a, "ABANDONED", "ABANDONED", "EXPIRED")
    <3>1. attempts[a].timeoutAt # NULL => leases[a].expiresAt < attempts[a].timeoutAt
      BY <1>2, <1>8, <2>3 DEF ReconcileExpiredLease, TimedOutBeforeLapse, TimedOut
    <3>2. now' = now BY <2>3 DEF FinalizeAttempt
    <3> QED BY <1>1, <2>3, <3>1, <3>2, FinalizeRows DEF Concluded, Executing
  <2> QED BY <1>8, <2>1, <2>2, <2>3 DEF ReconcileExpiredLease
<1>9. CASE AcknowledgeCancellation(a) BY <1>5, <1>9 DEF AcknowledgeCancellation
<1> QED BY <1>3, <1>4, <1>7, <1>8, <1>9 DEF Ends

LEMMA StartRows ==
    ASSUME TypeInv, NEW a \in DOMAIN attempts, Start(a)
    PROVE  /\ DOMAIN attempts' = DOMAIN attempts
           /\ \A b \in DOMAIN attempts \ {a} : Untouched(b)
           /\ Started(a)
           /\ now' = now
<1> DEFINE t == jobs[JobOf(a)].def.timeout
           row == [attempts[a] EXCEPT !.status = "RUNNING", !.timeoutAt = now + t]
<1>1. attempts[a] \in AttemptRow /\ t \in Nat \ {0} /\ DOMAIN leases = DOMAIN attempts
  BY FencedRows DEF TypeInv, TypeOK
<1>2. row.status = "RUNNING" /\ row.timeoutAt = now + t /\ row.session = attempts[a].session
  BY <1>1 DEF AttemptRow
<1>3. attempts' = [attempts EXCEPT ![a] = row] /\ leases' = leases /\ now' = now
      /\ attempts[a].status = "LEASED"
  BY DEF Start
<1> HIDE DEF row, t
<1>4. DOMAIN attempts' = DOMAIN attempts /\ attempts'[a] = row
      /\ \A b \in DOMAIN attempts \ {a} : Untouched(b)
  BY <1>3 DEF Untouched
<1> QED BY <1>1, <1>2, <1>3, <1>4 DEF Started

LEMMA RenewRows ==
    ASSUME TypeInv, NEW a \in DOMAIN attempts, RenewLease(a)
    PROVE  /\ DOMAIN attempts' = DOMAIN attempts
           /\ \A b \in DOMAIN attempts \ {a} : Untouched(b)
           /\ Renewed(a)
           /\ now' = now
<1> DEFINE row == [leases[a] EXCEPT !.expiresAt = now + LeaseDuration]
<1>1. leases[a] \in LeaseRow /\ DOMAIN leases = DOMAIN attempts
  BY FencedRows DEF TypeInv, TypeOK
<1>2. row.expiresAt = now + LeaseDuration /\ row.claim = leases[a].claim
  BY <1>1 DEF LeaseRow
<1>3. leases' = [leases EXCEPT ![a] = row] /\ attempts' = attempts /\ now' = now
      /\ Executing(a) /\ now < leases[a].expiresAt /\ ~TimedOut(a)
  BY DEF RenewLease, LeaseUsable
<1> HIDE DEF row
<1>4. leases'[a] = row /\ \A b \in DOMAIN attempts \ {a} : Untouched(b)
  BY <1>1, <1>3 DEF Untouched
<1> QED BY <1>2, <1>3, <1>4 DEF Renewed

\* No step forgets an attempt, and whatever it does to one is one of four
\* things; a new attempt begins with a whole lease and no deadline.
AttemptsKept ==
    /\ now' \in Nat /\ now <= now'
    /\ DOMAIN attempts \subseteq DOMAIN attempts'
    /\ \A a \in DOMAIN attempts : Untouched(a) \/ Started(a) \/ Renewed(a) \/ Concluded(a)
    /\ \A a \in DOMAIN attempts' \ DOMAIN attempts :
          /\ attempts'[a].status = "LEASED" /\ attempts'[a].timeoutAt = NULL
          /\ leases'[a].expiresAt = now + LeaseDuration

LEMMA StepRows == ASSUME TypeInv, [Next]_vars PROVE AttemptsKept
<1>0. now \in Nat BY DEF TypeInv, TypeOK
<1>1. ASSUME now' = now \/ now' = now + 1, UNCHANGED <<attempts, leases>> PROVE AttemptsKept
  BY <1>0, <1>1 DEF Untouched, AttemptsKept
<1>2. CASE \/ Tick \/ (\E e \in DOMAIN outbox : MarkPublished(e)) \/ UNCHANGED vars
  BY <1>1, <1>2 DEF Tick, MarkPublished, vars
<1>3. ASSUME NEW j, NEW k, NEW d, NEW delay, NEW lag, Submit(j, k, d, delay, lag) PROVE AttemptsKept
  BY <1>1, <1>3 DEF Submit
<1>4. ASSUME NEW original, NEW k, NEW j, Replay(original, k, j) PROVE AttemptsKept
  BY <1>1, <1>4 DEF Replay
<1>5. ASSUME NEW j, RequestCancel(j) \/ PromoteDueJob(j) \/ RenotifyStrandedJob(j) PROVE AttemptsKept
  BY <1>1, <1>5 DEF RequestCancel, PromoteDueJob, RenotifyStrandedJob
<1>6. ASSUME NEW s, (\E r : Register(s, r)) \/ Heartbeat(s) \/ MarkSessionStale(s) PROVE AttemptsKept
  BY <1>1, <1>6, Zenon DEF Register, Heartbeat, MarkSessionStale
<1>7. ASSUME NEW s \in DOMAIN sessions, NEW e \in DOMAIN outbox, NEW j \in DOMAIN jobs, Claim(s, e, j)
      PROVE  AttemptsKept
  <2>1. Claimed(s, e, j, <<j, NextNumber(j)>>) BY <1>7, ClaimRows
  <2> QED BY <1>0, <2>1 DEF Claimed, Untouched, AttemptsKept
<1>8. ASSUME NEW a \in DOMAIN attempts, Start(a) PROVE AttemptsKept BY <1>0, <1>8, StartRows DEF AttemptsKept
<1>9. ASSUME NEW a \in DOMAIN attempts, RenewLease(a) PROVE AttemptsKept BY <1>0, <1>9, RenewRows DEF AttemptsKept
<1>10. ASSUME NEW a \in DOMAIN attempts, Ends(a) PROVE AttemptsKept BY <1>0, <1>10, EndsRows DEF AttemptsKept
<1> QED BY <1>2, <1>3, <1>4, <1>5, <1>6, <1>7, <1>8, <1>9, <1>10, NextCases

-----------------------------------------------------------------------------
(***************************************************************************)
(* The promise to the client, as the rows of ControlPlane show it.         *)
(***************************************************************************)

\* The refinement mapping.
AbstractStatus == [j \in JobIds |-> StatusOf(j)]

AbstractLeft == [j \in JobIds |-> AttemptsLeft(j)]

\* A step that shows on one job at most.
LEMMA ShowsOnOne ==
    ASSUME NEW j \in JobIds,
           \A i \in JobIds \ {j} : /\ StatusOf(i)' = StatusOf(i)
                                   /\ AttemptsLeft(i)' = AttemptsLeft(i)
    PROVE  /\ AbstractStatus' = [AbstractStatus EXCEPT ![j] = StatusOf(j)']
           /\ AbstractLeft' = [AbstractLeft EXCEPT ![j] = AttemptsLeft(j)']
           /\ AttemptsLeft(j)' = AttemptsLeft(j) => AbstractLeft' = AbstractLeft
           /\ AbstractStatus[j] = StatusOf(j) /\ AbstractLeft[j] = AttemptsLeft(j)
BY Zenon DEF AbstractStatus, AbstractLeft

\* A job that moves along the transition matrix, with the attempts it has left.
LEMMA MovesAreSteps ==
    ASSUME NEW j \in JobIds, NEW from, from = AbstractStatus[j],
           NEW n, n = AbstractLeft[j], NEW s, Lifecycle!Moves(j, s),
           \/ from \in WaitingJob /\ s = "CANCELED"
           \/ from \in {"LEASED", "RUNNING"} /\ s = "CANCEL_REQUESTED"
           \/ from \in {"PENDING", "RETRY_WAIT"} /\ s = "QUEUED"
           \/ from = "LEASED" /\ s = "RUNNING"
           \/ from = "RUNNING" /\ s = "SUCCEEDED"
           \/ from = "CANCEL_REQUESTED" /\ s = "CANCELED"
           \/ from \in {"LEASED", "RUNNING"} /\ s = "QUEUED" /\ n > 0
           \/ from = "RUNNING" /\ s = "RETRY_WAIT" /\ n > 0
           \/ from = "RUNNING" /\ s = "DEAD_LETTERED"
           \/ from = "LEASED" /\ s = "DEAD_LETTERED" /\ n = 0
    PROVE  Lifecycle!Next
<1> SUFFICES Lifecycle!Step(j)
  BY DEF Lifecycle!Next
<1>1. CASE from \in WaitingJob /\ s = "CANCELED"
  BY <1>1 DEF Lifecycle!Step, Lifecycle!RequestCancel, Lifecycle!Waiting, WaitingJob, AbstractStatus
<1>2. CASE from \in {"LEASED", "RUNNING"} /\ s = "CANCEL_REQUESTED"
  BY <1>2 DEF Lifecycle!Step, Lifecycle!RequestCancel, AbstractStatus
<1>3. CASE from \in {"PENDING", "RETRY_WAIT"} /\ s = "QUEUED"
  BY <1>3 DEF Lifecycle!Step, Lifecycle!Promote, AbstractStatus
<1>4. CASE from = "LEASED" /\ s = "RUNNING"
  BY <1>4 DEF Lifecycle!Step, Lifecycle!Run, AbstractStatus
<1>5. CASE from = "RUNNING" /\ s = "SUCCEEDED"
  BY <1>5 DEF Lifecycle!Step, Lifecycle!Conclude, Lifecycle!Succeed, AbstractStatus
<1>6. CASE from = "CANCEL_REQUESTED" /\ s = "CANCELED"
  BY <1>6 DEF Lifecycle!Step, Lifecycle!FinishCancel, AbstractStatus
<1>7. CASE from \in {"LEASED", "RUNNING"} /\ s = "QUEUED" /\ n > 0
  BY <1>7 DEF Lifecycle!Step, Lifecycle!Conclude, Lifecycle!Retry, AbstractStatus, AbstractLeft
<1>8. CASE from = "RUNNING" /\ s = "RETRY_WAIT" /\ n > 0
  BY <1>8 DEF Lifecycle!Step, Lifecycle!Conclude, Lifecycle!Retry, AbstractStatus, AbstractLeft
<1>9. CASE from = "RUNNING" /\ s = "DEAD_LETTERED"
  BY <1>9 DEF Lifecycle!Step, Lifecycle!Conclude, Lifecycle!DeadLetter, AbstractStatus
<1>10. CASE from = "LEASED" /\ s = "DEAD_LETTERED" /\ n = 0
  BY <1>10 DEF Lifecycle!Step, Lifecycle!Conclude, Lifecycle!DeadLetter, AbstractStatus, AbstractLeft
<1> QED BY <1>1, <1>2, <1>3, <1>4, <1>5, <1>6, <1>7, <1>8, <1>9, <1>10

-----------------------------------------------------------------------------
(***************************************************************************)
(* The promise itself strands no job.                                      *)
(***************************************************************************)

\* Nothing was accepted at first, so nothing waits.
LEMMA LifecycleInit ==
    Lifecycle!Init => Lifecycle!TypeOK /\ Lifecycle!WaitingHasBudget
BY DEF Lifecycle!Init, Lifecycle!TypeOK, Lifecycle!WaitingHasBudget, Lifecycle!Waiting,
       Lifecycle!Held, Lifecycle!Terminal

\* A held job may have spent its last attempt; one that waits may not, and
\* every way back to waiting is guarded by the budget.
LEMMA LifecycleStep ==
    ASSUME Lifecycle!TypeOK, Lifecycle!WaitingHasBudget, [Lifecycle!Next]_(Lifecycle!vars)
    PROVE  (Lifecycle!TypeOK /\ Lifecycle!WaitingHasBudget)'
<1> USE DEF Lifecycle!TypeOK, Lifecycle!WaitingHasBudget
<1>1. CASE UNCHANGED Lifecycle!vars BY <1>1 DEF Lifecycle!vars
<1>2. ASSUME NEW j \in JobIds, Lifecycle!Step(j)
      PROVE  (Lifecycle!TypeOK /\ Lifecycle!WaitingHasBudget)'
  <2> USE DEF Lifecycle!Waiting, Lifecycle!Held, Lifecycle!Terminal
  <2>1. ASSUME NEW s \in {"PENDING", "QUEUED"}, NEW budget \in {d.maxAttempts : d \in Definitions},
               Lifecycle!Accept(j, s, budget)
        PROVE  (Lifecycle!TypeOK /\ Lifecycle!WaitingHasBudget)'
    <3>1. budget \in Nat /\ budget > 0 BY ConstantsAssumption DEF Definition
    <3> QED BY <2>1, <3>1, Zenon DEF Lifecycle!Accept
  <2>2. CASE Lifecycle!Promote(j) BY <2>2, Zenon DEF Lifecycle!Promote, Lifecycle!Moves
  <2>3. CASE Lifecycle!Lease(j)
    <3>1. PICK left : left = [i \in JobIds |-> AttemptsLeft(i)] BY Zenon
    <3>2. /\ left \in [JobIds -> Nat] /\ left[j] > 0
          /\ [i \in JobIds |-> AttemptsLeft(i)]' = [left EXCEPT ![j] = left[j] - 1]
      BY <2>3, <3>1 DEF Lifecycle!Lease
    <3>3. [i \in JobIds |-> AttemptsLeft(i)]' \in [JobIds -> Nat] BY <3>2
    <3> QED BY <2>3, <3>1, <3>2, <3>3, Zenon DEF Lifecycle!Lease
  <2>4. CASE Lifecycle!Run(j) BY <2>4, Zenon DEF Lifecycle!Run, Lifecycle!Moves
  <2>5. CASE Lifecycle!Succeed(j) BY <2>5, Zenon DEF Lifecycle!Succeed, Lifecycle!Moves
  <2>6. CASE Lifecycle!Retry(j) BY <2>6, Zenon DEF Lifecycle!Retry, Lifecycle!Moves
  <2>7. CASE Lifecycle!DeadLetter(j) BY <2>7, Zenon DEF Lifecycle!DeadLetter, Lifecycle!Moves
  <2>8. CASE Lifecycle!RequestCancel(j) BY <2>8, Zenon DEF Lifecycle!RequestCancel, Lifecycle!Moves
  <2>9. CASE Lifecycle!FinishCancel(j) BY <2>9, Zenon DEF Lifecycle!FinishCancel, Lifecycle!Moves
  <2> QED BY <1>2, <2>1, <2>2, <2>3, <2>4, <2>5, <2>6, <2>7, <2>8, <2>9, Zenon
          DEF Lifecycle!Step, Lifecycle!Conclude
<1> QED BY <1>1, <1>2 DEF Lifecycle!Next

=============================================================================
