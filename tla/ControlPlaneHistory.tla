------------------------ MODULE ControlPlaneHistory -------------------------
(***************************************************************************)
(* What ControlPlane never undoes: instants and verdicts, cancellations,   *)
(* notifications, decisions, submissions and replays, fenced sessions.  A  *)
(* step is reduced to what it does to the row of one job or session; the   *)
(* theorems follow from that.                                              *)
(***************************************************************************)
EXTENDS ControlPlaneProofs

\* The time each leaf is given.
USE SMTT(20), ZenonT(20)

-----------------------------------------------------------------------------
(***************************************************************************)
(* Leases and deadlines.  That a renewal stays below the deadline says     *)
(* nothing of the lease an attempt starts with: the invariant adds that no *)
(* lease reaches further than one duration from now, and that exactly the  *)
(* attempts that started have a deadline.                                  *)
(***************************************************************************)

Instants(a) ==
    /\ attempts[a].status = "LEASED" => attempts[a].timeoutAt = NULL
    /\ leases[a].expiresAt <= now + LeaseDuration
    /\ attempts[a].timeoutAt # NULL
          => leases[a].expiresAt < attempts[a].timeoutAt + LeaseDuration
    /\ attempts[a].status = "TIMED_OUT"
          => /\ attempts[a].timeoutAt # NULL
             /\ leases[a].expiresAt >= attempts[a].timeoutAt
    /\ attempts[a].status = "ABANDONED" /\ attempts[a].timeoutAt # NULL
          => leases[a].expiresAt < attempts[a].timeoutAt

InstantsInv == TypeInv /\ \A a \in DOMAIN attempts : Instants(a)

LEMMA InstantsStep == InstantsInv /\ [Next]_vars => InstantsInv'
<1> SUFFICES ASSUME InstantsInv, [Next]_vars PROVE InstantsInv' OBVIOUS
<1>1. TypeInv /\ TypeInv' BY TypeInvStep DEF InstantsInv
<1>2. LeaseDuration \in Nat /\ now \in Nat /\ now' \in Nat /\ now <= now' /\ NULL \notin Nat
  BY <1>1, StepRows, ConstantsAssumption DEF AttemptsKept, TypeInv, TypeOK
<1>3. ASSUME NEW a \in DOMAIN attempts PROVE Instants(a)'
  <2>1. /\ attempts[a] \in AttemptRow /\ leases[a] \in LeaseRow
        /\ leases[a].expiresAt \in Nat /\ attempts[a].timeoutAt \in Nat \cup {NULL}
    BY <1>1, FencedRows DEF AttemptRow, LeaseRow
  <2>2. Instants(a) BY DEF InstantsInv
  <2>3. CASE Untouched(a) BY <1>2, <2>1, <2>2, <2>3 DEF Instants, Untouched
  <2>4. CASE Started(a) BY <1>2, <2>1, <2>2, <2>4 DEF Instants, Started
  <2>5. CASE Renewed(a)
    <3>1. attempts[a].timeoutAt # NULL => now < attempts[a].timeoutAt
      BY <1>2, <2>1, <2>5 DEF Renewed, TimedOut
    <3>2. leases'[a].expiresAt = now + LeaseDuration /\ attempts'[a] = attempts[a]
          /\ attempts[a].status \notin {"TIMED_OUT", "ABANDONED"}
      BY <2>5 DEF Renewed, Executing
    <3>3. attempts[a].timeoutAt # NULL => now + LeaseDuration < attempts[a].timeoutAt + LeaseDuration
      BY <1>2, <2>1, <3>1
    <3>4. now + LeaseDuration <= now' + LeaseDuration
      <4>1. \A x, y, d \in Nat : x <= y => x + d <= y + d OBVIOUS
      <4> QED BY Zenon, <1>2, <4>1
    <3> QED BY <2>2, <3>2, <3>3, <3>4 DEF Instants
  <2>6. CASE Concluded(a) BY <1>2, <2>1, <2>2, <2>6 DEF Instants, Concluded, Executing
  <2> QED BY <1>1, <2>3, <2>4, <2>5, <2>6, StepRows DEF AttemptsKept
<1>4. ASSUME NEW a \in DOMAIN attempts' \ DOMAIN attempts PROVE Instants(a)'
  BY <1>1, <1>2, <1>4, StepRows DEF AttemptsKept, Instants
<1> QED BY <1>1, <1>3, <1>4, StepRows DEF AttemptsKept, InstantsInv

LEMMA InstantsAlways == Spec => []InstantsInv
<1>1. Init => InstantsInv
  <2>1. Init => DOMAIN attempts = {} BY DEF Init, EmptyTable
  <2> QED BY <2>1, TypeInvInit DEF InstantsInv
<1> QED BY <1>1, InstantsStep, PTL DEF Spec

\* However often a worker renews, an attempt's lease ends less than one lease
\* duration after its deadline (Start, RenewLease).
THEOREM RenewalCannotOutrunTheDeadline == Spec => []AuthorityBoundedByDeadline
<1>1. InstantsInv => AuthorityBoundedByDeadline
  BY DEF InstantsInv, Instants, AuthorityBoundedByDeadline
<1> QED BY <1>1, InstantsAlways, PTL

\* Timed out or abandoned is what the two stored instants say, for every order
\* and delay of the two sweeps (reconcileDueTimeout, reconcileExpiredLease).
THEOREM SweepsAgreeOnTheVerdict == Spec => []VerdictFromStoredInstants
<1>1. InstantsInv => VerdictFromStoredInstants
  BY DEF InstantsInv, Instants, VerdictFromStoredInstants
<1> QED BY <1>1, InstantsAlways, PTL

\* No transaction extends a lease that has lapsed or moves a deadline.
THEOREM LapsedIsLapsed == Spec => LapsedAuthorityStaysLapsed
<1>1. ASSUME InstantsInv, [Next]_vars, NEW a \in DOMAIN attempts
      PROVE  /\ now >= leases[a].expiresAt => leases'[a].expiresAt = leases[a].expiresAt
             /\ attempts[a].timeoutAt # NULL => attempts'[a].timeoutAt = attempts[a].timeoutAt
  <2>1. TypeInv /\ Instants(a) BY <1>1 DEF InstantsInv
  <2>2. leases[a].expiresAt \in Nat /\ now \in Nat BY <2>1, FencedRows DEF LeaseRow
  <2>3. Untouched(a) \/ Started(a) \/ Renewed(a) \/ Concluded(a)
    BY <1>1, <2>1, StepRows DEF AttemptsKept
  <2> QED BY <2>1, <2>2, <2>3 DEF Untouched, Started, Renewed, Concluded, Instants
<1>2. InstantsInv /\ [Next]_vars =>
        [\A a \in DOMAIN attempts :
         /\ now >= leases[a].expiresAt
               => leases'[a].expiresAt = leases[a].expiresAt
         /\ attempts[a].timeoutAt # NULL
               => attempts'[a].timeoutAt = attempts[a].timeoutAt]_vars
  BY <1>1
<1> QED BY <1>2, InstantsAlways, PTL DEF Spec, LapsedAuthorityStaysLapsed

-----------------------------------------------------------------------------
(***************************************************************************)
(* What a step does to a job.                                              *)
(***************************************************************************)

\* The row of j is written or inserted, and no other.
Writes(j, row) ==
    /\ DOMAIN jobs' = DOMAIN jobs \cup {j}
    /\ jobs'[j] = row
    /\ \A i \in DOMAIN jobs \ {j} : jobs'[i] = jobs[i]

\* A new row that keeps what is never rewritten.
SameJob(j, row) ==
    /\ row \in JobRow
    /\ row.def = jobs[j].def
    /\ row.replayOf = jobs[j].replayOf

SameNotice(j, row) ==
    row.generation = jobs[j].generation /\ row.notifiedAt = jobs[j].notifiedAt

\* The statuses a job may leave, and for which.
Edges ==
    (WaitingJob \X {"CANCELED"}) \cup ({"PENDING", "RETRY_WAIT"} \X {"QUEUED"})
    \cup {<<"QUEUED", "QUEUED">>, <<"QUEUED", "LEASED">>, <<"LEASED", "RUNNING">>,
          <<"RUNNING", "SUCCEEDED">>, <<"CANCEL_REQUESTED", "CANCELED">>}
    \cup ({"LEASED", "RUNNING"} \X {"CANCEL_REQUESTED", "RETRY_WAIT", "QUEUED", "DEAD_LETTERED"})

\* A job moves without being advertised.
Moves(j, row) ==
    /\ j \in DOMAIN jobs
    /\ Writes(j, row) /\ SameJob(j, row) /\ SameNotice(j, row)
    /\ <<jobs[j].status, row.status>> \in Edges
    /\ row.status # "QUEUED"
    /\ UNCHANGED outbox

\* A job is queued, or queued again, with the event that says so: as a new
\* generation, or because nobody seems to have heard of the present one.
Advertises(j, row) ==
    /\ Writes(j, row)
    /\ row \in JobRow
    /\ row.status = "QUEUED" /\ row.generation > 0 /\ row.notifiedAt # NULL
    /\ outbox' = WorkAvailable(j, row.generation, row.notifiedAt)
    /\ j \in DOMAIN jobs => SameJob(j, row) /\ <<jobs[j].status, "QUEUED">> \in Edges
    /\ \/ /\ row.availableAt <= now
          /\ j \in DOMAIN jobs => row.generation = jobs[j].generation + 1
       \/ /\ j \in DOMAIN jobs
          /\ jobs[j].status = "QUEUED" /\ jobs[j].notifiedAt # NULL
          /\ row.generation = jobs[j].generation
          /\ row.availableAt = jobs[j].availableAt
          /\ jobs[j].notifiedAt < row.notifiedAt
          /\ ~PendingEvent(j, row.generation)

\* A scheduled submission, which nobody is told of.
Schedule(j, row) ==
    /\ j \notin DOMAIN jobs
    /\ Writes(j, row)
    /\ row \in JobRow /\ row.status = "PENDING"
    /\ UNCHANGED outbox

LEMMA Written ==
    ASSUME NEW j \in DOMAIN jobs, NEW row, TypeInv, jobs' = [jobs EXCEPT ![j] = row]
    PROVE  Writes(j, row)
BY ZenonT(30) DEF Writes, TypeInv, TypeOK

LEMMA Inserted ==
    ASSUME NEW j, NEW row, j \notin DOMAIN jobs, jobs' = WithRow(jobs, j, row)
    PROVE  Writes(j, row)
BY DEF Writes, WithRow

\* The columns of a job that changes its status.
LEMMA StatusColumns ==
    ASSUME NEW j \in DOMAIN jobs, jobs[j] \in JobRow, NEW s \in JobStatus, NEW t \in Nat
    PROVE  /\ SameJob(j, [jobs[j] EXCEPT !.status = s])
           /\ SameNotice(j, [jobs[j] EXCEPT !.status = s])
           /\ [jobs[j] EXCEPT !.status = s].status = s
           /\ SameJob(j, [jobs[j] EXCEPT !.status = s, !.availableAt = t])
           /\ SameNotice(j, [jobs[j] EXCEPT !.status = s, !.availableAt = t])
           /\ [jobs[j] EXCEPT !.status = s, !.availableAt = t].status = s
<1>1. /\ [jobs[j] EXCEPT !.status = s] \in JobRow
      /\ [jobs[j] EXCEPT !.status = s, !.availableAt = t] \in JobRow
  BY JobRowTypes, Zenon
<1> QED BY <1>1 DEF SameJob, SameNotice, JobRow

\* A job whose status alone changes, to one that is not advertised.
LEMMA StatusMoves ==
    ASSUME TypeInv, NEW j \in DOMAIN jobs, NEW s \in JobStatus \ {"QUEUED"},
           <<jobs[j].status, s>> \in Edges, UNCHANGED outbox,
           jobs' = [jobs EXCEPT ![j].status = s]
    PROVE  \E row : Moves(j, row)
<1> DEFINE row == [jobs[j] EXCEPT !.status = s]
<1>1. jobs[j] \in JobRow BY DEF TypeInv, TypeOK
<1>2. SameJob(j, row) /\ SameNotice(j, row) /\ row.status = s BY <1>1, StatusColumns, Zenon
<1>3. jobs' = [jobs EXCEPT ![j] = row] OBVIOUS
<1> HIDE DEF row
<1>4. Writes(j, row) BY <1>3, Written, Zenon
<1> QED BY <1>2, <1>4, Zenon DEF Moves

LEMMA SubmitWrites ==
    ASSUME TypeInv, NEW j \in JobIds, NEW k \in Keys, NEW d \in Definitions,
           NEW delay \in Schedules, NEW lag \in SubmitLags, Submit(j, k, d, delay, lag)
    PROVE  \E row : Advertises(j, row) \/ Schedule(j, row)
<1> DEFINE queued == QueuedRow(d, now - lag, NULL)
           pending == PendingRow(d, now - lag + delay)
<1>1. now - lag \in Nat /\ now - lag + delay \in Nat /\ now - lag <= now
  BY ConstantsAssumption DEF TypeInv, TypeOK, Submit
<1>2. queued \in JobRow /\ pending \in JobRow BY Zenon, <1>1, NewJobRowTypes
<1>3. /\ queued.status = "QUEUED" /\ queued.availableAt = now - lag /\ queued.generation = 1
      /\ queued.notifiedAt = now - lag /\ pending.status = "PENDING"
  BY DEF QueuedRow, PendingRow
<1>4. j \notin DOMAIN jobs BY DEF Submit
<1>5. CASE jobs' = WithRow(jobs, j, pending) /\ UNCHANGED outbox
  <2>1. Writes(j, pending) BY <1>4, <1>5, Inserted
  <2> QED BY Zenon, <1>2, <1>3, <1>4, <1>5, <2>1 DEF Schedule
<1>6. CASE jobs' = WithRow(jobs, j, queued) /\ outbox' = WorkAvailable(j, 1, now - lag)
  <2>1. Writes(j, queued) BY <1>4, <1>6, Inserted
  <2>2. queued.notifiedAt # NULL /\ queued.generation > 0 /\ queued.availableAt <= now
    BY <1>1, <1>3, ConstantsAssumption
  <2>3. outbox' = WorkAvailable(j, queued.generation, queued.notifiedAt) BY <1>3, <1>6
  <2> HIDE DEF queued
  <2> QED BY <1>2, <1>3, <1>4, <2>1, <2>2, <2>3 DEF Advertises
<1> QED BY <1>5, <1>6 DEF Submit

LEMMA ReplayWrites ==
    ASSUME TypeInv, NEW original \in DOMAIN jobs, NEW k \in Keys, NEW j \in JobIds,
           Replay(original, k, j)
    PROVE  \E row : Advertises(j, row)
<1> DEFINE row == QueuedRow(jobs[original].def, now, original)
<1>1. jobs[original].def \in Definitions /\ now \in Nat /\ original \in JobIds
  BY DEF TypeInv, TypeOK, JobRow
<1>2. row \in JobRow BY Zenon, <1>1, NewJobRowTypes
<1>3. /\ row.status = "QUEUED" /\ row.availableAt = now /\ row.generation = 1 /\ row.notifiedAt = now
  BY DEF QueuedRow
<1>4. j \notin DOMAIN jobs /\ jobs' = WithRow(jobs, j, row) /\ outbox' = WorkAvailable(j, 1, now)
  BY DEF Replay
<1> HIDE DEF row
<1>5. Writes(j, row) BY <1>4, Inserted
<1>6. row.notifiedAt # NULL /\ row.generation > 0 /\ row.availableAt <= now
  BY <1>1, <1>3, ConstantsAssumption
<1> QED BY <1>2, <1>3, <1>4, <1>5, <1>6 DEF Advertises

\* The columns of a job that is queued again.
LEMMA RequeuedColumns ==
    ASSUME NEW j \in DOMAIN jobs, jobs[j] \in JobRow, now \in Nat
    PROVE  LET row == Requeued(jobs[j])
               ready == [Requeued(jobs[j]) EXCEPT !.availableAt = now]
           IN  /\ SameJob(j, row) /\ SameJob(j, ready)
               /\ row.status = "QUEUED" /\ ready.status = "QUEUED"
               /\ row.generation = jobs[j].generation + 1
               /\ ready.generation = jobs[j].generation + 1
               /\ row.notifiedAt = now /\ ready.notifiedAt = now
               /\ row.availableAt = jobs[j].availableAt /\ ready.availableAt = now
<1> DEFINE row == Requeued(jobs[j])
           ready == [row EXCEPT !.availableAt = now]
<1>1. row \in JobRow BY RequeuedType
<1>2. /\ row.status = "QUEUED" /\ row.generation = jobs[j].generation + 1
      /\ row.notifiedAt = now /\ row.availableAt = jobs[j].availableAt
      /\ row.def = jobs[j].def /\ row.replayOf = jobs[j].replayOf
  BY DEF Requeued, JobRow
<1> HIDE DEF row
<1>3. ready \in JobRow BY Zenon, <1>1, JobRowTypes DEF JobStatus
<1>4. /\ ready.status = row.status /\ ready.generation = row.generation
      /\ ready.notifiedAt = row.notifiedAt /\ ready.availableAt = now
      /\ ready.def = row.def /\ ready.replayOf = row.replayOf
  BY <1>1 DEF JobRow
<1> HIDE DEF ready
<1>5. SameJob(j, row) /\ SameJob(j, ready) BY <1>1, <1>2, <1>3, <1>4 DEF SameJob
<1> QED BY <1>2, <1>4, <1>5 DEF row, ready

\* A job that gets the next generation.
LEMMA NextGeneration ==
    ASSUME TypeInv, NEW j \in DOMAIN jobs, NEW row, SameJob(j, row),
           row.status = "QUEUED", row.generation = jobs[j].generation + 1,
           row.notifiedAt = now, row.availableAt <= now,
           <<jobs[j].status, "QUEUED">> \in Edges,
           jobs' = [jobs EXCEPT ![j] = row],
           outbox' = WorkAvailable(j, jobs[j].generation + 1, now)
    PROVE  Advertises(j, row)
<1>1. jobs[j] \in JobRow /\ now \in Nat BY DEF TypeInv, TypeOK
<1>2. jobs[j].generation \in Nat BY <1>1 DEF JobRow
<1>3. Writes(j, row) BY Written, Zenon
<1>4. row.generation > 0 /\ row.notifiedAt # NULL BY <1>1, <1>2, ConstantsAssumption
<1> QED BY <1>3, <1>4 DEF Advertises, SameJob

LEMMA SchedulerWrites ==
    ASSUME TypeInv, NEW j \in DOMAIN jobs, PromoteDueJob(j) \/ RenotifyStrandedJob(j)
    PROVE  \E row : Advertises(j, row)
<1>1. jobs[j] \in JobRow /\ now \in Nat BY DEF TypeInv, TypeOK
<1>2. /\ jobs[j].availableAt \in Nat /\ jobs[j].generation \in Nat
      /\ jobs[j].notifiedAt # NULL => jobs[j].notifiedAt \in Nat
  BY <1>1 DEF JobRow
<1>3. CASE PromoteDueJob(j)
  <2> DEFINE row == Requeued(jobs[j])
  <2>1. /\ SameJob(j, row) /\ row.status = "QUEUED" /\ row.generation = jobs[j].generation + 1
        /\ row.notifiedAt = now /\ row.availableAt = jobs[j].availableAt
    BY <1>1, RequeuedColumns, Zenon
  <2>2. /\ jobs' = [jobs EXCEPT ![j] = row] /\ jobs[j].availableAt <= now
        /\ outbox' = WorkAvailable(j, jobs[j].generation + 1, now)
        /\ jobs[j].status \in {"PENDING", "RETRY_WAIT"}
    BY <1>1, <1>2, <1>3 DEF PromoteDueJob
  <2> HIDE DEF row
  <2>3. <<jobs[j].status, "QUEUED">> \in Edges BY <2>2 DEF Edges
  <2> QED BY <2>1, <2>2, <2>3, NextGeneration, Zenon
<1>4. CASE RenotifyStrandedJob(j)
  <2> DEFINE row == [jobs[j] EXCEPT !.notifiedAt = now]
  <2>1. row \in JobRow BY Zenon, <1>1, JobRowTypes DEF JobStatus
  <2>2. /\ row.def = jobs[j].def /\ row.replayOf = jobs[j].replayOf /\ row.notifiedAt = now
        /\ row.status = jobs[j].status /\ row.generation = jobs[j].generation
        /\ row.availableAt = jobs[j].availableAt
    BY <1>1 DEF JobRow
  <2>3. jobs' = [jobs EXCEPT ![j] = row] BY <1>4 DEF RenotifyStrandedJob
  <2>4. /\ jobs[j].status = "QUEUED" /\ jobs[j].generation > 0 /\ jobs[j].notifiedAt # NULL
        /\ jobs[j].notifiedAt < now /\ ~PendingEvent(j, jobs[j].generation)
        /\ outbox' = WorkAvailable(j, jobs[j].generation, now)
    BY <1>1, <1>2, <1>4, ConstantsAssumption DEF RenotifyStrandedJob
  <2> HIDE DEF row
  <2>5. Writes(j, row) BY <2>3, Written, ZenonT(30)
  <2>6. <<jobs[j].status, "QUEUED">> \in Edges BY <2>4 DEF Edges
  <2>7. SameJob(j, row) BY <2>1, <2>2 DEF SameJob
  <2> QED BY <1>1, <2>1, <2>2, <2>4, <2>5, <2>6, <2>7, ConstantsAssumption DEF Advertises
<1> QED BY <1>3, <1>4

\* finalizeAttempt moves the job, or queues it again.
LEMMA FinalizeWrites ==
    ASSUME TypeInv, NEW a \in DOMAIN attempts, NEW status,
           NEW class, NEW leaseStatus,
           jobs[JobOf(a)].status \in {"LEASED", "RUNNING"},
           FinalizeAttempt(a, status, class, leaseStatus)
    PROVE  \E row : Moves(JobOf(a), row) \/ Advertises(JobOf(a), row)
<1> DEFINE j == JobOf(a)
<1>1. /\ jobs[j] \in JobRow /\ NumberOf(a) \in Nat /\ now \in Nat
      /\ jobs[j].def.maxAttempts \in Nat /\ j \in DOMAIN jobs
  BY FencedRows
<1>2. PICK decision \in Decide(class, NumberOf(a), jobs[j].def.maxAttempts) :
         FinalizeAttempt(a, status, class, leaseStatus)!1!(decision)
  BY Zenon DEF FinalizeAttempt
<1>3. decision.delay \in Nat \cup {NULL}
  BY <1>1, <1>2, ConstantsAssumption DEF Decide
<1>4. /\ <<jobs[j].status, "RETRY_WAIT">> \in Edges /\ <<jobs[j].status, "QUEUED">> \in Edges
      /\ <<jobs[j].status, "DEAD_LETTERED">> \in Edges
  BY DEF Edges
<1>5. CASE decision.delay # NULL /\ decision.delay > 0
  <2> DEFINE row == [jobs[j] EXCEPT !.status = "RETRY_WAIT", !.availableAt = now + decision.delay]
  <2>1. now + decision.delay \in Nat BY <1>1, <1>3, <1>5
  <2>2. SameJob(j, row) /\ SameNotice(j, row) /\ row.status = "RETRY_WAIT"
    <3>1. "RETRY_WAIT" \in JobStatus BY DEF JobStatus
    <3> QED BY Zenon, <1>1, <2>1, <3>1, StatusColumns
  <2>3. jobs' = [jobs EXCEPT ![j] = row] /\ UNCHANGED outbox
    BY <1>2, <1>5, ConstantsAssumption
  <2> HIDE DEF row
  <2>4. Writes(j, row) BY <1>1, <2>3, Written, Zenon
  <2> QED BY <1>1, <1>4, <2>2, <2>3, <2>4, ZenonT(30) DEF Moves
<1>6. CASE decision.delay = 0
  <2> DEFINE row == [Requeued(jobs[j]) EXCEPT !.availableAt = now]
  <2>1. /\ SameJob(j, row) /\ row.status = "QUEUED" /\ row.generation = jobs[j].generation + 1
        /\ row.notifiedAt = now /\ row.availableAt = now
    BY <1>1, RequeuedColumns
  <2>2. /\ jobs' = [jobs EXCEPT ![j] = row]
        /\ outbox' = WorkAvailable(j, jobs[j].generation + 1, now)
    BY <1>2, <1>6, ConstantsAssumption
  <2> HIDE DEF row
  <2>3. row.availableAt <= now BY <1>1, <2>1
  <2> QED BY <1>1, <1>4, <2>1, <2>2, <2>3, NextGeneration, Zenon
<1>7. CASE decision.delay = NULL
  <2>1. jobs' = [jobs EXCEPT ![j].status = "DEAD_LETTERED"] /\ UNCHANGED outbox
    BY <1>2, <1>7, ConstantsAssumption
  <2> QED BY <1>1, <1>4, <2>1, StatusMoves, Zenon DEF JobStatus
<1> QED BY <1>2, <1>5, <1>6, <1>7

LEMMA EndsWrites ==
    ASSUME TypeInv, NEW a \in DOMAIN attempts, Ends(a)
    PROVE  \E row : Moves(JobOf(a), row) \/ Advertises(JobOf(a), row)
<1>1. JobOf(a) \in DOMAIN jobs BY FencedRows
<1>2. CASE \E withResult \in BOOLEAN : Succeed(a, withResult)
  <2>1. /\ jobs' = [jobs EXCEPT ![JobOf(a)].status = "SUCCEEDED"] /\ UNCHANGED outbox
        /\ jobs[JobOf(a)].status = "RUNNING"
    BY <1>2 DEF Succeed, MayReport
  <2> QED BY <1>1, <2>1, StatusMoves, Zenon DEF JobStatus, Edges
<1>3. ASSUME NEW leaseStatus, FinalizeCancellation(a, leaseStatus),
             jobs[JobOf(a)].status = "CANCEL_REQUESTED"
      PROVE  \E row : Moves(JobOf(a), row)
  <2>1. jobs' = [jobs EXCEPT ![JobOf(a)].status = "CANCELED"] /\ UNCHANGED outbox
    BY <1>3 DEF FinalizeCancellation
  <2> QED BY <1>1, <1>3, <2>1, StatusMoves, Zenon DEF JobStatus, Edges
<1> QED BY <1>2, <1>3, EndsCases, FinalizeWrites

\* Every step writes at most one job, along an edge, and advertises exactly
\* those it queues.
JobStep ==
    \/ UNCHANGED <<jobs, outbox>>
    \/ UNCHANGED jobs /\ \E e \in DOMAIN outbox : MarkPublished(e)
    \/ \E j \in JobIds : \E row : Moves(j, row) \/ Advertises(j, row) \/ Schedule(j, row)

LEMMA JobSteps == ASSUME TypeInv, [Next]_vars PROVE JobStep
<1>0. DOMAIN jobs \subseteq JobIds BY DEF TypeInv, TypeOK
<1>1. CASE \/ Tick \/ (\E e \in DOMAIN outbox : MarkPublished(e)) \/ UNCHANGED vars
  BY <1>1 DEF Tick, MarkPublished, vars, JobStep
<1>2. ASSUME NEW j \in JobIds, NEW k \in Keys, NEW d \in Definitions,
             NEW delay \in Schedules, NEW lag \in SubmitLags, Submit(j, k, d, delay, lag)
      PROVE  JobStep
  BY <1>2, SubmitWrites DEF JobStep
<1>3. ASSUME NEW original \in DOMAIN jobs, NEW k \in Keys, NEW j \in JobIds, Replay(original, k, j)
      PROVE  JobStep
  BY <1>3, ReplayWrites DEF JobStep
<1>4. ASSUME NEW j \in DOMAIN jobs, RequestCancel(j) PROVE JobStep
  <2>1. PICK s \in {"CANCELED", "CANCEL_REQUESTED"} :
           /\ jobs' = [jobs EXCEPT ![j].status = s] /\ UNCHANGED outbox
           /\ <<jobs[j].status, s>> \in Edges
    BY <1>4 DEF RequestCancel, Edges, WaitingJob
  <2>2. s \in JobStatus \ {"QUEUED"} BY DEF JobStatus
  <2> QED BY <1>0, <2>1, <2>2, StatusMoves, Zenon DEF JobStep
<1>5. ASSUME NEW j \in DOMAIN jobs, PromoteDueJob(j) \/ RenotifyStrandedJob(j) PROVE JobStep
  BY <1>0, <1>5, SchedulerWrites DEF JobStep
<1>6. ASSUME NEW s, (\E r : Register(s, r)) \/ Heartbeat(s) \/ MarkSessionStale(s) PROVE JobStep
  BY <1>6, Zenon DEF Register, Heartbeat, MarkSessionStale, JobStep
<1>7. ASSUME NEW s \in DOMAIN sessions, NEW e \in DOMAIN outbox, NEW j \in DOMAIN jobs, Claim(s, e, j)
      PROVE  JobStep
  <2>1. /\ jobs' = [jobs EXCEPT ![j].status = "LEASED"] /\ UNCHANGED outbox
        /\ <<jobs[j].status, "LEASED">> \in Edges
    BY <1>7 DEF Claim, Claimable, Edges
  <2> QED BY <1>0, <2>1, StatusMoves, Zenon DEF JobStep, JobStatus
<1>8. ASSUME NEW a \in DOMAIN attempts, Start(a) PROVE JobStep
  <2>1. /\ jobs' = [jobs EXCEPT ![JobOf(a)].status = "RUNNING"] /\ UNCHANGED outbox
        /\ <<jobs[JobOf(a)].status, "RUNNING">> \in Edges
    BY <1>8 DEF Start, Edges
  <2> QED BY <1>0, <2>1, StatusMoves, FencedRows, Zenon DEF JobStep, JobStatus
<1>9. ASSUME NEW a \in DOMAIN attempts, RenewLease(a) PROVE JobStep
  BY <1>9 DEF RenewLease, JobStep
<1>10. ASSUME NEW a \in DOMAIN attempts, Ends(a) PROVE JobStep
  BY <1>10, EndsWrites, FencedRows DEF JobStep
<1> QED BY <1>1, <1>2, <1>3, <1>4, <1>5, <1>6, <1>7, <1>8, <1>9, <1>10, NextCases

\* Nothing but CANCELED follows a requested cancellation.
THEOREM CancellationHasWon == Spec => CancellationWins
<1>1. ASSUME TypeInv, [Next]_vars, NEW j \in DOMAIN jobs, jobs[j].status = "CANCEL_REQUESTED"
      PROVE  jobs'[j].status \in {"CANCEL_REQUESTED", "CANCELED"}
  <2>1. \A s : <<"CANCEL_REQUESTED", s>> \in Edges => s = "CANCELED"
    BY DEF Edges, WaitingJob
  <2> QED BY <1>1, <2>1, JobSteps, ZenonT(30) DEF JobStep, Moves, Advertises, Schedule, Writes
<1>2. TypeInv /\ [Next]_vars =>
        [\A j \in DOMAIN jobs :
           jobs[j].status = "CANCEL_REQUESTED"
              => jobs'[j].status \in {"CANCEL_REQUESTED", "CANCELED"}]_vars
  BY <1>1
<1> QED BY <1>2, TypeInvInit, TypeInvStep, PTL DEF Spec, CancellationWins

-----------------------------------------------------------------------------
(***************************************************************************)
(* Notifications.  QueuedJobsAdvertised is inductive with the types: since *)
(* no event is ahead of its job, a new generation's event is new, and so   *)
(* is a renewed one's, because the job was last notified before now.       *)
(***************************************************************************)

Heard(j) ==
    jobs[j].status = "QUEUED"
       => /\ jobs[j].generation >= 1
          /\ jobs[j].notifiedAt # NULL
          /\ <<j, jobs[j].generation, jobs[j].notifiedAt>> \in DOMAIN outbox
          /\ jobs[j].availableAt <= now

NotAhead(e) ==
    /\ e[1] \in DOMAIN jobs
    /\ e[2] <= jobs[e[1]].generation
    /\ e[2] = jobs[e[1]].generation => e[3] <= jobs[e[1]].notifiedAt

OnePending ==
    \A e, f \in DOMAIN outbox :
        outbox[e] = "PENDING" /\ outbox[f] = "PENDING" /\ e[1] = f[1] /\ e[2] = f[2] => e = f

NoticeInv ==
    /\ TypeInv
    /\ \A j \in DOMAIN jobs : Heard(j)
    /\ \A e \in DOMAIN outbox : NotAhead(e)
    /\ OnePending

LEMMA EventFacts ==
    ASSUME TypeInv, NEW e \in DOMAIN outbox
    PROVE  /\ e = <<e[1], e[2], e[3]>> /\ e[1] \in JobIds
           /\ e[2] \in Nat \ {0} /\ e[3] \in Nat
BY DEF TypeInv, TypeOK, EventIds

LEMMA JobFacts ==
    ASSUME TypeInv, NEW j \in DOMAIN jobs
    PROVE  /\ jobs[j] \in JobRow /\ jobs[j].generation \in Nat /\ jobs[j].availableAt \in Nat
           /\ jobs[j].notifiedAt # NULL => jobs[j].notifiedAt \in Nat
BY DEF TypeInv, TypeOK, JobRow

\* The event that advertises a job did not exist, and none of its generation
\* is waiting for the publisher.
LEMMA FreshEvent ==
    ASSUME NoticeInv, NEW j \in JobIds, NEW row, Advertises(j, row)
    PROVE  /\ row.notifiedAt \in Nat /\ row.generation \in Nat \ {0}
           /\ <<j, row.generation, row.notifiedAt>> \notin DOMAIN outbox
           /\ \A e \in DOMAIN outbox :
                 e[1] = j => /\ e[2] <= row.generation
                             /\ e[2] = row.generation => outbox[e] # "PENDING" /\ e[3] < row.notifiedAt
<1>1. TypeInv /\ row \in JobRow BY DEF NoticeInv, Advertises
<1>2. row.notifiedAt \in Nat /\ row.generation \in Nat \ {0}
  BY <1>1 DEF JobRow, Advertises
<1>3. ASSUME NEW e \in DOMAIN outbox, e[1] = j
      PROVE  /\ e[2] <= row.generation
             /\ e[2] = row.generation => outbox[e] # "PENDING" /\ e[3] < row.notifiedAt
  <2>1. NotAhead(e) /\ j \in DOMAIN jobs BY <1>3 DEF NoticeInv, NotAhead
  <2>2. /\ jobs[j].generation \in Nat /\ e[2] \in Nat /\ e[3] \in Nat
        /\ jobs[j].notifiedAt # NULL => jobs[j].notifiedAt \in Nat
    BY <1>1, <2>1, JobFacts, EventFacts
  <2>3. CASE row.generation = jobs[j].generation + 1
    BY <1>2, <1>3, <2>1, <2>2, <2>3 DEF NotAhead
  <2>4. CASE /\ row.generation = jobs[j].generation /\ jobs[j].notifiedAt # NULL
             /\ jobs[j].notifiedAt < row.notifiedAt /\ ~PendingEvent(j, row.generation)
    <3>1. e[2] <= row.generation BY <1>3, <2>1, <2>4 DEF NotAhead
    <3>2. ASSUME e[2] = row.generation PROVE outbox[e] # "PENDING"
      BY <1>3, <2>4, <3>2 DEF PendingEvent
    <3>3. ASSUME e[2] = row.generation PROVE e[3] < row.notifiedAt
      <4>1. e[3] <= jobs[j].notifiedAt BY <1>3, <2>1, <2>4, <3>3 DEF NotAhead
      <4> QED BY <1>2, <2>2, <2>4, <4>1
    <3> QED BY <3>1, <3>2, <3>3
  <2> QED BY <2>1, <2>3, <2>4 DEF Advertises
<1>4. <<j, row.generation, row.notifiedAt>> \notin DOMAIN outbox
  BY <1>2, <1>3
<1> QED BY <1>2, <1>3, <1>4

LEMMA NoticeAdvertises ==
    ASSUME NoticeInv, TypeInv', now <= now', now' \in Nat, NEW j \in JobIds, NEW row, Advertises(j, row)
    PROVE  NoticeInv'
<1> DEFINE new == <<j, row.generation, row.notifiedAt>>
<1>1. TypeInv /\ now \in Nat BY DEF NoticeInv, TypeInv, TypeOK
<1>2. /\ row.notifiedAt \in Nat /\ row.generation \in Nat \ {0} /\ new \notin DOMAIN outbox
      /\ \A e \in DOMAIN outbox :
            e[1] = j => /\ e[2] <= row.generation
                        /\ e[2] = row.generation => outbox[e] # "PENDING" /\ e[3] < row.notifiedAt
  BY FreshEvent
<1>3. /\ DOMAIN outbox' = DOMAIN outbox \cup {new}
      /\ \A e \in DOMAIN outbox : outbox'[e] = outbox[e]
  BY <1>2 DEF Advertises, WorkAvailable, WithRow
<1>4. /\ DOMAIN jobs' = DOMAIN jobs \cup {j} /\ jobs'[j] = row
      /\ \A i \in DOMAIN jobs \ {j} : jobs'[i] = jobs[i]
      /\ row \in JobRow /\ row.status = "QUEUED" /\ row.notifiedAt # NULL
  BY DEF Advertises, Writes
<1>5. new[1] = j /\ new[2] = row.generation /\ new[3] = row.notifiedAt OBVIOUS
<1>6. row.availableAt \in Nat /\ row.availableAt <= now
  <2>1. row.availableAt \in Nat BY <1>4 DEF JobRow
  <2>2. CASE j \in DOMAIN jobs /\ jobs[j].status = "QUEUED" /\ row.availableAt = jobs[j].availableAt
    BY <2>1, <2>2, ZenonT(30) DEF NoticeInv, Heard
  <2> QED BY <2>1, <2>2 DEF Advertises
<1>7. ASSUME NEW i \in DOMAIN jobs' PROVE Heard(i)'
  <2>1. CASE i = j
    <3>1. row.availableAt <= now' BY <1>1, <1>6
    <3> QED BY <1>2, <1>3, <1>4, <2>1, <3>1 DEF Heard
  <2>2. CASE i # j
    <3>1. i \in DOMAIN jobs /\ jobs'[i] = jobs[i] /\ Heard(i) BY <1>4, <1>7, <2>2 DEF NoticeInv
    <3>2. jobs[i].availableAt \in Nat BY <1>1, <3>1, JobFacts
    <3>3. jobs[i].availableAt <= now => jobs[i].availableAt <= now' BY <1>1, <3>2
    <3> QED BY <1>3, <3>1, <3>3 DEF Heard
  <2> QED BY <2>1, <2>2
<1>8. ASSUME NEW e \in DOMAIN outbox' PROVE NotAhead(e)'
  <2>1. CASE e = new BY <1>2, <1>4, <1>5, <2>1 DEF NotAhead
  <2>2. CASE e # new
    <3>1. e \in DOMAIN outbox /\ NotAhead(e) BY <1>3, <1>8, <2>2 DEF NoticeInv
    <3>2. e[3] \in Nat BY <1>1, <3>1, EventFacts
    <3>3. CASE e[1] = j BY <1>2, <1>4, <3>1, <3>2, <3>3 DEF NotAhead
    <3>4. CASE e[1] # j BY <1>4, <3>1, <3>4 DEF NotAhead
    <3> QED BY <3>3, <3>4
  <2> QED BY <2>1, <2>2
<1>9. OnePending'
  <2>1. ASSUME NEW e \in DOMAIN outbox, e[1] = j, e[2] = row.generation PROVE outbox'[e] # "PENDING"
    BY <1>2, <1>3, <2>1
  <2> HIDE DEF new
  <2> QED BY <1>3, <1>5, <2>1 DEF OnePending, NoticeInv
<1> QED BY <1>7, <1>8, <1>9 DEF NoticeInv

\* A job that changes without being advertised leaves the queue, if it was in
\* it, and a scheduled one has no event yet.
LEMMA NoticeMoves ==
    ASSUME NoticeInv, TypeInv', now <= now', now' \in Nat, NEW j \in JobIds, NEW row,
           Moves(j, row) \/ Schedule(j, row)
    PROVE  NoticeInv'
<1>1. TypeInv /\ now \in Nat /\ outbox' = outbox BY DEF NoticeInv, TypeInv, TypeOK, Moves, Schedule
<1>2. /\ DOMAIN jobs' = DOMAIN jobs \cup {j} /\ jobs'[j] = row
      /\ \A i \in DOMAIN jobs \ {j} : jobs'[i] = jobs[i]
      /\ row.status # "QUEUED"
      /\ j \in DOMAIN jobs => SameNotice(j, row)
  BY DEF Moves, Schedule, Writes
<1>3. ASSUME NEW i \in DOMAIN jobs' PROVE Heard(i)'
  <2>1. CASE i = j BY <1>2, <2>1 DEF Heard
  <2>2. CASE i # j
    <3>1. i \in DOMAIN jobs /\ jobs'[i] = jobs[i] /\ Heard(i) BY <1>2, <1>3, <2>2 DEF NoticeInv
    <3>2. jobs[i].availableAt \in Nat BY <1>1, <3>1, JobFacts
    <3>3. jobs[i].availableAt <= now => jobs[i].availableAt <= now' BY <1>1, <3>2
    <3> QED BY <1>1, <3>1, <3>3 DEF Heard
  <2> QED BY <2>1, <2>2
<1>4. ASSUME NEW e \in DOMAIN outbox' PROVE NotAhead(e)'
  <2>1. e \in DOMAIN outbox /\ NotAhead(e) BY <1>1, <1>4 DEF NoticeInv
  <2>2. CASE e[1] = j BY <1>2, <2>1, <2>2 DEF NotAhead, SameNotice
  <2>3. CASE e[1] # j BY <1>2, <2>1, <2>3 DEF NotAhead
  <2> QED BY <2>2, <2>3
<1>5. OnePending' BY <1>1 DEF OnePending, NoticeInv
<1> QED BY <1>3, <1>4, <1>5 DEF NoticeInv

\* Time and the publisher: an event that was pending may be so no longer.
LEMMA NoticeQuiet ==
    ASSUME NoticeInv, TypeInv', now <= now', now' \in Nat, UNCHANGED jobs,
           DOMAIN outbox' = DOMAIN outbox,
           \A e \in DOMAIN outbox : outbox'[e] = "PENDING" => outbox[e] = "PENDING"
    PROVE  NoticeInv'
<1>1. TypeInv /\ now \in Nat BY DEF NoticeInv, TypeInv, TypeOK
<1>2. ASSUME NEW i \in DOMAIN jobs' PROVE Heard(i)'
  <2>1. i \in DOMAIN jobs /\ Heard(i) BY <1>2 DEF NoticeInv
  <2>2. jobs[i].availableAt \in Nat BY <1>1, <2>1, JobFacts
  <2>3. jobs[i].availableAt <= now => jobs[i].availableAt <= now' BY <1>1, <2>2
  <2> QED BY <2>1, <2>3 DEF Heard
<1>3. ASSUME NEW e \in DOMAIN outbox' PROVE NotAhead(e)'
  BY <1>3 DEF NoticeInv, NotAhead
<1>4. OnePending' BY DEF OnePending, NoticeInv
<1> QED BY <1>2, <1>3, <1>4 DEF NoticeInv

LEMMA NoticeStep == NoticeInv /\ [Next]_vars => NoticeInv'
<1> SUFFICES ASSUME NoticeInv, [Next]_vars PROVE NoticeInv'
  OBVIOUS
<1>1. TypeInv /\ TypeInv' BY TypeInvStep DEF NoticeInv
<1>2. now <= now' /\ now' \in Nat BY <1>1, StepRows DEF AttemptsKept
<1>3. JobStep BY <1>1, JobSteps
<1>4. CASE UNCHANGED <<jobs, outbox>> BY <1>1, <1>2, <1>4, NoticeQuiet
<1>5. ASSUME UNCHANGED jobs, NEW e \in DOMAIN outbox, MarkPublished(e) PROVE NoticeInv'
  <2>1. outbox' = [outbox EXCEPT ![e] = "PUBLISHED"] BY <1>5 DEF MarkPublished
  <2>2. /\ DOMAIN outbox' = DOMAIN outbox
        /\ \A f \in DOMAIN outbox : outbox'[f] = "PENDING" => outbox[f] = "PENDING"
    BY <2>1
  <2> QED BY <1>1, <1>2, <1>5, <2>2, NoticeQuiet
<1> QED BY <1>1, <1>2, <1>3, <1>4, <1>5, NoticeAdvertises, NoticeMoves DEF JobStep

LEMMA NoticeAlways == Spec => []NoticeInv
<1>1. Init => NoticeInv
  BY TypeInvInit DEF Init, EmptyTable, NoticeInv, OnePending
<1> QED BY <1>1, NoticeStep, PTL DEF Spec

\* No job is ever queued without an event that says so, no generation is ever
\* used twice, and re-notification never floods the publisher.
THEOREM NoQueuedJobGoesUnheard == Spec => []QueuedJobsAdvertised
<1>1. NoticeInv => QueuedJobsAdvertised
  BY DEF NoticeInv, Heard, NotAhead, OnePending, QueuedJobsAdvertised
<1> QED BY <1>1, NoticeAlways, PTL

-----------------------------------------------------------------------------
(***************************************************************************)
(* Decisions and records.                                                  *)
(***************************************************************************)

\* Only the transaction that ends an attempt stops it, or writes to the
\* dead-letter queue.
LEMMA WhoEnds ==
    ASSUME TypeInv, [Next]_vars
    PROVE  \/ /\ UNCHANGED dlq
              /\ \A a \in DOMAIN attempts : Executing(a) => Executing(a)'
           \/ \E a \in DOMAIN attempts : Ends(a)
<1>1. ASSUME UNCHANGED <<attempts, dlq>>
      PROVE  UNCHANGED dlq /\ \A a \in DOMAIN attempts : Executing(a) => Executing(a)'
  BY <1>1 DEF Executing
<1>2. CASE \/ Tick \/ (\E e \in DOMAIN outbox : MarkPublished(e)) \/ UNCHANGED vars
  BY <1>1, <1>2, ZenonT(30) DEF Tick, MarkPublished, vars
<1>3. ASSUME NEW j, NEW k, NEW d, NEW delay, NEW lag, Submit(j, k, d, delay, lag)
      PROVE  UNCHANGED <<attempts, dlq>>
  BY <1>3 DEF Submit
<1>4. ASSUME NEW original, NEW k, NEW j, Replay(original, k, j) PROVE UNCHANGED <<attempts, dlq>>
  BY <1>4 DEF Replay
<1>5. ASSUME NEW j, RequestCancel(j) \/ PromoteDueJob(j) \/ RenotifyStrandedJob(j)
      PROVE  UNCHANGED <<attempts, dlq>>
  BY <1>5 DEF RequestCancel, PromoteDueJob, RenotifyStrandedJob
<1>6. ASSUME NEW s, (\E r : Register(s, r)) \/ Heartbeat(s) \/ MarkSessionStale(s)
      PROVE  UNCHANGED <<attempts, dlq>>
  BY <1>6, ZenonT(30) DEF Register, Heartbeat, MarkSessionStale
<1>7. ASSUME NEW s \in DOMAIN sessions, NEW e \in DOMAIN outbox, NEW j \in DOMAIN jobs, Claim(s, e, j)
      PROVE  UNCHANGED dlq /\ \A a \in DOMAIN attempts : Executing(a) => Executing(a)'
  <2>1. Claimed(s, e, j, <<j, NextNumber(j)>>) BY <1>7, ClaimRows
  <2> QED BY <2>1 DEF Claimed, Executing
<1>8. ASSUME NEW a \in DOMAIN attempts, Start(a)
      PROVE  UNCHANGED dlq /\ \A b \in DOMAIN attempts : Executing(b) => Executing(b)'
  <2>1. UNCHANGED dlq BY <1>8 DEF Start
  <2> QED BY <1>8, <2>1, StartRows DEF Started, Untouched, Executing
<1>9. ASSUME NEW a, RenewLease(a) PROVE UNCHANGED <<attempts, dlq>> BY <1>9 DEF RenewLease
<1> QED BY <1>1, <1>2, <1>3, <1>4, <1>5, <1>6, <1>7, <1>8, <1>9, NextCases

\* The decision is what the attempt row says it was.
LEMMA EndsDecides ==
    ASSUME TypeInv, NEW a \in DOMAIN attempts, Ends(a)
    PROVE  attempts'[a].status # "SUCCEEDED"
              => jobs'[JobOf(a)].status = DecidedJobStatus(attempts'[a])
<1>1. /\ JobOf(a) \in DOMAIN jobs /\ attempts[a] \in AttemptRow
      /\ jobs[JobOf(a)] \in JobRow /\ leases[a] \in LeaseRow
  BY FencedRows
<1>2. CASE \E withResult \in BOOLEAN : Succeed(a, withResult)
  <2>1. attempts' = [attempts EXCEPT ![a] = [attempts[a] EXCEPT !.status = "SUCCEEDED"]]
    BY <1>2 DEF Succeed
  <2>2. attempts'[a] = [attempts[a] EXCEPT !.status = "SUCCEEDED"]
    BY <2>1 DEF TypeInv, TypeOK
  <2> QED BY <1>1, <2>2, EndedColumns
<1>3. ASSUME NEW status \in {"FAILED", "TIMED_OUT", "ABANDONED"},
             NEW class \in FailureClass \ {"CANCELED"}, NEW leaseStatus,
             FinalizeAttempt(a, status, class, leaseStatus)
      PROVE  jobs'[JobOf(a)].status = DecidedJobStatus(attempts'[a])
  <2>1. PICK job \in JobRow, delay \in Nat \cup {NULL}, reason \in DLQReason :
           Finalized(a, status, class, leaseStatus, job, delay, reason)
    BY <1>3, FinalizeAttemptFacts
  <2>2. attempts'[a] = Recorded(attempts[a], status, class, delay) /\ jobs'[JobOf(a)] = job
    BY <1>1, <2>1 DEF Finalized, TypeInv, TypeOK
  <2>3. attempts'[a].status = status /\ attempts'[a].retryDelay = delay
    BY <1>1, <2>2, EndedColumns
  <2>4. CASE job.status = "RETRY_WAIT" /\ delay # NULL /\ delay > 0
    BY <1>3, <2>2, <2>3, <2>4 DEF DecidedJobStatus
  <2>5. CASE job.status = "QUEUED" /\ delay = 0
    BY <1>3, <2>2, <2>3, <2>5, ConstantsAssumption DEF DecidedJobStatus
  <2>6. CASE job.status = "DEAD_LETTERED" /\ delay = NULL
    BY <1>3, <2>2, <2>3, <2>6, ConstantsAssumption DEF DecidedJobStatus
  <2> QED BY <2>1, <2>4, <2>5, <2>6 DEF Finalized
<1>4. ASSUME NEW leaseStatus, FinalizeCancellation(a, leaseStatus)
      PROVE  jobs'[JobOf(a)].status = DecidedJobStatus(attempts'[a])
  <2>1. attempts'[a].status = "CANCELED" BY <1>4, CancellationRows
  <2>2. jobs' = [jobs EXCEPT ![JobOf(a)] = [jobs[JobOf(a)] EXCEPT !.status = "CANCELED"]]
    BY <1>4 DEF FinalizeCancellation
  <2>3. jobs'[JobOf(a)] = [jobs[JobOf(a)] EXCEPT !.status = "CANCELED"]
    BY <1>1, <2>2 DEF TypeInv, TypeOK
  <2>4. jobs'[JobOf(a)].status = "CANCELED" BY <1>1, <2>3 DEF JobRow
  <2> QED BY <2>1, <2>4 DEF DecidedJobStatus
<1> QED BY <1>2, <1>3, <1>4, EndsCases

\* What a worker is told when it repeats a report is what was decided when the
\* report was first recorded.
THEOREM ReplayedReportsAgree == Spec => ReplayReportsTheDecision
<1>1. ASSUME TypeInv, [Next]_vars, NEW a \in DOMAIN attempts,
             Executing(a), ~Executing(a)', attempts'[a].status # "SUCCEEDED"
      PROVE  jobs'[JobOf(a)].status = DecidedJobStatus(attempts'[a])
  <2>1. PICK b \in DOMAIN attempts : Ends(b) BY <1>1, WhoEnds
  <2>2. \A c \in DOMAIN attempts \ {b} : Untouched(c) BY <1>1, <2>1, EndsRows
  <2>3. a = b BY <1>1, <2>2 DEF Untouched, Executing
  <2> QED BY <1>1, <2>1, <2>3, EndsDecides
<1>2. TypeInv /\ [Next]_vars =>
        [\A a \in DOMAIN attempts :
           Executing(a) /\ ~Executing(a)' /\ attempts'[a].status # "SUCCEEDED"
              => jobs'[JobOf(a)].status = DecidedJobStatus(attempts'[a])]_vars
  BY <1>1
<1> QED BY <1>2, TypeInvInit, TypeInvStep, PTL DEF Spec, ReplayReportsTheDecision

-----------------------------------------------------------------------------
(***************************************************************************)
(* Submissions and replays.                                                *)
(***************************************************************************)

\* What no step does to a job: forget it, change what was submitted or where
\* it came from, or reopen it.
JobsKept ==
    /\ DOMAIN jobs \subseteq DOMAIN jobs'
    /\ \A j \in DOMAIN jobs :
          /\ jobs'[j].def = jobs[j].def
          /\ jobs'[j].replayOf = jobs[j].replayOf
          /\ jobs[j].status \in TerminalJob => jobs'[j].status = jobs[j].status

LEMMA StepKeepsJobs == ASSUME TypeInv, [Next]_vars PROVE JobsKept
<1>1. CASE UNCHANGED jobs BY <1>1 DEF JobsKept
<1>2. ASSUME NEW j \in JobIds, NEW row, Writes(j, row),
             j \in DOMAIN jobs => SameJob(j, row) /\ <<jobs[j].status, row.status>> \in Edges
      PROVE  JobsKept
  <2>1. j \in DOMAIN jobs => jobs[j].status \notin TerminalJob
    BY <1>2 DEF Edges, WaitingJob, TerminalJob
  <2> QED BY <1>2, <2>1 DEF JobsKept, Writes, SameJob
<1>3. ASSUME NEW j \in JobIds, NEW row, Moves(j, row) \/ Advertises(j, row) \/ Schedule(j, row)
      PROVE  JobsKept
  BY <1>2, <1>3 DEF Moves, Advertises, Schedule
<1>4. JobStep BY JobSteps
<1> QED BY <1>1, <1>3, <1>4 DEF JobStep

\* Only Submit and Replay write to the idempotency tables.
LEMMA KeySteps ==
    ASSUME TypeInv, [Next]_vars
    PROVE  \/ UNCHANGED <<submissions, replays>>
           \/ \E j \in JobIds, k \in Keys, d \in Definitions,
                 delay \in Schedules, lag \in SubmitLags : Submit(j, k, d, delay, lag)
           \/ \E original \in DOMAIN jobs, k \in Keys, j \in JobIds : Replay(original, k, j)
<1>1. CASE \/ Tick \/ (\E e \in DOMAIN outbox : MarkPublished(e)) \/ UNCHANGED vars
  BY <1>1 DEF Tick, MarkPublished, vars
<1>2. ASSUME NEW j, RequestCancel(j) \/ PromoteDueJob(j) \/ RenotifyStrandedJob(j)
      PROVE  UNCHANGED <<submissions, replays>>
  BY <1>2 DEF RequestCancel, PromoteDueJob, RenotifyStrandedJob
<1>3. ASSUME NEW s, (\E r : Register(s, r)) \/ Heartbeat(s) \/ MarkSessionStale(s)
      PROVE  UNCHANGED <<submissions, replays>>
  BY <1>3, ZenonT(30) DEF Register, Heartbeat, MarkSessionStale
<1>4. ASSUME NEW s, NEW e, NEW j, Claim(s, e, j) PROVE UNCHANGED <<submissions, replays>>
  BY <1>4 DEF Claim
<1>5. ASSUME NEW a, Start(a) \/ RenewLease(a) PROVE UNCHANGED <<submissions, replays>>
  BY <1>5 DEF Start, RenewLease
<1>6. ASSUME NEW a, Ends(a) PROVE UNCHANGED <<submissions, replays>>
  <2>1. ASSUME NEW withResult, Succeed(a, withResult) PROVE UNCHANGED <<submissions, replays>>
    BY <2>1 DEF Succeed
  <2>2. ASSUME NEW leaseStatus, FinalizeCancellation(a, leaseStatus)
        PROVE  UNCHANGED <<submissions, replays>>
    BY <2>2 DEF FinalizeCancellation
  <2>3. ASSUME NEW status, NEW class, NEW leaseStatus, FinalizeAttempt(a, status, class, leaseStatus)
        PROVE  UNCHANGED <<submissions, replays>>
    BY <2>3 DEF FinalizeAttempt
  <2> QED BY <1>6, <2>1, <2>2, <2>3, EndsCases
<1> QED BY <1>1, <1>2, <1>3, <1>4, <1>5, <1>6, NextCases

\* One replay, and one submission, as ReplayLineage describes it.
Replayed(x) ==
    /\ x[1] \in DOMAIN jobs
    /\ jobs[x[1]].status = "DEAD_LETTERED"
    /\ replays[x] \in DOMAIN jobs
    /\ replays[x] # x[1]
    /\ jobs[replays[x]].replayOf = x[1]
    /\ jobs[replays[x]].def = jobs[x[1]].def

Submitted(x) ==
    /\ submissions[x] \in DOMAIN jobs
    /\ jobs[submissions[x]].replayOf = NULL
    /\ jobs[submissions[x]].def.scope = x[1]

\* A job that a step inserts is in neither table, so it is named once.
LEMMA LineageStep ==
    ASSUME TypeInv, ReplayLineage, [Next]_vars
    PROVE  ReplayLineage'
<1>1. JobsKept BY StepKeepsJobs
<1>2. ASSUME NEW x \in DOMAIN replays, replays'[x] = replays[x] PROVE Replayed(x)'
  <2>1. Replayed(x) BY DEF ReplayLineage, Replayed
  <2> QED BY <1>1, <1>2, <2>1 DEF JobsKept, Replayed, TerminalJob
<1>3. ASSUME NEW x \in DOMAIN submissions, submissions'[x] = submissions[x] PROVE Submitted(x)'
  <2>1. Submitted(x) BY DEF ReplayLineage, Submitted
  <2> QED BY <1>1, <1>3, <2>1 DEF JobsKept, Submitted
<1>4. /\ \A x \in DOMAIN replays : replays[x] \in DOMAIN jobs
      /\ \A x, y \in DOMAIN replays : replays[x] = replays[y] => x = y
  BY Zenon DEF ReplayLineage
<1>5. /\ \A x \in DOMAIN submissions : submissions[x] \in DOMAIN jobs
      /\ \A x, y \in DOMAIN submissions : submissions[x] = submissions[y] => x = y
  BY Zenon DEF ReplayLineage
<1>6. CASE UNCHANGED <<submissions, replays>>
  BY <1>2, <1>3, <1>6, ZenonT(30) DEF ReplayLineage, Replayed, Submitted
<1>7. ASSUME NEW j \in JobIds, NEW k \in Keys, NEW d \in Definitions,
             NEW delay \in Schedules, NEW lag \in SubmitLags, Submit(j, k, d, delay, lag)
      PROVE  ReplayLineage'
  <2> DEFINE new == <<d.scope, k>>
  <2>1. /\ j \notin DOMAIN jobs /\ new \notin DOMAIN submissions /\ replays' = replays
        /\ submissions' = WithRow(submissions, new, j)
    BY <1>7, ZenonT(30) DEF Submit
  <2>2. /\ DOMAIN submissions' = DOMAIN submissions \cup {new} /\ submissions'[new] = j
        /\ \A x \in DOMAIN submissions : submissions'[x] = submissions[x]
    BY <2>1, ZenonT(30) DEF WithRow
  <2>3. Submitted(new)'
    <3>1. PICK row : /\ jobs' = WithRow(jobs, j, row) /\ row.replayOf = NULL /\ row.def = d
      BY <1>7 DEF Submit, QueuedRow, PendingRow
    <3>2. j \in DOMAIN jobs' /\ jobs'[j] = row BY <3>1, ZenonT(30) DEF WithRow
    <3> QED BY <2>2, <3>1, <3>2, ZenonT(30) DEF Submitted
  <2>4. new[1] = d.scope OBVIOUS
  <2> HIDE DEF new
  <2>5. \A x, y \in DOMAIN submissions' : submissions'[x] = submissions'[y] => x = y
    BY <1>5, <2>1, <2>2
  <2>6. \A x \in DOMAIN submissions' : Submitted(x)' BY <1>3, <2>2, <2>3, ZenonT(30)
  <2> QED BY <1>2, <2>1, <2>5, <2>6, ZenonT(30) DEF ReplayLineage, Replayed, Submitted
<1>8. ASSUME NEW original \in DOMAIN jobs, NEW k \in Keys, NEW j \in JobIds, Replay(original, k, j)
      PROVE  ReplayLineage'
  <2> DEFINE new == <<original, k>>
  <2>1. /\ j \notin DOMAIN jobs /\ new \notin DOMAIN replays /\ submissions' = submissions
        /\ replays' = WithRow(replays, new, j)
        /\ jobs[original].status = "DEAD_LETTERED"
    BY <1>8, ZenonT(30) DEF Replay, Replayable
  <2>2. /\ DOMAIN replays' = DOMAIN replays \cup {new} /\ replays'[new] = j
        /\ \A x \in DOMAIN replays : replays'[x] = replays[x]
    BY <2>1, ZenonT(30) DEF WithRow
  <2>3. Replayed(new)'
    <3> DEFINE row == QueuedRow(jobs[original].def, now, original)
    <3>a. jobs' = WithRow(jobs, j, row) BY <1>8, ZenonT(30) DEF Replay
    <3>b. row.replayOf = original /\ row.def = jobs[original].def BY DEF QueuedRow
    <3> HIDE DEF row
    <3>1. /\ jobs' = WithRow(jobs, j, row)
          /\ row.replayOf = original /\ row.def = jobs[original].def
      BY <3>a, <3>b
    <3>2. j \in DOMAIN jobs' /\ jobs'[j] = row BY <3>1, ZenonT(30) DEF WithRow
    <3>3. /\ original \in DOMAIN jobs' /\ jobs'[original].status = "DEAD_LETTERED"
          /\ jobs'[original].def = jobs[original].def
      BY <1>1, <2>1, ZenonT(30) DEF JobsKept, TerminalJob
    <3>4. j # original BY <2>1, ZenonT(30)
    <3> QED BY <2>2, <3>1, <3>2, <3>3, <3>4, ZenonT(30) DEF Replayed
  <2> HIDE DEF new
  <2>4. \A x, y \in DOMAIN replays' : replays'[x] = replays'[y] => x = y
    BY <1>4, <2>1, <2>2
  <2>5. \A x \in DOMAIN replays' : Replayed(x)' BY <1>2, <2>2, <2>3
  <2> QED BY <1>3, <2>1, <2>4, <2>5, ZenonT(30) DEF ReplayLineage, Replayed, Submitted
<1> QED BY <1>6, <1>7, <1>8, KeySteps

\* However often a submission or a replay is repeated and however the repeats
\* interleave, one key names one job, a replay keeps the definition of its
\* dead-lettered original, and the original stays dead-lettered.
THEOREM LineageIsKept == Spec => []ReplayLineage
<1>1. Init => TypeInv /\ ReplayLineage
  <2>1. Init => ReplayLineage BY DEF Init, EmptyTable, ReplayLineage
  <2> QED BY <2>1, TypeInvInit
<1>2. TypeInv /\ ReplayLineage /\ [Next]_vars => (TypeInv /\ ReplayLineage)'
  BY LineageStep, TypeInvStep
<1> QED BY <1>1, <1>2, PTL DEF Spec

-----------------------------------------------------------------------------
(***************************************************************************)
(* Sessions: one boot of a worker is current, a boot that was fenced stays *)
(* fenced, and a notification admits one attempt.                          *)
(***************************************************************************)

\* Only registration, heartbeats and the staleness sweep write a session.
LEMMA SessionSteps ==
    ASSUME TypeInv, [Next]_vars
    PROVE  \/ UNCHANGED sessions
           \/ \E s \in SessionIds, r \in Registrations : Register(s, r)
           \/ \E s \in DOMAIN sessions : Heartbeat(s) \/ MarkSessionStale(s)
<1>1. CASE \/ Tick \/ (\E e \in DOMAIN outbox : MarkPublished(e))
           \/ UNCHANGED vars
  BY <1>1 DEF Tick, MarkPublished, vars
<1>2. ASSUME NEW j, NEW k, NEW d, NEW delay, NEW lag, Submit(j, k, d, delay, lag)
      PROVE  UNCHANGED sessions
  BY <1>2 DEF Submit
<1>3. ASSUME NEW original, NEW k, NEW j, Replay(original, k, j)
      PROVE  UNCHANGED sessions
  BY <1>3 DEF Replay
<1>4. ASSUME NEW j, RequestCancel(j) \/ PromoteDueJob(j) \/ RenotifyStrandedJob(j)
      PROVE  UNCHANGED sessions
  BY <1>4 DEF RequestCancel, PromoteDueJob, RenotifyStrandedJob
<1>5. ASSUME NEW s, NEW e, NEW j, Claim(s, e, j) PROVE UNCHANGED sessions
  BY <1>5 DEF Claim
<1>6. ASSUME NEW a, Start(a) \/ RenewLease(a) PROVE UNCHANGED sessions
  BY <1>6 DEF Start, RenewLease
<1>7. ASSUME NEW a, Ends(a) PROVE UNCHANGED sessions
  BY <1>7, EndsCases, ZenonT(30) DEF Succeed, FinalizeAttempt, FinalizeCancellation
<1> QED BY <1>1, <1>2, <1>3, <1>4, <1>5, <1>6, <1>7, NextCases

\* What such a step does to the rows: the registration is kept, a boot that
\* was not current is left alone, and one that is was so before or is new.
LEMMA SessionRows ==
    ASSUME TypeInv, [Next]_vars
    PROVE  \/ /\ DOMAIN sessions' = DOMAIN sessions
              /\ \A x \in DOMAIN sessions :
                    /\ sessions'[x].reg = sessions[x].reg
                    /\ sessions'[x].status \in CurrentSession => sessions[x].status \in CurrentSession
                    /\ sessions[x].status \notin CurrentSession => sessions'[x] = sessions[x]
           \/ \E s \in SessionIds \ DOMAIN sessions :
              /\ DOMAIN sessions' = DOMAIN sessions \cup {s}
              /\ \A x \in DOMAIN sessions :
                    /\ sessions'[x].reg = sessions[x].reg
                    /\ sessions'[x].status \in CurrentSession =>
                          /\ sessions[x].status \in CurrentSession
                          /\ sessions[x].reg.worker # sessions'[s].reg.worker
                    /\ sessions[x].status \notin CurrentSession => sessions'[x] = sessions[x]
<1>1. DOMAIN sessions \subseteq SessionIds /\ \A x \in DOMAIN sessions : sessions[x] \in SessionRow
  BY DEF TypeInv, TypeOK
<1>2. CASE UNCHANGED sessions BY <1>2
<1>3. ASSUME NEW s \in SessionIds, NEW r \in Registrations, Register(s, r)
      PROVE  /\ s \notin DOMAIN sessions
             /\ DOMAIN sessions' = DOMAIN sessions \cup {s}
             /\ sessions'[s].reg = r
             /\ \A x \in DOMAIN sessions :
                   /\ sessions'[x].reg = sessions[x].reg
                   /\ sessions'[x].status \in CurrentSession =>
                         sessions[x].status \in CurrentSession /\ sessions[x].reg.worker # r.worker
                   /\ sessions[x].status \notin CurrentSession => sessions'[x] = sessions[x]
  <2>1. s \notin DOMAIN sessions BY <1>3 DEF Register
  <2>2. DOMAIN sessions' = DOMAIN sessions \cup {s} /\ sessions'[s].reg = r
    BY <1>3 DEF Register, WithRow
  <2>3. ASSUME NEW x \in DOMAIN sessions
        PROVE  sessions'[x] = IF sessions[x].reg.worker = r.worker /\ sessions[x].status \in CurrentSession
                              THEN [sessions[x] EXCEPT !.status = "OFFLINE"] ELSE sessions[x]
    BY <1>3, <2>1 DEF Register, WithRow
  <2>4. ASSUME NEW row \in SessionRow
        PROVE  /\ [row EXCEPT !.status = "OFFLINE"].reg = row.reg
               /\ [row EXCEPT !.status = "OFFLINE"].status \notin CurrentSession
    BY DEF SessionRow, CurrentSession
  <2> QED BY <1>1, <2>1, <2>2, <2>3, <2>4, Zenon
<1>4. ASSUME NEW s \in DOMAIN sessions, Heartbeat(s) \/ MarkSessionStale(s)
      PROVE  /\ DOMAIN sessions' = DOMAIN sessions
             /\ \A x \in DOMAIN sessions :
                   /\ sessions'[x].reg = sessions[x].reg
                   /\ sessions'[x].status \in CurrentSession => sessions[x].status \in CurrentSession
                   /\ sessions[x].status \notin CurrentSession => sessions'[x] = sessions[x]
  <2>1. sessions[s].status \in CurrentSession
    BY <1>4 DEF Heartbeat, MarkSessionStale, CurrentSession
  <2>2. PICK row : sessions' = [sessions EXCEPT ![s] = row] /\ row.reg = sessions[s].reg
    <3>1. CASE Heartbeat(s)
      <4>1. [sessions[s] EXCEPT !.heartbeatAt = now].reg = sessions[s].reg
        BY <1>1 DEF SessionRow
      <4> QED BY Zenon, <3>1, <4>1 DEF Heartbeat
    <3>2. CASE MarkSessionStale(s)
      <4>1. [sessions[s] EXCEPT !.status = "UNHEALTHY"].reg = sessions[s].reg
        BY <1>1 DEF SessionRow
      <4> QED BY Zenon, <3>2, <4>1 DEF MarkSessionStale
    <3> QED BY <1>4, <3>1, <3>2
  <2>3. DOMAIN sessions' = DOMAIN sessions
        /\ sessions'[s] = row /\ \A x \in DOMAIN sessions \ {s} : sessions'[x] = sessions[x]
    BY <1>1, <2>2 DEF TypeInv, TypeOK
  <2> QED BY <2>1, <2>2, <2>3
<1>5. CASE \E s \in SessionIds, r \in Registrations : Register(s, r)
  <2>1. PICK s \in SessionIds, r \in Registrations : Register(s, r) BY <1>5
  <2>2. s \in SessionIds \ DOMAIN sessions BY <1>3, <2>1
  <2> QED BY <1>3, <2>1, <2>2
<1>6. CASE \E s \in DOMAIN sessions : Heartbeat(s) \/ MarkSessionStale(s)
  BY <1>4, <1>6
<1> QED BY <1>2, <1>5, <1>6, SessionSteps, Zenon

(* A logical worker has at most one current boot: Register fences the rest *)
(* in the transaction that makes a new one.                                *)
THEOREM OneBootIsCurrent == Spec => []OneCurrentSession
<1>1. Init => TypeInv /\ OneCurrentSession
  <2>1. Init => OneCurrentSession BY DEF Init, EmptyTable, OneCurrentSession
  <2> QED BY <2>1, TypeInvInit
<1>2. TypeInv /\ OneCurrentSession /\ [Next]_vars => (TypeInv /\ OneCurrentSession)'
  <2> SUFFICES ASSUME TypeInv, OneCurrentSession, [Next]_vars PROVE OneCurrentSession'
    BY TypeInvStep
  <2>1. CASE /\ DOMAIN sessions' = DOMAIN sessions
             /\ \A x \in DOMAIN sessions :
                   /\ sessions'[x].reg = sessions[x].reg
                   /\ sessions'[x].status \in CurrentSession => sessions[x].status \in CurrentSession
    BY <2>1 DEF OneCurrentSession
  <2>2. ASSUME NEW s \in SessionIds \ DOMAIN sessions,
               DOMAIN sessions' = DOMAIN sessions \cup {s},
               \A x \in DOMAIN sessions :
                    /\ sessions'[x].reg = sessions[x].reg
                    /\ sessions'[x].status \in CurrentSession =>
                          /\ sessions[x].status \in CurrentSession
                          /\ sessions[x].reg.worker # sessions'[s].reg.worker
        PROVE  OneCurrentSession'
    BY <2>2 DEF OneCurrentSession
  <2> QED BY <2>1, <2>2, SessionRows, Zenon
<1> QED BY <1>1, <1>2, PTL DEF Spec

(* A fenced boot never becomes current again, and its row is final: no     *)
(* heartbeat revives it (Store.Heartbeat, markSessionStale).               *)
THEOREM FencedBootsStayFenced == Spec => FencedSessionStaysFenced
<1>1. TypeInv /\ [Next]_vars =>
        [\A s \in DOMAIN sessions :
            sessions[s].status \notin CurrentSession => sessions'[s] = sessions[s]]_vars
  BY SessionRows, Zenon
<1> QED BY <1>1, TypeInvInit, TypeInvStep, PTL DEF Spec, FencedSessionStaysFenced

-----------------------------------------------------------------------------
(***************************************************************************)
(* Claims.                                                                 *)
(***************************************************************************)

\* Only a claim creates an attempt.
LEMMA WhoCreates ==
    ASSUME TypeInv, [Next]_vars
    PROVE  \/ DOMAIN attempts' = DOMAIN attempts
           \/ \E s \in DOMAIN sessions, e \in DOMAIN outbox, j \in DOMAIN jobs : Claim(s, e, j)
<1>1. CASE \/ Tick \/ (\E e \in DOMAIN outbox : MarkPublished(e)) \/ UNCHANGED vars
  BY <1>1 DEF Tick, MarkPublished, vars
<1>2. ASSUME NEW j, NEW k, NEW d, NEW delay, NEW lag, Submit(j, k, d, delay, lag)
      PROVE  UNCHANGED attempts
  BY <1>2 DEF Submit
<1>3. ASSUME NEW original, NEW k, NEW j, Replay(original, k, j) PROVE UNCHANGED attempts
  BY <1>3 DEF Replay
<1>4. ASSUME NEW j, RequestCancel(j) \/ PromoteDueJob(j) \/ RenotifyStrandedJob(j)
      PROVE  UNCHANGED attempts
  BY <1>4 DEF RequestCancel, PromoteDueJob, RenotifyStrandedJob
<1>5. ASSUME NEW s, (\E r : Register(s, r)) \/ Heartbeat(s) \/ MarkSessionStale(s)
      PROVE  UNCHANGED attempts
  BY Zenon, <1>5 DEF Register, Heartbeat, MarkSessionStale
<1>6. ASSUME NEW a \in DOMAIN attempts, Start(a) \/ RenewLease(a) \/ Ends(a)
      PROVE  DOMAIN attempts' = DOMAIN attempts
  BY <1>6, StartRows, RenewRows, EndsRows
<1> QED BY <1>1, <1>2, <1>3, <1>4, <1>5, <1>6, NextCases

\* What no step changes: who holds an attempt, under which notification, what
\* that boot registered, and that a finished attempt is finished.
HoldersKept ==
    /\ DOMAIN sessions \subseteq DOMAIN sessions'
    /\ \A s \in DOMAIN sessions : sessions'[s].reg = sessions[s].reg
    /\ \A a \in DOMAIN attempts :
          /\ attempts'[a].session = attempts[a].session
          /\ leases'[a].claim = leases[a].claim
          /\ Executing(a)' => Executing(a)

LEMMA StepKeepsHolders == ASSUME TypeInv, [Next]_vars PROVE HoldersKept
<1>1. /\ DOMAIN sessions \subseteq DOMAIN sessions'
      /\ \A s \in DOMAIN sessions : sessions'[s].reg = sessions[s].reg
  BY SessionRows, ZenonT(30)
<1>2. ASSUME NEW a \in DOMAIN attempts
      PROVE  /\ attempts'[a].session = attempts[a].session
             /\ leases'[a].claim = leases[a].claim
             /\ Executing(a)' => Executing(a)
  <2>1. Untouched(a) \/ Started(a) \/ Renewed(a) \/ Concluded(a) BY StepRows, ZenonT(30) DEF AttemptsKept
  <2> QED BY <2>1 DEF Untouched, Started, Renewed, Concluded, Executing
<1> QED BY <1>1, <1>2 DEF HoldersKept

\* The holder of a is eligible for its job.
Eligible(a) ==
    LET d == jobs[JobOf(a)].def
        r == sessions[attempts[a].session].reg
    IN  d.scope = r.scope /\ d.needs \subseteq r.offers

\* What a claim checked, said of the attempt it created.
LEMMA ClaimAdmits ==
    ASSUME TypeInv, NEW s \in DOMAIN sessions, NEW e \in DOMAIN outbox,
           NEW j \in DOMAIN jobs, Claim(s, e, j)
    PROVE  /\ Claimed(s, e, j, <<j, NextNumber(j)>>)
           /\ \A b \in DOMAIN attempts : leases[b].claim # e
           /\ jobs[j].def.scope = sessions[s].reg.scope
           /\ jobs[j].def.needs \subseteq sessions[s].reg.offers
           /\ jobs[j].def.queue \in Queues
           /\ Cardinality(ActiveOn(jobs[j].def.queue)) < QueueLimit[jobs[j].def.queue]
           /\ Cardinality(ActiveBy(sessions[s].reg.worker)) < sessions[s].reg.limit
<1>1. Claimed(s, e, j, <<j, NextNumber(j)>>) BY ClaimRows
<1>2. DOMAIN leases = DOMAIN attempts BY DEF TypeInv, TypeOK
<1>3. \A b \in DOMAIN attempts : leases[b].claim # e BY <1>2 DEF Claim, Consumed
<1>4. /\ jobs[j].def.queue = jobs[JobOf(e)].def.queue
      /\ jobs[j].def.scope = sessions[s].reg.scope
      /\ jobs[j].def.needs \subseteq sessions[s].reg.offers
  BY DEF Claim, Claimable
<1>5. /\ Cardinality(ActiveOn(jobs[j].def.queue)) < QueueLimit[jobs[j].def.queue]
      /\ Cardinality(ActiveBy(sessions[s].reg.worker)) < sessions[s].reg.limit
  BY <1>4 DEF Claim, HasRoom
<1>6. jobs[j].def \in Definition BY ConstantsAssumption DEF TypeInv, TypeOK, JobRow
<1>7. jobs[j].def.queue \in Queues BY <1>6 DEF Definition
<1> QED BY <1>1, <1>3, <1>4, <1>5, <1>7

LEMMA ClaimedOnceStep ==
    ASSUME TypeInv, ClaimedOnce, [Next]_vars
    PROVE  ClaimedOnce'
<1>0. TypeInv' BY TypeInvStep
<1>1. DOMAIN leases = DOMAIN attempts /\ DOMAIN leases' = DOMAIN attempts'
  BY <1>0 DEF TypeInv, TypeOK
<1>2. HoldersKept /\ JobsKept BY StepKeepsHolders, StepKeepsJobs
<1>3. ASSUME NEW a \in DOMAIN attempts PROVE Eligible(a)'
  <2>1. Eligible(a) BY DEF ClaimedOnce, Eligible
  <2>2. attempts[a].session \in DOMAIN sessions /\ JobOf(a) \in DOMAIN jobs BY FencedRows
  <2> QED BY <1>2, <2>1, <2>2 DEF Eligible, HoldersKept, JobsKept
<1>4. \A a, b \in DOMAIN attempts : leases'[a].claim = leases'[b].claim => a = b
  BY <1>1, <1>2 DEF HoldersKept, ClaimedOnce
<1>5. CASE DOMAIN attempts' = DOMAIN attempts
  BY <1>1, <1>3, <1>4, <1>5, ZenonT(30) DEF ClaimedOnce, Eligible
<1>6. ASSUME NEW s \in DOMAIN sessions, NEW e \in DOMAIN outbox, NEW j \in DOMAIN jobs, Claim(s, e, j)
      PROVE  ClaimedOnce'
  <2>0. PICK a : a = <<j, NextNumber(j)>> /\ Claimed(s, e, j, a) BY Zenon, <1>6, ClaimRows
  <2>1. JobOf(a) = j BY <2>0 DEF JobOf
  <2>2. \A b \in DOMAIN attempts : leases[b].claim # e BY <1>6, ClaimAdmits, ZenonT(30)
  <2>3. /\ DOMAIN attempts' = DOMAIN attempts \cup {a}
        /\ attempts'[a].session = s /\ leases'[a].claim = e /\ sessions' = sessions
    BY <2>0 DEF Claimed
  <2>4. Eligible(a)'
    <3>1. /\ jobs[j].def.scope = sessions[s].reg.scope
          /\ jobs[j].def.needs \subseteq sessions[s].reg.offers
      BY <1>6, ClaimAdmits, ZenonT(30)
    <3>2. jobs'[j].def = jobs[j].def BY <1>2 DEF JobsKept
    <3> QED BY <2>1, <2>3, <3>1, <3>2 DEF Eligible
  <2>5. \A b \in DOMAIN attempts : leases'[b].claim # leases'[a].claim
    BY <1>2, <2>2, <2>3 DEF HoldersKept
  <2>6. \A x, y \in DOMAIN leases' : leases'[x].claim = leases'[y].claim => x = y
    BY <1>1, <1>4, <2>3, <2>5
  <2>7. \A x \in DOMAIN attempts' : Eligible(x)' BY <1>3, <2>3, <2>4
  <2> QED BY <2>6, <2>7 DEF ClaimedOnce, Eligible
<1> QED BY <1>5, <1>6, WhoCreates

\* However often a notification is delivered and to whom, it admits one
\* attempt, and only an eligible boot ever holds a job (Store.Claim).
THEOREM OneNoticeOneAttempt == Spec => []ClaimedOnce
<1>1. Init => TypeInv /\ ClaimedOnce
  <2>1. Init => ClaimedOnce BY DEF Init, EmptyTable, ClaimedOnce
  <2> QED BY <2>1, TypeInvInit
<1>2. TypeInv /\ ClaimedOnce /\ [Next]_vars => (TypeInv /\ ClaimedOnce)'
  BY ClaimedOnceStep, TypeInvStep
<1> QED BY <1>1, <1>2, PTL DEF Spec

=============================================================================
