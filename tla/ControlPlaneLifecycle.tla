----------------------- MODULE ControlPlaneLifecycle ------------------------
(***************************************************************************)
(* What follows from the invariant and the history together.  Records are  *)
(* final and no limit is passed.  ControlPlane implements JobLifecycle:    *)
(* seen through the status of each job and the attempts it has left, every *)
(* transaction is one step of the promise made to the client, or none.     *)
(***************************************************************************)
EXTENDS ControlPlaneHistory, ControlPlaneSafety, FiniteSetTheorems

\* The time each leaf is given.
USE SMTT(20), ZenonT(20)

-----------------------------------------------------------------------------
(***************************************************************************)
(* The invariant holds.                                                    *)
(***************************************************************************)

LEMMA Intervals == Counting
BY FS_Interval DEF Counting

LEMMA Counts ==
    ASSUME TypeInv, NEW j \in DOMAIN jobs
    PROVE  Cardinality(Numbers(j)) = Used(j)
BY Intervals, UsedFacts DEF Counting

LEMMA SafetyAlways == Spec => []SafetyInv
BY SafetyInit, SafetyStep, Intervals, PTL DEF Spec

-----------------------------------------------------------------------------
(***************************************************************************)
(* Theorems.                                                               *)
(***************************************************************************)

\* Exclusive authority: whatever clients, workers and sweeps do, at most the
\* newest attempt of a job executes, under its ACTIVE lease, and the job shows
\* the state of the attempt that holds it.
THEOREM AuthorityIsExclusive == Spec => []HolderIsNewest
BY SafetyAlways, SafetyImpliesHolder, PTL

\* Claim never numbers an attempt past max_attempts nor leaves a gap, and no
\* path puts a job without budget back in the queue.
THEOREM BudgetIsRespected == Spec => []AttemptBudget
BY SafetyAlways, Intervals, SafetyImpliesBudget, PTL

\* A job's terminal status is the one its attempts explain.
THEOREM HistoryExplainsOutcome == Spec => []OutcomeMatchesHistory
BY SafetyAlways, SafetyImpliesHistory, PTL

\* Dead-lettered jobs and dead-letter entries are the same set, each entry
\* with the attempt and the reason that ended its job.
THEOREM DeadLettersAreExact == Spec => []DeadLetterRecord
BY SafetyAlways, SafetyImpliesDeadLetter, PTL

-----------------------------------------------------------------------------
(***************************************************************************)
(* Records.                                                                *)
(***************************************************************************)

\* Whoever ends an attempt adds at most an entry for a job that has none.
LEMMA DeadLettersKept ==
    ASSUME SafetyInv, [Next]_vars, NEW j \in DOMAIN dlq
    PROVE  j \in DOMAIN dlq' /\ dlq'[j] = dlq[j]
<1>1. TypeInv BY DEF SafetyInv
<1>2. CASE UNCHANGED dlq BY <1>2
<1>3. ASSUME NEW a \in DOMAIN attempts, Ends(a) PROVE j \in DOMAIN dlq' /\ dlq'[j] = dlq[j]
  <2>1. j # JobOf(a) BY <1>3, EndsCases, HeldRows
  <2>2. CASE UNCHANGED dlq BY <2>2
  <2>3. ASSUME NEW row, dlq' = WithRow(dlq, JobOf(a), row) PROVE j \in DOMAIN dlq' /\ dlq'[j] = dlq[j]
    BY <2>1, <2>3 DEF WithRow
  <2>4. UNCHANGED dlq \/ \E row : dlq' = WithRow(dlq, JobOf(a), row)
    <3>1. ASSUME NEW withResult, Succeed(a, withResult) PROVE UNCHANGED dlq BY <3>1 DEF Succeed
    <3>2. ASSUME NEW leaseStatus, FinalizeCancellation(a, leaseStatus) PROVE UNCHANGED dlq
      BY <3>2 DEF FinalizeCancellation
    <3>3. ASSUME NEW status, NEW class, NEW leaseStatus, FinalizeAttempt(a, status, class, leaseStatus)
          PROVE  UNCHANGED dlq \/ \E row : dlq' = WithRow(dlq, JobOf(a), row)
      BY Zenon, <3>3 DEF FinalizeAttempt
    <3> QED BY <1>3, <3>1, <3>2, <3>3, EndsCases
  <2> QED BY <2>2, <2>3, <2>4
<1> QED BY <1>1, <1>2, <1>3, WhoEnds

\* What a step leaves of what is finished.
Remembers ==
    /\ \A j \in DOMAIN jobs : jobs[j].status \in TerminalJob => jobs'[j] = jobs[j]
    /\ \A a \in DOMAIN attempts :
          ~Executing(a) => /\ attempts'[a] = attempts[a]
                           /\ leases'[a] = leases[a]
    /\ \A j \in DOMAIN dlq : dlq'[j] = dlq[j]
    /\ \A e \in DOMAIN outbox : outbox[e] = "PUBLISHED" => outbox'[e] = "PUBLISHED"

LEMMA StepRemembers == ASSUME SafetyInv, NoticeInv, [Next]_vars PROVE Remembers
<1>0. TypeInv BY DEF SafetyInv
<1>1. ASSUME NEW j \in DOMAIN jobs, jobs[j].status \in TerminalJob PROVE jobs'[j] = jobs[j]
  <2>1. \A s : <<jobs[j].status, s>> \notin Edges BY <1>1 DEF Edges, WaitingJob, TerminalJob
  <2> QED BY <1>0, <1>1, <2>1, JobSteps, ZenonT(30) DEF JobStep, Moves, Advertises, Schedule, Writes
<1>2. ASSUME NEW a \in DOMAIN attempts, ~Executing(a)
      PROVE  attempts'[a] = attempts[a] /\ leases'[a] = leases[a]
  <2>1. Untouched(a) \/ Started(a) \/ Renewed(a) \/ Concluded(a) BY <1>0, StepRows DEF AttemptsKept
  <2> QED BY <1>2, <2>1 DEF Untouched, Started, Renewed, Concluded, Executing
<1>3. \A j \in DOMAIN dlq : dlq'[j] = dlq[j] BY DeadLettersKept
<1>4. ASSUME NEW e \in DOMAIN outbox, outbox[e] = "PUBLISHED" PROVE outbox'[e] = "PUBLISHED"
  <2>1. CASE UNCHANGED outbox BY <1>4, <2>1
  <2>2. ASSUME NEW f \in DOMAIN outbox, MarkPublished(f) PROVE outbox'[e] = "PUBLISHED"
    <3>1. outbox' = [outbox EXCEPT ![f] = "PUBLISHED"] BY <2>2 DEF MarkPublished
    <3> QED BY <1>0, <1>4, <3>1 DEF TypeInv, TypeOK
  <2>3. ASSUME NEW j \in JobIds, NEW row, Advertises(j, row) PROVE outbox'[e] = "PUBLISHED"
    <3>1. <<j, row.generation, row.notifiedAt>> \notin DOMAIN outbox BY <2>3, FreshEvent
    <3>2. outbox' = WithRow(outbox, <<j, row.generation, row.notifiedAt>>, "PENDING")
      BY <2>3 DEF Advertises, WorkAvailable
    <3> QED BY <1>4, <3>1, <3>2 DEF WithRow
  <2>4. JobStep BY <1>0, JobSteps
  <2> QED BY <2>1, <2>2, <2>3, <2>4, ZenonT(30) DEF JobStep, Moves, Schedule
<1> QED BY <1>1, <1>2, <1>3, <1>4 DEF Remembers

\* A terminal job, a finished attempt, a closed lease, a dead-letter entry and
\* a published event are final.
THEOREM HistoryIsFinal == Spec => HistoryIsImmutable
<1>1. SafetyInv /\ NoticeInv /\ [Next]_vars => [Remembers]_vars BY StepRemembers
<1> QED BY <1>1, SafetyAlways, NoticeAlways, PTL DEF Spec, HistoryIsImmutable, Remembers

-----------------------------------------------------------------------------
(***************************************************************************)
(* Capacity.  A limit is a bound on a cardinality, so the invariant adds   *)
(* that there are finitely many attempts; SafetyInv says that the ACTIVE   *)
(* leases are those of the attempts that execute, which only a claim can   *)
(* make more of.                                                           *)
(***************************************************************************)

CapacityInv == SafetyInv /\ IsFiniteSet(DOMAIN attempts) /\ CapacityRespected

\* The leases a limit counts, as attempts.
LEMMA ActiveSets ==
    ASSUME SafetyInv, IsFiniteSet(DOMAIN attempts), NEW q, NEW w
    PROVE  /\ ActiveOn(q) = {a \in DOMAIN attempts : Executing(a) /\ jobs[JobOf(a)].def.queue = q}
           /\ ActiveBy(w) = {a \in DOMAIN attempts : Executing(a) /\ WorkerOf(a) = w}
           /\ IsFiniteSet(ActiveOn(q)) /\ Cardinality(ActiveOn(q)) \in Nat
           /\ IsFiniteSet(ActiveBy(w)) /\ Cardinality(ActiveBy(w)) \in Nat
<1>1. DOMAIN leases = DOMAIN attempts BY DEF SafetyInv, TypeInv, TypeOK
<1>2. \A a \in DOMAIN attempts : Executing(a) <=> leases[a].status = "ACTIVE"
  BY DEF SafetyInv, AttemptInv
<1>3. ActiveOn(q) = {a \in DOMAIN attempts : Executing(a) /\ jobs[JobOf(a)].def.queue = q}
  BY <1>1, <1>2 DEF ActiveOn
<1>4. ActiveBy(w) = {a \in DOMAIN attempts : Executing(a) /\ WorkerOf(a) = w}
  BY <1>1, <1>2 DEF ActiveBy
<1>5. IsFiniteSet(ActiveOn(q)) /\ IsFiniteSet(ActiveBy(w))
  BY <1>3, <1>4, FS_Subset
<1> QED BY <1>3, <1>4, <1>5, FS_CardinalityType

\* A step adds no lease to a queue or a worker but the one a claim creates.
LEMMA ActiveGrowth ==
    ASSUME SafetyInv, SafetyInv', IsFiniteSet(DOMAIN attempts), IsFiniteSet(DOMAIN attempts'),
           [Next]_vars, NEW q, NEW w
    PROVE  /\ \A a \in ActiveOn(q)' :
                 \/ a \in ActiveOn(q)
                 \/ a \in DOMAIN attempts' \ DOMAIN attempts /\ jobs'[JobOf(a)].def.queue = q
           /\ \A a \in ActiveBy(w)' :
                 \/ a \in ActiveBy(w)
                 \/ a \in DOMAIN attempts' \ DOMAIN attempts /\ WorkerOf(a)' = w
<1>0. TypeInv BY DEF SafetyInv
<1>1. HoldersKept /\ JobsKept BY <1>0, StepKeepsHolders, StepKeepsJobs
<1>2. /\ ActiveOn(q) = {a \in DOMAIN attempts : Executing(a) /\ jobs[JobOf(a)].def.queue = q}
      /\ ActiveBy(w) = {a \in DOMAIN attempts : Executing(a) /\ WorkerOf(a) = w}
  BY ActiveSets
<1>3. /\ ActiveOn(q)' = {a \in DOMAIN attempts' : Executing(a)' /\ jobs'[JobOf(a)].def.queue = q}
      /\ ActiveBy(w)' = {a \in DOMAIN attempts' : Executing(a)' /\ WorkerOf(a)' = w}
  <2>1. DOMAIN leases' = DOMAIN attempts' BY DEF SafetyInv, TypeInv, TypeOK
  <2>2. \A a \in DOMAIN attempts' : Executing(a)' <=> leases'[a].status = "ACTIVE"
    BY DEF SafetyInv, AttemptInv
  <2> QED BY <2>1, <2>2 DEF ActiveOn, ActiveBy
<1>4. ASSUME NEW a \in DOMAIN attempts, Executing(a)'
      PROVE  /\ Executing(a)
             /\ jobs'[JobOf(a)].def = jobs[JobOf(a)].def
             /\ WorkerOf(a)' = WorkerOf(a)
  <2>1. JobOf(a) \in DOMAIN jobs /\ attempts[a].session \in DOMAIN sessions BY <1>0, FencedRows
  <2> QED BY <1>1, <1>4, <2>1 DEF HoldersKept, JobsKept, WorkerOf
<1> QED BY <1>2, <1>3, <1>4

\* A set that grew by at most one element.
LEMMA GrownByOne ==
    ASSUME NEW S, NEW T, NEW x, IsFiniteSet(S), T \subseteq S \cup {x}
    PROVE  /\ IsFiniteSet(T)
           /\ Cardinality(T) \in Nat /\ Cardinality(S) \in Nat
           /\ Cardinality(T) <= Cardinality(S) + 1
           /\ T \subseteq S => Cardinality(T) <= Cardinality(S)
<1>1. IsFiniteSet(S \cup {x}) /\ Cardinality(S \cup {x}) <= Cardinality(S) + 1
      /\ Cardinality(S) \in Nat
  BY FS_AddElement, FS_CardinalityType
<1>2. IsFiniteSet(T) /\ Cardinality(T) <= Cardinality(S \cup {x})
  BY <1>1, FS_Subset
<1>3. Cardinality(T) \in Nat /\ Cardinality(S \cup {x}) \in Nat
  BY <1>1, <1>2, FS_CardinalityType
<1>4. T \subseteq S => Cardinality(T) <= Cardinality(S) BY FS_Subset
<1> QED BY <1>1, <1>2, <1>3, <1>4

LEMMA LimitFacts ==
    ASSUME TypeInv, NEW s \in DOMAIN sessions
    PROVE  sessions[s].reg.limit \in Nat
<1>1. sessions[s].reg \in Registration BY ConstantsAssumption DEF TypeInv, TypeOK, SessionRow
<1> QED BY <1>1 DEF Registration

\* A step that creates no attempt can only give capacity back.
LEMMA CapacityKept ==
    ASSUME CapacityInv, SafetyInv', [Next]_vars, DOMAIN attempts' = DOMAIN attempts
    PROVE  CapacityInv'
<1>0. SafetyInv /\ IsFiniteSet(DOMAIN attempts) /\ IsFiniteSet(DOMAIN attempts') /\ TypeInv
  BY DEF CapacityInv, SafetyInv
<1>1. HoldersKept BY <1>0, StepKeepsHolders
<1>2. ASSUME NEW q \in Queues PROVE Cardinality(ActiveOn(q)') <= QueueLimit[q]
  <2>1. ActiveOn(q)' \subseteq ActiveOn(q) BY <1>0, ActiveGrowth
  <2>2. IsFiniteSet(ActiveOn(q)) BY <1>0, ActiveSets
  <2>3. /\ Cardinality(ActiveOn(q)') \in Nat /\ Cardinality(ActiveOn(q)) \in Nat
        /\ Cardinality(ActiveOn(q)') <= Cardinality(ActiveOn(q))
    BY <2>1, <2>2, GrownByOne, ZenonT(30)
  <2>4. Cardinality(ActiveOn(q)) <= QueueLimit[q] BY DEF CapacityInv, CapacityRespected
  <2> QED BY <2>3, <2>4, ConstantsAssumption
<1>3. ASSUME NEW w \in Workers, ActiveBy(w)' # {}
      PROVE  \E s \in DOMAIN sessions' : /\ sessions'[s].reg.worker = w
                                         /\ Cardinality(ActiveBy(w)') <= sessions'[s].reg.limit
  <2>1. ActiveBy(w)' \subseteq ActiveBy(w) BY <1>0, ActiveGrowth
  <2>2. IsFiniteSet(ActiveBy(w)) BY <1>0, ActiveSets
  <2>3. /\ Cardinality(ActiveBy(w)') \in Nat /\ Cardinality(ActiveBy(w)) \in Nat
        /\ Cardinality(ActiveBy(w)') <= Cardinality(ActiveBy(w))
    BY <2>1, <2>2, GrownByOne
  <2>4. PICK s \in DOMAIN sessions : /\ sessions[s].reg.worker = w
                                     /\ Cardinality(ActiveBy(w)) <= sessions[s].reg.limit
    BY <1>3, <2>1 DEF CapacityInv, CapacityRespected
  <2>5. sessions[s].reg.limit \in Nat BY <1>0, LimitFacts
  <2>6. s \in DOMAIN sessions' /\ sessions'[s].reg = sessions[s].reg BY <1>1 DEF HoldersKept
  <2> QED BY <2>3, <2>4, <2>5, <2>6
<1> QED BY <1>0, <1>2, <1>3 DEF CapacityInv, CapacityRespected

\* A claim adds one lease, to a queue and a worker that it found below their
\* limits; other queues and workers are not concerned.
LEMMA CapacityClaimed ==
    ASSUME CapacityInv, SafetyInv', [Next]_vars, NEW s \in DOMAIN sessions,
           NEW e \in DOMAIN outbox, NEW j \in DOMAIN jobs, Claim(s, e, j)
    PROVE  CapacityInv'
<1>0. SafetyInv /\ IsFiniteSet(DOMAIN attempts) /\ TypeInv
  BY DEF CapacityInv, SafetyInv
<1>1. HoldersKept /\ JobsKept BY <1>0, StepKeepsHolders, StepKeepsJobs
<1>2. PICK a : a = <<j, NextNumber(j)>> /\ Claimed(s, e, j, a) BY Zenon, <1>0, ClaimRows
<1>3. /\ DOMAIN attempts' = DOMAIN attempts \cup {a} /\ JobOf(a) = j
      /\ attempts'[a].session = s /\ sessions' = sessions
  BY <1>2 DEF Claimed, JobOf
<1>4. IsFiniteSet(DOMAIN attempts') BY <1>0, <1>3, FS_AddElement
<1>5. jobs'[JobOf(a)].def.queue = jobs[j].def.queue /\ WorkerOf(a)' = sessions[s].reg.worker
  BY <1>1, <1>3 DEF JobsKept, WorkerOf
<1>6. ASSUME NEW q \in Queues PROVE Cardinality(ActiveOn(q)') <= QueueLimit[q]
  <2>1. /\ ActiveOn(q)' \subseteq ActiveOn(q) \cup {a}
        /\ q # jobs[j].def.queue => ActiveOn(q)' \subseteq ActiveOn(q)
    BY <1>0, <1>3, <1>4, <1>5, ActiveGrowth
  <2>2. IsFiniteSet(ActiveOn(q)) BY <1>0, ActiveSets
  <2>3. /\ Cardinality(ActiveOn(q)') \in Nat /\ Cardinality(ActiveOn(q)) \in Nat
        /\ Cardinality(ActiveOn(q)') <= Cardinality(ActiveOn(q)) + 1
        /\ q # jobs[j].def.queue => Cardinality(ActiveOn(q)') <= Cardinality(ActiveOn(q))
    BY <2>1, <2>2, GrownByOne, ZenonT(30)
  <2>4. Cardinality(ActiveOn(q)) <= QueueLimit[q] BY DEF CapacityInv, CapacityRespected
  <2>5. q = jobs[j].def.queue => Cardinality(ActiveOn(q)) < QueueLimit[q] BY <1>0, ClaimAdmits, ZenonT(30)
  <2>6. QueueLimit[q] \in Nat BY ConstantsAssumption
  <2> QED BY <2>3, <2>4, <2>5, <2>6
<1>7. ASSUME NEW w \in Workers, ActiveBy(w)' # {}
      PROVE  \E t \in DOMAIN sessions' : /\ sessions'[t].reg.worker = w
                                         /\ Cardinality(ActiveBy(w)') <= sessions'[t].reg.limit
  <2>1. /\ ActiveBy(w)' \subseteq ActiveBy(w) \cup {a}
        /\ w # sessions[s].reg.worker => ActiveBy(w)' \subseteq ActiveBy(w)
    BY <1>0, <1>3, <1>4, <1>5, ActiveGrowth
  <2>2. IsFiniteSet(ActiveBy(w)) BY <1>0, ActiveSets
  <2>3. /\ Cardinality(ActiveBy(w)') \in Nat /\ Cardinality(ActiveBy(w)) \in Nat
        /\ Cardinality(ActiveBy(w)') <= Cardinality(ActiveBy(w)) + 1
        /\ w # sessions[s].reg.worker => Cardinality(ActiveBy(w)') <= Cardinality(ActiveBy(w))
    BY <2>1, <2>2, GrownByOne, ZenonT(30)
  <2>4. CASE w = sessions[s].reg.worker
    <3>1. Cardinality(ActiveBy(w)) < sessions[s].reg.limit BY <1>0, <2>4, ClaimAdmits, ZenonT(30)
    <3>2. sessions[s].reg.limit \in Nat BY <1>0, LimitFacts
    <3>3. Cardinality(ActiveBy(w)') <= sessions[s].reg.limit BY <2>3, <3>1, <3>2
    <3> QED BY <1>3, <2>4, <3>3
  <2>5. CASE w # sessions[s].reg.worker
    <3>1. PICK t \in DOMAIN sessions : /\ sessions[t].reg.worker = w
                                       /\ Cardinality(ActiveBy(w)) <= sessions[t].reg.limit
      BY <1>7, <2>1, <2>5 DEF CapacityInv, CapacityRespected
    <3>2. sessions[t].reg.limit \in Nat BY <1>0, LimitFacts
    <3>3. Cardinality(ActiveBy(w)') <= sessions[t].reg.limit BY <2>3, <2>5, <3>1, <3>2
    <3> QED BY <1>3, <3>1, <3>3
  <2> QED BY <2>4, <2>5
<1> QED BY <1>4, <1>6, <1>7 DEF CapacityInv, CapacityRespected

\* No interleaving of claims, renewals and restarts puts more ACTIVE leases on
\* a queue than it allows, or on a logical worker than one of its boots asked
\* for (Store.Claim counts both under the queue's and the worker's lock).
THEOREM CapacityIsRespected == Spec => []CapacityRespected
<1>1. Init => CapacityInv
  <2> SUFFICES ASSUME Init PROVE CapacityInv
    OBVIOUS
  <2>1. DOMAIN attempts = {} /\ DOMAIN leases = {} BY DEF Init, EmptyTable
  <2>2. /\ \A q : ActiveOn(q) = {}
        /\ \A w : ActiveBy(w) = {}
    BY <2>1 DEF ActiveOn, ActiveBy
  <2>3. \A q \in Queues : QueueLimit[q] \in Nat BY ConstantsAssumption
  <2>4. CapacityRespected BY <2>2, <2>3, FS_EmptySet DEF CapacityRespected
  <2> QED BY <2>1, <2>4, FS_EmptySet, SafetyInit DEF CapacityInv
<1>2. CapacityInv /\ [Next]_vars => CapacityInv'
  <2> SUFFICES ASSUME CapacityInv, [Next]_vars PROVE CapacityInv'
    OBVIOUS
  <2>1. SafetyInv /\ SafetyInv' /\ TypeInv BY SafetyStep, Intervals DEF CapacityInv, SafetyInv
  <2> QED BY <2>1, CapacityKept, CapacityClaimed, WhoCreates
<1>3. CapacityInv => CapacityRespected BY DEF CapacityInv
<1> QED BY <1>1, <1>2, <1>3, PTL DEF Spec

-----------------------------------------------------------------------------
(***************************************************************************)
(* The promise to the client.                                              *)
(***************************************************************************)

\* A step that writes one job row and creates no attempt.
LEMMA ShowsWritten ==
    ASSUME TypeInv, NEW j \in DOMAIN jobs, NEW row, Writes(j, row), row.def = jobs[j].def,
           DOMAIN attempts' = DOMAIN attempts
    PROVE  /\ Lifecycle!Moves(j, row.status)
           /\ AbstractStatus[j] = jobs[j].status
           /\ AbstractLeft[j] = jobs[j].def.maxAttempts - Used(j)
<1>1. DOMAIN jobs \subseteq JobIds /\ j \in JobIds BY DEF TypeInv, TypeOK
<1>2. \A i : Numbers(i)' = Numbers(i) BY SameUsed
<1>3. /\ DOMAIN jobs' = DOMAIN jobs /\ jobs'[j] = row
      /\ \A i \in DOMAIN jobs \ {j} : jobs'[i] = jobs[i]
  BY DEF Writes
<1>4. \A i \in JobIds \ {j} : StatusOf(i)' = StatusOf(i) /\ AttemptsLeft(i)' = AttemptsLeft(i)
  BY <1>2, <1>3 DEF StatusOf, AttemptsLeft
<1>5. /\ StatusOf(j)' = row.status /\ AttemptsLeft(j)' = AttemptsLeft(j)
      /\ StatusOf(j) = jobs[j].status /\ AttemptsLeft(j) = jobs[j].def.maxAttempts - Used(j)
  BY <1>2, <1>3, Counts DEF StatusOf, AttemptsLeft
<1> QED BY <1>1, <1>4, <1>5, ShowsOnOne, Zenon DEF Lifecycle!Moves, AbstractStatus, AbstractLeft

\* A new job is accepted with its whole budget.
LEMMA ShowsAccepted ==
    ASSUME TypeInv, NEW j \in JobIds, j \notin DOMAIN jobs, NEW row \in JobRow, Writes(j, row),
           row.status \in {"PENDING", "QUEUED"}, DOMAIN attempts' = DOMAIN attempts
    PROVE  Lifecycle!Next
<1> DEFINE budget == row.def.maxAttempts
<1>1. /\ budget \in {d.maxAttempts : d \in Definitions} /\ budget \in Nat
  BY ConstantsAssumption DEF JobRow, Definition
<1>2. \A i : Numbers(i)' = Numbers(i) BY SameUsed
<1>3. /\ DOMAIN jobs' = DOMAIN jobs \cup {j} /\ jobs'[j] = row
      /\ \A i \in DOMAIN jobs \ {j} : jobs'[i] = jobs[i]
  BY DEF Writes
<1>4. \A i \in JobIds \ {j} : StatusOf(i)' = StatusOf(i) /\ AttemptsLeft(i)' = AttemptsLeft(i)
  BY <1>2, <1>3 DEF StatusOf, AttemptsLeft
<1>5. Cardinality(Numbers(j)) = 0 BY FreshJob, FS_EmptySet
<1>6. /\ StatusOf(j)' = row.status /\ StatusOf(j) = "ABSENT"
      /\ AttemptsLeft(j)' = budget
  BY <1>1, <1>2, <1>3, <1>5 DEF StatusOf, AttemptsLeft
<1>7. Lifecycle!Accept(j, row.status, budget)
  BY <1>4, <1>6, ShowsOnOne, Zenon DEF Lifecycle!Accept, AbstractStatus, AbstractLeft
<1> QED BY <1>1, <1>7 DEF Lifecycle!Next, Lifecycle!Step

\* A claim spends an attempt.
LEMMA ShowsLeased ==
    ASSUME TypeInv, NEW s \in DOMAIN sessions, NEW e \in DOMAIN outbox,
           NEW j \in DOMAIN jobs, Claim(s, e, j)
    PROVE  Lifecycle!Next
<1>1. DOMAIN jobs \subseteq JobIds /\ j \in JobIds /\ jobs[j] \in JobRow BY DEF TypeInv, TypeOK
<1>2. PICK a : Claimed(s, e, j, a) /\ Counted(j, a) BY Intervals, ClaimFacts, Zenon
<1>3. /\ DOMAIN jobs' = DOMAIN jobs /\ jobs'[j] = [jobs[j] EXCEPT !.status = "LEASED"]
      /\ \A i \in DOMAIN jobs : i # j => jobs'[i] = jobs[i]
      /\ jobs[j].status = "QUEUED"
      /\ Used(j) < jobs[j].def.maxAttempts /\ Numbers(j)' = 1..(Used(j) + 1)
      /\ \A i : i # j => Numbers(i)' = Numbers(i)
  BY <1>2 DEF Claimed, Counted
<1>4. Used(j) \in Nat /\ jobs[j].def.maxAttempts \in Nat BY UsedFacts
<1>c. Cardinality(Numbers(j)) = Used(j) /\ Cardinality(Numbers(j)') = Used(j) + 1
  BY <1>3, <1>4, Counts, Intervals DEF Counting
<1>5. jobs'[j].status = "LEASED" /\ jobs'[j].def = jobs[j].def BY <1>1, <1>3 DEF JobRow
<1>6. \A i \in JobIds \ {j} : StatusOf(i)' = StatusOf(i) /\ AttemptsLeft(i)' = AttemptsLeft(i)
  BY <1>3 DEF StatusOf, AttemptsLeft
<1>7. /\ StatusOf(j) = "QUEUED" /\ StatusOf(j)' = "LEASED"
      /\ AttemptsLeft(j) > 0 /\ AttemptsLeft(j)' = AttemptsLeft(j) - 1
  BY <1>3, <1>4, <1>c, <1>5 DEF StatusOf, AttemptsLeft
<1>8. Lifecycle!Lease(j)
  BY <1>1, <1>6, <1>7, ShowsOnOne, ZenonT(30) DEF Lifecycle!Lease, AbstractStatus, AbstractLeft
<1> QED BY <1>1, <1>8 DEF Lifecycle!Next, Lifecycle!Step

\* A LEASED attempt has no deadline, so only its lease's lapse ends it, as
\* abandoned: at once retried or, without budget, dead-lettered.
LEMMA LeasedEndsAbandoned ==
    ASSUME SafetyInv, InstantsInv, NEW a \in DOMAIN attempts, Ends(a),
           jobs[JobOf(a)].status = "LEASED"
    PROVE  /\ FinalizeAttempt(a, "ABANDONED", "ABANDONED", "EXPIRED")
           /\ jobs'[JobOf(a)].status \in {"QUEUED", "DEAD_LETTERED"}
<1> DEFINE j == JobOf(a)
<1>1. TypeInv /\ Executing(a) /\ j \in DOMAIN jobs /\ jobs[j] \in JobRow
  BY EndsCases, FencedRows DEF SafetyInv
<1>2. a = Last(j) /\ JobInv(j) BY <1>1, HeldRows
<1>3. attempts[a].status = "LEASED" BY <1>2 DEF JobInv, HeldJob
<1>4. attempts[a].timeoutAt = NULL BY <1>3 DEF InstantsInv, Instants
<1>5. FinalizeAttempt(a, "ABANDONED", "ABANDONED", "EXPIRED")
  <2>1. ~Fail(a, "RETRYABLE") /\ ~Fail(a, "PERMANENT") /\ \A r \in BOOLEAN : ~Succeed(a, r)
    BY DEF Fail, Succeed, MayReport
  <2>2. ~AcknowledgeCancellation(a) /\ ~ReconcileDueTimeout(a)
    BY DEF AcknowledgeCancellation, ReconcileDueTimeout
  <2>3. ReconcileExpiredLease(a) BY <2>1, <2>2 DEF Ends
  <2> QED BY <1>4, <2>3 DEF ReconcileExpiredLease, TimedOutBeforeLapse
<1>6. PICK decision \in Decide("ABANDONED", NumberOf(a), jobs[j].def.maxAttempts) :
         FinalizeAttempt(a, "ABANDONED", "ABANDONED", "EXPIRED")!1!(decision)
  BY Zenon, <1>5 DEF FinalizeAttempt
<1>7. decision.delay = 0 \/ decision.delay = NULL
  BY <1>6 DEF Decide
<1>8. CASE decision.delay = 0
  <2>1. jobs' = [jobs EXCEPT ![j] = [Requeued(jobs[j]) EXCEPT !.availableAt = now]]
    BY <1>6, <1>8, ConstantsAssumption
  <2>2. jobs'[j] = [Requeued(jobs[j]) EXCEPT !.availableAt = now]
    BY <1>1, <2>1 DEF TypeInv, TypeOK
  <2>3. Requeued(jobs[j]) \in JobRow /\ Requeued(jobs[j]).status = "QUEUED"
    BY <1>1, RequeuedType, ZenonT(30) DEF Requeued, JobRow, TypeInv, TypeOK
  <2> QED BY <1>5, <2>2, <2>3 DEF JobRow
<1>9. CASE decision.delay = NULL
  <2>1. jobs' = [jobs EXCEPT ![j].status = "DEAD_LETTERED"]
    BY <1>6, <1>9, ConstantsAssumption
  <2> QED BY <1>1, <1>5, <2>1 DEF TypeInv, TypeOK, JobRow
<1> QED BY <1>7, <1>8, <1>9, ZenonT(30)

\* Every end of an attempt concludes its job or its cancellation.
LEMMA ShowsEnded ==
    ASSUME SafetyInv, InstantsInv, NEW a \in DOMAIN attempts, Ends(a)
    PROVE  Lifecycle!Next
<1> DEFINE j == JobOf(a)
<1>1. TypeInv /\ Executing(a) BY EndsCases DEF SafetyInv
<1>2. /\ j \in DOMAIN jobs /\ j \in JobIds /\ jobs[j] \in JobRow
      /\ jobs[j].def.maxAttempts \in Nat
  BY <1>1, FencedRows
<1>3. NumberOf(a) = Used(j) /\ Used(j) \in Nat /\ Used(j) <= jobs[j].def.maxAttempts
  BY <1>1, HeldRows DEF JobInv
<1>4. DOMAIN attempts' = DOMAIN attempts BY <1>1, EndsRows
<1>5. ASSUME NEW row, jobs' = [jobs EXCEPT ![j] = row], row.def = jobs[j].def
      PROVE  /\ Lifecycle!Moves(j, row.status)
             /\ AbstractStatus[j] = jobs[j].status
             /\ AbstractLeft[j] = jobs[j].def.maxAttempts - Used(j)
             /\ jobs'[j] = row
  <2>1. Writes(j, row) BY <1>1, <1>2, <1>5, Written, ZenonT(30)
  <2> QED BY <1>1, <1>2, <1>4, <1>5, <2>1, ShowsWritten DEF Writes
<1>6. ASSUME NEW withResult \in BOOLEAN, Succeed(a, withResult) PROVE Lifecycle!Next
  <2> DEFINE row == [jobs[j] EXCEPT !.status = "SUCCEEDED"]
  <2>1. row.status = "SUCCEEDED" /\ row.def = jobs[j].def BY <1>2 DEF JobRow
  <2>2. jobs' = [jobs EXCEPT ![j] = row] /\ jobs[j].status = "RUNNING"
    BY <1>6 DEF Succeed, MayReport
  <2> HIDE DEF row
  <2>3. Lifecycle!Moves(j, "SUCCEEDED") /\ AbstractStatus[j] = "RUNNING" BY <1>5, <2>1, <2>2, ZenonT(30)
  <2> QED BY <1>2, <2>3, MovesAreSteps, ZenonT(30)
<1>7. ASSUME NEW status \in {"FAILED", "TIMED_OUT", "ABANDONED"},
             NEW class \in FailureClass \ {"CANCELED"}, NEW leaseStatus,
             FinalizeAttempt(a, status, class, leaseStatus),
             jobs[j].status \in {"LEASED", "RUNNING"},
             jobs[j].status = "LEASED" => class # "PERMANENT"
      PROVE  Lifecycle!Next
  <2>1. PICK job \in JobRow, delay \in Nat \cup {NULL}, reason \in DLQReason :
           Finalized(a, status, class, leaseStatus, job, delay, reason)
    BY <1>1, <1>7, FinalizeAttemptFacts
  <2>2. jobs' = [jobs EXCEPT ![j] = job] /\ job.def = jobs[j].def BY <2>1 DEF Finalized
  <2>3. /\ Lifecycle!Moves(j, job.status)
        /\ AbstractStatus[j] = jobs[j].status
        /\ AbstractLeft[j] = jobs[j].def.maxAttempts - Used(j)
        /\ jobs'[j] = job
    BY <1>5, <2>2, ZenonT(30)
  <2>4. jobs[j].status = "LEASED" => job.status # "RETRY_WAIT"
    BY <2>3, LeasedEndsAbandoned, Zenon
  <2>5. CASE job.status \in {"RETRY_WAIT", "QUEUED"} /\ NumberOf(a) < job.def.maxAttempts
    <3>1. AbstractLeft[j] > 0 BY <1>2, <1>3, <2>2, <2>3, <2>5
    <3> QED BY <1>2, <1>7, <2>3, <2>4, <2>5, <3>1, MovesAreSteps, ZenonT(30)
  <2>6. CASE /\ job.status = "DEAD_LETTERED"
             /\ class # "PERMANENT" => NumberOf(a) >= job.def.maxAttempts
    <3>1. jobs[j].status = "LEASED" => AbstractLeft[j] = 0
      <4>1. jobs[j].status = "LEASED" => Used(j) >= jobs[j].def.maxAttempts
        BY <1>3, <1>7, <2>2, <2>6, ZenonT(30)
      <4> QED BY <1>2, <1>3, <2>3, <4>1
    <3> QED BY <1>2, <1>7, <2>3, <2>6, <3>1, MovesAreSteps, ZenonT(30)
  <2> QED BY <2>1, <2>5, <2>6 DEF Finalized
<1>8. ASSUME NEW leaseStatus, FinalizeCancellation(a, leaseStatus), jobs[j].status = "CANCEL_REQUESTED"
      PROVE  Lifecycle!Next
  <2> DEFINE row == [jobs[j] EXCEPT !.status = "CANCELED"]
  <2>1. row.status = "CANCELED" /\ row.def = jobs[j].def BY <1>2 DEF JobRow
  <2>2. jobs' = [jobs EXCEPT ![j] = row] BY <1>8 DEF FinalizeCancellation
  <2> HIDE DEF row
  <2>3. Lifecycle!Moves(j, "CANCELED") /\ AbstractStatus[j] = "CANCEL_REQUESTED" BY <1>5, <1>8, <2>1, <2>2, Zenon
  <2> QED BY <1>2, <2>3, MovesAreSteps, ZenonT(30)
<1>9. Lifecycle!Next
  <2>1. CASE jobs[j].status = "LEASED"
    <3>1. FinalizeAttempt(a, "ABANDONED", "ABANDONED", "EXPIRED") BY <2>1, LeasedEndsAbandoned, ZenonT(30)
    <3> QED BY <1>7, <2>1, <3>1 DEF FailureClass
  <2>2. CASE jobs[j].status # "LEASED"
    BY <1>6, <1>7, <1>8, <2>2, EndsCases, ZenonT(30)
  <2> QED BY <2>1, <2>2
<1> QED BY <1>9

\* A step that leaves every job's status and the attempts alone does not show.
LEMMA ShowsNothing ==
    ASSUME UNCHANGED jobs, DOMAIN attempts' = DOMAIN attempts
    PROVE  UNCHANGED Lifecycle!vars
<1>1. \A i : Numbers(i)' = Numbers(i) BY SameUsed
<1>2. \A i \in JobIds : StatusOf(i)' = StatusOf(i) /\ AttemptsLeft(i)' = AttemptsLeft(i)
  BY <1>1 DEF StatusOf, AttemptsLeft
<1> QED BY <1>2 DEF Lifecycle!vars

\* The steps that write one job and touch no attempt but to start it: a
\* cancellation, the scheduler's two scans, and Start.
LEMMA ShowsMoved ==
    ASSUME TypeInv, NEW j \in DOMAIN jobs, NEW row, Writes(j, row), row.def = jobs[j].def,
           DOMAIN attempts' = DOMAIN attempts,
           \/ jobs[j].status \in WaitingJob /\ row.status = "CANCELED"
           \/ jobs[j].status \in {"LEASED", "RUNNING"} /\ row.status = "CANCEL_REQUESTED"
           \/ jobs[j].status \in {"PENDING", "RETRY_WAIT"} /\ row.status = "QUEUED"
           \/ jobs[j].status = "LEASED" /\ row.status = "RUNNING"
    PROVE  Lifecycle!Next
<1>1. j \in JobIds BY DEF TypeInv, TypeOK
<1>2. Lifecycle!Moves(j, row.status) /\ AbstractStatus[j] = jobs[j].status BY ShowsWritten
<1> QED BY <1>1, <1>2, MovesAreSteps, ZenonT(30)

LEMMA ShowsRenotified ==
    ASSUME TypeInv, NEW j \in DOMAIN jobs, RenotifyStrandedJob(j)
    PROVE  UNCHANGED Lifecycle!vars
<1> DEFINE row == [jobs[j] EXCEPT !.notifiedAt = now]
<1>1. jobs[j] \in JobRow BY DEF TypeInv, TypeOK
<1>2. row.status = jobs[j].status /\ row.def = jobs[j].def BY <1>1 DEF JobRow
<1>3. jobs' = [jobs EXCEPT ![j] = row] /\ attempts' = attempts BY DEF RenotifyStrandedJob
<1> HIDE DEF row
<1>4. Writes(j, row) BY <1>3, Written, ZenonT(30)
<1>5. Lifecycle!Moves(j, jobs[j].status) /\ AbstractStatus[j] = jobs[j].status
  BY <1>2, <1>3, <1>4, ShowsWritten
<1>6. AbstractStatus' = AbstractStatus /\ AbstractLeft' = AbstractLeft
  BY <1>5 DEF Lifecycle!Moves, AbstractStatus, AbstractLeft
<1> QED BY <1>6 DEF Lifecycle!vars, AbstractStatus, AbstractLeft

\* Every transaction is one step of the lifecycle, or none.
LEMMA StepShows ==
    ASSUME SafetyInv, InstantsInv, [Next]_vars
    PROVE  Lifecycle!Next \/ UNCHANGED Lifecycle!vars
<1>0. TypeInv /\ DOMAIN jobs \subseteq JobIds BY DEF SafetyInv, TypeInv, TypeOK
<1>1. CASE \/ Tick \/ (\E e \in DOMAIN outbox : MarkPublished(e)) \/ UNCHANGED vars
  BY <1>1, ShowsNothing DEF Tick, MarkPublished, vars
<1>2. ASSUME NEW j \in JobIds, NEW k \in Keys, NEW d \in Definitions,
             NEW delay \in Schedules, NEW lag \in SubmitLags, Submit(j, k, d, delay, lag)
      PROVE  Lifecycle!Next
  <2>1. PICK row : Advertises(j, row) \/ Schedule(j, row) BY <1>0, <1>2, SubmitWrites, ZenonT(30)
  <2>2. /\ j \notin DOMAIN jobs /\ attempts' = attempts /\ Writes(j, row) /\ row \in JobRow
        /\ row.status \in {"PENDING", "QUEUED"}
    BY <1>2, <2>1, ZenonT(30) DEF Submit, Advertises, Schedule
  <2> QED BY <1>0, <2>2, ShowsAccepted
<1>3. ASSUME NEW original \in DOMAIN jobs, NEW k \in Keys, NEW j \in JobIds, Replay(original, k, j)
      PROVE  Lifecycle!Next
  <2>1. PICK row : Advertises(j, row) BY <1>0, <1>3, ReplayWrites, Zenon
  <2>2. /\ j \notin DOMAIN jobs /\ attempts' = attempts /\ Writes(j, row) /\ row \in JobRow
        /\ row.status \in {"PENDING", "QUEUED"}
    BY <1>3, <2>1, Zenon DEF Replay, Advertises
  <2> QED BY <1>0, <2>2, ShowsAccepted
<1>4. ASSUME NEW j \in DOMAIN jobs, NEW s \in JobStatus, jobs' = [jobs EXCEPT ![j].status = s],
             DOMAIN attempts' = DOMAIN attempts,
             \/ jobs[j].status \in WaitingJob /\ s = "CANCELED"
             \/ jobs[j].status \in {"LEASED", "RUNNING"} /\ s = "CANCEL_REQUESTED"
             \/ jobs[j].status = "LEASED" /\ s = "RUNNING"
      PROVE  Lifecycle!Next
  <2> DEFINE row == [jobs[j] EXCEPT !.status = s]
  <2>1. jobs[j] \in JobRow BY <1>0 DEF TypeInv, TypeOK
  <2>2. row.status = s /\ row.def = jobs[j].def BY <2>1 DEF JobRow
  <2>3. jobs' = [jobs EXCEPT ![j] = row] BY <1>4
  <2> HIDE DEF row
  <2>4. Writes(j, row) BY <1>0, <2>3, Written, Zenon
  <2> QED BY <1>0, <1>4, <2>2, <2>4, ShowsMoved, ZenonT(30)
<1>5. ASSUME NEW j \in DOMAIN jobs, RequestCancel(j) PROVE Lifecycle!Next
  <2>1. PICK s \in {"CANCELED", "CANCEL_REQUESTED"} :
           /\ jobs' = [jobs EXCEPT ![j].status = s] /\ attempts' = attempts
           /\ \/ jobs[j].status \in WaitingJob /\ s = "CANCELED"
              \/ jobs[j].status \in {"LEASED", "RUNNING"} /\ s = "CANCEL_REQUESTED"
    BY <1>5 DEF RequestCancel, WaitingJob
  <2>2. s \in JobStatus BY DEF JobStatus
  <2> QED BY <1>4, <2>1, <2>2, ZenonT(30)
<1>6. ASSUME NEW j \in DOMAIN jobs, PromoteDueJob(j) PROVE Lifecycle!Next
  <2>1. PICK row : Advertises(j, row) BY <1>0, <1>6, SchedulerWrites
  <2>2. /\ attempts' = attempts /\ Writes(j, row) /\ row.def = jobs[j].def /\ row.status = "QUEUED"
        /\ jobs[j].status \in {"PENDING", "RETRY_WAIT"}
    BY <1>6, <2>1 DEF PromoteDueJob, Advertises, SameJob
  <2> QED BY <1>0, <2>2, ShowsMoved
<1>7. ASSUME NEW s, (\E r : Register(s, r)) \/ Heartbeat(s) \/ MarkSessionStale(s)
      PROVE  UNCHANGED Lifecycle!vars
  BY <1>7, ShowsNothing, Zenon DEF Register, Heartbeat, MarkSessionStale
<1>8. ASSUME NEW a \in DOMAIN attempts, Start(a) PROVE Lifecycle!Next
  <2>1. JobOf(a) \in DOMAIN jobs BY <1>0, FencedRows
  <2>2. DOMAIN attempts' = DOMAIN attempts BY <1>0, <1>8, StartRows, Zenon
  <2>3. jobs' = [jobs EXCEPT ![JobOf(a)].status = "RUNNING"] /\ jobs[JobOf(a)].status = "LEASED"
    BY <1>8 DEF Start
  <2> QED BY <1>4, <2>1, <2>2, <2>3, ZenonT(30) DEF JobStatus
<1>9. ASSUME NEW a \in DOMAIN attempts, RenewLease(a) PROVE UNCHANGED Lifecycle!vars
  BY <1>9, ShowsNothing DEF RenewLease
<1> QED BY <1>0, <1>1, <1>2, <1>3, <1>5, <1>6, <1>7, <1>8, <1>9, ShowsRenotified, ShowsLeased,
           ShowsEnded, NextCases

\* The control plane keeps the promise of JobLifecycle: every transaction moves
\* at most one job, along the transition matrix, and accounts for the attempts
\* it spends.
THEOREM LifecycleIsImplemented == Spec => ImplementsLifecycle
<1>1. Init => Lifecycle!Init
  <2>1. Init => DOMAIN jobs = {} BY DEF Init, EmptyTable
  <2> QED BY <2>1 DEF Lifecycle!Init, StatusOf, AttemptsLeft
<1>2. SafetyInv /\ InstantsInv /\ [Next]_vars => [Lifecycle!Next]_(Lifecycle!vars)
  BY StepShows
<1> QED BY <1>1, <1>2, SafetyAlways, InstantsAlways, PTL
        DEF Spec, ImplementsLifecycle, Lifecycle!Spec

\* A job that waits has an attempt left, in the promise and so in the control
\* plane that keeps it (Store.Submit's max_attempts > 0, FinalizeAttempt's
\* comparison with it): none waits unclaimable.
THEOREM WaitingJobsCanBeClaimed ==
    Spec => [](Lifecycle!TypeOK /\ Lifecycle!WaitingHasBudget)
<1>1. Lifecycle!Spec => [](Lifecycle!TypeOK /\ Lifecycle!WaitingHasBudget)
  BY LifecycleInit, LifecycleStep, PTL DEF Lifecycle!Spec
<1> QED BY <1>1, LifecycleIsImplemented, PTL DEF ImplementsLifecycle

=============================================================================
