------------------------- MODULE ControlPlaneSafety -------------------------
(***************************************************************************)
(* The inductive invariant behind the safety theorems of ControlPlane:     *)
(* what it implies, that it holds initially, the ways in which a step that *)
(* touches few rows preserves it, and that every step does.                *)
(***************************************************************************)
EXTENDS ControlPlaneProofs

\* The time each leaf is given.
USE SMTT(20), ZenonT(20)

\* How many attempts a job has used is the largest number among them, as the
\* numbers have no gaps.  Counting says that this is also how many there are.
Used(j) == Max({0} \cup Numbers(j))

Counting == \A n \in Nat : Cardinality(1..n) = n

Last(j) == <<j, Used(j)>>

Ended == {"FAILED", "TIMED_OUT", "ABANDONED"}

\* A job's row, its newest attempt and its dead-letter entry agree.
JobInv(j) ==
    LET status == jobs[j].status
        max == jobs[j].def.maxAttempts
        newest == attempts[Last(j)]
    IN  /\ Used(j) <= max
        /\ status \in WaitingJob => Used(j) < max
        /\ status \in HeldJob => /\ Used(j) > 0
                                 /\ Executing(Last(j))
                                 /\ status \in {newest.status,
                                                "CANCEL_REQUESTED"}
        /\ status = "SUCCEEDED" => Used(j) > 0 /\ newest.status = "SUCCEEDED"
        /\ j \in DOMAIN dlq <=> status = "DEAD_LETTERED"
        /\ status = "DEAD_LETTERED" =>
              /\ Used(j) > 0
              /\ dlq[j].attempt = Last(j)
              /\ newest.status \in Ended
              /\ dlq[j].reason = IF newest.class = "PERMANENT"
                                 THEN "PERMANENT_FAILURE"
                                 ELSE "ATTEMPTS_EXHAUSTED"
              /\ newest.class # "PERMANENT" => Used(j) >= max

\* An attempt, its lease and its job agree.
AttemptInv(a) ==
    LET j == JobOf(a)
        status == attempts[a].status
    IN  /\ Executing(a) <=> leases[a].status = "ACTIVE"
        /\ Executing(a) => jobs[j].status \in HeldJob /\ a = Last(j)
        /\ status = "SUCCEEDED" => /\ jobs[j].status = "SUCCEEDED"
                                   /\ leases[a].status = "COMPLETED"
        /\ status = "CANCELED" => jobs[j].status = "CANCELED"
        /\ a # Last(j) => status \in Ended

Succeeded == {a \in DOMAIN attempts : attempts[a].status = "SUCCEEDED"}

SafetyInv ==
    /\ TypeInv
    /\ \A j \in DOMAIN jobs : JobInv(j)
    /\ \A a \in DOMAIN attempts : AttemptInv(a)
    /\ DOMAIN dlq \subseteq DOMAIN jobs
    /\ results \subseteq Succeeded

-----------------------------------------------------------------------------
(***************************************************************************)
(* Attempt numbers.                                                        *)
(***************************************************************************)

\* The numbers of a job are 1..Used(j); the newest attempt has the last one.
LEMMA UsedFacts ==
    ASSUME TypeInv, NEW j \in DOMAIN jobs
    PROVE  /\ Used(j) \in Nat
           /\ Numbers(j) = 1..Used(j)
           /\ NextNumber(j) = Used(j) + 1
           /\ Used(j) > 0 => /\ Last(j) \in DOMAIN attempts
                             /\ Newest(j) = Last(j)
           /\ jobs[j] \in JobRow
           /\ jobs[j].def.maxAttempts \in Nat \ {0}
<1>1. PICK k \in Nat : Numbers(j) = 1..k
  BY DEF TypeInv, Dense
<1>2. Used(j) = k /\ NextNumber(j) = k + 1 /\ (k > 0 => Newest(j) = <<j, k>>)
  BY <1>1, Largest, NumbersFacts DEF Used
<1>3. ASSUME k > 0 PROVE <<j, k>> \in DOMAIN attempts
  <2>1. k \in Numbers(j)
    BY <1>1, <1>3
  <2>2. PICK a \in DOMAIN attempts : JobOf(a) = j /\ NumberOf(a) = k
    BY <2>1 DEF Numbers
  <2> QED BY <2>2, FencedRows
<1>4. jobs[j] \in JobRow
  BY DEF TypeInv, TypeOK
<1>5. jobs[j].def.maxAttempts \in Nat \ {0}
  BY <1>4, ConstantsAssumption DEF JobRow, Definition
<1> QED BY <1>1, <1>2, <1>3, <1>4, <1>5 DEF Last

\* Every attempt of a job is one of its Used(j).
LEMMA AttemptFacts ==
    ASSUME TypeInv, NEW a \in DOMAIN attempts
    PROVE  /\ JobOf(a) \in DOMAIN jobs
           /\ a = <<JobOf(a), NumberOf(a)>>
           /\ NumberOf(a) \in 1..Used(JobOf(a))
           /\ a = Last(JobOf(a)) <=> NumberOf(a) = Used(JobOf(a))
           /\ JobOf(Last(JobOf(a))) = JobOf(a)
<1>1. JobOf(a) \in DOMAIN jobs /\ a = <<JobOf(a), NumberOf(a)>>
  BY FencedRows
<1>2. NumberOf(a) \in Numbers(JobOf(a))
  BY DEF Numbers
<1>3. NumberOf(a) \in 1..Used(JobOf(a))
  BY <1>1, <1>2, UsedFacts
<1> QED BY <1>1, <1>3 DEF Last, JobOf, NumberOf

\* A step that adds no attempt changes no job's numbers.
LEMMA SameUsed ==
    ASSUME DOMAIN attempts' = DOMAIN attempts, NEW j
    PROVE  Used(j)' = Used(j) /\ Last(j)' = Last(j) /\ Numbers(j)' = Numbers(j)
BY DEF Used, Last, Numbers

\* A job no attempt of which has been created has used none.
LEMMA FreshJob ==
    ASSUME TypeInv, NEW j, j \notin DOMAIN jobs
    PROVE  Used(j) = 0 /\ Numbers(j) = {}
<1>1. Numbers(j) = {}
  BY DEF TypeInv, Linked, Numbers
<1>2. Max({0} \cup (1..0)) = 0
  BY Largest
<1> QED BY <1>1, <1>2 DEF Used

-----------------------------------------------------------------------------
(***************************************************************************)
(* The invariants that follow.                                             *)
(***************************************************************************)

LEMMA SafetyImpliesHolder == SafetyInv => HolderIsNewest
<1> SUFFICES ASSUME SafetyInv PROVE HolderIsNewest
  OBVIOUS
<1> USE DEF SafetyInv
<1>1. ASSUME NEW a \in DOMAIN attempts, Executing(a)
      PROVE  /\ jobs[JobOf(a)].status \in HeldJob
             /\ \A b \in DOMAIN attempts :
                   JobOf(b) = JobOf(a) => NumberOf(b) <= NumberOf(a)
  <2>1. jobs[JobOf(a)].status \in HeldJob /\ a = Last(JobOf(a))
    BY <1>1 DEF AttemptInv
  <2>2. NumberOf(a) = Used(JobOf(a)) /\ Used(JobOf(a)) \in Nat
    BY <2>1, AttemptFacts, UsedFacts
  <2>3. \A b \in DOMAIN attempts : NumberOf(b) \in 1..Used(JobOf(b))
    BY AttemptFacts
  <2> QED BY <2>1, <2>2, <2>3
<1>2. ASSUME NEW j \in DOMAIN jobs, jobs[j].status \in HeldJob
      PROVE  /\ Numbers(j) # {}
             /\ Executing(Newest(j))
             /\ jobs[j].status \in {attempts[Newest(j)].status,
                                    "CANCEL_REQUESTED"}
  <2>1. Used(j) > 0 /\ Executing(Last(j))
        /\ jobs[j].status \in {attempts[Last(j)].status, "CANCEL_REQUESTED"}
    BY <1>2 DEF JobInv
  <2>2. Newest(j) = Last(j) /\ Numbers(j) = 1..Used(j) /\ Used(j) \in Nat
    BY <2>1, UsedFacts
  <2> QED BY <2>1, <2>2
<1>3. \A a \in DOMAIN attempts : Executing(a) <=> leases[a].status = "ACTIVE"
  BY DEF AttemptInv
<1> QED BY <1>1, <1>2, <1>3 DEF HolderIsNewest

LEMMA SafetyImpliesBudget == Counting /\ SafetyInv => AttemptBudget
<1> SUFFICES ASSUME Counting, SafetyInv, NEW j \in DOMAIN jobs
             PROVE  /\ Numbers(j) = 1..Cardinality(Numbers(j))
                    /\ Cardinality(Numbers(j)) <= jobs[j].def.maxAttempts
                    /\ jobs[j].status \in WaitingJob
                          => Cardinality(Numbers(j)) < jobs[j].def.maxAttempts
  BY DEF AttemptBudget
<1>1. Used(j) \in Nat /\ Numbers(j) = 1..Used(j)
  BY UsedFacts DEF SafetyInv
<1>2. Cardinality(Numbers(j)) = Used(j)
  BY <1>1 DEF Counting
<1> QED BY <1>1, <1>2 DEF SafetyInv, JobInv

LEMMA SafetyImpliesHistory == SafetyInv => OutcomeMatchesHistory
<1> SUFFICES ASSUME SafetyInv PROVE OutcomeMatchesHistory
  OBVIOUS
<1> USE DEF SafetyInv
<1>1. ASSUME NEW a \in DOMAIN attempts, NumberOf(a) + 1 \in Numbers(JobOf(a))
      PROVE  attempts[a].status \in Ended
  <2>1. NumberOf(a) + 1 \in 1..Used(JobOf(a)) /\ Used(JobOf(a)) \in Nat
    BY <1>1, AttemptFacts, UsedFacts
  <2>2. a # Last(JobOf(a))
    BY <2>1, AttemptFacts
  <2> QED BY <2>2 DEF AttemptInv
<1>2. ASSUME NEW j \in DOMAIN jobs, jobs[j].status = "SUCCEEDED"
      PROVE  Numbers(j) # {} /\ attempts[Newest(j)].status = "SUCCEEDED"
  <2>1. Used(j) > 0 /\ attempts[Last(j)].status = "SUCCEEDED"
    BY <1>2 DEF JobInv
  <2>2. Newest(j) = Last(j) /\ Numbers(j) = 1..Used(j) /\ Used(j) \in Nat
    BY <2>1, UsedFacts
  <2> QED BY <2>1, <2>2
<1>3. \A a \in DOMAIN attempts :
         /\ attempts[a].status = "SUCCEEDED"
               => /\ jobs[JobOf(a)].status = "SUCCEEDED"
                  /\ leases[a].status = "COMPLETED"
         /\ attempts[a].status = "CANCELED"
               => jobs[JobOf(a)].status = "CANCELED"
  BY DEF AttemptInv
<1> QED BY <1>1, <1>2, <1>3 DEF OutcomeMatchesHistory, Ended, Succeeded

LEMMA SafetyImpliesDeadLetter == SafetyInv => DeadLetterRecord
<1> SUFFICES ASSUME SafetyInv PROVE DeadLetterRecord
  OBVIOUS
<1> USE DEF SafetyInv
<1>1. \A j \in DOMAIN jobs : j \in DOMAIN dlq <=>
                             jobs[j].status = "DEAD_LETTERED"
  BY DEF JobInv
<1>2. ASSUME NEW j \in DOMAIN dlq
      PROVE  /\ j \in DOMAIN jobs
             /\ dlq[j].attempt \in DOMAIN attempts
             /\ dlq[j].attempt = Newest(j)
             /\ attempts[dlq[j].attempt].status \in Ended
             /\ dlq[j].reason = IF attempts[dlq[j].attempt].class = "PERMANENT"
                                THEN "PERMANENT_FAILURE"
                                ELSE "ATTEMPTS_EXHAUSTED"
             /\ attempts[dlq[j].attempt].class # "PERMANENT"
                   => NumberOf(dlq[j].attempt) = jobs[j].def.maxAttempts
  <2>1. j \in DOMAIN jobs /\ jobs[j].status = "DEAD_LETTERED" /\ JobInv(j)
    BY <1>1
  <2>2. /\ Used(j) \in Nat /\ jobs[j].def.maxAttempts \in Nat
        /\ Used(j) > 0 => Last(j) \in DOMAIN attempts /\ Newest(j) = Last(j)
    BY <2>1, UsedFacts
  <2>3. NumberOf(Last(j)) = Used(j)
    BY DEF Last, NumberOf
  <2> QED BY <2>1, <2>2, <2>3 DEF JobInv
<1> QED BY <1>1, <1>2 DEF DeadLetterRecord, Ended

-----------------------------------------------------------------------------
(***************************************************************************)
(* Every step preserves the invariant.                                     *)
(***************************************************************************)

LEMMA SafetyInit == Init => SafetyInv
BY TypeInvInit DEF Init, SafetyInv, EmptyTable

\* Clock, publisher and session steps leave every row in question alone.
LEMMA SafetyQuiet ==
    ASSUME SafetyInv, TypeInv', UNCHANGED <<jobs, attempts, leases, dlq, results>>
    PROVE  SafetyInv'
<1>1. \A j : Used(j)' = Used(j) /\ Last(j)' = Last(j)
  BY SameUsed
<1>2. ASSUME NEW j \in DOMAIN jobs' PROVE JobInv(j)'
  <2>1. JobInv(j)
    BY DEF SafetyInv
  <2> QED BY <1>1, <2>1 DEF JobInv, Executing
<1>3. ASSUME NEW a \in DOMAIN attempts' PROVE AttemptInv(a)'
  <2>1. AttemptInv(a)
    BY DEF SafetyInv
  <2> QED BY <1>1, <2>1 DEF AttemptInv, Executing
<1> QED BY <1>2, <1>3 DEF SafetyInv, Succeeded

\* A new job has used no attempt and is in no dead-letter entry.
LEMMA SafetyNewJob ==
    ASSUME SafetyInv, TypeInv', NEW j, j \notin DOMAIN jobs,
           NEW row \in JobRow, jobs' = WithRow(jobs, j, row),
           row.status \in WaitingJob,
           UNCHANGED <<attempts, leases, dlq, results>>
    PROVE  SafetyInv'
<1>1. \A i : Used(i)' = Used(i) /\ Last(i)' = Last(i)
  BY SameUsed
<1>2. /\ DOMAIN jobs' = DOMAIN jobs \cup {j}
      /\ jobs'[j] = row
      /\ \A i \in DOMAIN jobs : jobs'[i] = jobs[i]
  BY DEF WithRow
<1>3. ASSUME NEW i \in DOMAIN jobs PROVE JobInv(i)'
  <2>1. JobInv(i)
    BY DEF SafetyInv
  <2> QED BY <1>1, <1>2, <2>1 DEF JobInv, Executing
<1>4. JobInv(j)'
  <2>1. Used(j) = 0
    BY FreshJob DEF SafetyInv
  <2>2. row.def.maxAttempts \in Nat \ {0}
    BY ConstantsAssumption DEF JobRow, Definition
  <2>3. j \notin DOMAIN dlq
    BY DEF SafetyInv
  <2> QED BY <1>1, <1>2, <2>1, <2>2, <2>3 DEF JobInv, WaitingJob, HeldJob
<1>5. ASSUME NEW a \in DOMAIN attempts PROVE AttemptInv(a)'
  <2>1. AttemptInv(a) /\ JobOf(a) \in DOMAIN jobs
    BY AttemptFacts DEF SafetyInv
  <2> QED BY <1>1, <1>2, <2>1 DEF AttemptInv, Executing
<1> QED BY <1>2, <1>3, <1>4, <1>5 DEF SafetyInv, Succeeded

\* The scheduler and the client move a waiting job among the waiting states
\* or cancel it, and turn a held job into one whose cancellation is wanted.
LEMMA SafetyJobRow ==
    ASSUME SafetyInv, TypeInv', NEW j \in DOMAIN jobs, NEW row,
           jobs' = [jobs EXCEPT ![j] = row],
           row.def = jobs[j].def,
           \/ /\ jobs[j].status \in WaitingJob
              /\ row.status \in WaitingJob \cup {"CANCELED"}
           \/ /\ jobs[j].status \in {"LEASED", "RUNNING"}
              /\ row.status = "CANCEL_REQUESTED",
           UNCHANGED <<attempts, leases, dlq, results>>
    PROVE  SafetyInv'
<1>1. \A i : Used(i)' = Used(i) /\ Last(i)' = Last(i)
  BY SameUsed
<1>2. /\ DOMAIN jobs' = DOMAIN jobs
      /\ jobs'[j] = row
      /\ \A i \in DOMAIN jobs : i # j => jobs'[i] = jobs[i]
  BY DEF SafetyInv, TypeInv, TypeOK
<1>3. ASSUME NEW i \in DOMAIN jobs PROVE JobInv(i)'
  <2>1. JobInv(i)
    BY DEF SafetyInv
  <2>2. CASE i = j
    BY <1>1, <1>2, <2>1, <2>2 DEF JobInv, Executing, WaitingJob, HeldJob
  <2>3. CASE i # j
    BY <1>1, <1>2, <2>1, <2>3 DEF JobInv, Executing
  <2> QED BY <2>2, <2>3
<1>4. ASSUME NEW a \in DOMAIN attempts PROVE AttemptInv(a)'
  <2>1. AttemptInv(a) /\ JobOf(a) \in DOMAIN jobs
    BY AttemptFacts DEF SafetyInv
  <2>2. CASE JobOf(a) = j
    BY <1>1, <1>2, <2>1, <2>2 DEF AttemptInv, Executing, WaitingJob, HeldJob
  <2>3. CASE JobOf(a) # j
    BY <1>1, <1>2, <2>1, <2>3 DEF AttemptInv, Executing
  <2> QED BY <2>2, <2>3
<1> QED BY <1>2, <1>3, <1>4 DEF SafetyInv, Succeeded

(***************************************************************************)
(* A transition of one executing attempt disturbs no other job and no      *)
(* other attempt: the earlier attempts of the same job have ended.         *)
(***************************************************************************)
LEMMA SafetyOneAttempt ==
    ASSUME SafetyInv, TypeInv', NEW a \in DOMAIN attempts, Executing(a),
           NEW attempt, NEW lease, NEW job,
           attempts' = [attempts EXCEPT ![a] = attempt],
           leases' = [leases EXCEPT ![a] = lease],
           jobs' = [jobs EXCEPT ![JobOf(a)] = job],
           \A i \in JobIds : i # JobOf(a) =>
              /\ i \in DOMAIN dlq' <=> i \in DOMAIN dlq
              /\ i \in DOMAIN dlq => dlq'[i] = dlq[i],
           JobInv(JobOf(a))', AttemptInv(a)',
           results' \subseteq Succeeded'
    PROVE  SafetyInv'
<1> DEFINE j == JobOf(a)
<1>0. /\ j \in DOMAIN jobs /\ a = Last(j)
      /\ DOMAIN attempts \subseteq AttemptIds
  BY AttemptFacts DEF SafetyInv, AttemptInv, TypeInv, TypeOK
<1>1. /\ DOMAIN jobs' = DOMAIN jobs
      /\ \A i \in DOMAIN jobs : i \in JobIds /\ (i # j => jobs'[i] = jobs[i])
      /\ DOMAIN attempts' = DOMAIN attempts
      /\ \A b \in DOMAIN attempts : b # a => /\ attempts'[b] = attempts[b]
                                             /\ leases'[b] = leases[b]
  BY DEF SafetyInv, TypeInv, TypeOK
<1>2. \A i : Used(i)' = Used(i) /\ Last(i)' = Last(i)
  BY SMTT(30), <1>1, SameUsed
<1>3. ASSUME NEW i \in DOMAIN jobs, i # j PROVE JobInv(i)'
  <2>1. JobInv(i)
    BY DEF SafetyInv
  <2>2. Last(i) # a
    BY <1>0, <1>3 DEF Last
  <2>3. Used(i) > 0 => Last(i) \in DOMAIN attempts
    BY UsedFacts DEF SafetyInv
  <2>4. Used(i) > 0 => attempts'[Last(i)] = attempts[Last(i)]
    BY <1>1, <2>2, <2>3
  <2>5. /\ jobs'[i] = jobs[i]
        /\ i \in DOMAIN dlq' <=> i \in DOMAIN dlq
        /\ i \in DOMAIN dlq => dlq'[i] = dlq[i]
    BY SMTT(30), <1>1, <1>3
  <2>6. jobs[i].status = "DEAD_LETTERED" => dlq'[i] = dlq[i] /\ Used(i) > 0
    BY <2>1, <2>5 DEF JobInv
  <2> QED BY <1>2, <2>1, <2>4, <2>5, <2>6 DEF JobInv, Executing
<1>4. ASSUME NEW b \in DOMAIN attempts, b # a PROVE AttemptInv(b)'
  <2>1. AttemptInv(b) /\ JobOf(b) \in DOMAIN jobs
    BY AttemptFacts DEF SafetyInv
  <2>2. attempts'[b] = attempts[b] /\ leases'[b] = leases[b]
    BY <1>1, <1>4
  <2>3. CASE JobOf(b) = j
    <3>1. b # Last(JobOf(b))
      BY <1>0, <1>4, <2>3
    <3>2. attempts[b].status \in Ended
      BY <2>1, <3>1 DEF AttemptInv
    <3> QED BY <1>2, <2>1, <2>2, <3>2 DEF AttemptInv, Executing, Ended
  <2>4. CASE JobOf(b) # j
    <3>1. jobs'[JobOf(b)] = jobs[JobOf(b)]
      BY <1>1, <2>1, <2>4
    <3> QED BY <1>2, <2>1, <2>2, <3>1 DEF AttemptInv, Executing
  <2> QED BY <2>3, <2>4
<1>5. DOMAIN dlq' \subseteq DOMAIN jobs'
  <2>1. DOMAIN dlq' \subseteq JobIds
    BY DEF TypeInv, TypeOK
  <2> QED BY <1>0, <1>1, <2>1 DEF SafetyInv
<1> QED BY SMTT(30), <1>1, <1>3, <1>4, <1>5 DEF SafetyInv

\* A claim spends one attempt of its job, and no other job's.
Counted(j, a) ==
    /\ Used(j) < jobs[j].def.maxAttempts
    /\ Used(j)' = Used(j) + 1
    /\ Last(j)' = a
    /\ Numbers(j)' = 1..(Used(j) + 1)
    /\ \A i : i # j => /\ Numbers(i)' = Numbers(i)
                       /\ Used(i)' = Used(i) /\ Last(i)' = Last(i)

LEMMA ClaimFacts ==
    ASSUME Counting, TypeInv, NEW s \in DOMAIN sessions, NEW e \in DOMAIN outbox,
           NEW j \in DOMAIN jobs, Claim(s, e, j)
    PROVE  \E a : /\ a = <<j, Used(j) + 1>>
                  /\ Claimed(s, e, j, a)
                  /\ Counted(j, a)
<1>1. PICK k \in Nat : k = Used(j) /\ Numbers(j) = 1..k /\ NextNumber(j) = k + 1
  BY UsedFacts
<1>2. PICK a : a = <<j, k + 1>> /\ Claimed(s, e, j, a)
  BY Zenon, <1>1, ClaimRows
<1>3. DOMAIN attempts' = DOMAIN attempts \cup {a}
  BY <1>2 DEF Claimed
<1>4. Numbers(j)' = 1..(k + 1)
  <2>1. Numbers(j)' = Numbers(j) \cup {k + 1}
    BY <1>2, <1>3 DEF Numbers, JobOf, NumberOf
  <2> QED BY <1>1, <2>1
<1>5. Used(j)' = k + 1
  BY <1>4, Largest DEF Used
<1>6. ASSUME NEW i, i # j PROVE Numbers(i)' = Numbers(i) /\ Used(i)' = Used(i)
  <2>1. Numbers(i)' = Numbers(i)
    BY <1>2, <1>3, <1>6 DEF Numbers, JobOf, NumberOf
  <2> QED BY <2>1 DEF Used
<1>7. Used(j) < jobs[j].def.maxAttempts
  <2>1. Cardinality(Numbers(j)) < jobs[j].def.maxAttempts
    BY DEF Claim, Claimable
  <2> QED BY <1>1, <2>1 DEF Counting
<1>8. Counted(j, a)
  BY <1>1, <1>2, <1>4, <1>5, <1>6, <1>7 DEF Counted, Last
<1> QED BY <1>1, <1>2, <1>8

LEMMA SafetyClaim ==
    ASSUME Counting, SafetyInv, TypeInv', NEW s \in DOMAIN sessions,
           NEW e \in DOMAIN outbox, NEW j \in DOMAIN jobs, Claim(s, e, j)
    PROVE  SafetyInv'
<1>0. TypeInv
  BY DEF SafetyInv
<1>a. PICK a : a = <<j, Used(j) + 1>> /\ Claimed(s, e, j, a) /\ Counted(j, a)
  BY Zenon, <1>0, ClaimFacts
<1>1. /\ a \notin DOMAIN attempts
      /\ DOMAIN attempts' = DOMAIN attempts \cup {a}
      /\ attempts'[a].status = "LEASED" /\ leases'[a].status = "ACTIVE"
      /\ \A b \in DOMAIN attempts : /\ attempts'[b] = attempts[b]
                                    /\ leases'[b] = leases[b]
  BY <1>a DEF Claimed
<1>2. /\ DOMAIN jobs' = DOMAIN jobs
      /\ jobs'[j].status = "LEASED" /\ jobs'[j].def = jobs[j].def
      /\ \A i \in DOMAIN jobs : i # j => jobs'[i] = jobs[i]
      /\ jobs[j].status = "QUEUED"
      /\ Used(j) < jobs[j].def.maxAttempts
      /\ UNCHANGED <<dlq, results>>
  <2>1. jobs[j] \in JobRow
    BY <1>0 DEF TypeInv, TypeOK
  <2> QED BY <1>a, <2>1 DEF Claimed, Counted, JobRow
<1>3. /\ Used(j)' = Used(j) + 1 /\ Last(j)' = a
      /\ \A i : i # j => Used(i)' = Used(i) /\ Last(i)' = Last(i)
      /\ Used(j) \in Nat /\ jobs[j].def.maxAttempts \in Nat
  BY <1>0, <1>a, UsedFacts DEF Counted
<1>4. JobInv(j)'
  <2>1. j \notin DOMAIN dlq
    BY <1>2 DEF SafetyInv, JobInv
  <2> QED BY <1>1, <1>2, <1>3, <2>1
             DEF JobInv, Executing, WaitingJob, HeldJob
<1>5. ASSUME NEW i \in DOMAIN jobs, i # j PROVE JobInv(i)'
  <2>1. JobInv(i)
    BY DEF SafetyInv
  <2>2. Used(i) > 0 => attempts'[Last(i)] = attempts[Last(i)]
    BY <1>0, <1>1, UsedFacts
  <2> QED BY <1>2, <1>3, <1>5, <2>1, <2>2 DEF JobInv, Executing
<1>6. AttemptInv(a)'
  <2>1. JobOf(a) = j
    BY <1>a DEF JobOf
  <2> QED BY <1>1, <1>2, <1>3, <2>1 DEF AttemptInv, Executing, HeldJob
<1>7. ASSUME NEW b \in DOMAIN attempts PROVE AttemptInv(b)'
  <2>1. AttemptInv(b) /\ JobOf(b) \in DOMAIN jobs
    BY <1>0, AttemptFacts DEF SafetyInv
  <2>2. CASE JobOf(b) = j
    <3>1. attempts[b].status \in AttemptStatus
      BY <1>0 DEF TypeInv, TypeOK, AttemptRow
    <3>2. attempts[b].status \in Ended
      BY ZenonT(30), <1>2, <2>1, <2>2, <3>1
         DEF AttemptInv, Executing, AttemptStatus, Ended, HeldJob
    <3> QED BY <1>1, <2>1, <3>2 DEF AttemptInv, Executing, Ended
  <2>3. CASE JobOf(b) # j
    BY <1>1, <1>2, <1>3, <2>1, <2>3 DEF AttemptInv, Executing
  <2> QED BY <2>2, <2>3
<1>8. results' \subseteq Succeeded'
  BY <1>1, <1>2, Zenon DEF SafetyInv, Succeeded
<1> QED BY <1>1, <1>2, <1>4, <1>5, <1>6, <1>7, <1>8 DEF SafetyInv

\* The three rows of an executing attempt, in a state of the invariant.
LEMMA HeldRows ==
    ASSUME SafetyInv, NEW a \in DOMAIN attempts, Executing(a)
    PROVE  /\ a = Last(JobOf(a)) /\ Used(JobOf(a)) \in Nat \ {0}
           /\ NumberOf(a) = Used(JobOf(a))
           /\ JobInv(JobOf(a)) /\ AttemptInv(a)
           /\ JobOf(a) \in DOMAIN jobs /\ JobOf(a) \in JobIds
           /\ jobs[JobOf(a)].status \in HeldJob
           /\ JobOf(a) \notin DOMAIN dlq
           /\ DOMAIN leases = DOMAIN attempts
<1>1. TypeInv /\ AttemptInv(a)
  BY DEF SafetyInv
<1>2. JobOf(a) \in DOMAIN jobs /\ JobOf(a) \in JobIds
  BY SMTT(30), <1>1, FencedRows
<1>3. JobInv(JobOf(a))
  BY <1>2 DEF SafetyInv
<1>4. /\ Used(JobOf(a)) \in Nat
      /\ NumberOf(a) \in 1..Used(JobOf(a))
      /\ a = Last(JobOf(a)) <=> NumberOf(a) = Used(JobOf(a))
  BY <1>1, <1>2, AttemptFacts, UsedFacts
<1>5. DOMAIN leases = DOMAIN attempts
  BY <1>1 DEF TypeInv, TypeOK
<1>6. NumberOf(a) = Used(JobOf(a)) /\ Used(JobOf(a)) # 0 BY <1>1, <1>4 DEF AttemptInv
<1>7. jobs[JobOf(a)].status \in HeldJob /\ JobOf(a) \notin DOMAIN dlq
  BY <1>1, <1>3, <1>4, <1>6 DEF AttemptInv, JobInv, HeldJob
<1> QED BY <1>1, <1>2, <1>3, <1>4, <1>5, <1>6, <1>7

LEMMA SafetyRenewLease ==
    ASSUME SafetyInv, TypeInv', NEW a \in DOMAIN attempts, RenewLease(a)
    PROVE  SafetyInv'
<1>1. \A i : Used(i)' = Used(i) /\ Last(i)' = Last(i)
  BY SameUsed DEF RenewLease
<1>2. UNCHANGED <<jobs, attempts, dlq, results>>
  BY DEF RenewLease
<1>3. /\ DOMAIN leases' = DOMAIN leases
      /\ \A b \in DOMAIN attempts : leases'[b].status = leases[b].status
  BY DEF RenewLease, SafetyInv, TypeInv, TypeOK, LeaseRow
<1>4. ASSUME NEW j \in DOMAIN jobs' PROVE JobInv(j)'
  <2>1. JobInv(j)
    BY <1>2 DEF SafetyInv
  <2> QED BY <1>1, <1>2, <2>1 DEF JobInv, Executing
<1>5. ASSUME NEW b \in DOMAIN attempts' PROVE AttemptInv(b)'
  <2>1. AttemptInv(b)
    BY <1>2 DEF SafetyInv
  <2> QED BY <1>1, <1>2, <1>3, <2>1 DEF AttemptInv, Executing
<1> QED BY <1>2, <1>4, <1>5 DEF SafetyInv, Succeeded

LEMMA SafetyStart ==
    ASSUME SafetyInv, TypeInv', NEW a \in DOMAIN attempts, Start(a)
    PROVE  SafetyInv'
<1> DEFINE j == JobOf(a)
<1>0. TypeInv /\ Executing(a)
  BY DEF SafetyInv, Start, Executing
<1>1. PICK attempt, job :
         /\ attempts' = [attempts EXCEPT ![a] = attempt]
         /\ jobs' = [jobs EXCEPT ![j] = job]
         /\ attempt.status = "RUNNING"
         /\ job.status = "RUNNING" /\ job.def = jobs[j].def
  <2>1. attempts[a] \in AttemptRow /\ jobs[j] \in JobRow
    BY <1>0, FencedRows
  <2>2. /\ [attempts[a] EXCEPT
              !.status = "RUNNING",
              !.timeoutAt = now + jobs[j].def.timeout].status = "RUNNING"
        /\ [jobs[j] EXCEPT !.status = "RUNNING"].status = "RUNNING"
        /\ [jobs[j] EXCEPT !.status = "RUNNING"].def = jobs[j].def
    BY <2>1 DEF AttemptRow, JobRow
  <2> QED BY Zenon, <2>2 DEF Start
<1>2. /\ leases' = [leases EXCEPT ![a] = leases[a]]
      /\ UNCHANGED <<leases, dlq, results>>
  BY <1>0 DEF Start, TypeInv, TypeOK
<1>3. /\ a = Last(j) /\ j \in DOMAIN jobs /\ JobInv(j) /\ AttemptInv(a)
      /\ Used(j) \in Nat \ {0}
      /\ jobs[j].status \in HeldJob /\ j \notin DOMAIN dlq
  BY <1>0, HeldRows
<1>4. /\ attempts'[a] = attempt /\ jobs'[j] = job
      /\ DOMAIN attempts' = DOMAIN attempts
  BY <1>0, <1>1, <1>3 DEF TypeInv, TypeOK
<1>5. \A i : Used(i)' = Used(i) /\ Last(i)' = Last(i)
  BY <1>4, SameUsed
<1>6. JobInv(j)'
  BY <1>1, <1>2, <1>3, <1>4, <1>5 DEF JobInv, Executing, HeldJob, WaitingJob
<1>7. AttemptInv(a)'
  BY <1>0, <1>1, <1>2, <1>3, <1>4, <1>5 DEF AttemptInv, Executing, HeldJob
<1>8. results' \subseteq Succeeded'
  <2>1. a \notin Succeeded
    BY <1>0 DEF Succeeded, Executing
  <2> QED BY <1>0, <1>1, <1>2, <1>4, <2>1 DEF SafetyInv, Succeeded, TypeInv,
                                               TypeOK
<1> QED BY Zenon, <1>0, <1>1, <1>2, <1>6, <1>7, <1>8, SafetyOneAttempt

LEMMA SafetyEnds ==
    ASSUME SafetyInv, TypeInv', NEW a \in DOMAIN attempts, Ends(a)
    PROVE  SafetyInv'
<1> DEFINE j == JobOf(a)
<1>0. TypeInv /\ Executing(a)
  BY EndsCases DEF SafetyInv
<1>1. /\ a = Last(j) /\ j \in DOMAIN jobs /\ JobInv(j) /\ AttemptInv(a)
      /\ NumberOf(a) = Used(j) /\ Used(j) \in Nat \ {0}
      /\ jobs[j].status \in HeldJob /\ j \notin DOMAIN dlq
  BY <1>0, HeldRows
<1>2. /\ attempts[a] \in AttemptRow /\ leases[a] \in LeaseRow
      /\ jobs[j] \in JobRow /\ jobs[j].def.maxAttempts \in Nat
  BY <1>0, FencedRows
<1>3. ASSUME NEW attempt, NEW lease, NEW job,
             attempts' = [attempts EXCEPT ![a] = attempt],
             leases' = [leases EXCEPT ![a] = lease],
             jobs' = [jobs EXCEPT ![j] = job]
      PROVE  /\ attempts'[a] = attempt /\ leases'[a] = lease /\ jobs'[j] = job
             /\ DOMAIN attempts' = DOMAIN attempts
             /\ \A b \in DOMAIN attempts : b # a => attempts'[b] = attempts[b]
             /\ \A i : Used(i)' = Used(i) /\ Last(i)' = Last(i)
  <2>1. /\ attempts'[a] = attempt /\ leases'[a] = lease /\ jobs'[j] = job
        /\ DOMAIN attempts' = DOMAIN attempts
        /\ \A b \in DOMAIN attempts : b # a => attempts'[b] = attempts[b]
    BY <1>0, <1>1, <1>3 DEF TypeInv, TypeOK
  <2> QED BY <2>1, SameUsed
<1>4. a \notin Succeeded
  BY <1>0 DEF Succeeded, Executing
<1>5. ASSUME NEW withResult \in BOOLEAN, Succeed(a, withResult)
      PROVE  SafetyInv'
  <2>1. PICK attempt, lease, job :
           /\ attempts' = [attempts EXCEPT ![a] = attempt]
           /\ leases' = [leases EXCEPT ![a] = lease]
           /\ jobs' = [jobs EXCEPT ![j] = job]
           /\ attempt.status = "SUCCEEDED" /\ lease.status = "COMPLETED"
           /\ job.status = "SUCCEEDED" /\ job.def = jobs[j].def
    <3>1. /\ [attempts[a] EXCEPT !.status = "SUCCEEDED"].status = "SUCCEEDED"
          /\ [leases[a] EXCEPT !.status = "COMPLETED"].status = "COMPLETED"
          /\ [jobs[j] EXCEPT !.status = "SUCCEEDED"].status = "SUCCEEDED"
          /\ [jobs[j] EXCEPT !.status = "SUCCEEDED"].def = jobs[j].def
      BY <1>2 DEF AttemptRow, LeaseRow, JobRow
    <3> QED BY Zenon, <1>5, <3>1 DEF Succeed
  <2>2. UNCHANGED dlq /\ results' \subseteq results \cup {a}
    BY <1>5 DEF Succeed
  <2>3. /\ attempts'[a] = attempt /\ leases'[a] = lease /\ jobs'[j] = job
        /\ DOMAIN attempts' = DOMAIN attempts
        /\ \A b \in DOMAIN attempts : b # a => attempts'[b] = attempts[b]
        /\ \A i : Used(i)' = Used(i) /\ Last(i)' = Last(i)
    BY ZenonT(30), <1>3, <2>1
  <2>4. JobInv(j)'
    BY <1>1, <2>1, <2>2, <2>3 DEF JobInv, Executing, HeldJob, WaitingJob
  <2>5. AttemptInv(a)'
    BY <1>1, <2>1, <2>3 DEF AttemptInv, Executing, HeldJob
  <2>6. results' \subseteq Succeeded'
    BY <2>1, <2>2, <2>3 DEF SafetyInv, Succeeded
  <2> QED BY Zenon, <1>0, <2>1, <2>2, <2>4, <2>5, <2>6, SafetyOneAttempt
<1>6. ASSUME NEW status \in Ended, NEW class \in FailureClass \ {"CANCELED"},
             NEW leaseStatus \in {"RELEASED", "EXPIRED"},
             FinalizeAttempt(a, status, class, leaseStatus)
      PROVE  SafetyInv'
  <2>1. PICK job \in JobRow, delay \in Nat \cup {NULL}, reason \in DLQReason :
           Finalized(a, status, class, leaseStatus, job, delay, reason)
    BY <1>0, <1>6, FinalizeAttemptFacts
  <2>2. PICK attempt, lease :
           /\ attempts' = [attempts EXCEPT ![a] = attempt]
           /\ leases' = [leases EXCEPT ![a] = lease]
           /\ attempt.status = status /\ attempt.class = class
           /\ lease.status = leaseStatus
    <3>1. /\ Recorded(attempts[a], status, class, delay).status = status
          /\ Recorded(attempts[a], status, class, delay).class = class
          /\ [leases[a] EXCEPT !.status = leaseStatus].status = leaseStatus
      BY <1>2 DEF Recorded, AttemptRow, LeaseRow
    <3> QED BY Zenon, <2>1, <3>1 DEF Finalized
  <2>3. /\ jobs' = [jobs EXCEPT ![j] = job] /\ job.def = jobs[j].def
        /\ UNCHANGED results
    BY <2>1 DEF Finalized
  <2>4. /\ attempts'[a] = attempt /\ leases'[a] = lease /\ jobs'[j] = job
        /\ DOMAIN attempts' = DOMAIN attempts
        /\ \A b \in DOMAIN attempts : b # a => attempts'[b] = attempts[b]
        /\ \A i : Used(i)' = Used(i) /\ Last(i)' = Last(i)
    BY Zenon, <1>3, <2>2, <2>3
  <2>5. /\ JobInv(j)'
        /\ job.status \notin HeldJob \cup {"SUCCEEDED", "CANCELED"}
        /\ \A i : i # j => /\ i \in DOMAIN dlq' <=> i \in DOMAIN dlq
                           /\ i \in DOMAIN dlq => dlq'[i] = dlq[i]
    <3>1. CASE /\ job.status \in {"RETRY_WAIT", "QUEUED"}
               /\ NumberOf(a) < job.def.maxAttempts
               /\ UNCHANGED dlq
      <4>1. /\ jobs'[j].status \in WaitingJob /\ j \notin DOMAIN dlq'
            /\ Used(j)' = Used(j) /\ Used(j) < jobs'[j].def.maxAttempts
        BY <1>1, <2>4, <3>1, Zenon DEF WaitingJob
      <4>2. jobs'[j].def.maxAttempts \in Nat /\ Used(j) \in Nat BY <1>1, <1>2, <2>3, <2>4, ZenonT(30)
      <4>3. JobInv(j)' BY <4>1, <4>2 DEF JobInv, HeldJob, WaitingJob
      <4> QED BY <2>4, <3>1, <4>3, Zenon DEF HeldJob
    <3>2. CASE /\ job.status = "DEAD_LETTERED"
               /\ dlq' = WithRow(dlq, j, [attempt |-> a, reason |-> reason])
               /\ reason = IF class = "PERMANENT" THEN "PERMANENT_FAILURE"
                                                  ELSE "ATTEMPTS_EXHAUSTED"
               /\ class # "PERMANENT" => NumberOf(a) >= job.def.maxAttempts
      <4>1. /\ DOMAIN dlq' = DOMAIN dlq \cup {j}
            /\ dlq'[j].attempt = a /\ dlq'[j].reason = reason
            /\ \A i \in DOMAIN dlq : i # j => dlq'[i] = dlq[i]
        BY <3>2 DEF WithRow
      <4> QED BY <1>1, <1>2, <1>6, <2>2, <2>3, <2>4, <3>2, <4>1
                 DEF JobInv, Executing, HeldJob, WaitingJob, Ended
    <3>3. \/ /\ job.status \in {"RETRY_WAIT", "QUEUED"}
             /\ NumberOf(a) < job.def.maxAttempts
             /\ UNCHANGED dlq
          \/ /\ job.status = "DEAD_LETTERED"
             /\ dlq' = WithRow(dlq, j, [attempt |-> a, reason |-> reason])
             /\ reason = IF class = "PERMANENT" THEN "PERMANENT_FAILURE"
                                                ELSE "ATTEMPTS_EXHAUSTED"
             /\ class # "PERMANENT" => NumberOf(a) >= job.def.maxAttempts
      BY <2>1 DEF Finalized
    <3> QED BY <3>1, <3>2, <3>3, Zenon
  <2>6. AttemptInv(a)'
    BY <1>1, <1>6, <2>2, <2>4, <2>5 DEF AttemptInv, Executing, HeldJob, Ended
  <2>7. results' \subseteq Succeeded'
    BY <1>4, <2>3, <2>4 DEF SafetyInv, Succeeded
  <2> QED BY Zenon, <1>0, <2>2, <2>3, <2>5, <2>6, <2>7, SafetyOneAttempt
<1>7. ASSUME NEW leaseStatus \in {"RELEASED", "EXPIRED"},
             FinalizeCancellation(a, leaseStatus)
      PROVE  SafetyInv'
  <2>1. PICK attempt, lease, job :
           /\ attempts' = [attempts EXCEPT ![a] = attempt]
           /\ leases' = [leases EXCEPT ![a] = lease]
           /\ jobs' = [jobs EXCEPT ![j] = job]
           /\ attempt.status = "CANCELED" /\ lease.status = leaseStatus
           /\ job.status = "CANCELED" /\ job.def = jobs[j].def
    <3>1. /\ [attempts[a] EXCEPT !.status = "CANCELED",
                                 !.class = "CANCELED"].status = "CANCELED"
          /\ [leases[a] EXCEPT !.status = leaseStatus].status = leaseStatus
          /\ [jobs[j] EXCEPT !.status = "CANCELED"].status = "CANCELED"
          /\ [jobs[j] EXCEPT !.status = "CANCELED"].def = jobs[j].def
      BY <1>2 DEF AttemptRow, LeaseRow, JobRow
    <3> QED BY Zenon, <1>7, <3>1 DEF FinalizeCancellation
  <2>2. UNCHANGED <<dlq, results>>
    BY <1>7 DEF FinalizeCancellation
  <2>3. /\ attempts'[a] = attempt /\ leases'[a] = lease /\ jobs'[j] = job
        /\ DOMAIN attempts' = DOMAIN attempts
        /\ \A b \in DOMAIN attempts : b # a => attempts'[b] = attempts[b]
        /\ \A i : Used(i)' = Used(i) /\ Last(i)' = Last(i)
    BY ZenonT(30), <1>3, <2>1
  <2>4. JobInv(j)'
    BY <1>1, <2>1, <2>2, <2>3 DEF JobInv, Executing, HeldJob, WaitingJob
  <2>5. AttemptInv(a)'
    <3>1. /\ attempts'[a].status = "CANCELED" /\ leases'[a].status \in {"RELEASED", "EXPIRED"}
          /\ jobs'[j].status = "CANCELED" /\ a = Last(j)'
      BY <1>1, <1>7, <2>1, <2>3, ZenonT(30)
    <3> QED BY <3>1 DEF AttemptInv, Executing
  <2>6. results' \subseteq Succeeded'
    BY <1>4, <2>2, <2>3 DEF SafetyInv, Succeeded
  <2> QED BY Zenon, <1>0, <2>1, <2>2, <2>4, <2>5, <2>6, SafetyOneAttempt
<1> QED BY <1>5, <1>6, <1>7, EndsCases DEF Ended

LEMMA NewJobsWait ==
    ASSUME NEW d, NEW t, NEW original
    PROVE  /\ QueuedRow(d, t, original).status \in WaitingJob
           /\ PendingRow(d, t).status \in WaitingJob
BY DEF QueuedRow, PendingRow, WaitingJob

LEMMA SafetyStep == Counting /\ SafetyInv /\ [Next]_vars => SafetyInv'
<1> SUFFICES ASSUME Counting, SafetyInv, [Next]_vars PROVE SafetyInv'
  OBVIOUS
<1>0. TypeInv /\ TypeInv'
  BY TypeInvStep DEF SafetyInv
<1>1. CASE \/ Tick \/ (\E e \in DOMAIN outbox : MarkPublished(e))
           \/ UNCHANGED vars
  BY <1>0, <1>1, SafetyQuiet DEF Tick, MarkPublished, vars
<1>2. ASSUME NEW j \in JobIds, NEW k \in Keys, NEW d \in Definitions,
             NEW delay \in Schedules, NEW lag \in SubmitLags,
             Submit(j, k, d, delay, lag)
      PROVE  SafetyInv'
  <2>1. now - lag \in Nat /\ now - lag + delay \in Nat
    BY <1>0, <1>2, ConstantsAssumption DEF TypeInv, TypeOK, Submit
  <2>2. /\ QueuedRow(d, now - lag, NULL) \in JobRow
        /\ QueuedRow(d, now - lag, NULL).status \in WaitingJob
        /\ PendingRow(d, now - lag + delay) \in JobRow
        /\ PendingRow(d, now - lag + delay).status \in WaitingJob
    BY Zenon, <2>1, NewJobRowTypes, NewJobsWait
  <2>3. PICK row \in JobRow : /\ jobs' = WithRow(jobs, j, row)
                              /\ row.status \in WaitingJob
    BY <1>2, <2>2, ZenonT(30) DEF Submit
  <2>4. j \notin DOMAIN jobs /\ UNCHANGED <<attempts, leases, dlq, results>>
    BY <1>2, ZenonT(30) DEF Submit
  <2> QED BY <1>0, <2>3, <2>4, SafetyNewJob
<1>3. ASSUME NEW original \in DOMAIN jobs, NEW k \in Keys, NEW j \in JobIds,
             Replay(original, k, j)
      PROVE  SafetyInv'
  <2>1. jobs[original].def \in Definitions /\ now \in Nat /\ original \in JobIds
    BY <1>0 DEF TypeInv, TypeOK, JobRow
  <2>2. /\ QueuedRow(jobs[original].def, now, original) \in JobRow
        /\ QueuedRow(jobs[original].def, now, original).status \in WaitingJob
    BY ZenonT(30), <2>1, NewJobRowTypes, NewJobsWait
  <2>3. /\ jobs' = WithRow(jobs, j, QueuedRow(jobs[original].def, now,
                                              original))
        /\ j \notin DOMAIN jobs /\ UNCHANGED <<attempts, leases, dlq, results>>
    BY <1>3 DEF Replay
  <2> QED BY <1>0, <2>2, <2>3, SafetyNewJob
<1>4. ASSUME NEW j \in DOMAIN jobs,
             RequestCancel(j) \/ PromoteDueJob(j) \/ RenotifyStrandedJob(j)
      PROVE  SafetyInv'
  <2>1. jobs[j] \in JobRow
    BY <1>0 DEF TypeInv, TypeOK
  <2>2. UNCHANGED <<attempts, leases, dlq, results>>
    BY <1>4 DEF RequestCancel, PromoteDueJob, RenotifyStrandedJob
  <2>3. PICK row :
           /\ jobs' = [jobs EXCEPT ![j] = row]
           /\ row.def = jobs[j].def
           /\ \/ /\ jobs[j].status \in WaitingJob
                 /\ row.status \in WaitingJob \cup {"CANCELED"}
              \/ /\ jobs[j].status \in {"LEASED", "RUNNING"}
                 /\ row.status = "CANCEL_REQUESTED"
    <3>1. CASE RequestCancel(j)
      BY <2>1, <3>1 DEF RequestCancel, JobRow, WaitingJob
    <3>2. CASE PromoteDueJob(j)
      <4>1. /\ Requeued(jobs[j]).def = jobs[j].def
            /\ Requeued(jobs[j]).status = "QUEUED"
        BY <2>1 DEF Requeued, JobRow
      <4> QED BY Zenon, <3>2, <4>1 DEF PromoteDueJob, WaitingJob
    <3>3. CASE RenotifyStrandedJob(j)
      <4> DEFINE row == [jobs[j] EXCEPT !.notifiedAt = now]
      <4>1. row.def = jobs[j].def /\ row.status = jobs[j].status
        BY <2>1 DEF JobRow
      <4>2. jobs' = [jobs EXCEPT ![j] = row] /\ jobs[j].status = "QUEUED"
        BY <3>3 DEF RenotifyStrandedJob
      <4> HIDE DEF row
      <4> QED BY Zenon, <4>1, <4>2 DEF WaitingJob
    <3> QED BY <1>4, <3>1, <3>2, <3>3
  <2> QED BY Zenon, <1>0, <2>2, <2>3, SafetyJobRow
<1>5. CASE \/ \E s \in SessionIds, r \in Registrations : Register(s, r)
           \/ \E s \in DOMAIN sessions : Heartbeat(s) \/ MarkSessionStale(s)
  BY Zenon, <1>0, <1>5, SafetyQuiet DEF Register, Heartbeat, MarkSessionStale
<1> QED BY <1>0, <1>1, <1>2, <1>3, <1>4, <1>5, NextCases, SafetyClaim,
           SafetyStart, SafetyRenewLease, SafetyEnds

=============================================================================
