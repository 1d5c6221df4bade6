---------------------------- MODULE JobLifecycle ----------------------------
(***************************************************************************)
(* What the control plane promises the client about one job: the           *)
(* transition matrix of the nine job statuses and the attempt budget, with *)
(* no clock, lease, session or notification.  ControlPlane implements it.  *)
(***************************************************************************)
EXTENDS Integers

CONSTANTS JobIds, Budgets   \* Budgets: the max_attempts clients may ask for

ASSUME BudgetsAssumption == Budgets \subseteq Nat \ {0}

VARIABLES
    status,   \* job -> its status, or "ABSENT" before it is accepted
    left      \* job -> the attempts it may still be given

vars == <<status, left>>

Waiting == {"PENDING", "QUEUED", "RETRY_WAIT"}

Held == {"LEASED", "RUNNING", "CANCEL_REQUESTED"}

Terminal == {"SUCCEEDED", "CANCELED", "DEAD_LETTERED"}

\* A status or no job, and a budget that never goes negative.
TypeOK ==
    /\ status \in [JobIds -> {"ABSENT"} \cup Waiting \cup Held \cup Terminal]
    /\ left \in [JobIds -> Nat]

Init ==
    /\ status = [j \in JobIds |-> "ABSENT"]
    /\ left = [j \in JobIds |-> 0]

\* Job j moves to status s and keeps its budget.
Moves(j, s) == status' = [status EXCEPT ![j] = s] /\ UNCHANGED left

\* A submission, delayed or not, or a replay.
Accept(j, s, budget) ==
    /\ status[j] = "ABSENT"
    /\ status' = [status EXCEPT ![j] = s]
    /\ left' = [left EXCEPT ![j] = budget]

\* The schedule or the retry delay is over.
Promote(j) == status[j] \in {"PENDING", "RETRY_WAIT"} /\ Moves(j, "QUEUED")

\* A claim spends one attempt.
Lease(j) ==
    /\ status[j] = "QUEUED"
    /\ left[j] > 0
    /\ status' = [status EXCEPT ![j] = "LEASED"]
    /\ left' = [left EXCEPT ![j] = @ - 1]

Run(j) == status[j] = "LEASED" /\ Moves(j, "RUNNING")

\* Seeded fault: a late success overrides a cancellation.
SucceedAnyway(j) ==
    status[j] \in {"RUNNING", "CANCEL_REQUESTED"} /\ Moves(j, "SUCCEEDED")

Succeed(j) == status[j] = "RUNNING" /\ Moves(j, "SUCCEEDED")

\* Seeded fault: a retry that gives its attempt back.
RetryForFree(j) ==
    /\ status[j] \in {"LEASED", "RUNNING"}
    /\ status' = [status EXCEPT ![j] = "QUEUED"]
    /\ left' = [left EXCEPT ![j] = 1]

\* Only an execution that failed or timed out waits before its retry.
Retry(j) ==
    /\ left[j] > 0
    /\ \/ status[j] \in {"LEASED", "RUNNING"} /\ Moves(j, "QUEUED")
       \/ status[j] = "RUNNING" /\ Moves(j, "RETRY_WAIT")

\* With attempts left, only a permanent failure of an execution ends the job.
DeadLetter(j) ==
    /\ status[j] = "RUNNING" \/ (status[j] = "LEASED" /\ left[j] = 0)
    /\ Moves(j, "DEAD_LETTERED")

RequestCancel(j) ==
    \/ status[j] \in Waiting /\ Moves(j, "CANCELED")
    \/ status[j] \in {"LEASED", "RUNNING"} /\ Moves(j, "CANCEL_REQUESTED")

FinishCancel(j) == status[j] = "CANCEL_REQUESTED" /\ Moves(j, "CANCELED")

\* The three ways an attempt that is not canceled can end.
Conclude(j) == Succeed(j) \/ Retry(j) \/ DeadLetter(j)

Step(j) ==
    \/ \E s \in {"PENDING", "QUEUED"}, budget \in Budgets :
          Accept(j, s, budget)
    \/ Promote(j)
    \/ Lease(j)
    \/ Run(j)
    \/ Conclude(j)
    \/ RequestCancel(j)
    \/ FinishCancel(j)

Next == \E j \in JobIds : Step(j)

Spec == Init /\ [][Next]_vars

(***************************************************************************)
(* The scheduler's scans promote a due job; some eligible worker keeps     *)
(* asking; an attempt's lease lapses and is reconciled if nothing else     *)
(* ends it, and so is a canceled one's.  Nobody must Run, Succeed or       *)
(* cancel.                                                                 *)
(***************************************************************************)
Fairness ==
    \A j \in JobIds : /\ WF_vars(Promote(j))
                      /\ WF_vars(Lease(j))
                      /\ WF_vars(Conclude(j))
                      /\ WF_vars(FinishCancel(j))

FairSpec == Spec /\ Fairness

-----------------------------------------------------------------------------
(***************************************************************************)
(* A job that waits has an attempt left, so it can still be claimed: this  *)
(* is what Retry's guard is for.                                           *)
(***************************************************************************)
WaitingHasBudget ==
    \A j \in JobIds : status[j] \in Waiting => left[j] > 0

\* A job that was accepted ends, whatever workers do: retries are finite.
EveryJobEnds ==
    \A j \in JobIds : status[j] # "ABSENT" ~> status[j] \in Terminal

\* A cancellation that was recorded takes effect.
CancellationEnds ==
    \A j \in JobIds : status[j] = "CANCEL_REQUESTED" ~> status[j] = "CANCELED"

=============================================================================
