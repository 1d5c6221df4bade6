---------------------------- MODULE WorkerAttempt ---------------------------
(***************************************************************************)
(* One attempt inside a TaskForge worker, from the claim's answer to the   *)
(* reported outcome (internal/worker: processMessage after the claim,      *)
(* prepareResult, reportFailure, acknowledgeCancellation, attemptRegistry  *)
(* and the directive delivery of runHeartbeat), against the transactions   *)
(* of the control plane that decide the attempt.                           *)
(*                                                                         *)
(* Three goroutines share the attempt: the slot that executes it, the      *)
(* heartbeat that delivers cancellation directives, and the renewal loop   *)
(* that may lose the lease.  Time is abstract here (LeaseAuthority counts  *)
(* it): deadlines pass, leases lapse and shutdown begins at any moment.    *)
(* A request may be lost, answered too late, and served after its sender   *)
(* gave up.                                                                *)
(*                                                                         *)
(* A context is represented by its cause: "none" while it is live.  The    *)
(* first cause wins, and a context made from a dead one inherits its cause.*)
(***************************************************************************)
EXTENDS Naturals

CONSTANTS
    RetryAttempts,   \* RunnerConfig
    Interruptions,   \* bound: what may interrupt the attempt
    NULL

VARIABLES
    job,         \* server: the job's status, ABANDONED standing for recovery
    recorded,    \* server: outcome_request_id of the attempt
    usable,      \* server: the lease is usable and the deadline ahead
    fenced,      \* server: the session was replaced
    net,         \* requests on their way
    pc,          \* slot: where it is
    tries,       \* slot: tries of the current request
    waiting,     \* slot: the request it waits for, or NULL
    answer,      \* slot: the answer that has arrived, or NULL
    registered, canceled, bound,   \* the attempt's registry entry
    execCause, workCause,  \* execution context; context of the bound work
    renewal,     \* renewal loop: "off", "on", "lost", "fatal" or "stopped"
    shutdown,    \* the completion context is cancelled
    hb, target,  \* heartbeat goroutine, and the work it is about to cancel
    handlerErr, cause, seenCancel,  \* what the slot saw when the handler ended
    large, stored, ready,           \* the result and its upload
    report,      \* the outcome the slot reports, or "none"
    heard,       \* the verdict that ended the attempt, or "none"
    told         \* history: a directive was recorded before the last look

serverVars == <<job, recorded, usable, fenced>>
rpcVars == <<tries, waiting, answer>>
entryVars == <<registered, canceled, bound>>
ctxVars == <<execCause, workCause, renewal, shutdown>>
hbVars == <<hb, target>>
outVars == <<handlerErr, cause, seenCancel, large, stored, ready>>
endVars == <<report, heard>>
vars == <<serverVars, net, pc, rpcVars, entryVars, ctxVars, hbVars, outVars,
          endVars, told>>

Reports == {"succeed", "fail", "ack"}

Request == [kind : Reports \cup {"start"}, id : 0 .. RetryAttempts]

Replies == {"ok", "fenced", "cancel", "refused"}

AttemptAssumption ==
    /\ RetryAttempts \in Nat \ {0}
    /\ Interruptions \subseteq {"lapse", "fence", "authority", "deadline", "shutdown"}
    /\ NULL \notin Request \cup Replies

\* The claim was answered; the attempt is registered before Start.
Init ==
    /\ job = "LEASED" /\ recorded = 0 /\ usable = TRUE /\ fenced = FALSE
    /\ net = {}
    /\ pc = "start"
    /\ tries = 0 /\ waiting = NULL /\ answer = NULL
    /\ registered = TRUE /\ canceled = FALSE /\ bound = "none"
    /\ execCause = "none" /\ workCause = "none"
    /\ renewal = "off" /\ shutdown = FALSE
    /\ hb = "idle" /\ target = "none"
    /\ handlerErr = FALSE /\ cause = "none" /\ seenCancel = FALSE
    /\ large = FALSE /\ stored = FALSE /\ ready = FALSE
    /\ report = "none" /\ heard = "none"
    /\ told = FALSE

-----------------------------------------------------------------------------
(* The control plane                                                       *)

Live == usable /\ ~fenced

\* A request that already committed is answered from history, whatever has
\* happened to the lease and the session since.
Committed(req) ==
    \/ req.kind = "succeed" /\ job = "SUCCEEDED"
    \/ req.kind \in {"fail", "ack"} /\ recorded = req.id

Accepts(req) ==
    \/ req.kind = "start" /\ job \in {"LEASED", "RUNNING"}
    \/ req.kind \in {"succeed", "fail"} /\ job = "RUNNING"
    \/ req.kind = "ack" /\ job = "CANCEL_REQUESTED"

After(req) ==
    CASE req.kind = "start" -> "RUNNING"
      [] req.kind = "succeed" -> "SUCCEEDED"
      [] req.kind = "fail" -> "FAILED"
      [] req.kind = "ack" -> "CANCELED"

\* Start, Succeed, Fail and AcknowledgeCancellation.
Serve(req) ==
    /\ net' \in {net, net \ {req}}
    /\ LET accepted == ~Committed(req) /\ Live /\ Accepts(req)
           reply == CASE Committed(req) \/ accepted -> "ok"
                      [] ~Committed(req) /\ fenced -> "fenced"
                      [] Live /\ req.kind = "start" /\ job = "CANCEL_REQUESTED"
                            -> "cancel"
                      [] OTHER -> "refused"
       IN  /\ job' = IF accepted THEN After(req) ELSE job
           /\ recorded' = IF accepted /\ req.kind \in {"fail", "ack"}
                          THEN req.id ELSE recorded
           /\ answer' \in {answer} \cup
                 (IF waiting = req /\ answer = NULL THEN {reply} ELSE {})
    /\ UNCHANGED <<usable, fenced, pc, tries, waiting, entryVars, ctxVars,
                   hbVars, outVars, endVars, told>>

RequestCancel ==
    /\ job \in {"LEASED", "RUNNING"}
    /\ job' = "CANCEL_REQUESTED"
    /\ UNCHANGED <<recorded, usable, fenced, net, pc, rpcVars, entryVars,
                   ctxVars, hbVars, outVars, endVars, told>>

\* The lease expires or the deadline passes; a new boot replaces this one.
Lapse ==
    /\ "lapse" \in Interruptions
    /\ usable
    /\ usable' = FALSE
    /\ UNCHANGED <<job, recorded, fenced, net, pc, rpcVars, entryVars, ctxVars,
                   hbVars, outVars, endVars, told>>

Fence ==
    /\ "fence" \in Interruptions
    /\ ~fenced
    /\ fenced' = TRUE
    /\ UNCHANGED <<job, recorded, usable, net, pc, rpcVars, entryVars, ctxVars,
                   hbVars, outVars, endVars, told>>

\* Reconciliation recovers the attempt, or finishes its cancellation.
Reconcile ==
    /\ ~usable
    /\ job \in {"LEASED", "RUNNING", "CANCEL_REQUESTED"}
    /\ job' = IF job = "CANCEL_REQUESTED" THEN "CANCELED" ELSE "ABANDONED"
    /\ UNCHANGED <<recorded, usable, fenced, net, pc, rpcVars, entryVars,
                   ctxVars, hbVars, outVars, endVars, told>>

-----------------------------------------------------------------------------
(* The heartbeat goroutine: deliverCancellations and deliver               *)

\* A heartbeat's answer names the attempt while its cancellation is pending.
Beat ==
    /\ hb = "idle"
    /\ ~fenced
    /\ job = "CANCEL_REQUESTED"
    /\ hb' = "deliver"
    /\ UNCHANGED <<serverVars, net, pc, rpcVars, entryVars, ctxVars, target,
                   outVars, endVars, told>>

\* Seeded fault: a directive that finds the attempt's work running is dropped.
DeliverBeforeWork ==
    /\ hb = "deliver"
    /\ canceled' = (canceled \/ (registered /\ bound = "none"))
    /\ target' = "none"
    /\ told' = (told \/ (canceled' /\ pc \notin {"report", "done"}))
    /\ hb' = "apply"
    /\ UNCHANGED <<serverVars, net, pc, rpcVars, registered, bound, ctxVars,
                   outVars, endVars>>

\* deliver: records the directive under the lock and reads what to cancel; a
\* directive for an attempt no longer registered is ignored.
Deliver ==
    /\ hb = "deliver"
    /\ canceled' = (canceled \/ registered)
    /\ target' = IF registered THEN bound ELSE "none"
    /\ told' = (told \/ (registered /\ pc \notin {"report", "done"}))
    /\ hb' = "apply"
    /\ UNCHANGED <<serverVars, net, pc, rpcVars, registered, bound, ctxVars,
                   outVars, endVars>>

First(old, new) == IF old = "none" THEN new ELSE old

\* The cancel function is called after the lock is released, on what was
\* bound then.
Apply ==
    /\ hb = "apply"
    /\ workCause' = IF target = bound /\ target # "none"
                    THEN First(workCause, "user") ELSE workCause
    /\ hb' = "idle"
    /\ target' = "none"
    /\ UNCHANGED <<serverVars, net, pc, rpcVars, entryVars, execCause, renewal,
                   shutdown, outVars, endVars, told>>

-----------------------------------------------------------------------------
(* Renewal loop, deadline and shutdown                                     *)

CancelExecution(c) ==
    /\ execCause' = First(execCause, c)
    /\ workCause' = IF bound = "none" THEN workCause ELSE First(workCause, c)

\* The renewal loop gives up; a refused session ends the whole process.
LoseAuthority ==
    /\ "authority" \in Interruptions
    /\ renewal = "on"
    /\ renewal' \in IF fenced THEN {"lost", "fatal"} ELSE {"lost"}
    /\ CancelExecution("authority")
    /\ UNCHANGED <<serverVars, net, pc, rpcVars, entryVars, shutdown, hbVars,
                   outVars, endVars, told>>

\* The execution deadline passes before the execution context is released.
DeadlinePasses ==
    /\ "deadline" \in Interruptions
    /\ pc \in {"bind", "apply", "work", "classify", "upload"}
    /\ execCause = "none"
    /\ CancelExecution("timeout")
    /\ UNCHANGED <<serverVars, net, pc, rpcVars, entryVars, renewal, shutdown,
                   hbVars, outVars, endVars, told>>

Shutdown ==
    /\ "shutdown" \in Interruptions
    /\ ~shutdown
    /\ pc # "done"
    /\ shutdown' = TRUE
    /\ CancelExecution("shutdown")
    /\ UNCHANGED <<serverVars, net, pc, rpcVars, entryVars, renewal, hbVars,
                   outVars, endVars, told>>

-----------------------------------------------------------------------------
(* The slot                                                                *)

\* Seeded fault: every try carries an identity of its own.
FreshIdentity(kind) ==
    [kind |-> kind, id |-> IF kind \in {"fail", "ack"} THEN tries + 1 ELSE 0]

\* The request of an outcome: one identity, drawn before the first try.
Identified(kind) ==
    [kind |-> kind, id |-> IF kind \in {"fail", "ack"} THEN 1 ELSE 0]

Kind == IF pc = "start" THEN "start" ELSE report

Send ==
    /\ pc \in {"start", "report"}
    /\ waiting = NULL
    /\ tries < RetryAttempts
    /\ ~shutdown \/ tries = 0
    /\ waiting' = Identified(Kind)
    /\ net' = IF shutdown THEN net ELSE net \cup {waiting'}
    /\ tries' = tries + 1
    /\ UNCHANGED <<serverVars, pc, answer, entryVars, ctxVars, hbVars, outVars,
                   endVars, told>>

\* The request or its answer is lost on the way, or the slot gives up on it.
CallFails ==
    /\ waiting # NULL
    /\ answer = NULL
    /\ waiting' = NULL
    /\ UNCHANGED <<serverVars, net, pc, tries, answer, entryVars, ctxVars,
                   hbVars, outVars, endVars, told>>

LoseRequest(req) ==
    /\ net' = net \ {req}
    /\ UNCHANGED <<serverVars, pc, rpcVars, entryVars, ctxVars, hbVars,
                   outVars, endVars, told>>

\* The verdict of the retry loop.
Resolved(verdict) ==
    \/ answer # NULL /\ verdict = answer
    \/ /\ waiting = NULL /\ answer = NULL
       /\ tries = RetryAttempts \/ (shutdown /\ tries > 0)
       /\ verdict = "unresolved"

NextCall == tries' = 0 /\ waiting' = NULL /\ answer' = NULL

Unregister == registered' = FALSE /\ UNCHANGED <<canceled, bound>>

\* Start succeeded: without a window nothing runs, with one renewal begins.
Started ==
    /\ pc = "start"
    /\ Resolved("ok")
    /\ NextCall
    /\ \/ /\ execCause = "none"
          /\ pc' = "bind" /\ renewal' = "on"
          /\ UNCHANGED <<registered, heard>>
       \/ /\ pc' = "done" /\ registered' = FALSE /\ heard' = "window"
          /\ UNCHANGED renewal
    /\ UNCHANGED <<serverVars, net, canceled, bound, execCause, workCause,
                   shutdown, hbVars, outVars, report, told>>

\* Seeded fault: a Start that is not answered is always dropped.
StartDropped ==
    /\ pc = "start"
    /\ \E v \in {"cancel", "refused", "fenced", "unresolved"} :
          /\ Resolved(v)
          /\ IF v = "cancel"
             THEN pc' = "report" /\ report' = "ack" /\ UNCHANGED <<entryVars, heard>>
             ELSE pc' = "done" /\ Unregister /\ heard' = v /\ UNCHANGED report
    /\ NextCall
    /\ UNCHANGED <<serverVars, net, ctxVars, hbVars, outVars, told>>

\* Start failed: a lost session ends the process; an attempt whose
\* cancellation this worker knows of, from the directive or from the refusal,
\* is acknowledged; any other is dropped.
StartFailed ==
    /\ pc = "start"
    /\ \E v \in {"cancel", "refused", "fenced", "unresolved"} :
          /\ Resolved(v)
          /\ IF v # "fenced" /\ (canceled \/ v = "cancel")
             THEN pc' = "report" /\ report' = "ack" /\ UNCHANGED <<entryVars, heard>>
             ELSE pc' = "done" /\ Unregister /\ heard' = v /\ UNCHANGED report
    /\ NextCall
    /\ UNCHANGED <<serverVars, net, ctxVars, hbVars, outVars, told>>

\* bind: attaches the work's cancel function; a directive that is already
\* recorded is applied in the next step.
Bind(work) ==
    /\ bound' = work
    /\ workCause' = execCause
    /\ pc' = IF canceled THEN "apply" ELSE "work"
    /\ UNCHANGED <<registered, canceled>>

BindHandler ==
    /\ pc = "bind"
    /\ Bind("handler")
    /\ UNCHANGED <<serverVars, net, rpcVars, execCause, renewal, shutdown,
                   hbVars, outVars, endVars, told>>

ApplyPending ==
    /\ pc = "apply"
    /\ workCause' = First(workCause, "user")
    /\ pc' = "work"
    /\ UNCHANGED <<serverVars, net, rpcVars, entryVars, execCause, renewal,
                   shutdown, hbVars, outVars, endVars, told>>

\* The handler returns, with an error or with a small or a large result.
HandlerReturns ==
    /\ pc = "work" /\ bound = "handler"
    /\ handlerErr' \in BOOLEAN
    /\ large' \in BOOLEAN
    /\ cause' = workCause
    /\ seenCancel' = canceled
    /\ pc' = "classify"
    /\ UNCHANGED <<serverVars, net, rpcVars, entryVars, ctxVars, hbVars,
                   stored, ready, endVars, told>>

\* Whether the result is prepared, under the execution context and bound to
\* the attempt's entry.
Classify ==
    /\ pc = "classify"
    /\ IF ~handlerErr /\ ~seenCancel /\ cause \notin {"user", "timeout", "authority"}
       THEN Bind("upload")
       ELSE pc' = "stop" /\ UNCHANGED <<entryVars, workCause>>
    /\ UNCHANGED <<serverVars, net, rpcVars, execCause, renewal, shutdown,
                   hbVars, outVars, endVars, told>>

\* prepareResult: a small result needs no upload; a large one is stored, or
\* the upload fails or is cancelled, whether or not the object was written.
PrepareResult ==
    /\ pc = "work" /\ bound = "upload"
    /\ \/ ~large /\ ready' = TRUE /\ UNCHANGED stored
       \/ large /\ stored' = TRUE /\ ready' = TRUE
       \/ large /\ stored' \in BOOLEAN /\ ready' = FALSE
    /\ pc' = "stop"
    /\ UNCHANGED <<serverVars, net, rpcVars, entryVars, ctxVars, hbVars,
                   handlerErr, cause, seenCancel, large, endVars, told>>

\* The precedence of the causes that are visible together.
Outcome(knowsCancel) ==
    CASE knowsCancel \/ cause = "user" -> "ack"
      [] ~(knowsCancel \/ cause = "user") /\ handlerErr
            /\ cause \notin {"timeout", "authority"} /\ renewal = "on"
            /\ ~shutdown -> "fail"
      [] ~(knowsCancel \/ cause = "user") /\ ~handlerErr
            /\ cause \notin {"timeout", "authority"} /\ renewal = "on"
            /\ ready -> "succeed"
      [] OTHER -> "none"

\* Releases the execution context, stops the renewal loop, looks at the
\* registry once more and decides what to report.
Stop ==
    /\ pc = "stop"
    /\ renewal' = IF renewal = "on" THEN "stopped" ELSE renewal
    /\ report' = IF renewal = "fatal" THEN "none" ELSE Outcome(seenCancel \/ canceled)
    /\ heard' = IF renewal = "fatal" THEN "fenced" ELSE heard
    /\ IF report' = "none" THEN pc' = "done" /\ Unregister
       ELSE pc' = "report" /\ UNCHANGED entryVars
    /\ UNCHANGED <<serverVars, net, rpcVars, execCause, workCause, shutdown,
                   hbVars, outVars, told>>

\* The report is confirmed, refused, or left to reconciliation.
Reported ==
    /\ pc = "report"
    /\ \E v \in {"ok", "refused", "fenced", "unresolved"} : Resolved(v) /\ heard' = v
    /\ NextCall
    /\ pc' = "done"
    /\ Unregister
    /\ UNCHANGED <<serverVars, net, ctxVars, hbVars, outVars, report, told>>

SlotStep ==
    \/ Send
    \/ CallFails
    \/ Started
    \/ StartFailed
    \/ BindHandler
    \/ ApplyPending
    \/ Classify
    \/ PrepareResult
    \/ Stop
    \/ Reported

Next ==
    \/ SlotStep
    \/ HandlerReturns
    \/ \E req \in net : Serve(req) \/ LoseRequest(req)
    \/ RequestCancel
    \/ Lapse
    \/ Fence
    \/ Reconcile
    \/ Beat
    \/ Deliver
    \/ Apply
    \/ LoseAuthority
    \/ DeadlinePasses
    \/ Shutdown

Spec == Init /\ [][Next]_vars

-----------------------------------------------------------------------------
(* Properties                                                              *)

\* A recorded outcome was earned: a failure by a handler that nobody
\* interrupted, not one that a timeout, a lost lease, a cancellation or the
\* shutdown stopped; a success by a result that is inline or stored.
OutcomesAreEarned ==
    /\ job = "FAILED" => cause = "none" /\ handlerErr
    /\ job = "SUCCEEDED" => ~large \/ stored

\* A cancellation the worker was told of while it could still choose is never
\* answered with success or failure, even if it arrived during Start or
\* during the upload; and the worker does not walk away from it, but
\* acknowledges, unless its session is gone or its window never opened.
CancellationNotDropped ==
    told => /\ report \in {"ack", "none"}
            /\ pc = "done" /\ heard \notin {"fenced", "window"} => report = "ack"

\* The worker is never told that its report was refused when it committed,
\* neither then nor by a delayed copy later: repetitions carry the identity
\* of the first try and history is consulted before authority.
RefusedMeansNotCommitted == heard \in {"refused", "fenced"} /\ report # "none" => ~Committed(Identified(report))

\* Work goes on, its context alive, although its job was cancelled.
WorkingOnCanceled ==
    job = "CANCEL_REQUESTED" /\ pc = "work" /\ workCause = "none" /\ ~fenced

\* What is durable is what happened: an outcome was earned, and a report the
\* worker was told is refused has not committed (Outcome, Store.Fail).
OutcomesAreTrue == OutcomesAreEarned /\ RefusedMeansNotCommitted
=============================================================================
