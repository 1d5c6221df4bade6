----------------------------- MODULE ControlCall ----------------------------
(***************************************************************************)
(* The worker-control calls of TaskForge end to end: the client of the     *)
(* worker (internal/worker/client.go), the handlers of the API             *)
(* (internal/api/worker_control.go, worker_auth.go), the reads that decide *)
(* under which scope a request acts, the mapping of a store's error to a   *)
(* status and a code, and what the worker makes of the answer.             *)
(*                                                                         *)
(* A handler is several database round trips: the session's scope, the     *)
(* key's revocation, the fenced operation.  Each is a step of its own here *)
(* and an operator may revoke the key, another boot replace the session,   *)
(* or the request's deadline elapse between any two.  The fenced operation *)
(* is one transaction (ControlPlane models its body); its commit may       *)
(* succeed although the caller sees only an elapsed deadline.              *)
(***************************************************************************)
EXTENDS Naturals, FiniteSets

CONSTANTS
    RetryAttempts,   \* tries of a slot's request
    StaleTicks,      \* heartbeats without confirmation until the boot is stale
    Operations       \* bound: the operations a slot calls

CallAssumption ==
    /\ RetryAttempts \in Nat \ {0}
    /\ StaleTicks \in Nat \ {0}
    /\ Operations \subseteq {"claim", "start", "renew", "succeed", "fail", "cancel"}

VARIABLES
    revoked,     \* worker_keys.revoked_at IS NOT NULL
    session,     \* "none", "HEALTHY" or "OFFLINE"
    keyed,       \* worker_sessions.worker_key_id IS NOT NULL
    job,         \* status of the one job of the model
    outcome,     \* operation whose outcome request id the attempt records
    lapsed, timedOut,     \* the lease expired; the deadline passed
    process,     \* the worker: "starting", "running", "stopped", "failed"
    misses,      \* heartbeats since the last confirmation
    call,        \* each goroutine's call
    phase,       \* the slot's attempt: "none", "claimed" or "started"
    verdict,     \* what the slot concluded from its last call
    lateCommit   \* history: a request sent after the revocation committed

vars == <<revoked, session, keyed, job, outcome, lapsed, timedOut, process,
          misses, phase, call, verdict, lateCommit>>

serverVars == <<revoked, session, keyed, job, outcome, lapsed, timedOut, lateCommit>>
workerVars == <<process, misses, phase, verdict>>

Callers == {"slot", "heartbeat"}

Outcomes == {"succeed", "fail", "cancel"}

Ops == {"register", "heartbeat", "claim", "start", "renew"} \cup Outcomes

\* Codes of internal/api/errors.go that worker control answers with.
Conflicts == {"worker_session_unavailable", "fence_rejected", "lease_expired",
              "state_conflict", "attempt_timed_out", "cancellation_requested"}

Codes == Conflicts \cup {"ok", "unauthorized", "malformed_json",
    "payload_too_large", "validation_failed", "service_unavailable",
    "internal_error", "transport"}

\* The parts of a request that each handler parses before it reads anything.
parseFence == {"attempt_id", "job_id", "lease_id", "worker_id", "worker_session_id"}

parseRenewalRequest == parseFence \cup {"renewal_request_id", "expected_renewal_version"}

parseClaimRequest == {"worker_id", "worker_session_id", "claim_request_id", "queue"}

parseResultPayload == {"result"}

Parsed(op) ==
    CASE op = "register" -> {"worker_session_id"}
      [] op = "heartbeat" -> {"worker_session_id", "worker_id"}
      [] op = "claim" -> parseClaimRequest
      [] op = "renew" -> parseRenewalRequest
      [] op = "start" -> parseFence
      [] op = "succeed" -> parseFence \cup parseResultPayload
      [] op \in {"fail", "cancel"} -> parseFence \cup {"outcome_request_id"}

\* A request is fine, or one thing is wrong with it: a client of another
\* release may send what this server does not accept.
Forms(op) == {"ok", "malformed_json", "payload_too_large"} \cup Parsed(op)

Idle == [op |-> "none", pc |-> "idle", form |-> "ok", tries |-> 0,
         late |-> FALSE, code |-> "ok"]

Call == [op : Ops \cup {"none"}, pc : {"idle", "sent", "scoped", "cleared", "answered"},
         form : UNION {Forms(op) : op \in Ops}, tries : 0 .. RetryAttempts, late : BOOLEAN, code : Codes]

\* A boot that has to register, or one that registered before keys existed.
Init ==
    /\ revoked = FALSE /\ lateCommit = FALSE
    /\ \/ session = "none" /\ keyed = TRUE /\ process = "starting"
       \/ session = "HEALTHY" /\ keyed = FALSE /\ process = "running"
    /\ job = "QUEUED" /\ outcome = "none"
    /\ lapsed = FALSE /\ timedOut = FALSE
    /\ misses = 0 /\ phase = "none"
    /\ call = [c \in Callers |-> Idle]
    /\ verdict = "none"

-----------------------------------------------------------------------------
(* The surroundings                                                        *)

Revoke ==
    /\ ~revoked
    /\ revoked' = TRUE
    /\ UNCHANGED <<session, keyed, job, outcome, lapsed, timedOut, lateCommit,
                   workerVars, call>>

ReplaceSession ==
    /\ session = "HEALTHY"
    /\ session' = "OFFLINE"
    /\ UNCHANGED <<revoked, keyed, job, outcome, lapsed, timedOut, lateCommit,
                   workerVars, call>>

LeaseLapses ==
    /\ job # "QUEUED" /\ ~lapsed
    /\ lapsed' = TRUE
    /\ UNCHANGED <<revoked, session, keyed, job, outcome, timedOut, lateCommit,
                   workerVars, call>>

DeadlinePasses ==
    /\ job = "RUNNING" /\ ~timedOut
    /\ timedOut' = TRUE
    /\ UNCHANGED <<revoked, session, keyed, job, outcome, lapsed, lateCommit,
                   workerVars, call>>

RequestCancel ==
    /\ job \in {"LEASED", "RUNNING"}
    /\ job' = "CANCEL_REQUESTED"
    /\ UNCHANGED <<revoked, session, keyed, outcome, lapsed, timedOut,
                   lateCommit, workerVars, call>>

-----------------------------------------------------------------------------
(* The handlers                                                            *)

Answer(c, code) ==
    call' = [call EXCEPT ![c].pc = "answered", ![c].code = code,
                         ![c].form = "ok", ![c].late = FALSE]

\* decodeControlJSON and the field checks: nothing is read from the database
\* for a request that is not well formed, except a registration's key.
Decode(c) ==
    /\ call[c].pc = IF call[c].op = "register" THEN "cleared" ELSE "sent"
    /\ call[c].form # "ok"
    /\ Answer(c, IF call[c].form \in Codes THEN call[c].form ELSE "validation_failed")
    /\ UNCHANGED <<serverVars, workerVars>>

\* requireWorkerKey: registration presents the key itself.
RequireWorkerKey(c) ==
    /\ call[c].pc = "sent"
    /\ call[c].op = "register"
    /\ IF revoked THEN Answer(c, "unauthorized")
       ELSE call' = [call EXCEPT ![c].pc = "cleared"]
    /\ UNCHANGED <<serverVars, workerVars>>

\* Seeded fault: the session's own status is checked, its key is not.
TrustSession(c) ==
    /\ call[c].pc = "sent" /\ call[c].form = "ok"
    /\ call[c].op # "register"
    /\ IF session = "none" THEN Answer(c, "worker_session_unavailable")
       ELSE call' = [call EXCEPT ![c].pc = "cleared"]
    /\ UNCHANGED <<serverVars, workerVars>>

\* resolveWorkerControlScope, first read: SessionScope.
SessionScope(c) ==
    /\ call[c].pc = "sent" /\ call[c].form = "ok"
    /\ call[c].op # "register"
    /\ IF session = "none" THEN Answer(c, "worker_session_unavailable")
       ELSE call' = [call EXCEPT ![c].pc = IF keyed THEN "scoped" ELSE "cleared"]
    /\ UNCHANGED <<serverVars, workerVars>>

\* resolveWorkerControlScope, second read: IsRevoked.
IsRevoked(c) ==
    /\ call[c].pc = "scoped"
    /\ IF revoked THEN Answer(c, "unauthorized")
       ELSE call' = [call EXCEPT ![c].pc = "cleared"]
    /\ UNCHANGED <<serverVars, workerVars>>

Current == session = "HEALTHY"

LeaseUsable == ~lapsed /\ job \in {"LEASED", "RUNNING", "CANCEL_REQUESTED"}

\* What each handler answers, by the first check of its operation that fails.
handleRegisterWorkerSession ==
    IF session = "OFFLINE" THEN "worker_session_unavailable" ELSE "ok"

handleHeartbeat == IF Current THEN "ok" ELSE "worker_session_unavailable"

handleClaim == IF Current THEN "ok" ELSE "worker_session_unavailable"

handleStartAttempt ==
    IF ~Current THEN "fence_rejected"
    ELSE IF ~LeaseUsable THEN "lease_expired"
    ELSE IF job = "CANCEL_REQUESTED" THEN "cancellation_requested"
    ELSE "ok"

handleRenewLease ==
    IF ~Current THEN "fence_rejected"
    ELSE IF ~LeaseUsable THEN "lease_expired"
    ELSE IF timedOut THEN "attempt_timed_out"
    ELSE IF job = "CANCEL_REQUESTED" THEN "state_conflict"
    ELSE "ok"

\* The first report of an end of the attempt, after the look for a replay.
FirstReport ==
    IF ~Current THEN "fence_rejected"
    ELSE IF timedOut THEN "attempt_timed_out"
    ELSE IF ~LeaseUsable THEN "lease_expired"
    ELSE IF job # "RUNNING" THEN "state_conflict"
    ELSE "ok"

handleSucceedAttempt == IF job = "SUCCEEDED" THEN "ok" ELSE FirstReport

handleFailAttempt == IF outcome = "fail" THEN "ok" ELSE FirstReport

handleCancelAttempt ==
    IF outcome = "cancel" THEN "ok"
    ELSE IF ~Current THEN "fence_rejected"
    ELSE IF ~LeaseUsable THEN "lease_expired"
    ELSE IF job # "CANCEL_REQUESTED" THEN "state_conflict"
    ELSE "ok"

StoreResult(op) ==
    CASE op = "register" -> handleRegisterWorkerSession
      [] op = "heartbeat" -> handleHeartbeat
      [] op = "claim" -> handleClaim
      [] op = "start" -> handleStartAttempt
      [] op = "renew" -> handleRenewLease
      [] op = "succeed" -> handleSucceedAttempt
      [] op = "fail" -> handleFailAttempt
      [] op = "cancel" -> handleCancelAttempt

Effect(op) ==
    /\ session' = IF op = "register" THEN "HEALTHY" ELSE session
    /\ job' = CASE op = "claim" /\ job = "QUEUED" -> "LEASED"
                [] op = "start" -> "RUNNING"
                [] op = "succeed" -> "SUCCEEDED"
                [] op = "fail" -> "FAILED"
                [] op = "cancel" -> "CANCELED"
                [] OTHER -> job
    /\ outcome' = IF op \in Outcomes THEN op ELSE outcome

\* The fenced operation and its answer.  The deadline may elapse during the
\* commit, so that a committed operation is answered with a 503.
Execute(c) ==
    /\ call[c].pc = "cleared" /\ call[c].form = "ok"
    /\ LET op == call[c].op
           result == StoreResult(op)
       IN  /\ \E code \in {result} \cup (IF result = "ok" THEN {"service_unavailable"} ELSE {}) :
                 Answer(c, code)
           /\ IF result = "ok" THEN Effect(op) ELSE UNCHANGED <<session, job, outcome>>
           /\ lateCommit' = (lateCommit \/ (result = "ok" /\ call[c].late /\ keyed))
    /\ UNCHANGED <<revoked, keyed, lapsed, timedOut, workerVars>>

\* Any database call of the handler exhausts the deadline or fails otherwise.
DatabaseFault(c) ==
    /\ call[c].pc \in {"sent", "scoped", "cleared"}
    /\ call[c].form = "ok" \/ (call[c].op = "register" /\ call[c].pc = "sent")
    /\ \E code \in {"service_unavailable", "internal_error"} : Answer(c, code)
    /\ UNCHANGED <<serverVars, workerVars>>

\* The request never arrives, or its answer is lost.
TransportFault(c) ==
    /\ call[c].pc \in {"sent", "answered"} /\ call[c].code # "transport"
    /\ Answer(c, "transport")
    /\ UNCHANGED <<serverVars, workerVars>>

-----------------------------------------------------------------------------
(* The client                                                              *)

\* writeWorkerControlError and its siblings: the status of each code.
Status(code) ==
    CASE code = "ok" -> 200
      [] code = "unauthorized" -> 401
      [] code = "malformed_json" -> 400
      [] code = "payload_too_large" -> 413
      [] code = "validation_failed" -> 422
      [] code \in Conflicts -> 409
      [] code = "internal_error" -> 500
      [] code = "service_unavailable" -> 503

\* RemoteError.Retryable; a transport error is ambiguous and is retried.
Retryable(code) ==
    \/ code = "transport"
    \/ code # "transport" /\ (Status(code) = 429 \/ Status(code) >= 500)

\* Seeded fault: every conflict is read as the end of the session.
AnyConflict(code) == code \in Conflicts

isSessionLost(code) == code \in {"worker_session_unavailable", "fence_rejected"}

isAuthorityLost(code) ==
    code \in {"worker_session_unavailable", "fence_rejected", "lease_expired",
              "state_conflict"}

isCancellationRequested(code) == code = "cancellation_requested"

React(op, code) ==
    CASE code = "ok" -> "ok"
      [] isSessionLost(code) -> "sessionLost"
      [] op = "renew" /\ isAuthorityLost(code) /\ ~isSessionLost(code) -> "authorityLost"
      [] op = "start" /\ isCancellationRequested(code) /\ ~isSessionLost(code) -> "acknowledge"
      [] OTHER -> "given_up"

Send(c, op, tries) ==
    \E form \in IF op = "heartbeat" THEN {"ok"} ELSE Forms(op) :
        call' = [call EXCEPT ![c] = [op |-> op, pc |-> "sent", form |-> form,
                                     tries |-> tries, late |-> revoked, code |-> "ok"]]

\* The slot's calls in their order: an attempt is claimed, started, renewed
\* and reported; a cancellation is acknowledged also before the start.
MayCall(op) ==
    \/ op = "register" /\ process = "starting"
    \/ op = "claim" /\ process = "running" /\ phase = "none"
    \/ op \in {"start", "cancel"} /\ process = "running" /\ phase = "claimed"
    \/ op \in Outcomes \cup {"renew"} /\ process = "running" /\ phase = "started"

Begin(op) ==
    /\ call["slot"] = Idle
    /\ MayCall(op)
    /\ Send("slot", op, 1)
    /\ UNCHANGED <<serverVars, workerVars>>

\* Runner.retry: the identical request again, under the same identity.
Retry ==
    LET slot == call["slot"] IN
    /\ slot.pc = "answered"
    /\ Retryable(slot.code)
    /\ slot.tries < RetryAttempts
    /\ process # "stopped"
    /\ Send("slot", slot.op, slot.tries + 1)
    /\ UNCHANGED <<serverVars, workerVars>>

\* The slot's conclusion: a lost session ends the process, and so does a
\* registration that failed.
Conclude ==
    LET slot == call["slot"] IN
    /\ slot.pc = "answered"
    /\ ~Retryable(slot.code) \/ slot.tries = RetryAttempts
    /\ verdict' = React(slot.op, slot.code)
    /\ process' = CASE process = "stopped" -> process
                    [] process # "stopped" /\ slot.op = "register" ->
                          IF verdict' = "ok" THEN "running" ELSE "failed"
                    [] process # "stopped" /\ slot.op # "register" ->
                          IF verdict' = "sessionLost" THEN "stopped" ELSE process
    /\ phase' = CASE verdict' = "ok" /\ slot.op = "claim" -> "claimed"
                  [] verdict' = "ok" /\ slot.op = "start" -> "started"
                  [] OTHER -> phase
    /\ call' = [call EXCEPT !["slot"] = Idle]
    /\ UNCHANGED <<serverVars, misses>>

\* runHeartbeat: one call per tick, never repeated within it.
Beat ==
    /\ process = "running"
    /\ call["heartbeat"] = Idle
    /\ misses < StaleTicks
    /\ Send("heartbeat", "heartbeat", 1)
    /\ UNCHANGED <<serverVars, workerVars>>

\* Only an accepted heartbeat is a confirmation; a fence ends the process at
\* once, anything else when the staleness window is over.
BeatAnswered ==
    LET beat == call["heartbeat"] IN
    /\ beat.pc = "answered"
    /\ misses' = IF beat.code = "ok" THEN 0 ELSE misses + 1
    /\ process' = IF process = "running" /\ (isSessionLost(beat.code) \/ misses' = StaleTicks)
                  THEN "stopped" ELSE process
    /\ call' = [call EXCEPT !["heartbeat"] = Idle]
    /\ UNCHANGED <<serverVars, phase, verdict>>

HandlerStep(c) ==
    \/ Decode(c)
    \/ RequireWorkerKey(c)
    \/ SessionScope(c)
    \/ IsRevoked(c)
    \/ Execute(c)
    \/ DatabaseFault(c)
    \/ TransportFault(c)

Next ==
    \/ \E c \in Callers : HandlerStep(c)
    \/ \E op \in Operations \cup {"register"} : Begin(op)
    \/ Retry
    \/ Conclude
    \/ Beat
    \/ BeatAnswered
    \/ Revoke
    \/ ReplaceSession
    \/ LeaseLapses
    \/ DeadlinePasses
    \/ RequestCancel

Spec == Init /\ [][Next]_vars

-----------------------------------------------------------------------------
(* Properties                                                              *)

\* Revocation takes effect between the requests of one session: a request
\* sent after the key was revoked commits nothing, although neither a secret
\* nor the key is presented with it.
RevokedKeyCommitsNothing == ~lateCommit

\* A worker gives up only what it has lost.  It concludes that its session is
\* gone not from an elapsed deadline, a lost answer, a revoked key or another
\* conflict, and that its lease is gone only when nothing the attempt
\* produces could still commit: it lapsed, was fenced or is decided.
LossIsReal ==
    /\ verdict = "sessionLost" => session = "OFFLINE" \/ session = "none"
    /\ verdict = "authorityLost" =>
          lapsed \/ session # "HEALTHY" \/ job \notin {"LEASED", "RUNNING"}

\* A worker presents itself although its key is revoked.
RunningUnderRevokedKey == revoked /\ keyed /\ process = "running"
=============================================================================
