----------------------------- MODULE PublicCalls ------------------------------
(***************************************************************************)
(* A public call from end to end: taskforge-cli builds one request, the    *)
(* network may lose it or its answer, the API handles it under its         *)
(* middleware, the database commits or does not, and the CLI turns what it *)
(* saw into an exit code.                                                  *)
(*                                                                         *)
(* Every element of Calls is one invocation of the CLI and the one request *)
(* it makes: the CLI never repeats a request, so a retry is another        *)
(* invocation.  Invocations overlap.  A store operation is one             *)
(* transaction; a deadline may expire before it commits, or while it does. *)
(* Requests are already decoded (Submission has what validation does), and *)
(* the credential's own life is in Keys.                                   *)
(***************************************************************************)
EXTENDS Integers, FiniteSets

CONSTANTS
    Calls,        \* invocations, 1..n; a job created by one takes its number
    Commands,     \* the command lines
    Existing,     \* the jobs there are at first: id -> status
    Queues        \* the provisioned queues

CallsAssumption == Calls \subseteq Nat \ {0} /\ Calls \cap DOMAIN Existing = {}

VARIABLES
    jobs,    \* id -> the job row, with the key and the job it was created from
    calls    \* the invocations

vars == <<jobs, calls>>

Running == -1
JobIds == Calls \cup DOMAIN Existing
NoKey == <<"", 0>>
NoJob == [status |-> "none", key |-> NoKey, req |-> "", from |-> 0, result |-> FALSE]
Terminal == {"SUCCEEDED", "CANCELED", "DEAD_LETTERED"}

------------------------------------------------------------------------------
(* The stores: the error or the job, and the rows after the transaction.   *)

Result(err, job, replayed, rows) ==
    [err |-> err, job |-> job, replayed |-> replayed, rows |-> rows]
Refused(err) == Result(err, 0, FALSE, jobs)
Insert(c, key, req, from) ==
    Result("", c, FALSE, [jobs EXCEPT ![c] = [NoJob EXCEPT !.status = "QUEUED", !.key = key,
                                                         !.req = req, !.from = from]])
Holders(key, from) ==
    {i \in Calls : jobs[i].status # "none" /\ jobs[i].from = from /\ jobs[i].key = key}
Missing(id) == id \notin JobIds \/ jobs[id].status = "none"

(* Seeded fault: the key is looked up before the transaction, not held by it. *)
SubmitUnkeyed(c, cmd, key) ==
    IF cmd.queue \notin Queues THEN Refused("ErrUnknownQueue") ELSE Insert(c, key, cmd.req, 0)

resolveExisting(cmd, key) ==
    LET first == CHOOSE i \in Holders(key, 0) : TRUE
    IN IF jobs[first].req = cmd.req THEN Result("", first, TRUE, jobs)
       ELSE Refused("ErrIdempotencyConflict")

Submit(c, cmd, key) ==
    IF cmd.queue \notin Queues THEN Refused("ErrUnknownQueue")
    ELSE IF Holders(key, 0) = {} THEN Insert(c, key, cmd.req, 0)
    ELSE resolveExisting(cmd, key)

Replay(c, cmd, key) ==
    IF Missing(cmd.id) THEN Refused("ErrJobNotFound")
    ELSE IF jobs[cmd.id].status # "DEAD_LETTERED" THEN Refused("ErrNotDeadLettered")
    ELSE IF Holders(key, cmd.id) = {} THEN Insert(c, key, jobs[cmd.id].req, cmd.id)
    ELSE Result("", CHOOSE i \in Holders(key, cmd.id) : TRUE, TRUE, jobs)

RequestCancel(cmd) ==
    IF Missing(cmd.id) THEN Refused("ErrJobNotFound")
    ELSE CASE jobs[cmd.id].status \in {"CANCEL_REQUESTED", "CANCELED"} ->
                 Result("", cmd.id, TRUE, jobs)
           [] jobs[cmd.id].status = "QUEUED" ->
                 Result("", cmd.id, FALSE, [jobs EXCEPT ![cmd.id].status = "CANCELED"])
           [] jobs[cmd.id].status = "RUNNING" ->
                 Result("", cmd.id, FALSE, [jobs EXCEPT ![cmd.id].status = "CANCEL_REQUESTED"])
           [] OTHER -> Refused("ErrJobNotCancelable")

Get(cmd) ==
    IF Missing(cmd.id) THEN Refused("ErrJobNotFound") ELSE Result("", cmd.id, FALSE, jobs)

(* A job that succeeded may have recorded no result. *)
GetResult(cmd) ==
    IF Missing(cmd.id) \/ ~jobs[cmd.id].result THEN Refused("ErrResultNotFound")
    ELSE Result("", cmd.id, FALSE, jobs)

Operate(c) ==
    LET cmd == calls[c].cmd
    IN CASE cmd.verb = "submit" -> Submit(c, cmd, calls[c].key)
         [] cmd.verb \in {"retry", "replay"} -> Replay(c, cmd, calls[c].key)
         [] cmd.verb = "cancel" -> RequestCancel(cmd)
         [] cmd.verb = "get" -> Get(cmd)
         [] cmd.verb = "result" -> GetResult(cmd)

------------------------------------------------------------------------------
(* The handlers: what each makes of its store's answer.  Submission and the *)
(* reads have no case for a deadline.                                       *)

internalError == <<500, "internal_error">>

(* Seeded fault: what the deadline cut off is reported as not there. *)
DeadlineIsNotFound == <<404, "not_found">>

writeDeadlineAmbiguity == <<503, "service_unavailable">>

handleSubmitJob(r) ==
    CASE r.err = "" -> <<IF r.replayed THEN 200 ELSE 201, "">>
      [] r.err = "ErrUnknownQueue" -> <<422, "unknown_queue">>
      [] r.err = "ErrIdempotencyConflict" -> <<409, "idempotency_conflict">>
      [] OTHER -> internalError

handleReplayJob(r) ==
    CASE r.err = "" -> <<IF r.replayed THEN 200 ELSE 201, "">>
      [] r.err = "ErrJobNotFound" -> <<404, "not_found">>
      [] r.err = "ErrNotDeadLettered" -> <<409, "job_not_dead_lettered">>
      [] r.err = "deadline" -> writeDeadlineAmbiguity
      [] OTHER -> internalError

handleCancelJob(r) ==
    CASE r.err = "" -> <<200, "">>
      [] r.err = "ErrJobNotFound" -> <<404, "not_found">>
      [] r.err = "ErrJobNotCancelable" -> <<409, "job_not_cancelable">>
      [] r.err = "deadline" -> writeDeadlineAmbiguity
      [] OTHER -> internalError

handleGetJob(r) ==
    CASE r.err = "" -> <<200, "">>
      [] r.err = "ErrJobNotFound" -> <<404, "not_found">>
      [] OTHER -> internalError

handleGetJobResult(r) ==
    CASE r.err = "" -> <<200, "">>
      [] r.err = "ErrResultNotFound" -> <<404, "not_found">>
      [] OTHER -> internalError

Handle(verb, r) ==
    CASE verb = "submit" -> handleSubmitJob(r)
      [] verb \in {"retry", "replay"} -> handleReplayJob(r)
      [] verb = "cancel" -> handleCancelJob(r)
      [] verb = "get" -> handleGetJob(r)
      [] verb = "result" -> handleGetJobResult(r)

------------------------------------------------------------------------------
(* The CLI before its request.                                              *)

newIdempotencyKeyIfEmpty(c, key) == IF key = "" THEN <<"uuid", c>> ELSE <<key, 0>>

(* A command line the CLI refuses makes no request. *)
Launch(c, cmd, key) ==
    /\ calls[c].cli = "idle"
    /\ calls' = [calls EXCEPT ![c].cmd = cmd, ![c].key = key,
                              ![c].cli = IF cmd.usage THEN "waiting" ELSE "exited",
                              ![c].exit = IF cmd.usage THEN Running ELSE 1]
    /\ UNCHANGED jobs

cmdJobsSubmit(c, cmd) ==
    cmd.verb = "submit" /\ Launch(c, cmd, newIdempotencyKeyIfEmpty(c, cmd.key))

cmdJobsRetry(c, cmd) ==
    cmd.verb = "retry" /\ Launch(c, cmd, newIdempotencyKeyIfEmpty(c, cmd.key))

cmdDLQReplay(c, cmd) ==
    cmd.verb = "replay" /\ Launch(c, cmd, newIdempotencyKeyIfEmpty(c, cmd.key))

cmdJobsCancel(c, cmd) == cmd.verb = "cancel" /\ Launch(c, cmd, NoKey)

cmdJobsGet(c, cmd) == cmd.verb = "get" /\ Launch(c, cmd, NoKey)

cmdJobsResult(c, cmd) == cmd.verb = "result" /\ Launch(c, cmd, NoKey)

Run(c, cmd) ==
    \/ cmdJobsSubmit(c, cmd) \/ cmdJobsRetry(c, cmd) \/ cmdDLQReplay(c, cmd)
    \/ cmdJobsCancel(c, cmd) \/ cmdJobsGet(c, cmd) \/ cmdJobsResult(c, cmd)

Exits(c, code) == [calls EXCEPT ![c].cli = "exited", ![c].exit = code]

(* No connection: the request never leaves. *)
Unreachable(c) ==
    /\ calls[c].cli = "waiting" /\ calls[c].server = "none"
    /\ calls' = [Exits(c, 8) EXCEPT ![c].server = "never"]
    /\ UNCHANGED jobs

------------------------------------------------------------------------------
(* The API.  A handler decides before the store, after it, or in a panic.   *)

Writes(c, answer) ==
    [calls EXCEPT ![c].server = "writing", ![c].status = answer[1], ![c].err = answer[2]]

(* The request arrives, whether or not the client is still there: it was    *)
(* sent.  The credential is checked first, then the request itself.         *)
Arrive(c) ==
    /\ calls[c].cli # "idle" /\ calls[c].exit # 1
    /\ calls[c].server = "none"
    /\ calls' = IF ~calls[c].cmd.cred THEN Writes(c, <<401, "unauthorized">>)
                ELSE IF ~calls[c].cmd.valid THEN Writes(c, <<422, "validation_failed">>)
                ELSE [calls EXCEPT ![c].server = "store"]
    /\ UNCHANGED jobs

Decide(c) ==
    /\ calls[c].server = "store"
    /\ LET r == Operate(c)
       IN /\ jobs' = r.rows
          /\ calls' = [Writes(c, Handle(calls[c].cmd.verb, r)) EXCEPT
                          ![c].job = r.job, ![c].did = (r.rows # jobs)]

(* The deadline expires, or the database or the object store fails, and the  *)
(* operation has not happened.                                               *)
StoreFails(c, why) ==
    /\ calls[c].server = "store"
    /\ calls' = Writes(c, Handle(calls[c].cmd.verb, Refused(why)))
    /\ UNCHANGED jobs

(* The same while the commit is in flight, and the commit happens. *)
CommitUnknown(c, why) ==
    /\ calls[c].server = "store"
    /\ LET r == Operate(c)
       IN /\ r.rows # jobs
          /\ jobs' = r.rows
          /\ calls' = [Writes(c, Handle(calls[c].cmd.verb, Refused(why))) EXCEPT ![c].did = TRUE]

(* The handler panics before it writes; withRecovery writes for it. *)
Panics(c) ==
    /\ calls[c].server = "store"
    /\ calls' = [Writes(c, internalError) EXCEPT ![c].panicked = TRUE]
    /\ UNCHANGED jobs

(* The response leaves, and the metrics outside the recovery see its status. *)
Respond(c) ==
    /\ calls[c].server = "writing"
    /\ calls' = [calls EXCEPT ![c].server = "done", ![c].counted = calls[c].status]
    /\ UNCHANGED jobs

------------------------------------------------------------------------------
(* The CLI after its request.                                               *)

Success(verb) == IF verb \in {"submit", "retry", "replay"} THEN {200, 201} ELSE {200}

Rejected == {"malformed_json", "payload_too_large", "validation_failed", "invalid_cursor",
             "origin_refused"}
Conflict == {"idempotency_conflict", "job_not_cancelable", "job_not_dead_lettered"}

apiErrorExitCodes ==
    [e \in Rejected \cup Conflict \cup {"unauthorized", "not_found", "internal_error",
                                        "service_unavailable"} |->
        CASE e \in Rejected -> 2
          [] e = "unauthorized" -> 3
          [] e = "not_found" -> 4
          [] e \in Conflict -> 5
          [] e = "internal_error" -> 6
          [] e = "service_unavailable" -> 7]

exitCodeForAPIError(err) ==
    IF err \in DOMAIN apiErrorExitCodes THEN apiErrorExitCodes[err] ELSE 9

emit(c) ==
    /\ calls[c].cli = "waiting" /\ calls[c].server = "done"
    /\ calls' = Exits(c, IF calls[c].status \in Success(calls[c].cmd.verb) THEN 0
                         ELSE exitCodeForAPIError(calls[c].err))
    /\ UNCHANGED jobs

(* The connection breaks before the response, or while its body is read. *)
ResponseLost(c) ==
    /\ calls[c].cli = "waiting" /\ calls[c].server # "none"
    /\ calls' = Exits(c, 8)
    /\ UNCHANGED jobs

(* DefaultRequestTimeout, whatever the server is doing. *)
ClientTimesOut(c) ==
    /\ calls[c].cli = "waiting"
    /\ calls' = Exits(c, 8)
    /\ UNCHANGED jobs

(* A job moves on meanwhile. *)
JobMoves(i) ==
    /\ \/ jobs[i].status = "QUEUED" /\ jobs' = [jobs EXCEPT ![i].status = "RUNNING"]
       \/ /\ jobs[i].status = "RUNNING"
          /\ \/ \E r \in BOOLEAN : jobs' = [jobs EXCEPT ![i].status = "SUCCEEDED", ![i].result = r]
             \/ jobs' = [jobs EXCEPT ![i].status = "DEAD_LETTERED"]
       \/ jobs[i].status = "CANCEL_REQUESTED" /\ jobs' = [jobs EXCEPT ![i].status = "CANCELED"]
    /\ UNCHANGED calls

Idle == [cli |-> "idle", exit |-> Running, server |-> "none", cmd |-> [verb |-> "none"],
         key |-> NoKey, status |-> 0, err |-> "", job |-> 0, did |-> FALSE,
         panicked |-> FALSE, counted |-> 0]

Init ==
    /\ jobs = [i \in JobIds |-> IF i \in DOMAIN Existing
                                  THEN [NoJob EXCEPT !.status = Existing[i], !.req = "old"]
                                  ELSE NoJob]
    /\ calls = [c \in Calls |-> Idle]

Next ==
    \/ \E c \in Calls :
          \/ \E cmd \in Commands : Run(c, cmd)
          \/ Unreachable(c) \/ Arrive(c) \/ Decide(c)
          \/ \E why \in {"deadline", "other"} : StoreFails(c, why) \/ CommitUnknown(c, why)
          \/ Panics(c)
          \/ Respond(c) \/ emit(c) \/ ResponseLost(c) \/ ClientTimesOut(c)
    \/ \E i \in DOMAIN Existing : JobMoves(i)

Spec == Init /\ [][Next]_vars

------------------------------------------------------------------------------
(* However often and however concurrently an operation is repeated under    *)
(* its key, after whatever ambiguous answer, it creates one job.            *)
SameKeyOneJob ==
    \A i, j \in Calls :
        /\ jobs[i].status # "none" /\ jobs[j].status # "none"
        /\ jobs[i].key = jobs[j].key /\ jobs[i].from = jobs[j].from
        => i = j

(* An exit code says what happened.  After 0 the operation is durable, and  *)
(* the job that was printed is the one asked for, whoever's request created *)
(* it; after a refusal (a usage error, an invalid or unauthorised request,  *)
(* a job not found, a conflict) nothing was changed, and nothing will be:   *)
(* the answer is not a guess about an operation in flight                   *)
(* (exitCodeForAPIError, writeDeadlineAmbiguity).                           *)
ExitCodesAreTrue ==
    \A c \in Calls :
        /\ calls[c].exit \in 1..5 => ~calls[c].did
        /\ calls[c].exit = 0 =>
              LET cmd == calls[c].cmd
                  job == jobs[calls[c].job]
              IN CASE cmd.verb = "submit" -> job.status # "none" /\ job.key = calls[c].key
                                             /\ job.req = cmd.req
                   [] cmd.verb \in {"retry", "replay"} -> job.status # "none" /\ job.from = cmd.id
                                                        /\ job.key = calls[c].key
                   [] cmd.verb = "cancel" -> job.status \in {"CANCEL_REQUESTED", "CANCELED"}
                   [] OTHER -> job.status # "none"

(* A conflict says something true of the database: the key belongs to       *)
(* another request, or the job has left for good the state the operation    *)
(* needs.                                                                   *)
ConflictIsReal ==
    \A c \in Calls : calls[c].exit = 5 =>
        LET cmd == calls[c].cmd
        IN CASE cmd.verb = "submit" ->
                    \E i \in Calls : jobs[i].status # "none" /\ jobs[i].key = calls[c].key
                                     /\ jobs[i].req # cmd.req
             [] cmd.verb = "cancel" -> jobs[cmd.id].status \in {"SUCCEEDED", "DEAD_LETTERED"}
             [] OTHER -> cmd.id \in JobIds

(* A request is counted under the status its client was sent, one that      *)
(* panicked included: an error rate read off the metrics is not too low.    *)
CountedAsAnswered ==
    \A c \in Calls : calls[c].counted # 0 =>
        calls[c].counted = calls[c].status

(* Whoever asked, and whoever watches, is told the truth: by the exit code, *)
(* by a conflict, and by the request metrics (internal/cli, instrument).    *)
AnswersAreTrue == ExitCodesAreTrue /\ ConflictIsReal /\ CountedAsAnswered
==============================================================================
