--------------------------- MODULE LeaseAuthority ---------------------------
(***************************************************************************)
(* The time a TaskForge worker believes it may execute one attempt, and    *)
(* the time the control plane grants it (internal/worker: processMessage,  *)
(* startRenewal, and the client's deadline arithmetic; internal/workers:   *)
(* Store.Start and Store.RenewLease).                                      *)
(*                                                                         *)
(* The worker never compares its clock with the server's.  It measures     *)
(* from before a request was sent and adds what the server said was left   *)
(* when it served the request.  Requests may be lost, served late, even    *)
(* after the worker gave up on them, and answered late or never.           *)
(*                                                                         *)
(* All times are relative: "left" counts down to 0, "age" counts up.  Both *)
(* clocks advance at the same rate.                                        *)
(***************************************************************************)
EXTENDS Integers

CONSTANTS
    LeaseDuration,   \* of the server
    Timeout,         \* timeout_seconds of the job
    RenewInterval,   \* of the worker
    RetryAttempts,   \* of the worker
    MaxMargin,       \* upper bound of the safety margin
    MaxIds,          \* bound on renewal identities
    NULL

LeaseAssumption ==
    /\ LeaseDuration \in Nat \ {0}
    /\ Timeout \in Nat \ {0}
    /\ RenewInterval \in Nat \ {0}
    /\ RetryAttempts \in Nat \ {0}
    /\ MaxMargin \in Nat
    /\ MaxIds \in Nat
    /\ NULL \notin Int

VARIABLES
    att,          \* server: LEASED, RUNNING, or OVER
    leaseLeft,    \* server: time until expires_at
    timeoutLeft,  \* server: time until timeout_at, or NULL before Start
    version,      \* server: renewal_version
    lastId,       \* server: last_renewal_request_id
    refusing,     \* server: why it refuses: "no", "canceled" or "fenced"
    net,          \* requests sent and not yet served
    phase,        \* worker: "start", "run", or "over"
    authLeft,     \* worker: time until the authority deadline
    execLeft,     \* worker: time until the execution deadline
    startAge,     \* worker: time since before the first Start request
    tries,        \* worker: Start requests sent
    call,         \* worker: the request it waits for, or NULL
    pending,      \* worker: identity of the renewal in progress, or NULL
    nextId,       \* worker: identities drawn
    seen,         \* worker: the generation it last heard of
    untilRenew    \* worker: time until the ticker fires

server == <<att, leaseLeft, timeoutLeft, version, lastId, refusing>>
worker == <<phase, authLeft, execLeft, startAge, tries, call, pending, nextId,
            seen, untilRenew>>
vars == <<server, net, worker>>

Least(a, b) == IF a <= b THEN a ELSE b

\* executionBudget: a tenth less than the server measured, up to a bound.
executionBudget(remaining) == remaining - Least(remaining \div 10, MaxMargin)

Request == [kind : {"start", "renew"}, id : 0 .. MaxIds, expected : Nat]

Answer == [ok : BOOLEAN, remaining : Int, version : Nat, why : {"none", "lost", "unsure"}]

\* The claim was served b units ago and asked for a units ago; the deadline
\* is counted from when it was asked for (Client.Claim).
Init ==
    /\ att = "LEASED"
    /\ \E a \in 0 .. LeaseDuration : \E b \in 0 .. a :
          /\ leaseLeft = LeaseDuration - b
          /\ authLeft = IF executionBudget(LeaseDuration) > a
                        THEN executionBudget(LeaseDuration) - a ELSE 0
    /\ timeoutLeft = NULL
    /\ version = 0
    /\ lastId = 0
    /\ refusing = "no"
    /\ net = {}
    /\ phase = "start"
    /\ execLeft = 0
    /\ startAge = 0
    /\ tries = 0
    /\ call = NULL
    /\ pending = NULL
    /\ nextId = 0
    /\ seen = 0
    /\ untilRenew = RenewInterval

-----------------------------------------------------------------------------
(* The control plane                                                       *)

Granted(left, v) == [ok |-> TRUE, remaining |-> left, version |-> v, why |-> "none"]

Refused(why) == [ok |-> FALSE, remaining |-> 0, version |-> 0, why |-> why]

\* The answer reaches the worker only while it waits for this request.
Reply(req, answer) ==
    call' = IF call # NULL /\ call.req = req /\ call.answer = NULL
            THEN [call EXCEPT !.answer = answer] ELSE call

\* Another copy of the request, sent by a retry, may still be on its way.
Served(req) == net' \in {net, net \ {req}}

LeaseUsable == att # "OVER" /\ leaseLeft > 0

\* Store.Start: the first one stamps the deadline, a repetition reports what
\* is left of it.
ServeStart(req) ==
    /\ req.kind = "start"
    /\ Served(req)
    /\ IF ~LeaseUsable \/ refusing # "no" \/ timeoutLeft = 0
       THEN /\ Reply(req, Refused("lost"))
            /\ UNCHANGED server
       ELSE /\ att' = "RUNNING"
            /\ timeoutLeft' = IF att = "LEASED" THEN Timeout ELSE timeoutLeft
            /\ Reply(req, Granted(timeoutLeft', 0))
            /\ UNCHANGED <<leaseLeft, version, lastId, refusing>>
    /\ UNCHANGED <<phase, authLeft, execLeft, startAge, tries, pending, nextId,
                   seen, untilRenew>>

Replayed(req) == req.id = lastId

\* Store.RenewLease: current authority first, then repetitions, then the
\* generation.
ServeRenew(req) ==
    /\ req.kind = "renew"
    /\ Served(req)
    /\ \/ /\ ~LeaseUsable \/ refusing # "no"
          /\ Reply(req, Refused("lost"))
          /\ UNCHANGED server
       \/ /\ LeaseUsable /\ refusing = "no"
          /\ timeoutLeft = 0
          /\ Reply(req, Refused("unsure"))
          /\ UNCHANGED server
       \/ /\ LeaseUsable /\ refusing = "no" /\ timeoutLeft # 0
          /\ Replayed(req) \/ version # req.expected
          /\ Reply(req, IF Replayed(req) /\ version = req.expected + 1
                        THEN Granted(leaseLeft, version) ELSE Refused("lost"))
          /\ UNCHANGED server
       \/ /\ LeaseUsable /\ refusing = "no" /\ timeoutLeft # 0
          /\ ~Replayed(req) /\ version = req.expected
          /\ leaseLeft' = LeaseDuration
          /\ version' = version + 1
          /\ lastId' = req.id
          /\ Reply(req, Granted(LeaseDuration, version'))
          /\ UNCHANGED <<att, timeoutLeft, refusing>>
    /\ UNCHANGED <<phase, authLeft, execLeft, startAge, tries, pending, nextId,
                   seen, untilRenew>>

\* A request is lost on its way.
Lose(req) ==
    /\ net' = net \ {req}
    /\ UNCHANGED <<server, worker>>

\* A cancellation is requested or the session is fenced.
Refuse ==
    /\ refusing = "no"
    /\ refusing' \in {"canceled", "fenced"}
    /\ UNCHANGED <<att, leaseLeft, timeoutLeft, version, lastId, net, worker>>

\* The reconciler ends an attempt whose lease or whose deadline has passed.
Reconcile ==
    /\ att # "OVER"
    /\ leaseLeft = 0 \/ timeoutLeft = 0
    /\ att' = "OVER"
    /\ UNCHANGED <<leaseLeft, timeoutLeft, version, lastId, refusing, net, worker>>

-----------------------------------------------------------------------------
(* The worker                                                              *)

Send(req) ==
    /\ net' = net \cup {req}
    /\ call' = [req |-> req, age |-> 0, answer |-> NULL]

Over ==
    /\ phase' = "over"
    /\ call' = NULL
    /\ UNCHANGED <<authLeft, execLeft, startAge, tries, pending, nextId, seen,
                   untilRenew>>

\* The retry loop around Client.Start; its window is counted from before the
\* first request.
SendStart ==
    /\ phase = "start"
    /\ call = NULL
    /\ tries < RetryAttempts
    /\ Send([kind |-> "start", id |-> 0, expected |-> 0])
    /\ tries' = tries + 1
    /\ UNCHANGED <<server, phase, authLeft, execLeft, startAge, pending, nextId,
                   seen, untilRenew>>

\* Start succeeded.  Without a window the handler is not invoked; with one,
\* the renewal loop and the handler begin.
Started ==
    /\ phase = "start"
    /\ call # NULL /\ call.answer # NULL /\ call.answer.ok
    /\ LET left == executionBudget(call.answer.remaining) - startAge
       IN  IF authLeft = 0 \/ left <= 0 THEN Over
           ELSE /\ phase' = "run"
                /\ execLeft' = left
                /\ call' = NULL
                /\ untilRenew' = RenewInterval
                /\ UNCHANGED <<authLeft, startAge, tries, pending, nextId, seen>>
    /\ UNCHANGED <<server, net>>

\* Start was refused, or the tries are used up.
StartRefused ==
    /\ phase = "start"
    /\ \/ call # NULL /\ call.answer # NULL /\ ~call.answer.ok
       \/ call = NULL /\ tries = RetryAttempts
    /\ Over
    /\ UNCHANGED <<server, net>>

\* The ticker fires.  A renewal that is still unresolved keeps its identity
\* and its expected generation.
Renew ==
    /\ phase = "run"
    /\ call = NULL
    /\ untilRenew = 0
    /\ authLeft > 0
    /\ pending # NULL \/ nextId < MaxIds
    /\ nextId' = IF pending = NULL THEN nextId + 1 ELSE nextId
    /\ pending' = IF pending = NULL THEN nextId' ELSE pending
    /\ Send([kind |-> "renew", id |-> pending', expected |-> seen])
    /\ untilRenew' = RenewInterval
    /\ UNCHANGED <<server, phase, authLeft, execLeft, startAge, tries, seen>>

\* Seeded fault: the lease window is counted from the answer.
RenewedFromAnswer ==
    /\ phase = "run"
    /\ call # NULL /\ call.answer # NULL /\ call.answer.ok
    /\ authLeft' = executionBudget(call.answer.remaining)
    /\ seen' = call.answer.version
    /\ pending' = NULL
    /\ call' = NULL
    /\ UNCHANGED <<phase, execLeft, startAge, tries, nextId, untilRenew>>
    /\ UNCHANGED <<server, net>>

\* A renewal is confirmed; too late, it cannot restore what lapsed locally.
Renewed ==
    /\ phase = "run"
    /\ call # NULL /\ call.answer # NULL /\ call.answer.ok
    /\ LET left == executionBudget(call.answer.remaining) - call.age
       IN  IF authLeft = 0 \/ left <= 0 THEN Over
           ELSE /\ authLeft' = left
                /\ seen' = call.answer.version
                /\ pending' = NULL
                /\ call' = NULL
                /\ UNCHANGED <<phase, execLeft, startAge, tries, nextId, untilRenew>>
    /\ UNCHANGED <<server, net>>

\* A definitive refusal, or an unsure one at the deadline, ends execution.
RenewRefused ==
    /\ phase = "run"
    /\ call # NULL /\ call.answer # NULL /\ ~call.answer.ok
    /\ IF call.answer.why = "lost" \/ authLeft = 0 THEN Over
       ELSE /\ call' = NULL
            /\ UNCHANGED <<phase, authLeft, execLeft, startAge, tries, pending,
                           nextId, seen, untilRenew>>
    /\ UNCHANGED <<server, net>>

\* The worker stops waiting: transport error, timeout of the request, or the
\* deadline that bounds it.
CallFails ==
    /\ call # NULL
    /\ IF phase = "run" /\ authLeft = 0 THEN Over
       ELSE /\ call' = NULL
            /\ UNCHANGED <<phase, authLeft, execLeft, startAge, tries, pending,
                           nextId, seen, untilRenew>>
    /\ UNCHANGED <<server, net>>

\* The authority timer, the execution deadline, or the handler's own end.
ExecutionEnds ==
    /\ phase = "run"
    /\ Over
    /\ UNCHANGED <<server, net>>

Down(n) == IF n > 0 THEN n - 1 ELSE 0

Up(n, max) == IF n < max THEN n + 1 ELSE n

Tick ==
    /\ phase # "over"
    /\ leaseLeft' = Down(leaseLeft)
    /\ timeoutLeft' = IF timeoutLeft = NULL THEN NULL ELSE Down(timeoutLeft)
    /\ authLeft' = Down(authLeft)
    /\ execLeft' = Down(execLeft)
    /\ startAge' = Up(startAge, Timeout)
    /\ call' = IF call = NULL THEN NULL
               ELSE [call EXCEPT !.age = Up(@, LeaseDuration)]
    /\ untilRenew' = Down(untilRenew)
    /\ UNCHANGED <<att, version, lastId, refusing, net, phase, tries, pending,
                   nextId, seen>>

Next ==
    \/ \E req \in net : ServeStart(req) \/ ServeRenew(req) \/ Lose(req)
    \/ Refuse
    \/ Reconcile
    \/ SendStart
    \/ Started
    \/ StartRefused
    \/ Renew
    \/ Renewed
    \/ RenewRefused
    \/ CallFails
    \/ ExecutionEnds
    \/ Tick

Spec == Init /\ [][Next]_vars

-----------------------------------------------------------------------------
(* Properties                                                              *)

\* What the worker believes it may do never outlasts what the server granted,
\* however slow, lost or repeated the round trips were: its authority ends
\* with the lease, and its handler's window with the attempt's deadline.
\* Both are counted from before the request, and no renewal extends the
\* second (Client.Claim, startRenewal, processMessage).
ExecutionWithinGrant ==
    phase # "over" => /\ authLeft <= leaseLeft
                      /\ phase = "run" => execLeft <= timeoutLeft

\* A renewal extends the lease once.  The server is at most one generation
\* ahead of the worker, and then by the very renewal the worker is still
\* asking for, so its repetition is recognised (pendingRenewal).
GenerationsInStep ==
    phase # "over" =>
        \/ version = seen
        \/ version = seen + 1 /\ pending # NULL /\ lastId = pending

\* An attempt that was never started is never renewed, so that its lease
\* runs out: the store would let it be renewed for ever (RenewLease), but
\* the runtime begins to renew after Start.
UnstartedNeverRenewed == att = "LEASED" => version = 0

\* Worker and server agree on the lease through every loss and repetition:
\* the worker takes no more than was granted, their generations stay in
\* step, and an attempt that was not started is not renewed (Client.Claim,
\* startRenewal, RenewLease).
LeaseIsAgreed == ExecutionWithinGrant /\ GenerationsInStep /\ UnstartedNeverRenewed
=============================================================================
