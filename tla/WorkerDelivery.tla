--------------------------- MODULE WorkerDelivery ---------------------------
(***************************************************************************)
(* One worker process of TaskForge (internal/worker, Runner.Run): its slot *)
(* goroutines, the flights that join duplicate deliveries of one event,    *)
(* the heartbeat goroutine, the two contexts and the shutdown.             *)
(*                                                                         *)
(* An execution (Start, handler, outcome) is one phase here; WorkerAttempt *)
(* models what happens inside it.  The broker delivers every message that  *)
(* is not acknowledged, any number of times and to several slots.  The     *)
(* control plane keeps one decision per event (Store.Claim): it hands the  *)
(* same assignment again to the same session and tells everyone else that  *)
(* the notification is a duplicate.                                        *)
(*                                                                         *)
(* The process ends when Run has returned; goroutines still running end    *)
(* with it.                                                                *)
(***************************************************************************)
EXTENDS Naturals, FiniteSets

CONSTANTS
    Slots,          \* goroutines, as many as the session's concurrency limit
    Events,
    Messages,       \* broker messages; several may carry one event
    EventOf,        \* message -> event, or NULL if malformed or misrouted
    RetryAttempts,  \* RunnerConfig
    NULL

DeliveryAssumption ==
    /\ EventOf \in [Messages -> Events \cup {NULL}]
    /\ NULL \notin Events
    /\ RetryAttempts \in Nat \ {0}

VARIABLES
    acked,           \* messages deleted from the broker
    decision,        \* event -> the control plane's decision
    answered,        \* history: events with a durable answer safe to ack
    fenced,          \* the control plane no longer accepts this session
    sigterm,         \* the context given to Run is cancelled
    intakeStopped,   \* stopIntake was called
    completionDone,  \* stopCompletion was called
    fatal,           \* the channel of capacity 1
    ready,           \* Runner.ready
    main, runErr,    \* where Run is, and what it returns
    hb,              \* where the heartbeat goroutine is
    flights,         \* event -> [settled, safeAck, err]
    pc, msg, tries, claimed, verdict, ret  \* per slot

slotVars == <<pc, msg, tries, claimed, verdict, ret>>
runVars == <<intakeStopped, completionDone, fatal, ready, main, runErr, hb>>
envVars == <<fenced, sigterm>>
vars == <<acked, decision, answered, envVars, runVars, flights, slotVars>>

intakeDone == sigterm \/ intakeStopped

Init ==
    /\ acked = {}
    /\ decision = [e \in Events |-> "open"]
    /\ answered = {}
    /\ fenced = FALSE
    /\ sigterm = FALSE
    /\ intakeStopped = FALSE
    /\ completionDone = FALSE
    /\ fatal = NULL
    /\ ready = FALSE
    /\ main = "register"
    /\ runErr = "nil"
    /\ hb = "off"
    /\ flights = [e \in {} |-> NULL]
    /\ pc = [s \in Slots |-> "off"]
    /\ msg = [s \in Slots |-> NULL]
    /\ tries = [s \in Slots |-> 1]
    /\ claimed = [s \in Slots |-> FALSE]
    /\ verdict = [s \in Slots |-> NULL]
    /\ ret = [s \in Slots |-> "nil"]

-----------------------------------------------------------------------------
(* Flights                                                                 *)

NewFlight == [settled |-> FALSE, safeAck |-> FALSE, err |-> "nil"]

Waiting(e) == {s \in Slots : pc[s] = "follow" /\ EventOf[msg[s]] = e}

\* Seeded fault: only an acknowledgement is published to the followers.
SettleSafeOnly(e, safeAck, err) ==
    LET f == [settled |-> TRUE, safeAck |-> safeAck, err |-> err]
    IN  /\ flights' = [flights EXCEPT ![e] = f]
        /\ verdict' = [s \in Slots |-> IF s \in Waiting(e) /\ safeAck
                                       THEN f ELSE verdict[s]]

\* settleLocked: the first decision is published to every follower; the
\* value a follower reads through the closed channel is its verdict.
Settle(e, safeAck, err) ==
    LET f == [settled |-> TRUE, safeAck |-> safeAck, err |-> err]
    IN  IF flights[e].settled THEN UNCHANGED <<flights, verdict>>
        ELSE /\ flights' = [flights EXCEPT ![e] = f]
             /\ verdict' = [s \in Slots |-> IF s \in Waiting(e) THEN f
                                            ELSE verdict[s]]

-----------------------------------------------------------------------------
(* runSlot and processMessage                                              *)

Goto(s, l) == pc' = [pc EXCEPT ![s] = l]

\* The loop condition of runSlot.
CheckIntake(s) ==
    /\ pc[s] = "poll"
    /\ Goto(s, IF intakeDone THEN "done" ELSE "receive")
    /\ UNCHANGED <<acked, decision, answered, envVars, runVars, flights,
                   msg, tries, claimed, verdict, ret>>

\* Receive returns nothing, or an error; once intake has ended it may return
\* no more, and the loop ends.
ReceiveNothing(s) ==
    /\ pc[s] = "receive"
    /\ Goto(s, IF intakeDone THEN "done" ELSE "poll")
    /\ UNCHANGED <<acked, decision, answered, envVars, runVars, flights,
                   msg, tries, claimed, verdict, ret>>

\* Receive returns a message, perhaps just as intake ends.
Receive(s) ==
    /\ pc[s] = "receive"
    /\ \E m \in Messages \ acked : msg' = [msg EXCEPT ![s] = m]
    /\ Goto(s, "begin")
    /\ UNCHANGED <<acked, decision, answered, envVars, runVars, flights,
                   tries, claimed, verdict, ret>>

\* A notification this worker cannot decode, or of another queue, is left to
\* the broker.
Reject(s) ==
    /\ pc[s] = "begin"
    /\ EventOf[msg[s]] = NULL
    /\ Goto(s, "poll")
    /\ msg' = [msg EXCEPT ![s] = NULL]
    /\ UNCHANGED <<acked, decision, answered, envVars, runVars, flights,
                   tries, claimed, verdict, ret>>

\* beginDelivery: the first delivery leads, the others follow.
BeginDelivery(s) ==
    LET e == EventOf[msg[s]]
    IN  /\ pc[s] = "begin"
        /\ e # NULL
        /\ IF e \in DOMAIN flights
           THEN /\ Goto(s, "follow")
                /\ verdict' = [verdict EXCEPT ![s] =
                                 IF flights[e].settled THEN flights[e] ELSE NULL]
                /\ UNCHANGED flights
           ELSE /\ Goto(s, "claim")
                /\ flights' = [f \in DOMAIN flights \cup {e} |->
                                 IF f = e THEN NewFlight ELSE flights[f]]
                /\ UNCHANGED verdict
        /\ UNCHANGED <<acked, decision, answered, envVars, runVars, msg,
                       tries, claimed, ret>>

Acknowledged(m, safeAck) ==
    \/ safeAck /\ acked' = acked \cup {m}
    \/ UNCHANGED acked    \* nothing to acknowledge, or Delete failed

\* Seeded fault: a follower acknowledges whatever the leader decided.
FollowAndAck(s) ==
    /\ pc[s] = "follow"
    /\ verdict[s] # NULL
    /\ Acknowledged(msg[s], TRUE)
    /\ Goto(s, IF verdict[s].err = "lost" THEN "fail" ELSE "poll")
    /\ msg' = [msg EXCEPT ![s] = NULL]
    /\ verdict' = [verdict EXCEPT ![s] = NULL]
    /\ UNCHANGED <<decision, answered, envVars, runVars, flights, tries,
                   claimed, ret>>

\* A follower reads the leader's decision and shares its fate.
Follow(s) ==
    /\ pc[s] = "follow"
    /\ verdict[s] # NULL
    /\ Acknowledged(msg[s], verdict[s].safeAck)
    /\ Goto(s, IF verdict[s].err = "lost" THEN "fail" ELSE "poll")
    /\ msg' = [msg EXCEPT ![s] = NULL]
    /\ verdict' = [verdict EXCEPT ![s] = NULL]
    /\ UNCHANGED <<decision, answered, envVars, runVars, flights, tries,
                   claimed, ret>>

\* Completion was cancelled while the follower waited.
FollowAbandoned(s) ==
    /\ pc[s] = "follow"
    /\ completionDone
    /\ Goto(s, "poll")
    /\ msg' = [msg EXCEPT ![s] = NULL]
    /\ verdict' = [verdict EXCEPT ![s] = NULL]
    /\ UNCHANGED <<acked, decision, answered, envVars, runVars, flights, tries,
                   claimed, ret>>

\* The control plane answers CLAIMED, QUEUE_EMPTY or DUPLICATE_NOTIFICATION.
ClaimSafe(s) ==
    LET e == EventOf[msg[s]]
    IN  /\ pc[s] = "claim"
        /\ ~fenced
        /\ \/ /\ decision[e] \in {"open", "ours"}
              /\ decision' = [decision EXCEPT ![e] = "ours"]
              /\ claimed' = [claimed EXCEPT ![s] = TRUE]
           \/ /\ decision[e] \in {"open", "theirs"}
              /\ claimed' = [claimed EXCEPT ![s] = FALSE]
              /\ UNCHANGED decision
        /\ answered' = answered \cup {e}
        /\ Settle(e, TRUE, "nil")
        /\ Goto(s, "ack")
        /\ UNCHANGED <<acked, envVars, runVars, msg, tries, ret>>

\* NO_ELIGIBLE_JOB or CAPACITY_EXHAUSTED: the notification must come back.
ClaimUnsafe(s) ==
    LET e == EventOf[msg[s]]
    IN  /\ pc[s] = "claim"
        /\ ~fenced
        /\ decision[e] = "open"
        /\ Settle(e, FALSE, "nil")
        /\ Goto(s, "end")
        /\ UNCHANGED <<acked, decision, answered, envVars, runVars, msg,
                       tries, claimed, ret>>

\* The control plane refuses the session.
ClaimSessionLost(s) ==
    /\ pc[s] = "claim"
    /\ fenced
    /\ Settle(EventOf[msg[s]], FALSE, "lost")
    /\ ret' = [ret EXCEPT ![s] = "lost"]
    /\ Goto(s, "end")
    /\ UNCHANGED <<acked, decision, answered, envVars, runVars, msg, tries,
                   claimed>>

\* The request or its answer is lost, or the context ends.  The claim may
\* have committed.  It is sent again under the same identity, and left
\* undecided when the retries are used up.
ClaimUnresolved(s) ==
    LET e == EventOf[msg[s]]
    IN  /\ pc[s] = "claim"
        /\ decision' \in {decision} \cup
              (IF fenced \/ decision[e] # "open" THEN {}
               ELSE {[decision EXCEPT ![e] = "ours"]})
        /\ IF tries[s] < RetryAttempts /\ ~completionDone
           THEN /\ tries' = [tries EXCEPT ![s] = @ + 1]
                /\ UNCHANGED <<flights, verdict, pc>>
           ELSE /\ Settle(e, FALSE, "nil")
                /\ Goto(s, "end")
                /\ UNCHANGED tries
        /\ UNCHANGED <<acked, answered, envVars, runVars, msg, claimed, ret>>

\* The leader deletes its own receipt, and executes what it claimed.
LeaderAck(s) ==
    /\ pc[s] = "ack"
    /\ Acknowledged(msg[s], TRUE)
    /\ Goto(s, IF claimed[s] THEN "execute" ELSE "end")
    /\ UNCHANGED <<decision, answered, envVars, runVars, flights, msg, tries,
                   claimed, verdict, ret>>

\* The execution ends; it may have found out that the session is lost.
Execute(s) ==
    /\ pc[s] = "execute"
    /\ ret' \in {[ret EXCEPT ![s] = r] :
                    r \in IF fenced THEN {"nil", "lost"} ELSE {"nil"}}
    /\ Goto(s, "end")
    /\ UNCHANGED <<acked, decision, answered, envVars, runVars, flights, msg,
                   tries, claimed, verdict>>

\* endDelivery: followers without a decision learn there is none, and the
\* ownership of the event ends with the leader's whole path.
EndDelivery(s) ==
    LET e == EventOf[msg[s]]
    IN  /\ pc[s] = "end"
        /\ verdict' = [t \in Slots |->
                         IF t \in Waiting(e) /\ ~flights[e].settled
                         THEN [NewFlight EXCEPT !.settled = TRUE] ELSE verdict[t]]
        /\ flights' = [f \in DOMAIN flights \ {e} |-> flights[f]]
        /\ Goto(s, IF ret[s] = "lost" THEN "fail" ELSE "poll")
        /\ msg' = [msg EXCEPT ![s] = NULL]
        /\ claimed' = [claimed EXCEPT ![s] = FALSE]
        /\ tries' = [tries EXCEPT ![s] = 1]
        /\ UNCHANGED <<acked, decision, answered, envVars, runVars, ret>>

Sent == IF fatal = NULL THEN "lost" ELSE fatal

\* The slot goroutine reports why it ends; the channel holds one report.
SlotFails(s) ==
    /\ pc[s] = "fail"
    /\ fatal' = Sent
    /\ Goto(s, "done")
    /\ UNCHANGED <<acked, decision, answered, envVars, intakeStopped,
                   completionDone, ready, main, runErr, hb, flights, msg,
                   tries, claimed, verdict, ret>>

-----------------------------------------------------------------------------
(* The heartbeat goroutine and Run                                         *)

others == <<acked, decision, answered, envVars, flights>>

\* Registration succeeded: readiness, the slots and the heartbeat begin.
Registered ==
    /\ main = "register"
    /\ main' = "select"
    /\ ready' = TRUE
    /\ hb' = "loop"
    /\ pc' = [s \in Slots |-> "poll"]
    /\ UNCHANGED <<others, intakeStopped, completionDone, fatal, runErr, msg,
                   tries, claimed, verdict, ret>>

RegisterFails ==
    /\ main = "register"
    /\ main' = "returned"
    /\ runErr' = "register"
    /\ UNCHANGED <<others, intakeStopped, completionDone, fatal, ready, hb,
                   slotVars>>

\* runHeartbeat returns an error: the session is fenced, or its liveness was
\* not confirmed in time.
HeartbeatLost ==
    /\ hb = "loop"
    /\ ~completionDone
    /\ hb' = "lost"
    /\ ready' = FALSE
    /\ UNCHANGED <<others, intakeStopped, completionDone, fatal, main, runErr,
                   slotVars>>

HeartbeatStopsIntake ==
    /\ hb = "lost"
    /\ hb' = "send"
    /\ intakeStopped' = TRUE
    /\ UNCHANGED <<others, completionDone, fatal, ready, main, runErr, slotVars>>

HeartbeatReports ==
    /\ hb = "send"
    /\ hb' = "failed"
    /\ fatal' = Sent
    /\ UNCHANGED <<others, intakeStopped, completionDone, ready, main, runErr,
                   slotVars>>

HeartbeatExits ==
    /\ hb = "loop"
    /\ completionDone
    /\ hb' = "exited"
    /\ UNCHANGED <<others, intakeStopped, completionDone, fatal, ready, main,
                   runErr, slotVars>>

SlotsDone == \A s \in Slots : pc[s] = "done"

\* Run returns: readiness and both contexts end in its deferred calls.
Returning(err) ==
    /\ main' = "return"
    /\ runErr' = err
    /\ ready' = FALSE
    /\ intakeStopped' = TRUE
    /\ completionDone' = TRUE

\* A shutdown was requested: stop intake, let the slots drain.
RunStops ==
    /\ main = "select"
    /\ sigterm
    /\ main' = "drain"
    /\ ready' = FALSE
    /\ intakeStopped' = TRUE
    /\ UNCHANGED <<others, completionDone, fatal, runErr, hb, slotVars>>

\* A goroutine reported the loss of the session: handlers are cancelled too.
RunFatal ==
    /\ main = "select"
    /\ fatal # NULL
    /\ runErr' = fatal
    /\ fatal' = NULL
    /\ main' = "drain"
    /\ ready' = FALSE
    /\ intakeStopped' = TRUE
    /\ completionDone' = TRUE
    /\ UNCHANGED <<others, hb, slotVars>>

\* Every slot ended while Run was waiting for a reason to end.
RunSlotsDone ==
    /\ main = "select"
    /\ SlotsDone
    /\ Returning(IF fatal = NULL THEN "nil" ELSE fatal)
    /\ fatal' = NULL
    /\ UNCHANGED <<others, hb, slotVars>>

Drained ==
    /\ main = "drain"
    /\ SlotsDone
    /\ Returning(IF runErr = "nil" /\ fatal # NULL THEN fatal ELSE runErr)
    /\ UNCHANGED <<others, fatal, hb, slotVars>>

DrainTimeout ==
    /\ main = "drain"
    /\ Returning("timeout")
    /\ UNCHANGED <<others, fatal, hb, slotVars>>

\* The last deferred call waits for the heartbeat goroutine.
Returned ==
    /\ main = "return"
    /\ hb \in {"exited", "failed"}
    /\ main' = "returned"
    /\ UNCHANGED <<others, intakeStopped, completionDone, fatal, ready, runErr,
                   hb, slotVars>>

-----------------------------------------------------------------------------
(* The environment                                                         *)

Sigterm ==
    /\ ~sigterm
    /\ sigterm' = TRUE
    /\ UNCHANGED <<acked, decision, answered, fenced, runVars, flights, slotVars>>

FenceSession ==
    /\ ~fenced
    /\ main # "register"
    /\ fenced' = TRUE
    /\ UNCHANGED <<acked, decision, answered, sigterm, runVars, flights, slotVars>>

\* Another worker's claim consumes the event.
TakenElsewhere(e) ==
    /\ decision[e] = "open"
    /\ decision' = [decision EXCEPT ![e] = "theirs"]
    /\ UNCHANGED <<acked, answered, envVars, runVars, flights, slotVars>>

SlotStep(s) ==
    /\ main # "returned"
    /\ \/ CheckIntake(s)
       \/ ReceiveNothing(s)
       \/ Receive(s)
       \/ Reject(s)
       \/ BeginDelivery(s)
       \/ Follow(s)
       \/ FollowAbandoned(s)
       \/ ClaimSafe(s)
       \/ ClaimUnsafe(s)
       \/ ClaimSessionLost(s)
       \/ ClaimUnresolved(s)
       \/ LeaderAck(s)
       \/ EndDelivery(s)
       \/ SlotFails(s)

RunStep ==
    \/ Registered
    \/ RegisterFails
    \/ RunStops
    \/ RunFatal
    \/ RunSlotsDone
    \/ Drained
    \/ DrainTimeout
    \/ Returned

HeartbeatStep ==
    /\ main # "returned"
    /\ \/ HeartbeatStopsIntake
       \/ HeartbeatReports
       \/ HeartbeatExits

Next ==
    \/ RunStep
    \/ HeartbeatStep
    \/ \E s \in Slots : SlotStep(s)
    \/ /\ main # "returned"
       /\ \/ \E s \in Slots : Execute(s)
          \/ HeartbeatLost
          \/ Sigterm
          \/ FenceSession
          \/ \E e \in Events : TakenElsewhere(e)

Spec == Init /\ [][Next]_vars

-----------------------------------------------------------------------------
(* Properties                                                              *)

\* A receipt is deleted only when the control plane has given a durable
\* answer that leaves no work stranded, and never for a message that could
\* not be decoded: neither a follower nor a retry acknowledges on less
\* (processMessage, SafeToAcknowledge).
AckOnlyAfterDecision == \A m \in acked : EventOf[m] \in answered

\* Duplicate deliveries of one event never execute side by side, although
\* the control plane hands this session its assignment again: the flight is
\* owned until the leader's whole path has ended (deliveryFlight).
OneExecutionPerEvent ==
    \A s, t \in Slots :
        pc[s] = "execute" /\ pc[t] = "execute" /\ EventOf[msg[s]] = EventOf[msg[t]]
            => s = t

\* Run returns nil only if a shutdown was requested; a lost session is an
\* error ("require.ErrorIs(t, err, ErrSessionLost)").
SessionLossIsAnError == main = "returned" /\ runErr = "nil" => sigterm

\* Deliveries are safe to repeat, to lose and to interrupt: a receipt is
\* deleted only on a durable answer, and duplicates do not run side by side
\* (processMessage, deliveryFlight).
DeliveriesAreSafe == AckOnlyAfterDecision /\ OneExecutionPerEvent

\* What must end: a wait for the leader of one's flight, and a run.
Following(s) == pc[s] = "follow" /\ main # "returned"
Stopping == sigterm \/ hb = "lost"
HasReturned == main = "returned"
=============================================================================
