------------------------------ MODULE MCProgress -----------------------------
(* What the components must do in the end, each by itself: a behaviour is   *)
(* one of a component, which the first state chooses.                       *)
EXTENDS Integers

CONSTANTS e1, m1, NULL

VARIABLES
    part,   \* the component of this behaviour; the others hold its variables
    x1, x2, x3, x4, x5, x6, x7, x8, x9, x10, x11, x12, x13, x14, x15, x16,
    x17, x18, x19, x20, x21, x22, x23, x24, x25, x26, x27

vars == <<part,
          x1, x2, x3, x4, x5, x6, x7, x8, x9, x10, x11, x12, x13, x14, x15,
          x16, x17, x18, x19, x20, x21, x22, x23, x24, x25, x26, x27>>

(* The variables that a component of k variables does not need. *)
Idle19 == x20 = 0 /\ x21 = 0 /\ x22 = 0 /\ x23 = 0 /\ x24 = 0 /\ x25 = 0 /\
    x26 = 0 /\ x27 = 0
Idle16 == x17 = 0 /\ x18 = 0 /\ x19 = 0 /\ Idle19
Idle13 == x14 = 0 /\ x15 = 0 /\ x16 = 0 /\ Idle16
Idle11 == x12 = 0 /\ x13 = 0 /\ Idle13
Idle9 == x10 = 0 /\ x11 = 0 /\ Idle11
Still9 == UNCHANGED <<part, x10, x11, x12, x13, x14, x15, x16, x17, x18, x19,
    x20, x21, x22, x23, x24, x25, x26, x27>>
Still11 == UNCHANGED <<part, x12, x13, x14, x15, x16, x17, x18, x19, x20, x21,
    x22, x23, x24, x25, x26, x27>>
Still13 == UNCHANGED <<part, x14, x15, x16, x17, x18, x19, x20, x21, x22, x23,
    x24, x25, x26, x27>>
Still16 == UNCHANGED <<part, x17, x18, x19, x20, x21, x22, x23, x24, x25, x26,
    x27>>
Still19 == UNCHANGED <<part, x20, x21, x22, x23, x24, x25, x26, x27>>
Still27 == UNCHANGED <<part>>

(* The broker hands its one message to both slots. *)
Carries == [m \in {m1} |-> e1]

File(n, s) == [v |-> n, sum |-> s]

Shipped == {<<File(1, "a"), File(2, "a")>>, <<File(1, "a"), File(2, "b")>>}

------------------------------------------------------------------------------
Publish == INSTANCE Outbox WITH
    Publishers <- 1..2, Events <- {e1}, BatchSize <- 1, ClaimTimeout <- 2,
    Base <- 1, Multiplier <- 2, MaxDelay <- 2, Jitter <- 50, Saturation <- 2,
    Overdue <- 0, MaxFaults <- 1, outbox <- x1, delivered <- x2, pc <- x3,
    batch <- x4, cur <- x5, full <- x6, failed <- x7, stopping <- x8,
    age <- x9, overran <- x10, faults <- x11
PublishInit == part = "outbox" /\ Publish!Init /\ Idle11
PublishNext == part = "outbox" /\ Publish!Next /\ Still11

Delivery == INSTANCE WorkerDelivery WITH
    Slots <- 1..2, Events <- {e1}, Messages <- {m1}, EventOf <- Carries,
    RetryAttempts <- 1, acked <- x1, decision <- x2, answered <- x3,
    fenced <- x4, sigterm <- x5, intakeStopped <- x6, completionDone <- x7,
    fatal <- x8, ready <- x9, main <- x10, runErr <- x11, hb <- x12,
    flights <- x13, pc <- x14, msg <- x15, tries <- x16, claimed <- x17,
    verdict <- x18, ret <- x19
DeliveryInit == part = "delivery" /\ Delivery!Init /\ Idle19
DeliveryNext == part = "delivery" /\ Delivery!Next /\ Still19

Attempt == INSTANCE WorkerAttempt WITH
    RetryAttempts <- 1, Interruptions <- {"fence", "authority"}, job <- x1,
    recorded <- x2, usable <- x3, fenced <- x4, net <- x5, pc <- x6,
    tries <- x7, waiting <- x8, answer <- x9, registered <- x10,
    canceled <- x11, bound <- x12, execCause <- x13, workCause <- x14,
    renewal <- x15, shutdown <- x16, hb <- x17, target <- x18,
    handlerErr <- x19, cause <- x20, seenCancel <- x21, large <- x22,
    stored <- x23, ready <- x24, report <- x25, heard <- x26, told <- x27
AttemptInit == part = "attempt" /\ Attempt!Init
AttemptNext == part = "attempt" /\ Attempt!Next /\ Still27

Call == INSTANCE ControlCall WITH
    RetryAttempts <- 1, StaleTicks <- 1, Operations <- {"claim"},
    revoked <- x1, session <- x2, keyed <- x3, job <- x4, outcome <- x5,
    lapsed <- x6, timedOut <- x7, process <- x8, misses <- x9, call <- x10,
    phase <- x11, verdict <- x12, lateCommit <- x13
CallInit == part = "call" /\ Call!Init /\ Idle13
CallNext == part = "call" /\ Call!Next /\ Still13

Process == INSTANCE ServiceProcess WITH
    svc <- x1, exporter <- x2, plan <- x3, pc <- x4, step <- x5,
    cleanup <- x6, signaled <- x7, ctx <- x8, sock <- x9, failed <- x10,
    busy <- x11, conns <- x12, pass <- x13, runErr <- x14, stopErr <- x15,
    exit <- x16
ProcessInit == part = "process" /\ Process!Init /\ Idle16
ProcessNext == part = "process" /\ Process!Next /\ Still16

Scan == INSTANCE ScanPass WITH
    Replicas <- {1}, RowCount <- 2, BatchSize <- 1, engine <- x1, ripe <- x2,
    repaired <- x3, times <- x4, scan <- x5, cands <- x6, stats <- x7,
    counted <- x8, failures <- x9
ScanInit == part = "scan" /\ Scan!Init /\ Idle9
ScanNext == part = "scan" /\ Scan!Next /\ Still9

Migration == INSTANCE Migrate WITH
    Migrators <- 1..2, Releases <- Shipped, release <- x1, pc <- x2,
    pending <- x3, seen <- x4, tx <- x5, lock <- x6, table <- x7,
    applied <- x8, history <- x9
MigrationInit == part = "migrate" /\ Migration!Init /\ Idle9
MigrationNext == part = "migrate" /\ Migration!Next /\ Still9

(* The constants are what the components take them to be. *)
ASSUME ProgressAssumption == Publish!OutboxAssumption /\
    Publish!SaturationAssumption /\ Delivery!DeliveryAssumption /\
    Attempt!AttemptAssumption /\ Call!CallAssumption /\ Scan!SizesAssumption

------------------------------------------------------------------------------
Init == PublishInit \/ DeliveryInit \/ AttemptInit \/ CallInit \/ ProcessInit
    \/ ScanInit \/ MigrationInit

(* The components that may come to an end. *)
Stop == part \in {"delivery", "attempt", "call", "process", "migrate"} /\
        UNCHANGED vars

Next == PublishNext \/ DeliveryNext \/ AttemptNext \/ CallNext \/ ProcessNext
    \/ ScanNext \/ MigrationNext \/ Stop

(* Goroutines run, timers fire, requests end and their answers are read; a  *)
(* handler need not end.  Go's select picks among its ready cases at        *)
(* random, so a cancelled context is seen in the end, and a repair or a     *)
(* scan that is tried for ever succeeds.  The components never meet in a    *)
(* behaviour, so that one formula may state a condition of each.            *)
Fairness ==
    /\ \A i \in 1..2 :
          /\ WF_vars(\/ part = "outbox" /\ Publish!Progress(i) /\ Still11
                     \/ part = "delivery" /\ Delivery!SlotStep(i) /\ Still19
                     \/ part = "migrate" /\ Migration!Step(i) /\ Still9)
          /\ SF_vars(\/ part = "outbox" /\ Publish!Stopped(i) /\ Still11
                     \/ part = "scan" /\ Scan!EndScanNumber(1, i) /\ Still9)
    /\ WF_vars(\/ part = "outbox" /\ Publish!Tick /\ Still11
               \/ part = "delivery" /\ Delivery!RunStep /\ Still19
               \/ part = "attempt" /\ Attempt!SlotStep /\ Still27
               \/ part = "call" /\ Call!Beat /\ Still13
               \/ part = "process" /\ Process!Own /\ Still16
               \/ part = "scan" /\ Scan!Pass(1) /\ Still9)
    /\ WF_vars(\/ part = "delivery" /\ Delivery!HeartbeatStep /\ Still19
               \/ part = "attempt" /\ Attempt!Beat /\ Still27
               \/ part = "call" /\ Call!BeatAnswered /\ Still13
               \/ part = "process" /\ Process!CanceledRunnerReturns /\ Still16)
    /\ WF_vars(\/ part = "attempt" /\ Attempt!Deliver /\ Still27
               \/ part = "call" /\ Call!HandlerStep("heartbeat") /\ Still13
               \/ part = "process" /\ Process!RequestEnds /\ Still16)
    /\ WF_vars(part = "attempt" /\ Attempt!Apply /\ Still27)
    /\ SF_vars(\/ part = "process" /\ Process!Done /\ Still16
               \/ part = "scan" /\ (\E r \in 1..2 : Scan!RepairRow(1, r)) /\ Still9)

Spec == Init /\ [][Next]_vars /\ Fairness

------------------------------------------------------------------------------
(* Outbox: Every committed event is published in the end, although          *)
(* publishers crash, stop and fail at any step: no claim pins it and no     *)
(* failure is terminal.                                                     *)
EventuallyPublished ==
    \A e \in {e1} : (part = "outbox" /\ Publish!Inserted(e)) ~> (part = "outbox" /\ Publish!Published(e))

(* WorkerAttempt: A recorded cancellation stops the work: whatever the      *)
(* order of bind, deliver and the end of Start, its context ends (bind,     *)
(* deliverCancellation).                                                    *)
CancellationReachesWork ==
    (part = "attempt" /\ Attempt!WorkingOnCanceled) ~> (part = "attempt" /\ ~Attempt!WorkingOnCanceled)

(* ServiceProcess: A process comes up whole, lets go of the pool last, and  *)
(* tells whoever started it the truth about its end (serveAll, run).        *)
ProcessIsOrderly == part = "process" => Process!ProcessIsOrderly

(* ScanPass: Every ripe row is settled in the end, although a pass reads a  *)
(* bounded batch and one bad row ends it before the rows behind.            *)
EventuallySettled ==
    part = "scan" ~> (part = "scan" /\ \A r \in 1..2 : Scan!Settled(r))

(* ServiceProcess, WorkerDelivery, ControlCall: What is told to stop stops. *)
(* A signal ends a process, whatever is under way, and so does the death of *)
(* a listener of the API or of the health server of a worker (serveAll,     *)
(* healthFailures). After SIGTERM, or once the loss of its session was      *)
(* noticed, Run returns although handlers may never end (Runner.Run). A     *)
(* worker whose key is revoked stops presenting itself: a refused heartbeat *)
(* is not a confirmation (runHeartbeat).                                    *)
StopsWhenTold ==
    /\ (part = "process" /\ Process!Ending) ~> (part = "process" /\ Process!Exited)
    /\ (part = "delivery" /\ Delivery!Stopping) ~> (part = "delivery" /\ Delivery!HasReturned)
    /\ (part = "call" /\ Call!RunningUnderRevokedKey) ~> (part = "call" /\ ~Call!RunningUnderRevokedKey)

(* WorkerDelivery, Migrate: Whoever waits for another goes on. A duplicate  *)
(* delivery never holds its slot for the leader's execution: it goes on     *)
(* when the claim is decided, however that ended (endDelivery). A migrator  *)
(* finishes although the holder of the lock may crash (Migrate).            *)
NobodyWaitsForEver ==
    /\ \A s \in 1..2 : (part = "delivery" /\ Delivery!Following(s)) ~> (part = "delivery" /\ ~Delivery!Following(s))
    /\ part = "migrate" ~> (part = "migrate" /\ \A p \in 1..2 : Migration!Finished(p))
==============================================================================
