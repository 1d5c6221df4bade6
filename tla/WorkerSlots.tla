----------------------------- MODULE WorkerSlots -----------------------------
(***************************************************************************)
(* The slots of a worker: their deliveries, and the attempt that one of    *)
(* them runs.  A behaviour is one of either component, which the first     *)
(* state chooses; the variables of the other are 0 throughout.             *)
(***************************************************************************)
EXTENDS Integers, WorkerState

CONSTANTS
    Slots, Events, Messages, EventOf,     \* WorkerDelivery
    DeliveryAttempts, AttemptAttempts,    \* RetryAttempts of each
    Interruptions                         \* WorkerAttempt

VARIABLES
    acked, decision, answered, sigterm, intakeStopped, completionDone, fatal,
    main, runErr, flights, msg, claimed, ret,
    recorded, usable, waiting, answer, registered, canceled, bound, execCause,
    workCause, renewal, shutdown, target, handlerErr, cause, seenCancel, large,
    stored, report, heard, told,
    ready, hb, pc                         \* of both

ofDelivery == <<acked, decision, answered, sigterm, intakeStopped,
    completionDone, fatal, main, runErr, flights, msg, claimed, ret>>
ofAttempt == <<recorded, usable, waiting, answer, registered, canceled, bound,
    execCause, workCause, renewal, shutdown, target, handlerErr, cause,
    seenCancel, large, stored, report, heard, told>>
slotsVars == <<part, ofDelivery, ofAttempt, fenced, tries, net, verdict, job,
    ready, hb, pc>>

noDelivery ==
    /\ acked = 0 /\ decision = 0 /\ answered = 0 /\ sigterm = 0
    /\ intakeStopped = 0 /\ completionDone = 0 /\ fatal = 0 /\ main = 0
    /\ runErr = 0 /\ flights = 0 /\ msg = 0 /\ claimed = 0 /\ ret = 0
noAttempt ==
    /\ recorded = 0 /\ usable = 0 /\ waiting = 0 /\ answer = 0 /\ registered = 0
    /\ canceled = 0 /\ bound = 0 /\ execCause = 0 /\ workCause = 0
    /\ renewal = 0 /\ shutdown = 0 /\ target = 0 /\ handlerErr = 0 /\ cause = 0
    /\ seenCancel = 0 /\ large = 0 /\ stored = 0 /\ report = 0 /\ heard = 0
    /\ told = 0

Delivery == INSTANCE WorkerDelivery WITH RetryAttempts <- DeliveryAttempts
DeliveryInit ==
    part = "delivery" /\ Delivery!Init /\ noAttempt /\ job = 0 /\ net = 0
DeliveryNext ==
    part = "delivery" /\ Delivery!Next /\ UNCHANGED <<part, ofAttempt, job, net>>

Attempt == INSTANCE WorkerAttempt WITH RetryAttempts <- AttemptAttempts
AttemptInit == part = "attempt" /\ Attempt!Init /\ noDelivery /\ verdict = 0
AttemptNext ==
    part = "attempt" /\ Attempt!Next /\ UNCHANGED <<part, ofDelivery, verdict>>

(* The constants are what the components take them to be. *)
ASSUME SlotsAssumption == Delivery!DeliveryAssumption /\ Attempt!AttemptAssumption

SlotsInit == DeliveryInit \/ AttemptInit
SlotsNext == DeliveryNext \/ AttemptNext
SlotsSpec == SlotsInit /\ [][SlotsNext]_slotsVars

------------------------------------------------------------------------------
(* WorkerDelivery: Deliveries are safe to repeat, to lose and to interrupt: *)
(* a receipt is deleted only on a durable answer, and duplicates do not run *)
(* side by side (processMessage, deliveryFlight).                           *)
DeliveriesAreSafe == part = "delivery" => Delivery!DeliveriesAreSafe

(* WorkerAttempt: A cancellation the worker was told of while it could      *)
(* still choose is never answered with success or failure, even if it       *)
(* arrived during Start or during the upload; and the worker does not walk  *)
(* away from it, but acknowledges, unless its session is gone or its window *)
(* never opened.                                                            *)
CancellationNotDropped == part = "attempt" => Attempt!CancellationNotDropped

(* WorkerAttempt: What is durable is what happened: an outcome was earned,  *)
(* and a report the worker was told is refused has not committed (Outcome,  *)
(* Store.Fail).                                                             *)
OutcomesAreTrue == part = "attempt" => Attempt!OutcomesAreTrue
==============================================================================
