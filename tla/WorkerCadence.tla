---------------------------- MODULE WorkerCadence ----------------------------
(***************************************************************************)
(* The cadence of a worker's heartbeats and of its renewals.  A behaviour  *)
(* is one of either component, which the first state chooses; the          *)
(* variables of the other are 0 throughout.                                *)
(***************************************************************************)
EXTENDS Integers, WorkerState

CONSTANTS MaxDuration, HeartbeatTimings, RenewalTimings

VARIABLES
    status, unconfirmed, served, unheard, slow,
    held, left,
    c, toTick, ticked, age, failures      \* of both

ofHeartbeat == <<status, unconfirmed, served, unheard, slow>>
ofRenewal == <<held, left>>
cadenceVars ==
    <<part, ofHeartbeat, ofRenewal, c, toTick, ticked, age, failures, fenced>>

noHeartbeat ==
    status = 0 /\ unconfirmed = 0 /\ served = 0 /\ unheard = 0 /\ slow = 0
noRenewal == held = 0 /\ left = 0

Heartbeat == INSTANCE HeartbeatWindow WITH Timings <- HeartbeatTimings
HeartbeatInit == part = "heartbeat" /\ Heartbeat!Init /\ noRenewal
HeartbeatNext ==
    part = "heartbeat" /\ Heartbeat!Next /\ UNCHANGED <<part, ofRenewal>>

Renewal == INSTANCE RenewalWindow WITH Timings <- RenewalTimings
RenewalInit == part = "renewal" /\ Renewal!Init /\ noHeartbeat /\ fenced = 0
RenewalNext ==
    part = "renewal" /\ Renewal!Next /\ UNCHANGED <<part, ofHeartbeat, fenced>>

(* The constants are what the components take them to be. *)
ASSUME CadenceAssumption ==
    Heartbeat!TimingsAssumption /\ Renewal!TimingsAssumption

CadenceInit == HeartbeatInit \/ RenewalInit
CadenceNext == HeartbeatNext \/ RenewalNext
CadenceSpec == CadenceInit /\ [][CadenceNext]_cadenceVars

------------------------------------------------------------------------------
(* HeartbeatWindow, RenewalWindow: Accepted timings suffice, whatever       *)
(* fails: heartbeats that answer within an interval must fail twice in a    *)
(* row before the worker stops presenting itself, and one must fail or be   *)
(* slow before the reconciler fences the session; a silent worker stops in  *)
(* time; and renewals, however slow, must fail twice before an attempt      *)
(* loses its authority (Config.Validate: three intervals in a window).      *)
TimingsSuffice ==
    /\ part = "heartbeat" => /\ Heartbeat!OnePromptFailureSurvived
                            /\ Heartbeat!FencedMeansTrouble
                            /\ Heartbeat!SilenceIsBounded
    /\ part = "renewal" => Renewal!OneRenewalMayFail
==============================================================================
