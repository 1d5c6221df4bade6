----------------------------- MODULE WorkerCalls -----------------------------
(***************************************************************************)
(* The calls of a worker to the control plane, as a part of Worker.        *)
(***************************************************************************)
EXTENDS Integers, WorkerState

CONSTANTS
    CallAttempts,                         \* RetryAttempts
    StaleTicks, Operations

VARIABLES
    revoked, session, keyed, outcome, lapsed, timedOut, process, misses,
    lateCommit

ofCall == <<revoked, session, keyed, outcome, lapsed, timedOut, process,
    misses, lateCommit>>
callsVars == <<part, ofCall, verdict, job, phase, call>>

noCall ==
    /\ revoked = 0 /\ session = 0 /\ keyed = 0 /\ outcome = 0 /\ lapsed = 0
    /\ timedOut = 0 /\ process = 0 /\ misses = 0 /\ lateCommit = 0

Call == INSTANCE ControlCall WITH RetryAttempts <- CallAttempts

(* The constants are what the component takes them to be. *)
ASSUME CallsAssumption == Call!CallAssumption

CallsInit == part = "call" /\ Call!Init
CallsNext == part = "call" /\ Call!Next /\ UNCHANGED part
CallsSpec == CallsInit /\ [][CallsNext]_callsVars

------------------------------------------------------------------------------
(* ControlCall: Revocation takes effect between the requests of one         *)
(* session: a request sent after the key was revoked commits nothing,       *)
(* although neither a secret nor the key is presented with it.              *)
RevokedKeyCommitsNothing == part = "call" => Call!RevokedKeyCommitsNothing

(* ControlCall: A worker gives up only what it has lost.  It concludes that *)
(* its session is gone not from an elapsed deadline, a lost answer, a       *)
(* revoked key or another conflict, and that its lease is gone only when    *)
(* nothing the attempt produces could still commit: it lapsed, was fenced   *)
(* or is decided.                                                           *)
LossIsReal == part = "call" => Call!LossIsReal
==============================================================================
