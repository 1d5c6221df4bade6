----------------------------- MODULE WorkerLease -----------------------------
(***************************************************************************)
(* The authority of a worker's lease, as a part of Worker.                 *)
(***************************************************************************)
EXTENDS Integers, WorkerState

CONSTANTS
    LeaseAttempts,                        \* RetryAttempts
    LeaseDuration, Timeout, RenewInterval, MaxIds

VARIABLES
    att, leaseLeft, timeoutLeft, version, lastId, refusing, authLeft, execLeft,
    startAge, pending, nextId, seen, untilRenew

ofLease == <<att, leaseLeft, timeoutLeft, version, lastId, refusing, authLeft,
    execLeft, startAge, pending, nextId, seen, untilRenew>>
leaseVars == <<part, ofLease, tries, net, phase, call>>

noLease ==
    /\ att = 0 /\ leaseLeft = 0 /\ timeoutLeft = 0 /\ version = 0 /\ lastId = 0
    /\ refusing = 0 /\ authLeft = 0 /\ execLeft = 0 /\ startAge = 0
    /\ pending = 0 /\ nextId = 0 /\ seen = 0 /\ untilRenew = 0

Lease == INSTANCE LeaseAuthority WITH RetryAttempts <- LeaseAttempts

(* The constants are what the component takes them to be. *)
ASSUME AuthorityAssumption == Lease!LeaseAssumption

LeaseInit == part = "lease" /\ Lease!Init
LeaseNext == part = "lease" /\ Lease!Next /\ UNCHANGED part
LeaseSpec == LeaseInit /\ [][LeaseNext]_leaseVars

------------------------------------------------------------------------------
(* LeaseAuthority: Worker and server agree on the lease through every loss  *)
(* and repetition: the worker takes no more than was granted, their         *)
(* generations stay in step, and an attempt that was not started is not     *)
(* renewed (Client.Claim, startRenewal, RenewLease).                        *)
LeaseIsAgreed == part = "lease" => Lease!LeaseIsAgreed
==============================================================================
