------------------------------- MODULE Worker --------------------------------
(***************************************************************************)
(* The parts of a worker, each by itself: its slots, its calls, its lease  *)
(* and its cadence.  A behaviour is one of a part, which the first state   *)
(* chooses; the variables of the others are 0 throughout.                  *)
(***************************************************************************)
EXTENDS WorkerSlots, WorkerCalls, WorkerLease, WorkerCadence

noSlots == noDelivery /\ noAttempt /\ ready = 0 /\ hb = 0 /\ pc = 0
noCadence ==
    /\ noHeartbeat /\ noRenewal
    /\ c = 0 /\ toTick = 0 /\ ticked = 0 /\ age = 0 /\ failures = 0

ofSlots == <<ofDelivery, ofAttempt, ready, hb, pc>>
ofCadence == <<ofHeartbeat, ofRenewal, c, toTick, ticked, age, failures>>

vars == <<slotsVars, callsVars, leaseVars, cadenceVars>>

Init ==
    \/ SlotsInit /\ noCall /\ noLease /\ noCadence /\ phase = 0 /\ call = 0
    \/ /\ CallsInit /\ noSlots /\ noLease /\ noCadence
       /\ fenced = 0 /\ tries = 0 /\ net = 0
    \/ /\ LeaseInit /\ noSlots /\ noCall /\ noCadence
       /\ fenced = 0 /\ verdict = 0 /\ job = 0
    \/ /\ CadenceInit /\ noSlots /\ noCall /\ noLease
       /\ tries = 0 /\ net = 0 /\ verdict = 0 /\ job = 0 /\ phase = 0 /\ call = 0

Next ==
    \/ SlotsNext /\ UNCHANGED <<ofCall, ofLease, ofCadence, phase, call>>
    \/ CallsNext /\ UNCHANGED <<ofSlots, ofLease, ofCadence, fenced, tries, net>>
    \/ LeaseNext /\ UNCHANGED <<ofSlots, ofCall, ofCadence, fenced, verdict, job>>
    \/ /\ CadenceNext
       /\ UNCHANGED <<ofSlots, ofCall, ofLease, tries, net, verdict, job, phase, call>>

Spec == Init /\ [][Next]_vars
==============================================================================
