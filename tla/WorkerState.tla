----------------------------- MODULE WorkerState -----------------------------
(***************************************************************************)
(* What parts of a worker that are modelled apart have in common: the part *)
(* that a behaviour is about, and the names that occur in several of       *)
(* WorkerSlots, WorkerCalls, WorkerLease and WorkerCadence.                *)
(***************************************************************************)
CONSTANTS MaxMargin, NULL

VARIABLES
    part,   \* the component of this behaviour
    fenced, tries, net, verdict, job, phase, call
==============================================================================
