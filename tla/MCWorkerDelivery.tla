-------------------------- MODULE MCWorkerDelivery --------------------------
(***************************************************************************)
(* WorkerDelivery with two copies of one event.                            *)
(***************************************************************************)
EXTENDS WorkerDelivery

CONSTANT event

Carries == [m \in Messages |-> event]

=============================================================================
