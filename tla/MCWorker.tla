------------------------------- MODULE MCWorker ------------------------------
(* Worker for TLC: few slots and events, short leases, and all the timings  *)
(* of a few units that the rules of ConfigRules are to sort.                *)
EXTENDS Worker, TLC

CONSTANTS e1, e2, m1, m2, m3

(* Two copies of one event, an event of its own, and a malformed message.   *)
Carries ==
    [m \in Messages |-> CASE m \in {m1, m2} -> e1
                          [] m = m3 -> e2
                          [] OTHER -> NULL]

Timing(h, s, rt, r, l) ==
    [HEARTBEAT_INTERVAL |-> h, SESSION_STALE_AFTER |-> s, WORKER_REQUEST_TIMEOUT |-> rt,
     LEASE_RENEW_INTERVAL |-> r, LEASE_DURATION |-> l]

Heartbeats == {Timing(h, s, rt, 8, 24) : h \in 1..3, s \in 1..9, rt \in 1..9}
Renewals == {Timing(1, 9, rt, r, l) : rt \in 1..9, r \in 1..9, l \in 10..24}

SlotSymmetry == Permutations(Slots)
==============================================================================
