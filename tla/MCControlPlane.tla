--------------------------- MODULE MCControlPlane ---------------------------
(***************************************************************************)
(* Small instances of ControlPlane for TLC, one per question.              *)
(***************************************************************************)
EXTENDS ControlPlane, TLC

CONSTANTS j1, j2, s1, s2, w1, w2, q1, g1, sc1, sc2, a1

SharedGroup == [q \in Queues |-> g1]
LimitOne == [q \in Queues |-> 1]
LimitTwo == [q \in Queues |-> 2]

Job(scope, needs, priority, maxAttempts, timeout) ==
    [scope |-> scope, queue |-> q1, needs |-> needs, priority |-> priority,
     maxAttempts |-> maxAttempts, timeout |-> timeout]

Boot(scope, worker, limit, offers) ==
    [scope |-> scope, worker |-> worker, group |-> g1, limit |-> limit,
     offers |-> offers]

\* What clients submit.  A timeout of 3 outlives a lease of 2, so that only
\* renewals carry the attempt to its deadline; a timeout of 1 does not.
JobKinds == {Job(sc1, {}, 0, 2, 3), Job(sc1, {}, 0, 2, 1),
             Job(sc1, {}, 0, 1, 2), Job(sc1, {}, 0, 1, 9),
             Job(sc1, {a1}, 1, 1, 9), Job(sc2, {}, 0, 1, 1)}

LongTries == {d \in JobKinds : d.timeout = 3}
ShortTries == {d \in JobKinds : d.maxAttempts = 2 /\ d.timeout = 1}
OneTry == {d \in JobKinds : d.maxAttempts = 1 /\ d.timeout = 2}

\* Two priorities, of which only the higher asks for a capability.
MixedJobs == {d \in JobKinds : d.timeout = 9}

\* What processes register: boots of one worker with different limits and
\* capabilities, and a worker of another tenant.
BootKinds == {Boot(sc1, w1, 1, {}), Boot(sc1, w1, 1, {a1}),
              Boot(sc1, w1, 2, {}), Boot(sc2, w2, 1, {})}

OneBoot == {r \in BootKinds : r.scope = sc1 /\ r.limit = 1 /\ r.offers = {}}
ResizedBoots == {r \in BootKinds : r.scope = sc1 /\
                                   (r.limit = 2 \/ r.offers # {})}

\* A job and a worker of each tenant.
TenantJobs == {d \in JobKinds : d.maxAttempts = 1 /\ d.timeout \in {1, 2}}
TenantBoots == {r \in BootKinds : r.limit = 1 /\ r.offers = {}}

IdSymmetry == Permutations(JobIds) \cup Permutations(SessionIds)

=============================================================================
