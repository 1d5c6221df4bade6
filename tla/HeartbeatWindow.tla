---------------------------- MODULE HeartbeatWindow ----------------------------
(***************************************************************************)
(* How many lost heartbeats an accepted configuration survives: the        *)
(* worker's heartbeat loop (internal/worker: runHeartbeat) against the     *)
(* session's staleness (internal/workers: Heartbeat, MarkStaleSessions),   *)
(* under timings that internal/config accepts.                             *)
(*                                                                         *)
(* Time is discrete, and does not pass a deadline the loop waits for.  The *)
(* ticker holds one tick while a call is in progress.                      *)
(***************************************************************************)
EXTENDS ConfigRules

CONSTANT Timings   \* the configurations tried

(* A request timeout is positive (WorkerConfig.Validate), and no interval   *)
(* is so long that three of it wrap.                                        *)
TimingsAssumption ==
    /\ DurationAssumption
    /\ Timings \subseteq [HEARTBEAT_INTERVAL : Int, SESSION_STALE_AFTER : Int,
                          LEASE_RENEW_INTERVAL : Int, LEASE_DURATION : Int,
                          WORKER_REQUEST_TIMEOUT : Nat \ {0}]
    /\ \A t \in Timings : 3 * t.HEARTBEAT_INTERVAL <= MaxDuration

VARIABLES
    c,             \* the configuration
    status,        \* "run"; the loop ended: "stale", or "lost" (fenced)
    unconfirmed,   \* worker: time since lastConfirmed
    toTick,        \* worker: time until the ticker fires
    ticked,        \* worker: a tick waits
    age,           \* worker: age of the call in progress, or -1
    served,        \* the call in progress reached the server
    unheard,       \* server: time since last_heartbeat_at
    fenced,        \* server: the session is UNHEALTHY
    failures,      \* calls failed since the last confirmation
    slow           \* one of the calls since then, or the confirmed one, took an interval

vars == <<c, status, unconfirmed, toTick, ticked, age, served, unheard, fenced, failures, slow>>
NoCall == -1
Cap == 3           \* bound on the failures counted
H == c.HEARTBEAT_INTERVAL
S == c.SESSION_STALE_AFTER
RT == c.WORKER_REQUEST_TIMEOUT

Capped(n) == IF n < Cap THEN n + 1 ELSE n

Accepted == {t \in Timings : livenessProblems(t) = {} /\ ValidateWorkerTimings(t, t) = {}}

Init ==
    /\ c \in Accepted
    /\ status = "run"
    /\ unconfirmed = 0
    /\ toTick = H
    /\ ticked = FALSE
    /\ age = NoCall
    /\ served = FALSE
    /\ unheard = 0
    /\ fenced = FALSE
    /\ failures = 0
    /\ slow = FALSE

(* A call ends at the client's timeout, and at staleAt.                     *)
MustEnd == age = RT \/ unconfirmed >= S

Pass ==
    /\ status = "run"
    /\ IF age = NoCall THEN ~ticked ELSE ~MustEnd
    /\ unconfirmed' = unconfirmed + 1
    /\ unheard' = IF unheard <= S THEN unheard + 1 ELSE unheard
    /\ age' = IF age = NoCall THEN NoCall ELSE age + 1
    /\ toTick' = IF toTick = 1 THEN H ELSE toTick - 1
    /\ ticked' = (ticked \/ toTick = 1)
    /\ slow' = (slow \/ age' >= H)
    /\ UNCHANGED <<c, status, served, fenced, failures>>

Beat ==
    /\ status = "run" /\ ticked /\ age = NoCall
    /\ ticked' = FALSE
    /\ IF unconfirmed >= S
       THEN status' = "stale" /\ UNCHANGED <<age, served>>
       ELSE age' = 0 /\ served' = FALSE /\ UNCHANGED status
    /\ UNCHANGED <<c, unconfirmed, toTick, unheard, fenced, failures, slow>>

(* Store.Heartbeat; a fenced session is refused. *)
Serve ==
    /\ status = "run" /\ age # NoCall /\ ~served
    /\ served' = TRUE
    /\ unheard' = IF fenced THEN unheard ELSE 0
    /\ UNCHANGED <<c, status, unconfirmed, toTick, ticked, age, fenced, failures, slow>>

Answered ==
    /\ status = "run" /\ age # NoCall /\ served
    /\ age' = NoCall
    /\ IF fenced THEN status' = "lost" /\ UNCHANGED <<unconfirmed, failures, slow>>
       ELSE IF unconfirmed >= S THEN status' = "stale" /\ UNCHANGED <<unconfirmed, failures, slow>>
       ELSE /\ unconfirmed' = 0 /\ failures' = 0 /\ slow' = (age >= H)
            /\ UNCHANGED status
    /\ UNCHANGED <<c, toTick, ticked, served, unheard, fenced>>

Fails ==
    /\ status = "run" /\ age # NoCall
    /\ age' = NoCall
    /\ failures' = Capped(failures)
    /\ status' = IF unconfirmed >= S THEN "stale" ELSE "run"
    /\ UNCHANGED <<c, unconfirmed, toTick, ticked, served, unheard, fenced, slow>>

MarkStaleSessions ==
    /\ status = "run" /\ ~fenced
    /\ unheard > S
    /\ fenced' = TRUE
    /\ UNCHANGED <<c, status, unconfirmed, toTick, ticked, age, served, unheard, failures, slow>>

Next == Pass \/ Beat \/ Serve \/ Answered \/ Fails \/ MarkStaleSessions

Spec == Init /\ [][Next]_vars

------------------------------------------------------------------------------
(* A worker whose liveness has not been confirmed for the staleness         *)
(* threshold stops within one heartbeat interval, even when a call hangs:   *)
(* no call outlives the threshold (runHeartbeat).                           *)
SilenceIsBounded == status = "run" => unconfirmed < S + H

(* While its heartbeats take less than one interval to succeed or to fail,  *)
(* a worker stops presenting itself only after two of them failed in a row  *)
(* (Config.Validate: three intervals in a threshold).                       *)
OnePromptFailureSurvived == status # "run" /\ ~slow => failures >= 2

(* The reconciler fences a session only when a heartbeat of it failed, or   *)
(* was slow: not on jitter (MarkStaleSessions).                             *)
FencedMeansTrouble == fenced => failures >= 1 \/ slow
==============================================================================
