----------------------------- MODULE RenewalWindow -----------------------------
(***************************************************************************)
(* How many failed renewals an accepted configuration survives: the        *)
(* renewal loop of one attempt (internal/worker: startRenewal) under       *)
(* timings that internal/config accepts.  LeaseAuthority has what the loop *)
(* and the server agree on; here is what the cadence leaves room for.      *)
(*                                                                         *)
(* Time is discrete, and does not pass a deadline the loop waits for.  The *)
(* attempt begins with a whole lease, the most it can begin with.          *)
(***************************************************************************)
EXTENDS ConfigRules

CONSTANTS
    Timings,     \* the configurations tried
    MaxMargin    \* the greatest completion margin, one second

(* A request timeout is positive (WorkerConfig.Validate), and no interval   *)
(* is so long that three of it wrap.                                        *)
TimingsAssumption ==
    /\ DurationAssumption
    /\ MaxMargin \in Nat
    /\ Timings \subseteq [HEARTBEAT_INTERVAL : Int, SESSION_STALE_AFTER : Int,
                          LEASE_RENEW_INTERVAL : Int, LEASE_DURATION : Int,
                          WORKER_REQUEST_TIMEOUT : Nat \ {0}]
    /\ \A t \in Timings : 3 * t.LEASE_RENEW_INTERVAL <= MaxDuration

VARIABLES
    c,          \* the configuration
    held,       \* the loop believes in its authority
    left,       \* time until the authority deadline
    toTick,     \* time until the ticker fires
    ticked,     \* a tick waits
    age,        \* age of the call in progress, or -1
    failures    \* calls failed, or answered too late, since the last confirmation

vars == <<c, held, left, toTick, ticked, age, failures>>
NoCall == -1
Cap == 4        \* bound on the failures counted
R == c.LEASE_RENEW_INTERVAL
RT == c.WORKER_REQUEST_TIMEOUT

Least(a, b) == IF a <= b THEN a ELSE b
executionBudget(remaining) == remaining - Least(remaining \div 10, MaxMargin)

Accepted == {t \in Timings : livenessProblems(t) = {} /\ ValidateWorkerTimings(t, t) = {}}

Init ==
    /\ c \in Accepted
    /\ held = TRUE
    /\ left = executionBudget(c.LEASE_DURATION)
    /\ toTick = R
    /\ ticked = FALSE
    /\ age = NoCall
    /\ failures = 0

Pass ==
    /\ held /\ left > 0
    /\ IF age = NoCall THEN ~ticked ELSE age < RT
    /\ left' = left - 1
    /\ age' = IF age = NoCall THEN NoCall ELSE age + 1
    /\ toTick' = IF toTick = 1 THEN R ELSE toTick - 1
    /\ ticked' = (ticked \/ toTick = 1)
    /\ UNCHANGED <<c, held, failures>>

(* The ticker, or the authority timer. *)
Wakes ==
    /\ held /\ age = NoCall
    /\ ticked \/ left = 0
    /\ ticked' = FALSE
    /\ IF left = 0 THEN held' = FALSE /\ UNCHANGED age ELSE age' = 0 /\ UNCHANGED held
    /\ UNCHANGED <<c, left, toTick, failures>>

(* The new deadline is counted from before the request. *)
Confirmed ==
    /\ held /\ age # NoCall
    /\ age' = NoCall
    /\ LET renewed == executionBudget(c.LEASE_DURATION) - age
       IN  IF left = 0 \/ renewed <= 0
           THEN held' = FALSE /\ failures' = Least(failures + 1, Cap) /\ UNCHANGED left
           ELSE left' = renewed /\ failures' = 0 /\ UNCHANGED held
    /\ UNCHANGED <<c, toTick, ticked>>

Fails ==
    /\ held /\ age # NoCall
    /\ age' = NoCall
    /\ failures' = Least(failures + 1, Cap)
    /\ held' = (left > 0)
    /\ UNCHANGED <<c, left, toTick, ticked>>

Next == Pass \/ Wakes \/ Confirmed \/ Fails

Spec == Init /\ [][Next]_vars

------------------------------------------------------------------------------
(* Every variable has its type. *)
TypeOK ==
    /\ held \in BOOLEAN /\ ticked \in BOOLEAN
    /\ left \in 0 .. c.LEASE_DURATION
    /\ toTick \in 1..R
    /\ age \in NoCall..RT
    /\ failures \in 0..Cap

(* No single renewal costs an attempt its authority, be it failed at once,  *)
(* hung for as long as the client allows, or answered late                  *)
(* (Config.Validate, ValidateWorkerTimings, startRenewal).                  *)
OneRenewalMayFail == ~held => failures >= 2
==============================================================================
