------------------------------ MODULE RetryDelay ------------------------------
(***************************************************************************)
(* The arithmetic of a retry: lifecycle.RetryPolicy's Validate, Delay and  *)
(* Decide, and the delays that the attempts of one job are given.          *)
(*                                                                         *)
(* Durations are whole nanoseconds up to MaxInt (int64's bound), of which  *)
(* Milli make a millisecond.  The delay is computed in floating point.  A  *)
(* float here is "nan", "inf" or a number: a multiple of 1/Scale, exact    *)
(* below Exact and rounded to a multiple of Grain from there on, so that   *)
(* the float of MaxInt is, as in Go, one more than MaxInt, and converting  *)
(* it back is undefined.                                                   *)
(***************************************************************************)
EXTENDS Integers

CONSTANTS
    MaxInt,       \* the largest int64
    Milli,        \* nanoseconds in a millisecond
    Second,       \* nanoseconds in a second
    Exact, Grain, \* floats from Exact on are multiples of Grain
    Half,         \* Scale is 2 * Half * Half: jitter and samples are k / (2 * Half)
    Durations,    \* the base and maximum delays a policy is built with
    Multipliers,  \* the finite multipliers
    MaxAttempts   \* the attempts of the job

UnitsAssumption ==
    /\ MaxInt \in Nat /\ Milli \in Nat \ {0} /\ Second \in Nat \ {0}
    /\ Exact \in Nat /\ Grain \in Nat \ {0}
    /\ Half \in Nat \ {0}
    /\ Durations \subseteq Int /\ Multipliers \subseteq Int
    /\ \A d \in Durations : d <= MaxInt
    /\ Milli <= Second /\ Second <= MaxInt
    /\ MaxAttempts \in Nat \ {0}

Unit == 2 * Half
Scale == Unit * Unit

VARIABLES
    policy,     \* the policy of the process
    jitter,     \* whether it has a jitter source
    used,       \* attempts the job has used
    class,      \* how the last one ended
    decision    \* what was decided of it

vars == <<policy, jitter, used, class, decision>>

------------------------------------------------------------------------------
NaN == [k |-> "nan", v |-> 0]
Inf == [k |-> "inf", v |-> 0]
Num(x) == [k |-> "num", v |-> x]
isFinite(f) == f.k = "num"

(* The float nearest to a whole number. *)
FloatOf(d) == IF d < Exact THEN d ELSE ((d + Grain \div 2) \div Grain) * Grain

CeilDiv(a, b) == (a + b - 1) \div b

(* A fraction is a multiple of 1/Unit, and a sample one of [0, 1). *)
Fractions == {NaN, Inf} \cup {Num(x) : x \in {-1, 0, Half, Unit, Unit + 1}}
Policies == [base : Durations, max : Durations,
             mult : {NaN, Inf} \cup {Num(x) : x \in Multipliers}, jit : Fractions]

Validate(p) ==
    /\ p.base > 0
    /\ p.max >= Milli
    /\ p.max % Milli = 0
    /\ p.max >= p.base
    /\ isFinite(p.mult) /\ p.mult.v >= 1
    /\ isFinite(p.jit) /\ p.jit.v >= 0 /\ p.jit.v <= Unit

capMillis(max) ==
    IF max <= 0 \/ max \div Milli < 1 THEN 1
    ELSE IF max \div Milli > MaxInt \div Milli THEN MaxInt \div Milli
    ELSE max \div Milli

(* Nanoseconds as a number of Scale-ths, to whole milliseconds rounded up.  *)
(* Delay has replaced what is not finite before it comes here.              *)
quantizeNanos(nanos, max) ==
    IF nanos <= 0 THEN 0
    ELSE IF CeilDiv(nanos, Milli * Scale) >= FloatOf(capMillis(max)) THEN capMillis(max) * Milli
    ELSE CeilDiv(nanos, Milli * Scale) * Milli

(* Seeded fault: the first failure counts as attempt zero, twice. *)
GrowthLate(p, base, n) ==
    IF n <= 2 THEN Num(FloatOf(base))
    ELSE IF ~isFinite(p.mult) THEN p.mult
    ELSE Num(FloatOf(FloatOf(base) * (IF p.mult.v < 1 THEN 1 ELSE p.mult.v ^ (n - 2))))

(* Base * Multiplier^(n-1) in floats; NaN^0 and Inf^0 are 1. *)
Growth(p, base, n) ==
    IF n = 1 THEN Num(FloatOf(base))
    ELSE IF ~isFinite(p.mult) THEN p.mult
    ELSE Num(FloatOf(FloatOf(base) * (IF p.mult.v < 1 THEN 1 ELSE p.mult.v ^ (n - 1))))

Base(p) == IF p.base <= 0 THEN Second ELSE p.base
Maximum(p) == IF p.max < Base(p) THEN Base(p) ELSE p.max

Nominal(p, n) ==
    LET grown == Growth(p, Base(p), n)
    IN IF ~isFinite(grown) \/ grown.v > FloatOf(Maximum(p)) THEN FloatOf(Maximum(p)) ELSE grown.v

(* The sample of an injected source, clamped into [0, 1). *)
Sample(s) == IF ~isFinite(s) \/ s.v < 0 THEN 0 ELSE IF s.v >= Unit THEN Unit - 1 ELSE s.v

(* The factor 1 + Jitter*(2r - 1), in Scale-ths. *)
Factor(p, s) ==
    IF jitter /\ isFinite(p.jit) /\ p.jit.v > 0
      THEN LET fraction == IF p.jit.v > Unit THEN Unit ELSE p.jit.v
           IN Scale + fraction * (2 * Sample(s) - Unit)
      ELSE Scale

Delay(p, n, s) ==
    LET nanos == Nominal(p, IF n < 1 THEN 1 ELSE n) * Factor(p, s)
    IN quantizeNanos(IF nanos < 0 THEN 0 ELSE nanos, Maximum(p))

------------------------------------------------------------------------------
Classes == {"RETRYABLE", "TIMED_OUT", "ABANDONED", "PERMANENT"}

Retry(d) == [retry |-> TRUE, delay |-> d, reason |-> "none"]
DeadLetter(why) == [retry |-> FALSE, delay |-> 0, reason |-> why]

Decide(c, n, attemptsUsed, s) ==
    IF c = "PERMANENT" THEN DeadLetter("PERMANENT_FAILURE")
    ELSE IF attemptsUsed >= MaxAttempts THEN DeadLetter("ATTEMPTS_EXHAUSTED")
    ELSE IF c = "ABANDONED" THEN Retry(0)
    ELSE Retry(Delay(policy, n, s))

(* The next attempt of the job ends in some way. *)
Attempt(c, s) ==
    /\ decision.retry
    /\ used' = used + 1
    /\ class' = c
    /\ decision' = Decide(c, used + 1, used + 1, s)
    /\ UNCHANGED <<policy, jitter>>

Init ==
    /\ policy \in Policies
    /\ jitter \in BOOLEAN
    /\ used = 0
    /\ class = "none"
    /\ decision = Retry(0)

Next == \E c \in Classes, s \in Fractions : Attempt(c, s)

Spec == Init /\ [][Next]_vars

------------------------------------------------------------------------------
Backoff == class \in {"RETRYABLE", "TIMED_OUT"} /\ decision.retry

(* Whatever the policy, a validated one or one built in code with NaN or    *)
(* infinite settings, a delay is a duration an int64 holds and a whole      *)
(* number of milliseconds.  A validated policy's backoff lies between the   *)
(* documented formula with the most negative jitter and the maximum: no     *)
(* rounding and no overflow turns it into an early retry.                   *)
BackoffWithinBounds ==
    /\ decision.delay >= 0
    /\ decision.delay <= MaxInt
    /\ decision.delay % Milli = 0
    /\ Validate(policy) => decision.delay <= policy.max
    /\ (Backoff /\ Validate(policy) /\ policy.max < Exact) =>
          LET grown == policy.base * policy.mult.v ^ (used - 1)
              nominal == IF grown > policy.max THEN policy.max ELSE grown
          IN decision.delay * Unit >= nominal * (Unit - (IF jitter THEN policy.jit.v ELSE 0))
==============================================================================
