------------------------- MODULE WorkerCadenceProofs -------------------------
(***************************************************************************)
(* Accepted timings suffice, proved for all of them.  Each of the two      *)
(* components has an inductive invariant of its own; a behaviour is one of *)
(* a component, so that together they are one of WorkerCadence.            *)
(***************************************************************************)
EXTENDS WorkerCadence, TLAPS

\* The time each leaf is given.
USE SMTT(20), ZenonT(20)

------------------------------------------------------------------------------
(* The cadence of heartbeats                                                *)

Interval == c.HEARTBEAT_INTERVAL

Stale == c.SESSION_STALE_AFTER

HeartbeatTypes ==
    /\ unconfirmed \in Nat /\ unheard \in Nat
    /\ toTick \in 1 .. Interval
    /\ age \in Nat \cup {-1}
    /\ failures \in 0 .. 3
    /\ ticked \in BOOLEAN /\ served \in BOOLEAN /\ fenced \in BOOLEAN /\ slow \in BOOLEAN

(* When the call after so many failures is made, at the latest.             *)
Due == IF failures = 0 THEN Interval ELSE 2 * Interval

(* Without a slow call, the clocks of both sides are at most where the      *)
(* beats put them: the ticker does not wait for a call to end.              *)
Punctual ==
    ~slow /\ failures <= 1 =>
        /\ status = "run" /\ ~fenced
        /\ age # -1 => /\ age < Interval
                       /\ unconfirmed <= Due + age /\ unheard <= Due + age
        /\ age = -1 /\ ~ticked => unconfirmed + toTick <= Due /\ unheard + toTick <= Due
        /\ age = -1 /\ ticked => unconfirmed <= Due /\ unheard <= Due

(* The loop notices a silence at the end of a call, or at its next tick.    *)
Noticed ==
    status = "run" =>
        /\ age # -1 => unconfirmed <= Stale
        /\ age = -1 /\ ~ticked => unconfirmed + toTick < Stale + Interval
        /\ unconfirmed < Stale + Interval

(* The ticker has gone on since the call began, and the server heard of it  *)
(* after that.                                                              *)
SinceTheCall ==
    /\ age # -1 /\ ~ticked => toTick + age <= Interval
    /\ age # -1 /\ served /\ ~fenced => unheard <= age

HeartbeatInv ==
    /\ c \in Heartbeat!Accepted
    /\ HeartbeatTypes
    /\ Punctual
    /\ Noticed
    /\ SinceTheCall

(* What Config.Validate leaves of the timings: three intervals in a         *)
(* threshold.                                                               *)
LEMMA HeartbeatTimingsLemma ==
    ASSUME c \in Heartbeat!Accepted
    PROVE  Interval \in Nat \ {0} /\ Stale \in Nat /\ 3 * Interval <= Stale
<1>1. /\ MaxDuration \in Nat \ {0} /\ Interval \in Int /\ Stale \in Int
      /\ 3 * Interval <= MaxDuration
  BY CadenceAssumption DEF Heartbeat!Accepted, Heartbeat!TimingsAssumption,
     Heartbeat!DurationAssumption, Interval, Stale
<1>2. ~(Interval <= 0) /\ ~(Stale < Heartbeat!Thrice(Interval))
  BY DEF Heartbeat!Accepted, Heartbeat!livenessProblems, Heartbeat!Problem, Interval, Stale
<1>3. Heartbeat!Thrice(Interval) = 3 * Interval
  <2>1. PICK d : d = 3 * Interval OBVIOUS
  <2>2. d \in Nat /\ d <= MaxDuration BY <1>1, <1>2, <2>1
  <2>3. Heartbeat!Wrap(d) = d BY <1>1, <2>2 DEF Heartbeat!Wrap
  <2> QED BY <2>1, <2>3 DEF Heartbeat!Thrice
<1> QED BY <1>1, <1>2, <1>3

(* A session has just been confirmed when the loop begins.                  *)
LEMMA HeartbeatStarts == ASSUME Heartbeat!Init PROVE HeartbeatInv
<1> USE DEF Heartbeat!Init, Heartbeat!NoCall, Heartbeat!H
<1>1. c \in Heartbeat!Accepted OBVIOUS
<1>2. toTick = Interval BY DEF Interval
<1>3. HeartbeatTypes
  <2>1. toTick \in 1 .. Interval BY <1>1, <1>2, HeartbeatTimingsLemma
  <2>2. ticked \in BOOLEAN /\ served \in BOOLEAN /\ fenced \in BOOLEAN /\ slow \in BOOLEAN
    BY Zenon
  <2>3. unconfirmed \in Nat /\ unheard \in Nat /\ age \in Nat \cup {-1} /\ failures \in 0 .. 3
    OBVIOUS
  <2> QED BY <2>1, <2>2, <2>3 DEF HeartbeatTypes
<1>4. Punctual BY <1>1, <1>2, HeartbeatTimingsLemma DEF Punctual, Due
<1>5. Noticed BY <1>1, <1>2, HeartbeatTimingsLemma DEF Noticed
<1>6. SinceTheCall BY DEF SinceTheCall
<1> QED BY <1>1, <1>3, <1>4, <1>5, <1>6 DEF HeartbeatInv

(* One more unit of time; a call in progress has not met its deadline.      *)
LEMMA BeatPassKeeps == ASSUME HeartbeatInv, Heartbeat!Pass PROVE HeartbeatInv'
<1> USE HeartbeatTimingsLemma
<1>1. /\ c \in Heartbeat!Accepted /\ c' = c /\ Interval' = Interval /\ Stale' = Stale
      /\ HeartbeatTypes
  BY DEF HeartbeatInv, Heartbeat!Pass, Interval, Stale
<1>2. /\ status = "run" /\ status' = status /\ served' = served /\ fenced' = fenced
      /\ failures' = failures /\ Due' = Due /\ Due \in Int
      /\ unconfirmed' = unconfirmed + 1
      /\ unheard' \in Nat /\ unheard' <= unheard + 1
  BY <1>1 DEF Heartbeat!Pass, Due, HeartbeatTypes
<1>3. /\ age = -1 => age' = -1 /\ ~ticked
      /\ age # -1 => age' = age + 1 /\ unconfirmed < Stale /\ age \in Nat
  BY <1>1 DEF Heartbeat!Pass, Heartbeat!NoCall, Heartbeat!MustEnd, Heartbeat!S, Stale,
     HeartbeatTypes
<1>4. /\ toTick = 1 => toTick' = Interval /\ ticked'
      /\ toTick # 1 => toTick' = toTick - 1 /\ (ticked' <=> ticked)
  BY Zenon DEF Heartbeat!Pass, Heartbeat!H, Interval
<1>5. ticked' \in BOOLEAN /\ slow' \in BOOLEAN /\ (~slow' => ~slow /\ ~(age' >= Interval))
  BY Zenon DEF Heartbeat!Pass, Heartbeat!H, Interval
<1>6. HeartbeatTypes' BY <1>1, <1>2, <1>3, <1>4, <1>5 DEF HeartbeatTypes
<1>7. Punctual'
  <2> SUFFICES ASSUME ~slow', failures' <= 1 PROVE Punctual' BY DEF Punctual
  <2>1. /\ ~fenced
        /\ age # -1 => /\ age < Interval
                       /\ unconfirmed <= Due + age /\ unheard <= Due + age
        /\ age = -1 /\ ~ticked => unconfirmed + toTick <= Due /\ unheard + toTick <= Due
    BY <1>2, <1>5 DEF HeartbeatInv, Punctual
  <2>2. age' # -1 => /\ age' < Interval
                     /\ unconfirmed' <= Due + age' /\ unheard' <= Due + age'
    BY <1>1, <1>2, <1>3, <1>5, <2>1 DEF HeartbeatTypes
  <2>3. age' = -1 => age = -1 /\ ~ticked BY <1>3
  <2>4. age' = -1 /\ ~ticked' => unconfirmed' + toTick' <= Due /\ unheard' + toTick' <= Due
    BY <1>1, <1>2, <1>4, <2>1, <2>3 DEF HeartbeatTypes
  <2>5. age' = -1 /\ ticked' => unconfirmed' <= Due /\ unheard' <= Due
    BY <1>1, <1>2, <1>4, <2>1, <2>3 DEF HeartbeatTypes
  <2> QED BY <1>1, <1>2, <2>1, <2>2, <2>4, <2>5 DEF Punctual
<1>8. Noticed'
  <2>1. age' # -1 => unconfirmed' <= Stale BY <1>1, <1>2, <1>3 DEF HeartbeatTypes
  <2>2. age' = -1 => age = -1 /\ ~ticked BY <1>3
  <2>3. age = -1 /\ ~ticked => unconfirmed + toTick < Stale + Interval
    BY <1>2 DEF HeartbeatInv, Noticed
  <2>4. age' = -1 /\ ~ticked' => unconfirmed' + toTick' < Stale + Interval
    BY <1>1, <1>2, <1>4, <2>2, <2>3 DEF HeartbeatTypes
  <2>5. unconfirmed' < Stale + Interval
    BY <1>1, <1>2, <2>1, <2>2, <2>3 DEF HeartbeatTypes
  <2> QED BY <1>1, <2>1, <2>4, <2>5 DEF Noticed
<1>9. SinceTheCall'
  <2>1. age' # -1 => age # -1 /\ age' = age + 1 /\ age \in Nat BY <1>3
  <2>2. age' # -1 /\ ~ticked' => toTick' + age' <= Interval
    <3> SUFFICES ASSUME age' # -1, ~ticked' PROVE toTick' + age' <= Interval OBVIOUS
    <3>1. toTick' = toTick - 1 /\ ~ticked BY <1>4
    <3>2. toTick + age <= Interval BY <2>1, <3>1 DEF HeartbeatInv, SinceTheCall
    <3> QED BY <1>1, <2>1, <3>1, <3>2 DEF HeartbeatTypes
  <2>3. age' # -1 /\ served' /\ ~fenced' => unheard' <= age'
    <3> SUFFICES ASSUME age' # -1, served', ~fenced' PROVE unheard' <= age' OBVIOUS
    <3>1. unheard <= age BY <1>2, <2>1 DEF HeartbeatInv, SinceTheCall
    <3> QED BY <1>1, <1>2, <2>1, <3>1 DEF HeartbeatTypes
  <2> QED BY <1>1, <2>2, <2>3 DEF SinceTheCall
<1> QED BY <1>1, <1>6, <1>7, <1>8, <1>9 DEF HeartbeatInv

(* The next call is made, or the loop has been silent for too long.         *)
LEMMA BeatKeeps == ASSUME HeartbeatInv, Heartbeat!Beat PROVE HeartbeatInv'
<1> USE HeartbeatTimingsLemma
<1>1. /\ c \in Heartbeat!Accepted /\ c' = c /\ Interval' = Interval /\ Stale' = Stale
      /\ HeartbeatTypes /\ Due' = Due
  BY DEF HeartbeatInv, Heartbeat!Beat, Interval, Stale, Due
<1>2. /\ status = "run" /\ ticked /\ age = -1 /\ ticked' = FALSE
      /\ unconfirmed' = unconfirmed /\ unheard' = unheard /\ toTick' = toTick
      /\ fenced' = fenced /\ failures' = failures /\ slow' = slow
  BY DEF Heartbeat!Beat, Heartbeat!NoCall
<1>3. /\ unconfirmed >= Stale => status' = "stale" /\ age' = -1 /\ served' = served
      /\ ~(unconfirmed >= Stale) => status' = "run" /\ age' = 0 /\ served' = FALSE
  BY <1>2 DEF Heartbeat!Beat, Heartbeat!S, Stale
<1>4. HeartbeatTypes'
  <2>1. served' \in BOOLEAN /\ ticked' \in BOOLEAN BY <1>1, <1>2, <1>3, Zenon DEF HeartbeatTypes
  <2>2. age' \in Nat \cup {-1} BY <1>3
  <2> QED BY <1>1, <1>2, <2>1, <2>2 DEF HeartbeatTypes
<1>5. Punctual'
  <2> SUFFICES ASSUME ~slow, failures <= 1 PROVE Punctual' BY <1>2 DEF Punctual
  <2>1. ~fenced /\ unconfirmed <= Due /\ unheard <= Due BY <1>2 DEF HeartbeatInv, Punctual
  <2>2. ~(unconfirmed >= Stale) BY <1>1, <2>1 DEF HeartbeatTypes, Due
  <2>3. 0 < Interval /\ unconfirmed' <= Due + 0 /\ unheard' <= Due + 0
    BY <1>1, <1>2, <2>1 DEF HeartbeatTypes, Due
  <2> QED BY <1>1, <1>2, <1>3, <2>1, <2>2, <2>3 DEF Punctual
<1>6. Noticed'
  <2> SUFFICES ASSUME status' = "run" PROVE Noticed' BY DEF Noticed
  <2>1. age' = 0 /\ unconfirmed < Stale BY <1>1, <1>3 DEF HeartbeatTypes
  <2>2. unconfirmed' <= Stale /\ unconfirmed' < Stale + Interval
    BY <1>1, <1>2, <2>1 DEF HeartbeatTypes
  <2> QED BY <1>1, <2>1, <2>2 DEF Noticed
<1>7. SinceTheCall'
  <2> SUFFICES ASSUME age' # -1 PROVE SinceTheCall' BY DEF SinceTheCall
  <2>1. age' = 0 /\ served' = FALSE BY <1>3
  <2>2. toTick' + age' <= Interval BY <1>1, <1>2, <2>1 DEF HeartbeatTypes
  <2> QED BY <1>1, <2>1, <2>2 DEF SinceTheCall
<1> QED BY <1>1, <1>4, <1>5, <1>6, <1>7 DEF HeartbeatInv

(* Store.Heartbeat hears the session, unless it fenced it.                  *)
LEMMA BeatServeKeeps == ASSUME HeartbeatInv, Heartbeat!Serve PROVE HeartbeatInv'
<1> USE HeartbeatTimingsLemma
<1>1. /\ c \in Heartbeat!Accepted /\ c' = c /\ Interval' = Interval /\ Stale' = Stale
      /\ HeartbeatTypes /\ Due' = Due /\ Due \in Int
  BY DEF HeartbeatInv, Heartbeat!Serve, Interval, Stale, Due
<1>2. /\ status = "run" /\ age # -1 /\ served' = TRUE
      /\ unheard' = IF fenced THEN unheard ELSE 0
      /\ status' = status /\ unconfirmed' = unconfirmed /\ toTick' = toTick
      /\ ticked' = ticked /\ age' = age /\ fenced' = fenced /\ failures' = failures
      /\ slow' = slow
  BY DEF Heartbeat!Serve, Heartbeat!NoCall
<1>3. unheard' \in Nat /\ unheard' <= unheard /\ age \in Nat BY <1>1, <1>2 DEF HeartbeatTypes
<1>4. HeartbeatTypes' BY <1>1, <1>2, <1>3 DEF HeartbeatTypes
<1>5. Punctual'
  <2> SUFFICES ASSUME ~slow, failures <= 1 PROVE Punctual' BY <1>2 DEF Punctual
  <2>1. ~fenced /\ age < Interval /\ unconfirmed <= Due + age /\ unheard <= Due + age
    BY <1>2 DEF HeartbeatInv, Punctual
  <2>2. unheard' <= Due + age BY <1>1, <1>3, <2>1 DEF HeartbeatTypes
  <2> QED BY <1>1, <1>2, <2>1, <2>2 DEF Punctual
<1>6. Noticed' BY <1>1, <1>2 DEF HeartbeatInv, Noticed
<1>7. SinceTheCall'
  <2>1. ~ticked => toTick + age <= Interval BY <1>2 DEF HeartbeatInv, SinceTheCall
  <2>2. ~fenced => unheard' <= age BY <1>2, <1>3
  <2> QED BY <1>1, <1>2, <2>1, <2>2 DEF SinceTheCall
<1> QED BY <1>1, <1>4, <1>5, <1>6, <1>7 DEF HeartbeatInv

(* The answer confirms the session, tells of its fence or comes too late;   *)
(* it can do the last two only after trouble.                               *)
LEMMA BeatAnswerKeeps == ASSUME HeartbeatInv, Heartbeat!Answered PROVE HeartbeatInv'
<1> USE HeartbeatTimingsLemma
<1>1. /\ c \in Heartbeat!Accepted /\ c' = c /\ Interval' = Interval /\ Stale' = Stale
      /\ HeartbeatTypes
  BY DEF HeartbeatInv, Heartbeat!Answered, Interval, Stale
<1>2. /\ status = "run" /\ age # -1 /\ served /\ age' = -1 /\ toTick' = toTick
      /\ ticked' = ticked /\ served' = served /\ unheard' = unheard /\ fenced' = fenced
  BY DEF Heartbeat!Answered, Heartbeat!NoCall
<1>3. CASE fenced \/ unconfirmed >= Stale
  <2>1. /\ status' \in {"lost", "stale"} /\ unconfirmed' = unconfirmed
        /\ failures' = failures /\ slow' = slow
    BY <1>3 DEF Heartbeat!Answered, Heartbeat!S, Stale
  <2>2. HeartbeatTypes' BY <1>1, <1>2, <2>1 DEF HeartbeatTypes
  <2>3. Punctual'
    <3> SUFFICES ASSUME ~slow, failures <= 1 PROVE FALSE BY <2>1 DEF Punctual
    <3>1. ~fenced /\ age < Interval /\ unconfirmed <= Due + age
      BY <1>2 DEF HeartbeatInv, Punctual
    <3>2. ~(unconfirmed >= Stale) BY <1>1, <1>2, <3>1 DEF HeartbeatTypes, Due
    <3> QED BY <1>3, <3>1, <3>2
  <2>4. Noticed' BY <2>1 DEF Noticed
  <2>5. SinceTheCall' BY <1>2 DEF SinceTheCall
  <2> QED BY <1>1, <2>2, <2>3, <2>4, <2>5 DEF HeartbeatInv
<1>4. CASE ~(fenced \/ unconfirmed >= Stale)
  <2>1. /\ status' = "run" /\ unconfirmed' = 0 /\ failures' = 0 /\ slow' = (age >= Interval)
    BY <1>2, <1>4 DEF Heartbeat!Answered, Heartbeat!S, Heartbeat!H, Stale, Interval
  <2>2. HeartbeatTypes'
    <3>1. slow' \in BOOLEAN BY <2>1
    <3> QED BY <1>1, <1>2, <2>1, <3>1 DEF HeartbeatTypes
  <2>3. Due' = Interval BY <1>1, <2>1 DEF Due
  <2>4. unheard <= age /\ age \in Nat
    BY <1>1, <1>2, <1>4 DEF HeartbeatInv, SinceTheCall, HeartbeatTypes
  <2>5. Punctual'
    <3> SUFFICES ASSUME ~slow' PROVE Punctual' BY DEF Punctual
    <3>1. age < Interval
      <4>1. ~(age >= Interval) BY <2>1, Zenon
      <4> QED BY <1>1, <2>4, <4>1
    <3>2. ~ticked => toTick + age <= Interval BY <1>2 DEF HeartbeatInv, SinceTheCall
    <3>3. ~ticked => unheard' + toTick' <= Interval /\ unconfirmed' + toTick' <= Interval
      BY <1>1, <1>2, <2>1, <2>4, <3>2 DEF HeartbeatTypes
    <3>4. unheard' <= Interval /\ unconfirmed' <= Interval
      BY <1>1, <1>2, <2>1, <2>4, <3>1 DEF HeartbeatTypes
    <3>5. ~fenced' BY <1>2, <1>4
    <3> QED BY <1>2, <2>1, <2>3, <3>3, <3>4, <3>5 DEF Punctual
  <2>6. Noticed'
    <3>1. unconfirmed' + toTick' < Stale + Interval /\ unconfirmed' < Stale + Interval
      BY <1>1, <1>2, <2>1 DEF HeartbeatTypes
    <3> QED BY <1>1, <1>2, <3>1 DEF Noticed
  <2>7. SinceTheCall' BY <1>2 DEF SinceTheCall
  <2> QED BY <1>1, <2>2, <2>5, <2>6, <2>7 DEF HeartbeatInv
<1> QED BY <1>3, <1>4

(* A call fails; the first failure leaves the loop in time.                 *)
LEMMA BeatFailsKeeps == ASSUME HeartbeatInv, Heartbeat!Fails PROVE HeartbeatInv'
<1> USE HeartbeatTimingsLemma
<1>1. /\ c \in Heartbeat!Accepted /\ c' = c /\ Interval' = Interval /\ Stale' = Stale
      /\ HeartbeatTypes
  BY DEF HeartbeatInv, Heartbeat!Fails, Interval, Stale
<1>2. /\ status = "run" /\ age # -1 /\ age' = -1 /\ toTick' = toTick /\ ticked' = ticked
      /\ served' = served /\ unheard' = unheard /\ fenced' = fenced /\ slow' = slow
      /\ unconfirmed' = unconfirmed
      /\ failures' = IF failures < 3 THEN failures + 1 ELSE failures
      /\ status' = IF unconfirmed >= Stale THEN "stale" ELSE "run"
  BY DEF Heartbeat!Fails, Heartbeat!NoCall, Heartbeat!Capped, Heartbeat!Cap, Heartbeat!S, Stale
<1>3. failures' \in 0 .. 3 BY <1>1, <1>2 DEF HeartbeatTypes
<1>4. HeartbeatTypes' BY <1>1, <1>2, <1>3 DEF HeartbeatTypes
<1>5. Punctual'
  <2> SUFFICES ASSUME ~slow, failures' <= 1 PROVE Punctual' BY <1>2 DEF Punctual
  <2>1. failures = 0 /\ failures' = 1 BY <1>1, <1>2 DEF HeartbeatTypes
  <2>2. Due = Interval /\ Due' = 2 * Interval BY <1>1, <2>1 DEF Due
  <2>3. ~fenced /\ age < Interval /\ unconfirmed <= Due + age /\ unheard <= Due + age
    BY <1>2, <2>1 DEF HeartbeatInv, Punctual
  <2>4. age \in Nat /\ unconfirmed <= 2 * Interval /\ unheard <= 2 * Interval
    BY <1>1, <1>2, <2>2, <2>3 DEF HeartbeatTypes
  <2>5. status' = "run" BY <1>1, <1>2, <2>4 DEF HeartbeatTypes
  <2>6. ~ticked => toTick + age <= Interval BY <1>2 DEF HeartbeatInv, SinceTheCall
  <2>7. ~ticked => unconfirmed + toTick <= 2 * Interval /\ unheard + toTick <= 2 * Interval
    BY <1>1, <2>2, <2>3, <2>4, <2>6 DEF HeartbeatTypes
  <2> QED BY <1>2, <2>2, <2>3, <2>4, <2>5, <2>7 DEF Punctual
<1>6. Noticed'
  <2> SUFFICES ASSUME status' = "run" PROVE Noticed' BY DEF Noticed
  <2>1. unconfirmed < Stale BY <1>1, <1>2 DEF HeartbeatTypes
  <2>2. unconfirmed' + toTick' < Stale + Interval /\ unconfirmed' < Stale + Interval
    BY <1>1, <1>2, <2>1 DEF HeartbeatTypes
  <2> QED BY <1>1, <1>2, <2>2 DEF Noticed
<1>7. SinceTheCall' BY <1>2 DEF SinceTheCall
<1> QED BY <1>1, <1>4, <1>5, <1>6, <1>7 DEF HeartbeatInv

(* The reconciler fences a session only after trouble.                      *)
LEMMA MarkStaleKeeps == ASSUME HeartbeatInv, Heartbeat!MarkStaleSessions PROVE HeartbeatInv'
<1> USE HeartbeatTimingsLemma
<1>1. /\ c \in Heartbeat!Accepted /\ c' = c /\ Interval' = Interval /\ Stale' = Stale
      /\ HeartbeatTypes
  BY DEF HeartbeatInv, Heartbeat!MarkStaleSessions, Interval, Stale
<1>2. /\ fenced' = TRUE /\ unheard > Stale
      /\ status' = status /\ unconfirmed' = unconfirmed /\ toTick' = toTick
      /\ ticked' = ticked /\ age' = age /\ served' = served /\ unheard' = unheard
      /\ failures' = failures /\ slow' = slow
  BY DEF Heartbeat!MarkStaleSessions, Heartbeat!S, Stale
<1>3. HeartbeatTypes' BY <1>1, <1>2 DEF HeartbeatTypes
<1>4. Punctual'
  <2> SUFFICES ASSUME ~slow, failures <= 1 PROVE FALSE BY <1>2 DEF Punctual
  <2>1. /\ age # -1 => age < Interval /\ unheard <= Due + age
        /\ age = -1 /\ ~ticked => unheard + toTick <= Due
        /\ age = -1 /\ ticked => unheard <= Due
    BY DEF HeartbeatInv, Punctual
  <2>2. Due <= 2 * Interval /\ Due \in Int BY <1>1 DEF Due
  <2>3. CASE age # -1 BY <1>1, <1>2, <2>1, <2>2, <2>3 DEF HeartbeatTypes
  <2>4. CASE age = -1
    <3>1. unheard <= Due
      <4>1. CASE ticked BY <2>1, <2>4, <4>1
      <4>2. CASE ~ticked
        <5>1. unheard + toTick <= Due BY <2>1, <2>4, <4>2
        <5> QED BY <1>1, <2>2, <5>1 DEF HeartbeatTypes
      <4> QED BY <4>1, <4>2
    <3> QED BY <1>1, <1>2, <2>2, <3>1 DEF HeartbeatTypes
  <2> QED BY <2>3, <2>4
<1>5. Noticed' BY <1>1, <1>2 DEF HeartbeatInv, Noticed
<1>6. SinceTheCall' BY <1>1, <1>2 DEF HeartbeatInv, SinceTheCall
<1> QED BY <1>1, <1>3, <1>4, <1>5, <1>6 DEF HeartbeatInv

(* No step of the loop, of its calls or of the reconciler breaks the        *)
(* cadence.                                                                 *)
LEMMA HeartbeatKeeps == ASSUME HeartbeatInv, [Heartbeat!Next]_(Heartbeat!vars) PROVE HeartbeatInv'
<1>1. CASE UNCHANGED Heartbeat!vars
  <2>1. /\ c' = c /\ status' = status /\ unconfirmed' = unconfirmed /\ toTick' = toTick
        /\ ticked' = ticked /\ age' = age /\ served' = served /\ unheard' = unheard
        /\ fenced' = fenced /\ failures' = failures /\ slow' = slow
    BY <1>1 DEF Heartbeat!vars
  <2>2. Interval' = Interval /\ Stale' = Stale /\ Due' = Due
    BY <2>1 DEF Interval, Stale, Due
  <2>3. HeartbeatTypes' BY <2>1, <2>2 DEF HeartbeatInv, HeartbeatTypes
  <2>4. Punctual' BY <2>1, <2>2 DEF HeartbeatInv, Punctual
  <2>5. Noticed' BY <2>1, <2>2 DEF HeartbeatInv, Noticed
  <2>6. SinceTheCall' BY <2>1, <2>2 DEF HeartbeatInv, SinceTheCall
  <2>7. c' \in Heartbeat!Accepted' BY <2>1 DEF HeartbeatInv, Heartbeat!Accepted
  <2> QED BY <2>3, <2>4, <2>5, <2>6, <2>7 DEF HeartbeatInv
<1> QED BY <1>1, BeatPassKeeps, BeatKeeps, BeatServeKeeps, BeatAnswerKeeps, BeatFailsKeeps,
           MarkStaleKeeps DEF Heartbeat!Next

(* The invariant says what was promised of heartbeats.                      *)
LEMMA HeartbeatPromises ==
    ASSUME HeartbeatInv
    PROVE  /\ Heartbeat!OnePromptFailureSurvived
           /\ Heartbeat!FencedMeansTrouble
           /\ Heartbeat!SilenceIsBounded
<1>1. failures \in 0 .. 3 BY DEF HeartbeatInv, HeartbeatTypes
<1>2. ~slow /\ failures <= 1 => status = "run" /\ ~fenced BY DEF HeartbeatInv, Punctual
<1>3. Heartbeat!OnePromptFailureSurvived
  BY <1>1, <1>2 DEF Heartbeat!OnePromptFailureSurvived
<1>4. Heartbeat!FencedMeansTrouble
  <2>1. ~(failures >= 1) => failures <= 1 BY <1>1
  <2> QED BY <1>2, <2>1 DEF Heartbeat!FencedMeansTrouble
<1>5. Heartbeat!SilenceIsBounded
  BY DEF HeartbeatInv, Noticed, Heartbeat!SilenceIsBounded, Heartbeat!S, Heartbeat!H, Stale,
         Interval
<1> QED BY <1>3, <1>4, <1>5

------------------------------------------------------------------------------
(* The cadence of renewals                                                  *)

Budget == Renewal!executionBudget(c.LEASE_DURATION)

\* Time since the last confirmed call was sent.
Elapsed == Budget - left

\* When the call after so many failures is sent, counted from the confirmed one.
Turn == IF failures = 0 THEN Renewal!R ELSE 2 * Renewal!R

(* While a call is in progress the ticker counts from where the call began, *)
(* and the call began one interval, or after a failure two, after the       *)
(* confirmed one: the cadence does not drift with the calls' durations.     *)
Cadence ==
    /\ age # Renewal!NoCall /\ age < Renewal!R => toTick = Renewal!R - age /\ ~ticked
    /\ age # Renewal!NoCall /\ age >= Renewal!R => toTick = Renewal!R /\ ticked
    /\ age = Renewal!NoCall /\ ticked => toTick = Renewal!R
    /\ held /\ failures <= 1 =>
          /\ age # Renewal!NoCall => Elapsed = Turn + age
          /\ age = Renewal!NoCall /\ ticked => Elapsed = Turn
          /\ age = Renewal!NoCall /\ ~ticked => Elapsed + toTick = Turn

RenewalInv == c \in Renewal!Accepted /\ Renewal!TypeOK /\ Cadence /\ Renewal!OneRenewalMayFail

(* A sum that does not reach the greatest duration does not wrap (Go's      *)
(* time.Duration).                                                          *)
LEMMA RenewalWrap ==
    ASSUME NEW d \in Nat, d <= MaxDuration PROVE Renewal!Wrap(d) = d
BY CadenceAssumption DEF Renewal!Wrap, Renewal!TimingsAssumption, Renewal!DurationAssumption

(* What Config.Validate and ValidateWorkerTimings leave of the timings.     *)
LEMMA RenewalTimingsLemma ==
    ASSUME NEW t \in Renewal!Accepted
    PROVE  /\ t.LEASE_RENEW_INTERVAL \in Nat \ {0}
           /\ t.LEASE_DURATION \in Nat /\ 3 * t.LEASE_RENEW_INTERVAL <= t.LEASE_DURATION
           /\ t.WORKER_REQUEST_TIMEOUT \in Nat \ {0}
           /\ t.WORKER_REQUEST_TIMEOUT <= t.LEASE_RENEW_INTERVAL
<1>1. /\ t \in RenewalTimings /\ t.LEASE_RENEW_INTERVAL \in Int /\ t.LEASE_DURATION \in Int
      /\ t.WORKER_REQUEST_TIMEOUT \in Nat \ {0}
      /\ 3 * t.LEASE_RENEW_INTERVAL <= MaxDuration
  BY CadenceAssumption DEF Renewal!Accepted, Renewal!TimingsAssumption
<1>2. /\ ~(t.LEASE_RENEW_INTERVAL <= 0)
      /\ ~(Renewal!Thrice(t.LEASE_RENEW_INTERVAL) > t.LEASE_DURATION)
  BY DEF Renewal!Accepted, Renewal!livenessProblems, Renewal!Problem
<1>3. ~(t.WORKER_REQUEST_TIMEOUT > t.LEASE_RENEW_INTERVAL)
  BY DEF Renewal!Accepted, Renewal!ValidateWorkerTimings, Renewal!Problem
<1>4. Renewal!Thrice(t.LEASE_RENEW_INTERVAL) = 3 * t.LEASE_RENEW_INTERVAL
  BY <1>1, <1>2, RenewalWrap DEF Renewal!Thrice
<1> QED BY <1>1, <1>2, <1>3, <1>4

(* The completion margin takes at most a tenth of what remains              *)
(* (executionBudget), so that two renewal intervals are left of three.      *)
LEMMA RenewalBudget ==
    ASSUME NEW t \in Renewal!Accepted
    PROVE  /\ Renewal!executionBudget(t.LEASE_DURATION) \in Nat
           /\ Renewal!executionBudget(t.LEASE_DURATION) <= t.LEASE_DURATION
           /\ Renewal!executionBudget(t.LEASE_DURATION) > 2 * t.LEASE_RENEW_INTERVAL
<1>1. MaxMargin \in Nat BY CadenceAssumption DEF Renewal!TimingsAssumption
<1> QED BY <1>1, RenewalTimingsLemma DEF Renewal!executionBudget, Renewal!Least

(* The two lemmas, of the configuration in force.                           *)
LEMMA RenewalInForce ==
    ASSUME c \in Renewal!Accepted
    PROVE  /\ Renewal!R \in Nat \ {0} /\ Renewal!RT \in Nat \ {0} /\ Renewal!RT <= Renewal!R
           /\ Budget \in Nat /\ Budget <= c.LEASE_DURATION /\ Budget > 2 * Renewal!R
           /\ c.LEASE_DURATION \in Nat
BY RenewalTimingsLemma, RenewalBudget DEF Renewal!R, Renewal!RT, Budget

(* The attempt has its whole lease when the loop begins.                    *)
LEMMA RenewalStarts == ASSUME Renewal!Init PROVE RenewalInv
<1>1. c \in Renewal!Accepted BY DEF Renewal!Init
<1>2. left = Budget BY DEF Renewal!Init, Budget
<1>3. Renewal!TypeOK
  <2> USE <1>1, <1>2, RenewalInForce DEF Renewal!Init, Renewal!NoCall, Renewal!Cap
  <2>1. held \in BOOLEAN /\ ticked \in BOOLEAN BY Zenon
  <2>2. left \in 0 .. c.LEASE_DURATION OBVIOUS
  <2>3. toTick \in 1 .. Renewal!R OBVIOUS
  <2>4. age \in Renewal!NoCall .. Renewal!RT OBVIOUS
  <2>5. failures \in 0 .. Renewal!Cap OBVIOUS
  <2> QED BY <2>1, <2>2, <2>3, <2>4, <2>5 DEF Renewal!TypeOK
<1>4. Cadence
  BY <1>1, <1>2, RenewalInForce DEF Renewal!Init, Cadence, Elapsed, Turn, Renewal!NoCall
<1> QED BY <1>1, <1>3, <1>4 DEF Renewal!Init, RenewalInv, Renewal!OneRenewalMayFail

(* One more unit of time; the authority timer still has one to run.         *)
LEMMA RenewalPassKeeps == ASSUME RenewalInv, Renewal!Pass PROVE RenewalInv'
<1>1. /\ c' = c /\ c \in Renewal!Accepted
      /\ Renewal!R' = Renewal!R /\ Renewal!RT' = Renewal!RT /\ Budget' = Budget
  BY DEF Renewal!Pass, RenewalInv, Renewal!R, Renewal!RT, Budget
<1> USE DEF Renewal!NoCall, Renewal!Cap
<1>2. /\ toTick = 1 => toTick' = Renewal!R /\ ticked'
      /\ toTick # 1 => toTick' = toTick - 1 /\ (ticked' <=> ticked)
  BY Zenon DEF Renewal!Pass
<1>3. /\ age = Renewal!NoCall => age' = Renewal!NoCall /\ ~ticked
      /\ age # Renewal!NoCall => age' = age + 1 /\ age < Renewal!RT
  BY DEF Renewal!Pass
<1>4. /\ left' = left - 1 /\ (held' <=> held) /\ failures' = failures
      /\ Turn' = Turn /\ Turn \in Int
  BY <1>1, RenewalInForce DEF Renewal!Pass, Turn
<1>5. Renewal!TypeOK'
  <2>1. (held \in BOOLEAN /\ ticked \in BOOLEAN)'
    BY <1>1, RenewalInForce DEF Renewal!Pass, RenewalInv, Renewal!TypeOK
  <2>2. (left \in 0 .. c.LEASE_DURATION)'
    BY <1>1, RenewalInForce DEF Renewal!Pass, RenewalInv, Renewal!TypeOK
  <2>3. (toTick \in 1 .. Renewal!R)'
    BY <1>1, RenewalInForce DEF Renewal!Pass, RenewalInv, Renewal!TypeOK
  <2>4. (age \in Renewal!NoCall .. Renewal!RT)'
    BY <1>1, RenewalInForce DEF Renewal!Pass, RenewalInv, Renewal!TypeOK
  <2>5. (failures \in 0 .. Renewal!Cap)'
    BY <1>1, RenewalInForce DEF Renewal!Pass, RenewalInv, Renewal!TypeOK
  <2> QED BY <2>1, <2>2, <2>3, <2>4, <2>5 DEF Renewal!TypeOK
<1>6. Cadence'
  <2>1. (age # Renewal!NoCall /\ age < Renewal!R => toTick = Renewal!R - age /\ ~ticked)'
    BY <1>1, <1>2, <1>3, <1>4, RenewalInForce DEF RenewalInv, Renewal!TypeOK, Cadence, Elapsed
  <2>2. (age # Renewal!NoCall /\ age >= Renewal!R => toTick = Renewal!R /\ ticked)'
    BY <1>1, <1>2, <1>3, <1>4, RenewalInForce DEF RenewalInv, Renewal!TypeOK, Cadence, Elapsed
  <2>3. (age = Renewal!NoCall /\ ticked => toTick = Renewal!R)'
    BY <1>1, <1>2, <1>3, <1>4, RenewalInForce DEF RenewalInv, Renewal!TypeOK, Cadence, Elapsed
  <2>4. (held /\ failures <= 1 /\ age # Renewal!NoCall => Elapsed = Turn + age)'
    BY <1>1, <1>2, <1>3, <1>4, RenewalInForce DEF RenewalInv, Renewal!TypeOK, Cadence, Elapsed
  <2>5. (held /\ failures <= 1 /\ age = Renewal!NoCall /\ ticked => Elapsed = Turn)'
    BY <1>1, <1>2, <1>3, <1>4, RenewalInForce DEF RenewalInv, Renewal!TypeOK, Cadence, Elapsed
  <2>6. (held /\ failures <= 1 /\ age = Renewal!NoCall /\ ~ticked => Elapsed + toTick = Turn)'
    BY <1>1, <1>2, <1>3, <1>4, RenewalInForce DEF RenewalInv, Renewal!TypeOK, Cadence, Elapsed
  <2> QED BY <2>1, <2>2, <2>3, <2>4, <2>5, <2>6 DEF Cadence
<1>7. Renewal!OneRenewalMayFail' BY DEF Renewal!Pass, Renewal!OneRenewalMayFail
<1> QED BY <1>1, <1>5, <1>6, <1>7 DEF RenewalInv

(* Before the second failure the ticker comes first.                        *)
LEMMA WakesKeeps == ASSUME RenewalInv, Renewal!Wakes PROVE RenewalInv'
<1>1. /\ c' = c /\ c \in Renewal!Accepted
      /\ Renewal!R' = Renewal!R /\ Renewal!RT' = Renewal!RT /\ Budget' = Budget
  BY DEF Renewal!Wakes, RenewalInv, Renewal!R, Renewal!RT, Budget
<1> USE DEF Renewal!NoCall, Renewal!Cap
<1>2. failures <= 1 => left > 0
  BY <1>1, RenewalInForce DEF Renewal!Wakes, RenewalInv, Renewal!TypeOK, Cadence, Elapsed, Turn
<1>3. /\ ~ticked' /\ toTick' = toTick
      /\ left = 0 => age' = Renewal!NoCall
      /\ left # 0 => age' = 0 /\ toTick = Renewal!R
  BY <1>2, Zenon DEF Renewal!Wakes, RenewalInv, Cadence
<1>5. Renewal!TypeOK'
  <2>1. (held \in BOOLEAN /\ ticked \in BOOLEAN)'
    BY <1>1, <1>2, RenewalInForce, Zenon DEF Renewal!Wakes, RenewalInv, Renewal!TypeOK
  <2>2. (left \in 0 .. c.LEASE_DURATION)'
    BY <1>1, <1>2, RenewalInForce DEF Renewal!Wakes, RenewalInv, Renewal!TypeOK
  <2>3. (toTick \in 1 .. Renewal!R)'
    BY <1>1, <1>2, RenewalInForce DEF Renewal!Wakes, RenewalInv, Renewal!TypeOK
  <2>4. (age \in Renewal!NoCall .. Renewal!RT)' BY <1>1, <1>3, RenewalInForce
  <2>5. (failures \in 0 .. Renewal!Cap)'
    BY <1>1, <1>2, RenewalInForce DEF Renewal!Wakes, RenewalInv, Renewal!TypeOK
  <2> QED BY <2>1, <2>2, <2>3, <2>4, <2>5 DEF Renewal!TypeOK
<1>6. Cadence'
  <2>1. (age # Renewal!NoCall /\ age < Renewal!R => toTick = Renewal!R - age /\ ~ticked)'
    BY <1>1, <1>3, RenewalInForce
  <2>2. (age # Renewal!NoCall /\ age >= Renewal!R => toTick = Renewal!R /\ ticked)'
    BY <1>1, <1>3, RenewalInForce
  <2>3. (age = Renewal!NoCall /\ ticked => toTick = Renewal!R)'
    BY <1>1, <1>2, RenewalInForce DEF Renewal!Wakes, RenewalInv, Renewal!TypeOK, Cadence,
       Elapsed, Turn
  <2>4. (held /\ failures <= 1 /\ age # Renewal!NoCall => Elapsed = Turn + age)'
    BY <1>1, <1>2, RenewalInForce DEF Renewal!Wakes, RenewalInv, Renewal!TypeOK, Cadence,
       Elapsed, Turn
  <2>5. (held /\ failures <= 1 /\ age = Renewal!NoCall /\ ticked => Elapsed = Turn)'
    BY <1>1, <1>2, RenewalInForce DEF Renewal!Wakes, RenewalInv, Renewal!TypeOK, Cadence,
       Elapsed, Turn
  <2>6. (held /\ failures <= 1 /\ age = Renewal!NoCall /\ ~ticked => Elapsed + toTick = Turn)'
    BY <1>1, <1>2, RenewalInForce DEF Renewal!Wakes, RenewalInv, Renewal!TypeOK, Cadence,
       Elapsed, Turn
  <2> QED BY <2>1, <2>2, <2>3, <2>4, <2>5, <2>6 DEF Cadence
<1>7. Renewal!OneRenewalMayFail'
  <2>1. left = 0 => failures >= 2 BY <1>2 DEF RenewalInv, Renewal!TypeOK
  <2>2. ~held' => left = 0 BY Zenon DEF Renewal!Wakes
  <2> QED BY <2>1, <2>2 DEF Renewal!Wakes, Renewal!OneRenewalMayFail
<1> QED BY <1>1, <1>5, <1>6, <1>7 DEF RenewalInv

(* A call that is answered, in time or too late.                            *)
LEMMA ConfirmedKeeps == ASSUME RenewalInv, Renewal!Confirmed PROVE RenewalInv'
<1>1. /\ c' = c /\ c \in Renewal!Accepted
      /\ Renewal!R' = Renewal!R /\ Renewal!RT' = Renewal!RT /\ Budget' = Budget
  BY DEF Renewal!Confirmed, RenewalInv, Renewal!R, Renewal!RT, Budget
<1> USE DEF Renewal!NoCall, Renewal!Cap
<1>2. failures = 0 => left > 0
  BY <1>1, RenewalInForce DEF Renewal!Confirmed, RenewalInv, Renewal!TypeOK, Cadence, Elapsed,
     Turn
<1>3. age \in Nat /\ Budget - age > 0 /\ Budget - age \in Int
  BY <1>1, RenewalInForce DEF Renewal!Confirmed, RenewalInv, Renewal!TypeOK
<1>4. \/ /\ left = 0 /\ held' = FALSE /\ left' = left
         /\ failures' = Renewal!Least(failures + 1, Renewal!Cap)
      \/ left # 0 /\ left' = Budget - age /\ failures' = 0 /\ held' = held
  <2>1. ~(Budget - age <= 0) BY <1>3
  <2> QED BY <2>1, ZenonT(30) DEF Renewal!Confirmed, Budget
<1>5. Renewal!TypeOK'
  <2>1. (held \in BOOLEAN /\ ticked \in BOOLEAN)'
    BY <1>1, <1>3, <1>4, RenewalInForce, ZenonT(30) DEF Renewal!Confirmed, RenewalInv, Renewal!TypeOK,
       Renewal!Least
  <2>2. (left \in 0 .. c.LEASE_DURATION)'
    BY <1>1, <1>3, <1>4, RenewalInForce DEF RenewalInv, Renewal!TypeOK, Renewal!Least
  <2>3. (toTick \in 1 .. Renewal!R)'
    BY <1>1, <1>3, <1>4, RenewalInForce DEF Renewal!Confirmed, RenewalInv, Renewal!TypeOK,
       Renewal!Least
  <2>4. (age \in Renewal!NoCall .. Renewal!RT)'
    BY <1>1, <1>3, <1>4, RenewalInForce DEF Renewal!Confirmed, RenewalInv, Renewal!TypeOK,
       Renewal!Least
  <2>5. (failures \in 0 .. Renewal!Cap)'
    BY <1>1, <1>3, <1>4, RenewalInForce DEF RenewalInv, Renewal!TypeOK, Renewal!Least
  <2> QED BY <2>1, <2>2, <2>3, <2>4, <2>5 DEF Renewal!TypeOK
<1>6. Cadence'
  <2>1. (age # Renewal!NoCall /\ age < Renewal!R => toTick = Renewal!R - age /\ ~ticked)'
    BY <1>1, <1>3, <1>4, RenewalInForce DEF Renewal!Confirmed, RenewalInv, Renewal!TypeOK,
       Cadence, Elapsed, Turn, Renewal!Least
  <2>2. (age # Renewal!NoCall /\ age >= Renewal!R => toTick = Renewal!R /\ ticked)'
    BY <1>1, <1>3, <1>4, RenewalInForce DEF Renewal!Confirmed, RenewalInv, Renewal!TypeOK,
       Cadence, Elapsed, Turn, Renewal!Least
  <2>3. (age = Renewal!NoCall /\ ticked => toTick = Renewal!R)'
    BY <1>1, <1>3, <1>4, RenewalInForce DEF Renewal!Confirmed, RenewalInv, Renewal!TypeOK,
       Cadence, Elapsed, Turn, Renewal!Least
  <2>4. (held /\ failures <= 1 /\ age # Renewal!NoCall => Elapsed = Turn + age)'
    BY <1>1, <1>3, <1>4, RenewalInForce DEF Renewal!Confirmed, RenewalInv, Renewal!TypeOK,
       Cadence, Elapsed, Turn, Renewal!Least
  <2>5. (held /\ failures <= 1 /\ age = Renewal!NoCall /\ ticked => Elapsed = Turn)'
    BY <1>1, <1>3, <1>4, RenewalInForce DEF Renewal!Confirmed, RenewalInv, Renewal!TypeOK,
       Cadence, Elapsed, Turn, Renewal!Least
  <2>6. (held /\ failures <= 1 /\ age = Renewal!NoCall /\ ~ticked => Elapsed + toTick = Turn)'
    BY <1>1, <1>3, <1>4, RenewalInForce DEF Renewal!Confirmed, RenewalInv, Renewal!TypeOK,
       Cadence, Elapsed, Turn, Renewal!Least
  <2> QED BY <2>1, <2>2, <2>3, <2>4, <2>5, <2>6 DEF Cadence
<1>7. Renewal!OneRenewalMayFail'
  <2>1. CASE left = 0
    <3>1. failures >= 1 BY <1>2, <2>1 DEF RenewalInv, Renewal!TypeOK
    <3>2. failures' >= 2 BY <1>4, <2>1, <3>1 DEF RenewalInv, Renewal!TypeOK, Renewal!Least
    <3> QED BY <3>2 DEF Renewal!OneRenewalMayFail
  <2>2. CASE left # 0 BY <1>4, <2>2, Zenon DEF Renewal!Confirmed, Renewal!OneRenewalMayFail
  <2> QED BY <2>1, <2>2
<1> QED BY <1>1, <1>5, <1>6, <1>7 DEF RenewalInv

(* A call that fails: the next is sent when it would have been anyway.      *)
LEMMA RenewalFailsKeeps == ASSUME RenewalInv, Renewal!Fails PROVE RenewalInv'
<1>1. /\ c' = c /\ c \in Renewal!Accepted
      /\ Renewal!R' = Renewal!R /\ Renewal!RT' = Renewal!RT /\ Budget' = Budget
  BY DEF Renewal!Fails, RenewalInv, Renewal!R, Renewal!RT, Budget
<1> USE DEF Renewal!NoCall, Renewal!Cap
<1>2. failures = 0 => left > 0
  BY <1>1, RenewalInForce DEF Renewal!Fails, RenewalInv, Renewal!TypeOK, Cadence, Elapsed, Turn
<1>5. Renewal!TypeOK'
  <2>1. (held \in BOOLEAN /\ ticked \in BOOLEAN)'
    BY <1>1, <1>2, RenewalInForce DEF Renewal!Fails, RenewalInv, Renewal!TypeOK, Renewal!Least
  <2>2. (left \in 0 .. c.LEASE_DURATION)'
    BY <1>1, <1>2, RenewalInForce DEF Renewal!Fails, RenewalInv, Renewal!TypeOK, Renewal!Least
  <2>3. (toTick \in 1 .. Renewal!R)'
    BY <1>1, <1>2, RenewalInForce DEF Renewal!Fails, RenewalInv, Renewal!TypeOK, Renewal!Least
  <2>4. (age \in Renewal!NoCall .. Renewal!RT)'
    BY <1>1, <1>2, RenewalInForce DEF Renewal!Fails, RenewalInv, Renewal!TypeOK, Renewal!Least
  <2>5. (failures \in 0 .. Renewal!Cap)'
    BY <1>1, <1>2, RenewalInForce DEF Renewal!Fails, RenewalInv, Renewal!TypeOK, Renewal!Least
  <2> QED BY <2>1, <2>2, <2>3, <2>4, <2>5 DEF Renewal!TypeOK
<1>6. Cadence'
  <2>1. (age # Renewal!NoCall /\ age < Renewal!R => toTick = Renewal!R - age /\ ~ticked)'
    BY <1>1, <1>2, RenewalInForce DEF Renewal!Fails, RenewalInv, Renewal!TypeOK, Cadence,
       Elapsed, Turn, Renewal!Least
  <2>2. (age # Renewal!NoCall /\ age >= Renewal!R => toTick = Renewal!R /\ ticked)'
    BY <1>1, <1>2, RenewalInForce DEF Renewal!Fails, RenewalInv, Renewal!TypeOK, Cadence,
       Elapsed, Turn, Renewal!Least
  <2>3. (age = Renewal!NoCall /\ ticked => toTick = Renewal!R)'
    BY <1>1, <1>2, RenewalInForce DEF Renewal!Fails, RenewalInv, Renewal!TypeOK, Cadence,
       Elapsed, Turn, Renewal!Least
  <2>4. (held /\ failures <= 1 /\ age # Renewal!NoCall => Elapsed = Turn + age)'
    BY <1>1, <1>2, RenewalInForce DEF Renewal!Fails, RenewalInv, Renewal!TypeOK, Cadence,
       Elapsed, Turn, Renewal!Least
  <2>5. (held /\ failures <= 1 /\ age = Renewal!NoCall /\ ticked => Elapsed = Turn)'
    BY <1>1, <1>2, RenewalInForce DEF Renewal!Fails, RenewalInv, Renewal!TypeOK, Cadence,
       Elapsed, Turn, Renewal!Least
  <2>6. (held /\ failures <= 1 /\ age = Renewal!NoCall /\ ~ticked => Elapsed + toTick = Turn)'
    BY <1>1, <1>2, RenewalInForce DEF Renewal!Fails, RenewalInv, Renewal!TypeOK, Cadence,
       Elapsed, Turn, Renewal!Least
  <2> QED BY <2>1, <2>2, <2>3, <2>4, <2>5, <2>6 DEF Cadence
<1>7. Renewal!OneRenewalMayFail'
  <2>1. ~(left > 0) => failures' >= 2
    BY <1>2 DEF Renewal!Fails, RenewalInv, Renewal!TypeOK, Renewal!Least
  <2> QED BY <2>1, Zenon DEF Renewal!Fails, Renewal!OneRenewalMayFail
<1> QED BY <1>1, <1>5, <1>6, <1>7 DEF RenewalInv

(* No step of the renewal loop, of its calls or of its timer breaks the     *)
(* cadence.                                                                 *)
LEMMA RenewalKeeps == ASSUME RenewalInv, [Renewal!Next]_(Renewal!vars) PROVE RenewalInv'
<1>1. CASE UNCHANGED Renewal!vars
  BY <1>1 DEF Renewal!vars, RenewalInv, Renewal!Accepted, Renewal!TypeOK, Cadence,
     Renewal!OneRenewalMayFail, Elapsed, Turn, Budget, Renewal!R, Renewal!RT
<1> QED BY <1>1, RenewalPassKeeps, WakesKeeps, ConfirmedKeeps, RenewalFailsKeeps
        DEF Renewal!Next

------------------------------------------------------------------------------
(* The cadence                                                              *)

CadenceInv == (part = "heartbeat" => HeartbeatInv) /\ (part = "renewal" => RenewalInv)

(* Each part begins as its invariant requires, keeps it, and is alone.      *)
LEMMA CadenceInvariant == CadenceSpec => []CadenceInv
<1>1. CadenceInit => CadenceInv
  BY HeartbeatStarts, RenewalStarts DEF CadenceInit, HeartbeatInit, RenewalInit, CadenceInv
<1>2. ASSUME CadenceInv, [CadenceNext]_cadenceVars PROVE CadenceInv'
  <2>1. CASE HeartbeatNext BY <1>2, <2>1, HeartbeatKeeps DEF HeartbeatNext, CadenceInv
  <2>2. CASE RenewalNext BY <1>2, <2>2, RenewalKeeps DEF RenewalNext, CadenceInv
  <2>3. CASE UNCHANGED cadenceVars
    <3>1. UNCHANGED Heartbeat!vars BY <2>3 DEF cadenceVars, ofHeartbeat, Heartbeat!vars
    <3>2. UNCHANGED Renewal!vars BY <2>3 DEF cadenceVars, ofRenewal, Renewal!vars
    <3> QED BY <1>2, <2>3, <3>1, <3>2, HeartbeatKeeps, RenewalKeeps DEF CadenceInv, cadenceVars
  <2> QED BY <1>2, <2>1, <2>2, <2>3 DEF CadenceNext
<1> QED BY <1>1, <1>2, PTL DEF CadenceSpec

(* Whatever the timings, if they are accepted and three intervals do not    *)
(* wrap, one prompt failure of a heartbeat, or any one of a renewal, costs  *)
(* neither the session nor the lease, and a silence is noticed in time      *)
(* (Config.Validate, ValidateWorkerTimings, runHeartbeat, startRenewal).    *)
THEOREM AcceptedTimingsSuffice == CadenceSpec => []TimingsSuffice
<1>1. RenewalInv => Renewal!OneRenewalMayFail BY DEF RenewalInv
<1>2. CadenceInv => TimingsSuffice
  BY <1>1, HeartbeatPromises DEF CadenceInv, TimingsSuffice
<1> QED BY <1>2, CadenceInvariant, PTL
==============================================================================
