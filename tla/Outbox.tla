------------------------------- MODULE Outbox -------------------------------
(***************************************************************************)
(* The outbox publishers of TaskForge (internal/outbox): several processes *)
(* drain one outbox_events table to the broker.                            *)
(*                                                                         *)
(* ClaimDue, MarkPublished and RecordFailure are single statements and so  *)
(* atomic steps (FOR UPDATE SKIP LOCKED makes two overlapping claims equal *)
(* to some serial order of them).  Between the statements a publisher      *)
(* holds nothing but its memory, so every step of RunOnce is an action.    *)
(*                                                                         *)
(* Time is relative: "wait" is available_at - now(), never counted below   *)
(* -Overdue, so behaviours are endless and liveness can be checked.  The   *)
(* wait of a published row, which no statement reads, is kept at 0.        *)
(*                                                                         *)
(* A fault is a database call or a publish that fails, whether or not it   *)
(* took effect, a crash, or a SIGTERM; at most MaxFaults of them happen.   *)
(* After a crash or an orderly exit the supervisor starts the publisher    *)
(* again.  Calls made with a cancelled context fail without being counted. *)
(***************************************************************************)
EXTENDS Integers, FiniteSets

CONSTANTS
    Publishers,
    Events,
    BatchSize, ClaimTimeout,            \* PublisherConfig
    Base, Multiplier, MaxDelay, Jitter, \* BackoffPolicy; Jitter in percent
    Saturation,   \* attempts beyond which the delay no longer grows
    Overdue,      \* how far a due event's lateness is told apart
    MaxFaults,    \* bound on faults
    NULL

\* growth[n] is Multiplier^(n-1), the factor of the n-th attempt.
growth[n \in Nat] == IF n <= 1 THEN 1 ELSE Multiplier * growth[n - 1]

OutboxAssumption ==
    /\ BatchSize \in Nat \ {0}
    /\ ClaimTimeout \in Nat \ {0}
    /\ Base \in Nat \ {0}
    /\ Multiplier \in Nat \ {0}
    /\ MaxDelay \in Nat
    /\ Base <= MaxDelay
    /\ Jitter \in 0 .. 100
    /\ Saturation \in Nat \ {0}
    /\ Overdue \in Nat
    /\ MaxFaults \in Nat
    /\ NULL \notin Events

SaturationAssumption ==
    Multiplier = 1 \/ Base * growth[Saturation] >= MaxDelay

VARIABLES
    outbox,     \* event -> row of outbox_events
    delivered,  \* events the broker has accepted at least once
    pc,         \* publisher -> where its loop is
    batch,      \* publisher -> event it still holds -> attempts it read
    cur,        \* publisher -> event being published, or NULL
    full,       \* publisher -> the last claim filled the batch
    failed,     \* publisher -> Stats.Failed > 0 in this pass
    stopping,   \* publisher -> its context is cancelled
    age,        \* publisher -> time since its claim, up to ClaimTimeout
    overran,    \* history: some publisher held an event past its window
    faults      \* faults still to come

vars == <<outbox, delivered, pc, batch, cur, full, failed, stopping, age,
          overran, faults>>

local == <<pc, batch, cur, full, failed, stopping, age>>

\* A row as the publisher sees it.
Row == [status : {"PENDING", "PUBLISHED"}, wait : Int, attempts : Nat]

Event(status, wait, attempts) ==
    [status |-> status, wait |-> wait, attempts |-> attempts]

NoEvents == [e \in {} |-> 0]

Init ==
    /\ outbox = [e \in {} |-> Event("PENDING", 0, 0)]
    /\ delivered = {}
    /\ pc = [p \in Publishers |-> "idle"]
    /\ batch = [p \in Publishers |-> NoEvents]
    /\ cur = [p \in Publishers |-> NULL]
    /\ full = [p \in Publishers |-> FALSE]
    /\ failed = [p \in Publishers |-> FALSE]
    /\ stopping = [p \in Publishers |-> FALSE]
    /\ age = [p \in Publishers |-> 0]
    /\ overran = FALSE
    /\ faults = MaxFaults

-----------------------------------------------------------------------------
(* Backoff                                                                 *)

Capped(d) == IF d > MaxDelay THEN MaxDelay ELSE d

\* The delays Delay may return after the given attempts: the capped growth,
\* scaled by a factor of the jitter interval and capped again.
Delay(attempts) ==
    LET d == Capped(Base * growth[attempts])
    IN  {Capped(x) : x \in (d * (100 - Jitter)) \div 100 ..
                           (d * (100 + Jitter)) \div 100}

-----------------------------------------------------------------------------
(* Statements of the store                                                 *)

Pending(e) == e \in DOMAIN outbox /\ outbox[e].status = "PENDING"

\* Seeded fault: a row once claimed stays with its claimant (no visibility
\* timeout).
NeverClaimed(e) == Pending(e) /\ outbox[e].attempts = 0 /\ outbox[e].wait <= 0

Due(e) == Pending(e) /\ outbox[e].wait <= 0

\* ORDER BY available_at, id LIMIT limit: no due row left out is older.
DueBatch(S) ==
    /\ Cardinality(S) <= BatchSize
    /\ \A e \in S : Due(e)
    /\ \A e \in DOMAIN outbox \ S : Due(e) =>
          /\ Cardinality(S) = BatchSize
          /\ \A f \in S : outbox[f].wait <= outbox[e].wait

NextAttempt(n) == IF n < Saturation THEN n + 1 ELSE n

\* Seeded fault: the claim counts the attempt but leaves available_at alone.
ClaimedInPlace(S) ==
    [e \in DOMAIN outbox |->
        IF e \in S
        THEN Event(outbox[e].status, outbox[e].wait, NextAttempt(outbox[e].attempts))
        ELSE outbox[e]]

Claimed(S) ==
    [e \in DOMAIN outbox |->
        IF e \in S
        THEN Event(outbox[e].status, ClaimTimeout, NextAttempt(outbox[e].attempts))
        ELSE outbox[e]]

Marked(e) ==
    IF Pending(e)
    THEN [outbox EXCEPT ![e] = Event("PUBLISHED", 0, outbox[e].attempts)] ELSE outbox

Delayed(e, d) ==
    IF Pending(e)
    THEN [outbox EXCEPT ![e] = Event(outbox[e].status, d, outbox[e].attempts)] ELSE outbox

-----------------------------------------------------------------------------
(* Publisher.Run, drain and RunOnce                                        *)

\* A call of p fails: one of the counted faults, or a cancelled context.
Fault(p) ==
    \/ faults > 0 /\ faults' = faults - 1
    \/ stopping[p] /\ UNCHANGED faults

\* A call that a cancelled context does not reach fails.
CountedFault == faults > 0 /\ faults' = faults - 1

ToIdle(p) ==
    /\ pc' = [pc EXCEPT ![p] = "idle"]
    /\ batch' = [batch EXCEPT ![p] = NoEvents]
    /\ cur' = [cur EXCEPT ![p] = NULL]
    /\ full' = [full EXCEPT ![p] = FALSE]
    /\ failed' = [failed EXCEPT ![p] = FALSE]
    /\ age' = [age EXCEPT ![p] = 0]

\* A transaction elsewhere commits a work.available event, due at once.
Insert(e) ==
    /\ e \notin DOMAIN outbox
    /\ outbox' = [x \in DOMAIN outbox \cup {e} |->
                    IF x = e THEN Event("PENDING", 0, 0) ELSE outbox[x]]
    /\ UNCHANGED <<delivered, local, overran, faults>>

\* The poll ticker fires and drain begins its first pass.
PollTick(p) ==
    /\ pc[p] = "idle"
    /\ pc' = [pc EXCEPT ![p] = "claim"]
    /\ UNCHANGED <<outbox, delivered, batch, cur, full, failed, stopping, age,
                   overran, faults>>

\* Run sees its context done and returns; the next process takes over.
Stopped(p) ==
    /\ pc[p] = "idle"
    /\ stopping[p]
    /\ stopping' = [stopping EXCEPT ![p] = FALSE]
    /\ UNCHANGED <<outbox, delivered, pc, batch, cur, full, failed, age,
                   overran, faults>>

\* The claim commits before anything is published.
ClaimDue(p) ==
    /\ pc[p] = "claim"
    /\ \E S \in SUBSET DOMAIN outbox :
          /\ DueBatch(S)
          /\ outbox' = Claimed(S)
          /\ batch' = [batch EXCEPT ![p] = [e \in S |-> NextAttempt(outbox[e].attempts)]]
          /\ full' = [full EXCEPT ![p] = Cardinality(S) = BatchSize]
    /\ pc' = [pc EXCEPT ![p] = "next"]
    /\ failed' = [failed EXCEPT ![p] = FALSE]
    /\ age' = [age EXCEPT ![p] = 0]
    /\ UNCHANGED <<delivered, cur, stopping, overran, faults>>

\* The claim fails, before or after it committed; the pass and drain end.
ClaimFails(p) ==
    /\ pc[p] = "claim"
    /\ Fault(p)
    /\ \/ UNCHANGED outbox
       \/ \E S \in SUBSET DOMAIN outbox : DueBatch(S) /\ outbox' = Claimed(S)
    /\ ToIdle(p)
    /\ UNCHANGED <<delivered, stopping, overran>>

\* The head of RunOnce's loop over the batch, whose order is unspecified.
TakeEvent(p) ==
    /\ pc[p] = "next"
    /\ ~stopping[p]
    /\ \E e \in DOMAIN batch[p] : cur' = [cur EXCEPT ![p] = e]
    /\ pc' = [pc EXCEPT ![p] = "publish"]
    /\ UNCHANGED <<outbox, delivered, batch, full, failed, stopping, age,
                   overran, faults>>

\* The pass ends: the batch is done, or the context is.  drain goes round
\* again only after a full batch without a failure.
EndPass(p) ==
    /\ pc[p] = "next"
    /\ stopping[p] \/ DOMAIN batch[p] = {}
    /\ IF full[p] /\ ~failed[p] /\ ~stopping[p]
       THEN /\ pc' = [pc EXCEPT ![p] = "claim"]
            /\ UNCHANGED <<batch, cur, full, failed, age>>
       ELSE ToIdle(p)
    /\ UNCHANGED <<outbox, delivered, stopping, overran, faults>>

PublishSucceeds(p) ==
    /\ pc[p] = "publish"
    /\ delivered' = delivered \cup {cur[p]}
    /\ pc' = [pc EXCEPT ![p] = "mark"]
    /\ UNCHANGED <<outbox, batch, cur, full, failed, stopping, age, overran,
                   faults>>

\* The envelope cannot be built or the broker's answer is an error; the
\* broker may have accepted the message all the same.
PublishFails(p) ==
    /\ pc[p] = "publish"
    /\ Fault(p)
    /\ delivered' \in {delivered, delivered \cup {cur[p]}}
    /\ failed' = [failed EXCEPT ![p] = TRUE]
    /\ pc' = [pc EXCEPT ![p] = "record"]
    /\ UNCHANGED <<outbox, batch, cur, full, stopping, age, overran>>

\* The event leaves the publisher's hands.
Release(p) ==
    /\ pc' = [pc EXCEPT ![p] = "next"]
    /\ batch' = [batch EXCEPT ![p] = [e \in DOMAIN batch[p] \ {cur[p]} |-> batch[p][e]]]
    /\ cur' = [cur EXCEPT ![p] = NULL]

\* Marks the row, or finds that another publisher has (AlreadyPublished).
MarkPublished(p) ==
    /\ pc[p] = "mark"
    /\ outbox' = Marked(cur[p])
    /\ Release(p)
    /\ UNCHANGED <<delivered, full, failed, stopping, age, overran, faults>>

\* The event was published but perhaps not marked; it will be published
\* again when its window ends.
MarkFails(p) ==
    /\ pc[p] = "mark"
    /\ Fault(p)
    /\ outbox' \in {outbox, Marked(cur[p])}
    /\ failed' = [failed EXCEPT ![p] = TRUE]
    /\ Release(p)
    /\ UNCHANGED <<delivered, full, stopping, age, overran>>

\* recordFailure: the backoff is stored under a detached context; when that
\* fails too, the claim's own window stands.
RecordFailure(p) ==
    /\ pc[p] = "record"
    /\ \/ /\ \E d \in Delay(batch[p][cur[p]]) : outbox' = Delayed(cur[p], d)
          /\ UNCHANGED faults
       \/ CountedFault /\ UNCHANGED outbox
    /\ Release(p)
    /\ UNCHANGED <<delivered, full, failed, stopping, age, overran>>

Sigterm(p) ==
    /\ ~stopping[p]
    /\ CountedFault
    /\ stopping' = [stopping EXCEPT ![p] = TRUE]
    /\ UNCHANGED <<outbox, delivered, pc, batch, cur, full, failed, age, overran>>

\* The process dies between any two steps and is started again.
Crash(p) ==
    /\ CountedFault
    /\ ToIdle(p)
    /\ stopping' = [stopping EXCEPT ![p] = FALSE]
    /\ UNCHANGED <<outbox, delivered, overran>>

\* One unit of time passes, at any point of any publisher's pass.
Tick ==
    /\ outbox' = [e \in DOMAIN outbox |->
                    IF Pending(e) /\ outbox[e].wait > -Overdue
                    THEN Event(outbox[e].status, outbox[e].wait - 1, outbox[e].attempts)
                    ELSE outbox[e]]
    /\ age' = [p \in Publishers |->
                 IF pc[p] # "idle" /\ age[p] < ClaimTimeout
                 THEN age[p] + 1 ELSE age[p]]
    /\ overran' = (overran \/ \E p \in Publishers :
                                /\ DOMAIN batch[p] # {}
                                /\ age[p] + 1 >= ClaimTimeout)
    /\ UNCHANGED <<delivered, pc, batch, cur, full, failed, stopping, faults>>

-----------------------------------------------------------------------------
Progress(p) ==
    \/ PollTick(p)
    \/ ClaimDue(p)
    \/ TakeEvent(p)
    \/ EndPass(p)
    \/ PublishSucceeds(p)
    \/ PublishFails(p)
    \/ MarkPublished(p)
    \/ MarkFails(p)
    \/ RecordFailure(p)
    \/ ClaimFails(p)

Next ==
    \/ \E e \in Events : Insert(e)
    \/ \E p \in Publishers : Progress(p) \/ Stopped(p) \/ Sigterm(p) \/ Crash(p)
    \/ Tick

Spec == Init /\ [][Next]_vars

-----------------------------------------------------------------------------
(* Properties                                                              *)

\* No event is recorded as published unless the broker has accepted it:
\* publish comes before mark, whatever fails in between (RunOnce).
MarkedOnlyAfterDelivery ==
    \A e \in DOMAIN outbox : outbox[e].status = "PUBLISHED" => e \in delivered

\* As long as every publisher finishes its batch within ClaimTimeout, no two
\* publishers ever hold the same event: the claim's window, and a recorded
\* failure's shorter one, keep it exclusive (ClaimDue, RecordFailure).  The
\* window is that of the batch, not of the event, and a late RecordFailure
\* cuts a successor's window short, so one overrun ends the guarantee.
ExclusiveUnlessOverrun ==
    ~overran => \A p, q \in Publishers :
                   p # q => DOMAIN batch[p] \cap DOMAIN batch[q] = {}

\* A published row is never claimed, delayed or marked again, not even by a
\* publisher that claimed it earlier and answers late.
PublishedStays ==
    \A e \in DOMAIN outbox : outbox[e].status = "PUBLISHED" =>
        /\ outbox'[e].status = "PUBLISHED"
        /\ outbox'[e].attempts = outbox[e].attempts

\* The two ends of an event's way through the outbox.
Inserted(e) == e \in DOMAIN outbox
Published(e) == e \in DOMAIN outbox /\ outbox[e].status = "PUBLISHED"

=============================================================================
