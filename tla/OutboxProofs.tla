---------------------------- MODULE OutboxProofs ----------------------------
(***************************************************************************)
(* What the publishers of Outbox guarantee for any number of publishers,   *)
(* events and faults, and any batch size, claim timeout and backoff.       *)
(*                                                                         *)
(* Marking is safe because a publisher is at "mark" only with an event the *)
(* broker has.  Exclusivity rests on the claim's window: while nobody      *)
(* overran, an event in a publisher's hands is in nobody else's, and is    *)
(* not due before the publisher's own window ends.                         *)
(***************************************************************************)
EXTENDS Outbox, TLAPS

\* The time each leaf is given.
USE SMTT(20), ZenonT(20)

Batches == UNION {[S -> Nat] : S \in SUBSET Events}
Outboxes == UNION {[S -> Row] : S \in SUBSET Events}

(* Every variable that the arguments below read has its type.              *)
Shape ==
    /\ outbox \in Outboxes
    /\ delivered \subseteq Events
    /\ pc \in [Publishers -> {"idle", "claim", "next", "publish", "mark", "record"}]
    /\ batch \in [Publishers -> Batches]
    /\ cur \in [Publishers -> Events \cup {NULL}]
    /\ age \in [Publishers -> 0 .. ClaimTimeout]
    /\ overran \in BOOLEAN

(* What a publisher holds, by where its loop is.                           *)
Hands ==
    \A p \in Publishers :
        /\ DOMAIN batch[p] \subseteq DOMAIN outbox
        /\ pc[p] \in {"publish", "mark", "record"} => cur[p] \in DOMAIN batch[p]
        /\ pc[p] \in {"idle", "claim"} => DOMAIN batch[p] = {}

(* A publisher is about to mark only what the broker has.                  *)
MarksDelivered == \A p \in Publishers : pc[p] = "mark" => cur[p] \in delivered

(* While nobody overran, what a publisher holds is not due before its      *)
(* window ends, unless it is published.                                    *)
Window ==
    ~overran => \A p \in Publishers : \A e \in DOMAIN batch[p] :
        /\ age[p] < ClaimTimeout
        /\ Pending(e) => outbox[e].wait >= ClaimTimeout - age[p]

IInv == /\ Shape /\ Hands /\ MarksDelivered /\ MarkedOnlyAfterDelivery
        /\ Window /\ ExclusiveUnlessOverrun

-----------------------------------------------------------------------------
(* The tables and the batches a step produces.                             *)

LEMMA OutboxType ==
    ASSUME Shape
    PROVE  /\ DOMAIN outbox \subseteq Events
           /\ outbox = [e \in DOMAIN outbox |-> outbox[e]]
           /\ \A e \in DOMAIN outbox : outbox[e] \in Row
BY DEF Shape, Outboxes

LEMMA MakesOutbox ==
    ASSUME NEW S \in SUBSET Events, NEW f, f = [e \in S |-> f[e]], \A e \in S : f[e] \in Row
    PROVE  f \in Outboxes /\ DOMAIN f = S
<1>1. f \in [S -> Row] OBVIOUS
<1> QED BY <1>1 DEF Outboxes

LEMMA BatchType ==
    ASSUME Shape, NEW p \in Publishers
    PROVE  /\ batch[p] \in Batches
           /\ DOMAIN batch[p] \subseteq Events
           /\ batch[p] = [e \in DOMAIN batch[p] |-> batch[p][e]]
           /\ \A e \in DOMAIN batch[p] : batch[p][e] \in Nat
BY DEF Shape, Batches

LEMMA MakesBatch ==
    ASSUME NEW S \in SUBSET Events, NEW f, f = [e \in S |-> f[e]], \A e \in S : f[e] \in Nat
    PROVE  f \in Batches /\ DOMAIN f = S
<1>1. f \in [S -> Nat] OBVIOUS
<1> QED BY <1>1 DEF Batches

LEMMA EmptyBatch == NoEvents \in Batches /\ DOMAIN NoEvents = {}
<1>1. NoEvents \in [{} -> Nat] BY DEF NoEvents
<1> QED BY <1>1 DEF Batches, NoEvents

(* A claim leaves the rows of others alone, and keeps its own pending.     *)
LEMMA ClaimedRows ==
    ASSUME OutboxAssumption, Shape, NEW S \in SUBSET DOMAIN outbox
    PROVE  /\ Claimed(S) \in Outboxes
           /\ DOMAIN Claimed(S) = DOMAIN outbox
           /\ \A e \in DOMAIN outbox \ S : Claimed(S)[e] = outbox[e]
           /\ \A e \in S : /\ Claimed(S)[e].status = outbox[e].status
                           /\ Claimed(S)[e].wait = ClaimTimeout
<1>1. \A n \in Nat : NextAttempt(n) \in Nat BY DEF NextAttempt
<1>2. \A e \in DOMAIN outbox : outbox[e] \in Row BY OutboxType
<1>4. \A e \in DOMAIN outbox :
        Claimed(S)[e] = IF e \in S
          THEN [status |-> outbox[e].status, wait |-> ClaimTimeout,
                attempts |-> NextAttempt(outbox[e].attempts)]
          ELSE outbox[e]
  BY DEF Claimed, Event
<1>5. ASSUME NEW e \in DOMAIN outbox PROVE Claimed(S)[e] \in Row
  <2>1. outbox[e].status \in {"PENDING", "PUBLISHED"} /\ outbox[e].attempts \in Nat
    BY <1>2 DEF Row
  <2>2. NextAttempt(outbox[e].attempts) \in Nat BY <1>1, <2>1
  <2>3. ClaimTimeout \in Int BY DEF OutboxAssumption
  <2>4. CASE e \in S
    <3>1. Claimed(S)[e] = [status |-> outbox[e].status, wait |-> ClaimTimeout,
                           attempts |-> NextAttempt(outbox[e].attempts)]
      BY <1>4, <2>4
    <3> QED BY <2>1, <2>2, <2>3, <3>1 DEF Row
  <2>5. CASE e \notin S BY <1>2, <1>4, <2>5, Zenon
  <2> QED BY <2>4, <2>5
<1>6. Claimed(S) = [e \in DOMAIN outbox |-> Claimed(S)[e]] BY DEF Claimed
<1>7. DOMAIN outbox \in SUBSET Events BY OutboxType
<1>8. Claimed(S) \in Outboxes /\ DOMAIN Claimed(S) = DOMAIN outbox
  BY <1>5, <1>6, <1>7, MakesOutbox
<1> QED BY <1>4, <1>8

(* Marking and delaying touch one row, and only while it is pending.       *)
LEMMA MarkedRows ==
    ASSUME Shape, NEW x
    PROVE  /\ Marked(x) \in Outboxes
           /\ DOMAIN Marked(x) = DOMAIN outbox
           /\ \A e \in DOMAIN outbox \ {x} : Marked(x)[e] = outbox[e]
           /\ x \in DOMAIN outbox => Marked(x)[x].status = "PUBLISHED"
           /\ x \in DOMAIN outbox => Marked(x)[x].attempts = outbox[x].attempts
<1>1. CASE ~Pending(x)
  <2>1. Marked(x) = outbox BY <1>1 DEF Marked
  <2>2. x \in DOMAIN outbox => outbox[x].status = "PUBLISHED"
    BY <1>1, OutboxType DEF Pending, Row
  <2> QED BY <2>1, <2>2 DEF Shape
<1>2. CASE Pending(x)
  <2>1. x \in DOMAIN outbox BY <1>2 DEF Pending
  <2>2. Marked(x) = [e \in DOMAIN outbox |->
           IF e = x THEN [status |-> "PUBLISHED", wait |-> 0, attempts |-> outbox[x].attempts]
           ELSE outbox[e]]
    BY <1>2, <2>1, OutboxType DEF Marked, Event
  <2>3. \A e \in DOMAIN outbox : Marked(x)[e] \in Row BY <2>1, <2>2, OutboxType DEF Row
  <2>4. DOMAIN outbox \in SUBSET Events BY OutboxType
  <2>5. Marked(x) \in Outboxes /\ DOMAIN Marked(x) = DOMAIN outbox
    BY <2>2, <2>3, <2>4, MakesOutbox
  <2> QED BY <2>1, <2>2, <2>5
<1> QED BY <1>1, <1>2

LEMMA DelayedRows ==
    ASSUME Shape, NEW x, NEW d \in Int
    PROVE  /\ Delayed(x, d) \in Outboxes
           /\ DOMAIN Delayed(x, d) = DOMAIN outbox
           /\ \A e \in DOMAIN outbox \ {x} : Delayed(x, d)[e] = outbox[e]
           /\ \A e \in DOMAIN outbox : /\ Delayed(x, d)[e].status = outbox[e].status
                                       /\ Delayed(x, d)[e].attempts = outbox[e].attempts
<1>1. CASE ~Pending(x) BY <1>1 DEF Delayed, Shape
<1>2. CASE Pending(x)
  <2>1. x \in DOMAIN outbox BY <1>2 DEF Pending
  <2>2. Delayed(x, d) = [e \in DOMAIN outbox |->
           IF e = x THEN [status |-> outbox[x].status, wait |-> d, attempts |-> outbox[x].attempts]
           ELSE outbox[e]]
    BY <1>2, <2>1, OutboxType DEF Delayed, Event
  <2>3. \A e \in DOMAIN outbox : Delayed(x, d)[e] \in Row BY <2>1, <2>2, OutboxType DEF Row
  <2>4. DOMAIN outbox \in SUBSET Events BY OutboxType
  <2>5. Delayed(x, d) \in Outboxes /\ DOMAIN Delayed(x, d) = DOMAIN outbox
    BY <2>2, <2>3, <2>4, MakesOutbox
  <2> QED BY <2>1, <2>2, <2>5
<1> QED BY <1>1, <1>2

-----------------------------------------------------------------------------
(* Steps                                                                   *)

Places == {"idle", "claim", "next", "publish", "mark", "record"}

LEMMA Stutter ==
    ASSUME IInv, UNCHANGED <<outbox, delivered, pc, batch, cur, age, overran>>
    PROVE  IInv'
BY DEF IInv, Shape, Hands, MarksDelivered, MarkedOnlyAfterDelivery, Window, Pending,
       ExclusiveUnlessOverrun

(* A publisher goes on, and what it holds stays with it.                   *)
LEMMA GoesOn ==
    ASSUME IInv, UNCHANGED <<outbox, batch, age, overran>>,
           NEW p \in Publishers, NEW l \in Places, NEW x \in Events \cup {NULL},
           delivered \subseteq delivered', delivered' \subseteq Events,
           pc' = [pc EXCEPT ![p] = l], cur' = [cur EXCEPT ![p] = x],
           l \in {"publish", "mark", "record"} => x \in DOMAIN batch[p],
           l \in {"idle", "claim"} => DOMAIN batch[p] = {},
           l = "mark" => x \in delivered'
    PROVE  IInv'
<1>1. Shape' BY DEF IInv, Shape, Places
<1>2. Hands' BY DEF IInv, Shape, Hands
<1>3. MarksDelivered' BY DEF IInv, Shape, MarksDelivered
<1>4. MarkedOnlyAfterDelivery' BY DEF IInv, MarkedOnlyAfterDelivery
<1>5. Window' BY DEF IInv, Window, Pending
<1>6. ExclusiveUnlessOverrun' BY DEF IInv, ExclusiveUnlessOverrun
<1> QED BY <1>1, <1>2, <1>3, <1>4, <1>5, <1>6 DEF IInv

(* What a claim, committed or not, does to the table: only due rows move,  *)
(* and none in a publisher's hands is due while nobody overran.            *)
ClaimsOrNot == outbox' = outbox \/ \E S \in SUBSET DOMAIN outbox : DueBatch(S) /\ outbox' = Claimed(S)

LEMMA ClaimTable ==
    ASSUME OutboxAssumption, IInv, ClaimsOrNot
    PROVE  /\ outbox' \in Outboxes
           /\ DOMAIN outbox' = DOMAIN outbox
           /\ \A e \in DOMAIN outbox : outbox'[e].status = outbox[e].status
           /\ ~overran => \A q \in Publishers : \A e \in DOMAIN batch[q] : outbox'[e] = outbox[e]
<1>1. CASE outbox' = outbox BY <1>1 DEF IInv, Shape
<1>2. ASSUME NEW S \in SUBSET DOMAIN outbox, DueBatch(S), outbox' = Claimed(S)
      PROVE  /\ outbox' \in Outboxes
             /\ DOMAIN outbox' = DOMAIN outbox
             /\ \A e \in DOMAIN outbox : outbox'[e].status = outbox[e].status
             /\ ~overran => \A q \in Publishers : \A e \in DOMAIN batch[q] : outbox'[e] = outbox[e]
  <2>1. Shape BY DEF IInv
  <2>2. /\ Claimed(S) \in Outboxes /\ DOMAIN Claimed(S) = DOMAIN outbox
        /\ \A e \in DOMAIN outbox \ S : Claimed(S)[e] = outbox[e]
        /\ \A e \in S : Claimed(S)[e].status = outbox[e].status
    BY <2>1, ClaimedRows
  <2>3. ASSUME ~overran, NEW q \in Publishers, NEW e \in DOMAIN batch[q]
        PROVE  e \in DOMAIN outbox \ S
    <3>1. e \in DOMAIN outbox BY DEF IInv, Hands
    <3>2. age[q] < ClaimTimeout /\ (Pending(e) => outbox[e].wait >= ClaimTimeout - age[q])
      BY <2>3 DEF IInv, Window
    <3>3. age[q] \in Int /\ ClaimTimeout \in Int /\ outbox[e].wait \in Int
      BY <2>1, <3>1, OutboxType DEF Shape, Row, OutboxAssumption
    <3>4. ~Due(e) BY <3>2, <3>3 DEF Due
    <3> QED BY <1>2, <3>1, <3>4 DEF DueBatch
  <2>4. \A e \in DOMAIN outbox : outbox'[e].status = outbox[e].status BY <1>2, <2>2
  <2>5. ~overran => \A q \in Publishers : \A e \in DOMAIN batch[q] : outbox'[e] = outbox[e]
    BY <1>2, <2>2, <2>3
  <2> QED BY <1>2, <2>2, <2>4, <2>5
<1> QED BY <1>1, <1>2 DEF ClaimsOrNot

(* A publisher ends its pass, or its process does: its hands are empty.    *)
LEMMA LetsGo ==
    ASSUME OutboxAssumption, IInv, NEW p \in Publishers, ToIdle(p), ClaimsOrNot,
           UNCHANGED <<delivered, overran>>
    PROVE  IInv'
<1>1. /\ outbox' \in Outboxes
      /\ DOMAIN outbox' = DOMAIN outbox
      /\ \A e \in DOMAIN outbox : outbox'[e].status = outbox[e].status
      /\ ~overran => \A q \in Publishers : \A e \in DOMAIN batch[q] : outbox'[e] = outbox[e]
  BY ClaimTable
<1>2. Shape BY DEF IInv
<1>3. /\ batch' \in [Publishers -> Batches] /\ DOMAIN batch'[p] = {}
      /\ \A q \in Publishers \ {p} : batch'[q] = batch[q] /\ age'[q] = age[q]
                                     /\ pc'[q] = pc[q] /\ cur'[q] = cur[q]
      /\ pc'[p] = "idle" /\ cur'[p] = NULL
  BY <1>2, EmptyBatch DEF ToIdle, Shape
<1>4. ClaimTimeout \in Nat BY DEF OutboxAssumption
<1>5. Shape' BY <1>1, <1>2, <1>3, <1>4 DEF ToIdle, Shape
<1>6. Hands' BY <1>1, <1>3 DEF IInv, Hands
<1>7. MarksDelivered' BY <1>3 DEF IInv, MarksDelivered
<1>8. MarkedOnlyAfterDelivery' BY <1>1 DEF IInv, MarkedOnlyAfterDelivery
<1>9. ASSUME ~overran', NEW q \in Publishers, NEW e \in DOMAIN batch'[q]
      PROVE  /\ age'[q] < ClaimTimeout
             /\ Pending(e)' => outbox'[e].wait >= ClaimTimeout - age'[q]
  <2>1. q # p /\ batch'[q] = batch[q] /\ age'[q] = age[q] BY <1>3, <1>9
  <2>2. outbox'[e] = outbox[e] BY <1>1, <1>9, <2>1
  <2> QED BY <1>1, <1>9, <2>1, <2>2 DEF IInv, Window, Pending
<1>10. Window' BY <1>9 DEF Window
<1>11. ExclusiveUnlessOverrun' BY <1>3 DEF IInv, ExclusiveUnlessOverrun
<1> QED BY <1>5, <1>6, <1>7, <1>8, <1>10, <1>11 DEF IInv

(* An event leaves a publisher's hands, and no row but its own changed.    *)
LEMMA Releases ==
    ASSUME OutboxAssumption, IInv, NEW p \in Publishers, cur[p] \in DOMAIN batch[p],
           Release(p), UNCHANGED <<delivered, age, overran>>,
           outbox' \in Outboxes, DOMAIN outbox' = DOMAIN outbox,
           \A e \in DOMAIN outbox \ {cur[p]} : outbox'[e] = outbox[e],
           outbox'[cur[p]].status = "PUBLISHED" =>
               outbox[cur[p]].status = "PUBLISHED" \/ cur[p] \in delivered
    PROVE  IInv'
<1> DEFINE rest == [e \in DOMAIN batch[p] \ {cur[p]} |-> batch[p][e]]
<1>1. Shape BY DEF IInv
<1>2. rest \in Batches /\ DOMAIN rest = DOMAIN batch[p] \ {cur[p]}
  <2>1. DOMAIN batch[p] \ {cur[p]} \in SUBSET Events BY <1>1, BatchType, Zenon
  <2>2. \A e \in DOMAIN batch[p] \ {cur[p]} : rest[e] \in Nat BY <1>1, BatchType, Zenon
  <2>3. rest = [e \in DOMAIN batch[p] \ {cur[p]} |-> rest[e]] OBVIOUS
  <2> HIDE DEF rest
  <2> QED BY <2>1, <2>2, <2>3, MakesBatch
<1>3. /\ batch' \in [Publishers -> Batches] /\ batch'[p] = rest
      /\ \A q \in Publishers \ {p} : batch'[q] = batch[q] /\ pc'[q] = pc[q] /\ cur'[q] = cur[q]
      /\ pc'[p] = "next" /\ cur'[p] = NULL
  BY <1>1, <1>2 DEF Release, Shape
<1> HIDE DEF rest
<1>4. \A q \in Publishers : DOMAIN batch'[q] \subseteq DOMAIN batch[q] BY <1>2, <1>3
<1>5. Shape' BY <1>1, <1>3 DEF Release, Shape
<1>6. Hands' BY <1>3, <1>4 DEF IInv, Hands
<1>7. MarksDelivered' BY <1>3 DEF IInv, MarksDelivered
<1>8. MarkedOnlyAfterDelivery' BY DEF IInv, MarkedOnlyAfterDelivery
<1>9. ASSUME ~overran', NEW q \in Publishers, NEW e \in DOMAIN batch'[q]
      PROVE  /\ age'[q] < ClaimTimeout
             /\ Pending(e)' => outbox'[e].wait >= ClaimTimeout - age'[q]
  <2>1. e \in DOMAIN batch[q] /\ e \in DOMAIN outbox BY <1>4, <1>9 DEF IInv, Hands
  <2>2. e # cur[p]
    <3>1. CASE q = p BY <1>2, <1>3, <1>9, <3>1
    <3>2. CASE q # p BY <1>9, <2>1, <3>2 DEF IInv, ExclusiveUnlessOverrun
    <3> QED BY <3>1, <3>2
  <2>3. outbox'[e] = outbox[e] BY <2>1, <2>2
  <2> QED BY <1>9, <2>1, <2>3 DEF IInv, Window, Pending
<1>10. Window' BY <1>9 DEF Window
<1>11. ExclusiveUnlessOverrun' BY <1>4 DEF IInv, ExclusiveUnlessOverrun
<1> QED BY <1>5, <1>6, <1>7, <1>8, <1>10, <1>11 DEF IInv

LEMMA InsertStep ==
    ASSUME OutboxAssumption, IInv, NEW x \in Events, Insert(x)
    PROVE  IInv'
<1>1. Shape BY DEF IInv
<1>2. UNCHANGED <<delivered, pc, batch, cur, age, overran>> BY DEF Insert, local
<1>3. \A e \in DOMAIN outbox \cup {x} : outbox'[e] = IF e = x THEN Event("PENDING", 0, 0) ELSE outbox[e]
  BY DEF Insert
<1>4. Event("PENDING", 0, 0) \in Row BY DEF Event, Row
<1>5. \A e \in DOMAIN outbox \cup {x} : outbox'[e] \in Row BY <1>1, <1>3, <1>4, OutboxType
<1>6. DOMAIN outbox \cup {x} \in SUBSET Events BY <1>1, OutboxType
<1>7. outbox' \in Outboxes /\ DOMAIN outbox' = DOMAIN outbox \cup {x}
  <2>1. outbox' = [e \in DOMAIN outbox \cup {x} |-> outbox'[e]] BY DEF Insert
  <2> QED BY <1>5, <1>6, <2>1, MakesOutbox
<1>8. \A e \in DOMAIN outbox : outbox'[e] = outbox[e] BY <1>3 DEF Insert
<1>9. Event("PENDING", 0, 0).status = "PENDING" BY DEF Event
<1>10. Shape' BY <1>1, <1>2, <1>7 DEF Shape
<1>11. Hands' BY <1>2, <1>7 DEF IInv, Hands
<1>12. MarksDelivered' BY <1>2 DEF IInv, MarksDelivered
<1>13. MarkedOnlyAfterDelivery'
  BY <1>2, <1>3, <1>7, <1>8, <1>9 DEF IInv, MarkedOnlyAfterDelivery
<1>14. Window' BY <1>2, <1>8 DEF IInv, Window, Hands, Pending
<1>15. ExclusiveUnlessOverrun' BY <1>2 DEF IInv, ExclusiveUnlessOverrun
<1> QED BY <1>10, <1>11, <1>12, <1>13, <1>14, <1>15 DEF IInv

LEMMA ClaimDueStep ==
    ASSUME OutboxAssumption, IInv, NEW p \in Publishers, ClaimDue(p)
    PROVE  IInv'
<1>1. Shape BY DEF IInv
<1>2. PICK S \in SUBSET DOMAIN outbox :
        /\ DueBatch(S)
        /\ outbox' = Claimed(S)
        /\ batch' = [batch EXCEPT ![p] = [e \in S |-> NextAttempt(outbox[e].attempts)]]
  BY DEF ClaimDue
<1> DEFINE mine == [e \in S |-> NextAttempt(outbox[e].attempts)]
<1>3. mine \in Batches /\ DOMAIN mine = S
  <2>1. S \in SUBSET Events BY <1>1, OutboxType
  <2>2. \A e \in S : NextAttempt(outbox[e].attempts) \in Nat
    BY <1>1, OutboxType DEF Row, NextAttempt
  <2>3. \A e \in S : mine[e] \in Nat BY <2>2
  <2> QED BY <2>1, <2>3, MakesBatch
<1>4. /\ batch' \in [Publishers -> Batches] /\ batch'[p] = mine
      /\ \A q \in Publishers \ {p} : batch'[q] = batch[q] /\ age'[q] = age[q] /\ pc'[q] = pc[q]
      /\ pc'[p] = "next" /\ age'[p] = 0 /\ cur' = cur /\ overran' = overran
      /\ delivered' = delivered
  BY <1>1, <1>2, <1>3 DEF ClaimDue, Shape
<1> HIDE DEF mine
<1>5. ClaimsOrNot BY <1>2 DEF ClaimsOrNot
<1>6. /\ outbox' \in Outboxes /\ DOMAIN outbox' = DOMAIN outbox
      /\ \A e \in DOMAIN outbox : outbox'[e].status = outbox[e].status
      /\ ~overran => \A q \in Publishers : \A e \in DOMAIN batch[q] : outbox'[e] = outbox[e]
  BY <1>5, ClaimTable
<1>7. \A e \in S : outbox'[e].wait = ClaimTimeout BY <1>1, <1>2, ClaimedRows
<1>8. ClaimTimeout \in Nat /\ ClaimTimeout > 0 BY DEF OutboxAssumption
<1>9. ASSUME ~overran, NEW q \in Publishers, NEW e \in DOMAIN batch[q] PROVE e \notin S
  <2>1. e \in DOMAIN outbox BY DEF IInv, Hands
  <2>2. age[q] < ClaimTimeout /\ (Pending(e) => outbox[e].wait >= ClaimTimeout - age[q])
    BY <1>9 DEF IInv, Window
  <2>3. age[q] \in Int /\ outbox[e].wait \in Int BY <1>1, <2>1, OutboxType DEF Shape, Row
  <2>4. ~Due(e) BY <1>8, <2>2, <2>3 DEF Due
  <2> QED BY <1>2, <2>4 DEF DueBatch
<1>10. Shape' BY <1>1, <1>4, <1>6, <1>8 DEF ClaimDue, Shape
<1>11. Hands' BY <1>2, <1>3, <1>4, <1>6 DEF IInv, Hands
<1>12. MarksDelivered' BY <1>4 DEF IInv, MarksDelivered
<1>13. MarkedOnlyAfterDelivery' BY <1>4, <1>6 DEF IInv, MarkedOnlyAfterDelivery
<1>14. ASSUME ~overran', NEW q \in Publishers, NEW e \in DOMAIN batch'[q]
       PROVE  /\ age'[q] < ClaimTimeout
              /\ Pending(e)' => outbox'[e].wait >= ClaimTimeout - age'[q]
  <2>1. CASE q = p BY <1>3, <1>4, <1>7, <1>8, <1>14, <2>1
  <2>2. CASE q # p
    <3>1. outbox'[e] = outbox[e] BY <1>4, <1>6, <1>14, <2>2
    <3> QED BY <1>4, <1>6, <1>14, <2>2, <3>1 DEF IInv, Window, Pending
  <2> QED BY <2>1, <2>2
<1>15. Window' BY <1>14 DEF Window
<1>16. ExclusiveUnlessOverrun' BY <1>3, <1>4, <1>9 DEF IInv, ExclusiveUnlessOverrun
<1> QED BY <1>10, <1>11, <1>12, <1>13, <1>15, <1>16 DEF IInv

LEMMA TickStep ==
    ASSUME OutboxAssumption, IInv, Tick
    PROVE  IInv'
<1>1. Shape BY DEF IInv
<1>2. UNCHANGED <<delivered, pc, batch, cur>> BY DEF Tick
<1>3. ClaimTimeout \in Nat /\ Overdue \in Nat BY DEF OutboxAssumption
<1>4. \A e \in DOMAIN outbox :
        /\ outbox[e].status \in {"PENDING", "PUBLISHED"}
        /\ outbox[e].wait \in Int /\ outbox[e].attempts \in Nat
  BY <1>1, OutboxType DEF Row
<1>5. \A e \in DOMAIN outbox :
        outbox'[e] = IF Pending(e) /\ outbox[e].wait > -Overdue
                     THEN [status |-> outbox[e].status, wait |-> outbox[e].wait - 1,
                           attempts |-> outbox[e].attempts]
                     ELSE outbox[e]
  BY DEF Tick, Event
<1>6. ASSUME NEW e \in DOMAIN outbox
      PROVE  /\ outbox'[e] \in Row
             /\ outbox'[e].status = outbox[e].status
             /\ outbox'[e].wait >= outbox[e].wait - 1
  <2>1. CASE Pending(e) /\ outbox[e].wait > -Overdue
    <3>1. outbox'[e] = [status |-> outbox[e].status, wait |-> outbox[e].wait - 1,
                        attempts |-> outbox[e].attempts]
      BY <1>5, <2>1
    <3>2. outbox[e].wait - 1 \in Int BY <1>4
    <3> QED BY <1>4, <3>1, <3>2 DEF Row
  <2>2. CASE ~(Pending(e) /\ outbox[e].wait > -Overdue)
    <3>1. outbox'[e] = outbox[e] BY <1>5, <2>2, Zenon
    <3> QED BY <1>1, <1>4, <3>1, OutboxType
  <2> QED BY <2>1, <2>2
<1>7. outbox' \in Outboxes /\ DOMAIN outbox' = DOMAIN outbox
  <2>1. outbox' = [e \in DOMAIN outbox |-> outbox'[e]] BY DEF Tick
  <2>2. DOMAIN outbox \in SUBSET Events BY <1>1, OutboxType
  <2> QED BY <1>6, <2>1, <2>2, MakesOutbox
<1>8. age' \in [Publishers -> 0 .. ClaimTimeout] BY <1>1, <1>3 DEF Shape, Tick
<1>9. overran' \in BOOLEAN BY <1>1, Zenon DEF Shape, Tick
<1>10. Shape' BY <1>1, <1>2, <1>7, <1>8, <1>9 DEF Shape
<1>11. Hands' BY <1>2, <1>7 DEF IInv, Hands
<1>12. MarksDelivered' BY <1>2 DEF IInv, MarksDelivered
<1>13. MarkedOnlyAfterDelivery' BY <1>2, <1>6, <1>7 DEF IInv, MarkedOnlyAfterDelivery
<1>14. ASSUME ~overran', NEW q \in Publishers, NEW e \in DOMAIN batch'[q]
       PROVE  /\ age'[q] < ClaimTimeout
              /\ Pending(e)' => outbox'[e].wait >= ClaimTimeout - age'[q]
  <2>1. ~overran /\ ~(age[q] + 1 >= ClaimTimeout) BY <1>2, <1>14, Zenon DEF Tick
  <2>2. e \in DOMAIN batch[q] /\ e \in DOMAIN outbox /\ pc[q] # "idle"
    BY <1>2, <1>14 DEF IInv, Hands
  <2>3. age[q] \in Int BY <1>1 DEF Shape
  <2>4. age'[q] = age[q] + 1 BY <1>3, <2>1, <2>2, <2>3 DEF Tick
  <2>5. Pending(e) => outbox[e].wait >= ClaimTimeout - age[q] BY <2>1, <2>2 DEF IInv, Window
  <2>6. outbox'[e] \in Row /\ outbox'[e].status = outbox[e].status
        /\ outbox'[e].wait >= outbox[e].wait - 1
    BY <1>6, <2>2
  <2>7. outbox'[e].wait \in Int /\ outbox[e].wait \in Int BY <1>4, <2>2, <2>6 DEF Row
  <2>8. Pending(e)' => Pending(e) BY <2>2, <2>6 DEF Pending
  <2>9. age'[q] < ClaimTimeout BY <1>3, <2>1, <2>3, <2>4
  <2>10. Pending(e)' => outbox'[e].wait >= ClaimTimeout - age'[q]
    BY <1>3, <2>3, <2>4, <2>5, <2>6, <2>7, <2>8
  <2> QED BY <2>9, <2>10
<1>15. Window' BY <1>14 DEF Window
<1>16. overran => overran' BY Zenon DEF Tick
<1>17. ExclusiveUnlessOverrun' BY <1>2, <1>16 DEF IInv, ExclusiveUnlessOverrun
<1> QED BY <1>10, <1>11, <1>12, <1>13, <1>15, <1>17 DEF IInv

(* Every delay is a whole number of ticks, whatever growth computes.       *)
LEMMA DelayIsInt ==
    ASSUME OutboxAssumption, NEW n
    PROVE  Delay(n) \subseteq Int
BY DEF Delay, Capped, OutboxAssumption

LEMMA MarkStep ==
    ASSUME OutboxAssumption, IInv, NEW p \in Publishers,
           pc[p] = "mark", outbox' \in {outbox, Marked(cur[p])}, Release(p),
           UNCHANGED <<delivered, age, overran>>
    PROVE  IInv'
<1>1. Shape BY DEF IInv
<1>2. cur[p] \in DOMAIN batch[p] /\ cur[p] \in delivered BY DEF IInv, Hands, MarksDelivered
<1>3. /\ outbox' \in Outboxes /\ DOMAIN outbox' = DOMAIN outbox
      /\ \A e \in DOMAIN outbox \ {cur[p]} : outbox'[e] = outbox[e]
  BY <1>1, MarkedRows DEF Shape
<1> QED BY <1>2, <1>3, Releases

LEMMA RecordFailureStep ==
    ASSUME OutboxAssumption, IInv, NEW p \in Publishers, RecordFailure(p)
    PROVE  IInv'
<1>1. Shape BY DEF IInv
<1>2. cur[p] \in DOMAIN batch[p] /\ cur[p] \in DOMAIN outbox BY DEF RecordFailure, IInv, Hands
<1>3. CASE outbox' = outbox
  <2>1. outbox' \in Outboxes BY <1>1, <1>3 DEF Shape
  <2> QED BY <1>2, <1>3, <2>1, Releases DEF RecordFailure
<1>4. CASE \E d \in Delay(batch[p][cur[p]]) : outbox' = Delayed(cur[p], d)
  <2>1. PICK d \in Int : outbox' = Delayed(cur[p], d) BY <1>4, DelayIsInt
  <2>2. /\ outbox' \in Outboxes /\ DOMAIN outbox' = DOMAIN outbox
        /\ \A e \in DOMAIN outbox \ {cur[p]} : outbox'[e] = outbox[e]
        /\ outbox'[cur[p]].status = outbox[cur[p]].status
    BY <1>1, <1>2, <2>1, DelayedRows
  <2> QED BY <1>2, <2>2, Releases DEF RecordFailure
<1> QED BY <1>3, <1>4 DEF RecordFailure

LEMMA ProgressStep ==
    ASSUME OutboxAssumption, IInv, NEW p \in Publishers, Progress(p)
    PROVE  IInv'
<1>1. Shape BY DEF IInv
<1>2. cur[p] \in Events \cup {NULL} /\ cur = [cur EXCEPT ![p] = cur[p]] /\ delivered \subseteq Events
  BY <1>1 DEF Shape
<1>3. pc[p] \in {"publish", "mark", "record"} => cur[p] \in DOMAIN batch[p] /\ cur[p] \in Events
  BY <1>1, BatchType, Zenon DEF IInv, Hands
<1>4. pc[p] \in {"idle", "claim"} => DOMAIN batch[p] = {} BY DEF IInv, Hands
<1>5. "claim" \in Places /\ "publish" \in Places /\ "mark" \in Places /\ "record" \in Places
  BY DEF Places
<1>6. CASE PollTick(p) BY <1>2, <1>4, <1>5, <1>6, GoesOn, Zenon DEF PollTick
<1>7. CASE ClaimDue(p) BY <1>7, ClaimDueStep
<1>8. CASE TakeEvent(p)
  <2>1. PICK e \in DOMAIN batch[p] : cur' = [cur EXCEPT ![p] = e] BY <1>8, Zenon DEF TakeEvent
  <2>2. e \in Events \cup {NULL} BY <1>1, BatchType, Zenon
  <2> QED BY <1>2, <1>5, <1>8, <2>1, <2>2, GoesOn, Zenon DEF TakeEvent
<1>9. CASE EndPass(p)
  <2>1. CASE full[p] /\ ~failed[p] /\ ~stopping[p]
    <3>1. DOMAIN batch[p] = {} /\ pc' = [pc EXCEPT ![p] = "claim"]
          /\ UNCHANGED <<outbox, delivered, batch, cur, age, overran>>
      BY <1>9, <2>1 DEF EndPass
    <3> QED BY <1>2, <1>5, <3>1, GoesOn, Zenon
  <2>2. CASE ~(full[p] /\ ~failed[p] /\ ~stopping[p])
    BY <1>9, <2>2, LetsGo DEF EndPass, ClaimsOrNot
  <2> QED BY <2>1, <2>2
<1>10. CASE PublishSucceeds(p)
  <2>1. delivered \subseteq delivered' /\ delivered' \subseteq Events /\ cur[p] \in delivered'
    BY <1>2, <1>3, <1>10 DEF PublishSucceeds
  <2> QED BY <1>2, <1>3, <1>5, <1>10, <2>1, GoesOn, Zenon DEF PublishSucceeds
<1>11. CASE PublishFails(p)
  <2>1. delivered \subseteq delivered' /\ delivered' \subseteq Events
    BY <1>2, <1>3, <1>11 DEF PublishFails
  <2> QED BY <1>2, <1>3, <1>5, <1>11, <2>1, GoesOn, Zenon DEF PublishFails
<1>12. CASE MarkPublished(p) BY <1>12, MarkStep DEF MarkPublished
<1>13. CASE MarkFails(p) BY <1>13, MarkStep DEF MarkFails
<1>14. CASE RecordFailure(p) BY <1>14, RecordFailureStep
<1>15. CASE ClaimFails(p) BY <1>15, LetsGo DEF ClaimFails, ClaimsOrNot
<1> QED BY <1>6, <1>7, <1>8, <1>9, <1>10, <1>11, <1>12, <1>13, <1>14, <1>15 DEF Progress

LEMMA InitLemma ==
    ASSUME OutboxAssumption, Init
    PROVE  IInv
<1>1. outbox \in Outboxes /\ DOMAIN outbox = {}
  <2>1. outbox \in [{} -> Row] BY DEF Init
  <2> QED BY <2>1, Zenon DEF Outboxes, Init
<1>2. \A p \in Publishers : DOMAIN batch[p] = {} BY EmptyBatch DEF Init
<1>3. Shape
  <2>1. batch \in [Publishers -> Batches] BY EmptyBatch DEF Init
  <2>2. age \in [Publishers -> 0 .. ClaimTimeout] BY DEF Init, OutboxAssumption
  <2>3. pc \in [Publishers -> {"idle", "claim", "next", "publish", "mark", "record"}] BY DEF Init
  <2>4. cur \in [Publishers -> Events \cup {NULL}] BY DEF Init
  <2>5. delivered \subseteq Events /\ overran \in BOOLEAN BY Zenon DEF Init
  <2> QED BY <1>1, <2>1, <2>2, <2>3, <2>4, <2>5 DEF Shape
<1>4. Hands BY <1>2 DEF Hands, Init
<1>5. MarksDelivered BY DEF MarksDelivered, Init
<1>6. MarkedOnlyAfterDelivery BY <1>1 DEF MarkedOnlyAfterDelivery
<1>7. Window BY <1>2 DEF Window
<1>8. ExclusiveUnlessOverrun BY <1>2 DEF ExclusiveUnlessOverrun
<1> QED BY <1>3, <1>4, <1>5, <1>6, <1>7, <1>8 DEF IInv

LEMMA NextLemma ==
    ASSUME OutboxAssumption, IInv, [Next]_vars
    PROVE  IInv'
<1>1. CASE UNCHANGED vars BY <1>1, Stutter DEF vars
<1>2. ASSUME NEW e \in Events, Insert(e) PROVE IInv' BY <1>2, InsertStep
<1>3. ASSUME NEW p \in Publishers, Progress(p) PROVE IInv' BY <1>3, ProgressStep
<1>4. ASSUME NEW p \in Publishers, Stopped(p) PROVE IInv' BY <1>4, Stutter DEF Stopped
<1>5. ASSUME NEW p \in Publishers, Sigterm(p) PROVE IInv' BY <1>5, Stutter DEF Sigterm
<1>6. ASSUME NEW p \in Publishers, Crash(p) PROVE IInv'
  BY <1>6, LetsGo DEF Crash, ClaimsOrNot
<1>7. CASE Tick BY <1>7, TickStep
<1> QED BY <1>1, <1>2, <1>3, <1>4, <1>5, <1>6, <1>7 DEF Next

LEMMA Inductive == OutboxAssumption => (Spec => []IInv)
<1> SUFFICES ASSUME OutboxAssumption PROVE Spec => []IInv OBVIOUS
<1>1. Init => IInv BY InitLemma
<1>2. IInv /\ [Next]_vars => IInv' BY NextLemma
<1> QED BY <1>1, <1>2, PTL DEF Spec

-----------------------------------------------------------------------------
(* Results                                                                 *)

(* No event is recorded as published unless the broker has accepted it,    *)
(* however many publishers run RunOnce and whatever fails.                 *)
THEOREM OutboxMarksWhatWasDelivered ==
    OutboxAssumption => (Spec => []MarkedOnlyAfterDelivery)
<1> SUFFICES ASSUME OutboxAssumption PROVE Spec => []MarkedOnlyAfterDelivery OBVIOUS
<1>1. Spec => []IInv BY Inductive
<1>2. IInv => MarkedOnlyAfterDelivery BY DEF IInv
<1> QED BY <1>1, <1>2, PTL

(* While every publisher keeps within its claim's window, no two hold the  *)
(* same event (ClaimDue, RecordFailure).                                   *)
THEOREM OutboxClaimsAreExclusive ==
    OutboxAssumption => (Spec => []ExclusiveUnlessOverrun)
<1> SUFFICES ASSUME OutboxAssumption PROVE Spec => []ExclusiveUnlessOverrun OBVIOUS
<1>1. Spec => []IInv BY Inductive
<1>2. IInv => ExclusiveUnlessOverrun BY DEF IInv
<1> QED BY <1>1, <1>2, PTL

(* A row that keeps its status and its count keeps what PublishedStays     *)
(* asks of it.                                                             *)
LEMMA KeepsRows ==
    ASSUME \A e \in DOMAIN outbox : outbox[e].status = "PUBLISHED" => outbox'[e] = outbox[e]
    PROVE  PublishedStays
BY DEF PublishedStays

LEMMA StaysStep ==
    ASSUME OutboxAssumption, Shape, [Next]_vars
    PROVE  PublishedStays
<1>1. CASE UNCHANGED outbox BY <1>1, KeepsRows
<1>2. ASSUME NEW S \in SUBSET DOMAIN outbox, DueBatch(S), outbox' = Claimed(S)
      PROVE  PublishedStays
  <2>1. \A e \in S : outbox[e].status = "PENDING" BY <1>2 DEF DueBatch, Due, Pending
  <2>2. \A e \in DOMAIN outbox \ S : outbox'[e] = outbox[e] BY <1>2, ClaimedRows
  <2> QED BY <2>1, <2>2, KeepsRows
<1>3. ASSUME NEW x, outbox' = Marked(x) PROVE PublishedStays
  BY <1>3, MarkedRows DEF PublishedStays
<1>4. ASSUME NEW x, NEW d \in Int, outbox' = Delayed(x, d) PROVE PublishedStays
  BY <1>4, DelayedRows DEF PublishedStays
<1>5. ASSUME NEW x \in Events, Insert(x) PROVE PublishedStays
  <2>1. \A e \in DOMAIN outbox : outbox'[e] = outbox[e] BY <1>5 DEF Insert
  <2> QED BY <2>1, KeepsRows
<1>6. CASE Tick
  <2>1. \A e \in DOMAIN outbox : outbox[e].status = "PUBLISHED" => outbox'[e] = outbox[e]
    BY <1>6 DEF Tick, Pending
  <2> QED BY <2>1, KeepsRows
<1>7. ASSUME NEW p \in Publishers, Progress(p) PROVE PublishedStays
  <2>1. CASE PollTick(p) \/ TakeEvent(p) \/ EndPass(p) \/ PublishSucceeds(p) \/ PublishFails(p)
    BY <1>1, <2>1 DEF PollTick, TakeEvent, EndPass, PublishSucceeds, PublishFails
  <2>2. CASE ClaimDue(p) BY <1>2, <2>2 DEF ClaimDue
  <2>3. CASE ClaimFails(p) BY <1>1, <1>2, <2>3 DEF ClaimFails
  <2>4. CASE MarkPublished(p) BY <1>3, <2>4 DEF MarkPublished
  <2>5. CASE MarkFails(p) BY <1>1, <1>3, <2>5 DEF MarkFails
  <2>6. CASE RecordFailure(p)
    <3>1. CASE UNCHANGED outbox BY <1>1, <3>1
    <3>2. CASE \E d \in Delay(batch[p][cur[p]]) : outbox' = Delayed(cur[p], d)
      BY <1>4, <3>2, DelayIsInt
    <3> QED BY <2>6, <3>1, <3>2 DEF RecordFailure
  <2> QED BY <1>7, <2>1, <2>2, <2>3, <2>4, <2>5, <2>6 DEF Progress
<1>8. ASSUME NEW p \in Publishers, Stopped(p) \/ Sigterm(p) \/ Crash(p) PROVE PublishedStays
  BY <1>1, <1>8 DEF Stopped, Sigterm, Crash
<1> QED BY <1>1, <1>5, <1>6, <1>7, <1>8 DEF Next, vars

(* A published row is never claimed, delayed or marked again, not even by  *)
(* a publisher that claimed it earlier and answers late.                   *)
THEOREM OutboxPublishedIsFinal ==
    OutboxAssumption => (Spec => [][PublishedStays]_vars)
<1> SUFFICES ASSUME OutboxAssumption PROVE Spec => [][PublishedStays]_vars OBVIOUS
<1>1. Spec => []IInv BY Inductive
<1>2. IInv /\ [Next]_vars => [PublishedStays]_vars BY StaysStep DEF IInv
<1> QED BY <1>1, <1>2, PTL DEF Spec
=============================================================================
