-------------------------- MODULE WorkerSlotsProofs --------------------------
(***************************************************************************)
(* What the slots of a worker promise, proved for any number of slots,     *)
(* messages, events and tries.  Each of the two components has an          *)
(* inductive invariant of its own; a behaviour is one of a component, so   *)
(* that together they are one of WorkerSlots.                              *)
(***************************************************************************)
EXTENDS WorkerSlots, TLAPS

\* The time each leaf is given.
USE SMTT(20), ZenonT(20)

------------------------------------------------------------------------------
(* Deliveries                                                               *)

Flight == [settled : BOOLEAN, safeAck : BOOLEAN, err : {"nil", "lost"}]

SlotPlaces == {"off", "poll", "receive", "begin", "follow", "claim", "ack", "execute",
               "end", "fail", "done"}

EventAt(s) == EventOf[msg[s]]

Leads(s) == pc[s] \in {"claim", "ack", "execute", "end"}

DeliveryTypes ==
    /\ pc \in [Slots -> SlotPlaces]
    /\ msg \in [Slots -> Messages \cup {NULL}]
    /\ verdict \in [Slots -> Flight \cup {NULL}]
    /\ flights \in [DOMAIN flights -> Flight]

(* The leader of an event has its flight, and nobody else leads it.         *)
OneLeader ==
    /\ \A s \in Slots : Leads(s) => EventAt(s) \in DOMAIN flights
    /\ \A s, t \in Slots : Leads(s) /\ Leads(t) /\ EventAt(s) = EventAt(t) => s = t

(* Whoever may acknowledge an event has its durable answer.                 *)
AnswersAreDurable ==
    /\ \A e \in DOMAIN flights : flights[e].safeAck => e \in answered
    /\ \A s \in Slots : pc[s] = "ack" => EventAt(s) \in answered
    /\ \A s \in Slots : pc[s] = "follow" /\ verdict[s] # NULL /\ verdict[s].safeAck
                            => EventAt(s) \in answered

DeliveryInv ==
    DeliveryTypes /\ OneLeader /\ AnswersAreDurable /\ Delivery!AckOnlyAfterDecision

(* Nothing is delivered to begin with.                                      *)
LEMMA DeliveryStarts == ASSUME Delivery!Init PROVE DeliveryInv
<1> USE DEF Delivery!Init
<1>1. DOMAIN flights = {} OBVIOUS
<1>2. \A s \in Slots : pc[s] = "off" OBVIOUS
<1>3. DeliveryTypes
  <2>1. flights \in [DOMAIN flights -> Flight] BY <1>1
  <2> QED BY <2>1 DEF DeliveryTypes, SlotPlaces
<1>4. OneLeader BY <1>2 DEF OneLeader, Leads
<1>5. AnswersAreDurable BY <1>1, <1>2 DEF AnswersAreDurable
<1> QED BY <1>3, <1>4, <1>5 DEF DeliveryInv, Delivery!AckOnlyAfterDecision

(* A step of Run, of the heartbeat or of the environment.                   *)
LEMMA DeliveryStill ==
    ASSUME DeliveryInv, UNCHANGED <<acked, answered, flights, pc, msg, verdict>>
    PROVE  DeliveryInv'
<1>1. DeliveryTypes' BY DEF DeliveryInv, DeliveryTypes
<1>2. OneLeader' BY DEF DeliveryInv, OneLeader, Leads, EventAt
<1>3. AnswersAreDurable' BY DEF DeliveryInv, AnswersAreDurable, EventAt
<1>4. Delivery!AckOnlyAfterDecision' BY DEF DeliveryInv, Delivery!AckOnlyAfterDecision
<1> QED BY <1>1, <1>2, <1>3, <1>4 DEF DeliveryInv

(* A slot that neither leads nor follows when its step is over.             *)
LEMMA SlotLeaves ==
    ASSUME DeliveryInv, NEW s \in Slots,
           \E l \in {"poll", "receive", "begin", "fail", "done"} : pc' = [pc EXCEPT ![s] = l],
           msg' = msg \/ \E m \in Messages \cup {NULL} : msg' = [msg EXCEPT ![s] = m],
           verdict' = verdict \/ verdict' = [verdict EXCEPT ![s] = NULL],
           UNCHANGED <<answered, flights>>,
           Delivery!AckOnlyAfterDecision'
    PROVE  DeliveryInv'
<1> PICK l \in {"poll", "receive", "begin", "fail", "done"} : pc' = [pc EXCEPT ![s] = l]
  BY Zenon
<1>1. DeliveryTypes BY DEF DeliveryInv
<1>2. DeliveryTypes' BY <1>1 DEF DeliveryTypes, SlotPlaces
<1>3. pc'[s] = l BY <1>1 DEF DeliveryTypes
<1>4. \A t \in Slots : t # s =>
         pc'[t] = pc[t] /\ msg'[t] = msg[t] /\ verdict'[t] = verdict[t]
  BY <1>1 DEF DeliveryTypes
<1>5. ~Leads(s)' BY <1>3 DEF Leads
<1>6. \A t \in Slots : t # s => Leads(t)' = Leads(t) /\ EventAt(t)' = EventAt(t)
  BY <1>4 DEF Leads, EventAt
<1>7. OneLeader' BY <1>5, <1>6 DEF DeliveryInv, OneLeader
<1>8. AnswersAreDurable' BY <1>3, <1>4, <1>6 DEF DeliveryInv, AnswersAreDurable
<1> QED BY <1>2, <1>7, <1>8 DEF DeliveryInv

(* A leader goes on, and may decide for its followers (settleLocked).       *)
LEMMA LeaderGoesOn ==
    ASSUME DeliveryInv, NEW s \in Slots, Leads(s),
           NEW l \in {"ack", "execute", "end"}, pc' = [pc EXCEPT ![s] = l],
           msg' = msg, answered \subseteq answered',
           l = "ack" => EventAt(s) \in answered',
           NEW safe \in BOOLEAN, safe => EventAt(s) \in answered',
           NEW err \in {"nil", "lost"},
           UNCHANGED <<flights, verdict>> \/ Delivery!Settle(EventAt(s), safe, err),
           Delivery!AckOnlyAfterDecision'
    PROVE  DeliveryInv'
<1>1. PICK e : e = EventAt(s) OBVIOUS
<1>2. DeliveryTypes /\ OneLeader /\ AnswersAreDurable /\ e \in DOMAIN flights
  BY <1>1 DEF DeliveryInv, OneLeader
<1>3. PICK f : f = [settled |-> TRUE, safeAck |-> safe, err |-> err] BY ZenonT(30)
<1>4. f \in Flight /\ f.safeAck = safe BY <1>3 DEF Flight
<1>5. \/ UNCHANGED <<flights, verdict>>
      \/ /\ flights' = [flights EXCEPT ![e] = f]
         /\ verdict' = [t \in Slots |-> IF t \in Delivery!Waiting(e) THEN f ELSE verdict[t]]
  BY <1>1, <1>3 DEF Delivery!Settle
<1>6. DOMAIN flights' = DOMAIN flights /\ flights' \in [DOMAIN flights' -> Flight]
  BY <1>2, <1>4, <1>5 DEF DeliveryTypes
<1>7. verdict' \in [Slots -> Flight \cup {NULL}] BY <1>2, <1>4, <1>5 DEF DeliveryTypes
<1>8. DeliveryTypes' BY <1>2, <1>6, <1>7 DEF DeliveryTypes, SlotPlaces
<1>9. /\ pc'[s] = l
      /\ \A t \in Slots : t # s => pc'[t] = pc[t]
      /\ \A t \in Slots : EventAt(t)' = EventAt(t)
  BY <1>2 DEF DeliveryTypes, EventAt
<1>10. \A t \in Slots : Leads(t)' => Leads(t) BY <1>9 DEF Leads
<1>11. OneLeader' BY <1>2, <1>6, <1>9, <1>10 DEF OneLeader
<1>12. AnswersAreDurable'
  <2>1. \A g \in DOMAIN flights' : flights'[g].safeAck => g \in answered'
    BY <1>1, <1>2, <1>4, <1>5, <1>6 DEF AnswersAreDurable, DeliveryTypes
  <2>2. \A t \in Slots : pc'[t] = "ack" => EventAt(t)' \in answered'
    BY <1>2, <1>9 DEF AnswersAreDurable
  <2>3. ASSUME NEW t \in Slots, pc'[t] = "follow", verdict'[t] # NULL, verdict'[t].safeAck
        PROVE  EventAt(t)' \in answered'
    <3>1. t # s /\ pc[t] = "follow" BY <1>9, <2>3
    <3>2. CASE verdict'[t] = verdict[t] BY <1>2, <1>9, <2>3, <3>1, <3>2 DEF AnswersAreDurable
    <3>3. CASE verdict'[t] # verdict[t]
      <4>1. t \in Delivery!Waiting(e) /\ verdict'[t] = f BY <1>2, <1>5, <3>3 DEF DeliveryTypes
      <4>2. EventAt(t) = e BY <4>1 DEF Delivery!Waiting, EventAt
      <4> QED BY <1>1, <1>4, <1>9, <2>3, <4>1, <4>2
    <3> QED BY <3>2, <3>3
  <2> QED BY <2>1, <2>2, <2>3 DEF AnswersAreDurable
<1> QED BY <1>8, <1>11, <1>12 DEF DeliveryInv

(* The messages acknowledged so far stay answered.                          *)
LEMMA AcksKeep ==
    ASSUME DeliveryInv, answered \subseteq answered', NEW m, NEW safe,
           Delivery!Acknowledged(m, safe), safe => EventOf[m] \in answered'
    PROVE  Delivery!AckOnlyAfterDecision'
<1>1. \A n \in acked : EventOf[n] \in answered'
  BY DEF DeliveryInv, Delivery!AckOnlyAfterDecision
<1>2. acked' = acked \/ (safe /\ acked' = acked \cup {m}) BY DEF Delivery!Acknowledged
<1> QED BY <1>1, <1>2 DEF Delivery!AckOnlyAfterDecision

(* A slot polls, receives, rejects, or shares the fate of its leader.       *)
LEMMA FollowersKeep ==
    ASSUME DeliveryInv, NEW s \in Slots,
           \/ Delivery!CheckIntake(s) \/ Delivery!ReceiveNothing(s) \/ Delivery!Receive(s)
           \/ Delivery!Reject(s) \/ Delivery!Follow(s) \/ Delivery!FollowAbandoned(s)
           \/ Delivery!SlotFails(s)
    PROVE  DeliveryInv'
<1>3. UNCHANGED <<acked, answered>> => Delivery!AckOnlyAfterDecision'
  BY DEF DeliveryInv, Delivery!AckOnlyAfterDecision
<1>4. CASE Delivery!CheckIntake(s) \/ Delivery!ReceiveNothing(s) \/ Delivery!SlotFails(s)
  <2>1. /\ \E l \in {"poll", "receive", "begin", "fail", "done"} : pc' = [pc EXCEPT ![s] = l]
        /\ UNCHANGED <<acked, answered, flights, msg, verdict>>
    BY <1>4 DEF Delivery!CheckIntake, Delivery!ReceiveNothing, Delivery!SlotFails, Delivery!Goto
  <2> QED BY <1>3, <2>1, SlotLeaves, Zenon
<1>5. CASE Delivery!Receive(s)
  <2>1. /\ pc' = [pc EXCEPT ![s] = "begin"]
        /\ \E m \in Messages : msg' = [msg EXCEPT ![s] = m]
        /\ UNCHANGED <<acked, answered, flights, verdict>>
    BY <1>5, Zenon DEF Delivery!Receive, Delivery!Goto
  <2> QED BY <1>3, <2>1, SlotLeaves, ZenonT(30)
<1>6. CASE Delivery!Reject(s)
  <2>1. /\ pc' = [pc EXCEPT ![s] = "poll"] /\ msg' = [msg EXCEPT ![s] = NULL]
        /\ UNCHANGED <<acked, answered, flights, verdict>>
    BY <1>6, Zenon DEF Delivery!Reject, Delivery!Goto
  <2> QED BY <1>3, <2>1, SlotLeaves, Zenon
<1>7. CASE Delivery!Follow(s)
  <2>1. /\ \E l \in {"poll", "fail"} : pc' = [pc EXCEPT ![s] = l]
        /\ msg' = [msg EXCEPT ![s] = NULL] /\ verdict' = [verdict EXCEPT ![s] = NULL]
        /\ UNCHANGED <<answered, flights>>
        /\ pc[s] = "follow" /\ verdict[s] # NULL
        /\ Delivery!Acknowledged(msg[s], verdict[s].safeAck)
    BY <1>7, ZenonT(30) DEF Delivery!Follow, Delivery!Goto
  <2>2. verdict[s].safeAck => EventOf[msg[s]] \in answered'
    BY <2>1, ZenonT(30) DEF DeliveryInv, AnswersAreDurable, EventAt
  <2>3. Delivery!AckOnlyAfterDecision' BY <2>1, <2>2, AcksKeep
  <2> QED BY <2>1, <2>3, SlotLeaves, Zenon
<1>8. CASE Delivery!FollowAbandoned(s)
  <2>1. /\ pc' = [pc EXCEPT ![s] = "poll"] /\ msg' = [msg EXCEPT ![s] = NULL]
        /\ verdict' = [verdict EXCEPT ![s] = NULL]
        /\ UNCHANGED <<acked, answered, flights>>
    BY <1>8 DEF Delivery!FollowAbandoned, Delivery!Goto
  <2> QED BY <1>3, <2>1, SlotLeaves, Zenon
<1> QED BY <1>4, <1>5, <1>6, <1>7, <1>8

(* A leader claims, acknowledges and executes.                              *)
LEMMA LeadersKeep ==
    ASSUME DeliveryInv, NEW s \in Slots,
           \/ Delivery!ClaimSafe(s) \/ Delivery!ClaimUnsafe(s) \/ Delivery!ClaimSessionLost(s)
           \/ Delivery!ClaimUnresolved(s) \/ Delivery!LeaderAck(s) \/ Delivery!Execute(s)
    PROVE  DeliveryInv'
<1>1. UNCHANGED acked /\ answered \subseteq answered' => Delivery!AckOnlyAfterDecision'
  BY DEF DeliveryInv, Delivery!AckOnlyAfterDecision
<1>2. CASE Delivery!ClaimSafe(s)
  <2>1. /\ pc[s] = "claim" /\ pc' = [pc EXCEPT ![s] = "ack"]
        /\ answered' = answered \cup {EventAt(s)}
        /\ Delivery!Settle(EventAt(s), TRUE, "nil") /\ UNCHANGED <<acked, msg>>
    BY <1>2, Zenon DEF Delivery!ClaimSafe, Delivery!Goto, EventAt
  <2>2. Leads(s) BY <2>1 DEF Leads
  <2> QED BY <1>1, <2>1, <2>2, LeaderGoesOn, Zenon
<1>3. CASE Delivery!ClaimUnsafe(s) \/ Delivery!ClaimSessionLost(s)
  <2>1. /\ pc[s] = "claim" /\ pc' = [pc EXCEPT ![s] = "end"]
        /\ \E err \in {"nil", "lost"} : Delivery!Settle(EventAt(s), FALSE, err)
        /\ UNCHANGED <<acked, answered, msg>>
    BY <1>3, Zenon DEF Delivery!ClaimUnsafe, Delivery!ClaimSessionLost, Delivery!Goto, EventAt
  <2>2. Leads(s) BY <2>1 DEF Leads
  <2> QED BY <1>1, <2>1, <2>2, LeaderGoesOn, ZenonT(30)
<1>4. CASE Delivery!ClaimUnresolved(s)
  <2>1. /\ pc[s] = "claim" /\ UNCHANGED <<acked, answered, msg>>
        /\ \/ UNCHANGED <<flights, verdict, pc>>
           \/ Delivery!Settle(EventAt(s), FALSE, "nil") /\ pc' = [pc EXCEPT ![s] = "end"]
    BY <1>4, Zenon DEF Delivery!ClaimUnresolved, Delivery!Goto, EventAt
  <2>2. Leads(s) BY <2>1 DEF Leads
  <2> QED BY <1>1, <2>1, <2>2, LeaderGoesOn, DeliveryStill, ZenonT(30)
<1>5. CASE Delivery!LeaderAck(s)
  <2>1. /\ pc[s] = "ack" /\ Delivery!Acknowledged(msg[s], TRUE)
        /\ \E l \in {"execute", "end"} : pc' = [pc EXCEPT ![s] = l]
        /\ UNCHANGED <<answered, flights, msg, verdict>>
    BY <1>5, ZenonT(30) DEF Delivery!LeaderAck, Delivery!Goto
  <2>2. Leads(s) /\ EventOf[msg[s]] \in answered'
    BY <2>1, ZenonT(30) DEF Leads, DeliveryInv, AnswersAreDurable, EventAt
  <2>3. Delivery!AckOnlyAfterDecision' BY <2>1, <2>2, AcksKeep, Zenon
  <2> QED BY <2>1, <2>2, <2>3, LeaderGoesOn, Zenon
<1>6. CASE Delivery!Execute(s)
  <2>1. /\ pc[s] = "execute" /\ pc' = [pc EXCEPT ![s] = "end"]
        /\ UNCHANGED <<acked, answered, flights, msg, verdict>>
    BY <1>6 DEF Delivery!Execute, Delivery!Goto
  <2>2. Leads(s) BY <2>1 DEF Leads
  <2> QED BY <1>1, <2>1, <2>2, LeaderGoesOn, ZenonT(30)
<1> QED BY <1>2, <1>3, <1>4, <1>5, <1>6

(* The first delivery of an event leads it, another follows, and what it is *)
(* told at once was settled before (beginDelivery).                         *)
LEMMA BeginKeeps ==
    ASSUME DeliveryInv, NEW s \in Slots, Delivery!BeginDelivery(s) PROVE DeliveryInv'
<1>1. PICK e : e = EventAt(s) OBVIOUS
<1>2. DeliveryTypes /\ OneLeader /\ AnswersAreDurable BY DEF DeliveryInv
<1>3. pc[s] = "begin" /\ UNCHANGED <<acked, answered, msg>> BY DEF Delivery!BeginDelivery
<1>4. Delivery!AckOnlyAfterDecision' BY <1>3 DEF DeliveryInv, Delivery!AckOnlyAfterDecision
<1>5. \A t \in Slots : EventAt(t)' = EventAt(t) BY <1>3 DEF EventAt
<1>6. CASE e \in DOMAIN flights
  <2>1. PICK v : v = IF flights[e].settled THEN flights[e] ELSE NULL OBVIOUS
  <2>2. /\ pc' = [pc EXCEPT ![s] = "follow"] /\ verdict' = [verdict EXCEPT ![s] = v]
        /\ flights' = flights
    BY <1>1, <1>6, <2>1 DEF Delivery!BeginDelivery, Delivery!Goto, EventAt
  <2>3. v \in Flight \cup {NULL} BY <1>2, <1>6, <2>1 DEF DeliveryTypes
  <2>4. DeliveryTypes' BY <1>2, <1>3, <2>2, <2>3 DEF DeliveryTypes, SlotPlaces
  <2>5. /\ pc'[s] = "follow" /\ verdict'[s] = v
        /\ \A t \in Slots : t # s => pc'[t] = pc[t] /\ verdict'[t] = verdict[t]
    BY <1>2, <2>2 DEF DeliveryTypes
  <2>6. \A t \in Slots : Leads(t)' => Leads(t) BY <2>5 DEF Leads
  <2>7. OneLeader' BY <1>2, <1>5, <2>2, <2>6 DEF OneLeader
  <2>8. v # NULL /\ v.safeAck => e \in answered BY <1>2, <1>6, <2>1, ZenonT(30) DEF AnswersAreDurable
  <2>9. AnswersAreDurable' BY <1>1, <1>2, <1>3, <1>5, <2>2, <2>5, <2>8 DEF AnswersAreDurable
  <2> QED BY <1>4, <2>4, <2>7, <2>9 DEF DeliveryInv
<1>7. CASE e \notin DOMAIN flights
  <2>1. /\ pc' = [pc EXCEPT ![s] = "claim"] /\ verdict' = verdict
        /\ flights' = [f \in DOMAIN flights \cup {e} |->
                          IF f = e THEN Delivery!NewFlight ELSE flights[f]]
    BY <1>1, <1>7 DEF Delivery!BeginDelivery, Delivery!Goto, EventAt
  <2>2. Delivery!NewFlight \in Flight /\ Delivery!NewFlight.safeAck = FALSE
    BY DEF Delivery!NewFlight, Flight
  <2>3. DOMAIN flights' = DOMAIN flights \cup {e} BY <2>1
  <2>4. flights' \in [DOMAIN flights' -> Flight] BY <1>2, <2>1, <2>2 DEF DeliveryTypes
  <2>5. DeliveryTypes' BY <1>2, <1>3, <2>1, <2>4 DEF DeliveryTypes, SlotPlaces
  <2>6. /\ pc'[s] = "claim"
        /\ \A t \in Slots : t # s => pc'[t] = pc[t]
    BY <1>2, <2>1 DEF DeliveryTypes
  <2>7. \A t \in Slots : t # s => Leads(t)' = Leads(t) BY <2>6 DEF Leads
  <2>8. OneLeader' BY <1>1, <1>2, <1>5, <1>7, <2>3, <2>7, ZenonT(30) DEF OneLeader
  <2>9. AnswersAreDurable' BY <1>2, <1>3, <1>5, <2>1, <2>2, <2>3, <2>6 DEF AnswersAreDurable
  <2> QED BY <1>4, <2>5, <2>8, <2>9 DEF DeliveryInv
<1> QED BY <1>6, <1>7

(* The leader's path ends, and with it its flight (endDelivery).            *)
LEMMA EndKeeps ==
    ASSUME DeliveryInv, NEW s \in Slots, Delivery!EndDelivery(s) PROVE DeliveryInv'
<1>1. PICK e : e = EventAt(s) OBVIOUS
<1>2. PICK f : f = [Delivery!NewFlight EXCEPT !.settled = TRUE] BY Zenon
<1>3. f \in Flight /\ f.safeAck = FALSE BY <1>2, Zenon DEF Delivery!NewFlight, Flight
<1>4. DeliveryTypes /\ OneLeader /\ AnswersAreDurable BY DEF DeliveryInv
<1>5. /\ pc[s] = "end" /\ UNCHANGED <<acked, answered>>
      /\ \E l \in {"poll", "fail"} : pc' = [pc EXCEPT ![s] = l]
      /\ msg' = [msg EXCEPT ![s] = NULL]
      /\ flights' = [g \in DOMAIN flights \ {e} |-> flights[g]]
      /\ verdict' = [t \in Slots |-> IF t \in Delivery!Waiting(e) /\ ~flights[e].settled
                                     THEN f ELSE verdict[t]]
  BY <1>1, <1>2, ZenonT(30) DEF Delivery!EndDelivery, Delivery!Goto, EventAt
<1>6. DOMAIN flights' = DOMAIN flights \ {e} /\ flights' \in [DOMAIN flights' -> Flight]
  BY <1>4, <1>5 DEF DeliveryTypes
<1>7. verdict' \in [Slots -> Flight \cup {NULL}] BY <1>3, <1>4, <1>5 DEF DeliveryTypes
<1>8. DeliveryTypes' BY <1>4, <1>5, <1>6, <1>7 DEF DeliveryTypes, SlotPlaces
<1>9. /\ pc'[s] \in {"poll", "fail"}
      /\ \A t \in Slots : t # s => pc'[t] = pc[t] /\ msg'[t] = msg[t]
  BY <1>4, <1>5 DEF DeliveryTypes
<1>10. /\ Leads(s) /\ ~Leads(s)'
       /\ \A t \in Slots : t # s => Leads(t)' = Leads(t) /\ EventAt(t)' = EventAt(t)
  BY <1>5, <1>9 DEF Leads, EventAt
<1>11. OneLeader' BY <1>1, <1>4, <1>6, <1>10 DEF OneLeader
<1>12. AnswersAreDurable'
  <2>1. \A g \in DOMAIN flights' : flights'[g].safeAck => g \in answered'
    BY <1>4, <1>5, <1>6 DEF AnswersAreDurable
  <2>2. \A t \in Slots : pc'[t] = "ack" => EventAt(t)' \in answered'
    BY <1>4, <1>5, <1>9, <1>10 DEF AnswersAreDurable
  <2>3. ASSUME NEW t \in Slots, pc'[t] = "follow", verdict'[t] # NULL, verdict'[t].safeAck
        PROVE  EventAt(t)' \in answered'
    <3>1. t # s /\ pc[t] = "follow" BY <1>9, <2>3
    <3>2. verdict'[t] = verdict[t] BY <1>3, <1>4, <1>5, <2>3 DEF DeliveryTypes
    <3> QED BY <1>4, <1>5, <1>10, <2>3, <3>1, <3>2 DEF AnswersAreDurable
  <2> QED BY <2>1, <2>2, <2>3 DEF AnswersAreDurable
<1>13. Delivery!AckOnlyAfterDecision' BY <1>5 DEF DeliveryInv, Delivery!AckOnlyAfterDecision
<1> QED BY <1>8, <1>11, <1>12, <1>13 DEF DeliveryInv

(* The slots begin, and whatever else Run, the heartbeat and the            *)
(* environment do does not touch a delivery.                                *)
LEMMA RegisteredKeeps == ASSUME DeliveryInv, Delivery!Registered PROVE DeliveryInv'
<1>1. /\ pc' = [s \in Slots |-> "poll"]
      /\ UNCHANGED <<acked, answered, flights, msg, verdict>>
  BY DEF Delivery!Registered, Delivery!others
<1>2. \A s \in Slots : pc'[s] = "poll" BY <1>1
<1>3. DeliveryTypes' BY <1>1 DEF DeliveryInv, DeliveryTypes, SlotPlaces
<1>4. OneLeader' BY <1>2 DEF OneLeader, Leads
<1>5. AnswersAreDurable' BY <1>1, <1>2 DEF DeliveryInv, AnswersAreDurable
<1>6. Delivery!AckOnlyAfterDecision' BY <1>1 DEF DeliveryInv, Delivery!AckOnlyAfterDecision
<1> QED BY <1>3, <1>4, <1>5, <1>6 DEF DeliveryInv

(* No step of the worker's process, of its broker or of its control plane   *)
(* makes a delivery unsafe.                                                 *)
LEMMA DeliveryKeeps == ASSUME DeliveryInv, [Delivery!Next]_(Delivery!vars) PROVE DeliveryInv'
<1>1. CASE UNCHANGED Delivery!vars
  BY <1>1, DeliveryStill DEF Delivery!vars, Delivery!slotVars
<1>2. CASE \/ Delivery!RegisterFails \/ Delivery!RunStops \/ Delivery!RunFatal
           \/ Delivery!RunSlotsDone \/ Delivery!Drained \/ Delivery!DrainTimeout
           \/ Delivery!Returned \/ Delivery!HeartbeatStep \/ Delivery!HeartbeatLost
           \/ Delivery!Sigterm \/ Delivery!FenceSession
           \/ \E e \in Events : Delivery!TakenElsewhere(e)
  <2>1. UNCHANGED <<acked, answered, flights, pc, msg, verdict>>
    BY <1>2 DEF Delivery!RegisterFails, Delivery!RunStops, Delivery!RunFatal,
         Delivery!RunSlotsDone, Delivery!Drained, Delivery!DrainTimeout, Delivery!Returned,
         Delivery!HeartbeatStep, Delivery!HeartbeatStopsIntake, Delivery!HeartbeatReports,
         Delivery!HeartbeatExits, Delivery!HeartbeatLost, Delivery!Sigterm,
         Delivery!FenceSession, Delivery!TakenElsewhere, Delivery!others, Delivery!slotVars
  <2> QED BY <2>1, DeliveryStill
<1>3. CASE Delivery!Registered BY <1>3, RegisteredKeeps
<1>4. ASSUME NEW s \in Slots, Delivery!SlotStep(s) PROVE DeliveryInv'
  BY <1>4, FollowersKeep, LeadersKeep, BeginKeeps, EndKeeps DEF Delivery!SlotStep
<1>5. ASSUME NEW s \in Slots, Delivery!Execute(s) PROVE DeliveryInv' BY <1>5, LeadersKeep
<1> QED BY <1>1, <1>2, <1>3, <1>4, <1>5 DEF Delivery!Next, Delivery!RunStep

(* The invariant says what was promised of deliveries.                      *)
LEMMA DeliveryPromises == ASSUME DeliveryInv PROVE Delivery!DeliveriesAreSafe
BY ZenonT(30) DEF DeliveryInv, OneLeader, Leads, EventAt, Delivery!DeliveriesAreSafe,
       Delivery!OneExecutionPerEvent

------------------------------------------------------------------------------
(* One attempt                                                              *)

Causes == {"none", "user", "timeout", "authority", "shutdown"}

Decided == job \notin {"LEASED", "RUNNING"}

AttemptTypes ==
    /\ canceled \in BOOLEAN /\ seenCancel \in BOOLEAN /\ told \in BOOLEAN
    /\ handlerErr \in BOOLEAN /\ large \in BOOLEAN /\ stored \in BOOLEAN
    /\ ready \in BOOLEAN /\ registered \in BOOLEAN /\ shutdown \in BOOLEAN
    /\ usable \in BOOLEAN /\ fenced \in BOOLEAN
    /\ execCause \in Causes \ {"user"} /\ workCause \in Causes /\ cause \in Causes
    /\ report \in Attempt!Reports \cup {"none"}
    /\ recorded \in {0, 1}
    /\ answer \in Attempt!Replies \cup {NULL}

(* Where the slot is tells what it has reported and what it knows.          *)
SlotPlace ==
    /\ pc \notin {"report", "done"} => report = "none"
    /\ pc = "report" => report # "none"
    /\ pc \notin {"start", "report"} => waiting = NULL /\ answer = NULL
    /\ waiting = NULL \/ waiting = Attempt!Identified(Attempt!Kind)
    /\ pc # "done" => heard = "none"
    /\ pc = "apply" => canceled
    /\ ready => pc \in {"stop", "report", "done"}

(* The handler runs only once the control plane has started the job.        *)
StartedFirst ==
    /\ pc \in {"bind", "apply", "work", "classify", "stop"} => job # "LEASED"
    /\ pc = "start" /\ answer = "ok" => job # "LEASED"

(* Whoever knows of a cancellation knows of one that was requested, and a   *)
(* job for which that was done is not started any more.                     *)
CancellationsAreReal ==
    canceled \/ seenCancel \/ hb = "deliver" \/ target # "none" \/ workCause = "user"
       \/ cause = "user" \/ answer = "cancel" \/ report = "ack" => Decided

(* What is reported was earned.                                             *)
ReportsAreEarned ==
    /\ execCause = "shutdown" \/ workCause = "shutdown" \/ cause = "shutdown" => shutdown
    /\ ready => ~large \/ stored
    /\ report = "fail" => cause = "none" /\ handlerErr
    /\ report = "succeed" => ready
    /\ report \in {"succeed", "fail"} => job # "LEASED"

(* The requests on their way are the start and the one report, under its    *)
(* one identity.                                                            *)
OneReport ==
    /\ \A r \in net : \/ r = Attempt!Identified("start")
                      \/ report # "none" /\ r = Attempt!Identified(report)
    /\ job = "FAILED" => report = "fail"
    /\ job = "SUCCEEDED" => report = "succeed"

(* The control plane will not accept the report any more.                   *)
Hopeless ==
    /\ ~Attempt!Committed(Attempt!Identified(report))
    /\ ~Attempt!Live \/ ~Attempt!Accepts(Attempt!Identified(report))

RefusalsLast ==
    /\ pc = "report" /\ answer \in {"refused", "fenced"} => Hopeless
    /\ report # "none" /\ heard \in {"refused", "fenced"} => Hopeless

ToldIsKept ==
    /\ told => canceled
    /\ told /\ pc = "report" => report = "ack"
    /\ Attempt!CancellationNotDropped

AttemptInv ==
    /\ AttemptTypes
    /\ SlotPlace
    /\ StartedFirst
    /\ CancellationsAreReal
    /\ ReportsAreEarned
    /\ OneReport
    /\ RefusalsLast
    /\ ToldIsKept

(* The request of an outcome keeps its kind, and an absent one is none.     *)
LEMMA IdentityLemma ==
    ASSUME NEW k \in Attempt!Reports \cup {"start"}
    PROVE  /\ Attempt!Identified(k) # NULL
           /\ Attempt!Identified(k).kind = k
           /\ Attempt!Identified(k).id = IF k \in {"fail", "ack"} THEN 1 ELSE 0
<1>1. Attempt!Identified(k) \in Attempt!Request
  BY SlotsAssumption DEF Attempt!Identified, Attempt!Request, Attempt!AttemptAssumption
<1> QED BY <1>1, SlotsAssumption DEF Attempt!Identified, Attempt!AttemptAssumption

(* Nobody has heard of anything when the claim is answered.                 *)
LEMMA AttemptStarts == ASSUME Attempt!Init PROVE AttemptInv
<1> USE DEF Attempt!Init
<1>1. NULL \notin Attempt!Replies BY SlotsAssumption DEF Attempt!AttemptAssumption
<1>2. AttemptTypes BY ZenonT(30) DEF AttemptTypes, Causes
<1>3. SlotPlace BY DEF SlotPlace
<1>4. StartedFirst BY <1>1 DEF StartedFirst, Attempt!Replies
<1>5. CancellationsAreReal BY <1>1 DEF CancellationsAreReal, Attempt!Replies
<1>6. ReportsAreEarned BY DEF ReportsAreEarned
<1>7. OneReport BY DEF OneReport
<1>8. RefusalsLast BY DEF RefusalsLast
<1>9. ToldIsKept BY DEF ToldIsKept, Attempt!CancellationNotDropped
<1> QED BY <1>2, <1>3, <1>4, <1>5, <1>6, <1>7, <1>8, <1>9 DEF AttemptInv

(* What the slot knows, as long as it and the heartbeat are at rest.        *)
LEMMA ServerMoves ==
    ASSUME AttemptInv,
           UNCHANGED <<pc, waiting, registered, canceled, execCause, workCause, shutdown, hb,
                       target, handlerErr, cause, seenCancel, large, stored, ready, report,
                       heard, told>>,
           net' \subseteq net, usable' \in BOOLEAN, fenced' \in BOOLEAN, recorded' \in {0, 1},
           Decided => Decided', job # "LEASED" => job' # "LEASED",
           job' = "FAILED" => report = "fail", job' = "SUCCEEDED" => report = "succeed",
           answer' \in Attempt!Replies \cup {NULL},
           \/ answer' = answer
           \/ /\ pc \in {"start", "report"}
              /\ answer' = "cancel" => Decided'
              /\ pc = "start" /\ answer' = "ok" => job' # "LEASED"
              /\ pc = "report" /\ answer' \in {"refused", "fenced"} => Hopeless',
           report # "none" /\ Hopeless => Hopeless'
    PROVE  AttemptInv'
<1>1. AttemptTypes' BY DEF AttemptInv, AttemptTypes
<1>2. SlotPlace' BY DEF AttemptInv, SlotPlace, Attempt!Kind, Attempt!Identified
<1>3. StartedFirst' BY DEF AttemptInv, StartedFirst
<1>4. CancellationsAreReal' BY DEF AttemptInv, CancellationsAreReal
<1>5. ReportsAreEarned' BY DEF AttemptInv, ReportsAreEarned
<1>6. OneReport' BY DEF AttemptInv, OneReport, Attempt!Identified
<1>7. RefusalsLast' BY DEF AttemptInv, RefusalsLast, SlotPlace
<1>8. ToldIsKept' BY DEF AttemptInv, ToldIsKept, Attempt!CancellationNotDropped
<1> QED BY <1>1, <1>2, <1>3, <1>4, <1>5, <1>6, <1>7, <1>8 DEF AttemptInv

(* Start, Succeed, Fail and AcknowledgeCancellation: history is consulted   *)
(* before authority, so that a refusal holds for every copy.                *)
LEMMA ServeKeeps == ASSUME AttemptInv, NEW r \in net, Attempt!Serve(r) PROVE AttemptInv'
<1>1. PICK accepted : accepted = (~Attempt!Committed(r) /\ Attempt!Live /\ Attempt!Accepts(r))
  OBVIOUS
<1>2. PICK reply : reply = CASE Attempt!Committed(r) \/ accepted -> "ok"
                             [] ~Attempt!Committed(r) /\ fenced -> "fenced"
                             [] Attempt!Live /\ r.kind = "start" /\ job = "CANCEL_REQUESTED"
                                   -> "cancel"
                             [] OTHER -> "refused"
  OBVIOUS
<1>3. /\ net' \subseteq net
      /\ job' = IF accepted THEN Attempt!After(r) ELSE job
      /\ recorded' = IF accepted /\ r.kind \in {"fail", "ack"} THEN r.id ELSE recorded
      /\ answer' = answer \/ (waiting = r /\ answer = NULL /\ answer' = reply)
      /\ UNCHANGED <<usable, fenced>>
      /\ UNCHANGED <<pc, waiting, registered, canceled, execCause, workCause, shutdown, hb,
                     target, handlerErr, cause, seenCancel, large, stored, ready, report,
                     heard, told>>
  BY <1>1, <1>2, Zenon DEF Attempt!Serve, Attempt!entryVars, Attempt!ctxVars, Attempt!hbVars,
     Attempt!outVars, Attempt!endVars
<1>4. PICK k \in Attempt!Reports \cup {"start"} :
         r = Attempt!Identified(k) /\ (k = "start" \/ k = report)
  BY DEF AttemptInv, OneReport, AttemptTypes
<1>5. r # NULL /\ r.kind = k /\ r.id = IF k \in {"fail", "ack"} THEN 1 ELSE 0
  BY <1>4, IdentityLemma
<1>6. k \in {"succeed", "fail", "ack", "start"} BY DEF Attempt!Reports
<1>7. accepted => /\ k = "start" => job \in {"LEASED", "RUNNING"} /\ job' = "RUNNING"
                  /\ k = "succeed" => job = "RUNNING" /\ job' = "SUCCEEDED"
                  /\ k = "fail" => job = "RUNNING" /\ job' = "FAILED"
                  /\ k = "ack" => job = "CANCEL_REQUESTED" /\ job' = "CANCELED"
  BY <1>1, <1>3, <1>5, <1>6, ZenonT(30) DEF Attempt!Accepts, Attempt!After
<1>8. Decided => Decided' BY <1>3, <1>6, <1>7 DEF Decided
<1>9. job # "LEASED" => job' # "LEASED" BY <1>3, <1>6, <1>7
<1>10. (job' = "FAILED" => report = "fail") /\ (job' = "SUCCEEDED" => report = "succeed")
  BY <1>3, <1>4, <1>6, <1>7 DEF AttemptInv, OneReport
<1>11. recorded' \in {0, 1} BY <1>3, <1>5, <1>6 DEF AttemptInv, AttemptTypes
<1>12. reply \in {"ok", "fenced", "cancel", "refused"} BY <1>2
<1>13. /\ report # "none" /\ Hopeless => Hopeless'
       /\ ~accepted /\ Hopeless => Hopeless'
  <2>1. ASSUME ~accepted, Hopeless PROVE Hopeless'
    BY <1>3, <2>1 DEF Hopeless, Attempt!Committed, Attempt!Accepts, Attempt!Live,
                      Attempt!Identified
  <2>2. ASSUME accepted, report # "none", Hopeless PROVE Hopeless'
    <3>1. report \in {"succeed", "fail", "ack"}
      BY <2>2 DEF AttemptInv, AttemptTypes, Attempt!Reports
    <3>2. PICK q : q = Attempt!Identified(report) OBVIOUS
    <3>3. q.kind = report /\ Attempt!Identified(report)' = q
      BY <1>3, <3>1, <3>2, IdentityLemma, ZenonT(30) DEF Attempt!Reports, Attempt!Identified
    <3>4. k = "start" BY <1>1, <1>4, <2>2, Zenon DEF Hopeless
    <3>5. job' = "RUNNING" /\ recorded' = recorded /\ job \in {"LEASED", "RUNNING"}
      BY <1>3, <1>5, <1>7, <2>2, <3>4
    <3>6. report # "ack" => job = "RUNNING"
      BY <3>1, <3>5 DEF AttemptInv, ReportsAreEarned
    <3>7. ~Attempt!Committed(q) /\ ~Attempt!Accepts(q)
      BY <1>1, <2>2, <3>2, ZenonT(30) DEF Hopeless
    <3>8. ~Attempt!Committed(q)' BY <3>1, <3>3, <3>5, <3>7 DEF Attempt!Committed
    <3>9. ~Attempt!Accepts(q)' BY <3>1, <3>3, <3>5, <3>6, <3>7 DEF Attempt!Accepts
    <3> QED BY <3>3, <3>8, <3>9 DEF Hopeless
  <2> QED BY <2>1, <2>2
<1>14. ASSUME answer' # answer
       PROVE  /\ pc \in {"start", "report"}
              /\ answer' = "cancel" => Decided'
              /\ pc = "start" /\ answer' = "ok" => job' # "LEASED"
              /\ pc = "report" /\ answer' \in {"refused", "fenced"} => Hopeless'
  <2>1. waiting = r /\ answer' = reply /\ waiting # NULL BY <1>3, <1>5, <1>14
  <2>2. pc \in {"start", "report"} /\ waiting = Attempt!Identified(Attempt!Kind)
    BY <2>1 DEF AttemptInv, SlotPlace
  <2>3. reply = "cancel" => Decided' BY <1>2, <1>3, <1>8 DEF Decided
  <2>4. pc = "start" /\ reply = "ok" => job' # "LEASED"
    <3> SUFFICES ASSUME pc = "start", reply = "ok" PROVE job' # "LEASED" OBVIOUS
    <3>1. r = Attempt!Identified("start") BY <2>1, <2>2 DEF Attempt!Kind
    <3>2. r.kind = "start" BY <3>1, IdentityLemma
    <3>3. ~Attempt!Committed(r) BY <3>2 DEF Attempt!Committed
    <3>4. accepted BY <1>2, <3>3
    <3> QED BY <1>5, <1>7, <3>2, <3>4
  <2>5. pc = "report" /\ reply \in {"refused", "fenced"} => Hopeless'
    <3> SUFFICES ASSUME pc = "report", reply \in {"refused", "fenced"} PROVE Hopeless' OBVIOUS
    <3>1. r = Attempt!Identified(report) BY <2>1, <2>2 DEF Attempt!Kind
    <3>2. ~Attempt!Committed(r) /\ ~accepted BY <1>1, <1>2, Zenon DEF Attempt!Live
    <3>3. Hopeless BY <1>1, <3>1, <3>2, Zenon DEF Hopeless
    <3> QED BY <1>13, <3>2, <3>3
  <2> QED BY <2>1, <2>2, <2>3, <2>4, <2>5
<1>15. answer' \in Attempt!Replies \cup {NULL}
  BY <1>3, <1>12 DEF AttemptInv, AttemptTypes, Attempt!Replies
<1>16. usable' \in BOOLEAN /\ fenced' \in BOOLEAN BY <1>3 DEF AttemptInv, AttemptTypes
<1> QED BY <1>3, <1>8, <1>9, <1>10, <1>11, <1>13, <1>14, <1>15, <1>16, ServerMoves

(* A cancellation, an expiry, a fence, a recovery and a lost request.       *)
LEMMA OutsideKeeps ==
    ASSUME AttemptInv,
           \/ Attempt!RequestCancel \/ Attempt!Lapse \/ Attempt!Fence \/ Attempt!Reconcile
           \/ \E r \in net : Attempt!LoseRequest(r)
    PROVE  AttemptInv'
<1>1. /\ UNCHANGED <<pc, waiting, registered, canceled, execCause, workCause, shutdown, hb,
                     target, handlerErr, cause, seenCancel, large, stored, ready, report,
                     heard, told>>
      /\ net' \subseteq net /\ recorded' = recorded /\ answer' = answer
      /\ \/ UNCHANGED <<job, usable, fenced>>
         \/ usable' = FALSE /\ UNCHANGED <<job, fenced>>
         \/ fenced' = TRUE /\ UNCHANGED <<job, usable>>
         \/ /\ job \in {"LEASED", "RUNNING"} /\ job' = "CANCEL_REQUESTED"
            /\ UNCHANGED <<usable, fenced>>
         \/ /\ ~usable /\ job' \in {"CANCELED", "ABANDONED"}
            /\ UNCHANGED <<usable, fenced>>
  BY Zenon DEF Attempt!RequestCancel, Attempt!Lapse, Attempt!Fence, Attempt!Reconcile,
         Attempt!LoseRequest, Attempt!rpcVars, Attempt!entryVars, Attempt!ctxVars,
         Attempt!hbVars, Attempt!outVars, Attempt!endVars, Attempt!serverVars
<1>2. /\ usable \in BOOLEAN /\ fenced \in BOOLEAN /\ recorded \in {0, 1}
      /\ answer \in Attempt!Replies \cup {NULL}
  BY DEF AttemptInv, AttemptTypes
<1>3. usable' \in BOOLEAN /\ fenced' \in BOOLEAN BY <1>1, <1>2, ZenonT(30)
<1>4. (Decided => Decided') /\ (job # "LEASED" => job' # "LEASED") BY <1>1 DEF Decided
<1>5. (job' = "FAILED" => report = "fail") /\ (job' = "SUCCEEDED" => report = "succeed")
  BY <1>1 DEF AttemptInv, OneReport
<1>6. report # "none" /\ Hopeless => Hopeless'
  <2> SUFFICES ASSUME report # "none", Hopeless PROVE Hopeless' OBVIOUS
  <2>1. PICK q : q = Attempt!Identified(report) OBVIOUS
  <2>2. report \in {"succeed", "fail", "ack"} BY DEF AttemptInv, AttemptTypes, Attempt!Reports
  <2>3. q.kind = report BY <2>1, <2>2, IdentityLemma DEF Attempt!Reports
  <2>4. q = Attempt!Identified(report)' BY <1>1, <2>1 DEF Attempt!Identified
  <2>5. report = "ack" => Decided BY DEF AttemptInv, CancellationsAreReal
  <2>6. ~Attempt!Committed(q) /\ (~Attempt!Live \/ ~Attempt!Accepts(q)) BY <2>1 DEF Hopeless
  <2>7. ~Attempt!Committed(q)' BY <1>1, <2>2, <2>3, <2>6 DEF Attempt!Committed
  <2>8. ~Attempt!Live' \/ ~Attempt!Accepts(q)'
    BY <1>1, <2>2, <2>3, <2>5, <2>6 DEF Attempt!Live, Attempt!Accepts, Decided
  <2> QED BY <2>4, <2>7, <2>8 DEF Hopeless
<1> QED BY <1>1, <1>2, <1>3, <1>4, <1>5, <1>6, ServerMoves

(* A heartbeat delivers a cancellation (deliverCancellations, deliver).     *)
LEMMA DirectiveKeeps ==
    ASSUME AttemptInv, Attempt!Beat \/ Attempt!Deliver \/ Attempt!Apply PROVE AttemptInv'
<1>1. /\ UNCHANGED <<job, recorded, usable, fenced, net, pc, waiting, answer, registered,
                     execCause, shutdown, handlerErr, cause, seenCancel, large, stored, ready,
                     report, heard>>
      /\ \/ /\ job = "CANCEL_REQUESTED"
            /\ UNCHANGED <<canceled, workCause, target, told>>
         \/ /\ hb = "deliver" /\ canceled' = (canceled \/ registered)
            /\ told' = (told \/ (registered /\ pc \notin {"report", "done"}))
            /\ UNCHANGED workCause
         \/ /\ workCause' = workCause \/ (target # "none" /\ workCause' = "user")
            /\ hb' = "idle" /\ target' = "none" /\ UNCHANGED <<canceled, told>>
  BY DEF Attempt!Beat, Attempt!Deliver, Attempt!Apply, Attempt!First, Attempt!serverVars,
         Attempt!rpcVars, Attempt!entryVars, Attempt!ctxVars, Attempt!outVars, Attempt!endVars
<1>2. AttemptTypes BY DEF AttemptInv
<1>3. AttemptTypes' BY <1>1, <1>2 DEF AttemptTypes, Causes
<1>4. canceled => canceled' BY <1>1, ZenonT(30)
<1>5. SlotPlace' BY <1>1, <1>4 DEF AttemptInv, SlotPlace, Attempt!Kind, Attempt!Identified
<1>6. StartedFirst' BY <1>1 DEF AttemptInv, StartedFirst
<1>7. CancellationsAreReal' BY <1>1 DEF AttemptInv, CancellationsAreReal, Decided
<1>8. ReportsAreEarned' BY <1>1 DEF AttemptInv, ReportsAreEarned
<1>9. OneReport' BY <1>1 DEF AttemptInv, OneReport, Attempt!Identified
<1>10. Hopeless => Hopeless'
  BY <1>1 DEF Hopeless, Attempt!Committed, Attempt!Accepts, Attempt!Live, Attempt!Identified
<1>11. RefusalsLast' BY <1>1, <1>10 DEF AttemptInv, RefusalsLast
<1>12. ToldIsKept'
  <2>1. told' => canceled' BY <1>1, <1>2, ZenonT(30) DEF AttemptInv, ToldIsKept, AttemptTypes
  <2>2. told' => told \/ pc \notin {"report", "done"} BY <1>1, ZenonT(30)
  <2> QED
    BY <1>1, <2>1, <2>2 DEF AttemptInv, ToldIsKept, SlotPlace, Attempt!CancellationNotDropped
<1> QED BY <1>3, <1>5, <1>6, <1>7, <1>8, <1>9, <1>11, <1>12 DEF AttemptInv

(* The lease, the deadline or the process ends under the execution.         *)
LEMMA InterruptionKeeps ==
    ASSUME AttemptInv, Attempt!LoseAuthority \/ Attempt!DeadlinePasses \/ Attempt!Shutdown
    PROVE  AttemptInv'
<1>1. /\ UNCHANGED <<job, recorded, usable, fenced, net, pc, waiting, answer, registered,
                     canceled, hb, target, handlerErr, cause, seenCancel, large, stored, ready,
                     report, heard, told>>
      /\ \E c0 \in {"authority", "timeout", "shutdown"} :
            /\ execCause' = Attempt!First(execCause, c0)
            /\ workCause' = workCause \/ workCause' = Attempt!First(workCause, c0)
            /\ IF c0 = "shutdown" THEN shutdown' = TRUE ELSE shutdown' = shutdown
  BY ZenonT(30) DEF Attempt!LoseAuthority, Attempt!DeadlinePasses, Attempt!Shutdown,
         Attempt!CancelExecution, Attempt!serverVars, Attempt!rpcVars, Attempt!entryVars,
         Attempt!hbVars, Attempt!outVars, Attempt!endVars
<1>2. PICK c0 \in {"authority", "timeout", "shutdown"} :
         /\ execCause' \in {execCause, c0} /\ workCause' \in {workCause, c0}
         /\ IF c0 = "shutdown" THEN shutdown' = TRUE ELSE shutdown' = shutdown
  BY <1>1 DEF Attempt!First
<1>3. AttemptTypes'
  <2>1. shutdown' \in BOOLEAN BY <1>2, ZenonT(30) DEF AttemptInv, AttemptTypes
  <2>2. execCause' \in Causes \ {"user"} /\ workCause' \in Causes
    BY <1>2 DEF AttemptInv, AttemptTypes, Causes
  <2> QED BY <1>1, <2>1, <2>2 DEF AttemptInv, AttemptTypes
<1>4. SlotPlace' BY <1>1 DEF AttemptInv, SlotPlace, Attempt!Kind, Attempt!Identified
<1>5. StartedFirst' BY <1>1 DEF AttemptInv, StartedFirst
<1>6. CancellationsAreReal' BY <1>1, <1>2 DEF AttemptInv, CancellationsAreReal, Decided
<1>7. ReportsAreEarned' BY <1>1, <1>2 DEF AttemptInv, ReportsAreEarned
<1>8. OneReport' BY <1>1 DEF AttemptInv, OneReport, Attempt!Identified
<1>9. Hopeless => Hopeless'
  BY <1>1 DEF Hopeless, Attempt!Committed, Attempt!Accepts, Attempt!Live, Attempt!Identified
<1>10. RefusalsLast' BY <1>1, <1>9 DEF AttemptInv, RefusalsLast
<1>11. ToldIsKept' BY <1>1 DEF AttemptInv, ToldIsKept, Attempt!CancellationNotDropped
<1> QED BY <1>3, <1>4, <1>5, <1>6, <1>7, <1>8, <1>10, <1>11 DEF AttemptInv

(* The slot asks, or gives up waiting.                                      *)
LEMMA CallingKeeps ==
    ASSUME AttemptInv, Attempt!Send \/ Attempt!CallFails PROVE AttemptInv'
<1>1. /\ UNCHANGED <<job, recorded, usable, fenced, pc, answer, registered, canceled,
                     execCause, workCause, shutdown, hb, target, handlerErr, cause,
                     seenCancel, large, stored, ready, report, heard, told>>
      /\ \/ waiting' = NULL /\ net' = net
         \/ /\ pc \in {"start", "report"} /\ waiting' = Attempt!Identified(Attempt!Kind)
            /\ net' = net \/ net' = net \cup {waiting'}
  BY DEF Attempt!Send, Attempt!CallFails, Attempt!serverVars, Attempt!entryVars,
         Attempt!ctxVars, Attempt!hbVars, Attempt!outVars, Attempt!endVars
<1>2. AttemptTypes' BY <1>1 DEF AttemptInv, AttemptTypes
<1>3. Attempt!Kind' = Attempt!Kind BY <1>1 DEF Attempt!Kind
<1>4. SlotPlace' BY <1>1, <1>3 DEF AttemptInv, SlotPlace, Attempt!Identified
<1>5. StartedFirst' BY <1>1 DEF AttemptInv, StartedFirst
<1>6. CancellationsAreReal' BY <1>1 DEF AttemptInv, CancellationsAreReal, Decided
<1>7. ReportsAreEarned' BY <1>1 DEF AttemptInv, ReportsAreEarned
<1>8. OneReport'
  <2>1. pc \in {"start", "report"} =>
           \/ Attempt!Identified(Attempt!Kind) = Attempt!Identified("start")
           \/ report # "none" /\ Attempt!Identified(Attempt!Kind) = Attempt!Identified(report)
    BY DEF AttemptInv, SlotPlace, Attempt!Kind
  <2>2. /\ Attempt!Identified("start")' = Attempt!Identified("start")
        /\ Attempt!Identified(report)' = Attempt!Identified(report)
    BY <1>1 DEF Attempt!Identified
  <2> QED BY <1>1, <2>1, <2>2 DEF AttemptInv, OneReport
<1>9. Hopeless => Hopeless'
  BY <1>1 DEF Hopeless, Attempt!Committed, Attempt!Accepts, Attempt!Live, Attempt!Identified
<1>10. RefusalsLast' BY <1>1, <1>9 DEF AttemptInv, RefusalsLast
<1>11. ToldIsKept' BY <1>1 DEF AttemptInv, ToldIsKept, Attempt!CancellationNotDropped
<1> QED BY <1>2, <1>4, <1>5, <1>6, <1>7, <1>8, <1>10, <1>11 DEF AttemptInv

(* Start is answered.  What was known of a cancellation is acknowledged,    *)
(* unless the session is gone or the window never opened.                   *)
LEMMA StartEndsKeeps ==
    ASSUME AttemptInv, Attempt!Started \/ Attempt!StartFailed PROVE AttemptInv'
<1>1. /\ pc = "start" /\ waiting' = NULL /\ answer' = NULL
      /\ UNCHANGED <<job, recorded, usable, fenced, net, canceled, execCause, workCause,
                     shutdown, hb, target, handlerErr, cause, seenCancel, large, stored, ready,
                     told>>
      /\ registered' \in {registered, FALSE}
      /\ \/ answer = "ok" /\ pc' = "bind" /\ UNCHANGED <<report, heard>>
         \/ answer = "ok" /\ pc' = "done" /\ heard' = "window" /\ UNCHANGED report
         \/ /\ canceled \/ answer = "cancel"
            /\ pc' = "report" /\ report' = "ack" /\ UNCHANGED heard
         \/ /\ ~canceled \/ heard' = "fenced"
            /\ pc' = "done" /\ UNCHANGED report
  BY ZenonT(30) DEF Attempt!Started, Attempt!StartFailed, Attempt!Resolved, Attempt!NextCall,
         Attempt!Unregister, Attempt!serverVars, Attempt!entryVars, Attempt!ctxVars,
         Attempt!hbVars, Attempt!outVars
<1>2. NULL \notin Attempt!Replies BY SlotsAssumption DEF Attempt!AttemptAssumption
<1>3. report = "none" /\ heard = "none" /\ ~ready BY <1>1 DEF AttemptInv, SlotPlace
<1>4. report' \in {"none", "ack"} /\ (pc' = "done" => report' = "none") BY <1>1, <1>3
<1>5. AttemptTypes'
  <2>1. registered' \in BOOLEAN BY <1>1, Zenon DEF AttemptInv, AttemptTypes
  <2>2. report' \in Attempt!Reports \cup {"none"} BY <1>4 DEF Attempt!Reports
  <2>3. /\ UNCHANGED <<canceled, seenCancel, told, handlerErr, large, stored, ready, shutdown>>
        /\ UNCHANGED <<usable, fenced, execCause, workCause, cause, recorded>>
        /\ answer' = NULL
    BY <1>1
  <2> QED BY <2>1, <2>2, <2>3, Zenon DEF AttemptInv, AttemptTypes
<1>6. SlotPlace' BY <1>1, <1>3, <1>4 DEF SlotPlace
<1>7. StartedFirst' BY <1>1, <1>2 DEF AttemptInv, StartedFirst, Attempt!Replies
<1>8. CancellationsAreReal'
  BY <1>1, <1>2, <1>3 DEF AttemptInv, CancellationsAreReal, Decided, Attempt!Replies
<1>9. ReportsAreEarned' BY <1>1, <1>3, <1>4 DEF AttemptInv, ReportsAreEarned
<1>10. OneReport' BY <1>1, <1>3 DEF AttemptInv, OneReport, Attempt!Identified
<1>11. RefusalsLast' BY <1>1, <1>2, <1>3, <1>4 DEF RefusalsLast, Attempt!Replies
<1>12. ToldIsKept' BY <1>1, <1>4 DEF AttemptInv, ToldIsKept, Attempt!CancellationNotDropped
<1> QED BY <1>5, <1>6, <1>7, <1>8, <1>9, <1>10, <1>11, <1>12 DEF AttemptInv

(* Work is bound, interrupted and done; nothing is reported yet.            *)
LEMMA WorkingKeeps ==
    ASSUME AttemptInv,
           \/ Attempt!BindHandler \/ Attempt!ApplyPending \/ Attempt!HandlerReturns
           \/ Attempt!Classify \/ Attempt!PrepareResult
    PROVE  AttemptInv'
<1>1. /\ pc \in {"bind", "apply", "work", "classify"}
      /\ pc' \in {"apply", "work", "classify", "stop"}
      /\ pc' = "apply" => canceled
      /\ UNCHANGED <<job, recorded, usable, fenced, net, waiting, answer, registered, canceled,
                     execCause, shutdown, hb, target, report, heard, told>>
  BY ZenonT(30) DEF Attempt!BindHandler, Attempt!ApplyPending, Attempt!HandlerReturns, Attempt!Classify,
         Attempt!PrepareResult, Attempt!Bind, Attempt!serverVars, Attempt!rpcVars,
         Attempt!entryVars, Attempt!ctxVars, Attempt!hbVars, Attempt!endVars
<1>2. workCause' \in {workCause, execCause} \/ (canceled /\ workCause' = "user")
  BY DEF AttemptInv, SlotPlace, Attempt!First, Attempt!BindHandler, Attempt!ApplyPending,
         Attempt!HandlerReturns, Attempt!Classify, Attempt!PrepareResult, Attempt!Bind,
         Attempt!ctxVars
<1>3. /\ cause' \in {cause, workCause} /\ seenCancel' \in {seenCancel, canceled}
      /\ handlerErr' \in BOOLEAN /\ large' \in BOOLEAN /\ stored' \in BOOLEAN
      /\ ready' \in BOOLEAN
      /\ ready' => ready \/ (pc' = "stop" /\ (~large' \/ stored'))
  <2>1. AttemptTypes BY DEF AttemptInv
  <2>2. CASE Attempt!BindHandler \/ Attempt!ApplyPending \/ Attempt!Classify
    <3>1. UNCHANGED <<handlerErr, cause, seenCancel, large, stored, ready>>
      BY <2>2 DEF Attempt!BindHandler, Attempt!ApplyPending, Attempt!Classify, Attempt!outVars
    <3> QED BY <2>1, <3>1 DEF AttemptTypes
  <2>3. CASE Attempt!HandlerReturns BY <2>1, <2>3 DEF Attempt!HandlerReturns, AttemptTypes
  <2>4. CASE Attempt!PrepareResult
    <3>1. UNCHANGED <<handlerErr, cause, seenCancel, large>> /\ pc' = "stop"
      BY <2>4 DEF Attempt!PrepareResult
    <3>2. stored' \in BOOLEAN /\ ready' \in BOOLEAN
      BY <2>1, <2>4, ZenonT(30) DEF Attempt!PrepareResult, AttemptTypes
    <3>3. ready' => ~large \/ stored' BY <2>4 DEF Attempt!PrepareResult
    <3> QED BY <2>1, <3>1, <3>2, <3>3 DEF AttemptTypes
  <2> QED BY <2>2, <2>3, <2>4
<1>4. ~ready /\ report = "none" /\ waiting = NULL /\ answer = NULL /\ heard = "none"
  BY <1>1 DEF AttemptInv, SlotPlace
<1>5. AttemptTypes' BY <1>1, <1>2, <1>3 DEF AttemptInv, AttemptTypes, Causes
<1>6. SlotPlace' BY <1>1, <1>3, <1>4 DEF SlotPlace
<1>7. StartedFirst' BY <1>1 DEF AttemptInv, StartedFirst
<1>8. CancellationsAreReal'
  BY <1>1, <1>2, <1>3 DEF AttemptInv, AttemptTypes, CancellationsAreReal, Decided
<1>9. ReportsAreEarned' BY <1>1, <1>2, <1>3, <1>4 DEF AttemptInv, ReportsAreEarned
<1>10. OneReport' BY <1>1 DEF AttemptInv, OneReport, Attempt!Identified
<1>11. RefusalsLast' BY <1>1, <1>4 DEF RefusalsLast
<1>12. ToldIsKept' BY <1>1 DEF AttemptInv, ToldIsKept, Attempt!CancellationNotDropped
<1> QED BY <1>5, <1>6, <1>7, <1>8, <1>9, <1>10, <1>11, <1>12 DEF AttemptInv

(* The last look at the registry: a known cancellation is acknowledged      *)
(* before anything else, a failure is the handler's own, and a success has  *)
(* its result.                                                              *)
LEMMA StopKeeps == ASSUME AttemptInv, Attempt!Stop PROVE AttemptInv'
<1>1. PICK knows : knows = (seenCancel \/ canceled) OBVIOUS
<1>2. /\ pc = "stop"
      /\ report' = IF renewal = "fatal" THEN "none" ELSE Attempt!Outcome(knows)
      /\ heard' = IF renewal = "fatal" THEN "fenced" ELSE heard
      /\ pc' = IF report' = "none" THEN "done" ELSE "report"
      /\ registered' \in {registered, FALSE}
      /\ UNCHANGED <<job, recorded, usable, fenced, net, waiting, answer, canceled, execCause,
                     workCause, shutdown, hb, target, handlerErr, cause, seenCancel, large,
                     stored, ready, told>>
  BY <1>1, ZenonT(30) DEF Attempt!Stop, Attempt!Unregister, Attempt!serverVars, Attempt!rpcVars,
     Attempt!entryVars, Attempt!hbVars, Attempt!outVars
<1>3. /\ Attempt!Outcome(knows) \in {"ack", "fail", "succeed", "none"}
      /\ knows \/ cause = "user" <=> Attempt!Outcome(knows) = "ack"
      /\ Attempt!Outcome(knows) = "fail" =>
            handlerErr /\ cause \notin {"user", "timeout", "authority"} /\ ~shutdown
      /\ Attempt!Outcome(knows) = "succeed" => ready
  BY DEF Attempt!Outcome
<1>4. /\ report = "none" /\ waiting = NULL /\ answer = NULL /\ heard = "none"
      /\ job # "LEASED" /\ NULL \notin Attempt!Replies
  BY <1>2, SlotsAssumption DEF AttemptInv, SlotPlace, StartedFirst, Attempt!AttemptAssumption
<1>5. report' \in {"ack", "fail", "succeed", "none"} /\ (report' = "ack" => knows \/ cause = "user")
  BY <1>2, <1>3
<1>6. AttemptTypes'
  <2>1. registered' \in BOOLEAN BY <1>2, ZenonT(30) DEF AttemptInv, AttemptTypes
  <2> QED BY <1>2, <1>5, <2>1 DEF AttemptInv, AttemptTypes, Attempt!Reports
<1>7. SlotPlace' BY <1>2, <1>4, <1>5 DEF AttemptInv, SlotPlace
<1>8. StartedFirst' BY <1>2 DEF StartedFirst
<1>9. CancellationsAreReal' BY <1>1, <1>2, <1>5, ZenonT(30) DEF AttemptInv, CancellationsAreReal, Decided
<1>10. ReportsAreEarned'
  <2>1. report' = "fail" => cause = "none" /\ handlerErr
    BY <1>2, <1>3 DEF AttemptInv, ReportsAreEarned, AttemptTypes, Causes
  <2>2. report' = "succeed" => ready BY <1>2, <1>3
  <2> QED BY <1>2, <1>4, <2>1, <2>2 DEF AttemptInv, ReportsAreEarned
<1>11. OneReport' BY <1>2, <1>4 DEF AttemptInv, OneReport, Attempt!Identified
<1>12. RefusalsLast' BY <1>2, <1>4 DEF RefusalsLast, Attempt!Replies
<1>13. ToldIsKept'
  <2>1. told => knows BY <1>1, ZenonT(30) DEF AttemptInv, ToldIsKept
  <2>2. told => report' = "ack" \/ (report' = "none" /\ heard' = "fenced")
    BY <1>2, <1>3, <2>1, ZenonT(30)
  <2> QED BY <1>2, <2>2 DEF AttemptInv, ToldIsKept, Attempt!CancellationNotDropped
<1> QED BY <1>6, <1>7, <1>8, <1>9, <1>10, <1>11, <1>12, <1>13 DEF AttemptInv

(* A refusal that is heard was true when it was given and has stayed so.    *)
LEMMA ReportedKeeps == ASSUME AttemptInv, Attempt!Reported PROVE AttemptInv'
<1>1. /\ pc = "report" /\ pc' = "done" /\ waiting' = NULL /\ answer' = NULL
      /\ heard' = "unresolved" \/ heard' = answer
      /\ registered' = FALSE
      /\ UNCHANGED <<job, recorded, usable, fenced, net, canceled, execCause, workCause,
                     shutdown, hb, target, handlerErr, cause, seenCancel, large, stored, ready,
                     report, told>>
  BY DEF Attempt!Reported, Attempt!Resolved, Attempt!NextCall, Attempt!Unregister,
         Attempt!serverVars, Attempt!ctxVars, Attempt!hbVars, Attempt!outVars
<1>2. NULL \notin Attempt!Replies BY SlotsAssumption DEF Attempt!AttemptAssumption
<1>3. AttemptTypes' BY <1>1, ZenonT(30) DEF AttemptInv, AttemptTypes
<1>4. SlotPlace' BY <1>1 DEF AttemptInv, SlotPlace
<1>5. StartedFirst' BY <1>1 DEF StartedFirst
<1>6. CancellationsAreReal'
  BY <1>1, <1>2 DEF AttemptInv, CancellationsAreReal, Decided, Attempt!Replies
<1>7. ReportsAreEarned' BY <1>1 DEF AttemptInv, ReportsAreEarned
<1>8. OneReport' BY <1>1 DEF AttemptInv, OneReport, Attempt!Identified
<1>9. Hopeless => Hopeless'
  BY <1>1, ZenonT(30) DEF Hopeless, Attempt!Committed, Attempt!Accepts, Attempt!Live, Attempt!Identified
<1>10. RefusalsLast' BY <1>1, <1>9 DEF AttemptInv, RefusalsLast
<1>11. ToldIsKept' BY <1>1 DEF AttemptInv, ToldIsKept, Attempt!CancellationNotDropped
<1> QED BY <1>3, <1>4, <1>5, <1>6, <1>7, <1>8, <1>10, <1>11 DEF AttemptInv

(* No step of the slot, the heartbeat, the renewal loop, the network or the *)
(* control plane breaks what is known of an attempt.                        *)
LEMMA AttemptKeeps == ASSUME AttemptInv, [Attempt!Next]_(Attempt!vars) PROVE AttemptInv'
<1>1. CASE UNCHANGED Attempt!vars
  <2>1. UNCHANGED <<job, recorded, usable, fenced, net, pc, waiting, answer, registered,
                    canceled, execCause, workCause, shutdown, hb, target, handlerErr, cause,
                    seenCancel, large, stored, ready, report, heard, told>>
    BY <1>1 DEF Attempt!vars, Attempt!serverVars, Attempt!rpcVars, Attempt!entryVars,
       Attempt!ctxVars, Attempt!hbVars, Attempt!outVars, Attempt!endVars
  <2>2. (Decided => Decided') /\ (Hopeless => Hopeless')
    BY <2>1 DEF Decided, Hopeless, Attempt!Committed, Attempt!Accepts, Attempt!Live,
       Attempt!Identified
  <2>3. AttemptTypes /\ OneReport BY DEF AttemptInv
  <2> QED BY <2>1, <2>2, <2>3, ServerMoves DEF AttemptTypes, OneReport
<1>2. CASE Attempt!Send \/ Attempt!CallFails BY <1>2, CallingKeeps
<1>3. CASE Attempt!Started \/ Attempt!StartFailed BY <1>3, StartEndsKeeps
<1>4. CASE \/ Attempt!BindHandler \/ Attempt!ApplyPending \/ Attempt!HandlerReturns
           \/ Attempt!Classify \/ Attempt!PrepareResult
  BY <1>4, WorkingKeeps
<1>5. CASE Attempt!Stop BY <1>5, StopKeeps
<1>6. CASE Attempt!Reported BY <1>6, ReportedKeeps
<1>7. ASSUME NEW r \in net, Attempt!Serve(r) PROVE AttemptInv' BY <1>7, ServeKeeps
<1>8. CASE \/ Attempt!RequestCancel \/ Attempt!Lapse \/ Attempt!Fence \/ Attempt!Reconcile
           \/ \E r \in net : Attempt!LoseRequest(r)
  BY <1>8, OutsideKeeps
<1>9. CASE Attempt!Beat \/ Attempt!Deliver \/ Attempt!Apply BY <1>9, DirectiveKeeps
<1>10. CASE Attempt!LoseAuthority \/ Attempt!DeadlinePasses \/ Attempt!Shutdown
  BY <1>10, InterruptionKeeps
<1> QED BY <1>1, <1>2, <1>3, <1>4, <1>5, <1>6, <1>7, <1>8, <1>9, <1>10
        DEF Attempt!Next, Attempt!SlotStep

(* The invariant says what was promised of an attempt.                      *)
LEMMA AttemptPromises ==
    ASSUME AttemptInv PROVE Attempt!CancellationNotDropped /\ Attempt!OutcomesAreTrue
<1>1. Attempt!OutcomesAreEarned
  BY DEF AttemptInv, OneReport, ReportsAreEarned, Attempt!OutcomesAreEarned
<1>2. Attempt!RefusedMeansNotCommitted
  BY DEF AttemptInv, RefusalsLast, Hopeless, Attempt!RefusedMeansNotCommitted
<1> QED BY <1>1, <1>2 DEF AttemptInv, ToldIsKept, Attempt!OutcomesAreTrue

------------------------------------------------------------------------------
(* The slots                                                                *)

SlotsInv == (part = "delivery" => DeliveryInv) /\ (part = "attempt" => AttemptInv)

(* Each part begins as its invariant requires, keeps it, and is alone.      *)
LEMMA SlotsInvariant == SlotsSpec => []SlotsInv
<1>1. SlotsInit => SlotsInv
  BY DeliveryStarts, AttemptStarts DEF SlotsInit, DeliveryInit, AttemptInit, SlotsInv
<1>2. ASSUME SlotsInv, [SlotsNext]_slotsVars PROVE SlotsInv'
  <2>1. CASE DeliveryNext BY <1>2, <2>1, DeliveryKeeps DEF DeliveryNext, SlotsInv
  <2>2. CASE AttemptNext BY <1>2, <2>2, AttemptKeeps DEF AttemptNext, SlotsInv
  <2>3. CASE UNCHANGED slotsVars
    <3>1. UNCHANGED Delivery!vars
      BY <2>3 DEF slotsVars, ofDelivery, Delivery!vars, Delivery!slotVars, Delivery!runVars,
                  Delivery!envVars
    <3>2. UNCHANGED Attempt!vars
      BY <2>3 DEF slotsVars, ofAttempt, Attempt!vars, Attempt!serverVars, Attempt!rpcVars,
                  Attempt!entryVars, Attempt!ctxVars, Attempt!hbVars, Attempt!outVars,
                  Attempt!endVars
    <3> QED BY <1>2, <2>3, <3>1, <3>2, DeliveryKeeps, AttemptKeeps DEF SlotsInv, slotsVars
  <2> QED BY <1>2, <2>1, <2>2, <2>3 DEF SlotsNext
<1> QED BY <1>1, <1>2, PTL DEF SlotsSpec

(* However often the broker repeats a delivery, and wherever a shutdown, a  *)
(* lost session or a lost answer meets it, a receipt is deleted only on a   *)
(* durable answer and an event has one execution at a time, for every       *)
(* number of slots, messages and events (processMessage, deliveryFlight).   *)
THEOREM DeliveriesStaySafe == SlotsSpec => []DeliveriesAreSafe
<1>1. SlotsInv => DeliveriesAreSafe BY DeliveryPromises DEF SlotsInv, DeliveriesAreSafe
<1> QED BY <1>1, SlotsInvariant, PTL

(* A cancellation that reached the worker in time is acknowledged and not   *)
(* answered with an outcome, wherever it met the attempt (attemptRegistry,  *)
(* processMessage).                                                         *)
THEOREM CancellationsAreAcknowledged == SlotsSpec => []CancellationNotDropped
<1>1. SlotsInv => CancellationNotDropped
  BY AttemptPromises DEF SlotsInv, CancellationNotDropped
<1> QED BY <1>1, SlotsInvariant, PTL

(* A recorded outcome was earned, and a refused report has not committed    *)
(* and never will, whatever copies of it are still on their way (Store.Fail,*)
(* Store.AcknowledgeCancellation, reportFailure).                           *)
THEOREM ReportedOutcomesAreTrue == SlotsSpec => []OutcomesAreTrue
<1>1. SlotsInv => OutcomesAreTrue BY AttemptPromises DEF SlotsInv, OutcomesAreTrue
<1> QED BY <1>1, SlotsInvariant, PTL
==============================================================================
