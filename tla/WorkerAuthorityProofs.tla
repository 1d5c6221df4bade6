------------------------ MODULE WorkerAuthorityProofs ------------------------
(***************************************************************************)
(* What a worker may rely on: its calls to the control plane, proved for   *)
(* any number of tries and of missed heartbeats and any of its operations, *)
(* and the authority of its lease, proved for any lease, timeout, interval *)
(* and margin.                                                             *)
(***************************************************************************)
EXTENDS WorkerCalls, WorkerLease, TLAPS

\* The time each leaf is given.
USE SMTT(20), ZenonT(20)

------------------------------------------------------------------------------
(* Calls to the control plane                                               *)

Formed == {"ok"} \cup UNION {Call!Forms(o) : o \in Call!Ops}

CallRecord ==
    [op : Call!Ops \cup {"none"}, pc : {"idle", "sent", "scoped", "cleared", "answered"},
     form : Formed, tries : Nat, late : BOOLEAN, code : Call!Codes]

Undecided == {"QUEUED", "LEASED", "RUNNING"}

CallTypes ==
    /\ call \in [Call!Callers -> CallRecord]
    /\ revoked \in BOOLEAN /\ keyed \in BOOLEAN /\ lapsed \in BOOLEAN
    /\ session \in {"none", "HEALTHY", "OFFLINE"}
    /\ job \in Undecided \cup {"CANCEL_REQUESTED", "SUCCEEDED", "FAILED", "CANCELED"}

(* What a handler has found out so far is still true of its call.  A late   *)
(* request has not been cleared; an answer that tells of a loss tells of    *)
(* one that lasts.                                                          *)
CallStands(x) ==
    /\ x.late => revoked /\ (keyed => x.pc # "cleared")
    /\ x.pc = "answered" /\ Call!isSessionLost(x.code) => session = "OFFLINE"
    /\ x.pc = "answered" /\ x.op = "renew" /\ x.code \in {"lease_expired", "state_conflict"}
          => lapsed \/ job \notin Undecided
    /\ x.pc = "answered" /\ x.code = "ok" => session # "none"
    /\ x.pc = "answered" /\ x.code = "ok" /\ x.op = "claim" => job # "QUEUED"
    /\ x.op \in {"start", "cancel", "renew"} \cup Call!Outcomes => job # "QUEUED"
    /\ x.op = "none" => x.pc = "idle"
    /\ session = "none" => x.pc = "idle" \/ x.op = "register"

CallInv ==
    /\ CallTypes
    /\ \A d \in Call!Callers : CallStands(call[d])
    /\ phase # "none" => job # "QUEUED"
    /\ session = "none" => process \in {"starting", "failed"}
    /\ verdict = "sessionLost" => session = "OFFLINE"
    /\ verdict = "authorityLost" => lapsed \/ job \notin Undecided
    /\ lateCommit = FALSE

(* Initially there is nothing to lose.                                      *)
LEMMA CallStarts == ASSUME Call!Init PROVE CallInv
<1> USE DEF Call!Init, Call!Idle, Call!Callers
<1>1. CallTypes
  <2>1. Call!Idle \in CallRecord BY DEF CallRecord, Formed, Call!Codes
  <2>2. call \in [Call!Callers -> CallRecord] BY <2>1
  <2>3. revoked \in BOOLEAN /\ keyed \in BOOLEAN /\ lapsed \in BOOLEAN BY Zenon
  <2> QED BY <2>2, <2>3 DEF CallTypes, Undecided
<1>2. \A d \in Call!Callers : CallStands(call[d])
  BY DEF CallStands, Call!isSessionLost, Call!Outcomes
<1>3. lateCommit = FALSE OBVIOUS
<1>4. verdict = "none" /\ phase = "none" /\ (session = "none" => process = "starting")
  OBVIOUS
<1> QED BY <1>1, <1>2, <1>3, <1>4 DEF CallInv

(* A handler answers a call, and touches no other.                          *)
LEMMA AnswerLemma ==
    ASSUME CallTypes, NEW d \in Call!Callers, NEW code \in Call!Codes, Call!Answer(d, code)
    PROVE  /\ call' \in [Call!Callers -> CallRecord]
           /\ \A b \in Call!Callers \ {d} : call'[b] = call[b]
           /\ call'[d].pc = "answered" /\ call'[d].code = code
           /\ call'[d].late = FALSE /\ call'[d].op = call[d].op
<1>1. call \in [Call!Callers -> CallRecord] BY DEF CallTypes
<1>2. call[d] \in CallRecord BY <1>1
<1>3. PICK x : x = [call[d] EXCEPT !.pc = "answered", !.code = code, !.form = "ok", !.late = FALSE]
  OBVIOUS
<1>4. call' = [call EXCEPT ![d] = x] BY <1>3, Zenon DEF Call!Answer
<1>5. x \in CallRecord BY <1>2, <1>3, Zenon DEF CallRecord, Formed
<1>6. /\ x.pc = "answered" /\ x.code = code /\ x.late = FALSE /\ x.op = call[d].op
  BY <1>2, <1>3 DEF CallRecord
<1> HIDE DEF CallRecord
<1> QED BY <1>1, <1>4, <1>5, <1>6

(* What is wrong with a request's form is not an answer that tells of a     *)
(* loss, nor of a success (decodeControlJSON).                              *)
LEMMA FormLemma ==
    ASSUME NEW f \in Formed, f \in Call!Codes
    PROVE  f \in {"ok", "malformed_json", "payload_too_large"}
<1>1. \A o \in Call!Ops : Call!Parsed(o) \cap Call!Codes = {}
  <2> SUFFICES ASSUME NEW o \in Call!Ops PROVE Call!Parsed(o) \cap Call!Codes = {} OBVIOUS
  <2> USE DEF Call!Parsed, Call!parseFence, Call!parseRenewalRequest, Call!parseClaimRequest,
              Call!parseResultPayload, Call!Codes, Call!Conflicts
  <2>1. CASE o = "register" BY <2>1
  <2>2. CASE o = "heartbeat" BY <2>2
  <2>3. CASE o = "claim" BY <2>3
  <2>4. CASE o = "start" BY <2>4
  <2>5. CASE o = "renew" BY <2>5
  <2>6. CASE o = "succeed" BY <2>6
  <2>7. CASE o \in {"fail", "cancel"} BY <2>7
  <2> QED BY <2>1, <2>2, <2>3, <2>4, <2>5, <2>6, <2>7 DEF Call!Ops, Call!Outcomes
<1>2. f = "ok" \/ \E o \in Call!Ops : f \in Call!Forms(o) BY DEF Formed
<1> QED BY <1>1, <1>2 DEF Call!Forms

(* A step of a handler that changes its call only keeps the invariant, if   *)
(* what it found out stands.                                                *)
LEMMA HandlerKeeps ==
    ASSUME CallInv, NEW d \in Call!Callers,
           UNCHANGED <<revoked, session, keyed, job, lapsed, lateCommit, process, phase, verdict>>,
           call' \in [Call!Callers -> CallRecord],
           \A b \in Call!Callers \ {d} : call'[b] = call[b],
           CallStands(call[d])'
    PROVE  CallInv'
<1>1. CallTypes' BY DEF CallInv, CallTypes
<1>2. ASSUME NEW b \in Call!Callers PROVE CallStands(call[b])'
  <2>1. CASE b = d BY <2>1
  <2>2. CASE b # d
    <3>1. CallStands(call[b]) /\ call'[b] = call[b] BY <2>2 DEF CallInv
    <3> QED BY <3>1 DEF CallStands
  <2> QED BY <2>1, <2>2
<1>3. lateCommit' = FALSE BY DEF CallInv
<1> QED BY <1>1, <1>2, <1>3 DEF CallInv

(* So does an answer, if its code stands.                                   *)
LEMMA AnswerKeeps ==
    ASSUME CallInv, NEW d \in Call!Callers, NEW code \in Call!Codes, Call!Answer(d, code),
           UNCHANGED <<revoked, session, keyed, job, lapsed, lateCommit, process, phase, verdict>>,
           Call!isSessionLost(code) => session = "OFFLINE",
           call[d].op = "renew" /\ code \in {"lease_expired", "state_conflict"}
              => lapsed \/ job \notin Undecided,
           call[d].pc # "idle",
           code = "ok" => session # "none",
           code = "ok" /\ call[d].op = "claim" => job # "QUEUED"
    PROVE  CallInv'
<1>1. /\ call' \in [Call!Callers -> CallRecord]
      /\ \A b \in Call!Callers \ {d} : call'[b] = call[b]
      /\ call'[d].pc = "answered" /\ call'[d].code = code
      /\ call'[d].late = FALSE /\ call'[d].op = call[d].op
  BY AnswerLemma, Zenon DEF CallInv
<1>2. CallStands(call[d]) BY DEF CallInv
<1>3. CallStands(call[d])' BY <1>1, <1>2 DEF CallStands, Call!isSessionLost
<1> QED BY <1>1, <1>3, HandlerKeeps

(* A check that passed moves the call on to the next read.                  *)
LEMMA MovesOn ==
    ASSUME CallInv, NEW d \in Call!Callers, NEW l \in {"scoped", "cleared"},
           call' = [call EXCEPT ![d].pc = l],
           UNCHANGED <<revoked, session, keyed, job, lapsed, lateCommit, process, phase, verdict>>,
           call[d].pc # "idle",
           l = "cleared" /\ keyed => ~revoked
    PROVE  CallInv'
<1>1. call \in [Call!Callers -> CallRecord] /\ call[d] \in CallRecord BY DEF CallInv, CallTypes
<1>2. PICK x : x = [call[d] EXCEPT !.pc = l] BY Zenon
<1>3. call' = [call EXCEPT ![d] = x] BY <1>2
<1>4. x \in CallRecord BY <1>1, <1>2 DEF CallRecord
<1>5. x.pc = l /\ x.op = call[d].op /\ x.late = call[d].late /\ x.code = call[d].code
  BY <1>1, <1>2 DEF CallRecord
<1>6. /\ call' \in [Call!Callers -> CallRecord] /\ call'[d] = x
      /\ \A b \in Call!Callers \ {d} : call'[b] = call[b]
  BY <1>1, <1>3, <1>4
<1>7. CallStands(call[d]) BY DEF CallInv
<1>8. CallStands(call[d])' BY <1>5, <1>6, <1>7 DEF CallStands
<1> QED BY <1>6, <1>8, HandlerKeeps

(* The reads before the fenced operation, and the faults (requireWorkerKey, *)
(* resolveWorkerControlScope): a late request of a keyed session is not     *)
(* cleared, and nothing but a missing session tells of a loss.              *)
LEMMA ReadsKeep ==
    ASSUME CallInv, NEW d \in Call!Callers,
           \/ Call!Decode(d) \/ Call!RequireWorkerKey(d) \/ Call!SessionScope(d)
           \/ Call!IsRevoked(d) \/ Call!DatabaseFault(d) \/ Call!TransportFault(d)
    PROVE  CallInv'
<1> USE DEF Call!serverVars, Call!workerVars
<1>0. call[d] \in CallRecord /\ CallStands(call[d]) BY DEF CallInv, CallTypes
<1>9. call[d].pc # "idle"
  BY DEF Call!Decode, Call!RequireWorkerKey, Call!SessionScope, Call!IsRevoked,
         Call!DatabaseFault, Call!TransportFault
<1>1. CASE Call!Decode(d)
  <2>1. PICK code : /\ code = IF call[d].form \in Call!Codes THEN call[d].form ELSE "validation_failed"
                    /\ Call!Answer(d, code)
    BY <1>1 DEF Call!Decode
  <2>2. code \in {"malformed_json", "payload_too_large", "validation_failed"}
    <3>1. call[d].form \in Formed /\ call[d].form # "ok"
      BY <1>0, <1>1 DEF CallRecord, Call!Decode
    <3> QED BY <2>1, <3>1, FormLemma
  <2>3. code \in Call!Codes BY <2>2 DEF Call!Codes
  <2>4. code # "ok" /\ ~Call!isSessionLost(code) /\ code \notin {"lease_expired", "state_conflict"}
    BY <2>2 DEF Call!isSessionLost
  <2>5. UNCHANGED <<revoked, session, keyed, job, lapsed, lateCommit, process, phase, verdict>>
    BY <1>1 DEF Call!Decode
  <2> QED BY <2>1, <2>3, <2>4, <2>5, <1>9, AnswerKeeps
<1>2. ASSUME NEW code \in {"unauthorized", "service_unavailable", "internal_error", "transport"},
             Call!Answer(d, code),
             UNCHANGED <<revoked, session, keyed, job, lapsed, lateCommit, process, phase, verdict>>
      PROVE  CallInv'
  <2>1. code \in Call!Codes BY DEF Call!Codes
  <2>2. code # "ok" /\ ~Call!isSessionLost(code) /\ code \notin {"lease_expired", "state_conflict"}
    BY DEF Call!isSessionLost
  <2> QED BY <1>2, <2>1, <2>2, <1>9, AnswerKeeps
<1>3. CASE Call!RequireWorkerKey(d)
  <2>1. UNCHANGED <<revoked, session, keyed, job, lapsed, lateCommit, process, phase, verdict>>
    BY <1>3 DEF Call!RequireWorkerKey
  <2>2. CASE revoked BY <1>2, <1>3, <2>1, <2>2 DEF Call!RequireWorkerKey
  <2>3. CASE ~revoked
    <3>1. call' = [call EXCEPT ![d].pc = "cleared"] BY <1>3, <2>3 DEF Call!RequireWorkerKey
    <3> QED BY <2>1, <2>3, <3>1, <1>9, MovesOn, Zenon
  <2> QED BY <2>2, <2>3
<1>4. CASE Call!SessionScope(d)
  <2>1. UNCHANGED <<revoked, session, keyed, job, lapsed, lateCommit, process, phase, verdict>>
    BY <1>4 DEF Call!SessionScope
  <2>2. session # "none"
    <3>1. call[d].op # "register" /\ call[d].pc = "sent" BY <1>4 DEF Call!SessionScope
    <3> QED BY <1>0, <3>1 DEF CallStands
  <2>3. call' = [call EXCEPT ![d].pc = IF keyed THEN "scoped" ELSE "cleared"]
    BY <1>4, <2>2 DEF Call!SessionScope
  <2>4. CASE keyed
    <3>1. call' = [call EXCEPT ![d].pc = "scoped"] BY <2>3, <2>4
    <3> QED BY <2>1, <3>1, <1>9, MovesOn, ZenonT(30)
  <2>5. CASE ~keyed
    <3>1. call' = [call EXCEPT ![d].pc = "cleared"] BY <2>3, <2>5
    <3> QED BY <2>1, <2>5, <3>1, <1>9, MovesOn, Zenon
  <2> QED BY <2>4, <2>5
<1>5. CASE Call!IsRevoked(d)
  <2>1. UNCHANGED <<revoked, session, keyed, job, lapsed, lateCommit, process, phase, verdict>>
    BY <1>5 DEF Call!IsRevoked
  <2>2. CASE revoked BY <1>2, <1>5, <2>1, <2>2 DEF Call!IsRevoked
  <2>3. CASE ~revoked
    <3>1. call' = [call EXCEPT ![d].pc = "cleared"] BY <1>5, <2>3 DEF Call!IsRevoked
    <3> QED BY <2>1, <2>3, <3>1, <1>9, MovesOn, Zenon
  <2> QED BY <2>2, <2>3
<1>6. CASE Call!DatabaseFault(d)
  <2>1. UNCHANGED <<revoked, session, keyed, job, lapsed, lateCommit, process, phase, verdict>>
    BY <1>6 DEF Call!DatabaseFault
  <2> QED BY <1>2, <1>6, <2>1 DEF Call!DatabaseFault
<1>7. CASE Call!TransportFault(d)
  <2>1. UNCHANGED <<revoked, session, keyed, job, lapsed, lateCommit, process, phase, verdict>>
    BY <1>7 DEF Call!TransportFault
  <2> QED BY <1>2, <1>7, <2>1 DEF Call!TransportFault
<1> QED BY <1>1, <1>3, <1>4, <1>5, <1>6, <1>7

(* What happens at the control plane happens for good: a key stays revoked, *)
(* a session fenced, a lease lapsed and a decided job decided.              *)
Onward ==
    /\ revoked' \in BOOLEAN /\ lapsed' \in BOOLEAN
    /\ revoked => revoked'
    /\ lapsed => lapsed'
    /\ keyed' = keyed
    /\ session' \in {"none", "HEALTHY", "OFFLINE"}
    /\ session = "OFFLINE" => session' = "OFFLINE"
    /\ session' = "none" => session = "none"
    /\ job' \in Undecided \cup {"CANCEL_REQUESTED", "SUCCEEDED", "FAILED", "CANCELED"}
    /\ job' = "QUEUED" => job = "QUEUED"
    /\ job \notin Undecided => job' \notin Undecided

(* A call that a step does not touch stands.                                *)
LEMMA StandsOn ==
    ASSUME CallInv, Onward, NEW b \in Call!Callers, call'[b] = call[b]
    PROVE  CallStands(call[b])'
<1>1. CallStands(call[b]) BY DEF CallInv
<1> QED BY <1>1 DEF Onward, CallStands

(* A step at the control plane, with the call it answers, if any.           *)
LEMMA ServerKeeps ==
    ASSUME CallInv, Onward, UNCHANGED <<process, phase, verdict>>, lateCommit' = FALSE,
           call' \in [Call!Callers -> CallRecord],
           \A b \in Call!Callers : call'[b] = call[b] \/ CallStands(call[b])'
    PROVE  CallInv'
<1>1. CallTypes' BY DEF CallInv, CallTypes, Onward
<1>2. \A b \in Call!Callers : CallStands(call[b])' BY StandsOn
<1>3. (phase # "none" => job # "QUEUED")' BY DEF CallInv, Onward
<1>4. (session = "none" => process \in {"starting", "failed"})' BY DEF CallInv, Onward
<1>5. (verdict = "sessionLost" => session = "OFFLINE")' BY DEF CallInv, Onward
<1>6. (verdict = "authorityLost" => lapsed \/ job \notin Undecided)'
  BY DEF CallInv, Onward
<1> QED BY <1>1, <1>2, <1>3, <1>4, <1>5, <1>6 DEF CallInv

(* Revocation, a new boot, the clock and a cancellation.                    *)
LEMMA SurroundingsKeep ==
    ASSUME CallInv,
           \/ Call!Revoke \/ Call!ReplaceSession \/ Call!LeaseLapses
           \/ Call!DeadlinePasses \/ Call!RequestCancel
    PROVE  CallInv'
<1> USE DEF Call!workerVars
<1>1. CallTypes BY DEF CallInv
<1>2. Onward
  <2>1. CASE Call!Revoke BY <1>1, <2>1 DEF Call!Revoke, CallTypes, Onward
  <2>2. CASE Call!ReplaceSession BY <1>1, <2>2 DEF Call!ReplaceSession, CallTypes, Onward
  <2>3. CASE Call!LeaseLapses BY <1>1, <2>3 DEF Call!LeaseLapses, CallTypes, Onward
  <2>4. CASE Call!DeadlinePasses BY <1>1, <2>4 DEF Call!DeadlinePasses, CallTypes, Onward
  <2>5. CASE Call!RequestCancel
    BY <1>1, <2>5 DEF Call!RequestCancel, CallTypes, Onward, Undecided
  <2> QED BY <2>1, <2>2, <2>3, <2>4, <2>5
<1>3. UNCHANGED <<process, phase, verdict, call, lateCommit>>
  BY DEF Call!Revoke, Call!ReplaceSession, Call!LeaseLapses, Call!DeadlinePasses,
         Call!RequestCancel
<1>4. lateCommit' = FALSE BY <1>3 DEF CallInv
<1> QED BY <1>1, <1>2, <1>3, <1>4, ServerKeeps, Zenon DEF CallTypes

(* The fenced operation: what it refuses for a loss is lost for good, and   *)
(* what it commits was not sent late (Store, writeWorkerControlError).      *)
LEMMA ResultLemma ==
    ASSUME CallInv, NEW d \in Call!Callers, call[d].pc = "cleared"
    PROVE  LET result == Call!StoreResult(call[d].op)
           IN  /\ result \in Call!Codes
               /\ Call!isSessionLost(result) => session = "OFFLINE"
               /\ call[d].op = "renew" /\ result \in {"lease_expired", "state_conflict"}
                     => lapsed \/ job \notin Undecided
               /\ result = "ok" /\ call[d].op = "register" => session # "OFFLINE"
               /\ result = "ok" /\ call[d].op # "register" => session # "none"
               /\ result = "ok" /\ call[d].op = "start" => job \in {"LEASED", "RUNNING"}
<1>1. /\ CallStands(call[d]) /\ call[d] \in CallRecord
      /\ session \in {"none", "HEALTHY", "OFFLINE"}
      /\ job \in Undecided \cup {"CANCEL_REQUESTED", "SUCCEEDED", "FAILED", "CANCELED"}
  BY DEF CallInv, CallTypes
<1>2. PICK o : o = call[d].op OBVIOUS
<1>3. o \in Call!Ops BY <1>1, <1>2 DEF CallRecord, CallStands
<1>4. session = "none" => o = "register" BY <1>1, <1>2 DEF CallStands
<1>5. o \in {"start", "cancel", "renew"} \cup Call!Outcomes => job # "QUEUED"
  BY <1>1, <1>2 DEF CallStands
<1> USE DEF Call!StoreResult, Call!isSessionLost, Call!Codes, Call!Conflicts, Call!Current,
            Call!LeaseUsable, Call!FirstReport, Undecided
<1>6. CASE o = "register" BY <1>1, <1>2, <1>6 DEF Call!handleRegisterWorkerSession
<1>7. CASE o = "heartbeat" BY <1>1, <1>2, <1>4, <1>7 DEF Call!handleHeartbeat
<1>8. CASE o = "claim" BY <1>1, <1>2, <1>4, <1>8 DEF Call!handleClaim
<1>9. CASE o = "start" BY <1>1, <1>2, <1>4, <1>5, <1>9 DEF Call!handleStartAttempt
<1>10. CASE o = "renew" BY <1>1, <1>2, <1>4, <1>5, <1>10 DEF Call!handleRenewLease
<1>11. CASE o = "succeed" BY <1>1, <1>2, <1>4, <1>11 DEF Call!handleSucceedAttempt
<1>12. CASE o = "fail" BY <1>1, <1>2, <1>4, <1>12 DEF Call!handleFailAttempt
<1>13. CASE o = "cancel" BY <1>1, <1>2, <1>4, <1>13 DEF Call!handleCancelAttempt
<1> QED BY <1>3, <1>6, <1>7, <1>8, <1>9, <1>10, <1>11, <1>12, <1>13, Zenon DEF Call!Ops, Call!Outcomes

(* A request is executed under the deadline of its answer, which may find   *)
(* the work undone, done, or done and not reported (isDeadlineExhausted).   *)
LEMMA ExecuteKeeps ==
    ASSUME CallInv, NEW d \in Call!Callers, Call!Execute(d)
    PROVE  CallInv'
<1>1. /\ CallTypes /\ CallStands(call[d]) /\ call[d] \in CallRecord
      /\ call[d].pc = "cleared" /\ lateCommit = FALSE
  BY DEF CallInv, CallTypes, Call!Execute
<1>2. PICK o, result : o = call[d].op /\ result = Call!StoreResult(o) OBVIOUS
<1>3. /\ result \in Call!Codes
      /\ Call!isSessionLost(result) => session = "OFFLINE"
      /\ o = "renew" /\ result \in {"lease_expired", "state_conflict"}
            => lapsed \/ job \notin Undecided
      /\ result = "ok" /\ o = "register" => session # "OFFLINE"
      /\ result = "ok" /\ o # "register" => session # "none"
      /\ result = "ok" /\ o = "start" => job \in {"LEASED", "RUNNING"}
  BY <1>1, <1>2, ResultLemma
<1>4. PICK code \in {result} \cup (IF result = "ok" THEN {"service_unavailable"} ELSE {}) :
         Call!Answer(d, code)
  BY <1>2 DEF Call!Execute
<1>5. UNCHANGED <<revoked, keyed, lapsed, process, phase, verdict>>
  BY DEF Call!Execute, Call!workerVars
<1>6. lateCommit' = FALSE
  <2>1. ~(call[d].late /\ keyed) BY <1>1 DEF CallStands
  <2> QED BY <1>1, <2>1, Zenon DEF Call!Execute
<1>7. CASE result # "ok"
  <2>1. UNCHANGED <<session, job>> BY <1>2, <1>7 DEF Call!Execute
  <2>2. code = result BY <1>4, <1>7
  <2>3. lateCommit' = lateCommit BY <1>1, <1>2, <1>7, Zenon DEF Call!Execute
  <2> QED BY <1>1, <1>2, <1>3, <1>4, <1>5, <1>7, <2>1, <2>2, <2>3, AnswerKeeps
<1>8. CASE result = "ok"
  <2>1. Call!Effect(o) BY <1>2, <1>8 DEF Call!Execute
  <2>2. session' = IF o = "register" THEN "HEALTHY" ELSE session BY <2>1 DEF Call!Effect
  <2>3. /\ o = "claim" => job' = IF job = "QUEUED" THEN "LEASED" ELSE job
        /\ o = "start" => job' = "RUNNING"
        /\ job' \in {job, "LEASED", "RUNNING", "SUCCEEDED", "FAILED", "CANCELED"}
        /\ job' \in {"LEASED", "RUNNING"} /\ job' # job => o \in {"claim", "start"}
    BY <2>1 DEF Call!Effect
  <2>4. Onward
    <3>1. job \notin Undecided => job' \notin Undecided BY <1>3, <1>8, <2>3 DEF Undecided
    <3>2. job' = "QUEUED" => job = "QUEUED" BY <2>3
    <3>3. job' \in Undecided \cup {"CANCEL_REQUESTED", "SUCCEEDED", "FAILED", "CANCELED"}
      BY <1>1, <2>3 DEF CallTypes, Undecided
    <3>4. /\ session' \in {"none", "HEALTHY", "OFFLINE"}
          /\ session = "OFFLINE" => session' = "OFFLINE"
          /\ session' = "none" => session = "none"
      BY <1>1, <1>3, <1>8, <2>2 DEF CallTypes
    <3> QED BY <1>1, <1>5, <3>1, <3>2, <3>3, <3>4 DEF Onward, CallTypes
  <2>5. code \in Call!Codes /\ code \in {"ok", "service_unavailable"}
    BY <1>4, <1>8 DEF Call!Codes
  <2>6. /\ call' \in [Call!Callers -> CallRecord]
        /\ \A b \in Call!Callers \ {d} : call'[b] = call[b]
        /\ call'[d].pc = "answered" /\ call'[d].code = code
        /\ call'[d].late = FALSE /\ call'[d].op = o
    BY <1>1, <1>2, <1>4, <2>5, AnswerLemma, Zenon
  <2>7. session' # "none" BY <1>3, <1>8, <2>2
  <2>8. o = "claim" => job' # "QUEUED" BY <2>3
  <2>9. o \in {"start", "cancel", "renew"} \cup Call!Outcomes => job' # "QUEUED"
    BY <1>1, <1>2, <2>4 DEF CallStands, Onward
  <2>10. o # "none" BY <1>1, <1>2 DEF CallStands
  <2>11. CallStands(call[d])'
    BY <2>5, <2>6, <2>7, <2>8, <2>9, <2>10 DEF CallStands, Call!isSessionLost
  <2> QED BY <1>5, <1>6, <2>4, <2>6, <2>11, ServerKeeps, Zenon
<1> QED BY <1>7, <1>8

(* A request is sent: by then there is a session, unless it is the request  *)
(* for one, and an attempt, if it is about one.                             *)
LEMMA SendKeeps ==
    ASSUME CallInv, NEW d \in Call!Callers, NEW o \in Call!Ops, NEW n \in Nat,
           Call!Send(d, o, n),
           UNCHANGED <<revoked, session, keyed, job, lapsed, lateCommit, process, phase, verdict>>,
           session = "none" => o = "register",
           o \in {"start", "cancel", "renew"} \cup Call!Outcomes => job # "QUEUED"
    PROVE  CallInv'
<1>1. PICK form \in Formed :
         call' = [call EXCEPT ![d] = [op |-> o, pc |-> "sent", form |-> form, tries |-> n,
                                      late |-> revoked, code |-> "ok"]]
  BY Zenon DEF Call!Send, Formed
<1>2. PICK x : x = [op |-> o, pc |-> "sent", form |-> form, tries |-> n, late |-> revoked,
                    code |-> "ok"]
  BY Zenon
<1>3. call \in [Call!Callers -> CallRecord] /\ revoked \in BOOLEAN BY DEF CallInv, CallTypes
<1>4. x \in CallRecord BY <1>2, <1>3 DEF CallRecord, Call!Codes
<1>5. /\ call' \in [Call!Callers -> CallRecord] /\ call'[d] = x
      /\ \A b \in Call!Callers \ {d} : call'[b] = call[b]
  BY <1>1, <1>2, <1>3, <1>4
<1>6. x.op = o /\ x.pc = "sent" /\ x.late = revoked BY <1>2
<1>7. o # "none" BY DEF Call!Ops, Call!Outcomes
<1>8. CallStands(call[d])' BY <1>3, <1>5, <1>6, <1>7 DEF CallStands
<1> QED BY <1>5, <1>8, HandlerKeeps

(* The slot and the heartbeat send what their state calls for, or repeat    *)
(* it (Runner.retry, runHeartbeat).                                         *)
LEMMA SendersKeep ==
    ASSUME CallInv,
           (\E o \in Operations \cup {"register"} : Call!Begin(o)) \/ Call!Retry \/ Call!Beat
    PROVE  CallInv'
<1> USE DEF Call!serverVars, Call!workerVars
<1>0. "slot" \in Call!Callers /\ "heartbeat" \in Call!Callers BY DEF Call!Callers
<1>1. CASE \E o \in Operations \cup {"register"} : Call!Begin(o)
  <2>1. PICK o \in Operations \cup {"register"} : Call!Begin(o) BY <1>1
  <2>2. o \in Call!Ops BY CallsAssumption DEF Call!CallAssumption, Call!Ops, Call!Outcomes
  <2>3. UNCHANGED <<revoked, session, keyed, job, lapsed, lateCommit, process, phase, verdict>>
    BY <2>1 DEF Call!Begin
  <2>4. Call!MayCall(o) /\ Call!Send("slot", o, 1) BY <2>1 DEF Call!Begin
  <2>5. session = "none" => o = "register" BY <2>4 DEF CallInv, Call!MayCall
  <2>6. o \in {"start", "cancel", "renew"} \cup Call!Outcomes => job # "QUEUED"
    BY <2>4 DEF CallInv, Call!MayCall, Call!Outcomes
  <2> QED BY <1>0, <2>2, <2>3, <2>4, <2>5, <2>6, SendKeeps
<1>2. CASE Call!Retry
  <2>1. PICK x : x = call["slot"] OBVIOUS
  <2>2. x \in CallRecord /\ CallStands(x) BY <1>0, <2>1 DEF CallInv, CallTypes
  <2>3. x.pc = "answered" /\ Call!Send("slot", x.op, x.tries + 1) BY <1>2, <2>1 DEF Call!Retry
  <2>4. UNCHANGED <<revoked, session, keyed, job, lapsed, lateCommit, process, phase, verdict>>
    BY <1>2 DEF Call!Retry
  <2>5. x.op \in Call!Ops /\ x.tries + 1 \in Nat BY <2>2, <2>3 DEF CallRecord, CallStands
  <2>6. /\ session = "none" => x.op = "register"
        /\ x.op \in {"start", "cancel", "renew"} \cup Call!Outcomes => job # "QUEUED"
    BY <2>2, <2>3 DEF CallStands
  <2> QED BY <1>0, <2>3, <2>4, <2>5, <2>6, SendKeeps
<1>3. CASE Call!Beat
  <2>1. UNCHANGED <<revoked, session, keyed, job, lapsed, lateCommit, process, phase, verdict>>
    BY <1>3 DEF Call!Beat
  <2>2. session # "none" BY <1>3 DEF CallInv, Call!Beat
  <2>3. "heartbeat" \in Call!Ops /\ "heartbeat" \notin {"start", "cancel", "renew"} \cup Call!Outcomes
    BY DEF Call!Ops, Call!Outcomes
  <2>4. Call!Send("heartbeat", "heartbeat", 1) BY <1>3 DEF Call!Beat
  <2> QED BY <1>0, <2>1, <2>2, <2>3, <2>4, SendKeeps
<1> QED BY <1>1, <1>2, <1>3

(* A call that is over leaves its place empty.                              *)
LEMMA IdleLemma ==
    ASSUME CallInv, NEW d \in Call!Callers, call' = [call EXCEPT ![d] = Call!Idle],
           UNCHANGED <<revoked, session, keyed, job, lapsed>>
    PROVE  CallTypes' /\ \A b \in Call!Callers : CallStands(call[b])'
<1>1. Call!Idle \in CallRecord BY DEF Call!Idle, CallRecord, Formed, Call!Codes
<1>2. CallTypes BY DEF CallInv
<1>3. CallTypes' BY <1>1, <1>2 DEF CallTypes
<1>4. Onward BY <1>2 DEF Onward, CallTypes
<1>5. ASSUME NEW b \in Call!Callers PROVE CallStands(call[b])'
  <2>1. CASE b = d
    <3>1. call'[b] = Call!Idle BY <1>2, <2>1 DEF CallTypes
    <3> QED BY <3>1 DEF CallStands, Call!Idle, Call!Outcomes
  <2>2. CASE b # d
    <3>1. call'[b] = call[b] BY <1>2, <2>2 DEF CallTypes
    <3> QED BY <1>4, <3>1, StandsOn
  <2> QED BY <2>1, <2>2
<1> QED BY <1>3, <1>5

(* The slot concludes only what the answer tells (React).                   *)
LEMMA ConcludeKeeps == ASSUME CallInv, Call!Conclude PROVE CallInv'
<1>0. "slot" \in Call!Callers BY DEF Call!Callers
<1>1. PICK x : x = call["slot"] OBVIOUS
<1>2. /\ CallStands(x) /\ x.pc = "answered" /\ x \in CallRecord
  BY <1>0, <1>1 DEF CallInv, CallTypes, Call!Conclude
<1>3. /\ UNCHANGED <<revoked, session, keyed, job, lapsed, lateCommit>>
      /\ call' = [call EXCEPT !["slot"] = Call!Idle]
  BY DEF Call!Conclude, Call!serverVars
<1>4. CallTypes' /\ \A b \in Call!Callers : CallStands(call[b])' BY <1>0, <1>3, IdleLemma, Zenon
<1>5. verdict' = Call!React(x.op, x.code) BY <1>1 DEF Call!Conclude
<1>6. /\ verdict' = "ok" => x.code = "ok"
      /\ verdict' = "sessionLost" => Call!isSessionLost(x.code)
      /\ verdict' = "authorityLost" => x.op = "renew" /\ x.code \in {"lease_expired", "state_conflict"}
  BY <1>5 DEF Call!React, Call!isSessionLost, Call!isAuthorityLost, Call!isCancellationRequested
<1>7. (verdict = "sessionLost" => session = "OFFLINE")'
  BY <1>2, <1>3, <1>6 DEF CallStands
<1>8. (verdict = "authorityLost" => lapsed \/ job \notin Undecided)'
  BY <1>2, <1>3, <1>6 DEF CallStands
<1>9. phase' = phase \/ (verdict' = "ok" /\ x.op \in {"claim", "start"})
  BY <1>1 DEF Call!Conclude
<1>10. (phase # "none" => job # "QUEUED")'
  BY <1>2, <1>3, <1>6, <1>9 DEF CallInv, CallStands
<1>11. session = "none" => x.op = "register" /\ x.code # "ok" /\ process \in {"starting", "failed"}
  BY <1>2 DEF CallInv, CallStands
<1>12. process' = CASE process = "stopped" -> process
                    [] process # "stopped" /\ x.op = "register" ->
                          IF verdict' = "ok" THEN "running" ELSE "failed"
                    [] process # "stopped" /\ x.op # "register" ->
                          IF verdict' = "sessionLost" THEN "stopped" ELSE process
  BY <1>1 DEF Call!Conclude
<1>13. (session = "none" => process \in {"starting", "failed"})'
  BY <1>3, <1>6, <1>11, <1>12
<1>14. lateCommit' = FALSE BY <1>3 DEF CallInv
<1> QED BY <1>4, <1>7, <1>8, <1>10, <1>13, <1>14 DEF CallInv

(* A heartbeat that was answered does not bring a process to life.          *)
LEMMA BeatAnsweredKeeps == ASSUME CallInv, Call!BeatAnswered PROVE CallInv'
<1>0. "heartbeat" \in Call!Callers BY DEF Call!Callers
<1>1. /\ UNCHANGED <<revoked, session, keyed, job, lapsed, lateCommit, phase, verdict>>
      /\ call' = [call EXCEPT !["heartbeat"] = Call!Idle]
  BY DEF Call!BeatAnswered, Call!serverVars
<1>2. CallTypes' /\ \A b \in Call!Callers : CallStands(call[b])' BY <1>0, <1>1, IdleLemma, Zenon
<1>3. process = "running" \/ process' = process BY DEF Call!BeatAnswered
<1> QED BY <1>1, <1>2, <1>3 DEF CallInv

(* What the calls rely on lasts.                                            *)
LEMMA CallKeeps == ASSUME CallInv, [Call!Next]_(Call!vars) PROVE CallInv'
<1>1. CASE UNCHANGED Call!vars
  BY <1>1 DEF Call!vars, CallInv, CallTypes, CallStands
<1>2. CASE Call!Next
  BY <1>2, ReadsKeep, ExecuteKeeps, SendersKeep, ConcludeKeeps, BeatAnsweredKeeps,
     SurroundingsKeep
     DEF Call!Next, Call!HandlerStep
<1> QED BY <1>1, <1>2

(* The invariant says what was promised of a call.                          *)
LEMMA CallPromises == ASSUME CallInv PROVE Call!RevokedKeyCommitsNothing /\ Call!LossIsReal
BY DEF CallInv, Call!RevokedKeyCommitsNothing, Call!LossIsReal, Undecided

------------------------------------------------------------------------------
(* The calls as a part of the worker                                        *)

CallsInv == part = "call" => CallInv

(* The calls begin as their invariant requires and keep it.                 *)
LEMMA CallsInvariant == CallsSpec => []CallsInv
<1>1. CallsInit => CallsInv BY CallStarts DEF CallsInit, CallsInv
<1>2. ASSUME CallsInv, [CallsNext]_callsVars PROVE CallsInv'
  <2>1. CASE CallsNext BY <1>2, <2>1, CallKeeps DEF CallsNext, CallsInv
  <2>2. CASE UNCHANGED callsVars
    <3>1. UNCHANGED Call!vars BY <2>2 DEF callsVars, ofCall, Call!vars
    <3> QED BY <1>2, <2>2, <3>1, CallKeeps DEF CallsInv, callsVars
  <2> QED BY <1>2, <2>1, <2>2
<1> QED BY <1>1, <1>2, PTL DEF CallsSpec

(* No request that was sent after the revocation of the session's key       *)
(* commits (requireWorkerKey, resolveWorkerControlScope).                   *)
THEOREM RevocationHolds == CallsSpec => []RevokedKeyCommitsNothing
<1>1. CallsInv => RevokedKeyCommitsNothing
  BY CallPromises DEF CallsInv, RevokedKeyCommitsNothing
<1> QED BY <1>1, CallsInvariant, PTL

(* A worker that concludes that its session or its lease is gone is right,  *)
(* whatever was revoked, replaced, lost or late on the way (isSessionLost,  *)
(* isAuthorityLost, writeWorkerControlError).                               *)
THEOREM ConcludedLossesAreReal == CallsSpec => []LossIsReal
<1>1. CallsInv => LossIsReal BY CallPromises DEF CallsInv, LossIsReal
<1> QED BY <1>1, CallsInvariant, PTL

------------------------------------------------------------------------------
(* The authority of a lease                                                 *)

LeaseRequest == [kind : {"start", "renew"}, id : Nat, expected : Nat]

LeaseCall == [req : LeaseRequest, age : 0 .. LeaseDuration, answer : Lease!Answer \cup {NULL}]

LeaseTypes ==
    /\ att \in {"LEASED", "RUNNING", "OVER"}
    /\ phase \in {"start", "run", "over"}
    /\ leaseLeft \in 0 .. LeaseDuration
    /\ timeoutLeft \in (0 .. Timeout) \cup {NULL}
    /\ version \in Nat /\ lastId \in Nat /\ seen \in Nat /\ nextId \in Nat
    /\ authLeft \in Nat /\ execLeft \in Nat /\ startAge \in 0 .. Timeout
    /\ pending \in (1 .. nextId) \cup {NULL}
    /\ net \subseteq LeaseRequest
    /\ call # NULL => call \in LeaseCall

(* A granted answer that the worker has not acted upon.                     *)
Answered == call # NULL /\ call.answer # NULL /\ call.answer.ok

(* The worker renews only what it started, and waits only for what it asks. *)
LeaseProtocol ==
    /\ att = "LEASED" => version = 0
    /\ att = "RUNNING" => timeoutLeft # NULL
    /\ phase = "start" => version = 0 /\ seen = 0 /\ pending = NULL
    /\ phase = "start" /\ call # NULL => call.req.kind = "start"
    /\ phase = "run" => att # "LEASED" /\ timeoutLeft # NULL
    /\ phase = "run" /\ call # NULL =>
          pending # NULL /\ call.req = [kind |-> "renew", id |-> pending, expected |-> seen]
    /\ \A r \in net : r.kind = "renew" => att # "LEASED" /\ phase # "start"

(* An answer is worth what is left of it: it was measured when the request  *)
(* was served, which was after it was sent.                                 *)
AnswersAge ==
    /\ phase = "start" /\ Answered =>
          /\ att # "LEASED" /\ timeoutLeft # NULL
          /\ call.answer.remaining \in 0 .. Timeout
          /\ call.answer.remaining - startAge <= timeoutLeft
    /\ phase = "run" /\ Answered =>
          /\ call.answer.remaining \in 0 .. LeaseDuration
          /\ call.answer.remaining - call.age <= leaseLeft
          /\ call.answer.version = seen + 1 /\ version = seen + 1

(* Only the renewal in progress can still be granted: any other that is on  *)
(* its way expects a generation that is gone.                               *)
OldRenewals ==
    \A r \in net : r.kind = "renew" =>
        /\ r.id <= nextId
        /\ phase # "over" => IF r.id = pending THEN r.expected = seen ELSE r.expected < seen

LeaseInv ==
    /\ LeaseTypes
    /\ LeaseProtocol
    /\ AnswersAge
    /\ OldRenewals
    /\ Lease!ExecutionWithinGrant
    /\ Lease!GenerationsInStep


(* The safety margin never adds to what the server measured.                *)
LEMMA MarginLemma ==
    ASSUME NEW n \in Nat
    PROVE  Lease!executionBudget(n) \in Int /\ Lease!executionBudget(n) <= n
BY AuthorityAssumption DEF Lease!LeaseAssumption, Lease!executionBudget, Lease!Least

(* The claim's window is counted from when it was asked for (Client.Claim). *)
LEMMA LeaseStarts == ASSUME Lease!Init PROVE LeaseInv
<1> USE AuthorityAssumption DEF Lease!LeaseAssumption
<1>1. PICK a \in 0 .. LeaseDuration, b \in 0 .. LeaseDuration :
         /\ b <= a /\ leaseLeft = LeaseDuration - b
         /\ authLeft = IF Lease!executionBudget(LeaseDuration) > a
                       THEN Lease!executionBudget(LeaseDuration) - a ELSE 0
  BY DEF Lease!Init
<1>2. authLeft \in Nat /\ authLeft <= leaseLeft /\ leaseLeft \in 0 .. LeaseDuration
  BY <1>1, MarginLemma
<1>3. LeaseTypes BY <1>2 DEF Lease!Init, LeaseTypes
<1>4. LeaseProtocol /\ AnswersAge /\ OldRenewals
  BY DEF Lease!Init, LeaseProtocol, AnswersAge, OldRenewals, Answered
<1>5. Lease!ExecutionWithinGrant /\ Lease!GenerationsInStep
  BY <1>2 DEF Lease!Init, Lease!ExecutionWithinGrant, Lease!GenerationsInStep
<1> QED BY <1>3, <1>4, <1>5 DEF LeaseInv

(* An answer reaches the call that waits for its request, and no other.     *)
LEMMA ReplyLemma ==
    ASSUME LeaseInv, NEW r \in LeaseRequest, NEW a \in Lease!Answer, Lease!Reply(r, a)
    PROVE  \/ call' = call
           \/ /\ call # NULL /\ call \in LeaseCall /\ call.req = r
              /\ call' \in LeaseCall
              /\ call'.req = call.req /\ call'.age = call.age /\ call'.answer = a
<1>1. CASE call # NULL /\ call.req = r /\ call.answer = NULL
  <2>1. call \in LeaseCall BY <1>1 DEF LeaseInv, LeaseTypes
  <2>2. call' = [call EXCEPT !.answer = a] BY <1>1 DEF Lease!Reply
  <2> QED BY <1>1, <2>1, <2>2 DEF LeaseCall
<1>2. CASE ~(call # NULL /\ call.req = r /\ call.answer = NULL)
  BY <1>2 DEF Lease!Reply
<1> QED BY <1>1, <1>2

(* A refusal changes nothing but what the worker waits for.                 *)
LEMMA RefusedKeeps ==
    ASSUME LeaseInv, NEW r \in net, NEW why \in {"lost", "unsure"},
           Lease!Reply(r, Lease!Refused(why)), net' \subseteq net, UNCHANGED Lease!server,
           UNCHANGED <<phase, authLeft, execLeft, startAge, pending, nextId, seen>>
    PROVE  LeaseInv'
<1>1. UNCHANGED <<att, leaseLeft, timeoutLeft, version, lastId, refusing>> BY DEF Lease!server
<1>2. r \in LeaseRequest BY DEF LeaseInv, LeaseTypes
<1>3. PICK a : a = Lease!Refused(why) OBVIOUS
<1>4. a \in Lease!Answer /\ a.ok = FALSE BY <1>3 DEF Lease!Refused, Lease!Answer
<1>5. \/ call' = call
      \/ /\ call # NULL /\ call.req = r /\ call' \in LeaseCall
         /\ call'.req = call.req /\ call'.age = call.age /\ call'.answer = a
  BY <1>2, <1>3, <1>4, ReplyLemma
<1>6. LeaseTypes' BY <1>1, <1>5 DEF LeaseInv, LeaseTypes
<1>7. LeaseProtocol' BY <1>1, <1>5 DEF LeaseInv, LeaseProtocol
<1>8. Answered' => Answered /\ call' = call BY <1>4, <1>5, ZenonT(30) DEF Answered
<1>9. AnswersAge' BY <1>1, <1>8 DEF LeaseInv, AnswersAge
<1>10. OldRenewals' BY DEF LeaseInv, OldRenewals
<1>11. (Lease!ExecutionWithinGrant /\ Lease!GenerationsInStep)'
  BY <1>1 DEF LeaseInv, Lease!ExecutionWithinGrant, Lease!GenerationsInStep
<1> QED BY <1>6, <1>7, <1>9, <1>10, <1>11 DEF LeaseInv

(* Store.Start stamps the deadline once, and a repetition reports what is   *)
(* left of it.                                                              *)
LEMMA ServeStartKeeps ==
    ASSUME LeaseInv, NEW r \in net, Lease!ServeStart(r)
    PROVE  LeaseInv'
<1> USE AuthorityAssumption DEF Lease!LeaseAssumption
<1>1. /\ r.kind = "start" /\ net' \subseteq net
      /\ UNCHANGED <<phase, authLeft, execLeft, startAge, pending, nextId, seen>>
  BY DEF Lease!ServeStart, Lease!Served
<1>2. r \in LeaseRequest BY DEF LeaseInv, LeaseTypes
<1>3. CASE ~Lease!LeaseUsable \/ refusing # "no" \/ timeoutLeft = 0
  <2>1. Lease!Reply(r, Lease!Refused("lost")) /\ UNCHANGED Lease!server
    BY <1>3 DEF Lease!ServeStart
  <2> QED BY <1>1, <2>1, RefusedKeeps
<1>4. CASE ~(~Lease!LeaseUsable \/ refusing # "no" \/ timeoutLeft = 0)
  <2>1. /\ att # "OVER" /\ att' = "RUNNING"
        /\ timeoutLeft' = IF att = "LEASED" THEN Timeout ELSE timeoutLeft
        /\ Lease!Reply(r, Lease!Granted(timeoutLeft', 0))
        /\ UNCHANGED <<leaseLeft, version, lastId, refusing>>
    BY <1>4 DEF Lease!ServeStart, Lease!LeaseUsable
  <2>2. timeoutLeft' \in 0 .. Timeout /\ timeoutLeft' # NULL
    BY <2>1 DEF LeaseInv, LeaseTypes, LeaseProtocol
  <2>3. PICK a : a = Lease!Granted(timeoutLeft', 0) OBVIOUS
  <2>4. a \in Lease!Answer /\ a.remaining = timeoutLeft'
    BY <2>2, <2>3 DEF Lease!Granted, Lease!Answer
  <2>5. \/ call' = call
        \/ /\ call # NULL /\ call.req = r /\ call' \in LeaseCall
           /\ call'.req = call.req /\ call'.age = call.age /\ call'.answer = a
    BY <1>2, <2>1, <2>3, <2>4, ReplyLemma
  <2>6. phase = "run" => call' = call BY <1>1, <2>5 DEF LeaseInv, LeaseProtocol
  <2>7. LeaseTypes' BY <1>1, <2>1, <2>2, <2>5 DEF LeaseInv, LeaseTypes
  <2>8. LeaseProtocol' BY <1>1, <2>1, <2>2, <2>5, <2>6 DEF LeaseInv, LeaseProtocol
  <2>9. AnswersAge'
    <3>1. CASE call' = call
      BY <1>1, <2>1, <2>2, <3>1 DEF LeaseInv, AnswersAge, Answered
    <3>2. CASE call' # call
      <4>1. call'.answer = a /\ phase # "run" BY <2>5, <2>6, <3>2
      <4>2. startAge \in Nat BY DEF LeaseInv, LeaseTypes
      <4> QED BY <1>1, <2>1, <2>2, <2>4, <4>1, <4>2 DEF AnswersAge
    <3> QED BY <3>1, <3>2
  <2>10. OldRenewals' BY <1>1 DEF LeaseInv, OldRenewals
  <2>11. Lease!ExecutionWithinGrant'
    BY <1>1, <2>1 DEF LeaseInv, LeaseProtocol, Lease!ExecutionWithinGrant
  <2>12. Lease!GenerationsInStep' BY <1>1, <2>1 DEF LeaseInv, Lease!GenerationsInStep
  <2> QED BY <2>7, <2>8, <2>9, <2>10, <2>11, <2>12 DEF LeaseInv
<1> QED BY <1>3, <1>4

(* Store.RenewLease: a renewal that commits is the one in progress, and a   *)
(* repetition of it is granted what is left.                                *)
LEMMA ServeRenewKeeps ==
    ASSUME LeaseInv, NEW r \in net, Lease!ServeRenew(r)
    PROVE  LeaseInv'
<1> USE AuthorityAssumption DEF Lease!LeaseAssumption
<1>1. /\ r.kind = "renew" /\ net' \subseteq net
      /\ UNCHANGED <<phase, authLeft, execLeft, startAge, pending, nextId, seen>>
  BY DEF Lease!ServeRenew, Lease!Served
<1>2. r \in LeaseRequest /\ att # "LEASED" /\ phase # "start"
  BY <1>1 DEF LeaseInv, LeaseTypes, LeaseProtocol
<1>3. ASSUME NEW why \in {"lost", "unsure"}, Lease!Reply(r, Lease!Refused(why)),
             UNCHANGED Lease!server
      PROVE  LeaseInv'
  BY <1>1, <1>3, RefusedKeeps
<1>4. ASSUME NEW left_ \in 0 .. LeaseDuration, NEW v \in Nat,
             Lease!Reply(r, Lease!Granted(left_, v)), v = r.expected + 1,
             leaseLeft' \in {leaseLeft, LeaseDuration}, leaseLeft' = left_, version' = v,
             UNCHANGED <<att, timeoutLeft>>,
             \/ version' = version /\ lastId' = lastId
             \/ version' = version + 1 /\ lastId' = r.id
      PROVE  LeaseInv'
  <2>1. PICK a : a = Lease!Granted(left_, v) OBVIOUS
  <2>2. a \in Lease!Answer /\ a.remaining = left_ /\ a.version = v
    BY <2>1 DEF Lease!Granted, Lease!Answer
  <2>3. \/ call' = call
        \/ /\ call # NULL /\ call \in LeaseCall /\ call.req = r /\ call' \in LeaseCall
           /\ call'.req = call.req /\ call'.age = call.age /\ call'.answer = a
    BY <1>2, <1>4, <2>1, <2>2, ReplyLemma
  <2>4. LeaseTypes' BY <1>1, <1>2, <1>4, <2>3 DEF LeaseInv, LeaseTypes, LeaseRequest
  <2>5. LeaseProtocol' BY <1>1, <1>2, <1>4, <2>3 DEF LeaseInv, LeaseProtocol
  <2>6. phase # "over" /\ version' = version + 1 => version = seen /\ r.id = pending /\ pending # NULL
    <3>1. phase # "over" => IF r.id = pending THEN r.expected = seen ELSE r.expected < seen
      BY <1>1 DEF LeaseInv, OldRenewals
    <3>2. r.id \in Nat /\ r.expected \in Nat /\ seen \in Nat /\ version \in Nat
      BY <1>2 DEF LeaseRequest, LeaseInv, LeaseTypes
    <3>3. phase # "over" => version >= seen
      BY <3>2 DEF LeaseInv, Lease!GenerationsInStep
    <3> QED BY <1>4, <3>1, <3>2, <3>3
  <2>7. Lease!GenerationsInStep'
    BY <1>1, <1>4, <2>6 DEF LeaseInv, LeaseTypes, Lease!GenerationsInStep
  <2>8. AnswersAge'
    <3>1. CASE call' = call
      <4>1. /\ leaseLeft \in 0 .. LeaseDuration /\ seen \in Nat
            /\ call # NULL => call.age \in Nat
        BY DEF LeaseInv, LeaseTypes, LeaseCall
      <4>2. phase = "run" /\ Answered =>
               /\ call.answer.remaining \in 0 .. LeaseDuration
               /\ call.answer.remaining - call.age <= leaseLeft
               /\ call.answer.version = seen + 1 /\ version = seen + 1
        BY DEF LeaseInv, AnswersAge
      <4>3. leaseLeft' \in 0 .. LeaseDuration /\ leaseLeft' >= leaseLeft BY <1>4, <4>1
      <4>4. phase = "run" /\ Answered => version' = version BY <1>4, <2>6, <4>1, <4>2
      <4> QED BY <1>1, <1>2, <3>1, <4>1, <4>2, <4>3, <4>4 DEF AnswersAge, Answered
    <3>2. CASE call' # call
      <4>1. call'.answer = a /\ call'.age \in Nat /\ call.req = r /\ call # NULL
        BY <2>3, <3>2 DEF LeaseCall
      <4>2. phase = "run" => r.expected = seen
        BY <4>1 DEF LeaseInv, LeaseProtocol
      <4>3. phase # "start" /\ seen \in Nat BY <1>2 DEF LeaseInv, LeaseTypes
      <4> QED BY <1>1, <1>4, <2>2, <4>1, <4>2, <4>3 DEF AnswersAge
    <3> QED BY <3>1, <3>2
  <2>9. OldRenewals' BY <1>1 DEF LeaseInv, OldRenewals
  <2>10. Lease!ExecutionWithinGrant'
    BY <1>1, <1>4 DEF LeaseInv, LeaseTypes, Lease!ExecutionWithinGrant
  <2> QED BY <2>4, <2>5, <2>7, <2>8, <2>9, <2>10 DEF LeaseInv
<1>5. /\ version \in Nat /\ leaseLeft \in 0 .. LeaseDuration /\ r.expected \in Nat
  BY <1>2 DEF LeaseInv, LeaseTypes, LeaseRequest
<1>6. CASE \/ ~Lease!LeaseUsable \/ refusing # "no"
           \/ timeoutLeft = 0
  BY <1>3, <1>6 DEF Lease!ServeRenew
<1>7. CASE /\ Lease!LeaseUsable /\ refusing = "no" /\ timeoutLeft # 0
           /\ Lease!Replayed(r) \/ version # r.expected
  <2>1. /\ Lease!Reply(r, IF Lease!Replayed(r) /\ version = r.expected + 1
                          THEN Lease!Granted(leaseLeft, version) ELSE Lease!Refused("lost"))
        /\ UNCHANGED Lease!server
    BY <1>7 DEF Lease!ServeRenew
  <2>2. CASE Lease!Replayed(r) /\ version = r.expected + 1
    <3>1. Lease!Reply(r, Lease!Granted(leaseLeft, version)) BY <2>1, <2>2
    <3>2. UNCHANGED <<att, leaseLeft, timeoutLeft, version, lastId>> BY <2>1 DEF Lease!server
    <3> QED BY <1>4, <1>5, <2>2, <3>1, <3>2
  <2>3. CASE ~(Lease!Replayed(r) /\ version = r.expected + 1)
    <3>1. Lease!Reply(r, Lease!Refused("lost")) BY <2>1, <2>3
    <3> QED BY <1>3, <2>1, <3>1
  <2> QED BY <2>2, <2>3
<1>8. CASE /\ Lease!LeaseUsable /\ refusing = "no" /\ timeoutLeft # 0
           /\ ~(Lease!Replayed(r) \/ version # r.expected)
  <2>1. /\ leaseLeft' = LeaseDuration /\ version' = version + 1 /\ lastId' = r.id
        /\ Lease!Reply(r, Lease!Granted(LeaseDuration, version'))
        /\ UNCHANGED <<att, timeoutLeft, refusing>> /\ version = r.expected
    BY <1>8 DEF Lease!ServeRenew
  <2>2. LeaseDuration \in 0 .. LeaseDuration /\ version + 1 \in Nat /\ version + 1 = r.expected + 1
    BY <1>5, <2>1
  <2>3. Lease!Reply(r, Lease!Granted(LeaseDuration, version + 1)) BY <2>1
  <2> QED BY <1>4, <1>5, <2>1, <2>2, <2>3
<1> QED BY <1>6, <1>7, <1>8

(* A lost request, a refusal to come and a reconciliation take nothing that *)
(* the worker was told it has.                                              *)
LEMMA LeaseEndsKeep ==
    ASSUME LeaseInv, (\E r \in net : Lease!Lose(r)) \/ Lease!Refuse \/ Lease!Reconcile
    PROVE  LeaseInv'
<1>1. /\ net' \subseteq net
      /\ att' = att \/ att' = "OVER"
      /\ UNCHANGED <<leaseLeft, timeoutLeft, version, lastId>>
      /\ UNCHANGED <<phase, authLeft, execLeft, startAge, call, pending, nextId, seen>>
  BY DEF Lease!Lose, Lease!Refuse, Lease!Reconcile, Lease!server, Lease!worker
<1>2. LeaseTypes' BY <1>1 DEF LeaseInv, LeaseTypes
<1>3. LeaseProtocol' BY <1>1 DEF LeaseInv, LeaseProtocol
<1>4. AnswersAge' BY <1>1 DEF LeaseInv, AnswersAge, Answered
<1>5. OldRenewals' BY <1>1 DEF LeaseInv, OldRenewals
<1>6. (Lease!ExecutionWithinGrant /\ Lease!GenerationsInStep)'
  BY <1>1 DEF LeaseInv, Lease!ExecutionWithinGrant, Lease!GenerationsInStep
<1> QED BY <1>2, <1>3, <1>4, <1>5, <1>6 DEF LeaseInv

(* The worker stops waiting, with its execution or without.                 *)
LEMMA WaitEndsKeeps ==
    ASSUME LeaseInv, call' = NULL, phase' = phase \/ phase' = "over",
           UNCHANGED Lease!server,
           UNCHANGED <<net, authLeft, execLeft, startAge, pending, nextId, seen>>
    PROVE  LeaseInv'
<1>1. UNCHANGED <<att, leaseLeft, timeoutLeft, version, lastId>> BY DEF Lease!server
<1>2. LeaseTypes' BY <1>1 DEF LeaseInv, LeaseTypes
<1>3. LeaseProtocol' BY <1>1 DEF LeaseInv, LeaseProtocol
<1>4. AnswersAge' BY DEF AnswersAge, Answered
<1>5. OldRenewals' BY DEF LeaseInv, OldRenewals
<1>6. (Lease!ExecutionWithinGrant /\ Lease!GenerationsInStep)'
  BY <1>1 DEF LeaseInv, Lease!ExecutionWithinGrant, Lease!GenerationsInStep
<1> QED BY <1>2, <1>3, <1>4, <1>5, <1>6 DEF LeaseInv

(* A request is drawn up from what the worker knows.                        *)
LEMMA SendStartKeeps == ASSUME LeaseInv, Lease!SendStart PROVE LeaseInv'
<1> USE AuthorityAssumption DEF Lease!LeaseAssumption
<1>1. PICK r : r = [kind |-> "start", id |-> 0, expected |-> 0] BY Zenon
<1>2. r \in LeaseRequest /\ r.kind = "start" BY <1>1 DEF LeaseRequest
<1>3. PICK x : x = [req |-> r, age |-> 0, answer |-> NULL] BY Zenon
<1>4. x \in LeaseCall /\ x.req = r /\ x.answer = NULL BY <1>2, <1>3 DEF LeaseCall
<1>5. /\ phase = "start" /\ net' = net \cup {r} /\ call' = x
      /\ UNCHANGED <<att, leaseLeft, timeoutLeft, version, lastId>>
      /\ UNCHANGED <<phase, authLeft, execLeft, startAge, pending, nextId, seen>>
  BY <1>1, <1>3 DEF Lease!SendStart, Lease!Send, Lease!server
<1>6. LeaseTypes' BY <1>2, <1>4, <1>5 DEF LeaseInv, LeaseTypes
<1>7. LeaseProtocol' BY <1>2, <1>4, <1>5 DEF LeaseInv, LeaseProtocol
<1>8. AnswersAge' BY <1>4, <1>5 DEF AnswersAge, Answered
<1>9. OldRenewals' BY <1>2, <1>5 DEF LeaseInv, OldRenewals
<1>10. (Lease!ExecutionWithinGrant /\ Lease!GenerationsInStep)'
  BY <1>5 DEF LeaseInv, Lease!ExecutionWithinGrant, Lease!GenerationsInStep
<1> QED BY <1>6, <1>7, <1>8, <1>9, <1>10 DEF LeaseInv

(* A new renewal has an identity no earlier one had; an unresolved one      *)
(* keeps its own (pendingRenewal).                                          *)
LEMMA RenewKeeps == ASSUME LeaseInv, Lease!Renew PROVE LeaseInv'
<1> USE AuthorityAssumption DEF Lease!LeaseAssumption
<1>1. /\ phase = "run"
      /\ nextId' = IF pending = NULL THEN nextId + 1 ELSE nextId
      /\ pending' = IF pending = NULL THEN nextId' ELSE pending
      /\ UNCHANGED <<att, leaseLeft, timeoutLeft, version, lastId>>
      /\ UNCHANGED <<phase, authLeft, execLeft, startAge, seen>>
  BY DEF Lease!Renew, Lease!server
<1>2. /\ nextId \in Nat /\ nextId' \in Nat /\ nextId <= nextId'
      /\ pending' \in 1 .. nextId' /\ pending' # NULL /\ seen \in Nat
  BY <1>1 DEF LeaseInv, LeaseTypes
<1>3. PICK r : r = [kind |-> "renew", id |-> pending', expected |-> seen] BY Zenon
<1>4. r \in LeaseRequest /\ r.kind = "renew" /\ r.id = pending' /\ r.expected = seen
  BY <1>2, <1>3 DEF LeaseRequest
<1>5. PICK x : x = [req |-> r, age |-> 0, answer |-> NULL] BY Zenon
<1>6. x \in LeaseCall /\ x.req = r /\ x.answer = NULL BY <1>4, <1>5 DEF LeaseCall
<1>7. net' = net \cup {r} /\ call' = x BY <1>3, <1>5 DEF Lease!Renew, Lease!Send
<1>8. LeaseTypes' BY <1>1, <1>2, <1>4, <1>6, <1>7 DEF LeaseInv, LeaseTypes
<1>9. LeaseProtocol' BY <1>1, <1>2, <1>3, <1>6, <1>7 DEF LeaseInv, LeaseProtocol
<1>10. AnswersAge' BY <1>6, <1>7 DEF AnswersAge, Answered
<1>11. OldRenewals'
  <2> SUFFICES ASSUME NEW q \in net', q.kind = "renew"
               PROVE  /\ q.id <= nextId'
                      /\ IF q.id = pending' THEN q.expected = seen ELSE q.expected < seen
    BY <1>1 DEF OldRenewals
  <2>1. CASE q = r BY <1>2, <1>4, <2>1
  <2>2. CASE q \in net
    <3>1. /\ q.id <= nextId /\ q.id \in Nat
          /\ IF q.id = pending THEN q.expected = seen ELSE q.expected < seen
      BY <1>1, <2>2 DEF LeaseInv, LeaseTypes, LeaseRequest, OldRenewals
    <3> QED BY <1>1, <1>2, <3>1
  <2> QED BY <1>7, <2>1, <2>2
<1>12. Lease!ExecutionWithinGrant' BY <1>1 DEF LeaseInv, Lease!ExecutionWithinGrant
<1>13. Lease!GenerationsInStep'
  <2>1. pending = NULL => version = seen BY <1>1 DEF LeaseInv, Lease!GenerationsInStep
  <2>2. pending # NULL => pending' = pending BY <1>1
  <2> QED BY <1>1, <2>1, <2>2 DEF LeaseInv, Lease!GenerationsInStep
<1> QED BY <1>8, <1>9, <1>10, <1>11, <1>12, <1>13 DEF LeaseInv

(* The handler's window is counted from before the first Start request      *)
(* (processMessage).                                                        *)
LEMMA StartedKeeps == ASSUME LeaseInv, Lease!Started PROVE LeaseInv'
<1>1. /\ phase = "start" /\ Answered /\ call' = NULL
      /\ UNCHANGED Lease!server /\ UNCHANGED <<net, authLeft, startAge, pending, nextId, seen>>
  BY DEF Lease!Started, Answered, Lease!Over
<1>2. UNCHANGED <<att, leaseLeft, timeoutLeft, version, lastId>> BY <1>1 DEF Lease!server
<1>3. PICK window : window = Lease!executionBudget(call.answer.remaining) - startAge OBVIOUS
<1>4. CASE authLeft = 0 \/ window <= 0
  <2>1. phase' = "over" /\ execLeft' = execLeft BY <1>3, <1>4 DEF Lease!Started, Lease!Over
  <2> QED BY <1>1, <2>1, WaitEndsKeeps
<1>5. CASE ~(authLeft = 0 \/ window <= 0)
  <2>1. phase' = "run" /\ execLeft' = window BY <1>3, <1>5 DEF Lease!Started
  <2>2. /\ att # "LEASED" /\ timeoutLeft # NULL /\ timeoutLeft \in Nat /\ startAge \in Nat
        /\ call.answer.remaining \in Nat /\ call.answer.remaining - startAge <= timeoutLeft
    BY <1>1, AuthorityAssumption DEF LeaseInv, LeaseTypes, AnswersAge, Lease!LeaseAssumption
  <2>3. window \in Nat /\ window <= timeoutLeft BY <1>3, <1>5, <2>2, MarginLemma
  <2>4. LeaseTypes' BY <1>1, <1>2, <2>1, <2>3 DEF LeaseInv, LeaseTypes
  <2>5. LeaseProtocol' BY <1>1, <1>2, <2>1, <2>2 DEF LeaseInv, LeaseProtocol
  <2>6. AnswersAge' BY <1>1 DEF AnswersAge, Answered
  <2>7. OldRenewals' BY <1>1, <2>1 DEF LeaseInv, OldRenewals
  <2>8. (Lease!ExecutionWithinGrant /\ Lease!GenerationsInStep)'
    BY <1>1, <1>2, <2>1, <2>3 DEF LeaseInv, Lease!ExecutionWithinGrant, Lease!GenerationsInStep
  <2> QED BY <2>4, <2>5, <2>6, <2>7, <2>8 DEF LeaseInv
<1> QED BY <1>4, <1>5

(* A renewed window is counted from before its request, and the generation  *)
(* that was answered is the server's (startRenewal).                        *)
LEMMA RenewedKeeps == ASSUME LeaseInv, Lease!Renewed PROVE LeaseInv'
<1> USE AuthorityAssumption DEF Lease!LeaseAssumption
<1>1. /\ phase = "run" /\ Answered /\ call' = NULL
      /\ UNCHANGED Lease!server /\ UNCHANGED <<net, execLeft, startAge, nextId>>
  BY DEF Lease!Renewed, Answered, Lease!Over
<1>2. UNCHANGED <<att, leaseLeft, timeoutLeft, version, lastId>> BY <1>1 DEF Lease!server
<1>3. PICK window : window = Lease!executionBudget(call.answer.remaining) - call.age OBVIOUS
<1>4. CASE authLeft = 0 \/ window <= 0
  <2>1. phase' = "over" /\ UNCHANGED <<authLeft, pending, seen>>
    BY <1>3, <1>4 DEF Lease!Renewed, Lease!Over
  <2> QED BY <1>1, <2>1, WaitEndsKeeps, ZenonT(30)
<1>5. CASE ~(authLeft = 0 \/ window <= 0)
  <2>1. phase' = phase /\ authLeft' = window /\ seen' = call.answer.version /\ pending' = NULL
    BY <1>3, <1>5 DEF Lease!Renewed
  <2>2. /\ call.answer.remaining \in Nat /\ call.answer.remaining - call.age <= leaseLeft
        /\ call.answer.version = seen + 1 /\ version = seen + 1 /\ seen \in Nat
    BY <1>1 DEF LeaseInv, LeaseTypes, AnswersAge
  <2>3. call.age \in Nat /\ leaseLeft \in Nat
    BY <1>1 DEF LeaseInv, LeaseTypes, LeaseCall, Answered
  <2>4. window \in Nat /\ window <= leaseLeft BY <1>3, <1>5, <2>2, <2>3, MarginLemma
  <2>5. LeaseTypes' BY <1>1, <1>2, <2>1, <2>2, <2>4 DEF LeaseInv, LeaseTypes
  <2>6. LeaseProtocol' BY <1>1, <1>2, <2>1 DEF LeaseInv, LeaseProtocol
  <2>7. AnswersAge' BY <1>1 DEF AnswersAge, Answered
  <2>8. OldRenewals'
    <3> SUFFICES ASSUME NEW q \in net, q.kind = "renew"
                 PROVE  q.id <= nextId /\ q.id # NULL /\ q.expected < seen + 1
      BY <1>1, <2>1, <2>2 DEF OldRenewals
    <3>1. q.id \in Nat /\ q.expected \in Nat BY DEF LeaseInv, LeaseTypes, LeaseRequest
    <3> QED BY <1>1, <2>2, <3>1 DEF LeaseInv, OldRenewals
  <2>9. (Lease!ExecutionWithinGrant /\ Lease!GenerationsInStep)'
    BY <1>1, <1>2, <2>1, <2>2, <2>4
       DEF LeaseInv, Lease!ExecutionWithinGrant, Lease!GenerationsInStep
  <2> QED BY <2>5, <2>6, <2>7, <2>8, <2>9 DEF LeaseInv
<1> QED BY <1>4, <1>5

(* A refusal, an error and an end of the execution only end a wait.         *)
LEMMA LeaseAbandonKeeps ==
    ASSUME LeaseInv,
           Lease!StartRefused \/ Lease!RenewRefused \/ Lease!CallFails \/ Lease!ExecutionEnds
    PROVE  LeaseInv'
<1>1. /\ call' = NULL /\ (phase' = phase \/ phase' = "over")
      /\ UNCHANGED Lease!server
      /\ UNCHANGED <<net, authLeft, execLeft, startAge, pending, nextId, seen>>
  BY DEF Lease!StartRefused, Lease!RenewRefused, Lease!CallFails, Lease!ExecutionEnds,
     Lease!Over
<1> QED BY <1>1, WaitEndsKeeps

(* Time takes from the worker what it takes from the server.                *)
LEMMA LeaseTickKeeps == ASSUME LeaseInv, Lease!Tick PROVE LeaseInv'
<1> USE AuthorityAssumption DEF Lease!LeaseAssumption
<1>1. /\ leaseLeft' = Lease!Down(leaseLeft)
      /\ timeoutLeft' = IF timeoutLeft = NULL THEN NULL ELSE Lease!Down(timeoutLeft)
      /\ authLeft' = Lease!Down(authLeft) /\ execLeft' = Lease!Down(execLeft)
      /\ startAge' = Lease!Up(startAge, Timeout)
      /\ call' = IF call = NULL THEN NULL
                 ELSE [call EXCEPT !.age = Lease!Up(call.age, LeaseDuration)]
      /\ UNCHANGED <<att, version, lastId, net, phase, pending, nextId, seen>>
  BY DEF Lease!Tick
<1>2. /\ leaseLeft \in 0 .. LeaseDuration /\ timeoutLeft \in (0 .. Timeout) \cup {NULL}
      /\ authLeft \in Nat /\ execLeft \in Nat /\ startAge \in 0 .. Timeout
  BY DEF LeaseInv, LeaseTypes
<1>3. /\ leaseLeft' \in 0 .. LeaseDuration /\ timeoutLeft' \in (0 .. Timeout) \cup {NULL}
      /\ authLeft' \in Nat /\ execLeft' \in Nat /\ startAge' \in 0 .. Timeout
  BY <1>1, <1>2 DEF Lease!Down, Lease!Up
<1>4. ASSUME call # NULL
      PROVE  /\ call' \in LeaseCall
             /\ call'.req = call.req /\ call'.answer = call.answer
             /\ call.age \in 0 .. LeaseDuration
             /\ call'.age = Lease!Up(call.age, LeaseDuration)
  <2>1. call \in LeaseCall BY <1>4 DEF LeaseInv, LeaseTypes
  <2>2. call.age \in 0 .. LeaseDuration BY <2>1 DEF LeaseCall
  <2>3. PICK n : n = Lease!Up(call.age, LeaseDuration) OBVIOUS
  <2>4. n \in 0 .. LeaseDuration BY <2>2, <2>3 DEF Lease!Up
  <2>5. PICK x : x = [call EXCEPT !.age = n] BY Zenon
  <2>6. x \in LeaseCall BY <2>1, <2>4, <2>5 DEF LeaseCall
  <2>7. x.req = call.req /\ x.answer = call.answer /\ x.age = n BY <2>1, <2>5 DEF LeaseCall
  <2>8. call' = x BY <1>1, <1>4, <2>3, <2>5
  <2> QED BY <2>2, <2>3, <2>6, <2>7, <2>8
<1>5. LeaseTypes' BY <1>1, <1>3, <1>4 DEF LeaseInv, LeaseTypes
<1>6. LeaseProtocol'
  <2>1. timeoutLeft # NULL => timeoutLeft' # NULL BY <1>1, <1>2 DEF Lease!Down
  <2> QED BY <1>1, <1>4, <2>1 DEF LeaseInv, LeaseProtocol
<1>7. AnswersAge'
  <2> SUFFICES ASSUME Answered' PROVE AnswersAge' BY DEF AnswersAge
  <2>1. Answered /\ call # NULL /\ call'.answer = call.answer BY <1>1, <1>4 DEF Answered
  <2>2. CASE phase = "start"
    <3>1. /\ att # "LEASED" /\ timeoutLeft # NULL
          /\ call.answer.remaining \in 0 .. Timeout
          /\ call.answer.remaining - startAge <= timeoutLeft
      BY <2>1, <2>2 DEF LeaseInv, AnswersAge
    <3>2. timeoutLeft' # NULL /\ call.answer.remaining - startAge' <= timeoutLeft'
      BY <1>1, <1>2, <3>1 DEF Lease!Down, Lease!Up
    <3> QED BY <1>1, <2>1, <2>2, <3>1, <3>2, ZenonT(30) DEF AnswersAge
  <2>3. CASE phase = "run"
    <3>1. /\ call.answer.remaining \in 0 .. LeaseDuration
          /\ call.answer.remaining - call.age <= leaseLeft
          /\ call.answer.version = seen + 1 /\ version = seen + 1
      BY <2>1, <2>3 DEF LeaseInv, AnswersAge
    <3>2. call.answer.remaining - call'.age <= leaseLeft'
      BY <1>1, <1>2, <1>4, <2>1, <3>1 DEF Lease!Down, Lease!Up
    <3> QED BY <1>1, <2>1, <2>3, <3>1, <3>2 DEF AnswersAge
  <2> QED BY <1>1, <2>2, <2>3, ZenonT(30) DEF AnswersAge
<1>8. OldRenewals' BY <1>1 DEF LeaseInv, OldRenewals
<1>9. Lease!ExecutionWithinGrant'
  <2>1. phase # "over" => authLeft' <= leaseLeft'
    BY <1>1, <1>2 DEF LeaseInv, Lease!ExecutionWithinGrant, Lease!Down
  <2>2. phase = "run" => execLeft' <= timeoutLeft'
    <3> SUFFICES ASSUME phase = "run" PROVE execLeft' <= timeoutLeft' OBVIOUS
    <3>1. timeoutLeft # NULL /\ execLeft <= timeoutLeft
      BY DEF LeaseInv, LeaseProtocol, Lease!ExecutionWithinGrant
    <3> QED BY <1>1, <1>2, <3>1 DEF Lease!Down
  <2> QED BY <1>1, <2>1, <2>2 DEF Lease!ExecutionWithinGrant
<1>10. Lease!GenerationsInStep' BY <1>1 DEF LeaseInv, Lease!GenerationsInStep
<1> QED BY <1>5, <1>6, <1>7, <1>8, <1>9, <1>10 DEF LeaseInv

(* No step of worker, network, control plane or clock breaks the agreement. *)
LEMMA LeaseKeeps == ASSUME LeaseInv, [Lease!Next]_(Lease!vars) PROVE LeaseInv'
<1>1. CASE UNCHANGED Lease!vars
  <2>1. /\ UNCHANGED <<att, leaseLeft, timeoutLeft, version, lastId, net>>
        /\ UNCHANGED <<phase, authLeft, execLeft, startAge, call, pending, nextId, seen>>
    BY <1>1 DEF Lease!vars, Lease!server, Lease!worker
  <2>2. LeaseTypes' BY <2>1, ZenonT(30) DEF LeaseInv, LeaseTypes
  <2>3. LeaseProtocol' BY <2>1, ZenonT(30) DEF LeaseInv, LeaseProtocol
  <2>4. AnswersAge' BY <2>1 DEF LeaseInv, AnswersAge, Answered
  <2>5. OldRenewals' BY <2>1 DEF LeaseInv, OldRenewals
  <2>6. (Lease!ExecutionWithinGrant /\ Lease!GenerationsInStep)'
    BY <2>1 DEF LeaseInv, Lease!ExecutionWithinGrant, Lease!GenerationsInStep
  <2> QED BY <2>2, <2>3, <2>4, <2>5, <2>6 DEF LeaseInv
<1>2. ASSUME NEW r \in net, Lease!ServeStart(r) PROVE LeaseInv' BY <1>2, ServeStartKeeps
<1>3. ASSUME NEW r \in net, Lease!ServeRenew(r) PROVE LeaseInv' BY <1>3, ServeRenewKeeps
<1>4. CASE (\E r \in net : Lease!Lose(r)) \/ Lease!Refuse \/ Lease!Reconcile
  BY <1>4, LeaseEndsKeep
<1>5. CASE Lease!SendStart BY <1>5, SendStartKeeps
<1>6. CASE Lease!Started BY <1>6, StartedKeeps
<1>7. CASE Lease!Renew BY <1>7, RenewKeeps
<1>8. CASE Lease!Renewed BY <1>8, RenewedKeeps
<1>9. CASE Lease!StartRefused \/ Lease!RenewRefused \/ Lease!CallFails \/ Lease!ExecutionEnds
  BY <1>9, LeaseAbandonKeeps
<1>10. CASE Lease!Tick BY <1>10, LeaseTickKeeps
<1> QED BY <1>1, <1>2, <1>3, <1>4, <1>5, <1>6, <1>7, <1>8, <1>9, <1>10 DEF Lease!Next

(* The invariant says what was promised of a lease.                         *)
LEMMA LeasePromises == ASSUME LeaseInv PROVE Lease!LeaseIsAgreed
BY DEF LeaseInv, LeaseProtocol, Lease!LeaseIsAgreed, Lease!UnstartedNeverRenewed

------------------------------------------------------------------------------
(* The lease as a part of the worker                                        *)

PartInv == part = "lease" => LeaseInv

(* The authority begins as its invariant requires and keeps it.             *)
LEMMA LeaseInvariant == LeaseSpec => []PartInv
<1>1. LeaseInit => PartInv BY LeaseStarts DEF LeaseInit, PartInv
<1>2. ASSUME PartInv, [LeaseNext]_leaseVars PROVE PartInv'
  <2>1. CASE LeaseNext BY <1>2, <2>1, LeaseKeeps DEF LeaseNext, PartInv
  <2>2. CASE UNCHANGED leaseVars
    <3>1. UNCHANGED Lease!vars
      BY <2>2 DEF leaseVars, ofLease, Lease!vars, Lease!server, Lease!worker
    <3> QED BY <1>2, <2>2, <3>1, LeaseKeeps DEF PartInv, leaseVars
  <2> QED BY <1>2, <2>1, <2>2
<1> QED BY <1>1, <1>2, PTL DEF LeaseSpec

(* However slow, lost or repeated the round trips are, and whatever the     *)
(* durations, the worker takes no more than it was granted and stays within *)
(* one generation of the server (Client.Claim, startRenewal, RenewLease).   *)
THEOREM TheLeaseStaysAgreed == LeaseSpec => []LeaseIsAgreed
<1>1. PartInv => LeaseIsAgreed BY LeasePromises DEF PartInv, LeaseIsAgreed
<1> QED BY <1>1, LeaseInvariant, PTL
==============================================================================
