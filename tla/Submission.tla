------------------------------ MODULE Submission ------------------------------
(***************************************************************************)
(* What POST /v1/jobs makes of a request: validation, normalisation, the   *)
(* canonical payload, the fingerprint, and the answer a repeat under the   *)
(* same Idempotency-Key gets.                                              *)
(*                                                                         *)
(* A client edits a request and submits it, again and again, under one     *)
(* key.  Text is a sequence of character codes: 0 is a space, 1 to 8 are   *)
(* characters the name patterns allow, 9 is one they refuse, and -1 is a   *)
(* control character.  A number or an instant is written as one code.  The *)
(* eight-byte length written before each field is one code as well, and    *)
(* nothing keeps it apart from the codes of text but its position.         *)
(***************************************************************************)
EXTENDS Integers, Sequences, FiniteSets, SequencesExt

CONSTANTS
    Queues,                \* the provisioned queues
    Values,                \* field -> the values a client may send
    Keys,                  \* the Idempotency-Keys it may send
    Base,                  \* the request it starts from
    MaxIdempotencyKeyLen, MaxCapabilities,
    MaxEdits,              \* bound on the edits of a behaviour
    Absent                 \* an omitted or null field

DefaultPriority == 50
DefaultMaxAttempts == 3
DefaultTimeoutSeconds == 300

VARIABLES
    request,    \* the request the client would send now, as it spells it
    key,        \* and its Idempotency-Key
    ledger,     \* key -> the fingerprint recorded for it, and the request that did
    answer,     \* the last response
    edits

vars == <<request, key, ledger, answer, edits>>

------------------------------------------------------------------------------
(* Text.                                                                    *)

TrimSpace(s) ==
    LET kept == {i \in DOMAIN s : s[i] # 0}
    IN IF kept = {} THEN <<>>
       ELSE SubSeq(s, CHOOSE i \in kept : \A j \in kept : i <= j,
                      CHOOSE i \in kept : \A j \in kept : i >= j)

NamePattern(s) == s # <<>> /\ \A i \in DOMAIN s : s[i] \in 1..8

Before(s, t) ==
    \/ Len(s) < Len(t) /\ s = SubSeq(t, 1, Len(s))
    \/ \E i \in DOMAIN s \cap DOMAIN t :
          s[i] < t[i] /\ SubSeq(s, 1, i - 1) = SubSeq(t, 1, i - 1)

------------------------------------------------------------------------------
(* Canonical JSON: members in key order; of a key that is written twice the *)
(* decoder keeps the last; a number keeps its spelling.                     *)

(* Seeded fault: the members stay in the order they were written. *)
CanonicalJSONUnsorted(p) == FlattenSeq(p.members)

CanonicalJSON(p) ==
    LET names == {p.members[i][1] : i \in DOMAIN p.members}
        last(n) == CHOOSE i \in DOMAIN p.members :
                      p.members[i][1] = n /\ \A j \in DOMAIN p.members :
                                                p.members[j][1] = n => j <= i
    IN FlattenSeq([k \in 1..Cardinality(names) |->
                     p.members[last(SetToSortSeq(names, <)[k])]])

(* The payload is one JSON value of a decoded body, so nothing trails it. *)
PayloadError(p) == p = Absent \/ p.top # "object"

------------------------------------------------------------------------------
(* Normalize.                                                               *)

normalizeCapabilities(in) ==
    LET out == [i \in DOMAIN in |-> TrimSpace(in[i])]
    IN IF Len(in) > MaxCapabilities THEN [bad |-> TRUE, caps |-> <<>>]
       ELSE [bad |-> \E i \in DOMAIN out : ~NamePattern(out[i]),
             caps |-> SetToSortSeq({c \in ToSet(out) : NamePattern(c)}, Before)]

OrDefault(v, default) == IF v = Absent THEN default ELSE v

(* Every field that is wrong, not the first. *)
FieldErrors(r) ==
    (IF NamePattern(TrimSpace(r.queue)) THEN {} ELSE {"queue"})
    \cup (IF NamePattern(TrimSpace(r.type)) THEN {} ELSE {"job_type"})
    \cup (IF PayloadError(r.payload) THEN {"payload"} ELSE {})
    \cup (IF OrDefault(r.priority, DefaultPriority) \in 0..100 THEN {} ELSE {"priority"})
    \cup (IF OrDefault(r.max_attempts, DefaultMaxAttempts) \in 1..100
            THEN {} ELSE {"max_attempts"})
    \cup (IF OrDefault(r.timeout_seconds, DefaultTimeoutSeconds) \in 1..86400
            THEN {} ELSE {"timeout_seconds"})
    \cup (IF r.scheduled_at = Absent \/ r.scheduled_at.parses THEN {} ELSE {"scheduled_at"})
    \cup (IF normalizeCapabilities(r.caps).bad THEN {"required_capabilities"} ELSE {})

Normalize(r) ==
    [queue |-> TrimSpace(r.queue), type |-> TrimSpace(r.type),
     payload |-> CanonicalJSON(r.payload),
     priority |-> OrDefault(r.priority, DefaultPriority),
     max_attempts |-> OrDefault(r.max_attempts, DefaultMaxAttempts),
     timeout_seconds |-> OrDefault(r.timeout_seconds, DefaultTimeoutSeconds),
     caps |-> normalizeCapabilities(r.caps).caps,
     scheduled_at |-> IF r.scheduled_at = Absent THEN Absent
                      ELSE r.scheduled_at.local - r.scheduled_at.offset]

------------------------------------------------------------------------------
(* The fingerprint: the byte stream that is hashed, SHA-256 being injective *)
(* on the streams that occur.                                               *)

write(b) == <<Len(b)>> \o b

fingerprintVersion == <<6>>

scheduledAtFingerprintTag == <<5, 5>>

Fingerprint(n) ==
    write(fingerprintVersion) \o write(n.queue) \o write(n.type) \o write(n.payload)
    \o write(<<n.priority>>) \o write(<<n.max_attempts>>) \o write(<<n.timeout_seconds>>)
    \o write(<<Len(n.caps)>>) \o FlattenSeq([i \in DOMAIN n.caps |-> write(n.caps[i])])
    \o (IF n.scheduled_at = Absent THEN <<>>
        ELSE write(scheduledAtFingerprintTag) \o write(<<n.scheduled_at>>))

ValidateIdempotencyKey(k) ==
    /\ TrimSpace(k) # <<>>
    /\ Len(k) <= MaxIdempotencyKeyLen
    /\ \A i \in DOMAIN k : k[i] # -1

------------------------------------------------------------------------------
(* The handler, and the store's decision for a key.                         *)

Answer(code, fields) == [code |-> code, fields |-> fields]

Record(k, r) ==
    ledger' = [j \in DOMAIN ledger \cup {k} |->
                 IF j = k THEN [print |-> Fingerprint(Normalize(r)), first |-> r] ELSE ledger[j]]

(* The queue must exist, whatever the key.  The job and the key's row commit *)
(* together; when the row is there already, its fingerprint decides.         *)
Submit(k, r) ==
    LET n == Normalize(r)
    IN IF n.queue \notin Queues
         THEN answer' = Answer(422, {"unknown_queue"}) /\ UNCHANGED ledger
         ELSE IF k \notin DOMAIN ledger
           THEN answer' = Answer(201, {}) /\ Record(k, r)
           ELSE /\ answer' = Answer(IF ledger[k].print = Fingerprint(n) THEN 200 ELSE 409, {})
                /\ UNCHANGED ledger

(* The body must be one JSON object of known fields, within the limit. *)
Decode(body) ==
    CASE body = "ok" -> 200 [] body = "too_large" -> 413 [] OTHER -> 400

handleSubmitJob ==
    /\ answer.code = 0
    /\ IF ~ValidateIdempotencyKey(key)
         THEN answer' = Answer(422, {"Idempotency-Key"}) /\ UNCHANGED ledger
         ELSE IF Decode(request.body) # 200
           THEN answer' = Answer(Decode(request.body), {}) /\ UNCHANGED ledger
           ELSE IF FieldErrors(request) # {}
             THEN answer' = Answer(422, FieldErrors(request)) /\ UNCHANGED ledger
             ELSE Submit(key, request)
    /\ UNCHANGED <<request, key, edits>>

(* The client changes how it spells a field, or what it asks for. *)
Edit(f, v) ==
    /\ edits < MaxEdits
    /\ request[f] # v
    /\ request' = [request EXCEPT ![f] = v]
    /\ edits' = edits + 1
    /\ answer' = Answer(0, {})
    /\ UNCHANGED <<key, ledger>>

ChangeKey(k) ==
    /\ edits < MaxEdits
    /\ k # key
    /\ key' = k
    /\ edits' = edits + 1
    /\ answer' = Answer(0, {})
    /\ UNCHANGED <<request, ledger>>

Init ==
    /\ request = Base
    /\ key = CHOOSE k \in Keys : ValidateIdempotencyKey(k)
    /\ ledger = <<>>
    /\ answer = Answer(0, {})
    /\ edits = 0

Next ==
    \/ handleSubmitJob
    \/ \E f \in DOMAIN Base : \E v \in Values[f] : Edit(f, v)
    \/ \E k \in Keys : ChangeKey(k)

Spec == Init /\ [][Next]_vars

------------------------------------------------------------------------------
(* What a request asks for, said without the code's normal form: names up   *)
(* to surrounding space, defaults filled in, capabilities as a set, the     *)
(* payload as a mapping and the schedule as an instant.                     *)

Asks(r) ==
    <<TrimSpace(r.queue), TrimSpace(r.type), OrDefault(r.priority, 50),
      OrDefault(r.max_attempts, 3), OrDefault(r.timeout_seconds, 300)>>

SameMembers(p, q) ==
    \A a, b \in {p, q} : \A i \in DOMAIN a.members :
        (\A j \in DOMAIN a.members : j > i => a.members[j][1] # a.members[i][1]) =>
            \E k \in DOMAIN b.members :
                /\ b.members[k] = a.members[i]
                /\ \A j \in DOMAIN b.members : j > k => b.members[j][1] # b.members[k][1]

SameIntent(r, s) ==
    /\ Asks(r) = Asks(s)
    /\ SameMembers(r.payload, s.payload)
    /\ {TrimSpace(c) : c \in ToSet(r.caps)} = {TrimSpace(c) : c \in ToSet(s.caps)}
    /\ (r.scheduled_at = Absent) <=> (s.scheduled_at = Absent)
    /\ r.scheduled_at # Absent =>
          r.scheduled_at.local - r.scheduled_at.offset
             = s.scheduled_at.local - s.scheduled_at.offset

(* A repeat is told apart from another request under its key by what it     *)
(* asks for: served the first job only when it asks for the same one, since *)
(* no two requests share a fingerprint because their fields run together;   *)
(* and then never a conflict, however differently it is spelled.            *)
RepeatsAreRecognised ==
    /\ answer.code = 200 => SameIntent(request, ledger[key].first)
    /\ answer.code = 409 => ~SameIntent(request, ledger[key].first)
==============================================================================
