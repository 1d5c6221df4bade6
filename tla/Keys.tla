-------------------------------- MODULE Keys --------------------------------
(***************************************************************************)
(* The two credential stores and the HTTP code in front of them: API keys  *)
(* (internal/auth, internal/api/auth.go, auth_handlers.go) and worker keys *)
(* (internal/workerauth, internal/api/worker_auth.go,                      *)
(* worker_key_handlers.go).  The two packages hold the same code over two  *)
(* tables, so the steps take the kind of key as a parameter, and each      *)
(* package has actions of its own.                                         *)
(*                                                                         *)
(* A request runs as several database statements, and requests interleave  *)
(* between them: minting may insert twice, revoking updates and then reads *)
(* back, and authentication probes some time after the request arrived.    *)
(* A statement whose deadline passes answers 503, and the write may have   *)
(* been committed all the same.                                            *)
(*                                                                         *)
(* A generated secret is a fresh number (256 random bits); a lookup prefix *)
(* is any member of Prefixes, so that collisions happen.  Key ids are the  *)
(* positions of rows, in the order of their insertion.                     *)
(***************************************************************************)
EXTENDS Naturals, Sequences, FiniteSets, TLC

CONSTANTS
    Requests,           \* concurrent HTTP requests
    Prefixes,           \* lookup segments the randomness source can produce
    Scopes,             \* tenants
    MaxKeys,            \* bound: rows of the two tables together
    MaxBoth,            \* the same bound on a server that has both
    MaxClock,           \* bound: the database clock
    DefaultListLimit,   \* the page size of a listing that names none
    MaxListLimit,       \* the largest page size
    NULL

Kinds == {"api", "worker"}

VARIABLES
    keys,       \* the tables api_keys and worker_keys
    clock,      \* the database's now()
    wired,      \* the stores the server was given (WithAuth, WithWorkerAuth)
    delivered,  \* credentials a 201 carried to a caller
    replies,    \* what revocation told its callers
    req         \* the requests in flight

vars == <<keys, clock, wired, delivered, replies, req>>

Revoked(row) == row.revoked # NULL

Idle == [pc |-> "idle", kind |-> NULL, id |-> 0, scope |-> NULL,
         prefix |-> NULL, secret |-> 0, stale |-> FALSE, wronged |-> FALSE,
         try |-> 0]

Room == IF wired = Kinds THEN MaxBoth ELSE MaxKeys

Live(kind, k) == k \in DOMAIN keys[kind] /\ ~Revoked(keys[kind][k])

(* A request is answered and leaves.  "wronged" remembers a refusal whose   *)
(* credential was in truth that of a live key.                              *)
Answer(r, code) ==
    LET q == req[r]
    IN req' = [req EXCEPT ![r] =
          [Idle EXCEPT !.wronged =
              /\ code = 401
              /\ \E k \in DOMAIN keys[q.kind] : /\ Live(q.kind, k)
                                                /\ keys[q.kind][k].prefix = q.prefix
                                                /\ keys[q.kind][k].secret = q.secret]]

(* A new request answered before it touched the database, or after a read. *)
Reject(r, code) == req[r].pc = "idle" /\ UNCHANGED req

Arrive(r, kind, fields) ==
    /\ req[r].pc = "idle"
    /\ req' = [req EXCEPT ![r] = fields @@ [Idle EXCEPT !.kind = kind]]

------------------------------------------------------------------------------
(* Key material and its checks.                                             *)

(* A field of a request body: what it says, and whether it is padded with   *)
(* blanks or unfit (too long, or with a control character in it).           *)
Written(texts) == [text : texts, form : {"plain", "padded", "unfit"}]
                    \cup {[text |-> NULL, form |-> "padded"]}

TrimSpace(f) == IF f.form = "padded" THEN [f EXCEPT !.form = "plain"] ELSE f

isPrintableWithin(f) == f.form = "plain" /\ f.text # NULL

workerIsPrintableWithin(f) == isPrintableWithin(f)

validateKeyRequest(scope, name) ==
    isPrintableWithin(scope) /\ isPrintableWithin(name)

workerValidateKeyRequest(scope, name) ==
    workerIsPrintableWithin(scope) /\ workerIsPrintableWithin(name)

(* Fresh key material: any prefix, and a secret no row has.  What a try     *)
(* that stores nothing generated is never seen again.                       *)
GenerateMaterial ==
    [prefix : Prefixes, secret : {Len(keys["api"]) + Len(keys["worker"]) + 1}]

(* What a caller can send in an Authorization header: nothing usable, a     *)
(* bearer value that is not shaped like a key, or a well-formed key.  The   *)
(* secrets callers know are the delivered ones; 0 is a wrong one.           *)
Presentations ==
    [header : {"absent", "malformed"}, prefix : {NULL}, secret : {0}]
      \cup [header : {"key"}, prefix : Prefixes,
            secret : {0} \cup {d.secret : d \in delivered}]

bearerCredential(p) == p.header # "absent"

ParseKey(p) == p.header = "key"

VerifySecret(row, secret) == row.secret = secret

isPrefixCollision(kind, prefix) ==
    \E k \in DOMAIN keys[kind] : keys[kind][k].prefix = prefix

------------------------------------------------------------------------------
(* Minting.  Neither handler has a request identity: every call mints.      *)

\* body: whether the request is valid, and its scope.
Create(r, kind, body) ==
    IF body[1]
      THEN Arrive(r, kind, [pc |-> "insert", scope |-> body[2], try |-> 1])
      ELSE Reject(r, 422)

handleCreateAPIKey(r) ==
    /\ "api" \in wired
    /\ \/ Reject(r, 400)      \* not the JSON asked for
       \/ \E body \in {<<validateKeyRequest(TrimSpace(scope), TrimSpace(name)), scope.text>> :
                          scope \in Written(Scopes), name \in Written({"name"})} :
            Create(r, "api", body)
    /\ UNCHANGED <<keys, clock, wired, delivered, replies>>

handleCreateWorkerKey(r) ==
    /\ "worker" \in wired
    /\ \/ Reject(r, 400)
       \/ \E body \in {<<workerValidateKeyRequest(TrimSpace(scope), TrimSpace(name)), scope.text>> :
                          scope \in Written(Scopes), name \in Written({"name"})} :
            Create(r, "worker", body)
    /\ UNCHANGED <<keys, clock, wired, delivered, replies>>

Row(r, material) ==
    [scope |-> req[r].scope, prefix |-> material.prefix,
     secret |-> material.secret, revoked |-> NULL]

(* INSERT ... RETURNING: the row and the response that carries its secret.  *)
InsertCommits(r, kind, material) ==
    /\ ~isPrefixCollision(kind, material.prefix)
    /\ Len(keys["api"]) + Len(keys["worker"]) < Room
    /\ keys' = [keys EXCEPT ![kind] = Append(@, Row(r, material))]
    /\ \/ /\ delivered' = delivered \cup
                {[kind |-> kind, prefix |-> material.prefix, secret |-> material.secret]}
          /\ Answer(r, 201)
       \/ /\ Answer(r, 503)            \* committed, but the deadline passed first
          /\ UNCHANGED delivered

(* The unique index on prefix refuses the row: one more try, then give up.  *)
InsertCollides(r, kind, material) ==
    /\ isPrefixCollision(kind, material.prefix)
    /\ IF req[r].try < 2
         THEN req' = [req EXCEPT ![r].try = @ + 1]
         ELSE Answer(r, 500)                             \* ErrPrefixExhausted
    /\ UNCHANGED <<keys, delivered>>

(* An error of the database is a 500, and a 503 when the deadline passed.   *)
InsertFails(r) ==
    /\ Answer(r, 503)
    /\ UNCHANGED <<keys, delivered>>

Try(r, kind) ==
    /\ req[r].pc = "insert"
    /\ req[r].kind = kind
    /\ \E material \in GenerateMaterial :
          \/ InsertCommits(r, kind, material)
          \/ InsertCollides(r, kind, material)
          \/ InsertFails(r)
    /\ UNCHANGED <<clock, wired, replies>>

authCreate(r) == Try(r, "api")

workerauthCreate(r) == Try(r, "worker")

------------------------------------------------------------------------------
(* Revoking: a conditional UPDATE, and a read when it changed nothing.      *)

(* The ids a caller can name: those of keys that exist, and an unknown one, *)
(* which no later key gets (ids are random UUIDs).                          *)
Named(kind) == DOMAIN keys[kind] \cup {MaxKeys + 1}

handleRevokeAPIKey(r) ==
    /\ "api" \in wired
    /\ \/ Reject(r, 422)            \* not a UUID
       \/ \E k \in Named("api") : Arrive(r, "api", [pc |-> "update", id |-> k])
    /\ UNCHANGED <<keys, clock, wired, delivered, replies>>

handleRevokeWorkerKey(r) ==
    /\ "worker" \in wired
    /\ \/ Reject(r, 422)
       \/ \E k \in Named("worker") : Arrive(r, "worker", [pc |-> "update", id |-> k])
    /\ UNCHANGED <<keys, clock, wired, delivered, replies>>

Report(r, at, already) ==
    /\ replies' = replies \cup
          {[kind |-> req[r].kind, id |-> req[r].id, at |-> at, already |-> already]}
    /\ Answer(r, 200)

DatabaseFails(r) ==
    /\ Answer(r, 503)
    /\ UNCHANGED <<keys, replies>>

Stamp(r, kind) ==
    /\ keys' = [keys EXCEPT ![kind][req[r].id].revoked = clock]
    /\ \/ Report(r, clock, FALSE)
       \/ Answer(r, 503) /\ UNCHANGED replies

(* UPDATE ... WHERE id = $1 AND revoked_at IS NULL. *)
RevokeUpdate(r, kind) ==
    /\ req[r].pc = "update"
    /\ req[r].kind = kind
    /\ \/ Live(kind, req[r].id) /\ Stamp(r, kind)
       \/ /\ ~Live(kind, req[r].id)
          /\ req' = [req EXCEPT ![r].pc = "get"]
          /\ UNCHANGED <<keys, replies>>
       \/ DatabaseFails(r)
    /\ UNCHANGED <<clock, wired, delivered>>

(* Seeded fault: the update checks only that the key exists.                *)
RevokeUnconditionally(r) ==
    /\ req[r].pc = "update"
    /\ req[r].kind = "worker"
    /\ IF req[r].id \in DOMAIN keys["worker"] THEN Stamp(r, "worker") ELSE DatabaseFails(r)
    /\ UNCHANGED <<clock, wired, delivered>>

authRevoke(r) == RevokeUpdate(r, "api")

workerauthRevoke(r) == RevokeUpdate(r, "worker")

(* Zero rows updated: only a read tells an unknown key from a revoked one.  *)
RevokeRead(r, kind) ==
    /\ req[r].pc = "get"
    /\ req[r].kind = kind
    /\ \/ /\ req[r].id \in DOMAIN keys[kind]
          /\ Report(r, keys[kind][req[r].id].revoked, TRUE)
          /\ UNCHANGED keys
       \/ /\ req[r].id \notin DOMAIN keys[kind]
          /\ Answer(r, 404)
          /\ UNCHANGED <<keys, replies>>
       \/ DatabaseFails(r)
    /\ UNCHANGED <<clock, wired, delivered>>

authGet(r) == RevokeRead(r, "api")

workerauthGet(r) == RevokeRead(r, "worker")

------------------------------------------------------------------------------
(* Listing: one bounded page of metadata, newest first, revoked included.   *)

(* Raw limits: absent (0), or the number the query string carries; the      *)
(* handler refuses one that is not in 1..MaxListLimit.                      *)
Limit(raw) == IF raw = 0 THEN DefaultListLimit ELSE raw

Clamp(limit) == IF limit > MaxListLimit THEN MaxListLimit ELSE limit

(* ORDER BY created_at DESC, id DESC LIMIT limit.                           *)
Page(kind, limit) ==
    LET n == Len(keys[kind])
        size == IF n < limit THEN n ELSE limit
    IN [i \in 1..size |-> n + 1 - i]

authList(limit) == Page("api", Clamp(limit))

workerauthList(limit) == Page("worker", Clamp(limit))

(* A listing reads one page and writes nothing, whatever it answers. *)
handleListAPIKeys(r) ==
    /\ "api" \in wired
    /\ Reject(r, 200)
    /\ UNCHANGED <<keys, clock, wired, delivered, replies>>

handleListWorkerKeys(r) ==
    /\ "worker" \in wired
    /\ Reject(r, 200)
    /\ UNCHANGED <<keys, clock, wired, delivered, replies>>

------------------------------------------------------------------------------
(* Authentication.  The request arrives and is probed later; "stale" is     *)
(* whether its key had already been revoked when it arrived.                *)

Matching(kind, p) ==
    {k \in DOMAIN keys[kind] : keys[kind][k].prefix = p.prefix}

Present(r, kind, p) ==
    IF kind \in wired /\ bearerCredential(p) /\ ParseKey(p)
      THEN Arrive(r, kind,
             [pc |-> "probe", prefix |-> p.prefix, secret |-> p.secret,
              stale |-> \E k \in Matching(kind, p) : Revoked(keys[kind][k])])
      ELSE Reject(r, 401)

requireAPIKey(r) ==
    /\ \E p \in Presentations : Present(r, "api", p)
    /\ UNCHANGED <<keys, clock, wired, delivered, replies>>

requireWorkerKey(r) ==
    /\ \E p \in Presentations : Present(r, "worker", p)
    /\ UNCHANGED <<keys, clock, wired, delivered, replies>>

(* The handler runs with the key's scope in its context, until Finish. *)
Serve(r, kind, k) ==
    req' = [req EXCEPT ![r].pc = "serving", ![r].id = k,
                       ![r].scope = keys[kind][k].scope]

(* One probe on the prefix, then the secret, then revocation. *)
Probe(r, kind) ==
    LET found == Matching(kind, req[r])
    IN /\ req[r].pc = "probe"
       /\ req[r].kind = kind
       /\ \/ \E k \in found :
               /\ VerifySecret(keys[kind][k], req[r].secret)
               /\ ~Revoked(keys[kind][k])
               /\ Serve(r, kind, k)
          \/ /\ \A k \in found : \/ ~VerifySecret(keys[kind][k], req[r].secret)
                                 \/ Revoked(keys[kind][k])
             /\ Answer(r, 401)
          \/ Answer(r, 503)
       /\ UNCHANGED <<keys, clock, wired, delivered, replies>>

authAuthenticate(r) == Probe(r, "api")

workerauthAuthenticate(r) == Probe(r, "worker")

Finish(r) ==
    /\ req[r].pc = "serving"
    /\ req' = [req EXCEPT ![r] = Idle]
    /\ UNCHANGED <<keys, clock, wired, delivered, replies>>

Tick ==
    /\ clock < MaxClock
    /\ clock' = clock + 1
    /\ UNCHANGED <<keys, wired, delivered, replies, req>>

------------------------------------------------------------------------------
Init ==
    /\ keys = [kind \in Kinds |-> <<>>]
    /\ clock = 0
    /\ wired \in SUBSET Kinds
    /\ delivered = {}
    /\ replies = {}
    /\ req = [r \in Requests |-> Idle]

Next ==
    \/ Tick
    \/ \E r \in Requests :
          \/ handleCreateAPIKey(r) \/ authCreate(r)
          \/ handleRevokeAPIKey(r) \/ authRevoke(r) \/ authGet(r)
          \/ handleListAPIKeys(r)
          \/ requireAPIKey(r) \/ authAuthenticate(r)
          \/ handleCreateWorkerKey(r) \/ workerauthCreate(r)
          \/ handleRevokeWorkerKey(r) \/ workerauthRevoke(r) \/ workerauthGet(r)
          \/ handleListWorkerKeys(r)
          \/ requireWorkerKey(r) \/ workerauthAuthenticate(r)
          \/ Finish(r)

------------------------------------------------------------------------------
(* Every caller told that a key is revoked is told the one instant the row  *)
(* carries for good, and at most one of them is told that its own call did  *)
(* it, however many revocations of a key run at once (Store.Revoke: the     *)
(* UPDATE is conditional, and the loser reads the winner's instant back).   *)
RevokersAgree ==
    \A a \in replies :
        /\ keys[a.kind][a.id].revoked = a.at
        /\ \A b \in replies :
              (a.kind = b.kind /\ a.id = b.id /\ ~a.already /\ ~b.already) => a = b

Spec == Init /\ [][Next]_vars

(* A credential that a 201 handed out opens exactly one key, and its own:   *)
(* prefixes are unique in a table, and the response carries the material of *)
(* the try that was stored, not of one that collided (Store.Create).        *)
DeliveredCredentialOpensItsKey ==
    \A d \in delivered :
        \E k \in DOMAIN keys[d.kind] :
            /\ keys[d.kind][k].secret = d.secret
            /\ Matching(d.kind, d) = {k}

(* A request that arrives after its key's revocation was committed is never *)
(* served, whatever else runs in between.                                   *)
RevokedKeyIsRefused ==
    \A r \in Requests : req[r].pc = "serving" => ~req[r].stale

(* A 401 means the credential is not good: a caller holding a live key is   *)
(* never told it is unauthorized, not even when the lookup fails or runs    *)
(* out of time ("I could not tell" is a 503, requireAPIKey).                *)
RefusalMeansInvalid == \A r \in Requests : ~req[r].wronged

(* A listing shows every key, revoked or not, unless the page is full, and  *)
(* then the newest ones: an operator told that a mint's outcome is unknown  *)
(* finds the key there (handleCreateAPIKey's 503, Store.List).              *)
ListingHidesNothing ==
    \A kind \in Kinds, raw \in 0..MaxListLimit :
        LET limit == Limit(raw)
            page == IF kind = "api" THEN authList(limit) ELSE workerauthList(limit)
            listed == {page[i] : i \in DOMAIN page}
        IN \A k \in DOMAIN keys[kind] :
             \/ k \in listed
             \/ Cardinality(listed) = limit /\ \A l \in listed : l > k

(* Every answer about a key is true of the table: what was minted opens its *)
(* key, what was revoked is refused and nothing else is, and a listing and  *)
(* the revokers say what is there (internal/auth, internal/workerauth).     *)
KeyAnswersAreTrue ==
    /\ DeliveredCredentialOpensItsKey
    /\ RevokersAgree
    /\ RevokedKeyIsRefused
    /\ RefusalMeansInvalid
    /\ ListingHidesNothing
==============================================================================
