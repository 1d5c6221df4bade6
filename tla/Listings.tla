------------------------------- MODULE Listings -------------------------------
(***************************************************************************)
(* The operator reads: GET /v1/jobs, /v1/dlq and /v1/workers page by page, *)
(* GET /v1/queues and GET /v1/jobs/{id}/attempts.                          *)
(*                                                                         *)
(* A client walks one of the paged listings while rows come and change.    *)
(* A job's created_at is the start of the transaction that inserts it, so  *)
(* a row may become visible with an instant that is already behind a       *)
(* cursor.  A handler is an operator from the rows and a request to a      *)
(* response; a read changes nothing but what the client has collected.     *)
(* Rows carry what the listings filter and order by.  Workers are ordered  *)
(* by name; their id stands for it.                                        *)
(***************************************************************************)
EXTENDS Integers, Sequences, FiniteSets, SequencesExt, FiniteSetsExt

CONSTANTS
    Ids,              \* row ids, in the order PostgreSQL compares them
    Scopes, Queues,   \* tenants, and provisioned queues
    MaxTime,          \* bound on the clock
    DefaultPageSize, MaxPageSize,
    NULL

PageAssumption ==
    DefaultPageSize \in 1..MaxPageSize /\ Ids \subseteq Nat /\ MaxTime \in Nat

AllStatuses == {"PENDING", "QUEUED", "LEASED", "RUNNING", "RETRY_WAIT", "CANCEL_REQUESTED",
                "SUCCEEDED", "CANCELED", "DEAD_LETTERED"}
Terminal == {"SUCCEEDED", "CANCELED", "DEAD_LETTERED"}
Unset == -1     \* a query parameter that is absent
Garbled == -2   \* one that is not a number
Malformed == "?"  \* a queue name that queueNamePattern refuses

VARIABLES
    now,        \* the clock
    rows,       \* the table, transactions that have not committed included
    endpoint,   \* the listing the client walks
    walk        \* what it has: filter, cursor, the rows got, and those it must get

vars == <<now, rows, endpoint, walk>>

------------------------------------------------------------------------------
(* Cursors.  A keyset cursor is an instant and an id, a worker's is a name; *)
(* each decoder refuses the other's, and what is no cursor at all.          *)

EncodeJobCursor(at, id) == [form |-> "keyset", at |-> at, id |-> id]

decodeJobCursor(c) == c.form = "keyset"

(* The dead-letter listing's token has the same shape. *)
EncodeDLQCursor(at, id) == [form |-> "keyset", at |-> at, id |-> id]

decodeDLQCursor(c) == c.form = "keyset"

EncodeWorkerCursor(id) == [form |-> "name", at |-> 0, id |-> id]

decodeWorkerCursor(c) == c.form = "name"

NoCursor == [form |-> "none", at |-> 0, id |-> 0]
BadCursor == [form |-> "garbled", at |-> 0, id |-> 0]

Newer(a, b) == rows[a].at > rows[b].at \/ (rows[a].at = rows[b].at /\ a > b)

(* Seeded fault: a cursor is an instant alone. *)
BehindInstant(c, i) ==
    \/ c = NoCursor
    \/ c.form = "keyset" /\ rows[i].at < c.at
    \/ c.form = "name" /\ i > c.id

Behind(c, i) ==
    \/ c = NoCursor
    \/ c.form = "keyset" /\ (rows[i].at < c.at \/ (rows[i].at = c.at /\ i < c.id))
    \/ c.form = "name" /\ i > c.id

Visible(scope) == {i \in Ids : rows[i].phase = "in" /\ rows[i].scope = scope}

------------------------------------------------------------------------------
(* The stores: at most limit rows, and a cursor when there is one more.     *)

Failed(why) == [err |-> why, ids |-> <<>>, next |-> NoCursor]

CursorOf(list, i) ==
    CASE list = "jobs" -> EncodeJobCursor(rows[i].at, i)
      [] list = "dlq" -> EncodeDLQCursor(rows[i].at, i)
      [] list = "workers" -> EncodeWorkerCursor(i)

(* sorted is what a query without LIMIT returns; the code asks for limit+1. *)
Page(list, sorted, limit) ==
    IF Len(sorted) > limit
      THEN [err |-> "none", ids |-> SubSeq(sorted, 1, limit), next |-> CursorOf(list, sorted[limit])]
      ELSE [err |-> "none", ids |-> sorted, next |-> NoCursor]

JobFilterValid(f) == f.status \in AllStatuses \cup {""} /\ f.queue # Malformed

Matches(f, i) ==
    /\ f.status \in {"", rows[i].status}
    /\ f.queue \in {"", rows[i].queue}

boundPage(limit) == IF limit <= 0 THEN DefaultPageSize ELSE Min({limit, MaxPageSize})

ListJobs(scope, f, c, limit) ==
    IF ~JobFilterValid(f) THEN Failed("filter")
    ELSE IF c # NoCursor /\ ~decodeJobCursor(c) THEN Failed("cursor")
    ELSE Page("jobs",
              SetToSortSeq({i \in Visible(scope) : Matches(f, i) /\ Behind(c, i)}, Newer),
              boundPage(limit))

ListDLQ(scope, c, limit) ==
    IF c # NoCursor /\ ~decodeDLQCursor(c) THEN Failed("cursor")
    ELSE Page("dlq", SetToSortSeq({i \in Visible(scope) : Behind(c, i)}, Newer),
              boundPage(limit))

ListWorkers(scope, c, limit) ==
    IF c # NoCursor /\ ~decodeWorkerCursor(c) THEN Failed("cursor")
    ELSE Page("workers", SetToSortSeq({i \in Visible(scope) : Behind(c, i)}, <),
              boundPage(limit))

------------------------------------------------------------------------------
(* The handlers.                                                            *)

Refuse(field) == [code |-> 422, field |-> field, ids |-> <<>>, next |-> NoCursor]

pageLimit(raw) == raw = Unset \/ raw \in 1..MaxPageSize

Limit(raw) == IF raw = Unset THEN DefaultPageSize ELSE raw

Answer(page, field) ==
    IF page.err = "none" THEN [code |-> 200, field |-> "", ids |-> page.ids, next |-> page.next]
    ELSE Refuse(field)

(* The field that failed, not a guess. *)
FilterField(f) == IF f.status \in AllStatuses \cup {""} THEN "queue" ELSE "status"

handleListJobs(scope, q) ==
    IF ~pageLimit(q.limit) THEN Refuse("limit")
    ELSE LET page == ListJobs(scope, q.filter, q.cursor, Limit(q.limit))
         IN Answer(page, IF page.err = "filter" THEN FilterField(q.filter) ELSE "cursor")

handleListDLQ(scope, q) ==
    IF ~(q.limit = Unset \/ q.limit \in 1..MaxPageSize) THEN Refuse("limit")
    ELSE Answer(ListDLQ(scope, q.cursor, Limit(q.limit)), "cursor")

handleListWorkers(scope, q) ==
    IF ~pageLimit(q.limit) THEN Refuse("limit")
    ELSE Answer(ListWorkers(scope, q.cursor, Limit(q.limit)), "cursor")

Serve(e, scope, q) ==
    CASE e = "jobs" -> handleListJobs(scope, q)
      [] e = "dlq" -> handleListDLQ(scope, q)
      [] e = "workers" -> handleListWorkers(scope, q)

------------------------------------------------------------------------------
(* The unpaged reads: one statement each, folded row by row.                *)

(* The statuses of jobs_scope_queue_depth_idx, as the SQL spells them out.  *)
DepthStatuses == {"PENDING", "QUEUED", "LEASED", "RUNNING", "RETRY_WAIT", "CANCEL_REQUESTED"}

NonTerminalStatuses == AllStatuses \ Terminal

(* The rows of queues LEFT JOIN counts: one for a queue without any work.   *)
JoinedDepths(scope) ==
    LET counts == [q \in Queues, s \in DepthStatuses |->
                     Cardinality({i \in Ids : /\ rows[i].phase = "in" /\ rows[i].scope = scope
                                             /\ rows[i].queue = q /\ rows[i].status = s})]
    IN UNION {LET some == {s \in DepthStatuses : counts[q, s] > 0}
              IN IF some = {} THEN {<<q, NULL, 0>>} ELSE {<<q, s, counts[q, s]>> : s \in some}
              : q \in Queues}

ListQueues(scope) ==
    FoldSet(LAMBDA r, depth : IF r[2] = NULL THEN depth
                              ELSE [depth EXCEPT ![r[1]][r[2]] = r[3]],
            [q \in Queues |-> [s \in NonTerminalStatuses |-> 0]],
            JoinedDepths(scope))

(* jobs LEFT JOIN attempts: no row at all means no such job, a row without  *)
(* an attempt a job that was never attempted.                               *)
JoinedAttempts(scope, i) ==
    IF rows[i].phase # "in" \/ rows[i].scope # scope THEN {}
    ELSE IF rows[i].attempts = 0 THEN {NULL} ELSE 1..rows[i].attempts

ListAttempts(scope, i) ==
    LET joined == JoinedAttempts(scope, i)
    IN [found |-> joined # {}, attempts |-> joined \ {NULL}]

(* An id that is no UUID, like a job of another tenant, is a job not found. *)
handleListJobAttempts(scope, i) ==
    IF i \notin Ids THEN [code |-> 404, attempts |-> {}]
    ELSE LET r == ListAttempts(scope, i)
         IN [code |-> IF r.found THEN 200 ELSE 404, attempts |-> r.attempts]

------------------------------------------------------------------------------
(* The rows, and the client's walk.                                         *)

Blank == [phase |-> "none", scope |-> NULL, at |-> 0, status |-> NULL, queue |-> NULL,
          attempts |-> 0]

Tick == now < MaxTime /\ now' = now + 1 /\ UNCHANGED <<rows, endpoint, walk>>

(* A transaction that will insert row i begins, and its now() is fixed. *)
BeginInsert(i) ==
    /\ rows[i].phase = "none"
    /\ \E s \in Scopes, q \in Queues :
          rows' = [rows EXCEPT ![i] = [phase |-> "open", scope |-> s, at |-> now,
                                       status |-> "QUEUED", queue |-> q, attempts |-> 0]]
    /\ UNCHANGED <<now, endpoint, walk>>

CommitInsert(i) ==
    /\ rows[i].phase = "open"
    /\ rows' = [rows EXCEPT ![i].phase = "in"]
    /\ UNCHANGED <<now, endpoint, walk>>

(* The job moves on; it may leave the filter of a walk. *)
Advance(i) ==
    /\ rows[i].phase = "in"
    /\ rows[i].status # "SUCCEEDED"
    /\ LET to == IF rows[i].status = "QUEUED" THEN "RUNNING" ELSE "SUCCEEDED"
       IN /\ rows' = [rows EXCEPT ![i].status = to, ![i].attempts = 1]
          /\ walk' = [walk EXCEPT !.owed = IF walk.filter.status \in {"", to} THEN @ ELSE @ \ {i}]
    /\ UNCHANGED <<now, endpoint>>

(* The next page, with any page size.  The first one fixes what is owed.    *)
NextPage(limit) ==
    /\ ~walk.done
    /\ LET r == Serve(endpoint, walk.scope,
                      [limit |-> limit, filter |-> walk.filter, cursor |-> walk.cursor])
       IN /\ r.code = 200
          /\ walk' = [walk EXCEPT !.got = @ \o r.ids,
                                  !.cursor = r.next,
                                  !.done = (r.next = NoCursor),
                                  !.begun = TRUE,
                                  !.owed = IF walk.begun THEN @
                                           ELSE {i \in Visible(walk.scope) :
                                                   endpoint = "jobs" => Matches(walk.filter, i)}]
    /\ UNCHANGED <<now, rows, endpoint>>

Filters == {[status |-> "", queue |-> ""]} \cup
           {[status |-> s, queue |-> ""] : s \in {"QUEUED", "RUNNING"}} \cup
           {[status |-> "", queue |-> q] : q \in Queues}
Limits == {Unset} \cup 1..MaxPageSize

Caller == CHOOSE s \in Scopes : TRUE   \* the client's tenant; all are alike

Init ==
    /\ now = 0
    /\ rows = [i \in Ids |-> Blank]
    /\ endpoint \in {"jobs", "dlq", "workers"}
    /\ \E f \in Filters :
          /\ endpoint # "jobs" => f = [status |-> "", queue |-> ""]
          /\ walk = [scope |-> Caller, filter |-> f, cursor |-> NoCursor, got |-> <<>>,
                     owed |-> {}, begun |-> FALSE, done |-> FALSE]

Next ==
    \/ Tick
    \/ \E i \in Ids : BeginInsert(i) \/ CommitInsert(i) \/ Advance(i)
    \/ \E limit \in Limits : NextPage(limit)

Spec == Init /\ [][Next]_vars

------------------------------------------------------------------------------
(* A walk over the pages is exact.  It returns no row twice and keeps its   *)
(* order across pages, however many rows share an instant and whatever      *)
(* becomes visible in between; finished, it has returned every row that was *)
(* visible, and matched its filter, from its first page to its last.        *)
WalkIsExact ==
    /\ \A j, k \in DOMAIN walk.got : j < k =>
          IF endpoint = "workers" THEN walk.got[j] < walk.got[k] ELSE Newer(walk.got[j], walk.got[k])
    /\ walk.done => walk.owed \subseteq ToSet(walk.got)

(* A page carries a cursor exactly when there is a row behind it, for every *)
(* position and page size: no client is sent to an empty page, and none     *)
(* stops early.                                                             *)
CursorMeansMore ==
    \A limit \in Limits :
        LET r == Serve(endpoint, walk.scope,
                       [limit |-> limit, filter |-> walk.filter, cursor |-> walk.cursor])
            rest == {i \in Visible(walk.scope) :
                        /\ endpoint = "jobs" => Matches(walk.filter, i)
                        /\ Behind(walk.cursor, i)}
        IN /\ r.code = 200
           /\ (r.next # NoCursor) <=> (rest \ ToSet(r.ids) # {})

(* A job that was never attempted is not a job that does not exist.         *)
MissingIsNotUnattempted ==
    \A s \in Scopes, i \in Ids \cup {-1} :
        (handleListJobAttempts(s, i).code = 200)
            <=> (i \in Ids /\ rows[i].phase = "in" /\ rows[i].scope = s)

(* The depth of every queue is exact for the caller's scope, every          *)
(* non-terminal status is a key of it, and an empty queue is listed.        *)
QueueDepthsExact ==
    \A s \in Scopes : ListQueues(s) =
        [q \in Queues |-> [t \in NonTerminalStatuses |->
            Cardinality({i \in Ids : rows[i].phase = "in" /\ rows[i].scope = s
                                     /\ rows[i].queue = q /\ rows[i].status = t})]]

(* A request is refused exactly when a parameter is invalid, and the field  *)
(* named in the 422 is one that is; a cursor of another listing's form is.  *)
(* A queue that nobody provisioned is no error, and has no jobs.            *)
RefusalNamesTheField ==
    \A limit \in {Garbled, Unset} \cup 0..MaxPageSize + 1, s \in {"", "QUEUED", "bad"},
       n \in {"", "unprovisioned", Malformed},
       c \in {NoCursor, BadCursor, EncodeWorkerCursor(1), EncodeJobCursor(0, 1)} :
        LET q == [limit |-> limit, filter |-> [status |-> s, queue |-> n], cursor |-> c]
            r == Serve(endpoint, walk.scope, q)
            wrong == (IF limit \in Limits THEN {} ELSE {"limit"})
                     \cup (IF s = "bad" /\ endpoint = "jobs" THEN {"status"} ELSE {})
                     \cup (IF n = Malformed /\ endpoint = "jobs" THEN {"queue"} ELSE {})
                     \cup (IF c.form \in {"none", IF endpoint = "workers" THEN "name" ELSE "keyset"}
                             THEN {} ELSE {"cursor"})
        IN IF wrong = {} THEN r.code = 200 ELSE r.code = 422 /\ r.field \in wrong

(* What an operator reads is what is there, page by page, queue by queue    *)
(* and attempt by attempt, and a refusal says what is wrong                 *)
(* (internal/jobs/list.go, internal/workers/list.go).  The last three speak *)
(* of the table alone, and every table exists before the first page; a walk *)
(* that is done has the cursor it began with.                               *)
ReadsAreExact ==
    /\ WalkIsExact
    /\ ~walk.done => CursorMeansMore
    /\ ~walk.begun => MissingIsNotUnattempted /\ QueueDepthsExact /\ RefusalNamesTheField
==============================================================================
