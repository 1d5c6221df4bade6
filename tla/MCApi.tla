-------------------------------- MODULE MCApi --------------------------------
(* What the API promises its callers, each part by itself: the keys, the    *)
(* listings, the submission of a job, and the calls of the command line, on *)
(* many commands and on repeats of one.  A behaviour is one of a component, *)
(* which the first state chooses.                                           *)
EXTENDS Integers, Sequences, TLC

CONSTANTS Requests, Prefixes, Scopes, Absent, NULL

VARIABLES
    part,   \* the component of this behaviour; the others hold its variables
    x1, x2, x3, x4, x5, x6

vars == <<part,
          x1, x2, x3, x4, x5, x6>>

(* The variables that a component of k variables does not need. *)
Idle5 == x6 = 0
Idle4 == x5 = 0 /\ Idle5
Idle2 == x3 = 0 /\ x4 = 0 /\ Idle4
Still2 == UNCHANGED <<part, x3, x4, x5, x6>>
Still4 == UNCHANGED <<part, x5, x6>>
Still5 == UNCHANGED <<part, x6>>
Still6 == UNCHANGED <<part>>

(* A client that spells its request in the ways the code must tell apart.   *)
SubmitQueues == {<<1>>, <<1, 2>>}
SubmitKeys == {<<1>>, <<>>, <<0>>, <<1, 2, 3>>, <<1, -1>>}

Object(members) == [top |-> "object", members |-> members]
Instant(local, offset) == [parses |-> TRUE, local |-> local, offset |-> offset]

SubmitValues ==
    [body |-> {"ok", "malformed", "unknown_field", "trailing", "too_large"},
     queue |-> {<<1>>, <<0, 1>>, <<1, 2>>, <<3>>, <<9>>},
     type |-> {<<2, 3>>, <<3>>, <<>>},
     payload |-> {Absent, Object(<<>>), Object(<<<<1, 1>>, <<2, 1>>>>),
                  Object(<<<<2, 1>>, <<1, 1>>>>), Object(<<<<1, 2>>, <<2, 1>>, <<1, 1>>>>),
                  [Object(<<>>) EXCEPT !.top = "array"]},
     priority |-> {Absent, 0, 50, 101},
     max_attempts |-> {Absent, 0, 3, 100},
     timeout_seconds |-> {Absent, 300, 86400, 86401},
     caps |-> {<<>>, <<<<1>>, <<2>>>>, <<<<2>>, <<1>>, <<2>>>>, <<<<1, 2>>>>, <<<<0, 1>>>>,
               <<<<1>>, <<9>>>>, <<<<1>>, <<2>>, <<3>>, <<4>>>>},
     scheduled_at |-> {Absent, Instant(4, 0), Instant(6, 2), Instant(4, 2),
                       [parses |-> FALSE, local |-> 0, offset |-> 0]}]

SubmitBase ==
    [body |-> "ok", queue |-> <<1>>, type |-> <<2, 3>>, payload |-> Object(<<<<1, 1>>, <<2, 1>>>>),
     priority |-> Absent, max_attempts |-> Absent, timeout_seconds |-> Absent,
     caps |-> <<>>, scheduled_at |-> Absent]

(* The commands of operators, some of them mistaken.                        *)
Cmd(verb, key, req, id) ==
    [verb |-> verb, key |-> key, req |-> req, id |-> id, queue |-> "q",
     usage |-> TRUE, valid |-> TRUE, cred |-> TRUE]

Keyed == {Cmd("submit", "k", "a", 0), Cmd("submit", "k", "b", 0), Cmd("retry", "k", "", 10)}

RetriedCommands == {Cmd("submit", "k", "a", 0), Cmd("replay", "k", "", 10)}

AllCommands ==
    Keyed \cup
    {Cmd("replay", "k", "", 10), Cmd("submit", "", "a", 0), Cmd("retry", "", "", 12), Cmd("cancel", "", "", 12),
     Cmd("get", "", "", 99), Cmd("result", "", "", 12),
     [Cmd("submit", "k", "a", 0) EXCEPT !.queue = "unknown"],
     [Cmd("submit", "k", "a", 0) EXCEPT !.usage = FALSE],
     [Cmd("submit", "k", "a", 0) EXCEPT !.valid = FALSE],
     [Cmd("submit", "k", "a", 0) EXCEPT !.cred = FALSE]}

DeadLetter == [i \in {10} |-> "DEAD_LETTERED"]
TwoJobs == [i \in {10, 12} |-> IF i = 10 THEN "DEAD_LETTERED" ELSE "QUEUED"]

------------------------------------------------------------------------------
Key == INSTANCE Keys WITH
    MaxKeys <- 2, MaxBoth <- 1, MaxClock <- 1, DefaultListLimit <- 1,
    MaxListLimit <- 2, keys <- x1, clock <- x2, wired <- x3, delivered <- x4,
    replies <- x5, req <- x6
KeyInit == part = "keys" /\ Key!Init
KeyNext == part = "keys" /\ Key!Next /\ Still6

Listing == INSTANCE Listings WITH
    Ids <- {1, 2, 3}, Scopes <- {"a", "b"}, Queues <- {"q"}, MaxTime <- 1,
    DefaultPageSize <- 1, MaxPageSize <- 2, now <- x1, rows <- x2,
    endpoint <- x3, walk <- x4
ListingInit == part = "listings" /\ Listing!Init /\ Idle4
ListingNext == part = "listings" /\ Listing!Next /\ Still4

Submit == INSTANCE Submission WITH
    Queues <- SubmitQueues, Values <- SubmitValues, Keys <- SubmitKeys,
    Base <- SubmitBase, MaxIdempotencyKeyLen <- 2, MaxCapabilities <- 3,
    MaxEdits <- 3, request <- x1, key <- x2, ledger <- x3, answer <- x4,
    edits <- x5
SubmitInit == part = "submit" /\ Submit!Init /\ Idle5
SubmitNext == part = "submit" /\ Submit!Next /\ Still5

Command == INSTANCE PublicCalls WITH
    Calls <- {1, 2}, Commands <- AllCommands, Existing <- TwoJobs,
    Queues <- {"q"}, jobs <- x1, calls <- x2
CommandInit == part = "commands" /\ Command!Init /\ Idle2
CommandNext == part = "commands" /\ Command!Next /\ Still2

Repeat == INSTANCE PublicCalls WITH
    Calls <- {1, 2, 3}, Commands <- RetriedCommands, Existing <- DeadLetter,
    Queues <- {"q"}, jobs <- x1, calls <- x2
RepeatInit == part = "repeats" /\ Repeat!Init /\ Idle2
RepeatNext == part = "repeats" /\ Repeat!Next /\ Still2

(* The constants are what the components take them to be. *)
ASSUME ApiAssumption == Listing!PageAssumption /\ Command!CallsAssumption /\
    Repeat!CallsAssumption

------------------------------------------------------------------------------
Init == KeyInit \/ ListingInit \/ SubmitInit \/ CommandInit \/ RepeatInit

(* The components that may come to an end. *)
Stop == part \in {"listings", "submit", "commands", "repeats"} /\ UNCHANGED
        vars

Next == KeyNext \/ ListingNext \/ SubmitNext \/ CommandNext \/ RepeatNext \/
    Stop

Spec == Init /\ [][Next]_vars

------------------------------------------------------------------------------
(* Keys: Every answer about a key is true of the table: what was minted     *)
(* opens its key, what was revoked is refused and nothing else is, and a    *)
(* listing and the revokers say what is there (internal/auth,               *)
(* internal/workerauth).                                                    *)
KeyAnswersAreTrue == part = "keys" => Key!KeyAnswersAreTrue

(* Listings: What an operator reads is what is there, page by page, queue   *)
(* by queue and attempt by attempt, and a refusal says what is wrong        *)
(* (internal/jobs/list.go, internal/workers/list.go).  The last three speak *)
(* of the table alone, and every table exists before the first page; a walk *)
(* that is done has the cursor it began with.                               *)
ReadsAreExact == part = "listings" => Listing!ReadsAreExact

(* Submission: A repeat is told apart from another request under its key by *)
(* what it asks for: served the first job only when it asks for the same    *)
(* one, since no two requests share a fingerprint because their fields run  *)
(* together; and then never a conflict, however differently it is spelled.  *)
RepeatsAreRecognised == part = "submit" => Submit!RepeatsAreRecognised

(* PublicCalls: Whoever asked, and whoever watches, is told the truth: by   *)
(* the exit code, by a conflict, and by the request metrics (internal/cli,  *)
(* instrument).                                                             *)
AnswersAreTrue == part = "commands" => Command!AnswersAreTrue

(* PublicCalls: However often and however concurrently an operation is      *)
(* repeated under its key, after whatever ambiguous answer, it creates one  *)
(* job.                                                                     *)
SameKeyOneJob == part = "repeats" => Repeat!SameKeyOneJob

PeerSymmetry == Permutations(Requests) \cup Permutations(Prefixes)
==============================================================================
