---------------------------- MODULE ServiceProcess ----------------------------
(***************************************************************************)
(* The life of one TaskForge process, from main to its exit code: the five *)
(* long-running binaries under cmd/.                                       *)
(*                                                                         *)
(* Each run() goes through its boot steps in order, and the first one that *)
(* fails ends it with code 1.  Deferred cleanups form a stack, unwound on  *)
(* every way out.  A booted API binds every listener it plans before it    *)
(* serves on any (serveAll); the other binaries start a health server      *)
(* beside their loop.  A signal may arrive at any point, a socket may die  *)
(* at any point, requests and probes may be under way when the process     *)
(* stops, and closing the connection pool waits for the connections that   *)
(* they hold.                                                              *)
(*                                                                         *)
(* What the loops do to the database is modelled elsewhere (Outbox,        *)
(* ControlPlane); here a loop is a ticker and the scans of one pass, each  *)
(* of which may fail.  The worker's loop is the runner of WorkerDelivery,  *)
(* seen from main: it returns after a cancellation, or on its own.         *)
(***************************************************************************)
EXTENDS Naturals, Sequences, FiniteSets, SequencesExt

CONSTANT NULL

Background == {"outbox", "scheduler", "reconciler"}
Services == Background \cup {"api", "worker"}
Listeners == {"admin", "public", "control", "health"}
Killed == 143   \* what the shell reports of a process ended by SIGTERM

VARIABLES
    svc,        \* which binary this is
    exporter,   \* whether a trace exporter is configured
    plan,       \* the sockets it means to open, in order
    pc,         \* where run() is
    step,       \* the boot step it is at
    cleanup,    \* the deferred calls, the last one first
    signaled,   \* SIGINT or SIGTERM arrived
    ctx,        \* whether the process context is done
    sock,       \* the state of every socket
    failed,     \* the failures sent on the failure channel
    busy,       \* the sockets with a request or a probe under way
    conns,      \* whose work holds a pool connection
    pass,       \* the scan of the current pass, 0 between passes
    runErr,     \* what the loop returned
    stopErr,    \* whether shutting a server down timed out
    exit        \* the exit code

vars == <<svc, exporter, plan, pc, step, cleanup, signaled, ctx, sock, failed,
          busy, conns, pass, runErr, stopErr, exit>>

config == <<svc, exporter, plan>>
booting == <<step, cleanup>>
running == <<sock, failed, busy, conns, pass>>
ending == <<runErr, stopErr, exit>>

------------------------------------------------------------------------------
(* Boot: the steps of every run(), in order.                                *)

apiBoot == <<"env", "config", "signals", "tracing", "pool", "jitter", "objects", "hosts">>

outboxBoot == <<"env", "config", "signals", "tracing", "pool", "broker">>

schedulerBoot == <<"env", "config", "signals", "tracing", "pool">>

reconcilerBoot == <<"env", "config", "signals", "tracing", "pool", "jitter">>

workerBoot == <<"env", "config", "worker_config", "timings", "signals", "tracing",
                "broker", "objects", "bucket", "handlers", "bind">>

Boot == [s \in Services |->
           CASE s = "api" -> apiBoot
             [] s = "outbox" -> outboxBoot
             [] s = "scheduler" -> schedulerBoot
             [] s = "reconciler" -> reconcilerBoot
             [] s = "worker" -> workerBoot]

(* The admin listener always; the others when they have an address. *)
planListeners == {<<"admin">>, <<"admin", "public">>, <<"admin", "control">>,
                  <<"admin", "public", "control">>}

(* May a step succeed, and may it fail?  A call that is given a context     *)
(* that is done fails; one that opens nothing need not notice.              *)
StartTracing == IF exporter THEN BOOLEAN ELSE {TRUE}

Connect == IF ctx THEN {FALSE} ELSE BOOLEAN

brokerNew == IF ctx THEN {FALSE} ELSE BOOLEAN

(* The client alone: it reaches no server, so only its configuration fails. *)
objectstoreNew == BOOLEAN

EnsureBucket == IF ctx THEN {FALSE} ELSE BOOLEAN

registerTrustedHandlers == {TRUE}

Outcomes(s) ==
    CASE s = "signals" -> {TRUE}
      [] s = "tracing" -> StartTracing
      [] s = "pool" -> Connect
      [] s = "broker" -> brokerNew
      [] s = "objects" -> objectstoreNew
      [] s = "bucket" -> EnsureBucket
      [] s = "handlers" -> registerTrustedHandlers
      [] s = "hosts" -> IF "control" \in ToSet(plan) THEN BOOLEAN ELSE {TRUE}
      [] OTHER -> BOOLEAN

(* The steps that defer a cleanup once they have succeeded. *)
Deferred == {"signals", "tracing", "pool"}

(* A step succeeds, or fails and ends run() with code 1. *)
BootStep ==
    /\ pc = "boot"
    /\ step <= Len(Boot[svc])
    /\ LET s == Boot[svc][step]
       IN \/ /\ TRUE \in Outcomes(s)
             /\ step' = step + 1
             /\ cleanup' = IF s \in Deferred THEN <<s>> \o cleanup ELSE cleanup
             /\ sock' = IF s = "bind" THEN [sock EXCEPT !["health"] = "bound"] ELSE sock
             /\ UNCHANGED <<pc, exit>>
          \/ /\ FALSE \in Outcomes(s)
             /\ pc' = "unwind"
             /\ exit' = 1
             /\ UNCHANGED <<step, cleanup, sock>>
    /\ UNCHANGED <<config, signaled, ctx, failed, busy, conns, pass, runErr, stopErr>>

Booted == pc = "boot" /\ step > Len(Boot[svc])

------------------------------------------------------------------------------
(* The API: serveAll.                                                       *)

(* Seeded fault: every listener serves as soon as it is bound. *)
BindAndServe ==
    /\ svc = "api"
    /\ Booted
    /\ \E i \in DOMAIN plan :
          /\ sock[plan[i]] = "closed"
          /\ \A j \in 1..i - 1 : sock[plan[j]] # "closed"
          /\ sock' = [sock EXCEPT ![plan[i]] = "serving"]
          /\ pc' = IF i = Len(plan) THEN "loop" ELSE pc
    /\ UNCHANGED <<config, booting, signaled, ctx, failed, busy, conns, pass, ending>>

(* Bind the next planned address; one that cannot be bound closes the rest. *)
Bind ==
    /\ svc = "api"
    /\ Booted
    /\ \E i \in DOMAIN plan :
          /\ sock[plan[i]] = "closed"
          /\ \A j \in 1..i - 1 : sock[plan[j]] = "bound"
          /\ \/ /\ sock' = [sock EXCEPT ![plan[i]] = "bound"]
                /\ UNCHANGED <<pc, exit>>
             \/ /\ sock' = [l \in Listeners |-> "closed"]
                /\ pc' = "unwind"
                /\ exit' = 1
    /\ UNCHANGED <<config, booting, signaled, ctx, failed, busy, conns, pass, runErr, stopErr>>

(* All bound: serve on every one. *)
Serve ==
    /\ svc = "api"
    /\ Booted
    /\ \A l \in ToSet(plan) : sock[l] = "bound"
    /\ sock' = [l \in Listeners |-> IF l \in ToSet(plan) THEN "serving" ELSE sock[l]]
    /\ pc' = "loop"
    /\ UNCHANGED <<config, booting, signaled, ctx, failed, busy, conns, pass, ending>>

(* Seeded fault: only a listener's failure ends serving. *)
ServeEndsOnFailure ==
    /\ svc = "api"
    /\ pc = "loop"
    /\ failed # {}
    /\ runErr' = "error"
    /\ pc' = "stop"
    /\ UNCHANGED <<config, booting, signaled, ctx, running, stopErr, exit>>

(* The first of a listener's failure and the end of the context. *)
ServeEnds ==
    /\ svc = "api"
    /\ pc = "loop"
    /\ \/ failed # {} /\ runErr' = "error"
       \/ ctx /\ runErr' = "nil"
    /\ pc' = "stop"
    /\ UNCHANGED <<config, booting, signaled, ctx, running, stopErr, exit>>

------------------------------------------------------------------------------
(* The other binaries: a health server beside a loop.                       *)

StartLoop ==
    /\ svc # "api"
    /\ Booted
    /\ sock' = [sock EXCEPT !["health"] = IF svc = "worker" THEN "serving" ELSE "starting"]
    /\ pc' = "loop"
    /\ UNCHANGED <<config, booting, signaled, ctx, failed, busy, conns, pass, ending>>

(* ListenAndServe in its goroutine: a failure is logged and nothing more.   *)
HealthListen ==
    /\ sock["health"] = "starting"
    /\ pc # "exited"
    /\ \E to \in {"serving", "failed"} : sock' = [sock EXCEPT !["health"] = to]
    /\ UNCHANGED <<config, pc, booting, signaled, ctx, failed, busy, conns, pass, ending>>

Scans == [s \in Services |->
            CASE s = "scheduler" -> <<"promote", "renotify">>
              [] s = "reconciler" -> <<"stale", "timeouts", "expired">>
              [] OTHER -> <<"batch">>]

(* A tick starts a pass.  When the context is done as well, Go's select may *)
(* still take the tick: the first scan then fails.                          *)
Tick ==
    /\ svc \in Background
    /\ pc = "loop"
    /\ pass = 0
    /\ pass' = 1
    /\ UNCHANGED <<config, pc, booting, signaled, ctx, sock, failed, busy, conns, ending>>

Done ==
    /\ svc \in Background
    /\ pc = "loop"
    /\ pass = 0
    /\ ctx
    /\ runErr' = "canceled"
    /\ pc' = "stop"
    /\ UNCHANGED <<config, booting, signaled, ctx, running, stopErr, exit>>

(* A scan takes a connection, unless the context is already done ... *)
ScanBegins ==
    /\ svc \in Background
    /\ pc = "loop"
    /\ pass > 0
    /\ ~ctx
    /\ "loop" \notin conns
    /\ conns' = conns \cup {"loop"}
    /\ UNCHANGED <<config, pc, booting, signaled, ctx, sock, failed, busy, pass, ending>>

(* ... and the pass goes on to the next scan when it succeeds. *)
ScanSucceeds ==
    /\ pc = "loop"
    /\ "loop" \in conns
    /\ conns' = conns \ {"loop"}
    /\ pass' = IF pass < Len(Scans[svc]) THEN pass + 1 ELSE 0
    /\ UNCHANGED <<config, pc, booting, signaled, ctx, sock, failed, busy, ending>>

(* A failed scan ends its pass: the rest waits for the next tick, unless    *)
(* the context is done, which is why it failed and ends the loop.           *)
ScanFails ==
    /\ pc = "loop"
    /\ pass > 0
    /\ "loop" \in conns \/ ctx
    /\ conns' = conns \ {"loop"}
    /\ pass' = 0
    /\ IF ctx THEN pc' = "stop" /\ runErr' = "canceled" ELSE UNCHANGED <<pc, runErr>>
    /\ UNCHANGED <<config, booting, signaled, ctx, sock, failed, busy, stopErr, exit>>

(* runner.Run returns: drained after a cancellation, with an error of its   *)
(* own, or "quit": with none although nobody asked (the session was lost    *)
(* and every slot had stopped before the error was sent).                   *)
RunnerReturns ==
    /\ svc = "worker"
    /\ pc = "loop"
    /\ \/ ctx /\ runErr' = "canceled"
       \/ runErr' \in {"error", "quit"}
    /\ pc' = "stop"
    /\ UNCHANGED <<config, booting, signaled, ctx, running, stopErr, exit>>

------------------------------------------------------------------------------
(* The environment: signals, sockets that die, requests and probes.         *)

(* Before the handler is installed a signal kills the process. *)
Signal ==
    /\ pc # "exited"
    /\ ~signaled
    /\ signaled' = TRUE
    /\ IF "signals" \in ToSet(cleanup)
         THEN ctx' = TRUE /\ UNCHANGED <<pc, exit>>
         ELSE pc' = "exited" /\ exit' = Killed /\ UNCHANGED ctx
    /\ UNCHANGED <<config, booting, running, runErr, stopErr>>

(* A socket dies, and its server stops accepting. *)
SocketDies ==
    /\ pc \in {"loop", "stop"}
    /\ \E l \in Listeners :
          /\ sock[l] = "serving"
          /\ sock' = [sock EXCEPT ![l] = "failed"]
    /\ UNCHANGED <<config, pc, booting, signaled, ctx, failed, busy, conns, pass, ending>>

(* Its goroutine sends the failure on a channel; the worker's also cancels  *)
(* the context of the process.                                              *)
ServeReports ==
    /\ svc \notin Background
    /\ pc # "exited"
    /\ \E l \in Listeners \ failed :
          /\ sock[l] = "failed"
          /\ failed' = failed \cup {l}
    /\ ctx' = (ctx \/ svc = "worker")
    /\ UNCHANGED <<config, pc, booting, signaled, sock, busy, conns, pass, ending>>

(* A request reaches a serving socket, and may need the pool. *)
RequestBegins ==
    /\ pc \in {"loop", "stop"}
    /\ \E l \in Listeners :
          /\ sock[l] = "serving"
          /\ l \notin busy
          /\ busy' = busy \cup {l}
          /\ \/ "pool" \in ToSet(cleanup) /\ conns' = conns \cup {l}
             \/ UNCHANGED conns
    /\ UNCHANGED <<config, pc, booting, signaled, ctx, sock, failed, pass, ending>>

(* It ends: by its own timeout at the latest. *)
RequestEnds ==
    /\ pc # "exited"
    /\ \E l \in busy : busy' = busy \ {l} /\ conns' = conns \ {l}
    /\ UNCHANGED <<config, pc, booting, signaled, ctx, sock, failed, pass, ending>>

------------------------------------------------------------------------------
(* Stopping: shut the servers down, choose the code, run the deferred calls.*)

Opened == {l \in Listeners : sock[l] \notin {"closed", "down"}}

(* Shutdown closes the socket at once and waits for what is under way. *)
Shutdown ==
    /\ pc = "stop"
    /\ Opened # {}
    /\ sock' = [l \in Listeners |-> IF l \in Opened THEN "down" ELSE sock[l]]
    /\ UNCHANGED <<config, pc, booting, signaled, ctx, failed, busy, conns, pass, ending>>

(* Drained, or the grace period is over. *)
ShutdownReturns ==
    /\ pc = "stop"
    /\ Opened = {}
    /\ \/ busy = {} /\ stopErr' = FALSE
       \/ busy # {} /\ stopErr' = TRUE
    /\ pc' = "code"
    /\ UNCHANGED <<config, booting, signaled, ctx, running, runErr, exit>>

(* What each run() makes of it. *)
apiCode == IF runErr = "error" \/ stopErr THEN 1 ELSE 0

backgroundCode == IF runErr = "error" THEN 1 ELSE 0

workerCode ==
    IF stopErr \/ failed # {} \/ runErr = "error" THEN 1 ELSE 0

ChooseCode ==
    /\ pc = "code"
    /\ exit' = CASE svc = "api" -> apiCode
                 [] svc = "worker" -> workerCode
                 [] OTHER -> backgroundCode
    /\ pc' = "unwind"
    /\ UNCHANGED <<config, booting, signaled, ctx, running, runErr, stopErr>>

(* The deferred calls, last first; pool.Close waits for every connection,   *)
(* and tracing.Shutdown is bounded.                                         *)
Unwind ==
    /\ pc = "unwind"
    /\ cleanup # <<>>
    /\ Head(cleanup) = "pool" => conns = {}
    /\ cleanup' = Tail(cleanup)
    /\ UNCHANGED <<config, pc, step, signaled, ctx, running, ending>>

Exit ==
    /\ pc = "unwind"
    /\ cleanup = <<>>
    /\ pc' = "exited"
    /\ UNCHANGED <<config, booting, signaled, ctx, running, ending>>

------------------------------------------------------------------------------
Init ==
    /\ svc \in Services
    /\ exporter \in BOOLEAN
    /\ plan \in IF svc = "api" THEN planListeners ELSE {<<"health">>}
    /\ pc = "boot"
    /\ step = 1
    /\ cleanup = <<>>
    /\ signaled = FALSE
    /\ ctx = FALSE
    /\ sock = [l \in Listeners |-> "closed"]
    /\ failed = {}
    /\ busy = {}
    /\ conns = {}
    /\ pass = 0
    /\ runErr = NULL
    /\ stopErr = FALSE
    /\ exit = NULL

(* The process's own steps. *)
Own ==
    \/ BootStep \/ Bind \/ Serve \/ ServeEnds
    \/ StartLoop \/ HealthListen \/ Done \/ ScanBegins \/ ScanSucceeds \/ ScanFails
    \/ ServeReports \/ Shutdown \/ ShutdownReturns \/ ChooseCode \/ Unwind \/ Exit

Next ==
    \/ BootStep \/ Bind \/ Serve \/ ServeEnds
    \/ StartLoop \/ HealthListen \/ Tick \/ Done
    \/ ScanBegins \/ ScanSucceeds \/ ScanFails \/ RunnerReturns
    \/ Signal \/ SocketDies \/ ServeReports \/ RequestBegins \/ RequestEnds
    \/ Shutdown \/ ShutdownReturns \/ ChooseCode \/ Unwind \/ Exit

(* The runner of a cancelled context. *)
CanceledRunnerReturns == ctx /\ RunnerReturns

Spec == Init /\ [][Next]_vars

------------------------------------------------------------------------------
(* What must end the process, and its end. *)
Ending == signaled \/ failed # {}
Exited == pc = "exited"

(* A process that ends with code 0 was asked to: by a signal, or, for the   *)
(* worker, by a runner that returned no error.  No listener of the API and  *)
(* no health server of the worker can die and have the process report       *)
(* success for it (serveAll, healthFailures).                               *)
CleanExitWasAsked ==
    exit = 0 => signaled \/ (svc = "worker" /\ runErr = "quit")

(* The API is never half up: when any listener accepts a request, every     *)
(* planned one has been bound (serveAll binds all before it serves).        *)
NeverHalfUp ==
    (svc = "api" /\ \E l \in Listeners : sock[l] = "serving") =>
        \A l \in ToSet(plan) : sock[l] # "closed"

(* Nothing holds a connection of a pool that has been closed, and no scan   *)
(* is left running behind a process that is on its way out.                 *)
PoolOutlivesItsUsers ==
    /\ (conns # {} /\ pc # "exited") => "pool" \in ToSet(cleanup)
    /\ "loop" \in conns => pc = "loop" \/ exit = Killed

(* A process comes up whole, lets go of the pool last, and tells whoever    *)
(* started it the truth about its end (serveAll, run).                      *)
ProcessIsOrderly == NeverHalfUp /\ PoolOutlivesItsUsers /\ CleanExitWasAsked
==============================================================================
