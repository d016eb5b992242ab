-------------------------------- MODULE Service --------------------------------
(***************************************************************************)
(* cmd/server: the life of the process around the engine, and what is left *)
(* of the runs when it ends.  The process opens its store, seeds the       *)
(* catalogue, serves until a signal or until the listener fails, stops the *)
(* HTTP server, stops the engine, and exits; it may also be killed at any  *)
(* moment, and started again.                                              *)
(*                                                                         *)
(* The store is one that outlives the process (PostgreSQL).  With the      *)
(* in-memory store nothing is left of a process that has ended, and        *)
(* starting again is the initial state.                                    *)
(***************************************************************************)
EXTENDS Engine

CONSTANTS
  MaxRestarts    \* bound on how often the process is started again

ASSUME ServiceAssumption ==
  /\ MaxRestarts \in Nat
  /\ \E main \in Closers : Closers = {main}

VARIABLES
  process,     \* how far run() is
  grace,       \* the context of SHUTDOWN_TIMEOUT, shared by both shutdowns, lives
  restarts,    \* how often the process was started again
  abandoned    \* runs that were open when a process ended without draining

processVars == <<process, grace, restarts, abandoned>>
serviceVars == <<workflows, products, request, jobs, closed, worker, shutdown,
                 process, grace, restarts, abandoned>>

Places == {"starting", "serving", "closing http", "closing engine", "exited", "died"}

Running == process \in {"serving", "closing http", "closing engine"}

InFlight(r) == request[r] \in {"create", "enqueue", "send", "reject"}

OpenRuns == {r \in Runs : workflows[r].status = InProgress}

(* The process is gone, its goroutines and its channel with it.  Clients in the middle of a request get no answer. *)
Gone ==
  /\ request' = [r \in Runs |-> IF InFlight(r) THEN "no answer" ELSE request[r]]
  /\ jobs' = <<>>
  /\ closed' = FALSE
  /\ worker' = [w \in Workers |-> Idle]
  /\ shutdown' = [c \in Closers |-> "not called"]
  /\ UNCHANGED storeVars

ServiceInit ==
  /\ workflows = [r \in Runs |-> NoRow]
  /\ products = [p \in {} |-> NoRun]
  /\ request = [r \in Runs |-> "new"]
  /\ jobs = <<>>
  /\ closed = FALSE
  /\ worker = [w \in Workers |-> Idle]
  /\ shutdown = [c \in Closers |-> "not called"]
  /\ process = "starting"
  /\ grace = TRUE
  /\ restarts = 0
  /\ abandoned = {}

-------------------------------------------------------------------------------

\* Slip: the seed document replaces the product that is already stored.
SeedOverwrites ==
  /\ process = "starting"
  /\ process' = "serving"
  /\ products' = [p \in Catalogue |-> NoRun]
  /\ UNCHANGED <<workflows, request, jobs, closed, worker, shutdown, grace, restarts, abandoned>>

(* openStore, seed.Load and engine.Start.  The seed file may be missing; a
   product that is already stored is left as it is, claims included. *)
Seed ==
  /\ process = "starting"
  /\ process' = "serving"
  /\ \/ UNCHANGED products
     \/ products' = [p \in Catalogue |-> IF p \in DOMAIN products THEN products[p] ELSE NoRun]
  /\ UNCHANGED <<workflows, request, jobs, closed, worker, shutdown, grace, restarts, abandoned>>

(* A request arrives while the listener is open. *)
Serve(r) ==
  /\ process = "serving"
  /\ Trigger(r)
  /\ UNCHANGED processVars

(* A handler, or a worker, goes on. *)
Work ==
  /\ Running
  /\ \/ \E r \in Runs : RequestStep(r)
     \/ \E w \in Workers : WorkerStep(w) \/ Deadline(w) \/ Panic(w)
  /\ UNCHANGED processVars

(* SIGINT or SIGTERM: the listener is closed and the grace period begins. *)
Signal ==
  /\ process = "serving"
  /\ process' = "closing http"
  /\ UNCHANGED <<vars, grace, restarts, abandoned>>

GraceEnds ==
  /\ process \in {"closing http", "closing engine"}
  /\ grace
  /\ grace' = FALSE
  /\ UNCHANGED <<vars, process, restarts, abandoned>>

\* Slip: the engine is stopped without waiting for the handlers.
HttpClosedEarly(c) ==
  /\ process = "closing http"
  /\ process' = "closing engine"
  /\ Shutdown(c)
  /\ UNCHANGED <<grace, restarts, abandoned>>

(* srv.Shutdown returns when no handler is left, or when the grace period has
   ended, which is only logged; engine.Shutdown is called next. *)
HttpClosed(c) ==
  /\ process = "closing http"
  /\ grace => \A r \in Runs : ~InFlight(r)
  /\ process' = "closing engine"
  /\ Shutdown(c)
  /\ UNCHANGED <<grace, restarts, abandoned>>

(* Inside engine.Shutdown, under the same context. *)
EngineClosing(c) ==
  /\ process = "closing engine"
  /\ ShutdownStep(c) \/ (~grace /\ ShutdownTimeout(c))
  /\ UNCHANGED processVars

\* Slip: a drain that timed out is waited for again.
ExitWhenDrained(c) ==
  /\ process = "closing engine"
  /\ CallerIs(c, "nil")
  /\ process' = "exited"
  /\ abandoned' = IF grace THEN abandoned ELSE abandoned \cup OpenRuns
  /\ Gone
  /\ UNCHANGED <<grace, restarts>>

(* run() returns nil whatever engine.Shutdown returned, and the process ends. *)
Exit(c) ==
  /\ process = "closing engine"
  /\ shutdown[c] \in {"nil", "timed out"}
  /\ process' = "exited"
  /\ abandoned' = IF grace THEN abandoned ELSE abandoned \cup OpenRuns
  /\ Gone
  /\ UNCHANGED <<grace, restarts>>

(* The store cannot be opened or seeded, the listener fails (run() returns its
   error, without stopping the engine), or the process is killed. *)
Die ==
  /\ process \notin {"exited", "died"}
  /\ process' = "died"
  /\ abandoned' = abandoned \cup OpenRuns
  /\ Gone
  /\ UNCHANGED <<grace, restarts>>

Restart ==
  /\ process \in {"exited", "died"}
  /\ restarts < MaxRestarts
  /\ process' = "starting"
  /\ grace' = TRUE
  /\ restarts' = restarts + 1
  /\ UNCHANGED <<vars, abandoned>>

ServiceNext ==
  \/ Seed
  \/ \E r \in Runs : Serve(r)
  \/ Work
  \/ Signal
  \/ GraceEnds
  \/ \E c \in Closers : HttpClosed(c) \/ EngineClosing(c) \/ Exit(c)
  \/ Die
  \/ Restart

ServiceSpec == ServiceInit /\ [][ServiceNext]_serviceVars

(* Handlers, workers and run() go on.  That the grace period ends is not
   assumed, nor that the process is ever signalled, killed or started again. *)
ServiceFairness ==
  /\ \A r \in Runs : WF_serviceVars(Running /\ RequestStep(r) /\ UNCHANGED processVars)
  /\ \A w \in Workers : WF_serviceVars(Running /\ WorkerStep(w) /\ UNCHANGED processVars)
  /\ \A c \in Closers : WF_serviceVars(HttpClosed(c) \/ EngineClosing(c) \/ Exit(c))

FairServiceSpec == ServiceSpec /\ ServiceFairness

-------------------------------------------------------------------------------
(* Properties. *)

(* README "Shutdown is graceful": when both shutdowns finished within the grace
   period, no run is left open but those an earlier process left behind, and
   not even a refused one: the handlers are gone before the channel closes. *)
CleanExitLeavesNoOpenRun == process = "exited" /\ grace => OpenRuns \subseteq abandoned

(* Across crashes and restarts the stored runs and documents change only as
   RunLifecycle allows: what was completed stays completed, with its claims in
   the product document, although every start seeds the catalogue again. *)
Lives == INSTANCE RunLifecycle
           WITH status   <- [r \in Runs |-> workflows[r].status],
                snapshot <- [r \in Runs |-> workflows[r].product],
                current  <- [p \in Catalogue |-> IF p \in DOMAIN products THEN products[p]
                                                                         ELSE NoRun]

RestartsKeepLifecycle == Lives!Spec

(* Once run() has been told to stop, the process ends, whatever requests and
   runs it was in the middle of. *)
SignalEndsProcess ==
  \A place \in {"closing http", "closing engine"} :
    process = place ~> process \in {"exited", "died"}

(* README "in-flight runs are drained", for every process that was asked to
   stop and did so by itself: the runs it accepted have ended. *)
ExitDrainsRuns ==
  process = "exited" /\ restarts = 0 =>
    \A r \in Runs : request[r] = "accepted" => Terminal(workflows[r].status)

===============================================================================
