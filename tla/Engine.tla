-------------------------------- MODULE Engine --------------------------------
(***************************************************************************)
(* internal/workflow/engine.go over a store.Store, with the HTTP handlers  *)
(* that call Trigger and the caller of Shutdown.                           *)
(*                                                                         *)
(*   - A request r runs Trigger: it looks its product up, creates the      *)
(*     workflow row r, and under the read lock of e.mu either puts r in    *)
(*     the bounded channel e.jobs or refuses it.                           *)
(*   - A worker takes a run from the channel and processes it: load the    *)
(*     row, fetch the product, detect, persist; an error or a panic ends   *)
(*     in fail().                                                          *)
(*   - Shutdown takes the write lock, closes the channel and waits for the *)
(*     workers, or gives up when its context ends.                         *)
(*                                                                         *)
(* Every store call and every statement that can interleave with another   *)
(* goroutine's is a step of its own.                                       *)
(***************************************************************************)
EXTENDS Store

CONSTANTS
  Workers,          \* goroutines started by Engine.Start
  QueueSize,        \* capacity of e.jobs
  Closers,          \* goroutines that call Shutdown
  Faults,           \* ways a store call may go wrong, see Outcomes
  HonoursContext    \* calls that give up when their context has ended

(* The calls of store.Store that the engine makes. *)
Calls == {"GetProduct", "CreateWorkflow", "GetWorkflow", "CompleteWorkflow", "FailWorkflow"}

ASSUME EngineAssumption ==
  /\ QueueSize \in Nat \ {0}
  /\ Faults \subseteq {"error", "lost reply"}
  /\ HonoursContext \subseteq Calls

VARIABLES
  request,    \* where each request is in Trigger, then what it was answered
  jobs,       \* the runs buffered in the channel
  closed,     \* e.closed; the channel is closed in the same critical section
  worker,     \* each worker's place in process() and its local variables
  shutdown    \* where each caller is in Shutdown

engineVars == <<request, jobs, closed, worker, shutdown>>
vars == <<workflows, products, request, jobs, closed, worker, shutdown>>

(***************************************************************************)
(* How a store call may end.  The memory store ignores its context and     *)
(* never fails, so it has no faults.  A PostgreSQL call may fail without   *)
(* an effect ("error": connection, client gone, statement), or take effect *)
(* and have its answer lost ("lost reply": the context ends while the      *)
(* commit is on its way).  A call that honours its context fails when that *)
(* has ended: all of PostgreSQL's do, none of the memory store's.  An      *)
(* instance in between shows which call a property depends on; it has the  *)
(* behaviours of the memory store as well, to which deadlines are nothing. *)
(***************************************************************************)
\* Slip: the deadline of the context is not looked at.
OutcomesIgnoringContext(call, late) == {"ok"} \cup Faults

Outcomes(call, late) ==
  IF late /\ call \in HonoursContext THEN {"error"} ELSE {"ok"} \cup Faults

TakesEffect(outcome) == outcome # "error"

-------------------------------------------------------------------------------
(* Requests: handleIdentify, Trigger and enqueue. *)

Answers == {"accepted", "product not found", "unavailable", "internal error"}

(* "no answer": the process ended in the middle of the request (Service). *)
RequestPlaces == {"new", "create", "enqueue", "send", "reject", "no answer"} \cup Answers

Answered(r) == request[r] \in Answers

(* Requests that hold the read lock of e.mu. *)
Readers == {r \in Runs : request[r] \in {"send", "reject"}}

(* A writer waiting for e.mu keeps new readers out. *)
WriterWaiting == \E c \in Closers : shutdown[c] = "locking"

At(r, place) == request[r] = place

Becomes(r, place) == request' = [request EXCEPT ![r] = place]

(* The product must exist before anything is created. *)
Trigger(r) ==
  /\ At(r, "new")
  /\ \E outcome \in Outcomes("GetProduct", FALSE) :
       Becomes(r, IF outcome # "ok" THEN "internal error"
                  ELSE IF ProductOf[r] \in DOMAIN products THEN "create"
                  ELSE "product not found")
  /\ UNCHANGED <<workflows, products, jobs, closed, worker, shutdown>>

(* The id is drawn first: when the source of randomness fails it panics, and
   the handler's recovery answers 500 before anything is created. *)
TriggerCreate(r) ==
  /\ At(r, "create")
  /\ \E outcome \in Outcomes("CreateWorkflow", FALSE) \cup {"error"} :
       /\ IF TakesEffect(outcome) THEN CreateWorkflow(r) ELSE UNCHANGED storeVars
       /\ Becomes(r, IF outcome = "ok" THEN "enqueue" ELSE "internal error")
  /\ UNCHANGED <<jobs, closed, worker, shutdown>>

(* e.mu.RLock and the test of e.closed; a refused request unlocks at once. *)
EnqueueEnter(r) ==
  /\ At(r, "enqueue")
  /\ ~WriterWaiting
  /\ Becomes(r, IF closed THEN "unavailable" ELSE "send")
  /\ UNCHANGED <<workflows, products, jobs, closed, worker, shutdown>>

(* The select: a send that does not block, or the default branch. *)
EnqueueSend(r) ==
  /\ At(r, "send")
  /\ IF Len(jobs) < QueueSize
     THEN jobs' = Append(jobs, r) /\ Becomes(r, "accepted")
     ELSE UNCHANGED jobs /\ Becomes(r, "reject")
  /\ UNCHANGED <<workflows, products, closed, worker, shutdown>>

\* Slip: the rejected run is put back in the channel for later.
EnqueueRejectRequeues(r) ==
  /\ At(r, "reject")
  /\ jobs' = Append(jobs, r)
  /\ Becomes(r, "unavailable")
  /\ UNCHANGED <<workflows, products, closed, worker, shutdown>>

(* The queue is full: the run is failed, still under the read lock and with the
   request's context, and whether that worked is only logged. *)
EnqueueReject(r) ==
  /\ At(r, "reject")
  /\ \E outcome \in Outcomes("FailWorkflow", FALSE) :
       IF TakesEffect(outcome) THEN FailWorkflow(r, <<>>, "queue full")
                               ELSE UNCHANGED storeVars
  /\ Becomes(r, "unavailable")
  /\ UNCHANGED <<jobs, closed, worker, shutdown>>

-------------------------------------------------------------------------------
(* Workers: Start and process. *)

WorkerPlaces ==
  {"idle", "load", "fetch", "detect", "persist", "fail", "recover", "exited"}

(* run, steps, error: the worker's copy of the workflow; product: the claims in
   its copy of the product; late: the deadline of its context has passed. *)
Worker == [at : WorkerPlaces, run : Runs \cup {NoRun}, steps : Seq(Steps),
           error : Errors, product : Runs \cup {NoRun}, late : BOOLEAN]

Idle == [at |-> "idle", run |-> NoRun, steps |-> <<>>, error |-> "",
         product |-> NoRun, late |-> FALSE]

WorkerIs(w, place) == worker[w].at = place

Return(w) == worker' = [worker EXCEPT ![w] = Idle]

\* Slip: the run stays at the head of the queue until it is processed.
DequeuePeek(w) ==
  /\ WorkerIs(w, "idle")
  /\ jobs # <<>>
  /\ worker' = [worker EXCEPT ![w] = [Idle EXCEPT !.at = "load", !.run = Head(jobs)]]
  /\ UNCHANGED <<workflows, products, request, jobs, closed, shutdown>>

Dequeue(w) ==
  /\ WorkerIs(w, "idle")
  /\ jobs # <<>>
  /\ jobs' = Tail(jobs)
  /\ worker' = [worker EXCEPT ![w] = [Idle EXCEPT !.at = "load", !.run = Head(jobs)]]
  /\ UNCHANGED <<workflows, products, request, closed, shutdown>>

\* Slip: a worker leaves as soon as the channel is closed.
WorkerExitEarly(w) ==
  /\ WorkerIs(w, "idle")
  /\ closed
  /\ worker' = [worker EXCEPT ![w].at = "exited"]
  /\ UNCHANGED <<workflows, products, request, jobs, closed, shutdown>>

(* range over a closed channel ends once the buffer is drained. *)
WorkerExit(w) ==
  /\ WorkerIs(w, "idle")
  /\ closed
  /\ jobs = <<>>
  /\ worker' = [worker EXCEPT ![w].at = "exited"]
  /\ UNCHANGED <<workflows, products, request, jobs, closed, shutdown>>

(* The deadline of process's context passes. *)
Deadline(w) ==
  /\ worker[w].at \in {"load", "fetch", "detect", "persist", "recover"}
  /\ ~worker[w].late
  /\ worker' = [worker EXCEPT ![w].late = TRUE]
  /\ UNCHANGED <<workflows, products, request, jobs, closed, shutdown>>

(* GetWorkflow: an error is logged and the run is dropped; a run that is
   already closed is skipped. *)
LoadWorkflow(w) ==
  /\ WorkerIs(w, "load")
  /\ LET row == workflows[worker[w].run]
     IN  \E outcome \in Outcomes("GetWorkflow", worker[w].late) :
           IF outcome = "ok" /\ ~Terminal(row.status)
           THEN worker' = [worker EXCEPT ![w].at = "fetch", ![w].steps = row.steps,
                                         ![w].error = row.error]
           ELSE Return(w)
  /\ UNCHANGED <<workflows, products, request, jobs, closed, shutdown>>

(* GetProduct, recorded as a step whatever its outcome. *)
FetchStep(w) ==
  /\ WorkerIs(w, "fetch")
  /\ \E outcome \in Outcomes("GetProduct", worker[w].late) :
       LET failed == outcome # "ok"
           steps  == RecordStep(worker[w].steps, FetchProduct, failed)
       IN  IF failed
           THEN worker' = [worker EXCEPT ![w].at = "fail", ![w].steps = steps,
                                         ![w].error = "fetch product"]
           ELSE worker' = [worker EXCEPT ![w].at = "detect", ![w].steps = steps,
                                         ![w].product = products[ProductOf[worker[w].run]]]
  /\ UNCHANGED <<workflows, products, request, jobs, closed, shutdown>>

\* Slip: the detected claims are not put in the product.
DetectKeepsOldClaims(w) ==
  /\ WorkerIs(w, "detect")
  /\ worker' = [worker EXCEPT
       ![w].at = "persist",
       ![w].steps = RecordStep(RecordStep(@, DetectClaims, FALSE), PersistResult, FALSE)]
  /\ UNCHANGED <<workflows, products, request, jobs, closed, shutdown>>

(* Detect, and PERSIST_RESULT recorded as a success ahead of the store call. *)
Detect(w) ==
  /\ WorkerIs(w, "detect")
  /\ worker' = [worker EXCEPT
       ![w].at = "persist",
       ![w].product = worker[w].run,
       ![w].steps = RecordStep(RecordStep(@, DetectClaims, FALSE), PersistResult, FALSE)]
  /\ UNCHANGED <<workflows, products, request, jobs, closed, shutdown>>

(* A panic in a step of a run: the detector's claim ids come from a random
   source that panics when it cannot be read, and the store clones products,
   which may panic before anything is written.  A panic while loading has the
   effect of one while fetching: there is nothing in the worker's copy yet. *)
Panic(w) ==
  /\ worker[w].at \in {"fetch", "detect", "persist"}
  /\ worker' = [worker EXCEPT ![w].at = "recover"]
  /\ UNCHANGED <<workflows, products, request, jobs, closed, shutdown>>

\* Slip: the failed step is recorded after the premature success.
PersistKeepsSuccess(w) ==
  /\ WorkerIs(w, "persist")
  /\ LET me == worker[w]
     IN  \E outcome \in Outcomes("CompleteWorkflow", me.late) :
           /\ IF TakesEffect(outcome)
              THEN CompleteWorkflow(me.run, me.steps, me.error, me.product)
              ELSE UNCHANGED storeVars
           /\ IF outcome = "ok" THEN Return(w)
              ELSE worker' = [worker EXCEPT
                     ![w].at = "fail",
                     ![w].steps = RecordStep(me.steps, PersistResult, TRUE),
                     ![w].error = "persist result"]
  /\ UNCHANGED <<request, jobs, closed, shutdown>>

(* CompleteWorkflow.  ErrInvalidTransition (the store is left alone) and success
   both return; any other error replaces the recorded success by a failure. *)
Persist(w) ==
  /\ WorkerIs(w, "persist")
  /\ LET me == worker[w]
     IN  \E outcome \in Outcomes("CompleteWorkflow", me.late) :
           /\ IF TakesEffect(outcome)
              THEN CompleteWorkflow(me.run, me.steps, me.error, me.product)
              ELSE UNCHANGED storeVars
           /\ IF outcome = "ok" THEN Return(w)
              ELSE worker' = [worker EXCEPT
                     ![w].at = "fail",
                     ![w].steps = RecordStep(WithoutLast(me.steps), PersistResult, TRUE),
                     ![w].error = "persist result"]
  /\ UNCHANGED <<request, jobs, closed, shutdown>>

\* Slip: the failure is written with the run's own context.
FailInRunContext(w) ==
  /\ WorkerIs(w, "fail")
  /\ LET me == worker[w]
     IN  \E outcome \in Outcomes("FailWorkflow", me.late) :
           IF TakesEffect(outcome) THEN FailWorkflow(me.run, me.steps, me.error)
                                   ELSE UNCHANGED storeVars
  /\ Return(w)
  /\ UNCHANGED <<request, jobs, closed, shutdown>>

(* fail: FailWorkflow under a fresh context; whether it worked is only logged. *)
Fail(w) ==
  /\ WorkerIs(w, "fail")
  /\ LET me == worker[w]
     IN  \E outcome \in Outcomes("FailWorkflow", FALSE) :
           IF TakesEffect(outcome) THEN FailWorkflow(me.run, me.steps, me.error)
                                   ELSE UNCHANGED storeVars
  /\ Return(w)
  /\ UNCHANGED <<request, jobs, closed, shutdown>>

(* The deferred recover reads the row again, with the run's own context, and
   fails what it read: the steps recorded so far are lost. *)
Recover(w) ==
  /\ WorkerIs(w, "recover")
  /\ LET row == workflows[worker[w].run]
     IN  \E outcome \in Outcomes("GetWorkflow", worker[w].late) :
           IF outcome = "ok"
           THEN worker' = [worker EXCEPT ![w].at = "fail", ![w].steps = row.steps,
                                         ![w].error = "internal error"]
           ELSE Return(w)
  /\ UNCHANGED <<workflows, products, request, jobs, closed, shutdown>>

-------------------------------------------------------------------------------
(* Shutdown. *)

ShutdownPlaces == {"not called", "locking", "draining", "nil", "already closed", "timed out"}

CallerIs(c, place) == shutdown[c] = place

CallerBecomes(c, place) == shutdown' = [shutdown EXCEPT ![c] = place]

Shutdown(c) ==
  /\ CallerIs(c, "not called")
  /\ CallerBecomes(c, "locking")
  /\ UNCHANGED <<workflows, products, request, jobs, closed, worker>>

\* Slip: the early return of a second call does not unlock.
ShutdownCloseKeepsLock(c) ==
  /\ CallerIs(c, "locking")
  /\ Readers = {}
  /\ ~closed
  /\ closed' = TRUE
  /\ CallerBecomes(c, "draining")
  /\ UNCHANGED <<workflows, products, request, jobs, worker>>

\* Slip: the flag is set and the channel closed without the write lock.
ShutdownCloseUnlocked(c) ==
  /\ CallerIs(c, "locking")
  /\ closed' = TRUE
  /\ CallerBecomes(c, IF closed THEN "already closed" ELSE "draining")
  /\ UNCHANGED <<workflows, products, request, jobs, worker>>

(* The critical section of e.mu.Lock: a second call returns nil at once. *)
ShutdownClose(c) ==
  /\ CallerIs(c, "locking")
  /\ Readers = {}
  /\ closed' = TRUE
  /\ CallerBecomes(c, IF closed THEN "already closed" ELSE "draining")
  /\ UNCHANGED <<workflows, products, request, jobs, worker>>

\* Slip: waiting for the queue to empty instead of for the workers to return.
ShutdownDoneQueueEmpty(c) ==
  /\ CallerIs(c, "draining")
  /\ jobs = <<>>
  /\ CallerBecomes(c, "nil")
  /\ UNCHANGED <<workflows, products, request, jobs, closed, worker>>

(* e.wg.Wait returned. *)
ShutdownDone(c) ==
  /\ CallerIs(c, "draining")
  /\ \A w \in Workers : WorkerIs(w, "exited")
  /\ CallerBecomes(c, "nil")
  /\ UNCHANGED <<workflows, products, request, jobs, closed, worker>>

(* The context of Shutdown ended first. *)
ShutdownTimeout(c) ==
  /\ CallerIs(c, "draining")
  /\ CallerBecomes(c, "timed out")
  /\ UNCHANGED <<workflows, products, request, jobs, closed, worker>>

-------------------------------------------------------------------------------

Init ==
  /\ StoreInit
  /\ request = [r \in Runs |-> "new"]
  /\ jobs = <<>>
  /\ closed = FALSE
  /\ worker = [w \in Workers |-> Idle]
  /\ shutdown = [c \in Closers |-> "not called"]

(* A request that has begun goes on; a worker and a shutdown that can take a
   step of their code take it.  A new request, a call of Shutdown, a deadline,
   a panic and a timeout need never happen. *)
RequestStep(r) ==
  TriggerCreate(r) \/ EnqueueEnter(r) \/ EnqueueSend(r) \/ EnqueueReject(r)

WorkerStep(w) ==
  \/ Dequeue(w) \/ WorkerExit(w) \/ LoadWorkflow(w) \/ FetchStep(w)
  \/ Detect(w) \/ Persist(w) \/ Fail(w) \/ Recover(w)

ShutdownStep(c) == ShutdownClose(c) \/ ShutdownDone(c)

(* Everything has returned: the program does nothing more. *)
Stopped ==
  /\ \A r \in Runs : Answered(r)
  /\ \A w \in Workers : WorkerIs(w, "exited")
  /\ \A c \in Closers : shutdown[c] \in {"nil", "already closed", "timed out"}
  /\ UNCHANGED vars

Next ==
  \/ \E r \in Runs : Trigger(r) \/ RequestStep(r)
  \/ \E w \in Workers : WorkerStep(w) \/ Deadline(w) \/ Panic(w)
  \/ \E c \in Closers : Shutdown(c) \/ ShutdownStep(c) \/ ShutdownTimeout(c)
  \/ Stopped

Spec == Init /\ [][Next]_vars

Fairness ==
  /\ \A r \in Runs : WF_vars(RequestStep(r))
  /\ \A w \in Workers : WF_vars(WorkerStep(w))
  /\ \A c \in Closers : WF_vars(ShutdownStep(c))

FairSpec == Spec /\ Fairness

-------------------------------------------------------------------------------
(* Properties. *)

TypeOK ==
  /\ StoreTypeOK
  /\ request \in [Runs -> RequestPlaces]
  /\ jobs \in Seq(Runs)
  /\ Len(jobs) <= QueueSize
  /\ closed \in BOOLEAN
  /\ worker \in [Workers -> Worker]
  /\ shutdown \in [Closers -> ShutdownPlaces]

InQueue(r) == \E i \in 1..Len(jobs) : jobs[i] = r

Holds(w, r) == worker[w].run = r

Owned(r) == InQueue(r) \/ \E w \in Workers : Holds(w, r)

(* A run is processed at most once: it is in one slot of the channel or with
   one worker, never both, and only after its request was accepted.  README
   "a late or duplicated worker can never overwrite a finished run": within a
   process there is no duplicated worker. *)
SingleOwner ==
  /\ \A i, j \in 1..Len(jobs) : jobs[i] = jobs[j] => i = j
  /\ \A w \in Workers, r \in Runs : Holds(w, r) => ~InQueue(r)
  /\ \A v, w \in Workers, r \in Runs : Holds(v, r) /\ Holds(w, r) => v = w
  /\ \A r \in Runs : Owned(r) => request[r] = "accepted"

(* A request about to send never finds the channel closed, whatever order it
   and Shutdown run in: a send on a closed channel panics. *)
NoSendOnClosedChannel == \A r \in Runs : request[r] = "send" => ~closed

(* README "503 ... safe to retry": a request that was answered anything but 202
   leaves no run behind that could still write claims into the product. *)
RefusedNeverRuns ==
  \A r \in Runs :
    Answered(r) /\ request[r] # "accepted" =>
      /\ ~Owned(r)
      /\ workflows[r].status # Completed
      /\ \A p \in Catalogue : products[p] # r

(* When store calls do not fail, but for those that a run's deadline ends, and
   the row can always be read, the only run that nobody will ever close is one
   whose request was refused because the engine is shutting down.  In particular
   every accepted run stays with a worker, or in the channel with a worker
   still there to take it, until it is closed. *)
OrphansOnlyAtShutdown ==
  \A r \in Runs :
    workflows[r].status = InProgress /\ Answered(r) =>
      \/ \E w \in Workers : Holds(w, r)
      \/ InQueue(r) /\ \E w \in Workers : ~WorkerIs(w, "exited")
      \/ request[r] = "unavailable" /\ closed

(* Shutdown's nil answer to the caller that closed the channel: every accepted
   run has ended. *)
NilMeansDrained ==
  (\E c \in Closers : CallerIs(c, "nil")) =>
    \A r \in Runs : request[r] = "accepted" => Terminal(workflows[r].status)

AllSucceeded ==
  <<Step(FetchProduct, FALSE), Step(DetectClaims, FALSE), Step(PersistResult, FALSE)>>

(* The stored audit trail tells the truth: three successes for a completed run
   and no error, a trail that ends in the failed step the error speaks of, and
   nothing for a run that no worker processed or whose worker panicked. *)
AuditTrailMatchesOutcome ==
  \A r \in Runs :
    LET row == workflows[r]
    IN  \/ row.status \in {NotCreated, InProgress} /\ row.steps = <<>> /\ row.error = ""
        \/ row.status = Completed /\ row.steps = AllSucceeded /\ row.error = ""
        \/ /\ row.status = Failed
           /\ \/ row.error \in {"queue full", "internal error"} /\ row.steps = <<>>
              \/ row.error = "fetch product" /\ row.steps = <<Step(FetchProduct, TRUE)>>
              \/ /\ row.error = "persist result"
                 /\ row.steps = [AllSucceeded EXCEPT ![3] = Step(PersistResult, TRUE)]

(* Terminal states are final (README "Transitions are enforced"): once closed,
   a row never changes again, its snapshot, trail and error included, although
   a worker whose commit was acknowledged late goes on to fail the same run. *)
TerminalIsFinal ==
  [][\A r \in Runs : Terminal(workflows[r].status) => workflows'[r] = workflows[r]]_vars

(* The engine, over a store that may fail, does what RunLifecycle promises. *)
Lifecycle == INSTANCE RunLifecycle
               WITH status   <- [r \in Runs |-> workflows[r].status],
                    snapshot <- [r \in Runs |-> workflows[r].product],
                    current  <- products

ImplementsLifecycle == Lifecycle!Spec

(* README "The stored product, including claims from the latest completed run":
   although a worker reads the document at its start and writes it back whole at
   its end, a document shows the claims of a completed run of that very product
   as soon as there is one, and of no other run before. *)
DocumentsShowCompletedRuns == Lifecycle!ShowsCompletedRun

(* README "Every run has a timeout": once its deadline has passed, a worker
   never completes its run.  This needs a CompleteWorkflow that looks at its
   context. *)
LateRunNeverCompletes ==
  [][\A w \in Workers :
       WorkerIs(w, "persist") /\ worker[w].late =>
         workflows'[worker[w].run].status = workflows[worker[w].run].status]_vars

(* The comment of fail(), "a run aborted by its own timeout still records the
   failure": when the store does not fail by itself, a worker that leaves
   fail() leaves its run closed, deadline passed or not. *)
FailRecordsFailure ==
  [][\A w \in Workers :
       WorkerIs(w, "fail") /\ worker'[w].at # "fail" =>
         Terminal(workflows'[worker[w].run].status)]_vars

(* Every accepted run ends, shutdown or not, panic or not. *)
AcceptedRunsEnd ==
  \A r \in Runs : request[r] = "accepted" ~> Terminal(workflows[r].status)

(* Every request that was begun is answered, however Shutdown interleaves with
   the read lock it needs. *)
RequestsAreAnswered ==
  \A r \in Runs : request[r] = "create" ~> Answered(r)

(* Every call of Shutdown returns, without its timeout if need be: the readers
   it waits for and the workers it drains all finish. *)
ShutdownReturns ==
  \A c \in Closers :
    CallerIs(c, "locking") ~> shutdown[c] \in {"nil", "already closed", "timed out"}

(* README "Every run has a timeout", read as: a run that was opened ends. *)
EveryOpenRunEnds ==
  \A r \in Runs : workflows[r].status = InProgress ~> Terminal(workflows[r].status)

(* README "A failed run returns "status": "FAILED" with an error message and
   the step that failed", for the runs a client knows the id of. *)
FailureNamesStep ==
  \A r \in Runs :
    LET row == workflows[r]
    IN  request[r] = "accepted" /\ row.status = Failed =>
          /\ row.error # ""
          /\ \E i \in 1..Len(row.steps) : row.steps[i].failed

===============================================================================
