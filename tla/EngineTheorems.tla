---------------------------- MODULE EngineTheorems ----------------------------
(***************************************************************************)
(* What the invariant of the engine gives: terminal rows are final, a      *)
(* refused request leaves nothing behind, the audit trail is truthful, and *)
(* the engine implements RunLifecycle over a store that may fail.          *)
(***************************************************************************)
EXTENDS EngineProofs

(* A refused request leaves no run that could still write claims. *)
THEOREM RefusedRunsNothing == Spec => []RefusedNeverRuns
<1>1. Invariant => RefusedNeverRuns
  <2> SUFFICES ASSUME Invariant, NEW r \in Runs, Answered(r), request[r] # "accepted"
               PROVE  /\ ~Owned(r) /\ workflows[r].status # Completed
                      /\ \A p \in Catalogue : products[p] # r
    BY DEF RefusedNeverRuns
  <2>1. ~Owned(r)
    BY DEF Invariant, SingleOwner
  <2>2. workflows[r].status # Completed
    BY DEF Invariant, RowsFit, RowFits
  <2>3. \A p \in Catalogue : products[p] # r
    BY <2>2, StoreAssumption DEF Invariant, RowsFit, ProductsFit
  <2> QED
    BY <2>1, <2>2, <2>3
<1> QED
  BY <1>1, EngineInvariantHolds, PTL

(* The stored audit trail tells how the run ended, and where. *)
THEOREM TrailsAreTruthful == Spec => []AuditTrailMatchesOutcome
<1>1. Invariant => AuditTrailMatchesOutcome
  <2> SUFFICES ASSUME Invariant PROVE AuditTrailMatchesOutcome
    OBVIOUS
  <2>1. ASSUME NEW r \in Runs
        PROVE  /\ workflows[r].status \in Statuses /\ RowFits(r)
    BY DEF Invariant, Placed, TypeOK, StoreTypeOK, Row, RowsFit
  <2> QED
    BY <2>1 DEF AuditTrailMatchesOutcome, RowFits, FailureTrail, Statuses
<1> QED
  BY <1>1, EngineInvariantHolds, PTL

-------------------------------------------------------------------------------
(* The three ways a step changes the store. *)

Opens(r) ==
  /\ workflows[r].status = NotCreated /\ workflows[r].product = NoRun
  /\ ProductOf[r] \in Catalogue
  /\ workflows' = [workflows EXCEPT ![r] = Workflow(InProgress, <<>>, "", NoRun)]
  /\ UNCHANGED products

Completes(r) ==
  /\ workflows[r].status = InProgress
  /\ workflows' = [workflows EXCEPT ![r] = Workflow(Completed, AllSucceeded, "", r)]
  /\ products' = [products EXCEPT ![ProductOf[r]] = r]

Fails(r) ==
  /\ workflows[r].status = InProgress /\ workflows[r].product = NoRun
  /\ \E steps, error : workflows' = [workflows EXCEPT ![r] = Workflow(Failed, steps, error, NoRun)]
  /\ UNCHANGED products

LEMMA RequestStoreStep ==
  ASSUME Invariant, NEW r \in Runs, Trigger(r) \/ RequestStep(r)
  PROVE  UNCHANGED storeVars \/ Opens(r) \/ Fails(r)
<1>1. RowFits(r) /\ RequestFits(r) /\ StoreTypeOK /\ ProductsKnown
  BY DEF Invariant, Placed, TypeOK, RowsFit
<1>2. CASE Trigger(r) \/ EnqueueEnter(r) \/ EnqueueSend(r)
  BY <1>2 DEF Trigger, EnqueueEnter, EnqueueSend, storeVars
<1>3. CASE TriggerCreate(r)
  <2>1. request[r] = "create" /\ (UNCHANGED storeVars \/ CreateWorkflow(r))
    BY <1>3 DEF TriggerCreate, At
  <2>2. /\ workflows[r].status = NotCreated /\ workflows[r].product = NoRun
        /\ ProductOf[r] \in Catalogue
    BY <1>1, <2>1, Distinct DEF RequestFits, RowFits, ProductsKnown
  <2> QED
    BY <1>1, <2>1, <2>2, CreateRow DEF Opens
<1>4. CASE EnqueueReject(r)
  <2>1. UNCHANGED storeVars \/ FailWorkflow(r, <<>>, "queue full")
    BY <1>4 DEF EnqueueReject
  <2>2. \/ UNCHANGED storeVars
        \/ /\ workflows[r].status = InProgress /\ UNCHANGED products
           /\ workflows' = [workflows EXCEPT ![r] = Workflow(Failed, <<>>, "queue full", NoRun)]
    BY <2>1, FailRow
  <2> QED
    BY <1>1, <2>2, Distinct DEF Fails, RowFits
<1> QED
  BY <1>2, <1>3, <1>4 DEF RequestStep

LEMMA ProcessStoreStep ==
  ASSUME Invariant, NEW w \in Workers, ProcessStep(w)
  PROVE  \/ UNCHANGED storeVars
         \/ \E r \in Runs : (Completes(r) /\ ProductOf[r] \in Catalogue) \/ Fails(r)
<1>0. Busy(w)
  BY ProcessStepsOn DEF Invariant, StepsOn
<1>1. PICK r \in Runs : r = worker[w].run
  BY <1>0, WorkerKnows
<1>2. RowFits(r) /\ WorkerFits(w) /\ ProductOf[r] \in Catalogue
  BY <1>0, <1>1, WorkerKnows
<1>3. CASE LoadWorkflow(w) \/ FetchStep(w) \/ Detect(w) \/ Panic(w) \/ Recover(w) \/ Deadline(w)
  BY <1>3 DEF LoadWorkflow, FetchStep, Detect, Panic, Recover, Deadline, storeVars
<1>4. CASE Persist(w)
  <2> DEFINE me == worker[w]
  <2>1. /\ me.steps = AllSucceeded /\ me.error = "" /\ me.product = r
        /\ workflows[r].status = InProgress
    BY <1>1, <1>2, <1>4 DEF Persist, WorkerIs, WorkerFits
  <2>2. UNCHANGED storeVars \/ CompleteWorkflow(r, me.steps, me.error, me.product)
    BY <1>1, <1>4 DEF Persist
  <2>3. \/ UNCHANGED storeVars
        \/ /\ workflows' = [workflows EXCEPT
                             ![r] = Workflow(Completed, me.steps, me.error, me.product)]
           /\ products' = [products EXCEPT ![ProductOf[r]] = me.product]
    BY <2>2, CompleteRow
  <2>4. Workflow(Completed, me.steps, me.error, me.product) = Workflow(Completed, AllSucceeded, "", r)
    BY <2>1
  <2> QED
    BY <1>2, <2>1, <2>3, <2>4 DEF Completes
<1>5. CASE Fail(w)
  <2> DEFINE me == worker[w]
  <2>1. UNCHANGED storeVars \/ FailWorkflow(r, me.steps, me.error)
    BY <1>1, <1>5 DEF Fail
  <2>2. \/ UNCHANGED storeVars
        \/ /\ workflows[r].status = InProgress /\ UNCHANGED products
           /\ workflows' = [workflows EXCEPT ![r] = Workflow(Failed, me.steps, me.error, NoRun)]
    BY <2>1, FailRow
  <2> QED
    BY <1>2, <2>2, Distinct DEF Fails, RowFits
<1> QED
  BY <1>3, <1>4, <1>5 DEF ProcessStep

LEMMA StoreSteps ==
  ASSUME Invariant, [Next]_vars
  PROVE  \/ UNCHANGED storeVars
         \/ \E r \in Runs :
              Opens(r) \/ (Completes(r) /\ ProductOf[r] \in Catalogue) \/ Fails(r)
<1>1. ASSUME NEW w \in Workers, Dequeue(w) \/ WorkerExit(w) PROVE UNCHANGED storeVars
  BY <1>1 DEF Dequeue, WorkerExit, storeVars
<1>2. ASSUME NEW c \in Closers,
             Shutdown(c) \/ ShutdownClose(c) \/ ShutdownDone(c) \/ ShutdownTimeout(c)
      PROVE  UNCHANGED storeVars
  BY <1>2 DEF Shutdown, ShutdownClose, ShutdownDone, ShutdownTimeout, storeVars
<1>3. CASE UNCHANGED vars
  BY <1>3 DEF vars, storeVars
<1> QED
  BY <1>1, <1>2, <1>3, RequestStoreStep, ProcessStoreStep
     DEF Next, RequestStep, WorkerStep, ShutdownStep, Stopped, ProcessStep

-------------------------------------------------------------------------------

(* A closed row never changes again, whatever late worker tries. *)
THEOREM ClosedRunsAreFinal == Spec => TerminalIsFinal
<1>1. Invariant /\ [Next]_vars =>
        \A r \in Runs : Terminal(workflows[r].status) => workflows'[r] = workflows[r]
  <2> SUFFICES ASSUME Invariant, [Next]_vars, NEW r \in Runs, Terminal(workflows[r].status)
               PROVE  workflows'[r] = workflows[r]
    OBVIOUS
  <2>1. workflows \in [Runs -> Row]
    BY DEF Invariant, Placed, TypeOK, StoreTypeOK
  <2>2. workflows[r].status # NotCreated /\ workflows[r].status # InProgress
    BY Distinct DEF Terminal
  <2>3. CASE UNCHANGED storeVars
    BY <2>3 DEF storeVars
  <2>4. ASSUME NEW q \in Runs, Opens(q) \/ Completes(q) \/ Fails(q)
        PROVE  workflows'[r] = workflows[r]
    <3>1. q # r
      BY <2>2, <2>4 DEF Opens, Completes, Fails
    <3> QED
      BY <2>1, <2>4, <3>1 DEF Opens, Completes, Fails
  <2> QED
    BY <2>3, <2>4, StoreSteps
<1> QED
  BY <1>1, EngineInvariantHolds, PTL DEF Spec, TerminalIsFinal

LEMMA SameStatuses ==
  /\ Lifecycle!NotCreated = NotCreated /\ Lifecycle!InProgress = InProgress
  /\ Lifecycle!Completed = Completed /\ Lifecycle!Failed = Failed
BY DEF NotCreated, InProgress, Completed, Failed, Lifecycle!NotCreated, Lifecycle!InProgress,
       Lifecycle!Completed, Lifecycle!Failed

LEMMA StepsImplement == Invariant /\ [Next]_vars => [Lifecycle!Next]_(Lifecycle!vars)
<1> SUFFICES ASSUME Invariant, [Next]_vars PROVE [Lifecycle!Next]_(Lifecycle!vars)
  OBVIOUS
<1> DEFINE status == [r \in Runs |-> workflows[r].status]
           snapshot == [r \in Runs |-> workflows[r].product]
<1>0. workflows \in [Runs -> Row] /\ products \in [Catalogue -> Runs \cup {NoRun}]
  BY DEF Invariant, Placed, TypeOK, StoreTypeOK
<1>1. CASE UNCHANGED storeVars
  BY <1>1 DEF storeVars, Lifecycle!vars
<1>2. ASSUME NEW r \in Runs, Opens(r) PROVE Lifecycle!Next
  <2>1. /\ workflows'[r] = Workflow(InProgress, <<>>, "", NoRun)
        /\ \A q \in Runs : q # r => workflows'[q] = workflows[q]
    BY <1>0, <1>2 DEF Opens
  <2>2. workflows'[r].status = InProgress /\ workflows'[r].product = NoRun
    BY <2>1, OpenedRow
  <2>3. status' = [status EXCEPT ![r] = InProgress] /\ snapshot' = snapshot
    BY <1>0, <1>2, <2>1, <2>2 DEF Opens
  <2>4. Lifecycle!Open(r)
    <3>1. status[r] = NotCreated /\ ProductOf[r] \in Catalogue /\ UNCHANGED products
      BY <1>2 DEF Opens
    <3> QED
      BY <2>3, <3>1, SameStatuses DEF Lifecycle!Open
  <2> QED
    BY <2>4 DEF Lifecycle!Next
<1>3. ASSUME NEW r \in Runs, Completes(r) PROVE Lifecycle!Next
  <2>1. /\ workflows'[r] = Workflow(Completed, AllSucceeded, "", r)
        /\ \A q \in Runs : q # r => workflows'[q] = workflows[q]
    BY <1>0, <1>3 DEF Completes
  <2>2. workflows'[r].status = Completed /\ workflows'[r].product = r
    BY <2>1, CompletedRow
  <2>3. status' = [status EXCEPT ![r] = Completed] /\ snapshot' = [snapshot EXCEPT ![r] = r]
    BY <1>0, <2>1, <2>2
  <2>4. Lifecycle!Complete(r)
    <3>1. status[r] = InProgress /\ products' = [products EXCEPT ![ProductOf[r]] = r]
      BY <1>3 DEF Completes
    <3> QED
      BY <2>3, <3>1, SameStatuses DEF Lifecycle!Complete
  <2> QED
    BY <2>4 DEF Lifecycle!Next
<1>4. ASSUME NEW r \in Runs, Fails(r) PROVE Lifecycle!Next
  <2>1. PICK steps, error :
          workflows' = [workflows EXCEPT ![r] = Workflow(Failed, steps, error, NoRun)]
    BY <1>4 DEF Fails
  <2>2. /\ workflows'[r] = Workflow(Failed, steps, error, NoRun)
        /\ \A q \in Runs : q # r => workflows'[q] = workflows[q]
    BY <1>0, <2>1
  <2>3. workflows'[r].status = Failed /\ workflows'[r].product = NoRun
    BY <2>2 DEF Workflow
  <2>4. status' = [status EXCEPT ![r] = Failed] /\ snapshot' = snapshot
    BY <1>0, <1>4, <2>2, <2>3 DEF Fails
  <2>5. Lifecycle!Fail(r)
    <3>1. status[r] = InProgress /\ UNCHANGED products
      BY <1>4 DEF Fails
    <3> QED
      BY <2>4, <3>1, SameStatuses DEF Lifecycle!Fail
  <2> QED
    BY <2>5 DEF Lifecycle!Next
<1> QED
  BY <1>1, <1>2, <1>3, <1>4, StoreSteps

(* The engine and its store, faults included, do what RunLifecycle promises. *)
THEOREM EngineImplementsLifecycle == Spec => ImplementsLifecycle
<1>1. Init => Lifecycle!Init
  <2> SUFFICES ASSUME Init PROVE Lifecycle!Init
    OBVIOUS
  <2>1. NoRow.status = NotCreated /\ NoRow.product = NoRun
    BY DEF NoRow, Workflow
  <2> QED
    <3>1. \A r \in Runs : workflows[r].status = NotCreated /\ workflows[r].product = NoRun
      BY <2>1 DEF Init, StoreInit
    <3>2. products = [p \in Catalogue |-> NoRun]
      BY DEF Init, StoreInit
    <3> QED
      BY <3>1, <3>2, SameStatuses DEF Lifecycle!Init
<1> QED
  BY <1>1, StepsImplement, EngineInvariantHolds, PTL DEF Spec, ImplementsLifecycle, Lifecycle!Spec

-------------------------------------------------------------------------------
(* What RunLifecycle promises holds of whatever implements it. *)

Promised == INSTANCE RunLifecycleProofs
  WITH status   <- [r \in Runs |-> workflows[r].status],
       snapshot <- [r \in Runs |-> workflows[r].product],
       current  <- products

LEMMA PromisedIs ==
  /\ ImplementsLifecycle => Promised!Spec
  /\ Promised!ShowsCompletedRun => Lifecycle!ShowsCompletedRun
  /\ Promised!OwnSnapshot => Lifecycle!OwnSnapshot
BY PTL
   DEF ImplementsLifecycle, Lifecycle!Spec, Promised!Spec, Lifecycle!Init, Promised!Init,
       Lifecycle!Next, Promised!Next, Lifecycle!vars, Promised!vars, Lifecycle!Open,
       Promised!Open, Lifecycle!Complete, Promised!Complete, Lifecycle!Fail, Promised!Fail,
       Lifecycle!NotCreated, Promised!NotCreated, Lifecycle!InProgress, Promised!InProgress,
       Lifecycle!Completed, Promised!Completed, Lifecycle!Failed, Promised!Failed,
       Lifecycle!ShowsCompletedRun, Promised!ShowsCompletedRun, Lifecycle!OwnSnapshot,
       Promised!OwnSnapshot

(* A document shows the claims of a completed run of its product as soon as
   there is one, whatever faults the store has. *)
THEOREM DocumentsAreCurrent == Spec => []DocumentsShowCompletedRuns
BY EngineImplementsLifecycle, PromisedIs, Promised!DocumentsShowCompletedRuns, PTL
   DEF DocumentsShowCompletedRuns

(* A later run of a product never rewrites the result of an earlier one. *)
THEOREM ResultsAreOwn == Spec => []Lifecycle!OwnSnapshot
BY EngineImplementsLifecycle, PromisedIs, Promised!SnapshotsAreOwn, PTL

-------------------------------------------------------------------------------
(* A store that does not fail by itself, and whose GetWorkflow does not look at
   contexts: with that a worker reads the row of its run, which it drops if it
   cannot.  The other calls may give up after the deadline of a run. *)

LEMMA OnlyOk ==
  ASSUME Faults = {}
  PROVE  /\ \A call : Outcomes(call, FALSE) = {"ok"}
         /\ \A call, late : Outcomes(call, late) \subseteq {"ok", "error"}
         /\ "GetWorkflow" \notin HonoursContext =>
              \A late : Outcomes("GetWorkflow", late) = {"ok"}
BY DEF Outcomes

(* A worker lets go of a run only when the run is closed. *)
LEMMA LetsGoOfClosed ==
  ASSUME Faults = {}, "GetWorkflow" \notin HonoursContext, Invariant, AcceptedHaveRows,
         NEW w \in Workers, ProcessStep(w), NEW r \in Runs, r = worker[w].run
  PROVE  /\ worker'[w].run = r \/ Terminal(workflows'[r].status)
         /\ \A q \in Runs : q # r => workflows'[q] = workflows[q]
         /\ workflows[r].status # NotCreated => workflows'[r].status # NotCreated
<1>0. /\ StepsOn(w) /\ Busy(w) /\ WorkerFits(w) /\ request[r] = "accepted"
      /\ workflows \in [Runs -> Row] /\ worker \in [Workers -> Worker]
  BY ProcessStepsOn, WorkerKnows DEF Invariant, StepsOn
<1>1. worker'[w].at # "idle" => worker'[w].run = r
  <2>1. Idle.at = "idle"
    BY DEF Idle
  <2> QED
    BY <1>0, <2>1 DEF StepsOn
<1>2. Outcomes("GetWorkflow", worker[w].late) = {"ok"}
  BY OnlyOk
<1>3. CASE LoadWorkflow(w) \/ FetchStep(w) \/ Detect(w) \/ Panic(w) \/ Recover(w) \/ Deadline(w)
  <2>1. UNCHANGED workflows
    BY <1>3 DEF LoadWorkflow, FetchStep, Detect, Panic, Recover, Deadline
  <2>2. CASE LoadWorkflow(w)
    <3>1. ~Terminal(workflows[r].status)
      BY <1>0, <2>2, Distinct DEF LoadWorkflow, WorkerIs, WorkerFits, Terminal
    <3>2. worker' = [worker EXCEPT ![w].at = "fetch", ![w].steps = workflows[r].steps,
                                   ![w].error = workflows[r].error]
      BY <1>2, <2>2, <3>1 DEF LoadWorkflow
    <3> QED
      BY <1>0, <2>1, <3>2 DEF Worker
  <2>3. CASE Recover(w)
    <3>1. worker' = [worker EXCEPT ![w].at = "fail", ![w].steps = workflows[r].steps,
                                   ![w].error = "internal error"]
      BY <1>2, <2>3 DEF Recover
    <3>2. worker'[w].at = "fail"
      BY <1>0, <3>1 DEF Worker
    <3> QED
      BY <1>1, <2>1, <3>2
  <2>4. CASE FetchStep(w)
    <3>1. \/ \E steps, product :
                worker' = [worker EXCEPT ![w].at = "detect", ![w].steps = steps,
                                         ![w].product = product]
          \/ \E steps :
                worker' = [worker EXCEPT ![w].at = "fail", ![w].steps = steps,
                                         ![w].error = "fetch product"]
      BY <2>4 DEF FetchStep
    <3>2. CASE \E steps, product :
                 worker' = [worker EXCEPT ![w].at = "detect", ![w].steps = steps,
                                          ![w].product = product]
      <4>1. PICK steps, product :
              worker' = [worker EXCEPT ![w].at = "detect", ![w].steps = steps,
                                       ![w].product = product]
        BY <3>2
      <4>2. worker'[w].at = "detect"
        BY <1>0, <4>1 DEF Worker
      <4> QED
        BY <1>1, <2>1, <4>2
    <3>3. CASE \E steps :
                 worker' = [worker EXCEPT ![w].at = "fail", ![w].steps = steps,
                                          ![w].error = "fetch product"]
      <4>1. PICK steps :
              worker' = [worker EXCEPT ![w].at = "fail", ![w].steps = steps,
                                       ![w].error = "fetch product"]
        BY <3>3
      <4>2. worker'[w].at = "fail"
        BY <1>0, <4>1 DEF Worker
      <4> QED
        BY <1>1, <2>1, <4>2
    <3> QED
      BY <3>1, <3>2, <3>3
  <2>5. CASE Detect(w)
    <3>1. worker'[w].run = r
      BY <1>0, <2>5 DEF Detect, Worker
    <3> QED
      BY <2>1, <3>1
  <2>6. CASE Panic(w)
    <3>1. worker'[w].run = r
      BY <1>0, <2>6 DEF Panic, Worker
    <3> QED
      BY <2>1, <3>1
  <2>7. CASE Deadline(w)
    <3>1. worker'[w].run = r
      BY <1>0, <2>7 DEF Deadline, Worker
    <3> QED
      BY <2>1, <3>1
  <2> QED
    BY <1>3, <2>2, <2>3, <2>4, <2>5, <2>6, <2>7
<1>4. CASE Persist(w)
  <2> DEFINE me == worker[w]
  <2>1. workflows[r].status = InProgress
    BY <1>0, <1>4 DEF Persist, WorkerIs, WorkerFits
  <2>2. \/ CompleteWorkflow(r, me.steps, me.error, me.product)
        \/ UNCHANGED storeVars /\ worker'[w].at = "fail"
    <3>1. PICK outcome \in {"ok", "error"} :
            /\ IF TakesEffect(outcome)
               THEN CompleteWorkflow(r, me.steps, me.error, me.product)
               ELSE UNCHANGED storeVars
            /\ outcome # "ok" => \E steps :
                 worker' = [worker EXCEPT ![w].at = "fail", ![w].steps = steps,
                                          ![w].error = "persist result"]
      BY <1>4, OnlyOk DEF Persist
    <3>2. CASE outcome = "ok"
      BY <3>1, <3>2 DEF TakesEffect
    <3>3. CASE outcome = "error"
      <4>1. UNCHANGED storeVars
        BY <3>1, <3>3 DEF TakesEffect
      <4>2. PICK steps : worker' = [worker EXCEPT ![w].at = "fail", ![w].steps = steps,
                                                  ![w].error = "persist result"]
        BY <3>1, <3>3
      <4>3. worker'[w].at = "fail"
        BY <1>0, <4>2 DEF Worker
      <4> QED
        BY <4>1, <4>3
    <3> QED
      BY <3>2, <3>3
  <2>3. CASE CompleteWorkflow(r, me.steps, me.error, me.product)
    <3>1. workflows' = [workflows EXCEPT
                         ![r] = Workflow(Completed, me.steps, me.error, me.product)]
      BY <2>1, <2>3, CompleteRow
    <3>2. workflows'[r].status = Completed
      BY <1>0, <3>1 DEF Workflow
    <3> QED
      BY <1>0, <3>1, <3>2, Distinct DEF Terminal
  <2>4. CASE UNCHANGED storeVars /\ worker'[w].at = "fail"
    BY <1>1, <2>4 DEF storeVars
  <2> QED
    BY <2>2, <2>3, <2>4
<1>5. CASE Fail(w)
  <2> DEFINE me == worker[w]
  <2>1. FailWorkflow(r, me.steps, me.error)
    BY <1>5, OnlyOk DEF Fail, TakesEffect
  <2>2. CASE workflows[r].status # InProgress /\ UNCHANGED storeVars
    <3>1. workflows[r].status # NotCreated
      BY <1>0 DEF AcceptedHaveRows, Invariant, Placed, TypeOK
    <3>2. workflows[r].status \in Statuses
      BY <1>0 DEF Row
    <3> QED
      BY <2>2, <3>1, <3>2 DEF storeVars, Terminal, Statuses
  <2>3. CASE workflows' = [workflows EXCEPT ![r] = Workflow(Failed, me.steps, me.error, NoRun)]
    <3>1. workflows'[r].status = Failed
      BY <1>0, <2>3 DEF Workflow
    <3> QED
      BY <1>0, <2>3, <3>1, Distinct DEF Terminal
  <2> QED
    BY <2>1, <2>2, <2>3, FailRow
<1> QED
  BY <1>3, <1>4, <1>5 DEF ProcessStep

(* Workers that have left stay away, and the others keep what they hold. *)
LEMMA UndisturbedProcess ==
  ASSUME Faults = {}, "GetWorkflow" \notin HonoursContext, NEW excused, Invariant, Undisturbed(excused),
         NEW w \in Workers, ProcessStep(w)
  PROVE  Undisturbed(excused)'
<1>0. /\ StepsOn(w) /\ Busy(w) /\ worker \in [Workers -> Worker]
      /\ worker[w].run \in Runs /\ request[worker[w].run] = "accepted"
      /\ UNCHANGED <<request, jobs, closed, shutdown>>
  BY ProcessStepsOn, WorkerKnows DEF Invariant, StepsOn
<1>1. PICK r \in Runs : r = worker[w].run
  BY <1>0
<1>2. /\ worker'[w].run = r \/ Terminal(workflows'[r].status)
      /\ \A q \in Runs : q # r => workflows'[q] = workflows[q]
      /\ workflows[r].status # NotCreated => workflows'[r].status # NotCreated
  BY <1>1, LetsGoOfClosed DEF Undisturbed
<1>3. worker[w].at # "exited" /\ worker'[w].at # "exited"
  <2>1. Idle.at # "exited"
    BY DEF Idle
  <2> QED
    BY <1>0, <2>1 DEF StepsOn, Busy
<1>4. \A v \in Workers : v # w => worker'[v] = worker[v]
  BY <1>0 DEF StepsOn
<1>5. ExitedAfterDrain' /\ NilAfterExit'
  BY <1>0, <1>3, <1>4 DEF Undisturbed, ExitedAfterDrain, NilAfterExit, WorkerIs, CallerIs
<1>6. AcceptedHaveRows'
  BY <1>0, <1>2 DEF Undisturbed, AcceptedHaveRows
<1>7. OpenRunsKept(excused)'
  <2> SUFFICES ASSUME NEW q \in Runs \ excused, workflows'[q].status = InProgress,
                      request'[q] \in Answers
               PROVE  Owned(q)' \/ (request'[q] = "unavailable" /\ closed')
    BY DEF OpenRunsKept, Answered
  <2>1. CASE q = r
    <3>1. worker'[w].run = q
      BY <1>2, <2>1, Distinct DEF Terminal
    <3> QED
      BY <3>1 DEF Owned, Holds
  <2>2. CASE q # r
    <3>1. Owned(q) \/ (request[q] = "unavailable" /\ closed)
      BY <1>0, <1>2, <2>2 DEF Undisturbed, OpenRunsKept, Answered
    <3>2. ASSUME NEW v \in Workers, Holds(v, q) PROVE Holds(v, q)'
      BY <1>1, <1>4, <2>2, <3>2 DEF Holds
    <3>3. InQueue(q) => InQueue(q)'
      BY <1>0 DEF InQueue
    <3> QED
      BY <1>0, <3>1, <3>2, <3>3 DEF Owned
  <2> QED
    BY <2>1, <2>2
<1> QED
  BY <1>5, <1>6, <1>7 DEF Undisturbed

LEMMA UndisturbedRequest ==
  ASSUME Faults = {}, "GetWorkflow" \notin HonoursContext, NEW excused, Invariant, Undisturbed(excused),
         NoSendOnClosedChannel,
         NEW r \in Runs, Trigger(r) \/ RequestStep(r)
  PROVE  Undisturbed(excused)'
<1>0. /\ request \in [Runs -> RequestPlaces] /\ workflows \in [Runs -> Row]
      /\ jobs \in Seq(Runs) /\ RequestFits(r) /\ StoreTypeOK
  BY DEF Invariant, Placed, TypeOK, StoreTypeOK, RowsFit
<1>1. /\ UNCHANGED <<worker, closed, shutdown>>
      /\ \A q \in Runs : q # r => request'[q] = request[q] /\ workflows'[q] = workflows[q]
  <2>1. UNCHANGED <<worker, closed, shutdown>> /\ \A q \in Runs : q # r => request'[q] = request[q]
    BY <1>0 DEF Trigger, RequestStep, TriggerCreate, EnqueueEnter, EnqueueSend, EnqueueReject, Becomes
  <2>2. UNCHANGED storeVars \/ Opens(r) \/ Fails(r)
    BY RequestStoreStep
  <2>3. ASSUME NEW q \in Runs, q # r PROVE workflows'[q] = workflows[q]
    BY <1>0, <2>2, <2>3 DEF storeVars, Opens, Fails
  <2> QED
    BY <2>1, <2>3
<1>2. \/ jobs' = jobs
      \/ jobs' = Append(jobs, r) /\ ~closed
  BY DEF Trigger, RequestStep, TriggerCreate, EnqueueEnter, EnqueueSend, EnqueueReject, At,
         NoSendOnClosedChannel
<1>3. \A q \in Runs : InQueue(q) => InQueue(q)'
  BY <1>0, <1>2 DEF InQueue
<1>4. ExitedAfterDrain' /\ NilAfterExit'
  BY <1>1, <1>2 DEF Undisturbed, ExitedAfterDrain, NilAfterExit, WorkerIs, CallerIs
<1>5. /\ request'[r] = "accepted" => workflows'[r].status # NotCreated
      /\ r \notin excused /\ workflows'[r].status = InProgress /\ request'[r] \in Answers =>
           Owned(r)' \/ (request'[r] = "unavailable" /\ closed')
  <2>1. CASE Trigger(r)
    BY <1>0, <2>1, Distinct DEF Trigger, At, Becomes, RequestFits, Answers
  <2>2. CASE TriggerCreate(r)
    <3>1. PICK outcome \in {"ok", "error"} :
            /\ IF TakesEffect(outcome) THEN CreateWorkflow(r) ELSE UNCHANGED storeVars
            /\ Becomes(r, IF outcome = "ok" THEN "enqueue" ELSE "internal error")
      BY <2>2, OnlyOk DEF TriggerCreate
    <3>2. request[r] = "create"
      BY <2>2 DEF TriggerCreate, At
    <3>3. CASE outcome = "ok"
      BY <1>0, <3>1, <3>3 DEF Becomes, Answers
    <3>4. CASE outcome = "error"
      BY <1>0, <3>1, <3>2, <3>4, Distinct DEF Becomes, TakesEffect, storeVars, RequestFits
    <3> QED
      BY <3>3, <3>4
  <2>3. CASE EnqueueEnter(r)
    BY <1>0, <2>3, Distinct DEF EnqueueEnter, At, Becomes, RequestFits, Answers
  <2>4. CASE EnqueueSend(r)
    <3>1. CASE Len(jobs) < QueueSize
      <4>1. jobs' = Append(jobs, r) /\ request'[r] = "accepted" /\ UNCHANGED workflows
        BY <1>0, <2>4, <3>1 DEF EnqueueSend, Becomes
      <4>2. InQueue(r)'
        <5>1. Len(jobs') \in 1..Len(jobs') /\ jobs'[Len(jobs')] = r
          BY <1>0, <4>1
        <5> QED
          BY <5>1 DEF InQueue
      <4> QED
        BY <1>0, <2>4, <4>1, <4>2, Distinct DEF Owned, EnqueueSend, At, RequestFits
    <3>2. CASE ~(Len(jobs) < QueueSize)
      BY <1>0, <2>4, <3>2 DEF EnqueueSend, Becomes, Answers
    <3> QED
      BY <3>1, <3>2
  <2>5. CASE EnqueueReject(r)
    <3>1. request[r] = "reject" /\ request'[r] = "unavailable"
      BY <1>0, <2>5 DEF EnqueueReject, At, Becomes
    <3>2. FailWorkflow(r, <<>>, "queue full")
      BY <2>5, OnlyOk DEF EnqueueReject, TakesEffect
    <3>3. workflows' = [workflows EXCEPT ![r] = Workflow(Failed, <<>>, "queue full", NoRun)]
      BY <1>0, <3>1, <3>2, FailRow DEF RequestFits
    <3>4. workflows'[r].status = Failed
      BY <1>0, <3>3 DEF Workflow
    <3> QED
      BY <3>1, <3>4, Distinct
  <2> QED
    BY <2>1, <2>2, <2>3, <2>4, <2>5 DEF RequestStep
<1>6. AcceptedHaveRows'
  BY <1>1, <1>5 DEF Undisturbed, AcceptedHaveRows
<1>7. OpenRunsKept(excused)'
  <2> SUFFICES ASSUME NEW q \in Runs \ excused, workflows'[q].status = InProgress,
                      request'[q] \in Answers
               PROVE  Owned(q)' \/ (request'[q] = "unavailable" /\ closed')
    BY DEF OpenRunsKept, Answered
  <2>1. CASE q = r
    BY <1>5, <2>1
  <2>2. CASE q # r
    <3>1. Owned(q) \/ (request'[q] = "unavailable" /\ closed')
      BY <1>1, <2>2 DEF Undisturbed, OpenRunsKept, Answered
    <3>2. Owned(q) => Owned(q)'
      BY <1>1, <1>3 DEF Owned, Holds
    <3> QED
      BY <3>1, <3>2
  <2> QED
    BY <2>1, <2>2
<1> QED
  BY <1>4, <1>6, <1>7 DEF Undisturbed

LEMMA UndisturbedWorker ==
  ASSUME NEW excused, Invariant, Undisturbed(excused),
         NEW w \in Workers, Dequeue(w) \/ WorkerExit(w)
  PROVE  Undisturbed(excused)'
<1>0. /\ worker \in [Workers -> Worker] /\ jobs \in Seq(Runs) /\ RunsOwned
      /\ UNCHANGED <<workflows, request, closed, shutdown>>
  BY DEF Invariant, Placed, TypeOK, Dequeue, WorkerExit
<1>1. WorkerIs(w, "idle") /\ \A v \in Workers : v # w => worker'[v] = worker[v]
  BY <1>0 DEF Dequeue, WorkerExit
<1>2. AcceptedHaveRows' /\ NilAfterExit'
  BY <1>0, <1>1 DEF Undisturbed, AcceptedHaveRows, NilAfterExit, WorkerIs, CallerIs
<1>3. \A r \in Runs : ~Holds(w, r)
  BY <1>1, StoreAssumption, <1>0 DEF RunsOwned, Busy, WorkerIs, Holds
<1>4. ExitedAfterDrain' /\ \A r \in Runs : InQueue(r) => Owned(r)'
  <2>1. CASE Dequeue(w)
    <3>1. jobs # <<>> /\ jobs' = Tail(jobs) /\ Head(jobs) \in Runs
      BY <1>0, <2>1 DEF Dequeue
    <3>2. worker'[w] = [Idle EXCEPT !.at = "load", !.run = Head(jobs)]
      BY <1>0, <2>1 DEF Dequeue
    <3>3. worker'[w].at = "load" /\ worker'[w].run = Head(jobs)
      BY <3>2 DEF Idle
    <3>4. ExitedAfterDrain'
      BY <1>0, <1>1, <3>1, <3>3 DEF Undisturbed, ExitedAfterDrain, WorkerIs
    <3>5. ASSUME NEW r \in Runs, InQueue(r) PROVE Owned(r)'
      <4>1. PICK i \in 1..Len(jobs) : jobs[i] = r
        BY <3>5 DEF InQueue
      <4>2. CASE i = 1
        BY <3>1, <3>3, <4>1, <4>2 DEF Owned, Holds
      <4>3. CASE i # 1
        <5>1. i - 1 \in 1..Len(jobs') /\ jobs'[i - 1] = r
          BY <1>0, <3>1, <4>1, <4>3
        <5> QED
          BY <5>1 DEF Owned, InQueue
      <4> QED
        BY <4>2, <4>3
    <3> QED
      BY <3>4, <3>5
  <2>2. CASE WorkerExit(w)
    <3>1. closed /\ jobs = <<>> /\ jobs' = jobs
      BY <2>2 DEF WorkerExit
    <3>2. ExitedAfterDrain'
      BY <1>0, <3>1 DEF ExitedAfterDrain
    <3>3. \A r \in Runs : ~InQueue(r)
      BY <3>1 DEF InQueue
    <3> QED
      BY <3>2, <3>3
  <2> QED
    BY <2>1, <2>2
<1>5. OpenRunsKept(excused)'
  <2> SUFFICES ASSUME NEW q \in Runs \ excused, workflows'[q].status = InProgress,
                      request'[q] \in Answers
               PROVE  Owned(q)' \/ (request'[q] = "unavailable" /\ closed')
    BY DEF OpenRunsKept, Answered
  <2>1. Owned(q) \/ (request'[q] = "unavailable" /\ closed')
    BY <1>0 DEF Undisturbed, OpenRunsKept, Answered
  <2>2. ASSUME NEW v \in Workers, Holds(v, q) PROVE Holds(v, q)'
    BY <1>1, <1>3, <2>2 DEF Holds
  <2> QED
    BY <1>4, <2>1, <2>2 DEF Owned
<1> QED
  BY <1>2, <1>4, <1>5 DEF Undisturbed

LEMMA UndisturbedShutdown ==
  ASSUME NEW excused, Invariant, Undisturbed(excused), NEW c \in Closers,
         Shutdown(c) \/ ShutdownStep(c) \/ ShutdownTimeout(c)
  PROVE  Undisturbed(excused)'
<1>0. /\ shutdown \in [Closers -> ShutdownPlaces] /\ (closed => closed')
      /\ UNCHANGED <<workflows, request, jobs, worker>>
  BY DEF Invariant, Placed, TypeOK, Shutdown, ShutdownStep, ShutdownClose, ShutdownDone,
         ShutdownTimeout
<1>1. ExitedAfterDrain' /\ AcceptedHaveRows'
  BY <1>0 DEF Undisturbed, ExitedAfterDrain, AcceptedHaveRows, WorkerIs
<1>2. OpenRunsKept(excused)'
  BY <1>0 DEF Undisturbed, OpenRunsKept, Answered, Owned, InQueue, Holds
<1>3. NilAfterExit'
  <2>1. shutdown'[c] = "nil" => \A w \in Workers : WorkerIs(w, "exited")
    BY <1>0 DEF Shutdown, ShutdownStep, ShutdownClose, ShutdownDone, ShutdownTimeout,
                CallerBecomes
  <2>2. \A d \in Closers : d # c => shutdown'[d] = shutdown[d]
    BY <1>0 DEF Shutdown, ShutdownStep, ShutdownClose, ShutdownDone, ShutdownTimeout,
                CallerBecomes
  <2> QED
    BY <1>0, <2>1, <2>2 DEF Undisturbed, NilAfterExit, WorkerIs, CallerIs
<1> QED
  BY <1>1, <1>2, <1>3 DEF Undisturbed

LEMMA UndisturbedNext ==
  ASSUME Faults = {}, "GetWorkflow" \notin HonoursContext, NEW excused, Invariant, NoSendOnClosedChannel,
         Undisturbed(excused), [Next]_vars
  PROVE  Undisturbed(excused)'
<1>1. CASE UNCHANGED vars
  BY <1>1 DEF vars, Undisturbed, ExitedAfterDrain, NilAfterExit, AcceptedHaveRows,
              OpenRunsKept, WorkerIs, CallerIs, Answered, Owned, InQueue, Holds
<1> QED
  BY <1>1, UndisturbedProcess, UndisturbedRequest, UndisturbedWorker, UndisturbedShutdown
     DEF Next, WorkerStep, ProcessStep, Stopped

LEMMA UndisturbedHolds ==
  ASSUME Faults = {}, "GetWorkflow" \notin HonoursContext
  PROVE  Spec => []Undisturbed({})
<1>1. Init => Undisturbed({})
  <2> SUFFICES ASSUME Init PROVE Undisturbed({})
    OBVIOUS
  <2>1. NoRow.status = NotCreated /\ Idle.at = "idle"
    BY DEF NoRow, Workflow, Idle
  <2>2. ExitedAfterDrain /\ NilAfterExit
    BY <2>1 DEF Init, ExitedAfterDrain, NilAfterExit, WorkerIs, CallerIs
  <2>3. AcceptedHaveRows /\ OpenRunsKept({})
    BY <2>1, Distinct DEF Init, StoreInit, AcceptedHaveRows, OpenRunsKept
  <2> QED
    BY <2>2, <2>3 DEF Undisturbed
<1>2. Invariant /\ NoSendOnClosedChannel /\ Undisturbed({}) /\ [Next]_vars => Undisturbed({})'
  BY UndisturbedNext
<1> QED
  BY <1>1, <1>2, EngineInvariantHolds, ChannelOpenForSenders, PTL DEF Spec

(* Over a store that does not fail, and whose GetWorkflow does not look at
   contexts, a run left open by an answered request is with a worker, or on its
   way to one, or was refused by an engine that is shutting down. *)
THEOREM OrphansExplained ==
  ASSUME Faults = {}, "GetWorkflow" \notin HonoursContext, Workers # {}
  PROVE  Spec => []OrphansOnlyAtShutdown
<1>1. Undisturbed({}) => OrphansOnlyAtShutdown
  <2> SUFFICES ASSUME Undisturbed({}), NEW r \in Runs,
                      workflows[r].status = InProgress, Answered(r),
                      ~(request[r] = "unavailable" /\ closed)
               PROVE  \/ \E w \in Workers : Holds(w, r)
                      \/ InQueue(r) /\ \E w \in Workers : ~WorkerIs(w, "exited")
    BY DEF OrphansOnlyAtShutdown
  <2>1. Owned(r)
    BY DEF Undisturbed, OpenRunsKept
  <2>2. ASSUME InQueue(r) PROVE \E w \in Workers : ~WorkerIs(w, "exited")
    <3>1. jobs # <<>>
      BY <2>2 DEF InQueue
    <3> QED
      BY <3>1 DEF Undisturbed, ExitedAfterDrain
  <2> QED
    BY <2>1, <2>2 DEF Owned
<1> QED
  BY <1>1, UndisturbedHolds, PTL

(* Over such a store a Shutdown that drained leaves no accepted run open. *)
THEOREM NilIsDrained ==
  ASSUME Faults = {}, "GetWorkflow" \notin HonoursContext, Workers # {}
  PROVE  Spec => []NilMeansDrained
<1>1. Invariant /\ Undisturbed({}) => NilMeansDrained
  <2> SUFFICES ASSUME Invariant, Undisturbed({}), NEW c \in Closers, CallerIs(c, "nil"),
                      NEW r \in Runs, request[r] = "accepted"
               PROVE  Terminal(workflows[r].status)
    BY DEF NilMeansDrained
  <2>1. jobs = <<>> /\ \A w \in Workers : WorkerIs(w, "exited")
    BY DEF Undisturbed, NilAfterExit, ExitedAfterDrain
  <2>2. ~InQueue(r)
    BY <2>1 DEF InQueue
  <2>3. \A w \in Workers : ~Holds(w, r)
    BY <2>1, StoreAssumption DEF Invariant, Placed, RunsOwned, Busy, WorkerIs, Holds
  <2>4. workflows[r].status # InProgress /\ workflows[r].status # NotCreated
    BY <2>2, <2>3 DEF Undisturbed, OpenRunsKept, AcceptedHaveRows, Owned, Answered, Answers
  <2> QED
    BY <2>4 DEF Terminal, Statuses, Invariant, Placed, TypeOK, StoreTypeOK, Row
<1> QED
  BY <1>1, UndisturbedHolds, EngineInvariantHolds, PTL

-------------------------------------------------------------------------------
(* Deadlines and failures. *)

LEMMA AcceptedRowsExist == Spec => []AcceptedHaveRows
<1>1. Init => AcceptedHaveRows
  BY DEF Init, AcceptedHaveRows
<1>2. Invariant /\ AcceptedHaveRows /\ [Next]_vars => AcceptedHaveRows'
  <2> SUFFICES ASSUME Invariant, AcceptedHaveRows, [Next]_vars,
                      NEW r \in Runs, request'[r] = "accepted"
               PROVE  workflows'[r].status # NotCreated
    BY DEF AcceptedHaveRows
  <2>0. /\ workflows \in [Runs -> Row] /\ request \in [Runs -> RequestPlaces] /\ RequestFits(r)
    BY DEF Invariant, Placed, TypeOK, StoreTypeOK, RowsFit
  <2>1. workflows[r].status # NotCreated
    <3>1. CASE request[r] = "accepted"
      BY <3>1 DEF AcceptedHaveRows
    <3>2. CASE request[r] # "accepted"
      <4>1. request[r] = "send"
        <5>1. ASSUME NEW w \in Workers, WorkerStep(w) \/ Deadline(w) \/ Panic(w)
              PROVE  UNCHANGED request
          BY <5>1 DEF WorkerStep, Dequeue, WorkerExit, LoadWorkflow, FetchStep, Detect,
                      Persist, Fail, Recover, Deadline, Panic
        <5>2. ASSUME NEW c \in Closers, Shutdown(c) \/ ShutdownStep(c) \/ ShutdownTimeout(c)
              PROVE  UNCHANGED request
          BY <5>2 DEF Shutdown, ShutdownStep, ShutdownClose, ShutdownDone, ShutdownTimeout
        <5>3. ASSUME NEW q \in Runs, Trigger(q) \/ RequestStep(q) PROVE request[r] = "send"
          <6>1. CASE q = r
            BY <2>0, <3>2, <5>3, <6>1
               DEF Trigger, RequestStep, TriggerCreate, EnqueueEnter, EnqueueSend,
                   EnqueueReject, At, Becomes
          <6>2. CASE q # r
            BY <2>0, <3>2, <5>3, <6>2
               DEF Trigger, RequestStep, TriggerCreate, EnqueueEnter, EnqueueSend,
                   EnqueueReject, Becomes
          <6> QED
            BY <6>1, <6>2
        <5>4. CASE UNCHANGED vars
          BY <3>2, <5>4 DEF vars
        <5> QED
          BY <3>2, <5>1, <5>2, <5>3, <5>4 DEF Next, Stopped
      <4> QED
        BY <2>0, <4>1, Distinct DEF RequestFits
    <3> QED
      BY <3>1, <3>2
  <2>2. ASSUME NEW q \in Runs, Opens(q) \/ Completes(q) \/ Fails(q)
        PROVE  workflows'[r].status # NotCreated
    <3>1. CASE q # r
      BY <2>0, <2>1, <2>2, <3>1 DEF Opens, Completes, Fails
    <3>2. CASE q = r
      <4>1. CASE Opens(r)
        BY <2>0, <4>1, OpenedRow, Distinct DEF Opens
      <4>2. CASE Completes(r)
        BY <2>0, <4>2, CompletedRow, Distinct DEF Completes
      <4>3. CASE Fails(r)
        <5>1. PICK steps, error :
                workflows' = [workflows EXCEPT ![r] = Workflow(Failed, steps, error, NoRun)]
          BY <4>3 DEF Fails
        <5>2. workflows'[r].status = Failed
          BY <2>0, <5>1 DEF Workflow
        <5> QED
          BY <5>2, Distinct
      <4> QED
        BY <2>2, <3>2, <4>1, <4>2, <4>3
    <3> QED
      BY <3>1, <3>2
  <2> QED
    BY <2>1, <2>2, StoreSteps DEF storeVars
<1> QED
  BY <1>1, <1>2, EngineInvariantHolds, PTL DEF Spec

(* A step of another goroutine leaves the row of a worker's run, and what the
   worker is doing, alone. *)
LEMMA OthersKeepOff ==
  ASSUME Invariant, [Next]_vars, NEW w \in Workers, Busy(w), ~ProcessStep(w)
  PROVE  /\ worker'[w] = worker[w]
         /\ workflows'[worker[w].run] = workflows[worker[w].run]
<1>0. /\ worker \in [Workers -> Worker] /\ workflows \in [Runs -> Row]
      /\ worker[w].run \in Runs /\ request[worker[w].run] = "accepted" /\ SingleOwner
  BY WorkerKnows DEF Invariant
<1>1. ASSUME NEW v \in Workers, ProcessStep(v)
      PROVE  /\ worker'[w] = worker[w]
             /\ workflows'[worker[w].run] = workflows[worker[w].run]
  <2>1. v # w /\ StepsOn(v)
    BY <1>1, ProcessStepsOn DEF Invariant
  <2>2. worker[v].run # worker[w].run /\ worker[v].run \in Runs
    BY <1>0, <2>1, WorkerKnows DEF SingleOwner, Holds, StepsOn
  <2>3. ASSUME NEW r \in Runs, r = worker[v].run PROVE workflows'[worker[w].run] = workflows[worker[w].run]
    <3>1. CASE Persist(v)
      <4>1. \/ UNCHANGED storeVars
            \/ CompleteWorkflow(r, worker[v].steps, worker[v].error, worker[v].product)
        BY <2>3, <3>1 DEF Persist
      <4> QED
        BY <1>0, <2>2, <2>3, <4>1, CompleteRow DEF storeVars
    <3>2. CASE Fail(v)
      <4>1. UNCHANGED storeVars \/ FailWorkflow(r, worker[v].steps, worker[v].error)
        BY <2>3, <3>2 DEF Fail
      <4> QED
        BY <1>0, <2>2, <2>3, <4>1, FailRow DEF storeVars
    <3>3. CASE ~Persist(v) /\ ~Fail(v)
      BY <1>1, <3>3 DEF ProcessStep, LoadWorkflow, FetchStep, Detect, Panic, Recover, Deadline
    <3> QED
      BY <3>1, <3>2, <3>3
  <2>4. worker'[w] = worker[w]
    BY <1>0, <2>1 DEF StepsOn
  <2> QED
    BY <2>2, <2>3, <2>4
<1>2. ASSUME NEW v \in Workers, Dequeue(v) \/ WorkerExit(v)
      PROVE  worker'[w] = worker[w] /\ UNCHANGED workflows
  BY <1>0, <1>2 DEF Dequeue, WorkerExit, WorkerIs, Busy
<1>3. ASSUME NEW r \in Runs, Trigger(r) \/ RequestStep(r)
      PROVE  UNCHANGED worker /\ workflows'[worker[w].run] = workflows[worker[w].run]
  <2>1. UNCHANGED worker /\ request[r] # "accepted"
    BY <1>3 DEF Trigger, RequestStep, TriggerCreate, EnqueueEnter, EnqueueSend, EnqueueReject, At
  <2>2. UNCHANGED storeVars \/ Opens(r) \/ Fails(r)
    BY <1>3, RequestStoreStep
  <2> QED
    BY <1>0, <2>1, <2>2 DEF storeVars, Opens, Fails
<1>4. ASSUME NEW c \in Closers, Shutdown(c) \/ ShutdownStep(c) \/ ShutdownTimeout(c)
      PROVE  UNCHANGED <<worker, workflows>>
  BY <1>4 DEF Shutdown, ShutdownStep, ShutdownClose, ShutdownDone, ShutdownTimeout
<1>5. CASE UNCHANGED vars
  BY <1>5 DEF vars
<1> QED
  BY <1>1, <1>2, <1>3, <1>4, <1>5 DEF Next, WorkerStep, ProcessStep, Stopped

(* Over a store whose completions look at contexts, a run past its deadline never
   completes, whatever faults the store has besides. *)
THEOREM LateRunsDoNotComplete ==
  ASSUME "CompleteWorkflow" \in HonoursContext
  PROVE  Spec => LateRunNeverCompletes
<1>1. Invariant /\ [Next]_vars =>
        \A w \in Workers : WorkerIs(w, "persist") /\ worker[w].late =>
          workflows'[worker[w].run].status = workflows[worker[w].run].status
  <2> SUFFICES ASSUME Invariant, [Next]_vars, NEW w \in Workers,
                      WorkerIs(w, "persist"), worker[w].late = TRUE
               PROVE  workflows'[worker[w].run] = workflows[worker[w].run]
    BY DEF Invariant, Placed, TypeOK, Worker
  <2>1. CASE ProcessStep(w)
    <3>1. Outcomes("CompleteWorkflow", worker[w].late) = {"error"}
      BY DEF Outcomes
    <3>2. Persist(w) \/ Panic(w) \/ Deadline(w)
      BY <2>1 DEF ProcessStep, LoadWorkflow, FetchStep, Detect, Fail, Recover, WorkerIs
    <3> QED
      BY <3>1, <3>2 DEF Persist, Panic, Deadline, TakesEffect, storeVars
  <2>2. CASE ~ProcessStep(w)
    BY <2>2, OthersKeepOff DEF Busy, WorkerIs
  <2> QED
    BY <2>1, <2>2
<1> QED
  BY <1>1, EngineInvariantHolds, PTL DEF Spec, LateRunNeverCompletes

(* Over a store that does not fail by itself, a worker that leaves fail()
   leaves its run closed, deadline passed or not. *)
THEOREM FailuresAreRecorded ==
  ASSUME Faults = {}
  PROVE  Spec => FailRecordsFailure
<1>1. Invariant /\ AcceptedHaveRows /\ [Next]_vars =>
        \A w \in Workers : WorkerIs(w, "fail") /\ worker'[w].at # "fail" =>
          Terminal(workflows'[worker[w].run].status)
  <2> SUFFICES ASSUME Invariant, AcceptedHaveRows, [Next]_vars, NEW w \in Workers,
                      WorkerIs(w, "fail"), worker'[w].at # "fail"
               PROVE  Terminal(workflows'[worker[w].run].status)
    OBVIOUS
  <2>0. /\ Busy(w) /\ worker[w].run \in Runs /\ request[worker[w].run] = "accepted"
        /\ workflows \in [Runs -> Row]
    BY WorkerKnows DEF Busy, WorkerIs
  <2>1. ProcessStep(w)
    BY <2>0, OthersKeepOff DEF WorkerIs
  <2>2. Fail(w)
    BY <2>1 DEF ProcessStep, LoadWorkflow, FetchStep, Detect, Panic, Persist, Recover,
                Deadline, WorkerIs
  <2>3. PICK r \in Runs : r = worker[w].run
    BY <2>0
  <2>4. FailWorkflow(r, worker[w].steps, worker[w].error)
    BY <2>2, <2>3 DEF Fail, Outcomes, TakesEffect
  <2>5. CASE workflows[r].status # InProgress /\ UNCHANGED storeVars
    <3>1. workflows[r].status \in Statuses /\ workflows[r].status # NotCreated
      BY <2>0, <2>3 DEF Row, AcceptedHaveRows
    <3> QED
      BY <2>3, <2>5, <3>1 DEF storeVars, Terminal, Statuses
  <2>6. CASE workflows' = [workflows EXCEPT
                            ![r] = Workflow(Failed, worker[w].steps, worker[w].error, NoRun)]
    <3>1. workflows'[r].status = Failed
      BY <2>0, <2>6 DEF Workflow
    <3> QED
      BY <2>3, <3>1, Distinct DEF Terminal
  <2> QED
    BY <2>4, <2>5, <2>6, FailRow
<1> QED
  BY <1>1, EngineInvariantHolds, AcceptedRowsExist, PTL DEF Spec, FailRecordsFailure

===============================================================================
