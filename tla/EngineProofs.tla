----------------------------- MODULE EngineProofs -----------------------------
(***************************************************************************)
(* Where the runs are, for any number of requests, workers and callers of  *)
(* Shutdown, and any faults of the store.  Placed and SingleOwner are      *)
(* inductive together: a step of process() keeps the worker's run or lets  *)
(* go of it (StepsOn), so only the channel's send and receive move a run.  *)
(* Then how the row of each run follows from where the run is: a step      *)
(* changes the row of one run, and SingleOwner says that no other slot or  *)
(* worker knows that run (RequestRowFits and WorkerRowFits).               *)
(***************************************************************************)
EXTENDS EngineInvariant, SequenceTheorems, TLAPS

LEMMA NoStepsTyped == <<>> \in Seq(Steps)
OBVIOUS

LEMMA CreateTyped ==
  ASSUME StoreTypeOK, NEW r \in Runs, CreateWorkflow(r)
  PROVE  StoreTypeOK'
<1>1. Workflow(InProgress, <<>>, "", NoRun) \in Row
  BY NoStepsTyped DEF Workflow, Row, Statuses, Errors
<1> QED
  BY <1>1 DEF StoreTypeOK, CreateWorkflow

LEMMA CompleteTyped ==
  ASSUME StoreTypeOK, NEW r \in Runs, NEW steps \in Seq(Steps),
         NEW error \in Errors, NEW claims \in Runs \cup {NoRun},
         CompleteWorkflow(r, steps, error, claims)
  PROVE  StoreTypeOK'
BY DEF StoreTypeOK, storeVars, CompleteWorkflow, Workflow, Row, Statuses

LEMMA FailTyped ==
  ASSUME StoreTypeOK, NEW r \in Runs, NEW steps \in Seq(Steps),
         NEW error \in Errors, FailWorkflow(r, steps, error)
  PROVE  StoreTypeOK'
BY DEF StoreTypeOK, storeVars, FailWorkflow, Workflow, Row, Statuses

LEMMA RecordTyped ==
  ASSUME NEW steps \in Seq(Steps), NEW name \in {FetchProduct, DetectClaims, PersistResult},
         NEW failed \in BOOLEAN
  PROVE  RecordStep(steps, name, failed) \in Seq(Steps)
BY DEF RecordStep, Step, Steps

LEMMA WithoutLastTyped ==
  ASSUME NEW steps \in Seq(Steps)
  PROVE  WithoutLast(steps) \in Seq(Steps)
BY DEF WithoutLast

LEMMA IdleTyped == Idle \in Worker
BY NoStepsTyped DEF Idle, Worker, WorkerPlaces, Errors

LEMMA PlacedInit == Init => Placed
<1> SUFFICES ASSUME Init PROVE Placed
  OBVIOUS
<1>1. StoreTypeOK
  <2>1. NoRow \in Row
    BY NoStepsTyped DEF NoRow, Workflow, Row, Statuses, Errors
  <2> QED
    BY <2>1 DEF Init, StoreInit, StoreTypeOK
<1>2. jobs \in Seq(Runs) /\ Len(jobs) = 0
  <2>1. <<>> \in Seq(Runs) /\ Len(<<>>) = 0
    OBVIOUS
  <2> QED
    BY <2>1 DEF Init
<1>3. TypeOK
  <2>1. worker \in [Workers -> Worker]
    BY IdleTyped DEF Init
  <2>2. request \in [Runs -> RequestPlaces] /\ shutdown \in [Closers -> ShutdownPlaces]
    BY DEF Init, RequestPlaces, ShutdownPlaces
  <2>3. Len(jobs) <= QueueSize
    <3>1. QueueSize \in Nat
      BY EngineAssumption
    <3> QED
      BY <1>2, <3>1
  <2>4. closed \in BOOLEAN
    BY DEF Init
  <2> QED
    BY <1>1, <1>2, <2>1, <2>2, <2>3, <2>4 DEF TypeOK
<1>4. RunsOwned /\ ProductsKnown
  BY DEF Init, RunsOwned, ProductsKnown, Busy, Idle
<1>5. RunsQueued
  BY <1>2 DEF RunsQueued
<1> QED
  BY <1>3, <1>4, <1>5 DEF Placed

(* A step of process(), between taking a run from the channel and returning. *)
ProcessStep(w) ==
  \/ LoadWorkflow(w) \/ FetchStep(w) \/ Detect(w) \/ Panic(w) \/ Persist(w)
  \/ Fail(w) \/ Recover(w) \/ Deadline(w)

(* Such a step keeps the worker's run or lets go of it, and touches neither the
   requests nor the channel. *)
StepsOn(w) ==
  /\ Busy(w)
  /\ worker' = [worker EXCEPT ![w] = worker'[w]]
  /\ worker'[w] \in Worker
  /\ worker'[w] = Idle \/ (Busy(w)' /\ worker'[w].run = worker[w].run)
  /\ UNCHANGED <<request, jobs, closed, shutdown>>

LEMMA KeepsItsRun ==
  ASSUME worker \in [Workers -> Worker], NEW w \in Workers, Busy(w), NEW after \in Worker,
         worker' = [worker EXCEPT ![w] = after],
         \/ after = Idle
         \/ after.at \notin {"idle", "exited"} /\ after.run = worker[w].run,
         UNCHANGED <<request, jobs, closed, shutdown>>
  PROVE  StepsOn(w)
<1>1. worker'[w] = after
  OBVIOUS
<1> QED
  BY <1>1 DEF StepsOn, Busy

LEMMA ProcessStepsOn ==
  ASSUME Placed, NEW w \in Workers, ProcessStep(w)
  PROVE  StepsOn(w) /\ StoreTypeOK'
<1> DEFINE me == worker[w]
<1>0. worker \in [Workers -> Worker] /\ me \in Worker /\ StoreTypeOK
  BY DEF Placed, TypeOK
<1>1. me.at \notin {"idle", "exited"}
  BY DEF ProcessStep, LoadWorkflow, FetchStep, Detect, Panic, Persist, Fail, Recover,
         Deadline, WorkerIs
<1>2. Busy(w)
  BY <1>1 DEF Busy
<1>3. /\ me.run \in Runs /\ ProductOf[me.run] \in Catalogue
      /\ me.steps \in Seq(Steps) /\ me.error \in Errors
      /\ me.product \in Runs \cup {NoRun}
  BY <1>0, <1>2 DEF Placed, RunsOwned, ProductsKnown, Worker
<1>4. workflows[me.run] \in Row /\ products[ProductOf[me.run]] \in Runs \cup {NoRun}
  BY <1>0, <1>3 DEF StoreTypeOK
<1>5. /\ UNCHANGED <<request, jobs, closed, shutdown>>
      /\ \/ UNCHANGED storeVars
         \/ CompleteWorkflow(me.run, me.steps, me.error, me.product)
         \/ FailWorkflow(me.run, me.steps, me.error)
  BY DEF ProcessStep, LoadWorkflow, FetchStep, Detect, Panic, Persist, Fail, Recover,
         Deadline, storeVars
<1>6. StoreTypeOK'
  BY <1>0, <1>3, <1>5, CompleteTyped, FailTyped DEF StoreTypeOK, storeVars
<1> SUFFICES StepsOn(w)
  BY <1>6
<1>7. ASSUME NEW after \in Worker, worker' = [worker EXCEPT ![w] = after],
             \/ after = Idle
             \/ after.at \notin {"idle", "exited"} /\ after.run = me.run
      PROVE  StepsOn(w)
  BY <1>0, <1>2, <1>5, <1>7, KeepsItsRun
<1>8. ASSUME worker' = [worker EXCEPT ![w] = Idle] PROVE StepsOn(w)
  BY <1>7, <1>8, IdleTyped
<1> HIDE DEF me
<1>9. CASE LoadWorkflow(w)
  <2> DEFINE after == [me EXCEPT !.at = "fetch", !.steps = workflows[me.run].steps,
                                 !.error = workflows[me.run].error]
  <2>1. worker' = [worker EXCEPT ![w] = Idle] \/ worker' = [worker EXCEPT ![w] = after]
    BY <1>0, <1>9 DEF LoadWorkflow, Return, me
  <2>2. after \in Worker /\ after.at = "fetch" /\ after.run = me.run
    BY <1>0, <1>4 DEF Worker, WorkerPlaces, Row
  <2> QED
    BY <1>7, <1>8, <2>1, <2>2
<1>10. CASE FetchStep(w)
  <2> DEFINE steps(failed) == RecordStep(me.steps, FetchProduct, failed)
             gone == [me EXCEPT !.at = "fail", !.steps = steps(TRUE), !.error = "fetch product"]
             found == [me EXCEPT !.at = "detect", !.steps = steps(FALSE),
                                 !.product = products[ProductOf[me.run]]]
  <2>1. worker' = [worker EXCEPT ![w] = gone] \/ worker' = [worker EXCEPT ![w] = found]
    BY <1>0, <1>10 DEF FetchStep, me
  <2>2. steps(TRUE) \in Seq(Steps) /\ steps(FALSE) \in Seq(Steps)
    BY <1>3, RecordTyped
  <2>3. gone \in Worker /\ gone.at = "fail" /\ gone.run = me.run
    BY <1>0, <2>2 DEF Worker, WorkerPlaces, Errors
  <2>4. found \in Worker /\ found.at = "detect" /\ found.run = me.run
    BY <1>0, <1>4, <2>2 DEF Worker, WorkerPlaces
  <2> QED
    BY <1>7, <2>1, <2>3, <2>4
<1>11. CASE Detect(w)
  <2> DEFINE steps == RecordStep(RecordStep(me.steps, DetectClaims, FALSE), PersistResult, FALSE)
             after == [me EXCEPT !.at = "persist", !.product = me.run, !.steps = steps]
  <2>1. worker' = [worker EXCEPT ![w] = after]
    BY <1>0, <1>11 DEF Detect, me
  <2>2. steps \in Seq(Steps)
    BY <1>3, RecordTyped
  <2>3. after \in Worker /\ after.at = "persist" /\ after.run = me.run
    BY <1>0, <1>3, <2>2 DEF Worker, WorkerPlaces
  <2> QED
    BY <1>7, <2>1, <2>3
<1>12. CASE Panic(w)
  <2> DEFINE after == [me EXCEPT !.at = "recover"]
  <2>1. worker' = [worker EXCEPT ![w] = after]
    BY <1>0, <1>12 DEF Panic, me
  <2>2. after \in Worker /\ after.at = "recover" /\ after.run = me.run
    BY <1>0 DEF Worker, WorkerPlaces
  <2> QED
    BY <1>7, <2>1, <2>2
<1>13. CASE Persist(w)
  <2> DEFINE steps == RecordStep(WithoutLast(me.steps), PersistResult, TRUE)
             after == [me EXCEPT !.at = "fail", !.steps = steps, !.error = "persist result"]
  <2>1. worker' = [worker EXCEPT ![w] = Idle] \/ worker' = [worker EXCEPT ![w] = after]
    BY <1>0, <1>13 DEF Persist, Return, me
  <2>2. steps \in Seq(Steps)
    BY <1>3, RecordTyped, WithoutLastTyped
  <2>3. after \in Worker /\ after.at = "fail" /\ after.run = me.run
    BY <1>0, <2>2 DEF Worker, WorkerPlaces, Errors
  <2> QED
    BY <1>7, <1>8, <2>1, <2>3
<1>14. CASE Fail(w)
  BY <1>8, <1>14 DEF Fail, Return
<1>15. CASE Recover(w)
  <2> DEFINE after == [me EXCEPT !.at = "fail", !.steps = workflows[me.run].steps,
                                 !.error = "internal error"]
  <2>1. worker' = [worker EXCEPT ![w] = Idle] \/ worker' = [worker EXCEPT ![w] = after]
    BY <1>0, <1>15 DEF Recover, Return, me
  <2>2. after \in Worker /\ after.at = "fail" /\ after.run = me.run
    BY <1>0, <1>4 DEF Worker, WorkerPlaces, Row, Errors
  <2> QED
    BY <1>7, <1>8, <2>1, <2>2
<1>16. CASE Deadline(w)
  <2> DEFINE after == [me EXCEPT !.late = TRUE]
  <2>1. worker' = [worker EXCEPT ![w] = after]
    BY <1>0, <1>16 DEF Deadline, me
  <2>2. after \in Worker /\ after.at \notin {"idle", "exited"} /\ after.run = me.run
    BY <1>0, <1>1 DEF Worker, me
  <2> QED
    BY <1>7, <2>1, <2>2
<1> QED
  BY <1>9, <1>10, <1>11, <1>12, <1>13, <1>14, <1>15, <1>16 DEF ProcessStep

-------------------------------------------------------------------------------
(* A step of a request that keeps accepted requests accepted. *)
LEMMA RequestStepKeeps ==
  ASSUME Placed, NEW r \in Runs, request[r] # "accepted",
         NEW place \in RequestPlaces, Becomes(r, place), UNCHANGED <<jobs, worker>>
  PROVE  /\ request' \in [Runs -> RequestPlaces]
         /\ RunsOwned' /\ RunsQueued'
         /\ (place \in {"create", "enqueue", "send", "reject", "accepted"} =>
              ProductOf[r] \in Catalogue) => ProductsKnown'
<1>1. /\ request \in [Runs -> RequestPlaces] /\ jobs \in Seq(Runs)
      /\ RunsOwned /\ RunsQueued /\ ProductsKnown
  BY DEF Placed, TypeOK
<1>2. \A q \in Runs : request'[q] = IF q = r THEN place ELSE request[q]
  BY <1>1 DEF Becomes
<1>3. request' \in [Runs -> RequestPlaces]
  BY <1>1 DEF Becomes
<1>4. RunsOwned'
  BY <1>1, <1>2 DEF RunsOwned, Busy
<1>5. RunsQueued'
  BY <1>1, <1>2 DEF RunsQueued
<1>6. (place \in {"create", "enqueue", "send", "reject", "accepted"} =>
        ProductOf[r] \in Catalogue) => ProductsKnown'
  BY <1>1, <1>2 DEF ProductsKnown
<1> QED
  BY <1>3, <1>4, <1>5, <1>6

LEMMA PlacedNext == Placed /\ [Next]_vars => Placed'
<1> SUFFICES ASSUME Placed, [Next]_vars PROVE Placed'
  OBVIOUS
<1>0. /\ StoreTypeOK /\ request \in [Runs -> RequestPlaces]
      /\ jobs \in Seq(Runs) /\ Len(jobs) <= QueueSize /\ closed \in BOOLEAN
      /\ worker \in [Workers -> Worker] /\ shutdown \in [Closers -> ShutdownPlaces]
      /\ RunsOwned /\ RunsQueued /\ ProductsKnown
  BY DEF Placed, TypeOK
<1>1. ASSUME NEW r \in Runs, Trigger(r) PROVE Placed'
  <2>1. PICK place \in {"internal error", "create", "product not found"} :
          Becomes(r, place) /\ (place = "create" => ProductOf[r] \in DOMAIN products)
    BY <1>1 DEF Trigger
  <2>2. place \in RequestPlaces /\ request[r] # "accepted"
    BY <1>1 DEF RequestPlaces, Answers, Trigger, At
  <2>3. DOMAIN products = Catalogue
    BY <1>0 DEF StoreTypeOK
  <2>4. UNCHANGED <<workflows, products, jobs, closed, worker, shutdown>>
    BY <1>1 DEF Trigger
  <2>5. request' \in [Runs -> RequestPlaces] /\ RunsOwned' /\ RunsQueued' /\ ProductsKnown'
    BY <2>1, <2>2, <2>3, <2>4, RequestStepKeeps
  <2> QED
    BY <1>0, <2>4, <2>5 DEF Placed, TypeOK, StoreTypeOK
<1>2. ASSUME NEW r \in Runs, TriggerCreate(r) PROVE Placed'
  <2>1. PICK place \in {"internal error", "enqueue"} : Becomes(r, place)
    BY <1>2 DEF TriggerCreate
  <2>2. place \in RequestPlaces /\ request[r] # "accepted" /\ ProductOf[r] \in Catalogue
    BY <1>0, <1>2 DEF RequestPlaces, Answers, TriggerCreate, At, ProductsKnown
  <2>3. UNCHANGED <<jobs, closed, worker, shutdown>>
    BY <1>2 DEF TriggerCreate
  <2>4. request' \in [Runs -> RequestPlaces] /\ RunsOwned' /\ RunsQueued' /\ ProductsKnown'
    BY <2>1, <2>2, <2>3, RequestStepKeeps
  <2>5. StoreTypeOK'
    BY <1>0, <1>2, CreateTyped DEF TriggerCreate, StoreTypeOK, storeVars
  <2> QED
    BY <1>0, <2>3, <2>4, <2>5 DEF Placed, TypeOK
<1>3. ASSUME NEW r \in Runs, EnqueueEnter(r) PROVE Placed'
  <2>1. PICK place \in {"unavailable", "send"} : Becomes(r, place)
    BY <1>3 DEF EnqueueEnter
  <2>2. place \in RequestPlaces /\ request[r] # "accepted" /\ ProductOf[r] \in Catalogue
    BY <1>0, <1>3 DEF RequestPlaces, Answers, EnqueueEnter, At, ProductsKnown
  <2>3. UNCHANGED <<workflows, products, jobs, closed, worker, shutdown>>
    BY <1>3 DEF EnqueueEnter
  <2>4. request' \in [Runs -> RequestPlaces] /\ RunsOwned' /\ RunsQueued' /\ ProductsKnown'
    BY <2>1, <2>2, <2>3, RequestStepKeeps
  <2> QED
    BY <1>0, <2>3, <2>4 DEF Placed, TypeOK, StoreTypeOK
<1>4. ASSUME NEW r \in Runs, EnqueueSend(r) PROVE Placed'
  <2>1. /\ UNCHANGED <<workflows, products, closed, worker, shutdown>>
        /\ request[r] = "send" /\ ProductOf[r] \in Catalogue
    BY <1>0, <1>4 DEF EnqueueSend, At, ProductsKnown
  <2>2. CASE Len(jobs) < QueueSize
    <3>1. jobs' = Append(jobs, r) /\ request' = [request EXCEPT ![r] = "accepted"]
      BY <1>4, <2>2 DEF EnqueueSend, Becomes
    <3>2. request' \in [Runs -> RequestPlaces]
      BY <1>0, <3>1 DEF RequestPlaces, Answers
    <3>3. jobs' \in Seq(Runs) /\ Len(jobs') <= QueueSize
      <4>1. QueueSize \in Nat
        BY EngineAssumption
      <4> QED
        BY <1>0, <2>2, <3>1, <4>1
    <3>4. \A q \in Runs : request[q] = "accepted" => request'[q] = "accepted"
      BY <1>0, <3>1
    <3>5. RunsOwned'
      BY <1>0, <2>1, <3>4 DEF RunsOwned, Busy
    <3>6. RunsQueued'
      <4> SUFFICES ASSUME NEW i \in 1..Len(jobs') PROVE request'[jobs'[i]] = "accepted"
        BY DEF RunsQueued
      <4>1. CASE i \in 1..Len(jobs)
        BY <1>0, <3>1, <3>4, <4>1 DEF RunsQueued
      <4>2. CASE i = Len(jobs) + 1
        BY <1>0, <3>1, <4>2
      <4> QED
        BY <1>0, <3>1, <4>1, <4>2
    <3>7. ProductsKnown'
      BY <1>0, <2>1, <3>1 DEF ProductsKnown
    <3> QED
      BY <1>0, <2>1, <3>2, <3>3, <3>5, <3>6, <3>7 DEF Placed, TypeOK, StoreTypeOK
  <2>3. CASE ~(Len(jobs) < QueueSize)
    <3>1. Becomes(r, "reject") /\ "reject" \in RequestPlaces /\ UNCHANGED jobs
      BY <1>4, <2>3 DEF EnqueueSend, RequestPlaces
    <3>2. request' \in [Runs -> RequestPlaces] /\ RunsOwned' /\ RunsQueued' /\ ProductsKnown'
      BY <2>1, <3>1, RequestStepKeeps
    <3> QED
      BY <1>0, <2>1, <3>1, <3>2 DEF Placed, TypeOK, StoreTypeOK
  <2> QED
    BY <2>2, <2>3
<1>5. ASSUME NEW r \in Runs, EnqueueReject(r) PROVE Placed'
  <2>1. /\ Becomes(r, "unavailable") /\ "unavailable" \in RequestPlaces
        /\ request[r] # "accepted" /\ UNCHANGED <<jobs, closed, worker, shutdown>>
    BY <1>5 DEF EnqueueReject, RequestPlaces, Answers, At
  <2>2. request' \in [Runs -> RequestPlaces] /\ RunsOwned' /\ RunsQueued' /\ ProductsKnown'
    BY <2>1, RequestStepKeeps
  <2>3. UNCHANGED storeVars \/ FailWorkflow(r, <<>>, "queue full")
    BY <1>5 DEF EnqueueReject
  <2>4. StoreTypeOK'
    <3>1. "queue full" \in Errors
      BY DEF Errors
    <3> QED
      BY <1>0, <2>3, <3>1, NoStepsTyped, FailTyped DEF StoreTypeOK, storeVars
  <2> QED
    BY <1>0, <2>1, <2>2, <2>4 DEF Placed, TypeOK
<1>6. ASSUME NEW w \in Workers, ProcessStep(w) PROVE Placed'
  <2>1. StepsOn(w) /\ StoreTypeOK'
    BY <1>6, ProcessStepsOn
  <2>2. RunsOwned'
    <3>1. \A v \in Workers : v # w => worker'[v] = worker[v]
      BY <1>0, <2>1 DEF StepsOn
    <3>2. ASSUME NEW v \in Workers, v # w
          PROVE  IF Busy(v)' THEN worker'[v].run \in Runs /\ request'[worker'[v].run] = "accepted"
                            ELSE worker'[v].run = NoRun
      BY <1>0, <2>1, <3>1, <3>2 DEF StepsOn, RunsOwned, Busy
    <3>3. IF Busy(w)' THEN worker'[w].run \in Runs /\ request'[worker'[w].run] = "accepted"
                     ELSE worker'[w].run = NoRun
      <4>1. CASE worker'[w] = Idle
        <5>1. Idle.at = "idle" /\ Idle.run = NoRun
          BY DEF Idle
        <5> QED
          BY <4>1, <5>1 DEF Busy
      <4>2. CASE Busy(w)' /\ worker'[w].run = worker[w].run
        <5>1. worker[w].run \in Runs /\ request[worker[w].run] = "accepted"
          BY <1>0, <2>1 DEF StepsOn, RunsOwned
        <5> QED
          BY <2>1, <4>2, <5>1 DEF StepsOn
      <4> QED
        BY <2>1, <4>1, <4>2 DEF StepsOn
    <3> QED
      BY <3>2, <3>3 DEF RunsOwned
  <2>3. RunsQueued' /\ ProductsKnown'
    BY <1>0, <2>1 DEF StepsOn, RunsQueued, ProductsKnown
  <2>4. worker' \in [Workers -> Worker]
    BY <1>0, <2>1 DEF StepsOn
  <2> QED
    BY <1>0, <2>1, <2>2, <2>3, <2>4 DEF Placed, TypeOK, StepsOn
<1>7. ASSUME NEW w \in Workers, Dequeue(w) PROVE Placed'
  <2> DEFINE after == [Idle EXCEPT !.at = "load", !.run = Head(jobs)]
  <2>1. /\ jobs # <<>> /\ jobs' = Tail(jobs) /\ worker' = [worker EXCEPT ![w] = after]
        /\ UNCHANGED <<workflows, products, request, closed, shutdown>>
    BY <1>7 DEF Dequeue
  <2>2. /\ Head(jobs) \in Runs /\ Head(jobs) = jobs[1] /\ 1 \in 1..Len(jobs)
        /\ Tail(jobs) \in Seq(Runs) /\ Len(Tail(jobs)) = Len(jobs) - 1
        /\ \A i \in 1..Len(Tail(jobs)) : Tail(jobs)[i] = jobs[i + 1] /\ i + 1 \in 1..Len(jobs)
    BY <1>0, <2>1
  <2>3. after \in Worker /\ after.at = "load" /\ after.run = Head(jobs)
    BY <2>2, IdleTyped DEF Worker, WorkerPlaces, Idle
  <2> HIDE DEF after
  <2>4. RunsOwned'
    <3>1. request[Head(jobs)] = "accepted"
      BY <1>0, <2>2 DEF RunsQueued
    <3>2. \A v \in Workers : worker'[v] = IF v = w THEN after ELSE worker[v]
      BY <1>0, <2>1
    <3> QED
      BY <1>0, <2>1, <2>2, <2>3, <3>1, <3>2 DEF RunsOwned, Busy
  <2>5. RunsQueued' /\ ProductsKnown'
    BY <1>0, <2>1, <2>2 DEF RunsQueued, ProductsKnown
  <2>6. Len(jobs') <= QueueSize
    <3>1. QueueSize \in Nat
      BY EngineAssumption
    <3> QED
      BY <1>0, <2>1, <2>2, <3>1
  <2>7. worker' \in [Workers -> Worker] /\ jobs' \in Seq(Runs)
    BY <1>0, <2>1, <2>2, <2>3
  <2> QED
    BY <1>0, <2>1, <2>4, <2>5, <2>6, <2>7 DEF Placed, TypeOK, StoreTypeOK
<1>8. ASSUME NEW w \in Workers, WorkerExit(w) PROVE Placed'
  <2>1. /\ worker[w].at = "idle" /\ worker' = [worker EXCEPT ![w].at = "exited"]
        /\ UNCHANGED <<workflows, products, request, jobs, closed, shutdown>>
    BY <1>8 DEF WorkerExit, WorkerIs
  <2>2. worker' \in [Workers -> Worker]
    BY <1>0, <2>1 DEF Worker, WorkerPlaces
  <2>3. RunsOwned'
    BY <1>0, <2>1 DEF RunsOwned, Busy, Worker
  <2>4. RunsQueued' /\ ProductsKnown'
    BY <1>0, <2>1 DEF RunsQueued, ProductsKnown
  <2> QED
    BY <1>0, <2>1, <2>2, <2>3, <2>4 DEF Placed, TypeOK, StoreTypeOK
<1>9. ASSUME NEW c \in Closers,
             Shutdown(c) \/ ShutdownClose(c) \/ ShutdownDone(c) \/ ShutdownTimeout(c)
      PROVE  Placed'
  <2>1. /\ UNCHANGED <<workflows, products, request, jobs, worker>>
        /\ closed' \in BOOLEAN /\ shutdown' \in [Closers -> ShutdownPlaces]
    BY <1>0, <1>9 DEF Shutdown, ShutdownClose, ShutdownDone, ShutdownTimeout,
                      CallerBecomes, ShutdownPlaces
  <2>2. RunsOwned' /\ RunsQueued' /\ ProductsKnown'
    BY <1>0, <2>1 DEF RunsOwned, Busy, RunsQueued, ProductsKnown
  <2> QED
    BY <1>0, <2>1, <2>2 DEF Placed, TypeOK, StoreTypeOK
<1>10. CASE UNCHANGED vars
  BY <1>10 DEF vars, Placed, TypeOK, StoreTypeOK, RunsOwned, RunsQueued, ProductsKnown, Busy
<1> QED
  BY <1>1, <1>2, <1>3, <1>4, <1>5, <1>6, <1>7, <1>8, <1>9, <1>10
     DEF Next, RequestStep, WorkerStep, ShutdownStep, Stopped, ProcessStep

LEMMA AlwaysPlaced == Spec => []Placed
BY PlacedInit, PlacedNext, PTL DEF Spec

(* The engine's variables keep their types, and its channel never holds more
   than QueueSize runs. *)
THEOREM Typed == Spec => []TypeOK
<1>1. Placed => TypeOK
  BY DEF Placed
<1> QED
  BY <1>1, AlwaysPlaced, PTL

-------------------------------------------------------------------------------
(* SingleOwner is inductive relative to Placed: a run enters the channel when
   its request, which nothing owns yet, is accepted, and moves from the channel
   to the worker that takes it out. *)

LEMMA SingleOwnerKept ==
  ASSUME SingleOwner, UNCHANGED <<jobs, worker>>,
         \A r \in Runs : request[r] = "accepted" => request'[r] = "accepted"
  PROVE  SingleOwner'
BY DEF SingleOwner, Holds, InQueue, Owned

LEMMA SingleOwnerNext == Placed /\ SingleOwner /\ [Next]_vars => SingleOwner'
<1> SUFFICES ASSUME Placed, SingleOwner, [Next]_vars PROVE SingleOwner'
  OBVIOUS
<1>0. /\ request \in [Runs -> RequestPlaces] /\ jobs \in Seq(Runs)
      /\ worker \in [Workers -> Worker]
  BY DEF Placed, TypeOK
<1>1. ASSUME NEW r \in Runs,
             Trigger(r) \/ TriggerCreate(r) \/ EnqueueEnter(r) \/ EnqueueReject(r)
      PROVE  SingleOwner'
  <2>1. UNCHANGED <<jobs, worker>>
    BY <1>1 DEF Trigger, TriggerCreate, EnqueueEnter, EnqueueReject
  <2>2. \A q \in Runs : request[q] = "accepted" => request'[q] = "accepted"
    BY <1>0, <1>1 DEF Trigger, TriggerCreate, EnqueueEnter, EnqueueReject, At, Becomes
  <2> QED
    BY <2>1, <2>2, SingleOwnerKept
<1>2. ASSUME NEW r \in Runs, EnqueueSend(r) PROVE SingleOwner'
  <2>1. UNCHANGED worker /\ request[r] = "send"
    BY <1>2 DEF EnqueueSend, At
  <2>2. \A q \in Runs : request[q] = "accepted" => request'[q] = "accepted"
    BY <1>0, <1>2 DEF EnqueueSend, At, Becomes
  <2>3. CASE UNCHANGED jobs
    BY <2>1, <2>2, <2>3, SingleOwnerKept
  <2>4. CASE jobs' = Append(jobs, r) /\ request' = [request EXCEPT ![r] = "accepted"]
    <3>1. ~Owned(r)
      BY <2>1 DEF SingleOwner
    <3>2. /\ Len(jobs') = Len(jobs) + 1 /\ jobs'[Len(jobs) + 1] = r
          /\ \A i \in 1..Len(jobs) : jobs'[i] = jobs[i]
      BY <1>0, <2>4
    <3>3. \A q \in Runs : InQueue(q)' <=> InQueue(q) \/ q = r
      BY <1>0, <3>2 DEF InQueue
    <3>4. \A i, j \in 1..Len(jobs') : jobs'[i] = jobs'[j] => i = j
      <4> SUFFICES ASSUME NEW i \in 1..Len(jobs'), NEW j \in 1..Len(jobs'),
                          jobs'[i] = jobs'[j]
                   PROVE  i = j
        OBVIOUS
      <4>1. \A k \in 1..Len(jobs) : jobs[k] # r
        BY <3>1 DEF Owned, InQueue
      <4>2. i \in 1..Len(jobs) \/ i = Len(jobs) + 1
        BY <1>0, <3>2
      <4>3. j \in 1..Len(jobs) \/ j = Len(jobs) + 1
        BY <1>0, <3>2
      <4> QED
        BY <3>2, <4>1, <4>2, <4>3 DEF SingleOwner
    <3>5. \A w \in Workers, q \in Runs : Holds(w, q)' <=> Holds(w, q)
      BY <2>1 DEF Holds
    <3>6. \A w \in Workers : ~Holds(w, r)
      BY <3>1 DEF Owned
    <3>7. request'[r] = "accepted"
      BY <1>0, <2>4
    <3>8. \A q \in Runs : Owned(q)' => request'[q] = "accepted"
      BY <2>2, <3>3, <3>5, <3>7 DEF SingleOwner, Owned
    <3> QED
      BY <3>3, <3>4, <3>5, <3>6, <3>8 DEF SingleOwner
  <2> QED
    BY <1>2, <2>3, <2>4 DEF EnqueueSend, Becomes
<1>3. ASSUME NEW w \in Workers, UNCHANGED <<request, jobs>>,
             \A v \in Workers : worker'[v].run \in {worker[v].run, NoRun}
      PROVE  SingleOwner'
  <2>1. \A v \in Workers, r \in Runs : Holds(v, r)' => Holds(v, r)
    BY <1>3, StoreAssumption DEF Holds
  <2>2. \A r \in Runs : (InQueue(r)' <=> InQueue(r)) /\ (Owned(r)' => Owned(r))
    BY <1>3, <2>1 DEF InQueue, Owned
  <2> QED
    BY <1>3, <2>1, <2>2 DEF SingleOwner
<1>4. ASSUME NEW w \in Workers, ProcessStep(w) PROVE SingleOwner'
  <2>1. StepsOn(w)
    BY <1>4, ProcessStepsOn
  <2>2. Idle.run = NoRun
    BY DEF Idle
  <2>3. \A v \in Workers : worker'[v].run \in {worker[v].run, NoRun}
    BY <1>0, <2>1, <2>2 DEF StepsOn
  <2> QED
    BY <1>3, <2>1, <2>3 DEF StepsOn
<1>5. ASSUME NEW w \in Workers, WorkerExit(w) PROVE SingleOwner'
  <2>1. \A v \in Workers : worker'[v].run \in {worker[v].run, NoRun}
    BY <1>0, <1>5 DEF WorkerExit, Worker
  <2> QED
    BY <1>3, <1>5, <2>1 DEF WorkerExit
<1>6. ASSUME NEW w \in Workers, Dequeue(w) PROVE SingleOwner'
  <2>0. jobs # <<>>
    BY <1>6 DEF Dequeue
  <2> PICK head \in Runs : head = Head(jobs)
    BY <1>0, <2>0
  <2>1. /\ jobs' = Tail(jobs) /\ UNCHANGED request
        /\ worker' = [worker EXCEPT ![w] = [Idle EXCEPT !.at = "load", !.run = head]]
    BY <1>6 DEF Dequeue
  <2>2. /\ head = jobs[1] /\ 1 \in 1..Len(jobs)
        /\ jobs' \in Seq(Runs) /\ Len(jobs') = Len(jobs) - 1
        /\ \A i \in 1..Len(jobs') : jobs'[i] = jobs[i + 1] /\ i + 1 \in 1..Len(jobs)
    BY <1>0, <2>0, <2>1
  <2>3. \A v \in Workers : worker'[v].run = IF v = w THEN head ELSE worker[v].run
    BY <1>0, <2>1 DEF Idle
  <2>4. \A r \in Runs : InQueue(r)' => InQueue(r)
    BY <2>2 DEF InQueue
  <2>5. ~InQueue(head)'
    <3> SUFFICES ASSUME NEW i \in 1..Len(jobs'), jobs'[i] = head PROVE FALSE
      BY DEF InQueue
    <3>1. i + 1 = 1
      BY <2>2 DEF SingleOwner
    <3> QED
      BY <3>1
  <2>6. InQueue(head) /\ request[head] = "accepted"
    BY <2>2 DEF InQueue, SingleOwner, Owned
  <2>7. \A v \in Workers, r \in Runs : Holds(v, r)' => Holds(v, r) \/ (v = w /\ r = head)
    BY <2>3 DEF Holds
  <2>8. \A v \in Workers : ~Holds(v, head)
    BY <2>2, <2>6 DEF SingleOwner
  <2>9. \A i, j \in 1..Len(jobs') : jobs'[i] = jobs'[j] => i = j
    <3> SUFFICES ASSUME NEW i \in 1..Len(jobs'), NEW j \in 1..Len(jobs'),
                        jobs'[i] = jobs'[j]
                 PROVE  i = j
      OBVIOUS
    <3>1. i + 1 = j + 1
      BY <2>2 DEF SingleOwner
    <3> QED
      BY <3>1
  <2>10. \A r \in Runs : Owned(r)' => request'[r] = "accepted"
    BY <2>1, <2>4, <2>6, <2>7 DEF SingleOwner, Owned
  <2>11. \A v \in Workers, r \in Runs : Holds(v, r)' => ~InQueue(r)'
    BY <2>4, <2>5, <2>7 DEF SingleOwner
  <2>12. \A u, v \in Workers, r \in Runs : Holds(u, r)' /\ Holds(v, r)' => u = v
    BY <2>7, <2>8 DEF SingleOwner
  <2> QED
    BY <2>9, <2>10, <2>11, <2>12 DEF SingleOwner
<1>7. ASSUME NEW c \in Closers,
             Shutdown(c) \/ ShutdownClose(c) \/ ShutdownDone(c) \/ ShutdownTimeout(c)
      PROVE  SingleOwner'
  BY <1>7, SingleOwnerKept DEF Shutdown, ShutdownClose, ShutdownDone, ShutdownTimeout
<1>8. CASE UNCHANGED vars
  BY <1>8, SingleOwnerKept DEF vars
<1> QED
  BY <1>1, <1>2, <1>4, <1>5, <1>6, <1>7, <1>8
     DEF Next, RequestStep, WorkerStep, ShutdownStep, Stopped, ProcessStep

LEMMA SingleOwnerInit == Init => SingleOwner
<1> SUFFICES ASSUME Init PROVE SingleOwner
  OBVIOUS
<1>1. 1..Len(jobs) = {}
  <2>1. jobs = <<>>
    BY DEF Init
  <2> QED
    BY <2>1
<1>2. \A w \in Workers : worker[w].run = NoRun
  BY DEF Init, Idle
<1> QED
  BY <1>1, <1>2, StoreAssumption DEF SingleOwner, Holds, InQueue, Owned

(* Every run is in one slot of the channel or with one worker, and only after
   its request was accepted. *)
THEOREM RunsHaveOneOwner == Spec => []SingleOwner
BY SingleOwnerInit, SingleOwnerNext, AlwaysPlaced, PTL DEF Spec

LEMMA SendersNext ==
  Placed /\ NoSendOnClosedChannel /\ [Next]_vars => NoSendOnClosedChannel'
<1> USE DEF NoSendOnClosedChannel
<1> SUFFICES ASSUME Placed, NoSendOnClosedChannel, [Next]_vars,
                    NEW q \in Runs, request'[q] = "send"
             PROVE  ~closed'
  OBVIOUS
<1>0. request \in [Runs -> RequestPlaces]
  BY DEF Placed, TypeOK
<1>1. ASSUME NEW r \in Runs, Trigger(r) \/ TriggerCreate(r) \/ EnqueueSend(r) \/ EnqueueReject(r)
      PROVE  ~closed'
  BY <1>0, <1>1 DEF Trigger, TriggerCreate, EnqueueSend, EnqueueReject, Becomes
<1>2. ASSUME NEW r \in Runs, EnqueueEnter(r) PROVE ~closed'
  BY <1>0, <1>2 DEF EnqueueEnter, Becomes
<1>3. ASSUME NEW w \in Workers, Dequeue(w) \/ WorkerExit(w) \/ ProcessStep(w)
      PROVE  ~closed'
  BY <1>3, ProcessStepsOn DEF Dequeue, WorkerExit, StepsOn
<1>4. ASSUME NEW c \in Closers, ShutdownClose(c) PROVE ~closed'
  BY <1>4 DEF ShutdownClose, Readers
<1>5. ASSUME NEW c \in Closers, Shutdown(c) \/ ShutdownDone(c) \/ ShutdownTimeout(c)
      PROVE  ~closed'
  BY <1>5 DEF Shutdown, ShutdownDone, ShutdownTimeout
<1>6. CASE UNCHANGED vars
  BY <1>6 DEF vars
<1> QED
  BY <1>1, <1>2, <1>3, <1>4, <1>5, <1>6
     DEF Next, RequestStep, WorkerStep, ShutdownStep, Stopped, ProcessStep

(* A request about to send never finds the channel closed. *)
THEOREM ChannelOpenForSenders == Spec => []NoSendOnClosedChannel
<1>1. Init => NoSendOnClosedChannel
  BY DEF Init, NoSendOnClosedChannel
<1> QED
  BY <1>1, SendersNext, AlwaysPlaced, PTL DEF Spec

-------------------------------------------------------------------------------
(* The row of each run, from where the run is. *)

LEMMA Distinct ==
  /\ NotCreated # InProgress /\ NotCreated # Completed /\ NotCreated # Failed
  /\ InProgress # Completed /\ InProgress # Failed /\ Completed # Failed
BY DEF NotCreated, InProgress, Completed, Failed

LEMMA CompletedRow ==
  ASSUME NEW r, NEW row, row = Workflow(Completed, AllSucceeded, "", r)
  PROVE  /\ row.status = Completed /\ row.steps = AllSucceeded
         /\ row.error = "" /\ row.product = r
BY DEF Workflow

LEMMA OpenedRow ==
  ASSUME NEW row, row = Workflow(InProgress, <<>>, "", NoRun)
  PROVE  row.status = InProgress /\ row.steps = <<>> /\ row.error = "" /\ row.product = NoRun
BY DEF Workflow

LEMMA RejectedRow ==
  ASSUME NEW row, row = Workflow(Failed, <<>>, "queue full", NoRun)
  PROVE  /\ row.status = Failed /\ row.steps = <<>>
         /\ row.error = "queue full" /\ row.product = NoRun
BY DEF Workflow

(* What the operations of the store do to the rows. *)
LEMMA CreateRow ==
  ASSUME StoreTypeOK, NEW r \in Runs, CreateWorkflow(r)
  PROVE  /\ workflows' = [workflows EXCEPT ![r] = Workflow(InProgress, <<>>, "", NoRun)]
         /\ UNCHANGED products
BY DEF CreateWorkflow

LEMMA FailRow ==
  ASSUME NEW r \in Runs, NEW steps, NEW error, FailWorkflow(r, steps, error)
  PROVE  \/ workflows[r].status # InProgress /\ UNCHANGED storeVars
         \/ /\ workflows[r].status = InProgress
            /\ workflows' = [workflows EXCEPT ![r] = Workflow(Failed, steps, error, NoRun)]
            /\ UNCHANGED products
BY DEF FailWorkflow, CanClose, CanTransitionTo, Terminal

LEMMA CompleteRow ==
  ASSUME NEW r \in Runs, NEW steps, NEW error, NEW claims,
         CompleteWorkflow(r, steps, error, claims)
  PROVE  \/ workflows[r].status # InProgress /\ UNCHANGED storeVars
         \/ /\ workflows[r].status = InProgress
            /\ workflows' = [workflows EXCEPT ![r] = Workflow(Completed, steps, error, claims)]
            /\ products' = [products EXCEPT ![ProductOf[r]] = claims]
BY DEF CompleteWorkflow, CanClose, CanTransitionTo, Terminal

-------------------------------------------------------------------------------
(* A step of a request that was not accepted, which nothing owns. *)
LEMMA RequestRowFits ==
  ASSUME Invariant, NEW r \in Runs, request[r] # "accepted",
         \A q \in Runs : q # r => request'[q] = request[q] /\ workflows'[q] = workflows[q],
         UNCHANGED <<jobs, worker>>,
         RowFits(r)', RequestFits(r)', ProductsFit'
  PROVE  RowsFit'
<1>0. /\ RowsFit /\ SingleOwner /\ jobs \in Seq(Runs) /\ RunsOwned
  BY DEF Invariant, Placed, TypeOK
<1>1. ASSUME NEW q \in Runs PROVE RowFits(q)' /\ RequestFits(q)'
  BY <1>0 DEF RowsFit, RowFits, RequestFits
<1>2. QueueFits'
  <2> SUFFICES ASSUME NEW i \in 1..Len(jobs) PROVE workflows'[jobs[i]].status = InProgress
    BY DEF QueueFits
  <2>1. jobs[i] \in Runs /\ jobs[i] # r
    BY <1>0 DEF SingleOwner, Owned, InQueue
  <2> QED
    BY <1>0, <2>1 DEF RowsFit, QueueFits
<1>3. ASSUME NEW w \in Workers PROVE WorkerFits(w)'
  <2>1. Busy(w) => worker[w].run \in Runs /\ worker[w].run # r
    BY <1>0 DEF RunsOwned
  <2> QED
    BY <1>0, <2>1 DEF RowsFit, WorkerFits, Busy
<1> QED
  BY <1>1, <1>2, <1>3 DEF RowsFit

(* A step of a worker, which may change the row of its run. *)
LEMMA WorkerRowFits ==
  ASSUME Invariant, NEW w \in Workers, NEW r \in Runs, r = worker[w].run, Busy(w),
         \A q \in Runs : q # r => workflows'[q] = workflows[q],
         \A v \in Workers : v # w => worker'[v] = worker[v],
         UNCHANGED <<request, jobs>>,
         RowFits(r)', WorkerFits(w)', ProductsFit'
  PROVE  RowsFit'
<1>0. /\ RowsFit /\ SingleOwner /\ jobs \in Seq(Runs) /\ RunsOwned
      /\ request[r] = "accepted" /\ Holds(w, r)
  BY DEF Invariant, Placed, TypeOK, RunsOwned, Holds
<1>1. ASSUME NEW q \in Runs, q # r PROVE RowFits(q)' /\ RequestFits(q)'
  <2>1. workflows'[q] = workflows[q] /\ request'[q] = request[q]
    BY <1>1
  <2>2. RowFits(q) /\ RequestFits(q)
    BY <1>0 DEF RowsFit
  <2>3. RowFits(q)'
    BY <2>1, <2>2 DEF RowFits
  <2>4. RequestFits(q)'
    BY <2>1, <2>2 DEF RequestFits
  <2> QED
    BY <2>3, <2>4
<1>2. RequestFits(r)'
  BY <1>0 DEF RequestFits
<1>3. QueueFits'
  <2> SUFFICES ASSUME NEW i \in 1..Len(jobs) PROVE workflows'[jobs[i]].status = InProgress
    BY DEF QueueFits
  <2>1. jobs[i] \in Runs /\ jobs[i] # r
    BY <1>0 DEF SingleOwner, InQueue
  <2> QED
    BY <1>0, <2>1 DEF RowsFit, QueueFits
<1>4. ASSUME NEW v \in Workers, v # w PROVE WorkerFits(v)'
  <2>1. Busy(v) => worker[v].run \in Runs /\ worker[v].run # r
    BY <1>0, <1>4 DEF RunsOwned, SingleOwner, Holds
  <2>2. worker'[v] = worker[v]
    BY <1>4
  <2>3. WorkerFits(v)
    BY <1>0 DEF RowsFit
  <2>4. CASE Busy(v)
    <3>1. workflows'[worker[v].run] = workflows[worker[v].run]
      BY <2>1, <2>4
    <3> QED
      BY <2>2, <2>3, <3>1 DEF WorkerFits
  <2>5. CASE ~Busy(v)
    BY <2>2, <2>5 DEF WorkerFits, Busy
  <2> QED
    BY <2>4, <2>5
<1> QED
  BY <1>1, <1>2, <1>3, <1>4 DEF RowsFit

-------------------------------------------------------------------------------
(* The sequences of steps that the trails are made of. *)
LEMMA SecondStep ==
  ASSUME NEW s \in Steps, NEW t \in Steps
  PROVE  Append(<<s>>, t) = <<s, t>>
<1>1. /\ <<s>> \in Seq(Steps) /\ Append(<<s>>, t) \in Seq(Steps) /\ <<s, t>> \in Seq(Steps)
      /\ Len(Append(<<s>>, t)) = 2 /\ Len(<<s, t>>) = 2
  OBVIOUS
<1>2. \A i \in 1..2 : Append(<<s>>, t)[i] = <<s, t>>[i]
  OBVIOUS
<1> QED
  BY <1>1, <1>2, SeqEqual

LEMMA ThirdStep ==
  ASSUME NEW s \in Steps, NEW t \in Steps, NEW u \in Steps
  PROVE  Append(<<s, t>>, u) = <<s, t, u>>
<1>1. /\ Append(<<s, t>>, u) \in Seq(Steps) /\ <<s, t, u>> \in Seq(Steps)
      /\ Len(Append(<<s, t>>, u)) = 3 /\ Len(<<s, t, u>>) = 3
  OBVIOUS
<1>2. \A i \in 1..3 : Append(<<s, t>>, u)[i] = <<s, t, u>>[i]
  OBVIOUS
<1> QED
  BY <1>1, <1>2, SeqEqual

LEMMA WithoutThird ==
  ASSUME NEW s \in Steps, NEW t \in Steps, NEW u \in Steps
  PROVE  WithoutLast(<<s, t, u>>) = <<s, t>>
<1>1. /\ SubSeq(<<s, t, u>>, 1, 2) \in Seq(Steps) /\ <<s, t>> \in Seq(Steps)
      /\ Len(SubSeq(<<s, t, u>>, 1, 2)) = 2 /\ Len(<<s, t>>) = 2
  OBVIOUS
<1>2. \A i \in 1..2 : SubSeq(<<s, t, u>>, 1, 2)[i] = <<s, t>>[i]
  OBVIOUS
<1>3. SubSeq(<<s, t, u>>, 1, 2) = <<s, t>>
  BY <1>1, <1>2, SeqEqual
<1>4. Len(<<s, t, u>>) - 1 = 2
  OBVIOUS
<1> QED
  BY <1>3, <1>4 DEF WithoutLast

LEMMA Trails ==
  /\ RecordStep(<<>>, FetchProduct, FALSE) = <<Step(FetchProduct, FALSE)>>
  /\ RecordStep(<<>>, FetchProduct, TRUE) = <<Step(FetchProduct, TRUE)>>
  /\ RecordStep(RecordStep(<<Step(FetchProduct, FALSE)>>, DetectClaims, FALSE),
                PersistResult, FALSE) = AllSucceeded
  /\ RecordStep(WithoutLast(AllSucceeded), PersistResult, TRUE)
       = [AllSucceeded EXCEPT ![3] = Step(PersistResult, TRUE)]
<1>1. PICK f \in Steps, ff \in Steps, d \in Steps, p \in Steps, pf \in Steps :
        /\ f = Step(FetchProduct, FALSE) /\ ff = Step(FetchProduct, TRUE)
        /\ d = Step(DetectClaims, FALSE)
        /\ p = Step(PersistResult, FALSE) /\ pf = Step(PersistResult, TRUE)
  BY DEF Step, Steps
<1>2. AllSucceeded = <<f, d, p>>
  BY <1>1 DEF AllSucceeded
<1>3. Append(<<>>, f) = <<f>> /\ Append(<<>>, ff) = <<ff>>
  OBVIOUS
<1>4. Append(<<f>>, d) = <<f, d>>
  BY SecondStep
<1>5. Append(<<f, d>>, p) = <<f, d, p>>
  BY ThirdStep
<1>6. Append(<<f, d>>, pf) = <<f, d, pf>>
  BY ThirdStep
<1>7. WithoutLast(<<f, d, p>>) = <<f, d>>
  BY WithoutThird
<1>8. <<f, d, pf>> = [<<f, d, p>> EXCEPT ![3] = pf]
  OBVIOUS
<1> QED
  BY <1>1, <1>2, <1>3, <1>4, <1>5, <1>6, <1>7, <1>8 DEF RecordStep

(* The run of a working worker, and what the invariant says of both. *)
LEMMA WorkerKnows ==
  ASSUME Invariant, NEW w \in Workers, Busy(w)
  PROVE  /\ worker[w].run \in Runs /\ RowFits(worker[w].run) /\ WorkerFits(w)
         /\ ProductOf[worker[w].run] \in Catalogue /\ request[worker[w].run] = "accepted"
         /\ workflows \in [Runs -> Row] /\ worker \in [Workers -> Worker]
         /\ products \in [Catalogue -> Runs \cup {NoRun}] /\ ProductsFit
BY DEF Invariant, Placed, TypeOK, StoreTypeOK, RunsOwned, ProductsKnown, RowsFit

(* A step of process() that leaves the store alone. *)
LEMMA QuietWorkerFits ==
  ASSUME Invariant, NEW w \in Workers, StepsOn(w), UNCHANGED storeVars, WorkerFits(w)'
  PROVE  RowsFit'
<1>1. PICK r \in Runs : r = worker[w].run
  BY WorkerKnows DEF StepsOn
<1>2. RowFits(r) /\ ProductsFit /\ worker \in [Workers -> Worker] /\ Busy(w)
  BY <1>1, WorkerKnows DEF StepsOn
<1>3. UNCHANGED <<request, jobs, workflows, products>>
  BY DEF StepsOn, storeVars
<1>4. RowFits(r)'
  BY <1>2, <1>3 DEF RowFits
<1>5. ProductsFit'
  BY <1>2, <1>3 DEF ProductsFit
<1>6. \A v \in Workers : v # w => worker'[v] = worker[v]
  BY <1>2 DEF StepsOn
<1> QED
  BY <1>1, <1>2, <1>3, <1>4, <1>5, <1>6, WorkerRowFits

LEMMA IdleFits == ASSUME NEW w \in Workers, worker'[w] = Idle PROVE WorkerFits(w)'
<1>1. Idle.at = "idle"
  BY DEF Idle
<1> QED
  BY <1>1 DEF WorkerFits

(* A step of process() keeps the rows in step with the worker. *)
LEMMA ProcessRowFits ==
  ASSUME Invariant, NEW w \in Workers, ProcessStep(w)
  PROVE  RowsFit'
<1>0. StepsOn(w) /\ Busy(w)
  BY ProcessStepsOn DEF Invariant, StepsOn
<1>1. PICK r \in Runs : r = worker[w].run
  BY <1>0, WorkerKnows
<1> DEFINE me == worker[w]
<1>2. me \in Worker
  BY <1>0 DEF Invariant, Placed, TypeOK
<1>3. /\ RowFits(r) /\ WorkerFits(w) /\ ProductsFit /\ request[r] = "accepted"
      /\ ProductOf[r] \in Catalogue
      /\ workflows \in [Runs -> Row] /\ worker \in [Workers -> Worker]
      /\ products \in [Catalogue -> Runs \cup {NoRun}]
  BY <1>0, <1>1, WorkerKnows
<1>4. UNCHANGED <<request, jobs>> /\ \A v \in Workers : v # w => worker'[v] = worker[v]
  BY <1>0, <1>3 DEF StepsOn
<1> HIDE DEF me
<1>5. CASE LoadWorkflow(w)
  <2>1. UNCHANGED storeVars /\ me.at = "load"
    BY <1>2, <1>5 DEF LoadWorkflow, storeVars, WorkerIs, me
  <2>2. \/ worker'[w] = Idle
        \/ /\ worker'[w].at = "fetch"
           /\ worker'[w].steps = workflows[r].steps /\ worker'[w].error = workflows[r].error
           /\ worker'[w].run = r
    <3> DEFINE after == [me EXCEPT !.at = "fetch", !.steps = workflows[me.run].steps,
                                   !.error = workflows[me.run].error]
    <3>1. worker' = [worker EXCEPT ![w] = Idle] \/ worker' = [worker EXCEPT ![w] = after]
      BY <1>3, <1>5 DEF LoadWorkflow, Return, me
    <3>2. worker'[w] = Idle \/ worker'[w] = after
      BY <1>3, <3>1
    <3>3. me.run = r
      BY <1>1 DEF me
    <3>4. /\ after.at = "fetch" /\ after.steps = workflows[r].steps
          /\ after.error = workflows[r].error /\ after.run = r
      BY <1>2, <3>3 DEF Worker
    <3> QED
      BY <3>2, <3>4
  <2>3. workflows[r].status = InProgress /\ workflows[r].steps = <<>> /\ workflows[r].error = ""
    BY <1>1, <1>3, <2>1 DEF WorkerFits, RowFits, me
  <2>4. WorkerFits(w)'
    BY <2>1, <2>2, <2>3, IdleFits DEF WorkerFits, storeVars
  <2> QED
    BY <1>0, <2>1, <2>4, QuietWorkerFits
<1>6. CASE FetchStep(w)
  <2>1. UNCHANGED storeVars /\ me.at = "fetch"
    BY <1>2, <1>6 DEF FetchStep, storeVars, WorkerIs, me
  <2>2. me.steps = <<>> /\ me.error = "" /\ workflows[r].status = InProgress
    BY <1>1, <1>3, <2>1 DEF WorkerFits, me
  <2>3. \/ /\ worker'[w].at = "fail" /\ worker'[w].error = "fetch product"
           /\ worker'[w].steps = RecordStep(<<>>, FetchProduct, TRUE)
        \/ /\ worker'[w].at = "detect" /\ worker'[w].error = ""
           /\ worker'[w].steps = RecordStep(<<>>, FetchProduct, FALSE)
           /\ worker'[w].run = r
    <3> DEFINE steps(failed) == RecordStep(me.steps, FetchProduct, failed)
               gone == [me EXCEPT !.at = "fail", !.steps = steps(TRUE), !.error = "fetch product"]
               found == [me EXCEPT !.at = "detect", !.steps = steps(FALSE),
                                   !.product = products[ProductOf[me.run]]]
    <3>1. worker' = [worker EXCEPT ![w] = gone] \/ worker' = [worker EXCEPT ![w] = found]
      BY <1>3, <1>6 DEF FetchStep, me
    <3>2. worker'[w] = gone \/ worker'[w] = found
      BY <1>3, <3>1
    <3>3. /\ gone.at = "fail" /\ gone.error = "fetch product"
          /\ gone.steps = RecordStep(<<>>, FetchProduct, TRUE)
      BY <1>2, <2>2 DEF Worker
    <3>4. /\ found.at = "detect" /\ found.error = "" /\ found.run = r
          /\ found.steps = RecordStep(<<>>, FetchProduct, FALSE)
      BY <1>1, <1>2, <2>2 DEF Worker, me
    <3> QED
      BY <3>2, <3>3, <3>4
  <2>4. WorkerFits(w)'
    BY <2>1, <2>2, <2>3, Trails DEF WorkerFits, FailureTrail, storeVars
  <2> QED
    BY <1>0, <2>1, <2>4, QuietWorkerFits
<1>7. CASE Detect(w)
  <2>1. UNCHANGED storeVars /\ me.at = "detect"
    BY <1>2, <1>7 DEF Detect, storeVars, WorkerIs, me
  <2>2. /\ me.steps = <<Step(FetchProduct, FALSE)>> /\ me.error = ""
        /\ workflows[r].status = InProgress
    BY <1>1, <1>3, <2>1 DEF WorkerFits, me
  <2>3. /\ worker'[w].at = "persist" /\ worker'[w].error = me.error
        /\ worker'[w].steps =
             RecordStep(RecordStep(me.steps, DetectClaims, FALSE), PersistResult, FALSE)
        /\ worker'[w].run = r /\ worker'[w].product = r
    <3> DEFINE steps == RecordStep(RecordStep(me.steps, DetectClaims, FALSE), PersistResult, FALSE)
               after == [me EXCEPT !.at = "persist", !.product = me.run, !.steps = steps]
    <3>1. worker' = [worker EXCEPT ![w] = after]
      BY <1>3, <1>7 DEF Detect, me
    <3>2. worker'[w] = after
      BY <1>3, <3>1
    <3>3. me.run = r
      BY <1>1 DEF me
    <3>4. /\ after.at = "persist" /\ after.error = me.error /\ after.steps = steps
          /\ after.run = r /\ after.product = r
      BY <1>2, <3>3 DEF Worker
    <3> QED
      BY <3>2, <3>4
  <2>4. WorkerFits(w)'
    BY <2>1, <2>2, <2>3, Trails DEF WorkerFits, storeVars
  <2> QED
    BY <1>0, <2>1, <2>4, QuietWorkerFits
<1>8. CASE Panic(w)
  <2>1. UNCHANGED storeVars /\ me.at \in {"fetch", "detect", "persist"}
    BY <1>2, <1>8 DEF Panic, storeVars, WorkerIs, me
  <2>2. workflows[r].status = InProgress
    BY <1>1, <1>3, <2>1 DEF WorkerFits, me
  <2>3. worker'[w].at = "recover" /\ worker'[w].run = r
    BY <1>1, <1>2, <1>3, <1>8 DEF Panic, Worker, me
  <2>4. WorkerFits(w)'
    BY <2>1, <2>2, <2>3 DEF WorkerFits, storeVars
  <2> QED
    BY <1>0, <2>1, <2>4, QuietWorkerFits
<1>9. CASE Recover(w)
  <2>1. UNCHANGED storeVars /\ me.at = "recover"
    BY <1>2, <1>9 DEF Recover, storeVars, WorkerIs, me
  <2>2. workflows[r].status = InProgress /\ workflows[r].steps = <<>>
    BY <1>1, <1>3, <2>1 DEF WorkerFits, RowFits, me
  <2>3. \/ worker'[w] = Idle
        \/ /\ worker'[w].at = "fail" /\ worker'[w].error = "internal error"
           /\ worker'[w].steps = workflows[r].steps
    <3> DEFINE after == [me EXCEPT !.at = "fail", !.steps = workflows[me.run].steps,
                                   !.error = "internal error"]
    <3>1. worker' = [worker EXCEPT ![w] = Idle] \/ worker' = [worker EXCEPT ![w] = after]
      BY <1>3, <1>9 DEF Recover, Return, me
    <3>2. worker'[w] = Idle \/ worker'[w] = after
      BY <1>3, <3>1
    <3>3. me.run = r
      BY <1>1 DEF me
    <3>4. after.at = "fail" /\ after.error = "internal error" /\ after.steps = workflows[r].steps
      BY <1>2, <3>3 DEF Worker
    <3> QED
      BY <3>2, <3>4
  <2>4. WorkerFits(w)'
    BY <2>1, <2>2, <2>3, IdleFits DEF WorkerFits, FailureTrail, storeVars
  <2> QED
    BY <1>0, <2>1, <2>4, QuietWorkerFits
<1>10. CASE Deadline(w)
  <2>1. UNCHANGED storeVars
    BY <1>10 DEF Deadline, storeVars
  <2>2. /\ worker'[w].at = me.at /\ worker'[w].run = me.run /\ worker'[w].steps = me.steps
        /\ worker'[w].error = me.error /\ worker'[w].product = me.product
    BY <1>2, <1>3, <1>10 DEF Deadline, Worker, me
  <2>3. WorkerFits(w)'
    BY <1>3, <2>1, <2>2 DEF WorkerFits, storeVars, me
  <2> QED
    BY <1>0, <2>1, <2>3, QuietWorkerFits
<1>11. CASE Persist(w)
  <2>1. /\ me.at = "persist" /\ workflows[r].status = InProgress
        /\ me.steps = AllSucceeded /\ me.error = "" /\ me.product = r
    BY <1>1, <1>3, <1>11 DEF Persist, WorkerIs, WorkerFits, me
  <2>2. UNCHANGED storeVars \/ CompleteWorkflow(r, me.steps, me.error, me.product)
    BY <1>1, <1>11 DEF Persist, me
  <2>3. \/ worker'[w] = Idle
        \/ /\ worker'[w].at = "fail" /\ worker'[w].error = "persist result"
           /\ worker'[w].steps = RecordStep(WithoutLast(AllSucceeded), PersistResult, TRUE)
    <3> DEFINE steps == RecordStep(WithoutLast(me.steps), PersistResult, TRUE)
               after == [me EXCEPT !.at = "fail", !.steps = steps, !.error = "persist result"]
    <3>1. worker' = [worker EXCEPT ![w] = Idle] \/ worker' = [worker EXCEPT ![w] = after]
      BY <1>3, <1>11 DEF Persist, Return, me
    <3>2. worker'[w] = Idle \/ worker'[w] = after
      BY <1>3, <3>1
    <3>3. after.at = "fail" /\ after.error = "persist result" /\ after.steps = steps
      BY <1>2 DEF Worker
    <3> QED
      BY <2>1, <3>2, <3>3
  <2>4. WorkerFits(w)'
    <3>1. CASE worker'[w] = Idle
      BY <3>1, IdleFits
    <3>2. CASE /\ worker'[w].at = "fail" /\ worker'[w].error = "persist result"
               /\ worker'[w].steps = RecordStep(WithoutLast(AllSucceeded), PersistResult, TRUE)
      BY <3>2, Trails DEF WorkerFits, FailureTrail
    <3> QED
      BY <2>3, <3>1, <3>2
  <2>5. CASE UNCHANGED storeVars
    BY <1>0, <2>4, <2>5, QuietWorkerFits
  <2>6. CASE /\ workflows' = [workflows EXCEPT ![r] = Workflow(Completed, AllSucceeded, "", r)]
             /\ products' = [products EXCEPT ![ProductOf[r]] = r]
    <3>1. \A q \in Runs : q # r => workflows'[q] = workflows[q]
      BY <1>3, <2>6
    <3>2. workflows'[r] = Workflow(Completed, AllSucceeded, "", r)
      BY <1>3, <2>6
    <3>3. /\ workflows'[r].status = Completed /\ workflows'[r].steps = AllSucceeded
          /\ workflows'[r].error = "" /\ workflows'[r].product = r
      BY <3>2, CompletedRow
    <3>4. RowFits(r)'
      BY <1>3, <1>4, <3>3, Distinct DEF RowFits
    <3>5. ProductsFit'
      <4> SUFFICES ASSUME NEW p \in Catalogue, products'[p] # NoRun
                   PROVE  workflows'[products'[p]].status = Completed
        BY DEF ProductsFit
      <4>1. CASE products'[p] = r
        BY <3>3, <4>1
      <4>2. CASE products'[p] # r
        <5>1. products'[p] = products[p] /\ products[p] \in Runs
          BY <1>3, <2>6, <4>2
        <5>2. workflows[products[p]].status = Completed
          BY <1>3, <5>1, StoreAssumption DEF ProductsFit
        <5> QED
          BY <3>1, <4>2, <5>1, <5>2
      <4> QED
        BY <4>1, <4>2
    <3> QED
      BY <1>0, <1>1, <1>4, <2>4, <3>1, <3>4, <3>5, WorkerRowFits
  <2>7. \/ UNCHANGED storeVars
        \/ /\ workflows' = [workflows EXCEPT
                             ![r] = Workflow(Completed, me.steps, me.error, me.product)]
           /\ products' = [products EXCEPT ![ProductOf[r]] = me.product]
    BY <2>2, CompleteRow
  <2>8. Workflow(Completed, me.steps, me.error, me.product) = Workflow(Completed, AllSucceeded, "", r)
    BY <2>1
  <2> QED
    BY <2>1, <2>5, <2>6, <2>7, <2>8
<1>12. CASE Fail(w)
  <2>1. FailureTrail(me.steps, me.error)
    BY <1>3, <1>12 DEF Fail, WorkerIs, WorkerFits, me
  <2>2. WorkerFits(w)'
    BY <1>3, <1>12, IdleFits DEF Fail, Return
  <2>3. UNCHANGED storeVars \/ FailWorkflow(r, me.steps, me.error)
    BY <1>1, <1>12 DEF Fail, me
  <2>4. CASE UNCHANGED storeVars
    BY <1>0, <2>2, <2>4, QuietWorkerFits
  <2>5. CASE /\ workflows[r].status = InProgress
             /\ workflows' = [workflows EXCEPT ![r] = Workflow(Failed, me.steps, me.error, NoRun)]
             /\ UNCHANGED products
    <3>1. /\ \A q \in Runs : q # r => workflows'[q] = workflows[q]
          /\ workflows'[r] = Workflow(Failed, me.steps, me.error, NoRun)
      BY <1>3, <2>5
    <3>2. RowFits(r)'
      <4>1. /\ workflows'[r].status = Failed /\ workflows'[r].steps = me.steps
            /\ workflows'[r].error = me.error /\ workflows'[r].product = NoRun
        BY <3>1 DEF Workflow
      <4> QED
        BY <2>1, <4>1, Distinct DEF RowFits
    <3>3. ProductsFit'
      BY <1>3, <2>5, <3>1, Distinct DEF ProductsFit
    <3> QED
      BY <1>0, <1>1, <1>4, <2>2, <3>1, <3>2, <3>3, WorkerRowFits
  <2> QED
    BY <2>3, <2>4, <2>5, FailRow
<1> QED
  BY <1>5, <1>6, <1>7, <1>8, <1>9, <1>10, <1>11, <1>12 DEF ProcessStep

(* So does a step of Trigger or enqueue. *)
LEMMA RequestStepRowFits ==
  ASSUME Invariant, NEW r \in Runs, Trigger(r) \/ RequestStep(r)
  PROVE  RowsFit'
<1>1. /\ request \in [Runs -> RequestPlaces] /\ workflows \in [Runs -> Row]
      /\ products \in [Catalogue -> Runs \cup {NoRun}] /\ jobs \in Seq(Runs)
      /\ RowFits(r) /\ RequestFits(r) /\ ProductsFit /\ RowsFit /\ StoreTypeOK
  BY DEF Invariant, Placed, TypeOK, StoreTypeOK, RowsFit
<1>2. ASSUME UNCHANGED <<workflows, products, jobs, worker>>, NEW place, Becomes(r, place),
             request[r] # "accepted", RequestFits(r)'
      PROVE  RowsFit'
  <2>1. \A q \in Runs : q # r => request'[q] = request[q] /\ workflows'[q] = workflows[q]
    BY <1>1, <1>2 DEF Becomes
  <2>2. RowFits(r)'
    BY <1>1, <1>2 DEF RowFits
  <2>3. ProductsFit'
    BY <1>1, <1>2 DEF ProductsFit
  <2> QED
    BY <1>2, <2>1, <2>2, <2>3, RequestRowFits
<1>3. CASE Trigger(r)
  <2>1. /\ request[r] = "new" /\ UNCHANGED <<workflows, products, jobs, worker>>
        /\ \E place \in {"internal error", "create", "product not found"} : Becomes(r, place)
    BY <1>3 DEF Trigger, At
  <2>2. RequestFits(r)'
    BY <1>1, <2>1 DEF RequestFits, Becomes
  <2> QED
    BY <1>2, <2>1, <2>2
<1>4. CASE EnqueueEnter(r)
  <2>1. /\ request[r] = "enqueue" /\ UNCHANGED <<workflows, products, jobs, worker>>
        /\ \E place \in {"unavailable", "send"} : Becomes(r, place)
    BY <1>4 DEF EnqueueEnter, At
  <2>2. RequestFits(r)'
    BY <1>1, <2>1 DEF RequestFits, Becomes
  <2> QED
    BY <1>2, <2>1, <2>2
<1>5. CASE TriggerCreate(r)
  <2>1. /\ request[r] = "create" /\ UNCHANGED <<jobs, worker>>
        /\ CreateWorkflow(r) \/ UNCHANGED storeVars
        /\ \/ Becomes(r, "internal error")
           \/ Becomes(r, "enqueue") /\ CreateWorkflow(r)
    BY <1>5 DEF TriggerCreate, At, TakesEffect
  <2>2. CASE UNCHANGED storeVars /\ Becomes(r, "internal error")
    <3>1. RequestFits(r)'
      BY <1>1, <2>1, <2>2 DEF RequestFits, Becomes
    <3> QED
      BY <1>2, <2>1, <2>2, <3>1 DEF storeVars
  <2>3. CASE CreateWorkflow(r) /\ (Becomes(r, "internal error") \/ Becomes(r, "enqueue"))
    <3>1. /\ workflows' = [workflows EXCEPT ![r] = Workflow(InProgress, <<>>, "", NoRun)]
          /\ UNCHANGED products
      BY <1>1, <2>3, CreateRow
    <3>2. workflows'[r] = Workflow(InProgress, <<>>, "", NoRun)
      BY <1>1, <3>1
    <3>3. /\ workflows'[r].status = InProgress /\ workflows'[r].steps = <<>>
          /\ workflows'[r].error = "" /\ workflows'[r].product = NoRun
      BY <3>2, OpenedRow
    <3>4. RowFits(r)'
      BY <3>3, Distinct DEF RowFits
    <3>5. RequestFits(r)'
      BY <1>1, <2>3, <3>3 DEF RequestFits, Becomes
    <3>6. workflows[r].status = NotCreated
      BY <1>1, <2>1 DEF RequestFits
    <3>7. ProductsFit'
      BY <1>1, <3>1, <3>6, Distinct DEF ProductsFit
    <3>8. \A q \in Runs : q # r => request'[q] = request[q] /\ workflows'[q] = workflows[q]
      BY <1>1, <2>3, <3>1 DEF Becomes
    <3> QED
      BY <2>1, <3>4, <3>5, <3>7, <3>8, RequestRowFits
  <2> QED
    BY <2>1, <2>2, <2>3
<1>6. CASE EnqueueReject(r)
  <2>1. /\ request[r] = "reject" /\ UNCHANGED <<jobs, worker>> /\ Becomes(r, "unavailable")
        /\ FailWorkflow(r, <<>>, "queue full") \/ UNCHANGED storeVars
    BY <1>6 DEF EnqueueReject, At
  <2>2. RequestFits(r)'
    BY <1>1, <2>1 DEF RequestFits, Becomes
  <2>3. CASE UNCHANGED storeVars
    BY <1>2, <2>1, <2>2, <2>3 DEF storeVars
  <2>4. CASE /\ workflows[r].status = InProgress
             /\ workflows' = [workflows EXCEPT ![r] = Workflow(Failed, <<>>, "queue full", NoRun)]
             /\ UNCHANGED products
    <3>1. workflows'[r] = Workflow(Failed, <<>>, "queue full", NoRun)
      BY <1>1, <2>4
    <3>2. /\ workflows'[r].status = Failed /\ workflows'[r].steps = <<>>
          /\ workflows'[r].error = "queue full" /\ workflows'[r].product = NoRun
      BY <3>1, RejectedRow
    <3>3. RowFits(r)'
      BY <3>2, Distinct DEF RowFits, FailureTrail
    <3>4. ProductsFit'
      BY <1>1, <2>4, Distinct DEF ProductsFit
    <3>5. \A q \in Runs : q # r => request'[q] = request[q] /\ workflows'[q] = workflows[q]
      BY <1>1, <2>1, <2>4 DEF Becomes
    <3> QED
      BY <2>1, <2>2, <3>3, <3>4, <3>5, RequestRowFits
  <2> QED
    BY <2>1, <2>3, <2>4, FailRow
<1>7. CASE EnqueueSend(r)
  <2>1. request[r] = "send" /\ UNCHANGED <<workflows, products, worker>>
    BY <1>7 DEF EnqueueSend, At
  <2>2. CASE UNCHANGED jobs /\ Becomes(r, "reject")
    <3>1. RequestFits(r)'
      BY <1>1, <2>1, <2>2 DEF RequestFits, Becomes
    <3> QED
      BY <1>2, <2>1, <2>2, <3>1
  <2>3. CASE jobs' = Append(jobs, r) /\ Becomes(r, "accepted")
    <3>1. workflows[r].status = InProgress
      BY <1>1, <2>1 DEF RequestFits
    <3>2. QueueFits'
      <4> SUFFICES ASSUME NEW i \in 1..Len(jobs') PROVE workflows[jobs'[i]].status = InProgress
        BY <2>1 DEF QueueFits
      <4>1. CASE i \in 1..Len(jobs)
        BY <1>1, <2>3, <4>1 DEF RowsFit, QueueFits
      <4>2. CASE i = Len(jobs) + 1
        BY <1>1, <2>3, <3>1, <4>2
      <4> QED
        BY <1>1, <2>3, <4>1, <4>2
    <3>3. ASSUME NEW q \in Runs PROVE RowFits(q)' /\ RequestFits(q)'
      <4>1. request'[q] = request[q] \/ request'[q] = "accepted"
        BY <1>1, <2>3 DEF Becomes
      <4>2. RowFits(q) /\ RequestFits(q) /\ workflows'[q] = workflows[q]
        BY <1>1, <2>1 DEF RowsFit
      <4> QED
        BY <4>1, <4>2 DEF RowFits, RequestFits
    <3>4. ASSUME NEW w \in Workers PROVE WorkerFits(w)'
      BY <1>1, <2>1 DEF RowsFit, WorkerFits
    <3>5. ProductsFit'
      BY <1>1, <2>1 DEF ProductsFit
    <3> QED
      BY <3>2, <3>3, <3>4, <3>5 DEF RowsFit
  <2> QED
    BY <1>7, <2>2, <2>3 DEF EnqueueSend
<1> QED
  BY <1>3, <1>4, <1>5, <1>6, <1>7 DEF RequestStep

LEMMA RowsFitNext == Invariant /\ [Next]_vars => RowsFit'
<1> SUFFICES ASSUME Invariant, [Next]_vars PROVE RowsFit'
  OBVIOUS
<1>0. RowsFit /\ jobs \in Seq(Runs) /\ worker \in [Workers -> Worker]
  BY DEF Invariant, Placed, TypeOK
<1>1. ASSUME UNCHANGED <<workflows, products, request, jobs, worker>> PROVE RowsFit'
  BY <1>0, <1>1 DEF RowsFit, RowFits, RequestFits, QueueFits, WorkerFits, ProductsFit
<1>2. ASSUME NEW w \in Workers, Dequeue(w) PROVE RowsFit'
  <2>0. jobs # <<>> /\ jobs' = Tail(jobs) /\ UNCHANGED <<workflows, products, request>>
    BY <1>2 DEF Dequeue
  <2>1. \A r \in Runs : (RowFits(r) /\ RequestFits(r))'
    BY <1>0, <2>0 DEF RowsFit, RowFits, RequestFits
  <2>2. QueueFits'
    BY <1>0, <2>0 DEF RowsFit, QueueFits
  <2>3. PICK head \in Runs : head = Head(jobs) /\ workflows[head].status = InProgress
    BY <1>0, <2>0 DEF RowsFit, QueueFits
  <2>4. worker'[w].at = "load" /\ worker'[w].run = head
    BY <1>0, <1>2, <2>3 DEF Dequeue, Idle
  <2>5. WorkerFits(w)'
    BY <2>0, <2>3, <2>4 DEF WorkerFits
  <2>6. ASSUME NEW v \in Workers, v # w PROVE WorkerFits(v)'
    <3>1. worker'[v] = worker[v]
      BY <1>0, <1>2, <2>6 DEF Dequeue
    <3> QED
      BY <1>0, <2>0, <3>1 DEF RowsFit, WorkerFits
  <2>7. ProductsFit'
    BY <1>0, <2>0 DEF RowsFit, ProductsFit
  <2> QED
    BY <2>1, <2>2, <2>5, <2>6, <2>7 DEF RowsFit
<1>3. ASSUME NEW w \in Workers, WorkerExit(w) PROVE RowsFit'
  <2>0. UNCHANGED <<workflows, products, request, jobs>>
    BY <1>3 DEF WorkerExit
  <2>1. worker'[w].at = "exited"
    BY <1>0, <1>3 DEF WorkerExit, Worker
  <2>2. ASSUME NEW v \in Workers, v # w PROVE WorkerFits(v)'
    <3>1. worker'[v] = worker[v]
      BY <1>0, <1>3, <2>2 DEF WorkerExit
    <3> QED
      BY <1>0, <2>0, <3>1 DEF RowsFit, WorkerFits
  <2>3. WorkerFits(w)'
    BY <2>1 DEF WorkerFits
  <2>4. (\A r \in Runs : RowFits(r) /\ RequestFits(r))' /\ QueueFits' /\ ProductsFit'
    BY <1>0, <2>0 DEF RowsFit, RowFits, RequestFits, QueueFits, ProductsFit
  <2> QED
    BY <2>2, <2>3, <2>4 DEF RowsFit
<1>4. ASSUME NEW c \in Closers,
             Shutdown(c) \/ ShutdownClose(c) \/ ShutdownDone(c) \/ ShutdownTimeout(c)
      PROVE  RowsFit'
  BY <1>1, <1>4 DEF Shutdown, ShutdownClose, ShutdownDone, ShutdownTimeout
<1>5. CASE UNCHANGED vars
  BY <1>1, <1>5 DEF vars
<1> QED
  BY <1>2, <1>3, <1>4, <1>5, ProcessRowFits, RequestStepRowFits
     DEF Next, RequestStep, WorkerStep, ShutdownStep, Stopped, ProcessStep

LEMMA RowsFitInit == Init => RowsFit
<1> SUFFICES ASSUME Init PROVE RowsFit
  OBVIOUS
<1>1. /\ workflows = [r \in Runs |-> NoRow] /\ products = [p \in Catalogue |-> NoRun]
      /\ request = [r \in Runs |-> "new"] /\ worker = [w \in Workers |-> Idle]
  BY DEF Init, StoreInit
<1>2. /\ NoRow.status = NotCreated /\ NoRow.steps = <<>> /\ NoRow.error = ""
      /\ NoRow.product = NoRun
  BY DEF NoRow, Workflow
<1>3. \A r \in Runs : RowFits(r) /\ RequestFits(r)
  BY <1>1, <1>2, Distinct DEF RowFits, RequestFits
<1>4. QueueFits
  <2>1. jobs = <<>>
    BY DEF Init
  <2> QED
    BY <2>1 DEF QueueFits
<1>5. \A w \in Workers : WorkerFits(w)
  <2>1. Idle.at = "idle"
    BY DEF Idle
  <2> QED
    BY <1>1, <2>1 DEF WorkerFits
<1>6. ProductsFit
  BY <1>1 DEF ProductsFit
<1> QED
  BY <1>3, <1>4, <1>5, <1>6 DEF RowsFit

LEMMA InvariantNext == Invariant /\ [Next]_vars => Invariant'
BY PlacedNext, SingleOwnerNext, RowsFitNext DEF Invariant

(* The invariant of the engine, for any number of requests, workers and callers
   of Shutdown, any capacity of the channel and any faults of the store. *)
THEOREM EngineInvariantHolds == Spec => []Invariant
<1>1. Init => Invariant
  BY PlacedInit, RowsFitInit, SingleOwnerInit DEF Invariant
<1> QED
  BY <1>1, InvariantNext, PTL DEF Spec

===============================================================================
