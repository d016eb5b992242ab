----------------------------- MODULE ServiceProofs -----------------------------
(***************************************************************************)
(* The process around the engine.  While it runs its steps are steps of    *)
(* the engine, whose invariant holds from the moment the catalogue was     *)
(* seeded; what a process leaves behind when it ends satisfies that        *)
(* invariant too, so that the next one can rely on it.  From it: restarts  *)
(* keep what was completed, and a clean exit leaves no run open.           *)
(***************************************************************************)
EXTENDS Service, EngineTheorems

(* The seed file was missing so far: no request gets past its first step. *)
Unseeded ==
  /\ products = [p \in {} |-> NoRun]
  /\ workflows = [r \in Runs |-> NoRow]
  /\ request \in [Runs -> {"new", "product not found", "internal error"}]
  /\ jobs = <<>>
  /\ worker \in [Workers -> {Idle, [Idle EXCEPT !.at = "exited"]}]

Stored == Unseeded \/ Invariant

(* No goroutine of the engine is left, or there yet. *)
Quiet ==
  /\ jobs = <<>>
  /\ closed = FALSE
  /\ worker = [w \in Workers |-> Idle]
  /\ shutdown = [c \in Closers |-> "not called"]

Stilled == ~Running => Quiet /\ \A r \in Runs : ~InFlight(r)

ServiceInvariant == Stored /\ Stilled

(* What holds of the rows when nobody works on them. *)
RowsStand ==
  /\ StoreTypeOK
  /\ request \in [Runs -> RequestPlaces] /\ \A r \in Runs : ~InFlight(r)
  /\ \A r \in Runs : /\ RowFits(r)
                     /\ request[r] = "new" => workflows[r].status = NotCreated
                     /\ request[r] = "accepted" => ProductOf[r] \in Catalogue
  /\ ProductsFit

LEMMA QuietInvariant == Quiet /\ RowsStand => Invariant
<1> SUFFICES ASSUME Quiet, RowsStand PROVE Invariant
  OBVIOUS
<1>1. /\ jobs \in Seq(Runs) /\ Len(jobs) = 0 /\ Len(jobs) <= QueueSize
      /\ \A i \in 1..Len(jobs) : FALSE
  <2>1. <<>> \in Seq(Runs) /\ Len(<<>>) = 0
    OBVIOUS
  <2>2. jobs \in Seq(Runs) /\ Len(jobs) = 0
    BY <2>1 DEF Quiet
  <2>3. QueueSize \in Nat
    BY EngineAssumption
  <2> QED
    BY <2>2, <2>3
<1>2. \A w \in Workers : worker[w] = Idle
  BY DEF Quiet
<1>3. Idle.at = "idle" /\ Idle.run = NoRun
  BY DEF Idle
<1>4. TypeOK
  <2>1. worker \in [Workers -> Worker]
    BY IdleTyped DEF Quiet
  <2>2. closed \in BOOLEAN
    BY DEF Quiet
  <2>3. shutdown \in [Closers -> ShutdownPlaces]
    BY DEF Quiet, ShutdownPlaces
  <2> QED
    BY <1>1, <2>1, <2>2, <2>3 DEF TypeOK, RowsStand
<1>5. Placed
  <2>1. RunsOwned
    BY <1>2, <1>3 DEF RunsOwned, Busy
  <2>2. RunsQueued
    BY <1>1 DEF RunsQueued
  <2>3. ProductsKnown
    BY DEF RowsStand, InFlight, ProductsKnown
  <2> QED
    BY <1>4, <2>1, <2>2, <2>3 DEF Placed
<1>6. SingleOwner
  BY <1>1, <1>2, <1>3, StoreAssumption DEF SingleOwner, Holds, InQueue, Owned
<1>7. RowsFit
  <2>1. QueueFits
    BY <1>1 DEF QueueFits
  <2>2. \A w \in Workers : WorkerFits(w)
    BY <1>2, <1>3 DEF WorkerFits
  <2>3. \A r \in Runs : RequestFits(r)
    BY DEF RowsStand, RequestFits, InFlight
  <2> QED
    BY <2>1, <2>2, <2>3 DEF RowsFit, RowsStand
<1> QED
  BY <1>5, <1>6, <1>7 DEF Invariant

(* The end of a process leaves the rows as they are. *)
LEMMA GoneRows == ASSUME Invariant, Gone PROVE Quiet' /\ RowsStand'
<1>1. Quiet'
  BY DEF Gone, Quiet
<1>2. /\ UNCHANGED <<workflows, products>>
      /\ request' = [r \in Runs |-> IF InFlight(r) THEN "no answer" ELSE request[r]]
  BY DEF Gone, storeVars
<1>3. /\ StoreTypeOK /\ request \in [Runs -> RequestPlaces] /\ ProductsFit /\ ProductsKnown
      /\ \A r \in Runs : RowFits(r) /\ RequestFits(r)
  BY DEF Invariant, Placed, TypeOK, RowsFit
<1>4. StoreTypeOK' /\ ProductsFit'
  BY <1>2, <1>3 DEF StoreTypeOK, ProductsFit
<1>5. request' \in [Runs -> RequestPlaces]
  BY <1>2, <1>3 DEF RequestPlaces
<1>6. ASSUME NEW r \in Runs
      PROVE  /\ ~InFlight(r)' /\ RowFits(r)'
             /\ request'[r] = "new" => workflows'[r].status = NotCreated
             /\ request'[r] = "accepted" => ProductOf[r] \in Catalogue
  <2>1. request'[r] = IF InFlight(r) THEN "no answer" ELSE request[r]
    BY <1>2
  <2>2. workflows'[r] = workflows[r] /\ RowFits(r) /\ RequestFits(r)
    BY <1>2, <1>3
  <2>3. ~InFlight(r)'
    BY <2>1 DEF InFlight
  <2>4. request[r] = "accepted" => request'[r] = "accepted"
    BY <2>1 DEF InFlight
  <2>5. request'[r] \in {"new", "accepted"} => request[r] = request'[r]
    BY <2>1
  <2>6. RowFits(r)'
    BY <2>2, <2>4 DEF RowFits
  <2> QED
    BY <1>3, <2>2, <2>3, <2>5, <2>6 DEF RequestFits, ProductsKnown
<1> QED
  BY <1>1, <1>4, <1>5, <1>6 DEF RowsStand

(* Where nothing was seeded the engine does nothing to the store. *)
LEMMA UnseededNext ==
  ASSUME Unseeded, [Next]_vars
  PROVE  Unseeded' /\ UNCHANGED storeVars
<1>1. ASSUME NEW r \in Runs, Trigger(r) PROVE Unseeded' /\ UNCHANGED storeVars
  <2>1. UNCHANGED <<workflows, products, jobs, worker>>
    BY <1>1 DEF Trigger
  <2>2. ProductOf[r] \notin DOMAIN products
    BY DEF Unseeded
  <2>3. \/ Becomes(r, "product not found")
        \/ Becomes(r, "internal error")
    BY <1>1, <2>2 DEF Trigger
  <2>4. request' \in [Runs -> {"new", "product not found", "internal error"}]
    BY <2>3 DEF Unseeded, Becomes
  <2> QED
    BY <2>1, <2>4 DEF Unseeded, storeVars
<1>2. ASSUME NEW r \in Runs, RequestStep(r) PROVE FALSE
  <2>1. request[r] \in {"new", "product not found", "internal error"}
    BY DEF Unseeded
  <2> QED
    BY <1>2, <2>1
       DEF RequestStep, TriggerCreate, EnqueueEnter, EnqueueSend, EnqueueReject, At
<1>3. ASSUME NEW w \in Workers, WorkerStep(w) \/ Deadline(w) \/ Panic(w)
      PROVE  Unseeded' /\ UNCHANGED storeVars
  <2>1. worker[w] \in {Idle, [Idle EXCEPT !.at = "exited"]}
    BY DEF Unseeded
  <2>2. worker[w].at \in {"idle", "exited"}
    <3>1. Idle.at = "idle" /\ [Idle EXCEPT !.at = "exited"].at = "exited"
      BY DEF Idle
    <3> QED
      BY <2>1, <3>1
  <2>3. WorkerExit(w)
    BY <1>3, <2>2
       DEF WorkerStep, Dequeue, LoadWorkflow, FetchStep, Detect, Persist, Fail, Recover,
           Deadline, Panic, WorkerIs, Unseeded
  <2>4. worker[w] = Idle
    <3>1. worker[w].at = "idle"
      BY <2>3 DEF WorkerExit, WorkerIs
    <3>2. [Idle EXCEPT !.at = "exited"].at = "exited"
      BY DEF Idle
    <3> QED
      BY <2>1, <3>1, <3>2
  <2>5. worker' = [worker EXCEPT ![w] = [Idle EXCEPT !.at = "exited"]]
    BY <2>3, <2>4 DEF WorkerExit
  <2>6. worker' \in [Workers -> {Idle, [Idle EXCEPT !.at = "exited"]}]
    BY <2>5 DEF Unseeded
  <2> QED
    BY <2>3, <2>6 DEF WorkerExit, Unseeded, storeVars
<1>4. ASSUME NEW c \in Closers, Shutdown(c) \/ ShutdownStep(c) \/ ShutdownTimeout(c)
      PROVE  Unseeded' /\ UNCHANGED storeVars
  BY <1>4 DEF Shutdown, ShutdownStep, ShutdownClose, ShutdownDone, ShutdownTimeout, Unseeded,
              storeVars
<1>5. CASE UNCHANGED vars
  BY <1>5 DEF vars, storeVars, Unseeded
<1> QED
  BY <1>1, <1>2, <1>3, <1>4, <1>5 DEF Next, Stopped

-------------------------------------------------------------------------------
(* The steps of the process, as the engine sees them. *)

EngineStep == Next /\ Running /\ Running' /\ UNCHANGED <<grace, abandoned>>

OutsideStep ==
  /\ UNCHANGED <<vars, abandoned>>
  /\ Running' <=> Running
  /\ grace' => grace \/ ~Running

(* The engine was stopped within the grace period: nothing is counted as left. *)
DrainedExit ==
  /\ process = "closing engine" /\ grace
  /\ \E c \in Closers : shutdown[c] \in {"nil", "timed out"}
  /\ UNCHANGED abandoned

End ==
  /\ Gone
  /\ ~Running'
  /\ DrainedExit \/ abandoned' = abandoned \cup OpenRuns

LEMMA ServiceSteps ==
  ASSUME [ServiceNext]_serviceVars
  PROVE  Seed \/ EngineStep \/ OutsideStep \/ End
<1>1. ASSUME NEW r \in Runs, Serve(r) PROVE EngineStep
  BY <1>1 DEF Serve, processVars, Running, Next, EngineStep
<1>2. CASE Work
  BY <1>2 DEF Work, processVars, Running, Next, EngineStep
<1>3. CASE Signal \/ GraceEnds
  BY <1>3 DEF Signal, GraceEnds, Running, OutsideStep
<1>4. CASE Restart
  BY <1>4 DEF Restart, Running, OutsideStep
<1>5. CASE UNCHANGED serviceVars
  <2>1. UNCHANGED vars /\ UNCHANGED <<process, grace, abandoned>>
    BY <1>5 DEF serviceVars, vars
  <2> QED
    BY <2>1 DEF Running, OutsideStep
<1>6. ASSUME NEW c \in Closers, HttpClosed(c) \/ EngineClosing(c)
      PROVE  EngineStep
  BY <1>6 DEF HttpClosed, EngineClosing, processVars, Running, Next, EngineStep
<1>7. ASSUME NEW c \in Closers, Exit(c) PROVE End
  BY <1>7 DEF Exit, Running, End, DrainedExit
<1>8. CASE Die
  BY <1>8 DEF Die, Running, End
<1> QED
  BY <1>1, <1>2, <1>3, <1>4, <1>5, <1>6, <1>7, <1>8 DEF ServiceNext

LEMMA UnseededGone ==
  ASSUME Unseeded, Gone PROVE Unseeded' /\ Quiet' /\ \A r \in Runs : ~InFlight(r)'
<1>1. \A r \in Runs : ~InFlight(r)
  BY DEF Unseeded, InFlight
<1>2. request' = request
  BY <1>1 DEF Gone, Unseeded
<1>3. UNCHANGED <<workflows, products>> /\ jobs' = <<>> /\ worker' = [w \in Workers |-> Idle]
  BY DEF Gone, storeVars
<1>4. worker' \in [Workers -> {Idle, [Idle EXCEPT !.at = "exited"]}]
  BY <1>3
<1>5. Unseeded'
  BY <1>2, <1>3, <1>4 DEF Unseeded
<1>6. Quiet'
  BY DEF Gone, Quiet
<1> QED
  BY <1>1, <1>2, <1>5, <1>6 DEF InFlight

(* The first seeding gives the engine its initial documents. *)
LEMMA SeedRows ==
  ASSUME Unseeded, Quiet, products' = [p \in Catalogue |-> NoRun],
         UNCHANGED <<workflows, request, jobs, closed, worker, shutdown>>
  PROVE  Quiet' /\ RowsStand'
<1>1. Quiet'
  BY DEF Quiet
<1>2. NoRow \in Row /\ NoRow.status = NotCreated /\ NoRow.product = NoRun
      /\ NoRow.steps = <<>> /\ NoRow.error = ""
  BY NoStepsTyped DEF NoRow, Workflow, Row, Statuses, Errors
<1>3. \A r \in Runs : workflows'[r] = NoRow
  BY DEF Unseeded
<1>4. StoreTypeOK'
  BY <1>2 DEF Unseeded, StoreTypeOK
<1>5. request' \in [Runs -> RequestPlaces] /\ \A r \in Runs : ~InFlight(r)'
  BY DEF Unseeded, RequestPlaces, Answers, InFlight
<1>6. ASSUME NEW r \in Runs
      PROVE  /\ RowFits(r)'
             /\ request'[r] = "new" => workflows'[r].status = NotCreated
             /\ request'[r] = "accepted" => ProductOf[r] \in Catalogue
  <2>1. RowFits(r)'
    BY <1>2, <1>3, Distinct DEF RowFits
  <2> QED
    BY <1>2, <1>3, <2>1 DEF Unseeded
<1>7. ProductsFit'
  BY DEF ProductsFit
<1> QED
  BY <1>1, <1>4, <1>5, <1>6, <1>7 DEF RowsStand

LEMMA StoredNext ==
  ASSUME Stored, Stilled, [ServiceNext]_serviceVars PROVE Stored' /\ Stilled'
<1>1. (Quiet /\ RowsStand => Invariant)'
  BY QuietInvariant, PTL
<1>2. ASSUME UNCHANGED vars PROVE Stored'
  <2>1. [Next]_vars
    BY <1>2
  <2> QED
    BY <2>1, InvariantNext, UnseededNext DEF Stored
<1>3. CASE Seed
  <2>1. /\ process = "starting" /\ Running'
        /\ UNCHANGED <<workflows, request, jobs, closed, worker, shutdown>>
    BY <1>3 DEF Seed, Running
  <2>2. Quiet
    BY <2>1 DEF Stilled, Running
  <2>3. CASE UNCHANGED products
    BY <1>2, <2>1, <2>3 DEF vars, Stilled
  <2>4. CASE products' = [p \in Catalogue |-> IF p \in DOMAIN products THEN products[p] ELSE NoRun]
    <3>1. CASE Unseeded
      <4>1. products' = [p \in Catalogue |-> NoRun]
        BY <2>4, <3>1 DEF Unseeded
      <4> QED
        BY <1>1, <2>1, <2>2, <3>1, <4>1, SeedRows DEF Stored, Stilled
    <3>2. CASE Invariant
      <4>1. products' = products
        BY <2>4, <3>2 DEF Invariant, Placed, TypeOK, StoreTypeOK
      <4> QED
        BY <1>2, <2>1, <4>1 DEF vars, Stilled
    <3> QED
      BY <3>1, <3>2 DEF Stored
  <2> QED
    BY <1>3, <2>3, <2>4 DEF Seed
<1>4. CASE EngineStep
  BY <1>4, InvariantNext, UnseededNext DEF Stored, Stilled, EngineStep
<1>5. CASE OutsideStep
  <2>1. Stilled'
    BY <1>5 DEF vars, Stilled, Quiet, InFlight, OutsideStep
  <2> QED
    BY <1>2, <1>5, <2>1 DEF OutsideStep
<1>6. CASE End
  <2>1. CASE Unseeded
    BY <1>6, <2>1, UnseededGone DEF Stored, Stilled, End
  <2>2. CASE Invariant
    BY <1>1, <1>6, <2>2, GoneRows DEF Stored, Stilled, RowsStand, End
  <2> QED
    BY <2>1, <2>2 DEF Stored
<1> QED
  BY <1>3, <1>4, <1>5, <1>6, ServiceSteps

LEMMA StoredInit == ServiceInit => Unseeded /\ Stilled
<1> SUFFICES ASSUME ServiceInit PROVE Unseeded /\ Stilled
  OBVIOUS
<1>1. Unseeded
  BY DEF ServiceInit, Unseeded
<1>2. Quiet /\ \A r \in Runs : ~InFlight(r)
  BY DEF ServiceInit, Quiet, InFlight
<1> QED
  BY <1>1, <1>2 DEF Stilled

LEMMA AlwaysStored == ServiceSpec => []ServiceInvariant
<1>1. ServiceInit => ServiceInvariant
  BY StoredInit DEF ServiceInvariant, Stored
<1>2. ServiceInvariant /\ [ServiceNext]_serviceVars => ServiceInvariant'
  BY StoredNext DEF ServiceInvariant
<1> QED
  BY <1>1, <1>2, PTL DEF ServiceSpec

-------------------------------------------------------------------------------
(* What is stored outlives the process. *)

(* The documents as RunLifecycle sees them: not seeded is not shown. *)
Shown == [p \in Catalogue |-> IF p \in DOMAIN products THEN products[p] ELSE NoRun]

LEMMA ShownIs ==
  /\ Invariant => Shown = products
  /\ Unseeded => Shown = [p \in Catalogue |-> NoRun]
BY DEF Shown, Unseeded, Invariant, Placed, TypeOK, StoreTypeOK

LEMMA SameLives ==
  /\ Lives!NotCreated = Lifecycle!NotCreated /\ Lives!InProgress = Lifecycle!InProgress
  /\ Lives!Completed = Lifecycle!Completed /\ Lives!Failed = Lifecycle!Failed
  /\ Lives!NotCreated = NotCreated
BY DEF NotCreated, Lives!NotCreated, Lives!InProgress, Lives!Completed, Lives!Failed,
       Lifecycle!NotCreated, Lifecycle!InProgress, Lifecycle!Completed, Lifecycle!Failed

(* A step that leaves the rows and what is shown as they are is a stutter. *)
LEMMA StillLives ==
  ASSUME UNCHANGED workflows, Shown' = Shown PROVE UNCHANGED Lives!vars
BY DEF Shown, Lives!vars

LEMMA EngineLives ==
  ASSUME Invariant, Invariant', [Next]_vars PROVE [Lives!Next]_(Lives!vars)
<1> DEFINE status == [r \in Runs |-> workflows[r].status]
           snapshot == [r \in Runs |-> workflows[r].product]
<1>1. Shown = products
  BY ShownIs
<1>2. (Invariant => Shown = products)'
  BY ShownIs, PTL
<1>3. Shown' = products'
  BY <1>2
<1>4. CASE UNCHANGED Lifecycle!vars
  BY <1>1, <1>3, <1>4 DEF Lifecycle!vars, Lives!vars, Shown
<1>5. ASSUME NEW r \in Runs, Lifecycle!Open(r) PROVE Lives!Open(r)
  BY <1>1, <1>3, <1>5, SameLives DEF Lifecycle!Open, Lives!Open, Shown
<1>6. ASSUME NEW r \in Runs, Lifecycle!Complete(r) PROVE Lives!Complete(r)
  BY <1>1, <1>3, <1>6, SameLives DEF Lifecycle!Complete, Lives!Complete, Shown
<1>7. ASSUME NEW r \in Runs, Lifecycle!Fail(r) PROVE Lives!Fail(r)
  BY <1>1, <1>3, <1>7, SameLives DEF Lifecycle!Fail, Lives!Fail, Shown
<1> QED
  BY <1>4, <1>5, <1>6, <1>7, StepsImplement DEF Lifecycle!Next, Lives!Next

LEMMA ServiceLives ==
  ASSUME Stored, Stored', Stilled, [ServiceNext]_serviceVars
  PROVE  [Lives!Next]_(Lives!vars)
<1>1. CASE EngineStep
  <2>1. CASE Unseeded
    BY <1>1, <2>1, UnseededNext, StillLives DEF storeVars, Shown, EngineStep
  <2>2. CASE Invariant
    BY <1>1, <2>2, InvariantNext, EngineLives DEF EngineStep
  <2> QED
    BY <2>1, <2>2 DEF Stored
<1>2. CASE Seed
  <2>1. UNCHANGED workflows
    BY <1>2 DEF Seed
  <2>2. UNCHANGED products \/ products' = Shown
    BY <1>2 DEF Seed, Shown
  <2>3. Shown' = Shown
    <3>1. CASE UNCHANGED products
      BY <3>1 DEF Shown
    <3>2. CASE products' = Shown
      BY <3>2 DEF Shown
    <3> QED
      BY <2>2, <3>1, <3>2
  <2> QED
    BY <2>1, <2>3, StillLives
<1>3. CASE OutsideStep \/ End
  BY <1>3, StillLives DEF OutsideStep, End, vars, Gone, storeVars, Shown
<1> QED
  BY <1>1, <1>2, <1>3, ServiceSteps

(* Crashes, restarts and repeated seeding included, and whatever faults the
   store has: what is stored of the runs and documents changes only as
   RunLifecycle allows. *)
THEOREM RestartsChangeNothing == ServiceSpec => RestartsKeepLifecycle
<1>1. ServiceInit => Lives!Init
  <2> SUFFICES ASSUME ServiceInit PROVE Lives!Init
    OBVIOUS
  <2>1. NoRow.status = NotCreated /\ NoRow.product = NoRun
    BY DEF NoRow, Workflow
  <2>2. \A r \in Runs : workflows[r].status = NotCreated /\ workflows[r].product = NoRun
    BY <2>1 DEF ServiceInit
  <2>3. Shown = [p \in Catalogue |-> NoRun]
    BY DEF ServiceInit, Shown
  <2> QED
    BY <2>2, <2>3, SameLives DEF Shown, Lives!Init
<1>2. ServiceInvariant /\ ServiceInvariant' /\ [ServiceNext]_serviceVars
        => [Lives!Next]_(Lives!vars)
  BY ServiceLives DEF ServiceInvariant
<1> QED
  BY <1>1, <1>2, AlwaysStored, PTL DEF ServiceSpec, RestartsKeepLifecycle, Lives!Spec

-------------------------------------------------------------------------------
(* What is left of the runs, when the store does not fail and its GetWorkflow   *)
(* does not look at contexts: every open run is accounted for.                  *)

(* The engine is closed after the listener, within the grace period after the
   handlers, and gives up only when that period has ended. *)
Orderly ==
  /\ shutdown \in [Closers -> ShutdownPlaces]
  /\ process \in {"serving", "closing http"} =>
       ~closed /\ \A c \in Closers : CallerIs(c, "not called")
  /\ process = "closing engine" /\ grace => \A r \in Runs : ~InFlight(r)
  /\ \A c \in Closers : CallerIs(c, "timed out") => ~grace

(* An open run that no earlier process abandoned is one of this process, and
   was refused only by an engine that was closed over its handler. *)
Accounted ==
  \A r \in OpenRuns \ abandoned :
    /\ Running
    /\ request[r] # "no answer"
    /\ request[r] = "unavailable" => ~grace

Tended == Unseeded \/ Undisturbed(abandoned)

CleanInvariant == Orderly /\ NoSendOnClosedChannel /\ Accounted /\ Tended

LEMMA OrderlyNext ==
  ASSUME Stilled, Orderly, [ServiceNext]_serviceVars PROVE Orderly'
<1> USE DEF CallerIs
<1>1. CASE Seed
  <2>1. Quiet /\ process' = "serving" /\ UNCHANGED <<closed, shutdown>>
    BY <1>1 DEF Seed, Stilled, Running
  <2> QED
    BY <2>1 DEF Orderly, Quiet
<1>2. ASSUME NEW r \in Runs, Serve(r) PROVE Orderly'
  BY <1>2 DEF Serve, Trigger, processVars, Orderly
<1>3. CASE Work
  <2>1. UNCHANGED processVars
    BY <1>3 DEF Work
  <2>2. ASSUME NEW r \in Runs, RequestStep(r) PROVE InFlight(r) /\ UNCHANGED <<closed, shutdown>>
    BY <2>2 DEF RequestStep, TriggerCreate, EnqueueEnter, EnqueueSend, EnqueueReject, At, InFlight
  <2>3. ASSUME NEW w \in Workers, WorkerStep(w) \/ Deadline(w) \/ Panic(w)
        PROVE  UNCHANGED <<request, closed, shutdown>>
    BY <2>3 DEF WorkerStep, Dequeue, WorkerExit, LoadWorkflow, FetchStep, Detect, Persist, Fail,
                Recover, Deadline, Panic
  <2>4. /\ UNCHANGED <<closed, shutdown, process, grace>>
        /\ \/ \E r \in Runs : InFlight(r)
           \/ UNCHANGED request
    BY <1>3, <2>1, <2>2, <2>3 DEF Work, processVars
  <2>5. process' = "closing engine" /\ grace' => \A r \in Runs : ~InFlight(r)'
    BY <2>4 DEF Orderly, InFlight
  <2> QED
    BY <2>4, <2>5 DEF Orderly
<1>4. CASE Signal \/ GraceEnds \/ Restart \/ UNCHANGED serviceVars
  <2>1. UNCHANGED <<request, closed, shutdown>>
    BY <1>4 DEF Signal, GraceEnds, Restart, serviceVars, vars
  <2>2. CASE Signal
    BY <2>1, <2>2 DEF Signal, Orderly
  <2>3. CASE GraceEnds
    BY <2>1, <2>3 DEF GraceEnds, Orderly
  <2>4. CASE Restart
    <3>1. Quiet
      BY <2>4 DEF Restart, Stilled, Running
    <3> QED
      BY <2>1, <2>4, <3>1 DEF Restart, Orderly, Quiet
  <2>5. CASE UNCHANGED serviceVars
    <3>1. UNCHANGED <<process, grace>>
      BY <2>5 DEF serviceVars
    <3> QED
      BY <2>1, <3>1 DEF Orderly, InFlight
  <2> QED
    BY <1>4, <2>2, <2>3, <2>4, <2>5
<1>5. ASSUME NEW c \in Closers, HttpClosed(c) PROVE Orderly'
  BY <1>5 DEF HttpClosed, Shutdown, CallerBecomes, Orderly, InFlight, ShutdownPlaces
<1>6. ASSUME NEW c \in Closers, EngineClosing(c) PROVE Orderly'
  <2>1. UNCHANGED <<request, process, grace>> /\ process = "closing engine"
    BY <1>6 DEF EngineClosing, ShutdownStep, ShutdownClose, ShutdownDone, ShutdownTimeout,
                processVars
  <2>2. PICK place \in {"draining", "already closed", "nil", "timed out"} :
          CallerBecomes(c, place) /\ (place = "timed out" => ~grace)
    BY <1>6 DEF EngineClosing, ShutdownStep, ShutdownClose, ShutdownDone, ShutdownTimeout
  <2> QED
    BY <2>1, <2>2 DEF CallerBecomes, Orderly, InFlight, ShutdownPlaces
<1>7. CASE Gone /\ ~Running'
  <2>1. shutdown' = [c \in Closers |-> "not called"]
    BY <1>7 DEF Gone
  <2>2. process' \notin {"serving", "closing http", "closing engine"}
    BY <1>7 DEF Running
  <2> QED
    BY <2>1, <2>2 DEF Orderly, ShutdownPlaces
<1>8. ASSUME NEW c \in Closers, Exit(c) PROVE Gone /\ ~Running'
  BY <1>8 DEF Exit, Running
<1>9. Die => Gone /\ ~Running'
  BY DEF Die, Running
<1> QED
  BY <1>1, <1>2, <1>3, <1>4, <1>5, <1>6, <1>7, <1>8, <1>9 DEF ServiceNext

(* The engine leaves a refused run open only when it was closed over it. *)
LEMMA RefusedOpen ==
  ASSUME Faults = {}, "GetWorkflow" \notin HonoursContext, Invariant, [Next]_vars,
         NEW r \in Runs, workflows'[r].status = InProgress,
         request'[r] \in {"unavailable", "no answer"}
  PROVE  /\ workflows[r].status = InProgress
         /\ \/ request'[r] = request[r]
            \/ request[r] = "enqueue" /\ request'[r] = "unavailable" /\ closed
<1>0. request \in [Runs -> RequestPlaces] /\ workflows \in [Runs -> Row] /\ RequestFits(r)
  BY DEF Invariant, Placed, TypeOK, StoreTypeOK, RowsFit
<1>1. ASSUME NEW q \in Runs, q # r, Trigger(q) \/ RequestStep(q)
      PROVE  workflows[r].status = InProgress /\ request'[r] = request[r]
  <2>1. request'[r] = request[r]
    BY <1>0, <1>1 DEF Trigger, RequestStep, TriggerCreate, EnqueueEnter, EnqueueSend,
                      EnqueueReject, Becomes
  <2>2. UNCHANGED storeVars \/ Opens(q) \/ Fails(q)
    BY <1>1, RequestStoreStep
  <2>3. workflows'[r] = workflows[r]
    BY <1>0, <1>1, <2>2 DEF storeVars, Opens, Fails
  <2> QED
    BY <2>1, <2>3
<1>2. CASE Trigger(r) \/ TriggerCreate(r) \/ EnqueueSend(r)
  <2>1. request'[r] \in {"create", "product not found", "internal error", "enqueue",
                         "accepted", "reject"}
    BY <1>0, <1>2 DEF Trigger, TriggerCreate, EnqueueSend, Becomes
  <2> QED
    BY <2>1
<1>3. CASE EnqueueEnter(r)
  <2>1. request'[r] = "unavailable" => closed
    BY <1>0, <1>3 DEF EnqueueEnter, Becomes
  <2>2. request[r] = "enqueue" /\ request'[r] \in {"unavailable", "send"}
    BY <1>0, <1>3 DEF EnqueueEnter, At, Becomes
  <2> QED
    BY <1>0, <2>1, <2>2 DEF RequestFits
<1>4. CASE EnqueueReject(r)
  <2>1. request[r] = "reject"
    BY <1>4 DEF EnqueueReject, At
  <2>2. FailWorkflow(r, <<>>, "queue full")
    BY <1>4, OnlyOk DEF EnqueueReject, TakesEffect
  <2>3. workflows' = [workflows EXCEPT ![r] = Workflow(Failed, <<>>, "queue full", NoRun)]
    BY <1>0, <2>1, <2>2, FailRow DEF RequestFits
  <2>4. workflows'[r].status = Failed
    BY <1>0, <2>3 DEF Workflow
  <2> QED
    BY <2>4, Distinct
<1>5. ASSUME NEW w \in Workers, ProcessStep(w)
      PROVE  workflows[r].status = InProgress /\ request'[r] = request[r]
  <2>1. UNCHANGED request
    BY <1>5 DEF ProcessStep, LoadWorkflow, FetchStep, Detect, Panic, Recover, Deadline, Persist,
                Fail
  <2>2. ASSUME NEW q \in Runs, Completes(q) \/ Fails(q) PROVE workflows[r].status = InProgress
    BY <1>0, <2>2 DEF Completes, Fails
  <2> QED
    BY <1>5, <2>1, <2>2, ProcessStoreStep DEF storeVars
<1>6. ASSUME NEW w \in Workers, Dequeue(w) \/ WorkerExit(w) PROVE UNCHANGED <<workflows, request>>
  BY <1>6 DEF Dequeue, WorkerExit
<1>7. ASSUME NEW c \in Closers, Shutdown(c) \/ ShutdownStep(c) \/ ShutdownTimeout(c)
      PROVE  UNCHANGED <<workflows, request>>
  BY <1>7 DEF Shutdown, ShutdownStep, ShutdownClose, ShutdownDone, ShutdownTimeout
<1>8. CASE UNCHANGED vars
  BY <1>8 DEF vars
<1> QED
  BY <1>1, <1>2, <1>3, <1>4, <1>5, <1>6, <1>7, <1>8
     DEF Next, RequestStep, WorkerStep, ProcessStep, Stopped

LEMMA NothingOpen == Unseeded => OpenRuns = {}
<1>1. NoRow.status = NotCreated
  BY DEF NoRow, Workflow
<1> QED
  BY <1>1, Distinct DEF Unseeded, OpenRuns

(* When the engine was stopped within the grace period its channel is empty and
   its workers are gone, and no handler was still to be refused. *)
LEMMA DrainedLeavesNothing ==
  ASSUME Workers # {}, Invariant, Orderly, Accounted, Undisturbed(abandoned), DrainedExit
  PROVE  OpenRuns \subseteq abandoned
<1> SUFFICES ASSUME NEW r \in OpenRuns \ abandoned PROVE FALSE
  OBVIOUS
<1>0. /\ r \in Runs /\ workflows[r].status = InProgress
      /\ request[r] \in RequestPlaces /\ RequestFits(r) /\ RunsOwned
  BY DEF OpenRuns, Invariant, Placed, TypeOK, RowsFit
<1>1. PICK c \in Closers : CallerIs(c, "nil")
  BY DEF DrainedExit, Orderly, CallerIs
<1>2. \A w \in Workers : WorkerIs(w, "exited")
  BY <1>1 DEF Undisturbed, NilAfterExit
<1>3. jobs = <<>>
  BY <1>2 DEF Undisturbed, ExitedAfterDrain
<1>4. ~Owned(r)
  BY <1>0, <1>2, <1>3, StoreAssumption DEF Owned, InQueue, Holds, RunsOwned, Busy, WorkerIs
<1>5. request[r] # "unavailable" /\ request[r] # "no answer"
  BY DEF Accounted, DrainedExit
<1>6. ~InFlight(r)
  BY <1>0 DEF Orderly, DrainedExit
<1>7. request[r] # "new"
  BY <1>0, Distinct DEF RequestFits
<1>8. Answered(r)
  BY <1>0, <1>5, <1>6, <1>7 DEF RequestPlaces, InFlight, Answered
<1> QED
  BY <1>0, <1>4, <1>5, <1>8 DEF Undisturbed, OpenRunsKept

LEMMA AccountedNext ==
  ASSUME Faults = {}, "GetWorkflow" \notin HonoursContext, Workers # {},
         Invariant, Orderly, Accounted, Undisturbed(abandoned), [ServiceNext]_serviceVars
  PROVE  Accounted'
<1> SUFFICES ASSUME NEW r \in Runs, workflows'[r].status = InProgress, r \notin abandoned'
             PROVE  /\ Running'
                    /\ request'[r] # "no answer"
                    /\ request'[r] = "unavailable" => ~grace'
  BY DEF Accounted, OpenRuns
<1>1. CASE EngineStep
  <2> SUFFICES ASSUME request'[r] \in {"unavailable", "no answer"}
               PROVE  request'[r] # "no answer" /\ (request'[r] = "unavailable" => ~grace')
    BY <1>1 DEF EngineStep
  <2>1. /\ workflows[r].status = InProgress
        /\ \/ request'[r] = request[r]
           \/ request[r] = "enqueue" /\ request'[r] = "unavailable" /\ closed
    BY <1>1, RefusedOpen DEF EngineStep
  <2>2. r \in OpenRuns \ abandoned /\ grace' = grace
    BY <1>1, <2>1 DEF EngineStep, OpenRuns
  <2>3. CASE request'[r] = request[r]
    BY <2>2, <2>3 DEF Accounted
  <2>4. CASE request[r] = "enqueue" /\ request'[r] = "unavailable" /\ closed
    <3>1. process = "closing engine"
      BY <1>1, <2>4 DEF EngineStep, Running, Orderly
    <3> QED
      BY <2>2, <2>4, <3>1 DEF Orderly, InFlight
  <2> QED
    BY <2>1, <2>3, <2>4
<1>2. CASE OutsideStep
  <2>1. r \in OpenRuns \ abandoned /\ request' = request
    BY <1>2 DEF OutsideStep, vars, OpenRuns
  <2> QED
    BY <1>2, <2>1 DEF OutsideStep, Accounted
<1>3. CASE Seed
  <2>1. r \in OpenRuns \ abandoned /\ ~Running
    BY <1>3 DEF Seed, OpenRuns, Running
  <2> QED
    BY <2>1 DEF Accounted
<1>4. CASE End
  <2>1. r \in OpenRuns
    BY <1>4 DEF End, Gone, storeVars, OpenRuns
  <2> QED
    BY <1>4, <2>1, DrainedLeavesNothing DEF End, DrainedExit
<1> QED
  BY <1>1, <1>2, <1>3, <1>4, ServiceSteps

(* A new process finds every open run accounted for. *)
LEMMA QuietIsUndisturbed ==
  Quiet /\ AcceptedHaveRows /\ OpenRuns \subseteq abandoned => Undisturbed(abandoned)
<1> SUFFICES ASSUME Quiet, AcceptedHaveRows, OpenRuns \subseteq abandoned
             PROVE  Undisturbed(abandoned)
  OBVIOUS
<1>1. Idle.at # "exited"
  BY DEF Idle
<1>2. ExitedAfterDrain /\ NilAfterExit
  BY <1>1 DEF Quiet, ExitedAfterDrain, NilAfterExit, WorkerIs, CallerIs
<1>3. OpenRunsKept(abandoned)
  BY DEF OpenRunsKept, OpenRuns
<1> QED
  BY <1>2, <1>3 DEF Undisturbed

LEMMA TendedNext ==
  ASSUME Faults = {}, "GetWorkflow" \notin HonoursContext, Workers # {},
         Invariant, NoSendOnClosedChannel, Orderly, Accounted, Undisturbed(abandoned),
         [ServiceNext]_serviceVars
  PROVE  Undisturbed(abandoned)' /\ NoSendOnClosedChannel'
<1>1. ASSUME [Next]_vars, UNCHANGED abandoned
      PROVE  Undisturbed(abandoned)' /\ NoSendOnClosedChannel'
  <2>1. PICK excused : excused = abandoned
    OBVIOUS
  <2>2. Undisturbed(excused)'
    BY <1>1, <2>1, UndisturbedNext
  <2> QED
    BY <1>1, <2>1, <2>2, SendersNext
       DEF Invariant, Undisturbed, ExitedAfterDrain, NilAfterExit, AcceptedHaveRows, OpenRunsKept
<1>2. CASE EngineStep \/ OutsideStep
  BY <1>1, <1>2 DEF EngineStep, OutsideStep
<1>3. CASE Seed
  <2>1. products' = products
    BY <1>3 DEF Seed, Invariant, Placed, TypeOK, StoreTypeOK
  <2> QED
    BY <1>1, <1>3, <2>1 DEF Seed, vars
<1>4. CASE End
  <2>1. /\ UNCHANGED workflows
        /\ request' = [r \in Runs |-> IF InFlight(r) THEN "no answer" ELSE request[r]]
    BY <1>4 DEF End, Gone, storeVars
  <2>2. Quiet'
    BY <1>4 DEF End, Gone, Quiet
  <2>3. AcceptedHaveRows'
    BY <2>1 DEF Undisturbed, AcceptedHaveRows
  <2>4. (OpenRuns \subseteq abandoned)'
    BY <1>4, <2>1, DrainedLeavesNothing DEF End, DrainedExit, OpenRuns
  <2>5. Undisturbed(abandoned)'
    BY <2>2, <2>3, <2>4, QuietIsUndisturbed, PTL
  <2>6. NoSendOnClosedChannel'
    BY <2>2 DEF Quiet, NoSendOnClosedChannel
  <2> QED
    BY <2>5, <2>6
<1> QED
  BY <1>2, <1>3, <1>4, ServiceSteps

(* Before the first seeding there is nothing to account for. *)
LEMMA UntendedNext ==
  ASSUME Stilled, Unseeded, [ServiceNext]_serviceVars
  PROVE  Accounted' /\ NoSendOnClosedChannel' /\ Tended'
<1>1. (Unseeded => OpenRuns = {})'
  BY NothingOpen, PTL
<1>2. ASSUME Unseeded' PROVE Accounted' /\ NoSendOnClosedChannel' /\ Tended'
  <2>1. Accounted'
    BY <1>1, <1>2 DEF Accounted
  <2>2. \A r \in Runs : request'[r] # "send"
    BY <1>2 DEF Unseeded
  <2> QED
    BY <1>2, <2>1, <2>2 DEF NoSendOnClosedChannel, Tended
<1>3. CASE EngineStep
  BY <1>2, <1>3, UnseededNext DEF EngineStep
<1>4. CASE OutsideStep
  BY <1>2, <1>4 DEF OutsideStep, vars, Unseeded
<1>5. CASE End
  BY <1>2, <1>5, UnseededGone DEF End
<1>6. CASE Seed
  <2>1. Quiet /\ UNCHANGED <<workflows, request, jobs, closed, worker, shutdown, abandoned>>
    BY <1>6 DEF Seed, Stilled, Running
  <2>2. Quiet'
    BY <2>1 DEF Quiet
  <2>3. OpenRuns = {} /\ OpenRuns' = OpenRuns
    BY <2>1, NothingOpen DEF OpenRuns
  <2>4. AcceptedHaveRows'
    BY <2>1 DEF Unseeded, AcceptedHaveRows
  <2>5. (OpenRuns \subseteq abandoned)'
    BY <2>3
  <2>6. Undisturbed(abandoned)'
    BY <2>2, <2>4, <2>5, QuietIsUndisturbed, PTL
  <2>7. NoSendOnClosedChannel'
    BY <2>2 DEF Quiet, NoSendOnClosedChannel
  <2> QED
    BY <2>3, <2>6, <2>7 DEF Accounted, Tended
<1> QED
  BY <1>3, <1>4, <1>5, <1>6, ServiceSteps

(* A process that was asked to stop and did so within the grace period leaves
   no run open, whatever it was in the middle of. *)
THEOREM CleanExitsLeaveNothing ==
  ASSUME Faults = {}, "GetWorkflow" \notin HonoursContext, Workers # {}
  PROVE  ServiceSpec => []CleanExitLeavesNoOpenRun
<1>1. ServiceInit => CleanInvariant
  <2> SUFFICES ASSUME ServiceInit PROVE CleanInvariant
    OBVIOUS
  <2>1. Unseeded
    BY StoredInit
  <2>2. Orderly
    BY DEF ServiceInit, Orderly, ShutdownPlaces, CallerIs
  <2>3. NoSendOnClosedChannel /\ Accounted
    BY <2>1, NothingOpen DEF ServiceInit, NoSendOnClosedChannel, Accounted
  <2> QED
    BY <2>1, <2>2, <2>3 DEF CleanInvariant, Tended
<1>2. ServiceInvariant /\ CleanInvariant /\ [ServiceNext]_serviceVars => CleanInvariant'
  <2> SUFFICES ASSUME ServiceInvariant, CleanInvariant, [ServiceNext]_serviceVars
               PROVE  CleanInvariant'
    OBVIOUS
  <2>1. Orderly'
    BY OrderlyNext DEF ServiceInvariant, CleanInvariant
  <2>2. CASE Unseeded
    BY <2>1, <2>2, UntendedNext DEF ServiceInvariant, CleanInvariant
  <2>3. CASE Invariant /\ Undisturbed(abandoned)
    BY <2>1, <2>3, AccountedNext, TendedNext DEF CleanInvariant, Tended
  <2> QED
    BY <2>2, <2>3 DEF ServiceInvariant, CleanInvariant, Stored, Tended
<1>3. CleanInvariant => CleanExitLeavesNoOpenRun
  BY DEF CleanInvariant, Accounted, Running, CleanExitLeavesNoOpenRun
<1> QED
  BY <1>1, <1>2, <1>3, AlwaysStored, PTL DEF ServiceSpec

-------------------------------------------------------------------------------
(* What RunLifecycle promises holds of whatever implements it. *)

LivesPromised == INSTANCE RunLifecycleProofs
  WITH status   <- [r \in Runs |-> workflows[r].status],
       snapshot <- [r \in Runs |-> workflows[r].product],
       current  <- [p \in Catalogue |-> IF p \in DOMAIN products THEN products[p]
                                                                ELSE NoRun]

LEMMA LivesPromisedIs ==
  /\ RestartsKeepLifecycle => LivesPromised!Spec
  /\ LivesPromised!ShowsCompletedRun => Lives!ShowsCompletedRun
  /\ LivesPromised!OwnSnapshot => Lives!OwnSnapshot
BY PTL
   DEF RestartsKeepLifecycle, Lives!Spec, LivesPromised!Spec, Lives!Init, LivesPromised!Init,
       Lives!Next, LivesPromised!Next, Lives!vars, LivesPromised!vars, Lives!Open,
       LivesPromised!Open, Lives!Complete, LivesPromised!Complete, Lives!Fail,
       LivesPromised!Fail, Lives!NotCreated, LivesPromised!NotCreated, Lives!InProgress,
       LivesPromised!InProgress, Lives!Completed, LivesPromised!Completed, Lives!Failed,
       LivesPromised!Failed, Lives!ShowsCompletedRun, LivesPromised!ShowsCompletedRun,
       Lives!OwnSnapshot, LivesPromised!OwnSnapshot

(* README "COMPLETED always implies the claims are durable", across processes:
   a document goes on showing a completed run of its product through crashes,
   restarts and the seeding at every start, and a completed run keeps its own
   result, whatever faults the store has. *)
THEOREM ResultsOutliveProcesses ==
  ServiceSpec => [](Lives!ShowsCompletedRun /\ Lives!OwnSnapshot)
BY RestartsChangeNothing, LivesPromisedIs, LivesPromised!DocumentsShowCompletedRuns,
   LivesPromised!SnapshotsAreOwn, PTL

===============================================================================
