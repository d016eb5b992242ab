------------------------------ MODULE MemoryStore ------------------------------
(***************************************************************************)
(* internal/store/memory and the Clone methods of internal/model, with the *)
(* requests, workers and readers that share memory with the store.  The    *)
(* store's mutex covers its maps only: every caller goes on writing to the *)
(* workflow and the product it has passed or got, without the lock, and a  *)
(* handler encodes what it got after the lock is released.                 *)
(*                                                                         *)
(* Objects have addresses.  An address is the place in the code where the  *)
(* object is allocated and whom it is allocated for; an object allocated   *)
(* there again replaces one that nobody refers to any more.                *)
(***************************************************************************)
EXTENDS WorkflowStates

CONSTANTS
  Runs,        \* workflow ids, one per request
  Catalogue,   \* the products that were seeded
  ProductOf,   \* the product of each run
  NoRun,       \* "no claims": an empty claims array
  Readers      \* handlers of status and product requests

VARIABLES
  workflow,    \* the Workflow objects: address -> fields
  product,     \* the Product objects: address -> whose claims they hold
  workflows,   \* the map of the store: run -> address
  products,    \* the map of the store: product -> address
  request,     \* where each request is in Trigger
  worker,      \* where the worker of each run is in process()
  copy,        \* the workflow and product each worker works on
  reading      \* what each reader was handed and has not encoded yet

vars == <<workflow, product, workflows, products, request, worker, copy, reading>>

Address(place, owner) == <<place, owner>>
Nil == <<"nil">>

Fields(status, steps, error, snapshot) ==
  [status |-> status, steps |-> steps, error |-> error, product |-> snapshot]

Blank == Fields(NotCreated, <<>>, "", Nil)

Init ==
  /\ workflow = [a \in ({"trigger", "created", "loaded", "closed"} \X Runs)
                       \cup ({"read"} \X Readers) |-> Blank]
  /\ product = [a \in ({"fetched", "published", "snapshot"} \X Runs)
                      \cup ({"seeded"} \X Catalogue)
                      \cup ({"read"} \X Readers) |-> NoRun]
  /\ workflows = [r \in Runs |-> Nil]
  /\ products = [p \in Catalogue |-> Address("seeded", p)]
  /\ request = [r \in Runs |-> "new"]
  /\ worker = [r \in Runs |-> "none"]
  /\ copy = [r \in Runs |-> [workflow |-> Nil, product |-> Nil]]
  /\ reading = [rd \in Readers |-> [workflow |-> Nil, product |-> Nil]]

-------------------------------------------------------------------------------
(* The store.  Each operation is one critical section of its mutex; a read    *)
(* yields the object it hands out, and the objects as they are then.          *)

Handed(ref, theWorkflows, theProducts) ==
  [ref |-> ref, workflows |-> theWorkflows, products |-> theProducts]

\* Slip: the stored row itself is handed out.
GetWorkflowUncloned(r, at) == Handed(workflows[r], workflow, product)

(* Workflow.Clone copies the steps and the snapshot as well. *)
GetWorkflow(r, at) ==
  LET row == workflow[workflows[r]]
  IN  IF row.product = Nil
      THEN Handed(at, [workflow EXCEPT ![at] = row], product)
      ELSE Handed(at, [workflow EXCEPT ![at] = [row EXCEPT !.product = at]],
                      [product EXCEPT ![at] = product[row.product]])

\* Slip: the stored document itself is handed out.
GetProductUncloned(p, at) == Handed(products[p], workflow, product)

GetProduct(p, at) == Handed(at, workflow, [product EXCEPT ![at] = product[products[p]]])

\* Slip: the caller's object becomes the row.
CreateWorkflowUncloned(r, from) ==
  /\ workflows' = [workflows EXCEPT ![r] = from]
  /\ UNCHANGED <<workflow, product, products>>

CreateWorkflow(r, from) ==
  /\ workflows' = [workflows EXCEPT ![r] = Address("created", r)]
  /\ workflow' = [workflow EXCEPT ![Address("created", r)] = workflow[from]]
  /\ UNCHANGED <<product, products>>

CanClose(r, status) == CanTransitionTo(workflow[workflows[r]].status, status)

(* The document and the snapshot are clones of their own. *)
CompleteWorkflow(r, from, enriched) ==
  IF CanClose(r, Completed)
  THEN /\ products' = [products EXCEPT ![ProductOf[r]] = Address("published", r)]
       /\ product' = [product EXCEPT ![Address("published", r)] = product[enriched],
                                     ![Address("snapshot", r)] = product[enriched]]
       /\ workflow' = [workflow EXCEPT ![Address("closed", r)] =
            [workflow[from] EXCEPT !.status = Completed, !.product = Address("snapshot", r)]]
       /\ workflows' = [workflows EXCEPT ![r] = Address("closed", r)]
  ELSE UNCHANGED <<workflow, product, workflows, products>>

FailWorkflow(r, from) ==
  /\ IF CanClose(r, Failed)
     THEN /\ workflow' = [workflow EXCEPT ![Address("closed", r)] =
               [workflow[from] EXCEPT !.status = Failed]]
          /\ workflows' = [workflows EXCEPT ![r] = Address("closed", r)]
     ELSE UNCHANGED <<workflow, workflows>>
  /\ UNCHANGED <<product, products>>

storeVars == <<workflow, product, workflows, products>>

-------------------------------------------------------------------------------
(* Trigger and enqueue work on the Workflow that Trigger allocates. *)

Becomes(r, place) == request' = [request EXCEPT ![r] = place]

(* A product that is not stored is answered before anything is allocated. *)
Trigger(r) ==
  /\ request[r] = "new"
  /\ ProductOf[r] \in Catalogue
  /\ workflow' = [workflow EXCEPT ![Address("trigger", r)] = Fields(InProgress, <<>>, "", Nil)]
  /\ Becomes(r, "create")
  /\ UNCHANGED <<product, workflows, products, worker, copy, reading>>

TriggerCreate(r) ==
  /\ request[r] = "create"
  /\ CreateWorkflow(r, Address("trigger", r))
  /\ Becomes(r, "enqueue")
  /\ UNCHANGED <<worker, copy, reading>>

(* A request that is refused because the engine is closed writes nothing. *)
Accept(r) ==
  /\ request[r] = "enqueue"
  /\ Becomes(r, "accepted")
  /\ worker' = [worker EXCEPT ![r] = "load"]
  /\ UNCHANGED <<storeVars, copy, reading>>

(* The queue is full: the error is put in the workflow of Trigger, and then
   the run is failed. *)
Reject(r) ==
  /\ request[r] = "enqueue"
  /\ workflow' = [workflow EXCEPT ![Address("trigger", r)].error = "queue full"]
  /\ Becomes(r, "reject")
  /\ UNCHANGED <<product, workflows, products, worker, copy, reading>>

RejectFail(r) ==
  /\ request[r] = "reject"
  /\ FailWorkflow(r, Address("trigger", r))
  /\ Becomes(r, "answered")
  /\ UNCHANGED <<worker, copy, reading>>

(* The handler encodes the workflow of an accepted request. *)
Answer(r) ==
  /\ request[r] = "accepted"
  /\ Becomes(r, "answered")
  /\ UNCHANGED <<storeVars, worker, copy, reading>>

-------------------------------------------------------------------------------
(* process and fail work on what GetWorkflow and GetProduct handed out. *)

Proceeds(r, place) == worker' = [worker EXCEPT ![r] = place]

(* A run that is closed already is skipped. *)
LoadWorkflow(r) ==
  /\ worker[r] = "load"
  /\ LET got == GetWorkflow(r, Address("loaded", r))
     IN  /\ workflow' = got.workflows /\ product' = got.products
         /\ copy' = [copy EXCEPT ![r].workflow = got.ref]
         /\ Proceeds(r, IF Terminal(got.workflows[got.ref].status) THEN "done" ELSE "fetch")
  /\ UNCHANGED <<workflows, products, request, reading>>

FetchStep(r) ==
  /\ worker[r] = "fetch"
  /\ LET got == GetProduct(ProductOf[r], Address("fetched", r))
     IN  /\ workflow' = [workflow EXCEPT
                ![copy[r].workflow].steps = RecordStep(@, FetchProduct, FALSE)]
         /\ product' = got.products
         /\ copy' = [copy EXCEPT ![r].product = got.ref]
  /\ Proceeds(r, "detect")
  /\ UNCHANGED <<workflows, products, request, reading>>

(* product.Claims = detected, and two steps, before the store is called. *)
Detect(r) ==
  /\ worker[r] = "detect"
  /\ product' = [product EXCEPT ![copy[r].product] = r]
  /\ workflow' = [workflow EXCEPT ![copy[r].workflow].steps =
       RecordStep(RecordStep(@, DetectClaims, FALSE), PersistResult, FALSE)]
  /\ Proceeds(r, "persist")
  /\ UNCHANGED <<workflows, products, request, copy, reading>>

(* When the store refuses, the recorded success is replaced by a failure in the
   worker's own workflow, and nothing more. *)
Persist(r) ==
  /\ worker[r] = "persist"
  /\ IF CanClose(r, Completed)
     THEN CompleteWorkflow(r, copy[r].workflow, copy[r].product)
     ELSE /\ workflow' = [workflow EXCEPT ![copy[r].workflow].steps =
               RecordStep(WithoutLast(@), PersistResult, TRUE)]
          /\ UNCHANGED <<product, workflows, products>>
  /\ Proceeds(r, "done")
  /\ UNCHANGED <<request, copy, reading>>

(* A panic in a step, the store's cloning of a product included: the row is read
   again, and its copy gets the error. *)
Recover(r) ==
  /\ worker[r] \in {"fetch", "detect", "persist"}
  /\ LET got == GetWorkflow(r, Address("loaded", r))
     IN  /\ workflow' = [got.workflows EXCEPT ![got.ref].error = "internal error"]
         /\ product' = got.products
         /\ copy' = [copy EXCEPT ![r].workflow = got.ref]
  /\ Proceeds(r, "fail")
  /\ UNCHANGED <<workflows, products, request, reading>>

Fail(r) ==
  /\ worker[r] = "fail"
  /\ FailWorkflow(r, copy[r].workflow)
  /\ Proceeds(r, "done")
  /\ UNCHANGED <<request, copy, reading>>

-------------------------------------------------------------------------------
(* handleStatus and handleGetProduct: a read, and later the encoding of what  *)
(* it handed out.                                                             *)

Nothing == [workflow |-> Nil, product |-> Nil]

ReadStatus(rd, r) ==
  /\ reading[rd] = Nothing
  /\ workflows[r] # Nil
  /\ LET got == GetWorkflow(r, Address("read", rd))
     IN  /\ workflow' = got.workflows /\ product' = got.products
         /\ reading' = [reading EXCEPT ![rd].workflow = got.ref]
  /\ UNCHANGED <<workflows, products, request, worker, copy>>

ReadProduct(rd, p) ==
  /\ reading[rd] = Nothing
  /\ LET got == GetProduct(p, Address("read", rd))
     IN  /\ product' = got.products
         /\ reading' = [reading EXCEPT ![rd].product = got.ref]
  /\ UNCHANGED <<workflow, workflows, products, request, worker, copy>>

Encode(rd) ==
  /\ reading[rd] # Nothing
  /\ reading' = [reading EXCEPT ![rd] = Nothing]
  /\ workflow' = [workflow EXCEPT ![Address("read", rd)] = Blank]
  /\ product' = [product EXCEPT ![Address("read", rd)] = NoRun]
  /\ UNCHANGED <<workflows, products, request, worker, copy>>

Next ==
  \/ \E r \in Runs :
       \/ Trigger(r) \/ TriggerCreate(r) \/ Accept(r) \/ Reject(r) \/ RejectFail(r) \/ Answer(r)
       \/ LoadWorkflow(r) \/ FetchStep(r) \/ Detect(r) \/ Persist(r) \/ Recover(r) \/ Fail(r)
  \/ \E rd \in Readers :
       \/ \E r \in Runs : ReadStatus(rd, r)
       \/ \E p \in Catalogue : ReadProduct(rd, p)
       \/ Encode(rd)

Spec == Init /\ [][Next]_vars

-------------------------------------------------------------------------------

(* A workflow with the claims of its snapshot, followed through its pointers. *)
Deep(ref) ==
  [workflow[ref] EXCEPT !.product = IF @ = Nil THEN NoRun ELSE product[@]]

StatusOf(r) == IF workflows[r] = Nil THEN NotCreated ELSE workflow[workflows[r]].status

(* What the maps of the store show, followed through their pointers, changes as
   RunLifecycle says: a run completes and its claims appear in one step, although
   the worker puts them in its product long before (engine.go:191). *)
Lifecycle == INSTANCE RunLifecycle WITH
  status   <- [r \in Runs |-> StatusOf(r)],
  snapshot <- [r \in Runs |-> IF workflows[r] = Nil THEN NoRun ELSE Deep(workflows[r]).product],
  current  <- [p \in Catalogue |-> product[products[p]]]

MemoryImplementsLifecycle == Lifecycle!Spec

(* The row of an open run is as Trigger created it, whatever requests and
   workers write in their workflows meanwhile (engine.go:141, 178, 196). *)
OpenRowsAsCreated ==
  \A r \in Runs : StatusOf(r) = InProgress =>
    workflow[workflows[r]] = Fields(InProgress, <<>>, "", Nil)

HeldBy(rd) ==
  <<IF reading[rd].workflow = Nil THEN Nil ELSE Deep(reading[rd].workflow),
    IF reading[rd].product = Nil THEN NoRun ELSE product[reading[rd].product]>>

(* What a handler is encoding does not change under its hands. *)
NothingChangesWhileEncoded ==
  [][/\ \A rd \in Readers : reading'[rd] = reading[rd] => HeldBy(rd)' = HeldBy(rd)
     /\ \A r \in Runs : request[r] = "accepted" =>
          workflow'[Address("trigger", r)] = workflow[Address("trigger", r)]]_vars

===============================================================================
