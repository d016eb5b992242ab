-------------------------------- MODULE Store ---------------------------------
(***************************************************************************)
(* The store.Store interface as the engine sees it: the workflow rows and  *)
(* the claims of each product document, and the operations that change     *)
(* them.  Each operation of internal/store/memory runs under the store's   *)
(* mutex, and each of internal/store/postgres is one statement or one      *)
(* transaction, so an operation takes effect in one step.                  *)
(*                                                                         *)
(* Of a product document only its claims array changes, so a product is    *)
(* the run whose detection produced the claims it shows.  Timestamps and   *)
(* the text of steps and errors are left out.                              *)
(***************************************************************************)
EXTENDS WorkflowStates

CONSTANTS
  Runs,        \* workflow ids, one per request
  Catalogue,   \* ids of the products that were seeded
  ProductOf,   \* the product id each request names
  NoRun        \* "no claims": a nil Product, or an empty claims array

ASSUME StoreAssumption == NoRun \notin Runs

VARIABLES
  workflows,   \* the workflow rows
  products     \* the claims of each product document

storeVars == <<workflows, products>>

(* Workflow.Error: empty, or the kind of failure its text describes. *)
Errors == {"", "queue full", "fetch product", "persist result", "internal error"}

Row == [status : Statuses, steps : Seq(Steps), error : Errors,
        product : Runs \cup {NoRun}]

(* A row; product is the snapshot of the product, if the run completed. *)
Workflow(status, steps, error, product) ==
  [status |-> status, steps |-> steps, error |-> error, product |-> product]

NoRow == Workflow(NotCreated, <<>>, "", NoRun)

StoreInit ==
  /\ workflows = [r \in Runs |-> NoRow]
  /\ products = [p \in Catalogue |-> NoRun]

StoreTypeOK ==
  /\ workflows \in [Runs -> Row]
  /\ products \in [Catalogue -> Runs \cup {NoRun}]

-------------------------------------------------------------------------------

CreateWorkflow(r) ==
  /\ workflows' = [workflows EXCEPT ![r] = Workflow(InProgress, <<>>, "", NoRun)]
  /\ UNCHANGED products

(* store.ErrInvalidTransition is the answer when this is false. *)
CanClose(r, status) == CanTransitionTo(workflows[r].status, status)

\* Slip: only the workflow row is written.
CompleteWorkflowRowOnly(r, steps, error, claims) ==
  /\ IF CanClose(r, Completed)
     THEN workflows' = [workflows EXCEPT
                          ![r] = Workflow(Completed, steps, error, claims)]
     ELSE UNCHANGED workflows
  /\ UNCHANGED products

CompleteWorkflow(r, steps, error, claims) ==
  IF CanClose(r, Completed)
  THEN /\ products' = [products EXCEPT ![ProductOf[r]] = claims]
       /\ workflows' = [workflows EXCEPT
                          ![r] = Workflow(Completed, steps, error, claims)]
  ELSE UNCHANGED storeVars

FailWorkflow(r, steps, error) ==
  IF CanClose(r, Failed)
  THEN /\ workflows' = [workflows EXCEPT
                          ![r] = Workflow(Failed, steps, error, NoRun)]
       /\ UNCHANGED products
  ELSE UNCHANGED storeVars

===============================================================================
