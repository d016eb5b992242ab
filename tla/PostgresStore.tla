----------------------------- MODULE PostgresStore -----------------------------
(***************************************************************************)
(* internal/store/postgres statement by statement, to justify that Store   *)
(* takes an operation as one step and RunLifecycle as one change of state. *)
(*                                                                         *)
(* CompleteWorkflow and FailWorkflow are transactions on a connection of   *)
(* the pool, under PostgreSQL's READ COMMITTED isolation: a statement sees *)
(* what is committed when it runs and what its own transaction wrote; an   *)
(* UPDATE locks its row to the end of the transaction, waits for another   *)
(* transaction's lock, and looks at the row again when it has it.          *)
(*                                                                         *)
(* A connection is a server-side session.  The caller may have given up on *)
(* it (its context ended) while it goes on to commit, so a run may be      *)
(* failed on one connection while its completion is pending on another.    *)
(***************************************************************************)
EXTENDS WorkflowStates

CONSTANTS
  Runs, Catalogue, ProductOf, NoRun,
  Connections,     \* the pool
  ClaimCount       \* how many claims the detection of each run found

ASSUME PostgresAssumption ==
  /\ NoRun \notin Runs
  /\ ClaimCount \in [Runs -> Nat]

VARIABLES
  status,      \* workflows.status, committed
  result,      \* workflows.result: whose claims the snapshot holds
  document,    \* products.data: whose claims the document holds
  claims,      \* the rows of the claims table
  tx           \* what each connection is doing

tables == <<status, result, document, claims>>
vars == <<status, result, document, claims, tx>>

(* The rows of the claims table that a run inserts. *)
ClaimsOf(r) == {[run |-> r, n |-> n] : n \in 1..ClaimCount[r]}

Claims == UNION {ClaimsOf(r) : r \in Runs}

(* The committed rows of a product. *)
RowsOf(p) == {k \in claims : ProductOf[k.run] = p}

(* at: the next statement; deleted, inserted: the transaction's own changes of
   the claims table. *)
Statements == {"close", "update product", "delete claims", "insert claims", "commit"}

Transaction ==
  [at : Statements \cup {"idle"}, run : Runs \cup {NoRun}, to : Statuses,
   deleted : SUBSET Claims, inserted : SUBSET Claims]

NoTx == [at |-> "idle", run |-> NoRun, to |-> NotCreated, deleted |-> {}, inserted |-> {}]

At(c, statement) == tx[c].at = statement

(* The workflow row is locked once the closing UPDATE has matched it, the
   product row once it has been updated. *)
LocksWorkflow(c, r) == tx[c].run = r /\ tx[c].at \in Statements \ {"close"}

LocksProduct(c, p) ==
  /\ tx[c].at \in {"delete claims", "insert claims", "commit"}
  /\ tx[c].to = Completed
  /\ ProductOf[tx[c].run] = p

Init ==
  /\ status = [r \in Runs |-> NotCreated]
  /\ result = [r \in Runs |-> NoRun]
  /\ document = [p \in Catalogue |-> NoRun]
  /\ claims = {}
  /\ tx = [c \in Connections |-> NoTx]

-------------------------------------------------------------------------------

(* One INSERT; the foreign key needs the product. *)
CreateWorkflow(r) ==
  /\ status[r] = NotCreated
  /\ ProductOf[r] \in Catalogue
  /\ status' = [status EXCEPT ![r] = InProgress]
  /\ UNCHANGED <<result, document, claims, tx>>

(* inTx: a connection of the pool begins a transaction that completes or fails
   a run. *)
Begin(c, r, to) ==
  /\ At(c, "idle")
  /\ status[r] # NotCreated
  /\ tx' = [tx EXCEPT ![c] = [NoTx EXCEPT !.at = "close", !.run = r, !.to = to]]
  /\ UNCHANGED tables

\* Slip: the WHERE clause names the run and not its status.
CloseRunUnguarded(c) ==
  /\ At(c, "close")
  /\ \A d \in Connections \ {c} : ~LocksWorkflow(d, tx[c].run)
  /\ tx' = [tx EXCEPT ![c].at = IF tx[c].to = Completed THEN "update product" ELSE "commit"]
  /\ UNCHANGED tables

\* Slip: a transaction that is refused is not rolled back.
CloseRunLeaksTx(c) ==
  /\ At(c, "close")
  /\ \A d \in Connections \ {c} : ~LocksWorkflow(d, tx[c].run)
  /\ CanTransitionTo(status[tx[c].run], tx[c].to)
  /\ tx' = [tx EXCEPT ![c].at = IF tx[c].to = Completed THEN "update product" ELSE "commit"]
  /\ UNCHANGED tables

(* closeRun: UPDATE workflows ... WHERE id = $1 AND status = 'IN_PROGRESS'.  It
   waits for the row lock and tests the status that is committed by then; if no
   row matches, ErrInvalidTransition rolls the transaction back. *)
CloseRun(c) ==
  /\ At(c, "close")
  /\ \A d \in Connections \ {c} : ~LocksWorkflow(d, tx[c].run)
  /\ IF CanTransitionTo(status[tx[c].run], tx[c].to)
     THEN tx' = [tx EXCEPT
                   ![c].at = IF tx[c].to = Completed THEN "update product" ELSE "commit"]
     ELSE tx' = [tx EXCEPT ![c] = NoTx]
  /\ UNCHANGED tables

\* Slip: the product row is written after the claims, so it is not locked here.
UpdateProductUnlocked(c) ==
  /\ At(c, "update product")
  /\ tx' = [tx EXCEPT ![c].at = "delete claims"]
  /\ UNCHANGED tables

(* UPDATE products: from here on the transaction is alone on this product. *)
UpdateProduct(c) ==
  /\ At(c, "update product")
  /\ \A d \in Connections \ {c} : ~LocksProduct(d, ProductOf[tx[c].run])
  /\ tx' = [tx EXCEPT ![c].at = "delete claims"]
  /\ UNCHANGED tables

(* DELETE FROM claims WHERE product_id = $1: the rows committed by now.  No
   other transaction holds one of them, because it would hold the product. *)
DeleteClaims(c) ==
  /\ At(c, "delete claims")
  /\ tx' = [tx EXCEPT
              ![c].at = "insert claims",
              ![c].deleted = RowsOf(ProductOf[tx[c].run])]
  /\ UNCHANGED tables

\* Slip: each INSERT runs on the pool and is committed on its own.
InsertClaimOutsideTx(c) ==
  /\ At(c, "insert claims")
  /\ LET rest == ClaimsOf(tx[c].run) \ claims
     IN  IF rest = {}
         THEN tx' = [tx EXCEPT ![c].at = "commit"] /\ UNCHANGED tables
         ELSE /\ \E k \in rest : claims' = claims \cup {k}
              /\ UNCHANGED <<status, result, document, tx>>

(* One INSERT for each claim, in the transaction. *)
InsertClaim(c) ==
  /\ At(c, "insert claims")
  /\ LET rest == ClaimsOf(tx[c].run) \ tx[c].inserted
     IN  IF rest = {}
         THEN tx' = [tx EXCEPT ![c].at = "commit"]
         ELSE \E k \in rest : tx' = [tx EXCEPT ![c].inserted = @ \cup {k}]
  /\ UNCHANGED tables

(* COMMIT publishes everything at once, acknowledged or not. *)
Commit(c) ==
  /\ At(c, "commit")
  /\ LET r == tx[c].run
         completes == tx[c].to = Completed
     IN  /\ status' = [status EXCEPT ![r] = tx[c].to]
         /\ result' = [result EXCEPT ![r] = IF completes THEN r ELSE NoRun]
         /\ document' = IF completes THEN [document EXCEPT ![ProductOf[r]] = r]
                                     ELSE document
         /\ claims' = (claims \ tx[c].deleted) \cup tx[c].inserted
  /\ tx' = [tx EXCEPT ![c] = NoTx]

(* A statement fails, the context ends, or the connection or the program is
   lost: whatever the transaction did is undone. *)
Rollback(c) ==
  /\ ~At(c, "idle")
  /\ tx' = [tx EXCEPT ![c] = NoTx]
  /\ UNCHANGED tables

Statement(c) ==
  CloseRun(c) \/ UpdateProduct(c) \/ DeleteClaims(c) \/ InsertClaim(c) \/ Commit(c)

Next ==
  \/ \E r \in Runs : CreateWorkflow(r)
  \/ \E c \in Connections, r \in Runs, to \in {Completed, Failed} : Begin(c, r, to)
  \/ \E c \in Connections : Statement(c) \/ Rollback(c)

Spec == Init /\ [][Next]_vars

(* The server goes on with every transaction, and hands a lock to those who wait
   for it in turn: a transaction that may go on again and again does so. *)
FairSpec == Spec /\ \A c \in Connections : SF_vars(Statement(c))

-------------------------------------------------------------------------------
(* Properties. *)

TypeOK ==
  /\ status \in [Runs -> Statuses]
  /\ result \in [Runs -> Runs \cup {NoRun}]
  /\ document \in [Catalogue -> Runs \cup {NoRun}]
  /\ claims \subseteq Claims
  /\ tx \in [Connections -> Transaction]

(* The claims table and the product document never disagree, although they are
   written by different statements and two runs of one product may complete at
   the same time: the rows of a product are the claims of the run its document
   shows. *)
ClaimsMatchDocument ==
  \A p \in Catalogue :
    RowsOf(p) =
      IF document[p] = NoRun THEN {} ELSE ClaimsOf(document[p])

(* What a transaction that has closed its run relies on: the run is still open
   for everyone else, and the claims it replaces are still those of its product. *)
TxFits(c) ==
  LET me == tx[c]
  IN  /\ At(c, "idle") => me = NoTx
      /\ ~At(c, "idle") =>
           /\ me.run \in Runs
           /\ me.to \in {Completed, Failed}
           /\ status[me.run] # NotCreated
           /\ me.inserted \subseteq ClaimsOf(me.run)
      /\ me.at \in Statements \ {"close"} => status[me.run] = InProgress
      /\ me.at \in {"update product", "delete claims", "insert claims"} => me.to = Completed
      /\ me.at \in {"insert claims", "commit"} /\ me.to = Completed =>
           me.deleted = RowsOf(ProductOf[me.run])
      /\ me.to = Failed => me.deleted = {} /\ me.inserted = {}
      /\ At(c, "commit") /\ me.to = Completed => me.inserted = ClaimsOf(me.run)

LocksExclude ==
  \A c, d \in Connections : c # d =>
    /\ \A r \in Runs : ~(LocksWorkflow(c, r) /\ LocksWorkflow(d, r))
    /\ \A p \in Catalogue : ~(LocksProduct(c, p) /\ LocksProduct(d, p))

RunFits(r) ==
  /\ status[r] # NotCreated => ProductOf[r] \in Catalogue
  /\ status[r] # Completed => result[r] = NoRun

(* Everything the proofs of PostgresStore rest on: between them the row locks
   make the statements of a transaction as good as one. *)
Invariant ==
  /\ TypeOK
  /\ \A c \in Connections : TxFits(c)
  /\ LocksExclude
  /\ \A r \in Runs : RunFits(r)
  /\ ClaimsMatchDocument

(* The guard in closeRun's WHERE clause ("a second close a no-op"): once a run
   is closed neither its status nor its snapshot changes, although other
   transactions may have begun to close it before it was. *)
ClosedRunsKeepResult ==
  [][\A r \in Runs : Terminal(status[r]) =>
       status'[r] = status[r] /\ result'[r] = result[r]]_vars

(* The committed tables change as RunLifecycle says, in spite of what runs
   between the statements (README "Completion is atomic"). *)
Lifecycle == INSTANCE RunLifecycle WITH snapshot <- result, current <- document

ImplementsLifecycle == Lifecycle!Spec

(* No two transactions wait for each other for ever: locks are taken in the
   order workflow, product, so a transaction that has begun ends. *)
TransactionsEnd == \A c \in Connections : At(c, "close") ~> At(c, "idle")

===============================================================================
