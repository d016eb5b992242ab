---------------------------- MODULE PostgresProofs ----------------------------
(***************************************************************************)
(* The row locks of a completion make its statements as good as one: the   *)
(* claims table always agrees with the product documents, and the          *)
(* committed tables change as RunLifecycle says.                           *)
(***************************************************************************)
EXTENDS PostgresStore, TLAPS

USE PostgresAssumption

(* The claims a run inserts carry its name. *)
LEMMA ClaimsNameTheirRun ==
  ASSUME NEW r \in Runs, NEW k \in ClaimsOf(r)
  PROVE  k.run = r /\ k \in Claims
BY DEF ClaimsOf, Claims

(* A connection without a transaction holds no lock and fits any table. *)
LEMMA IdleFits ==
  ASSUME NEW c, tx[c] = NoTx
  PROVE  /\ TxFits(c)
         /\ \A r : ~LocksWorkflow(c, r)
         /\ \A p : ~LocksProduct(c, p)
<1>1. tx[c].at = "idle" /\ tx[c].to = NotCreated
  BY DEF NoTx
<1>2. NotCreated # Failed /\ NotCreated # Completed
  BY DEF NotCreated, Failed, Completed
<1>3. TxFits(c)
  <2> HIDE DEF NoTx
  <2> QED BY <1>1, <1>2 DEF TxFits, At, Statements
<1>4. (\A r : ~LocksWorkflow(c, r)) /\ \A p : ~LocksProduct(c, p)
  BY <1>1 DEF LocksWorkflow, LocksProduct, Statements
<1> QED
  BY <1>3, <1>4

(* No row is written in the initial state. *)
LEMMA InitInvariant == Init => Invariant
<1> SUFFICES ASSUME Init PROVE Invariant
  OBVIOUS
<1>1. TypeOK
  BY DEF Init, TypeOK, NoTx, Statuses, Statements, Transaction
<1>2. \A c \in Connections : tx[c] = NoTx
  BY DEF Init
<1>3. \A c \in Connections : TxFits(c)
  BY <1>2, IdleFits
<1>4. LocksExclude
  BY <1>2, IdleFits DEF LocksExclude
<1>5. \A r \in Runs : RunFits(r)
  BY DEF Init, RunFits, NotCreated, Completed
<1>6. ClaimsMatchDocument
  BY DEF Init, ClaimsMatchDocument, RowsOf
<1> QED
  BY <1>1, <1>3, <1>4, <1>5, <1>6 DEF Invariant


(* A statement that leaves the committed tables alone keeps what is said of
   them, and what is said of every other transaction. *)
LEMMA TablesAlone ==
  ASSUME Invariant, UNCHANGED tables,
         NEW c \in Connections, NEW t \in Transaction, tx' = [tx EXCEPT ![c] = t]
  PROVE  /\ TypeOK'
         /\ \A r \in Runs : RunFits(r)'
         /\ ClaimsMatchDocument'
         /\ tx'[c] = t
         /\ \A d \in Connections \ {c} : tx'[d] = tx[d] /\ TxFits(d)'
<1>1. /\ status' = status /\ result' = result /\ document' = document /\ claims' = claims
  BY DEF tables
<1>2. tx'[c] = t /\ \A d \in Connections \ {c} : tx'[d] = tx[d]
  BY DEF Invariant, TypeOK
<1>3. \A r \in Runs : RunFits(r)'
  BY <1>1 DEF Invariant, RunFits
<1>4. ClaimsMatchDocument'
  BY <1>1 DEF Invariant, ClaimsMatchDocument, RowsOf
<1>5. ASSUME NEW d \in Connections \ {c} PROVE TxFits(d)'
  <2>1. TxFits(d)
    BY DEF Invariant
  <2>2. tx'[d] = tx[d]
    BY <1>2
  <2> QED
    BY <1>1, <2>1, <2>2, ZenonT(30) DEF TxFits, At, RowsOf
<1>6. TypeOK'
  BY <1>1 DEF Invariant, TypeOK
<1> QED
  BY <1>2, <1>3, <1>4, <1>5, <1>6

(* A transaction that takes no new lock excludes the others as before. *)
LEMMA NoNewLock ==
  ASSUME Invariant, NEW c \in Connections,
         \A d \in Connections \ {c} : tx'[d] = tx[d],
         \A r \in Runs : LocksWorkflow(c, r)' => LocksWorkflow(c, r),
         \A p \in Catalogue : LocksProduct(c, p)' => LocksProduct(c, p)
  PROVE  LocksExclude'
<1>1. \A d \in Connections : \A r \in Runs : LocksWorkflow(d, r)' => LocksWorkflow(d, r)
  BY DEF LocksWorkflow
<1>2. \A d \in Connections : \A p \in Catalogue : LocksProduct(d, p)' => LocksProduct(d, p)
  BY DEF LocksProduct
<1> QED
  BY <1>1, <1>2 DEF Invariant, LocksExclude

(* The fields of a transaction, once it has begun. *)
LEMMA Begun ==
  ASSUME Invariant, NEW c \in Connections, ~At(c, "idle")
  PROVE  /\ tx[c].run \in Runs
         /\ tx[c].to \in {Completed, Failed}
         /\ tx[c].to \in Statuses
         /\ tx[c].deleted \subseteq Claims
         /\ tx[c].inserted \subseteq ClaimsOf(tx[c].run)
         /\ tx[c].inserted \subseteq Claims
         /\ ProductOf[tx[c].run] \in Catalogue
BY ClaimsNameTheirRun DEF Invariant, TypeOK, TxFits, RunFits, Statuses, Transaction

-------------------------------------------------------------------------------

LEMMA CreateKeeps ==
  ASSUME Invariant, NEW r \in Runs, CreateWorkflow(r)
  PROVE  Invariant'
<1>1. /\ status' = [status EXCEPT ![r] = InProgress]
      /\ status[r] = NotCreated /\ ProductOf[r] \in Catalogue
      /\ result' = result /\ document' = document /\ claims' = claims /\ tx' = tx
  BY DEF CreateWorkflow
<1>2. TypeOK'
  BY <1>1 DEF Invariant, TypeOK, Statuses
<1>3. ASSUME NEW c \in Connections PROVE TxFits(c)'
  <2>1. CASE At(c, "idle")
    <3>1. tx'[c] = NoTx
      BY <1>1, <2>1 DEF Invariant, TxFits
    <3> QED
      BY <3>1 DEF TxFits, At, NoTx, Statements, Completed, Failed, NotCreated
  <2>2. CASE ~At(c, "idle")
    <3>1. TxFits(c) /\ tx[c].run \in Runs /\ status[tx[c].run] # NotCreated
      BY <2>2 DEF Invariant, TxFits
    <3>2. status'[tx[c].run] = status[tx[c].run]
      BY <1>1, <3>1 DEF Invariant, TypeOK
    <3> QED
      BY <1>1, <3>1, <3>2, ZenonT(30) DEF TxFits, At, RowsOf
  <2> QED
    BY <2>1, <2>2
<1>4. LocksExclude'
  BY <1>1 DEF Invariant, LocksExclude, LocksWorkflow, LocksProduct
<1>5. ASSUME NEW q \in Runs PROVE RunFits(q)'
  BY <1>1 DEF Invariant, TypeOK, RunFits, InProgress, NotCreated, Completed
<1>6. ClaimsMatchDocument'
  BY <1>1 DEF Invariant, ClaimsMatchDocument, RowsOf
<1> QED
  BY <1>2, <1>3, <1>4, <1>5, <1>6 DEF Invariant

(* Everything but Commit leaves the committed tables alone. *)
LEMMA BeginKeeps ==
  ASSUME Invariant, NEW c \in Connections, NEW r \in Runs,
         NEW to \in {Completed, Failed}, Begin(c, r, to)
  PROVE  Invariant'
<1> DEFINE t == [NoTx EXCEPT !.at = "close", !.run = r, !.to = to]
<1>1. /\ tx' = [tx EXCEPT ![c] = t] /\ UNCHANGED tables /\ status[r] # NotCreated
  BY DEF Begin
<1>2. /\ t.at = "close" /\ t.run = r /\ t.to = to /\ t.deleted = {} /\ t.inserted = {}
      /\ t \in Transaction
  BY DEF NoTx, Statements, Statuses, Transaction
<1> HIDE DEF t
<1>3. /\ \A q \in Runs : RunFits(q)'
      /\ ClaimsMatchDocument'
      /\ tx'[c] = t
      /\ \A d \in Connections \ {c} : tx'[d] = tx[d] /\ TxFits(d)'
      /\ TypeOK'
  BY <1>1, <1>2, TablesAlone
<1>5. TxFits(c)'
  BY <1>1, <1>2, <1>3 DEF TxFits, At, Statements, tables
<1>6. LocksExclude'
  <2>1. \A q \in Runs : LocksWorkflow(c, q)' => LocksWorkflow(c, q)
    BY <1>2, <1>3 DEF LocksWorkflow
  <2>2. \A p \in Catalogue : LocksProduct(c, p)' => LocksProduct(c, p)
    BY <1>2, <1>3 DEF LocksProduct
  <2> QED
    BY <1>3, <2>1, <2>2, NoNewLock
<1> QED
  BY <1>3, <1>5, <1>6 DEF Invariant

LEMMA RollbackKeeps ==
  ASSUME Invariant, NEW c \in Connections, tx' = [tx EXCEPT ![c] = NoTx], UNCHANGED tables
  PROVE  Invariant'
<1>1. NoTx \in Transaction
  BY DEF NoTx, Statuses, Transaction
<1>2. /\ TypeOK'
      /\ \A q \in Runs : RunFits(q)'
      /\ ClaimsMatchDocument'
      /\ tx'[c] = NoTx
      /\ \A d \in Connections \ {c} : tx'[d] = tx[d] /\ TxFits(d)'
  BY <1>1, TablesAlone
<1>3. tx'[c].at = "idle" /\ tx'[c].to = NotCreated
  BY <1>2 DEF NoTx
<1>4. TxFits(c)'
  <2>1. NotCreated # Failed /\ NotCreated # Completed
    BY DEF NotCreated, Failed, Completed
  <2> HIDE DEF NoTx
  <2> QED
    BY <1>2, <1>3, <2>1 DEF TxFits, At, Statements
<1>5. LocksExclude'
  <2>1. \A q \in Runs : ~LocksWorkflow(c, q)'
    BY <1>3 DEF LocksWorkflow, Statements
  <2>2. \A p \in Catalogue : ~LocksProduct(c, p)'
    BY <1>3 DEF LocksProduct
  <2> QED
    BY <1>2, <2>1, <2>2, NoNewLock
<1> QED
  BY <1>2, <1>4, <1>5 DEF Invariant

(* The fields of a transaction that goes on to its next statement, *)
LEMMA NextStatement ==
  ASSUME NEW me \in Transaction, NEW at \in Statements
  PROVE  /\ [me EXCEPT !.at = at] \in Transaction
         /\ [me EXCEPT !.at = at].at = at
         /\ [me EXCEPT !.at = at].run = me.run
         /\ [me EXCEPT !.at = at].to = me.to
         /\ [me EXCEPT !.at = at].deleted = me.deleted
         /\ [me EXCEPT !.at = at].inserted = me.inserted
BY DEF Transaction

(* and that inserts claims and stays where it is. *)
LEMMA Inserting ==
  ASSUME NEW me \in Transaction, NEW s \in SUBSET Claims
  PROVE  /\ [me EXCEPT !.inserted = s] \in Transaction
         /\ [me EXCEPT !.inserted = s].at = me.at
         /\ [me EXCEPT !.inserted = s].run = me.run
         /\ [me EXCEPT !.inserted = s].to = me.to
         /\ [me EXCEPT !.inserted = s].deleted = me.deleted
         /\ [me EXCEPT !.inserted = s].inserted = s
BY DEF Transaction

(* closeRun waits for the workflow row, so nobody else holds it afterwards. *)
LEMMA CloseRunKeeps ==
  ASSUME Invariant, NEW c \in Connections, CloseRun(c)
  PROVE  Invariant'
<1>1. At(c, "close") /\ ~At(c, "idle") /\ UNCHANGED tables
  BY DEF CloseRun, At
<1>2. CASE ~CanTransitionTo(status[tx[c].run], tx[c].to)
  BY <1>1, <1>2, RollbackKeeps DEF CloseRun
<1>3. CASE CanTransitionTo(status[tx[c].run], tx[c].to)
  <2> DEFINE at == IF tx[c].to = Completed THEN "update product" ELSE "commit"
             t == [tx[c] EXCEPT !.at = at]
  <2>1. at \in Statements /\ tx[c] \in Transaction
    BY DEF Statements, Invariant, TypeOK
  <2>2. tx' = [tx EXCEPT ![c] = t]
    BY <1>3 DEF CloseRun
  <2> HIDE DEF at
  <2>3. /\ t \in Transaction /\ t.at = at /\ t.run = tx[c].run /\ t.to = tx[c].to
        /\ t.deleted = tx[c].deleted /\ t.inserted = tx[c].inserted
    BY <2>1, NextStatement
  <2> HIDE DEF t
  <2>4. /\ TypeOK'
        /\ \A q \in Runs : RunFits(q)'
        /\ ClaimsMatchDocument'
        /\ tx'[c] = t
        /\ \A d \in Connections \ {c} : tx'[d] = tx[d] /\ TxFits(d)'
    BY <1>1, <2>2, <2>3, TablesAlone
  <2>5. TxFits(c)'
    <3>1. TxFits(c) /\ status' = status /\ \A p : RowsOf(p)' = RowsOf(p)
      BY <1>1 DEF Invariant, tables, RowsOf
    <3>2. status[tx[c].run] = InProgress /\ InProgress # NotCreated /\ Completed # Failed
      BY <1>3 DEF CanTransitionTo, InProgress, NotCreated, Completed, Failed
    <3>3. /\ at # "idle" /\ at # "close" /\ at # "insert claims"
          /\ tx[c].to = Completed => at = "update product"
          /\ tx[c].to # Completed => at = "commit"
      BY DEF at
    <3> QED
      BY <1>1, <2>3, <2>4, <3>1, <3>2, <3>3, Begun DEF TxFits, At, Statements
  <2>6. LocksExclude'
    <3>1. \A d \in Connections \ {c} : \A r \in Runs :
            ~(LocksWorkflow(c, r)' /\ LocksWorkflow(d, r)')
      BY <2>3, <2>4 DEF CloseRun, LocksWorkflow
    <3>2. \A p : ~LocksProduct(c, p)'
      BY <2>3, <2>4 DEF LocksProduct, at
    <3>3. \A d \in Connections \ {c} :
            /\ \A r \in Runs : LocksWorkflow(d, r)' <=> LocksWorkflow(d, r)
            /\ \A p \in Catalogue : LocksProduct(d, p)' <=> LocksProduct(d, p)
      BY <2>4 DEF LocksWorkflow, LocksProduct
    <3> QED
      BY <3>1, <3>2, <3>3 DEF Invariant, LocksExclude
  <2> QED
    BY <2>4, <2>5, <2>6 DEF Invariant
<1> QED
  BY <1>2, <1>3

(* Updating the product waits for its row; the other locks stay as they are. *)
LEMMA UpdateProductKeeps ==
  ASSUME Invariant, NEW c \in Connections, UpdateProduct(c)
  PROVE  Invariant'
<1> DEFINE t == [tx[c] EXCEPT !.at = "delete claims"]
<1>1. At(c, "update product") /\ ~At(c, "idle") /\ UNCHANGED tables
  BY DEF UpdateProduct, At
<1>2. tx' = [tx EXCEPT ![c] = t]
  BY DEF UpdateProduct
<1>3. /\ t \in Transaction /\ t.at = "delete claims" /\ t.run = tx[c].run /\ t.to = tx[c].to
      /\ t.deleted = tx[c].deleted /\ t.inserted = tx[c].inserted
  <2>1. tx[c] \in Transaction
    BY DEF Invariant, TypeOK
  <2> QED
    BY <2>1, NextStatement DEF Statements
<1> HIDE DEF t
<1>4. /\ TypeOK'
      /\ \A q \in Runs : RunFits(q)'
      /\ ClaimsMatchDocument'
      /\ tx'[c] = t
      /\ \A d \in Connections \ {c} : tx'[d] = tx[d] /\ TxFits(d)'
  BY <1>1, <1>2, <1>3, TablesAlone
<1>5. TxFits(c)'
  <2>1. TxFits(c) /\ status' = status /\ \A p : RowsOf(p)' = RowsOf(p)
    BY <1>1 DEF Invariant, tables, RowsOf
  <2> QED
    BY <1>1, <1>3, <1>4, <2>1, Begun DEF TxFits, At, Statements
<1>6. LocksExclude'
  <2>1. \A d \in Connections : \A r \in Runs : LocksWorkflow(d, r)' <=> LocksWorkflow(d, r)
    BY <1>1, <1>3, <1>4 DEF LocksWorkflow, Statements, At
  <2>2. \A d \in Connections \ {c} : \A p \in Catalogue :
          ~(LocksProduct(c, p)' /\ LocksProduct(d, p)')
    BY <1>3, <1>4 DEF UpdateProduct, LocksProduct
  <2>3. \A d \in Connections \ {c} : \A p \in Catalogue :
          LocksProduct(d, p)' <=> LocksProduct(d, p)
    BY <1>4 DEF LocksProduct
  <2> QED
    BY <2>1, <2>2, <2>3 DEF Invariant, LocksExclude
<1> QED
  BY <1>4, <1>5, <1>6 DEF Invariant

LEMMA DeleteClaimsKeeps ==
  ASSUME Invariant, NEW c \in Connections, DeleteClaims(c)
  PROVE  Invariant'
<1> DEFINE old == RowsOf(ProductOf[tx[c].run])
           t == [tx[c] EXCEPT !.at = "insert claims", !.deleted = old]
<1>1. At(c, "delete claims") /\ ~At(c, "idle") /\ UNCHANGED tables
  BY DEF DeleteClaims, At
<1>2. tx' = [tx EXCEPT ![c] = t]
  BY DEF DeleteClaims
<1>3. old \in SUBSET Claims
  BY DEF Invariant, TypeOK, RowsOf
<1> HIDE DEF old
<1>4. /\ t \in Transaction /\ t.at = "insert claims" /\ t.run = tx[c].run /\ t.to = tx[c].to
      /\ t.deleted = old /\ t.inserted = tx[c].inserted
  <2>1. tx[c] \in Transaction
    BY DEF Invariant, TypeOK
  <2>2. "insert claims" \in Statements
    BY DEF Statements
  <2> QED
    BY <1>3, <2>1, <2>2 DEF Transaction
<1> HIDE DEF t
<1>5. /\ TypeOK'
      /\ \A q \in Runs : RunFits(q)'
      /\ ClaimsMatchDocument'
      /\ tx'[c] = t
      /\ \A d \in Connections \ {c} : tx'[d] = tx[d] /\ TxFits(d)'
  BY <1>1, <1>2, <1>4, TablesAlone
<1>6. TxFits(c)'
  <2>1. TxFits(c) /\ status' = status /\ claims' = claims
    BY <1>1 DEF Invariant, tables
  <2>2. /\ status[tx[c].run] = InProgress /\ tx[c].to = Completed
        /\ tx[c].inserted \subseteq ClaimsOf(tx[c].run) /\ tx[c].run \in Runs
        /\ status[tx[c].run] # NotCreated /\ Completed # Failed
    BY <1>1, <2>1 DEF TxFits, At, Statements, Completed, Failed
  <2>3. /\ tx'[c].at = "insert claims" /\ tx'[c].run = tx[c].run /\ tx'[c].to = tx[c].to
        /\ tx'[c].deleted = RowsOf(ProductOf[tx[c].run]) /\ tx'[c].inserted = tx[c].inserted
    BY <1>4, <1>5 DEF old
  <2>4. PICK p : p = ProductOf[tx[c].run]
    OBVIOUS
  <2>5. RowsOf(p)' = RowsOf(p) /\ status' = status
    BY <1>1 DEF RowsOf, tables
  <2> QED
    BY <2>2, <2>3, <2>4, <2>5 DEF TxFits, At, RowsOf
<1>7. LocksExclude'
  <2>1. \A q \in Runs : LocksWorkflow(c, q)' => LocksWorkflow(c, q)
    BY <1>1, <1>4, <1>5 DEF LocksWorkflow, Statements, At
  <2>2. \A p \in Catalogue : LocksProduct(c, p)' => LocksProduct(c, p)
    BY <1>1, <1>4, <1>5 DEF LocksProduct, At
  <2> QED
    BY <1>5, <2>1, <2>2, NoNewLock
<1> QED
  BY <1>5, <1>6, <1>7 DEF Invariant

LEMMA InsertClaimKeeps ==
  ASSUME Invariant, NEW c \in Connections, InsertClaim(c)
  PROVE  Invariant'
<1> DEFINE me == tx[c]
<1>1. At(c, "insert claims") /\ ~At(c, "idle") /\ UNCHANGED tables /\ me \in Transaction
  BY DEF InsertClaim, At, Invariant, TypeOK
<1>2. /\ status[me.run] = InProgress /\ me.to = Completed /\ me.run \in Runs
      /\ me.inserted \subseteq ClaimsOf(me.run) /\ InProgress # NotCreated
      /\ me.deleted = RowsOf(ProductOf[me.run])
      /\ Completed # Failed
  BY <1>1 DEF Invariant, TxFits, At, Statements, Completed, Failed, InProgress, NotCreated
<1>3. PICK t \in Transaction :
        /\ tx' = [tx EXCEPT ![c] = t]
        /\ t.run = me.run /\ t.to = me.to /\ t.deleted = me.deleted
        /\ \/ t.at = "commit" /\ t.inserted = me.inserted /\ me.inserted = ClaimsOf(me.run)
           \/ t.at = "insert claims" /\ t.inserted \subseteq ClaimsOf(me.run)
  <2>1. CASE ClaimsOf(me.run) \ me.inserted = {}
    <3> DEFINE t == [me EXCEPT !.at = "commit"]
    <3>1. tx' = [tx EXCEPT ![c] = t]
      BY <2>1 DEF InsertClaim
    <3>2. /\ t \in Transaction /\ t.at = "commit" /\ t.run = me.run /\ t.to = me.to
          /\ t.deleted = me.deleted /\ t.inserted = me.inserted
      BY <1>1, NextStatement DEF Statements
    <3>3. me.inserted = ClaimsOf(me.run)
      BY <1>2, <2>1
    <3> QED
      BY <3>1, <3>2, <3>3
  <2>2. CASE ClaimsOf(me.run) \ me.inserted # {}
    <3>1. PICK k \in ClaimsOf(me.run) \ me.inserted :
            tx' = [tx EXCEPT ![c].inserted = @ \cup {k}]
      BY <2>2 DEF InsertClaim
    <3> DEFINE more == me.inserted \cup {k}
               t == [me EXCEPT !.inserted = more]
    <3>2. tx' = [tx EXCEPT ![c] = t]
      BY <3>1
    <3>3. more \subseteq ClaimsOf(me.run) /\ more \in SUBSET Claims
      <4>1. more \subseteq ClaimsOf(me.run)
        BY <1>2, <3>1
      <4> QED
        BY <1>2, <4>1, ClaimsNameTheirRun
    <3> HIDE DEF more
    <3>4. /\ t \in Transaction /\ t.at = me.at /\ t.run = me.run /\ t.to = me.to
          /\ t.deleted = me.deleted /\ t.inserted = more
      BY <1>1, <3>3, Inserting
    <3> QED
      BY <1>1, <3>2, <3>3, <3>4 DEF At
  <2> QED
    BY <2>1, <2>2
<1>4. /\ TypeOK'
      /\ \A q \in Runs : RunFits(q)'
      /\ ClaimsMatchDocument'
      /\ tx'[c] = t
      /\ \A d \in Connections \ {c} : tx'[d] = tx[d] /\ TxFits(d)'
  BY <1>1, <1>3, TablesAlone
<1>5. TxFits(c)'
  <2>1. status' = status /\ \A p : RowsOf(p)' = RowsOf(p)
    BY <1>1 DEF tables, RowsOf
  <2> QED
    BY <1>2, <1>3, <1>4, <2>1 DEF TxFits, At
<1>6. LocksExclude'
  <2>1. \A q \in Runs : LocksWorkflow(c, q)' => LocksWorkflow(c, q)
    BY <1>1, <1>3, <1>4 DEF LocksWorkflow, Statements, At
  <2>2. \A p \in Catalogue : LocksProduct(c, p)' => LocksProduct(c, p)
    BY <1>1, <1>3, <1>4 DEF LocksProduct, At
  <2> QED
    BY <1>4, <2>1, <2>2, NoNewLock
<1> QED
  BY <1>4, <1>5, <1>6 DEF Invariant

(* COMMIT: the rows the transaction deletes are all those of its product, and
   the rows it inserts are those of the run the document shows from now on. *)
LEMMA CommitKeeps ==
  ASSUME Invariant, NEW c \in Connections, Commit(c)
  PROVE  Invariant'
<1> DEFINE me == tx[c]
           r == me.run
           p == ProductOf[r]
<1>1. /\ At(c, "commit") /\ ~At(c, "idle") /\ tx' = [tx EXCEPT ![c] = NoTx]
      /\ status' = [status EXCEPT ![r] = me.to]
      /\ result' = [result EXCEPT ![r] = IF me.to = Completed THEN r ELSE NoRun]
      /\ document' = IF me.to = Completed THEN [document EXCEPT ![p] = r] ELSE document
      /\ claims' = (claims \ me.deleted) \cup me.inserted
  BY DEF Commit, At
<1>2. /\ r \in Runs /\ me.to \in Statuses /\ me.to \in {Completed, Failed}
      /\ me.deleted \subseteq Claims /\ me.inserted \subseteq Claims /\ p \in Catalogue
  BY <1>1, Begun
<1>3. /\ status[r] = InProgress
      /\ me.to = Completed => me.deleted = RowsOf(p) /\ me.inserted = ClaimsOf(r)
      /\ me.to = Failed => me.deleted = {} /\ me.inserted = {}
  BY <1>1 DEF Invariant, TxFits, At, Statements
<1>4. Completed # Failed /\ me.to # NotCreated /\ InProgress # NotCreated
  BY <1>2 DEF Completed, Failed, NotCreated, InProgress
<1>5. /\ tx'[c] = NoTx /\ \A d \in Connections \ {c} : tx'[d] = tx[d]
      /\ \A q \in Runs : status'[q] = IF q = r THEN me.to ELSE status[q]
  BY <1>1 DEF Invariant, TypeOK
<1>6. TypeOK'
  <2>1. NoTx \in Transaction
    BY DEF NoTx, Transaction, Statuses
  <2> HIDE DEF NoTx
  <2>2. tx' \in [Connections -> Transaction]
    BY <1>1, <2>1 DEF Invariant, TypeOK
  <2>3. claims' \subseteq Claims
    BY <1>1, <1>2 DEF Invariant, TypeOK
  <2>4. /\ status' \in [Runs -> Statuses]
        /\ result' \in [Runs -> Runs \cup {NoRun}]
        /\ document' \in [Catalogue -> Runs \cup {NoRun}]
    BY <1>1, <1>2 DEF Invariant, TypeOK
  <2> QED
    BY <2>2, <2>3, <2>4 DEF TypeOK
<1>7. \A q \in Runs : RunFits(q)'
  <2> SUFFICES ASSUME NEW q \in Runs PROVE RunFits(q)'
    OBVIOUS
  <2>1. RunFits(q) /\ result'[q] = IF q = r THEN (IF me.to = Completed THEN r ELSE NoRun)
                                          ELSE result[q]
    BY <1>1 DEF Invariant, TypeOK
  <2> QED
    BY <1>2, <1>5, <2>1 DEF RunFits
<1>8. \A q \in Catalogue : RowsOf(q)' = IF me.to = Completed /\ q = p THEN ClaimsOf(r)
                                                                   ELSE RowsOf(q)
  <2> SUFFICES ASSUME NEW q \in Catalogue
               PROVE  RowsOf(q)' = IF me.to = Completed /\ q = p THEN ClaimsOf(r)
                                                               ELSE RowsOf(q)
    OBVIOUS
  <2>1. CASE me.to = Failed
    BY <1>1, <1>3, <1>4, <2>1 DEF RowsOf
  <2>2. CASE me.to = Completed
    <3>1. claims' = (claims \ RowsOf(p)) \cup ClaimsOf(r)
      BY <1>1, <1>3, <2>2
    <3>2. \A k \in ClaimsOf(r) : ProductOf[k.run] = p
      BY <1>2, ClaimsNameTheirRun
    <3> HIDE DEF p
    <3> QED
      BY <2>2, <3>1, <3>2 DEF RowsOf
  <2> QED
    BY <1>2, <2>1, <2>2
<1>9. ClaimsMatchDocument'
  <2> SUFFICES ASSUME NEW q \in Catalogue
               PROVE  RowsOf(q)' = IF document'[q] = NoRun THEN {} ELSE ClaimsOf(document'[q])
    BY DEF ClaimsMatchDocument
  <2>1. RowsOf(q) = IF document[q] = NoRun THEN {} ELSE ClaimsOf(document[q])
    BY DEF Invariant, ClaimsMatchDocument
  <2>2. document'[q] = IF me.to = Completed /\ q = p THEN r ELSE document[q]
    BY <1>1, <1>2 DEF Invariant, TypeOK
  <2>3. r # NoRun
    BY <1>2
  <2> QED
    BY <1>8, <2>1, <2>2, <2>3
<1>10. TxFits(c)'
  <2>1. tx'[c].at = "idle" /\ tx'[c].to = NotCreated
    BY <1>5 DEF NoTx
  <2>2. NotCreated # Failed /\ NotCreated # Completed
    BY DEF NotCreated, Failed, Completed
  <2> HIDE DEF NoTx
  <2> QED
    BY <1>5, <2>1, <2>2 DEF TxFits, At, Statements
(* Another transaction is on another run, or still waits to close this one; if
   it has deleted the claims of a product it holds that product. *)
<1>11. ASSUME NEW d \in Connections \ {c} PROVE TxFits(d)'
  <2> DEFINE you == tx[d]
  <2>1. TxFits(d) /\ tx'[d] = you
    BY <1>5 DEF Invariant
  <2>2. CASE At(d, "idle")
    <3>1. tx'[d] = NoTx
      BY <2>1, <2>2 DEF TxFits
    <3>2. tx'[d].at = "idle" /\ tx'[d].to = NotCreated
      BY <3>1 DEF NoTx
    <3>3. NotCreated # Failed /\ NotCreated # Completed
      BY DEF NotCreated, Failed, Completed
    <3> HIDE DEF NoTx
    <3> QED
      BY <3>1, <3>2, <3>3 DEF TxFits, At, Statements
  <2>3. CASE ~At(d, "idle")
    <3>1. you.run \in Runs /\ ProductOf[you.run] \in Catalogue
      BY <2>3, Begun
    <3>2. you.at \in Statements \ {"close"} => you.run # r
      <4>1. LocksWorkflow(c, r)
        BY <1>1 DEF LocksWorkflow, At, Statements
      <4> QED
        BY <1>2, <4>1 DEF Invariant, LocksExclude, LocksWorkflow
    <3>3. ASSUME you.at \in {"insert claims", "commit"}, you.to = Completed
          PROVE  ~(me.to = Completed /\ ProductOf[you.run] = p)
      BY <1>1, <1>2, <3>1, <3>3 DEF Invariant, LocksExclude, LocksProduct, At
    <3>4. you.at \in Statements \ {"close"} => status'[you.run] = InProgress
      BY <1>5, <2>1, <3>1, <3>2 DEF TxFits
    <3>5. status'[you.run] # NotCreated
      BY <1>4, <1>5, <2>1, <2>3, <3>1 DEF TxFits
    <3>6. PICK z : z = ProductOf[you.run]
      OBVIOUS
    <3>7. you.at \in {"insert claims", "commit"} /\ you.to = Completed =>
            you.deleted = RowsOf(z)'
      BY <1>8, <2>1, <3>1, <3>3, <3>6 DEF TxFits
    <3> HIDE DEF you
    <3>8. /\ ~(tx'[d].at = "idle") /\ tx'[d] = you
          /\ you.run \in Runs /\ you.to \in {Completed, Failed}
          /\ you.inserted \subseteq ClaimsOf(you.run)
          /\ you.at \in {"update product", "delete claims", "insert claims"} =>
               you.to = Completed
          /\ you.to = Failed => you.deleted = {} /\ you.inserted = {}
          /\ you.at = "commit" /\ you.to = Completed => you.inserted = ClaimsOf(you.run)
      BY <2>1, <2>3 DEF TxFits, At, you
    <3> QED
      BY <3>4, <3>5, <3>6, <3>7, <3>8 DEF TxFits, At, RowsOf
  <2> QED
    BY <2>2, <2>3
<1>12. LocksExclude'
  <2>1. tx'[c].at = "idle"
    BY <1>5 DEF NoTx
  <2>2. \A q \in Runs : ~LocksWorkflow(c, q)'
    BY <2>1 DEF LocksWorkflow, Statements
  <2>3. \A q \in Catalogue : ~LocksProduct(c, q)'
    BY <2>1 DEF LocksProduct
  <2> QED
    BY <1>5, <2>2, <2>3, NoNewLock
<1> QED
  BY <1>6, <1>7, <1>9, <1>10, <1>11, <1>12 DEF Invariant

-------------------------------------------------------------------------------

(* Everything the other theorems rest on holds in every state: the tables and
   the transactions in flight fit together. *)
THEOREM StoreInvariantHolds == Spec => []Invariant
<1>1. Invariant /\ [Next]_vars => Invariant'
  <2> SUFFICES ASSUME Invariant, [Next]_vars PROVE Invariant'
    OBVIOUS
  <2>1. ASSUME NEW r \in Runs, CreateWorkflow(r) PROVE Invariant'
    BY <2>1, CreateKeeps
  <2>2. ASSUME NEW c \in Connections, NEW r \in Runs, NEW to \in {Completed, Failed},
               Begin(c, r, to)
        PROVE  Invariant'
    BY <2>2, BeginKeeps
  <2>3. ASSUME NEW c \in Connections, Statement(c) PROVE Invariant'
    BY <2>3, CloseRunKeeps, UpdateProductKeeps, DeleteClaimsKeeps, InsertClaimKeeps, CommitKeeps
       DEF Statement
  <2>4. ASSUME NEW c \in Connections, Rollback(c) PROVE Invariant'
    BY <2>4, RollbackKeeps DEF Rollback
  <2>5. CASE UNCHANGED vars
    <3>1. /\ status' = status /\ result' = result /\ document' = document
          /\ claims' = claims /\ tx' = tx
      BY <2>5 DEF vars
    <3>2. TypeOK'
      BY <3>1 DEF Invariant, TypeOK
    <3>3. ASSUME NEW c \in Connections PROVE TxFits(c)'
      <4>1. TxFits(c)
        BY DEF Invariant
      <4> QED
        BY <3>1, <4>1, ZenonT(30) DEF TxFits, At, RowsOf
    <3>4. LocksExclude'
      BY <3>1 DEF Invariant, LocksExclude, LocksWorkflow, LocksProduct
    <3>5. ClaimsMatchDocument' /\ \A r \in Runs : RunFits(r)'
      BY <3>1 DEF Invariant, ClaimsMatchDocument, RowsOf, RunFits
    <3> QED
      BY <3>2, <3>3, <3>4, <3>5 DEF Invariant
  <2> QED
    BY <2>1, <2>2, <2>3, <2>4, <2>5 DEF Next
<1> QED
  BY <1>1, InitInvariant, PTL DEF Spec

(* CompleteWorkflow: the claims table holds the claims of the run that the
   product document shows, whatever completions run side by side. *)
THEOREM ClaimsAgree == Spec => []ClaimsMatchDocument
<1>1. Invariant => ClaimsMatchDocument
  BY DEF Invariant
<1> QED
  BY <1>1, StoreInvariantHolds, PTL

(* A step of the store opens a run, completes it, fails it, or leaves the
   status, the snapshots and the documents alone. *)
LEMMA TableSteps ==
  ASSUME Invariant, [Next]_vars
  PROVE  \/ UNCHANGED <<status, result, document>>
         \/ \E r \in Runs : CreateWorkflow(r)
         \/ \E r \in Runs :
              /\ status[r] = InProgress
              /\ status' = [status EXCEPT ![r] = Completed]
              /\ result' = [result EXCEPT ![r] = r]
              /\ document' = [document EXCEPT ![ProductOf[r]] = r]
         \/ \E r \in Runs :
              /\ status[r] = InProgress
              /\ status' = [status EXCEPT ![r] = Failed]
              /\ UNCHANGED <<result, document>>
<1>1. ASSUME NEW c \in Connections, Commit(c)
      PROVE  \E r \in Runs :
               /\ status[r] = InProgress
               /\ \/ /\ status' = [status EXCEPT ![r] = Completed]
                     /\ result' = [result EXCEPT ![r] = r]
                     /\ document' = [document EXCEPT ![ProductOf[r]] = r]
                  \/ /\ status' = [status EXCEPT ![r] = Failed]
                     /\ UNCHANGED <<result, document>>
  <2> DEFINE r == tx[c].run
  <2>1. At(c, "commit") /\ ~At(c, "idle")
    BY <1>1 DEF Commit, At
  <2>2. r \in Runs /\ tx[c].to \in {Completed, Failed} /\ status[r] = InProgress
    BY <2>1, Begun DEF Invariant, TxFits, At, Statements
  <2>3. result[r] = NoRun /\ result \in [Runs -> Runs \cup {NoRun}] /\ Completed # Failed
    BY <2>2 DEF Invariant, RunFits, TypeOK, InProgress, Completed, Failed
  <2>4. CASE tx[c].to = Completed
    BY <1>1, <2>2, <2>4 DEF Commit
  <2>5. CASE tx[c].to = Failed
    <3>1. [result EXCEPT ![r] = NoRun] = result
      BY <2>2, <2>3
    <3> QED
      BY <1>1, <2>2, <2>3, <2>5, <3>1 DEF Commit
  <2> QED
    BY <2>2, <2>4, <2>5
<1>2. ASSUME NEW c \in Connections,
             \/ \E r \in Runs, to \in {Completed, Failed} : Begin(c, r, to)
             \/ CloseRun(c) \/ UpdateProduct(c) \/ DeleteClaims(c) \/ InsertClaim(c)
             \/ Rollback(c)
      PROVE  UNCHANGED <<status, result, document>>
  <2>1. UNCHANGED tables
    BY <1>2 DEF Begin, CloseRun, UpdateProduct, DeleteClaims, InsertClaim, Rollback
  <2> QED
    BY <2>1 DEF tables
<1>3. CASE UNCHANGED vars
  BY <1>3 DEF vars
<1> QED
  BY <1>1, <1>2, <1>3 DEF Next, Statement

(* The guard of closeRun: whatever is still under way, a closed run keeps its
   status and its snapshot. *)
THEOREM ClosedRunsStay == Spec => ClosedRunsKeepResult
<1>1. Invariant /\ [Next]_vars =>
        [\A r \in Runs : Terminal(status[r]) =>
           status'[r] = status[r] /\ result'[r] = result[r]]_vars
  <2> SUFFICES ASSUME Invariant, [Next]_vars, NEW r \in Runs, Terminal(status[r])
               PROVE  status'[r] = status[r] /\ result'[r] = result[r]
    OBVIOUS
  <2>1. /\ status[r] # InProgress /\ status[r] # NotCreated
        /\ status \in [Runs -> Statuses] /\ result \in [Runs -> Runs \cup {NoRun}]
    BY DEF Terminal, InProgress, NotCreated, Completed, Failed, Invariant, TypeOK
  <2> QED
    BY <2>1, TableSteps DEF CreateWorkflow
<1> QED
  BY <1>1, StoreInvariantHolds, PTL DEF Spec, ClosedRunsKeepResult

LEMMA SameStatuses ==
  /\ Lifecycle!NotCreated = NotCreated /\ Lifecycle!InProgress = InProgress
  /\ Lifecycle!Completed = Completed /\ Lifecycle!Failed = Failed
BY DEF NotCreated, InProgress, Completed, Failed, Lifecycle!NotCreated, Lifecycle!InProgress,
       Lifecycle!Completed, Lifecycle!Failed

(* Transactions of several statements have the effect of RunLifecycle's single
   steps on what is committed. *)
THEOREM StoreImplementsLifecycle == Spec => ImplementsLifecycle
<1>1. Init => Lifecycle!Init
  BY SameStatuses DEF Init, Lifecycle!Init
<1>2. Invariant /\ [Next]_vars => [Lifecycle!Next]_(Lifecycle!vars)
  BY TableSteps, SameStatuses
     DEF CreateWorkflow, Lifecycle!Next, Lifecycle!Open, Lifecycle!Complete, Lifecycle!Fail,
         Lifecycle!vars
<1> QED
  BY <1>1, <1>2, StoreInvariantHolds, PTL DEF Spec, ImplementsLifecycle, Lifecycle!Spec

-------------------------------------------------------------------------------
(* What RunLifecycle promises holds of whatever implements it. *)

Promised == INSTANCE RunLifecycleProofs WITH snapshot <- result, current <- document

LEMMA PromisedIs ==
  /\ ImplementsLifecycle => Promised!Spec
  /\ Promised!ShowsCompletedRun => Lifecycle!ShowsCompletedRun
  /\ Promised!OwnSnapshot => Lifecycle!OwnSnapshot
BY PTL
   DEF ImplementsLifecycle, Lifecycle!Spec, Promised!Spec, Lifecycle!Init, Promised!Init,
       Lifecycle!Next, Promised!Next, Lifecycle!vars, Promised!vars, Lifecycle!Open,
       Promised!Open, Lifecycle!Complete, Promised!Complete, Lifecycle!Fail, Promised!Fail,
       Lifecycle!NotCreated, Promised!NotCreated, Lifecycle!InProgress, Promised!InProgress,
       Lifecycle!Completed, Promised!Completed, Lifecycle!Failed, Promised!Failed,
       Lifecycle!ShowsCompletedRun, Promised!ShowsCompletedRun, Lifecycle!OwnSnapshot,
       Promised!OwnSnapshot

(* README "COMPLETED always implies the claims are durable", at the level of
   statements: at every commit a document shows the claims of a completed run of
   its product, once there is one, and a completed run has the result that its
   own transaction wrote. *)
THEOREM CommittedResultsStay ==
  Spec => [](Lifecycle!ShowsCompletedRun /\ Lifecycle!OwnSnapshot)
BY StoreImplementsLifecycle, PromisedIs, Promised!DocumentsShowCompletedRuns,
   Promised!SnapshotsAreOwn, PTL

===============================================================================
