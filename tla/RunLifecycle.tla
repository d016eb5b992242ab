----------------------------- MODULE RunLifecycle -----------------------------
(***************************************************************************)
(* What the service promises about runs, whatever store it uses and        *)
(* however its workers are scheduled: a run is opened for a product of the *)
(* catalogue, and is closed at most once.  Completing it publishes its     *)
(* claims in the product document, in the run's own snapshot and in its    *)
(* status, all in one step; failing it publishes nothing.                  *)
(*                                                                         *)
(* A set of claims is named by the run whose detection produced it: claim  *)
(* ids are fresh for every detection.                                      *)
(***************************************************************************)
EXTENDS WorkflowStates

CONSTANTS
  Runs,        \* runs that may ever be requested
  Catalogue,   \* products the store holds
  ProductOf,   \* the product a run is requested for
  NoRun        \* "no claims yet"

VARIABLES
  status,      \* status of each run
  snapshot,    \* whose claims the run's result holds
  current      \* whose claims each product document shows

vars == <<status, snapshot, current>>

Init ==
  /\ status = [r \in Runs |-> NotCreated]
  /\ snapshot = [r \in Runs |-> NoRun]
  /\ current = [p \in Catalogue |-> NoRun]

Open(r) ==
  /\ status[r] = NotCreated
  /\ ProductOf[r] \in Catalogue
  /\ status' = [status EXCEPT ![r] = InProgress]
  /\ UNCHANGED <<snapshot, current>>

Complete(r) ==
  /\ status[r] = InProgress
  /\ status' = [status EXCEPT ![r] = Completed]
  /\ snapshot' = [snapshot EXCEPT ![r] = r]
  /\ current' = [current EXCEPT ![ProductOf[r]] = r]

Fail(r) ==
  /\ status[r] = InProgress
  /\ status' = [status EXCEPT ![r] = Failed]
  /\ UNCHANGED <<snapshot, current>>

Next == \E r \in Runs : Open(r) \/ Complete(r) \/ Fail(r)

Spec == Init /\ [][Next]_vars

-------------------------------------------------------------------------------

TypeOK ==
  /\ status \in [Runs -> Statuses]
  /\ snapshot \in [Runs -> Runs \cup {NoRun}]
  /\ current \in [Catalogue -> Runs \cup {NoRun}]

(* README "COMPLETED always implies the claims are durable": what a product
   document shows is the result of a completed run of that very product, and a
   product with a completed run shows the claims of one. *)
ShowsCompletedRun ==
  \A p \in Catalogue :
    LET completed == {r \in Runs : ProductOf[r] = p /\ status[r] = Completed}
    IN  IF completed = {} THEN current[p] = NoRun ELSE current[p] \in completed

(* A run has a snapshot exactly when it is completed, and it is its own: a
   later run of the same product never rewrites it. *)
OwnSnapshot ==
  \A r \in Runs : snapshot[r] = IF status[r] = Completed THEN r ELSE NoRun

===============================================================================
