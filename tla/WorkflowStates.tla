---------------------------- MODULE WorkflowStates ----------------------------
(***************************************************************************)
(* The workflow state machine and the step audit trail of                  *)
(* internal/model/workflow.go: the statuses a run goes through, which      *)
(* transitions are allowed, and how a worker records the steps it takes.   *)
(*                                                                         *)
(* A definition marked "Slip" is a plausible mistake in the one that       *)
(* follows it, kept to show that a property would notice; no specification *)
(* uses it.                                                                *)
(***************************************************************************)
EXTENDS Integers, Sequences

NotCreated == "NOT_CREATED"    \* no row in the store
InProgress == "IN_PROGRESS"
Completed  == "COMPLETED"
Failed     == "FAILED"

Statuses == {NotCreated, InProgress, Completed, Failed}

Terminal(status) == status \in {Completed, Failed}

\* Slip: any change of status is a transition.
CanTransitionToOther(status, next) == status # next

CanTransitionTo(status, next) == status = InProgress /\ Terminal(next)

-------------------------------------------------------------------------------

FetchProduct  == "FETCH_PRODUCT"
DetectClaims  == "DETECT_CLAIMS"
PersistResult == "PERSIST_RESULT"

Steps == [name : {FetchProduct, DetectClaims, PersistResult}, failed : BOOLEAN]

Step(name, failed) == [name |-> name, failed |-> failed]

(* Workflow.RecordStep: err # nil records a failed step. *)
RecordStep(steps, name, failed) == Append(steps, Step(name, failed))

(* process takes back the last step it recorded. *)
WithoutLast(steps) == SubSeq(steps, 1, Len(steps) - 1)

===============================================================================
