---------------------------- MODULE EngineInvariant ----------------------------
(***************************************************************************)
(* The inductive invariant behind the safety properties of Engine: where   *)
(* the runs are (Placed, SingleOwner), and how the row of each run follows *)
(* from where it is (RowsFit).  EngineProofs proves it, the runs of        *)
(* MCEngine check it first.                                                *)
(***************************************************************************)
EXTENDS Engine

Busy(w) == worker[w].at \notin {"idle", "exited"}

RunsOwned ==
  \A w \in Workers :
    IF Busy(w) THEN worker[w].run \in Runs /\ request[worker[w].run] = "accepted"
               ELSE worker[w].run = NoRun

RunsQueued == \A i \in 1..Len(jobs) : request[jobs[i]] = "accepted"

ProductsKnown ==
  \A r \in Runs :
    request[r] \in {"create", "enqueue", "send", "reject", "accepted"} =>
      ProductOf[r] \in Catalogue

Placed == TypeOK /\ RunsOwned /\ RunsQueued /\ ProductsKnown

-------------------------------------------------------------------------------

(* The trail and the error that a run may be failed with. *)
FailureTrail(steps, error) ==
  \/ error \in {"queue full", "internal error"} /\ steps = <<>>
  \/ error = "fetch product" /\ steps = <<Step(FetchProduct, TRUE)>>
  \/ error = "persist result" /\ steps = [AllSucceeded EXCEPT ![3] = Step(PersistResult, TRUE)]

RowFits(r) ==
  LET row == workflows[r]
  IN  /\ row.product = (IF row.status = Completed THEN r ELSE NoRun)
      /\ row.status \in {NotCreated, InProgress} => row.steps = <<>> /\ row.error = ""
      /\ row.status = Completed =>
           row.steps = AllSucceeded /\ row.error = "" /\ request[r] = "accepted"
      /\ row.status = Failed => FailureTrail(row.steps, row.error)

RequestFits(r) ==
  /\ request[r] \in {"new", "create"} => workflows[r].status = NotCreated
  /\ request[r] \in {"enqueue", "send", "reject"} => workflows[r].status = InProgress

QueueFits == \A i \in 1..Len(jobs) : workflows[jobs[i]].status = InProgress

(* A run is open while a worker processes it; only in fail() may it have been
   closed already, by a completion whose answer was lost. *)
WorkerFits(w) ==
  LET me == worker[w]
  IN  /\ me.at \in {"load", "fetch", "detect", "persist", "recover"} =>
           workflows[me.run].status = InProgress
      /\ me.at = "fetch" => me.steps = <<>> /\ me.error = ""
      /\ me.at = "detect" => me.steps = <<Step(FetchProduct, FALSE)>> /\ me.error = ""
      /\ me.at = "persist" =>
           me.steps = AllSucceeded /\ me.error = "" /\ me.product = me.run
      /\ me.at = "fail" => FailureTrail(me.steps, me.error)

ProductsFit ==
  \A p \in Catalogue : products[p] # NoRun => workflows[products[p]].status = Completed

RowsFit ==
  /\ \A r \in Runs : RowFits(r) /\ RequestFits(r)
  /\ QueueFits
  /\ \A w \in Workers : WorkerFits(w)
  /\ ProductsFit

(* Everything the proofs of Engine's safety properties rest on. *)
Invariant == Placed /\ SingleOwner /\ RowsFit

-------------------------------------------------------------------------------
(* What more is invariant when the store does not fail and its GetWorkflow     *)
(* does not look at contexts: nobody lets go of an open run, and whoever       *)
(* leaves, leaves nothing behind.                                              *)

ExitedAfterDrain == \A w \in Workers : WorkerIs(w, "exited") => closed /\ jobs = <<>>

NilAfterExit ==
  \A c \in Closers : CallerIs(c, "nil") => \A w \in Workers : WorkerIs(w, "exited")

AcceptedHaveRows ==
  \A r \in Runs : request[r] = "accepted" => workflows[r].status # NotCreated

\* excused: runs that an earlier process left open.
OpenRunsKept(excused) ==
  \A r \in Runs \ excused :
    workflows[r].status = InProgress /\ Answered(r) =>
      Owned(r) \/ (request[r] = "unavailable" /\ closed)

Undisturbed(excused) ==
  ExitedAfterDrain /\ NilAfterExit /\ AcceptedHaveRows /\ OpenRunsKept(excused)

===============================================================================
