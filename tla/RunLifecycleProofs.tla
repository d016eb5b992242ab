-------------------------- MODULE RunLifecycleProofs --------------------------
(***************************************************************************)
(* What RunLifecycle promises, for every set of runs and every catalogue.  *)
(* OwnSnapshot is inductive; ShowsCompletedRun is inductive with TypeOK,   *)
(* since a product document never leaves a completed run but for another.  *)
(***************************************************************************)
EXTENDS RunLifecycle, TLAPS

(* Statuses, snapshots and documents hold what the code stores in them. *)
THEOREM Typed == Spec => []TypeOK
<1>1. Init => TypeOK
  BY DEF Init, TypeOK, Statuses
<1>2. TypeOK /\ [Next]_vars => TypeOK'
  <2> SUFFICES ASSUME TypeOK, [Next]_vars PROVE TypeOK'
    OBVIOUS
  <2> USE DEF TypeOK, Statuses
  <2>1. ASSUME NEW r \in Runs, Open(r) PROVE TypeOK'
    BY <2>1 DEF Open
  <2>2. ASSUME NEW r \in Runs, Complete(r) PROVE TypeOK'
    BY <2>2 DEF Complete
  <2>3. ASSUME NEW r \in Runs, Fail(r) PROVE TypeOK'
    BY <2>3 DEF Fail
  <2>4. CASE UNCHANGED vars
    BY <2>4 DEF vars
  <2> QED
    BY <2>1, <2>2, <2>3, <2>4 DEF Next
<1> QED
  BY <1>1, <1>2, PTL DEF Spec

(* A later run of a product never rewrites the snapshot of an earlier one:
   each completed run keeps its own. *)
THEOREM SnapshotsAreOwn == Spec => []OwnSnapshot
<1> USE DEF OwnSnapshot
<1>1. Init => OwnSnapshot
  BY DEF Init, NotCreated, Completed
<1>2. TypeOK /\ OwnSnapshot /\ [Next]_vars => OwnSnapshot'
  <2> SUFFICES ASSUME TypeOK, OwnSnapshot, [Next]_vars PROVE OwnSnapshot'
    OBVIOUS
  <2> USE DEF TypeOK, NotCreated, InProgress, Completed, Failed
  <2>1. ASSUME NEW r \in Runs, Open(r) PROVE OwnSnapshot'
    BY <2>1 DEF Open
  <2>2. ASSUME NEW r \in Runs, Complete(r) PROVE OwnSnapshot'
    BY <2>2 DEF Complete
  <2>3. ASSUME NEW r \in Runs, Fail(r) PROVE OwnSnapshot'
    BY <2>3 DEF Fail
  <2>4. CASE UNCHANGED vars
    BY <2>4 DEF vars
  <2> QED
    BY <2>1, <2>2, <2>3, <2>4 DEF Next
<1> QED
  BY <1>1, <1>2, Typed, PTL DEF Spec

-------------------------------------------------------------------------------

CompletedOf(p) == {r \in Runs : ProductOf[r] = p /\ status[r] = Completed}

(* ShowsCompletedRun for one product. *)
Shows(p) == IF CompletedOf(p) = {} THEN current[p] = NoRun
                                   ELSE current[p] \in CompletedOf(p)

LEMMA ShowsEach == ShowsCompletedRun <=> \A p \in Catalogue : Shows(p)
  BY DEF ShowsCompletedRun, Shows, CompletedOf

(* A run that closes without completing, or opens, leaves the completed runs
   and the documents alone. *)
LEMMA QuietStep ==
  ASSUME \A r \in Runs : (status'[r] = Completed) <=> (status[r] = Completed),
         UNCHANGED current, NEW p \in Catalogue, Shows(p)
  PROVE  Shows(p)'
<1>1. CompletedOf(p)' = CompletedOf(p)
  BY DEF CompletedOf
<1> QED
  BY <1>1 DEF Shows

(* What a product document shows is the result of a completed run of that
   product, and a product with a completed run shows one. *)
THEOREM DocumentsShowCompletedRuns == Spec => []ShowsCompletedRun
<1>1. Init => ShowsCompletedRun
  BY DEF Init, ShowsCompletedRun, NotCreated, Completed
<1>2. TypeOK /\ ShowsCompletedRun /\ [Next]_vars => ShowsCompletedRun'
  <2> SUFFICES ASSUME TypeOK, ShowsCompletedRun, [Next]_vars, NEW p \in Catalogue
               PROVE  Shows(p)'
    BY DEF ShowsCompletedRun, Shows, CompletedOf
  <2>0. Shows(p)
    BY ShowsEach
  <2> USE DEF TypeOK, NotCreated, InProgress, Completed, Failed
  <2>1. ASSUME NEW r \in Runs, Open(r) PROVE Shows(p)'
    BY <2>0, <2>1, QuietStep DEF Open
  <2>2. ASSUME NEW r \in Runs, Complete(r) PROVE Shows(p)'
    <3>1. CASE ProductOf[r] = p
      <4>1. r \in CompletedOf(p)'
        BY <2>2, <3>1 DEF Complete, CompletedOf
      <4>2. current'[p] = r
        BY <2>2, <3>1 DEF Complete
      <4> QED
        BY <4>1, <4>2 DEF Shows
    <3>2. CASE ProductOf[r] # p
      <4>1. CompletedOf(p)' = CompletedOf(p)
        BY <2>2, <3>2 DEF Complete, CompletedOf
      <4>2. current'[p] = current[p]
        BY <2>2, <3>2 DEF Complete
      <4> QED
        BY <2>0, <4>1, <4>2 DEF Shows
    <3> QED
      BY <3>1, <3>2
  <2>3. ASSUME NEW r \in Runs, Fail(r) PROVE Shows(p)'
    BY <2>0, <2>3, QuietStep DEF Fail
  <2>4. CASE UNCHANGED vars
    BY <2>0, <2>4, QuietStep DEF vars
  <2> QED
    BY <2>1, <2>2, <2>3, <2>4 DEF Next
<1> QED
  BY <1>1, <1>2, Typed, PTL DEF Spec

===============================================================================
