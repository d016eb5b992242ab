--------------------------- MODULE MemoryStoreProofs ---------------------------
(***************************************************************************)
(* The in-memory store for any number of runs, products and readers.  What *)
(* the proofs rest on is who may write to which object: the objects of a   *)
(* run are written by its request and its worker only, those of a reader   *)
(* by that reader, and none that the maps refer to is written at all.      *)
(***************************************************************************)
EXTENDS MemoryStore, TLAPS

WorkflowAddresses ==
  ({"trigger", "created", "loaded", "closed"} \X Runs) \cup ({"read"} \X Readers)

ProductAddresses ==
  ({"fetched", "published", "snapshot"} \X Runs) \cup ({"seeded"} \X Catalogue)
    \cup ({"read"} \X Readers)

WorkflowObjects ==
  [status : Statuses, steps : Seq(Steps), error : {"", "queue full", "internal error"},
   product : ProductAddresses \cup {Nil}]

Refs == [workflow : WorkflowAddresses \cup {Nil}, product : ProductAddresses \cup {Nil}]

TypeOK ==
  /\ workflow \in [WorkflowAddresses -> WorkflowObjects]
  /\ product \in [ProductAddresses -> Runs \cup {NoRun}]
  /\ workflows \in [Runs -> WorkflowAddresses \cup {Nil}]
  /\ products \in [Catalogue -> ProductAddresses]
  /\ request \in [Runs -> {"new", "create", "enqueue", "reject", "accepted", "answered"}]
  /\ worker \in [Runs -> {"none", "load", "fetch", "detect", "persist", "fail", "done"}]
  /\ copy \in [Runs -> Refs]
  /\ reading \in [Readers -> Refs]

Created == Fields(InProgress, <<>>, "", Nil)

(* Which row a run has, from where its request and its worker are. *)
RowOf(r) ==
  /\ request[r] # "new" => ProductOf[r] \in Catalogue
  /\ request[r] \in {"new", "create"} => workflows[r] = Nil
  /\ request[r] \in {"enqueue", "reject"} => workflows[r] = Address("created", r)
  /\ request[r] \in {"new", "create", "enqueue", "reject"} => worker[r] = "none"
  /\ request[r] = "accepted" => worker[r] # "none"
  /\ worker[r] \in {"load", "fetch", "detect", "persist", "fail"} =>
       workflows[r] = Address("created", r)
  /\ worker[r] = "done" => workflows[r] = Address("closed", r)
  /\ request[r] = "answered" /\ worker[r] = "none" => workflows[r] = Address("closed", r)

(* What is in the objects of a run. *)
ObjectsOf(r) ==
  /\ request[r] \in {"create", "enqueue", "accepted"} => workflow[Address("trigger", r)] = Created
  /\ request[r] = "reject" =>
       workflow[Address("trigger", r)] = Fields(InProgress, <<>>, "queue full", Nil)
  /\ workflows[r] = Address("created", r) => workflow[Address("created", r)] = Created
  /\ workflows[r] = Address("closed", r) =>
       LET row == workflow[Address("closed", r)]
       IN  \/ row.status = Failed /\ row.product = Nil
           \/ /\ row.status = Completed
              /\ row.product = Address("snapshot", r) /\ product[Address("snapshot", r)] = r

(* What a worker works on is its own. *)
CopyOf(r) ==
  /\ worker[r] \in {"fetch", "detect", "persist", "fail"} =>
       copy[r].workflow = Address("loaded", r) /\ workflow[Address("loaded", r)].product = Nil
  /\ worker[r] \in {"detect", "persist"} => copy[r].product = Address("fetched", r)
  /\ worker[r] = "persist" => product[Address("fetched", r)] = r

RunFits(r) == RowOf(r) /\ ObjectsOf(r) /\ CopyOf(r)

(* A document is the one that was seeded, or the one a closed run published. *)
DocumentFits(p) ==
  \/ products[p] = Address("seeded", p)
  \/ \E r \in Runs : products[p] = Address("published", r) /\ workflows[r] = Address("closed", r)

ReaderFits(rd) ==
  /\ reading[rd].workflow \in {Nil, Address("read", rd)}
  /\ reading[rd].product \in {Nil, Address("read", rd)}
  /\ workflow[Address("read", rd)].product \in {Nil, Address("read", rd)}

Invariant ==
  /\ TypeOK
  /\ \A r \in Runs : RunFits(r)
  /\ \A p \in Catalogue : DocumentFits(p)
  /\ \A rd \in Readers : ReaderFits(rd)

-------------------------------------------------------------------------------
(* Addresses. *)

RunPlaces == {"trigger", "created", "loaded", "closed", "fetched", "published", "snapshot"}

LEMMA AddressesDiffer ==
  /\ \A place, owner : Address(place, owner) # Nil
  /\ \A place, owner, place2, owner2 :
       Address(place, owner) = Address(place2, owner2) => place = place2 /\ owner = owner2
BY DEF Address, Nil

LEMMA AddressesAre ==
  /\ \A r \in Runs : \A place \in {"trigger", "created", "loaded", "closed"} :
       Address(place, r) \in WorkflowAddresses
  /\ \A r \in Runs : \A place \in {"fetched", "published", "snapshot"} :
       Address(place, r) \in ProductAddresses
  /\ \A rd \in Readers : /\ Address("read", rd) \in WorkflowAddresses
                         /\ Address("read", rd) \in ProductAddresses
  /\ \A p \in Catalogue : Address("seeded", p) \in ProductAddresses
BY DEF Address, WorkflowAddresses, ProductAddresses

LEMMA StatusesDiffer ==
  /\ NotCreated # InProgress /\ NotCreated # Completed /\ NotCreated # Failed
  /\ InProgress # Completed /\ InProgress # Failed /\ Completed # Failed
BY DEF NotCreated, InProgress, Completed, Failed

LEMMA FieldsAre ==
  ASSUME NEW status, NEW steps, NEW error, NEW snapshot
  PROVE  /\ Fields(status, steps, error, snapshot).status = status
         /\ Fields(status, steps, error, snapshot).steps = steps
         /\ Fields(status, steps, error, snapshot).error = error
         /\ Fields(status, steps, error, snapshot).product = snapshot
BY DEF Fields

LEMMA NoStepsTyped == <<>> \in Seq(Steps)
OBVIOUS

LEMMA FieldsTyped ==
  ASSUME NEW status \in {NotCreated, InProgress}, NEW error \in {"", "queue full", "internal error"}
  PROVE  Fields(status, <<>>, error, Nil) \in WorkflowObjects
<1>1. status \in Statuses
  BY DEF Statuses
<1> QED
  BY <1>1, NoStepsTyped DEF Fields, WorkflowObjects

LEMMA WithError ==
  ASSUME NEW error
  PROVE  [Created EXCEPT !.error = error] = Fields(InProgress, <<>>, error, Nil)
<1>1. PICK status, steps, none, snapshot :
        status = InProgress /\ steps = <<>> /\ none = "" /\ snapshot = Nil
  OBVIOUS
<1>2. [Fields(status, steps, none, snapshot) EXCEPT !.error = error]
        = Fields(status, steps, error, snapshot)
  BY DEF Fields
<1> QED
  BY <1>1, <1>2 DEF Created

LEMMA CreatedIs ==
  /\ Created \in WorkflowObjects
  /\ Created.status = InProgress /\ Created.product = Nil
<1>1. Created \in WorkflowObjects
  BY FieldsTyped DEF Created
<1>2. Created.status = InProgress /\ Created.product = Nil
  BY DEF Created, Fields
<1> QED
  BY <1>1, <1>2

-------------------------------------------------------------------------------
(* What a step leaves alone. *)

(* The request, the worker and the objects of a run. *)
Keeps(r) ==
  /\ \A place \in {"trigger", "created", "loaded", "closed"} :
       workflow'[Address(place, r)] = workflow[Address(place, r)]
  /\ \A place \in {"fetched", "published", "snapshot"} :
       product'[Address(place, r)] = product[Address(place, r)]
  /\ workflows'[r] = workflows[r] /\ request'[r] = request[r]
  /\ worker'[r] = worker[r] /\ copy'[r] = copy[r]

KeepsReader(rd) ==
  /\ workflow'[Address("read", rd)] = workflow[Address("read", rd)]
  /\ product'[Address("read", rd)] = product[Address("read", rd)]
  /\ reading'[rd] = reading[rd]

(* A step of a run writes to the objects of that run, and to its entries. *)
WritesOwn(r) ==
  /\ \A a \in WorkflowAddresses :
       (\A place \in RunPlaces : a # Address(place, r)) => workflow'[a] = workflow[a]
  /\ \A a \in ProductAddresses :
       (\A place \in RunPlaces : a # Address(place, r)) => product'[a] = product[a]
  /\ \A q \in Runs \ {r} :
       /\ workflows'[q] = workflows[q] /\ request'[q] = request[q]
       /\ worker'[q] = worker[q] /\ copy'[q] = copy[q]
  /\ reading' = reading

LEMMA OthersKept ==
  ASSUME NEW r \in Runs, WritesOwn(r)
  PROVE  /\ \A q \in Runs \ {r} : Keeps(q)
         /\ \A rd \in Readers : KeepsReader(rd)
         /\ \A p \in Catalogue : product'[Address("seeded", p)] = product[Address("seeded", p)]
<1>1. ASSUME NEW q \in Runs \ {r} PROVE Keeps(q)
  <2>1. \A place, place2 : Address(place, q) # Address(place2, r)
    BY AddressesDiffer
  <2> QED
    BY <2>1, AddressesAre DEF Keeps, WritesOwn
<1>2. \A place \in RunPlaces : \A x : Address("read", x) # Address(place, r)
                                     /\ Address("seeded", x) # Address(place, r)
  BY AddressesDiffer DEF RunPlaces
<1> QED
  BY <1>1, <1>2, AddressesAre DEF KeepsReader, WritesOwn

LEMMA RunKept == ASSUME NEW r \in Runs, RunFits(r), Keeps(r) PROVE RunFits(r)'
<1>1. RowOf(r)'
  BY DEF RunFits, RowOf, Keeps
<1>2. ObjectsOf(r)'
  BY DEF RunFits, ObjectsOf, Keeps
<1>3. CopyOf(r)'
  BY DEF RunFits, CopyOf, Keeps
<1> QED
  BY <1>1, <1>2, <1>3 DEF RunFits

LEMMA ReaderKept == ASSUME NEW rd \in Readers, ReaderFits(rd), KeepsReader(rd) PROVE ReaderFits(rd)'
BY DEF ReaderFits, KeepsReader

-------------------------------------------------------------------------------
(* Steps that write to objects the store does not know. *)

(* What the maps refer to is as it was. *)
SameRow(r) ==
  /\ UNCHANGED <<workflows, products>>
  /\ \A place \in {"created", "closed"} :
       workflow'[Address(place, r)] = workflow[Address(place, r)]
  /\ \A place \in {"published", "snapshot"} :
       product'[Address(place, r)] = product[Address(place, r)]

(* One of the request's or the worker's own workflows is written. *)
LEMMA WrittenAside ==
  ASSUME TypeOK, NEW r \in Runs, NEW place \in {"trigger", "loaded"},
         NEW object \in WorkflowObjects,
         workflow' = [workflow EXCEPT ![Address(place, r)] = object]
  PROVE  /\ workflow' \in [WorkflowAddresses -> WorkflowObjects]
         /\ workflow'[Address(place, r)] = object
         /\ \A a \in WorkflowAddresses : a # Address(place, r) => workflow'[a] = workflow[a]
         /\ \A other \in {"trigger", "created", "loaded", "closed"} \ {place} :
              workflow'[Address(other, r)] = workflow[Address(other, r)]
<1>1. Address(place, r) \in WorkflowAddresses
  BY AddressesAre
<1>2. \A other : other # place => Address(other, r) # Address(place, r)
  BY AddressesDiffer
<1> QED
  BY <1>1, <1>2, AddressesAre DEF TypeOK

LEMMA FetchedAside ==
  ASSUME TypeOK, NEW r \in Runs, NEW claims \in Runs \cup {NoRun},
         product' = [product EXCEPT ![Address("fetched", r)] = claims]
  PROVE  /\ product' \in [ProductAddresses -> Runs \cup {NoRun}]
         /\ product'[Address("fetched", r)] = claims
         /\ \A a \in ProductAddresses : a # Address("fetched", r) => product'[a] = product[a]
         /\ \A other \in {"published", "snapshot"} :
              product'[Address(other, r)] = product[Address(other, r)]
<1>1. Address("fetched", r) \in ProductAddresses
  BY AddressesAre
<1>2. \A other : other # "fetched" => Address(other, r) # Address("fetched", r)
  BY AddressesDiffer
<1> QED
  BY <1>1, <1>2, AddressesAre DEF TypeOK

(* The requests: Trigger, enqueue and the handler. *)
LEMMA RequestAside ==
  ASSUME TypeOK, NEW r \in Runs, RunFits(r), Trigger(r) \/ Accept(r) \/ Reject(r) \/ Answer(r)
  PROVE  TypeOK' /\ WritesOwn(r) /\ RunFits(r)' /\ SameRow(r)
<1>1. CASE Trigger(r)
  <2>1. workflow' = [workflow EXCEPT ![Address("trigger", r)] = Created]
    BY <1>1 DEF Trigger, Created
  <2>2. /\ request[r] = "new" /\ ProductOf[r] \in Catalogue
        /\ request' = [request EXCEPT ![r] = "create"]
        /\ UNCHANGED <<product, workflows, products, worker, copy, reading>>
    BY <1>1 DEF Trigger, Becomes
  <2>3. /\ workflow' \in [WorkflowAddresses -> WorkflowObjects]
        /\ workflow'[Address("trigger", r)] = Created
        /\ \A a \in WorkflowAddresses : a # Address("trigger", r) => workflow'[a] = workflow[a]
        /\ \A other \in {"created", "loaded", "closed"} :
             workflow'[Address(other, r)] = workflow[Address(other, r)]
    BY <2>1, WrittenAside, CreatedIs
  <2>4. request'[r] = "create"
    BY <2>2 DEF TypeOK
  <2>5. TypeOK'
    BY <2>2, <2>3 DEF TypeOK
  <2>6. WritesOwn(r)
    BY <2>2, <2>3 DEF WritesOwn, RunPlaces, TypeOK
  <2>7. RunFits(r)'
    BY <2>2, <2>3, <2>4 DEF RunFits, RowOf, ObjectsOf, CopyOf
  <2> QED
    BY <2>2, <2>3, <2>5, <2>6, <2>7 DEF SameRow
<1>2. CASE Accept(r)
  <2>1. /\ request[r] = "enqueue" /\ request' = [request EXCEPT ![r] = "accepted"]
        /\ worker' = [worker EXCEPT ![r] = "load"]
        /\ UNCHANGED <<workflow, product, workflows, products, copy, reading>>
    BY <1>2 DEF Accept, Becomes, storeVars
  <2>2. request'[r] = "accepted" /\ worker'[r] = "load"
    BY <2>1 DEF TypeOK
  <2>3. TypeOK' /\ WritesOwn(r)
    BY <2>1 DEF TypeOK, WritesOwn
  <2>4. RunFits(r)'
    BY <2>1, <2>2 DEF RunFits, RowOf, ObjectsOf, CopyOf
  <2> QED
    BY <2>1, <2>3, <2>4 DEF SameRow
<1>3. CASE Reject(r)
  <2> DEFINE rejected == Fields(InProgress, <<>>, "queue full", Nil)
  <2>1. /\ request[r] = "enqueue" /\ request' = [request EXCEPT ![r] = "reject"]
        /\ UNCHANGED <<product, workflows, products, worker, copy, reading>>
    BY <1>3 DEF Reject, Becomes
  <2>2. workflow' = [workflow EXCEPT ![Address("trigger", r)] = rejected]
    <3>1. workflow[Address("trigger", r)] = Created
      BY <2>1 DEF RunFits, ObjectsOf
    <3>2. workflow' = [workflow EXCEPT ![Address("trigger", r)] =
                         [Created EXCEPT !.error = "queue full"]]
      BY <1>3, <3>1 DEF Reject
    <3>3. [Created EXCEPT !.error = "queue full"] = rejected
      BY WithError
    <3> QED
      BY <3>2, <3>3
  <2>3. /\ workflow' \in [WorkflowAddresses -> WorkflowObjects]
        /\ workflow'[Address("trigger", r)] = rejected
        /\ \A a \in WorkflowAddresses : a # Address("trigger", r) => workflow'[a] = workflow[a]
        /\ \A other \in {"created", "loaded", "closed"} :
             workflow'[Address(other, r)] = workflow[Address(other, r)]
    <3>1. rejected \in WorkflowObjects
      BY FieldsTyped
    <3> HIDE DEF rejected
    <3> QED
      BY <2>2, <3>1, WrittenAside
  <2>4. request'[r] = "reject"
    BY <2>1 DEF TypeOK
  <2>5. TypeOK'
    BY <2>1, <2>3 DEF TypeOK
  <2>6. WritesOwn(r)
    BY <2>1, <2>3 DEF WritesOwn, RunPlaces, TypeOK
  <2>7. RunFits(r)'
    BY <2>1, <2>3, <2>4 DEF RunFits, RowOf, ObjectsOf, CopyOf
  <2> QED
    BY <2>1, <2>3, <2>5, <2>6, <2>7 DEF SameRow
<1>4. CASE Answer(r)
  <2>1. /\ request[r] = "accepted" /\ request' = [request EXCEPT ![r] = "answered"]
        /\ UNCHANGED <<workflow, product, workflows, products, worker, copy, reading>>
    BY <1>4 DEF Answer, Becomes, storeVars
  <2>2. request'[r] = "answered"
    BY <2>1 DEF TypeOK
  <2>3. TypeOK' /\ WritesOwn(r)
    BY <2>1 DEF TypeOK, WritesOwn
  <2>4. RunFits(r)'
    BY <2>1, <2>2 DEF RunFits, RowOf, ObjectsOf, CopyOf
  <2> QED
    BY <2>1, <2>3, <2>4 DEF SameRow
<1> QED
  BY <1>1, <1>2, <1>3, <1>4

LEMMA HandedIs ==
  ASSUME NEW ref, NEW theWorkflows, NEW theProducts
  PROVE  /\ Handed(ref, theWorkflows, theProducts).ref = ref
         /\ Handed(ref, theWorkflows, theProducts).workflows = theWorkflows
         /\ Handed(ref, theWorkflows, theProducts).products = theProducts
BY DEF Handed

(* An open run is loaded as it was created. *)
LEMMA LoadsCreated ==
  ASSUME NEW r \in Runs, RunFits(r),
         worker[r] \in {"load", "fetch", "detect", "persist", "fail"}
  PROVE  LET got == GetWorkflow(r, Address("loaded", r))
         IN  /\ got.ref = Address("loaded", r) /\ got.products = product
             /\ got.workflows = [workflow EXCEPT ![Address("loaded", r)] = Created]
             /\ ProductOf[r] \in Catalogue
<1> DEFINE at == Address("loaded", r)
<1>1. workflows[r] = Address("created", r) /\ workflow[Address("created", r)] = Created
  BY DEF RunFits, RowOf, ObjectsOf
<1>2. GetWorkflow(r, at) = Handed(at, [workflow EXCEPT ![at] = Created], product)
  BY <1>1, CreatedIs DEF GetWorkflow
<1>3. ProductOf[r] \in Catalogue
  BY DEF RunFits, RowOf
<1> QED
  BY <1>2, <1>3, HandedIs

LEMMA RecordTyped ==
  ASSUME NEW steps \in Seq(Steps), NEW name \in {FetchProduct, DetectClaims, PersistResult}
  PROVE  RecordStep(steps, name, FALSE) \in Seq(Steps)
BY DEF RecordStep, Step, Steps

(* The worker: process up to its call of CompleteWorkflow or FailWorkflow. *)
LEMMA WorkerAside ==
  ASSUME TypeOK, NEW r \in Runs, RunFits(r),
         LoadWorkflow(r) \/ FetchStep(r) \/ Detect(r) \/ Recover(r)
  PROVE  TypeOK' /\ WritesOwn(r) /\ RunFits(r)' /\ SameRow(r)
<1> DEFINE loaded == Address("loaded", r)
           fetched == Address("fetched", r)
<1>0. /\ loaded \in WorkflowAddresses /\ fetched \in ProductAddresses
      /\ worker[r] \in {"load", "fetch", "detect", "persist"} /\ ProductOf[r] \in Catalogue
      /\ UNCHANGED <<workflows, products, request, reading>>
  BY AddressesAre, LoadsCreated DEF LoadWorkflow, FetchStep, Detect, Recover
<1>1. PICK object \in WorkflowObjects, next \in {"fetch", "detect", "persist", "fail"} :
        /\ workflow' = [workflow EXCEPT ![loaded] = object]
        /\ worker' = [worker EXCEPT ![r] = next]
        /\ copy'[r].workflow = loaded /\ object.product = Nil
        /\ copy' \in [Runs -> Refs] /\ \A q \in Runs \ {r} : copy'[q] = copy[q]
        /\ \/ product' = product
           \/ \E claims \in Runs \cup {NoRun} : product' = [product EXCEPT ![fetched] = claims]
        /\ next \in {"detect", "persist"} => copy'[r].product = fetched
        /\ next = "persist" => product'[fetched] = r
  <2>1. CASE LoadWorkflow(r)
    <3>1. /\ workflow' = [workflow EXCEPT ![loaded] = Created]
          /\ worker' = [worker EXCEPT ![r] = "fetch"]
          /\ copy' = [copy EXCEPT ![r].workflow = loaded] /\ product' = product
      <4> DEFINE got == GetWorkflow(r, loaded)
      <4>1. /\ got.ref = loaded /\ got.products = product
            /\ got.workflows = [workflow EXCEPT ![loaded] = Created]
        BY <1>0, LoadsCreated
      <4>2. ~Terminal(got.workflows[got.ref].status)
        BY <1>0, <4>1, CreatedIs, StatusesDiffer DEF TypeOK, Terminal
      <4>3. /\ workflow' = got.workflows /\ product' = got.products
            /\ copy' = [copy EXCEPT ![r].workflow = got.ref]
            /\ worker' = [worker EXCEPT
                 ![r] = IF Terminal(got.workflows[got.ref].status) THEN "done" ELSE "fetch"]
        BY <2>1 DEF LoadWorkflow, Proceeds
      <4> QED
        BY <4>1, <4>2, <4>3
    <3>2. /\ copy'[r].workflow = loaded /\ copy' \in [Runs -> Refs]
          /\ \A q \in Runs \ {r} : copy'[q] = copy[q]
      BY <1>0, <3>1 DEF TypeOK, Refs
    <3> QED
      BY <3>1, <3>2, CreatedIs
  <2>2. CASE FetchStep(r)
    <3> DEFINE row == workflow[loaded]
               steps == RecordStep(row.steps, FetchProduct, FALSE)
               claims == product[products[ProductOf[r]]]
    <3>1. copy[r].workflow = loaded /\ row.product = Nil
      BY <2>2 DEF FetchStep, RunFits, CopyOf
    <3>2. /\ workflow' = [workflow EXCEPT ![loaded] = [row EXCEPT !.steps = steps]]
          /\ worker' = [worker EXCEPT ![r] = "detect"]
          /\ copy' = [copy EXCEPT ![r].product = fetched]
          /\ product' = [product EXCEPT ![fetched] = claims]
      <4>1. /\ GetProduct(ProductOf[r], fetched).ref = fetched
            /\ GetProduct(ProductOf[r], fetched).products = [product EXCEPT ![fetched] = claims]
        BY HandedIs DEF GetProduct
      <4> QED
        BY <2>2, <3>1, <4>1 DEF FetchStep, Proceeds
    <3>3. /\ copy'[r].workflow = loaded /\ copy' \in [Runs -> Refs]
          /\ copy'[r].product = fetched /\ \A q \in Runs \ {r} : copy'[q] = copy[q]
      BY <1>0, <3>1, <3>2 DEF TypeOK, Refs
    <3>4. claims \in Runs \cup {NoRun}
      BY <1>0 DEF TypeOK
    <3>5. /\ [row EXCEPT !.steps = steps] \in WorkflowObjects
          /\ [row EXCEPT !.steps = steps].product = Nil
      <4>1. row \in WorkflowObjects
        BY <1>0 DEF TypeOK
      <4>2. steps \in Seq(Steps)
        BY <4>1, RecordTyped DEF WorkflowObjects
      <4> HIDE DEF steps, row
      <4> QED
        BY <3>1, <4>1, <4>2 DEF WorkflowObjects
    <3> HIDE DEF claims, steps, row
    <3> QED
      BY <3>2, <3>3, <3>4, <3>5
  <2>3. CASE Detect(r)
    <3> DEFINE row == workflow[loaded]
               steps == RecordStep(RecordStep(row.steps, DetectClaims, FALSE), PersistResult, FALSE)
    <3>1. copy[r].workflow = loaded /\ row.product = Nil /\ copy[r].product = fetched
      BY <2>3 DEF Detect, RunFits, CopyOf
    <3>2. /\ workflow' = [workflow EXCEPT ![loaded] = [row EXCEPT !.steps = steps]]
          /\ worker' = [worker EXCEPT ![r] = "persist"]
          /\ copy' = copy
          /\ product' = [product EXCEPT ![fetched] = r]
      BY <1>0, <2>3, <3>1 DEF Detect, Proceeds
    <3>3. product'[fetched] = r /\ copy' \in [Runs -> Refs]
      BY <1>0, <3>2 DEF TypeOK
    <3>4. /\ [row EXCEPT !.steps = steps] \in WorkflowObjects
          /\ [row EXCEPT !.steps = steps].product = Nil
      <4>1. row \in WorkflowObjects
        BY <1>0 DEF TypeOK
      <4>2. steps \in Seq(Steps)
        BY <4>1, RecordTyped DEF WorkflowObjects
      <4> HIDE DEF steps, row
      <4> QED
        BY <3>1, <4>1, <4>2 DEF WorkflowObjects
    <3> HIDE DEF steps, row
    <3> QED
      BY <3>1, <3>2, <3>3, <3>4
  <2>4. CASE Recover(r)
    <3> DEFINE object == Fields(InProgress, <<>>, "internal error", Nil)
    <3>1. /\ workflow' = [[workflow EXCEPT ![loaded] = Created]
                            EXCEPT ![loaded].error = "internal error"]
          /\ worker' = [worker EXCEPT ![r] = "fail"]
          /\ copy' = [copy EXCEPT ![r].workflow = loaded] /\ product' = product
      BY <1>0, <2>4, LoadsCreated DEF Recover, Proceeds
    <3>2. workflow' = [workflow EXCEPT ![loaded] = [Created EXCEPT !.error = "internal error"]]
      BY <1>0, <3>1 DEF TypeOK
    <3>3. [Created EXCEPT !.error = "internal error"] = object
      BY WithError
    <3>4. object \in WorkflowObjects /\ object.product = Nil
      <4>1. object \in WorkflowObjects
        BY FieldsTyped
      <4>2. object.product = Nil
        BY DEF Fields
      <4> QED
        BY <4>1, <4>2
    <3>5. /\ copy'[r].workflow = loaded /\ copy' \in [Runs -> Refs]
          /\ \A q \in Runs \ {r} : copy'[q] = copy[q]
      BY <1>0, <3>1 DEF TypeOK, Refs
    <3> HIDE DEF object
    <3> QED
      BY <3>1, <3>2, <3>3, <3>4, <3>5
  <2> QED
    BY <2>1, <2>2, <2>3, <2>4
<1>2. /\ workflow' \in [WorkflowAddresses -> WorkflowObjects]
      /\ workflow'[loaded] = object
      /\ \A a \in WorkflowAddresses : a # loaded => workflow'[a] = workflow[a]
      /\ \A other \in {"trigger", "created", "closed"} :
           workflow'[Address(other, r)] = workflow[Address(other, r)]
  BY <1>1, WrittenAside
<1>3. /\ product' \in [ProductAddresses -> Runs \cup {NoRun}]
      /\ \A a \in ProductAddresses : a # fetched => product'[a] = product[a]
      /\ \A other \in {"published", "snapshot"} :
           product'[Address(other, r)] = product[Address(other, r)]
  <2>1. CASE product' = product
    BY <2>1 DEF TypeOK
  <2>2. CASE \E claims \in Runs \cup {NoRun} : product' = [product EXCEPT ![fetched] = claims]
    BY <2>2, FetchedAside
  <2> QED
    BY <1>1, <2>1, <2>2
<1>4. worker'[r] = next
  BY <1>1 DEF TypeOK
<1>5. TypeOK'
  BY <1>0, <1>1, <1>2, <1>3 DEF TypeOK
<1>6. WritesOwn(r)
  BY <1>0, <1>1, <1>2, <1>3 DEF WritesOwn, RunPlaces, TypeOK
<1>7. RunFits(r)'
  <2>1. RowOf(r)'
    BY <1>0, <1>1, <1>4 DEF RunFits, RowOf
  <2>2. ObjectsOf(r)'
    BY <1>0, <1>2, <1>3 DEF RunFits, ObjectsOf
  <2>3. CopyOf(r)'
    BY <1>1, <1>2, <1>4 DEF CopyOf
  <2> QED
    BY <2>1, <2>2, <2>3 DEF RunFits
<1>8. SameRow(r)
  BY <1>0, <1>2, <1>3 DEF SameRow
<1> QED
  BY <1>5, <1>6, <1>7, <1>8

-------------------------------------------------------------------------------
(* Steps that change what the maps show: the rows of a run are written once,  *)
(* and then the map refers to them.                                           *)

LEMMA ClosingAllowed ==
  CanTransitionTo(InProgress, Completed) /\ CanTransitionTo(InProgress, Failed)
BY StatusesDiffer DEF CanTransitionTo, Terminal

LEMMA CreateOpens ==
  ASSUME TypeOK, NEW r \in Runs, RunFits(r), TriggerCreate(r)
  PROVE  /\ TypeOK' /\ WritesOwn(r) /\ RunFits(r)'
         /\ workflows[r] = Nil /\ workflows'[r] = Address("created", r)
         /\ workflow'[Address("created", r)] = Created
         /\ ProductOf[r] \in Catalogue
         /\ UNCHANGED <<product, products>>
<1> DEFINE created == Address("created", r)
<1>1. /\ request[r] = "create" /\ workflow[Address("trigger", r)] = Created
      /\ workflows[r] = Nil /\ worker[r] = "none" /\ ProductOf[r] \in Catalogue
  BY DEF TriggerCreate, RunFits, RowOf, ObjectsOf
<1>2. /\ workflow' = [workflow EXCEPT ![created] = Created]
      /\ workflows' = [workflows EXCEPT ![r] = created]
      /\ request' = [request EXCEPT ![r] = "enqueue"]
      /\ UNCHANGED <<product, products, worker, copy, reading>>
  BY <1>1 DEF TriggerCreate, CreateWorkflow, Becomes
<1>3. created \in WorkflowAddresses
  BY AddressesAre
<1>4. /\ workflow' \in [WorkflowAddresses -> WorkflowObjects] /\ workflow'[created] = Created
      /\ \A a \in WorkflowAddresses : a # created => workflow'[a] = workflow[a]
      /\ workflows'[r] = created /\ request'[r] = "enqueue"
  BY <1>2, <1>3, CreatedIs DEF TypeOK
<1>5. \A place \in {"trigger", "loaded", "closed"} :
        workflow'[Address(place, r)] = workflow[Address(place, r)]
  BY <1>4, AddressesAre, AddressesDiffer
<1>6. TypeOK'
  BY <1>2, <1>3, <1>4 DEF TypeOK
<1>7. WritesOwn(r)
  BY <1>2, <1>4 DEF WritesOwn, RunPlaces, TypeOK
<1>8. RunFits(r)'
  <2>1. created # Address("closed", r)
    BY AddressesDiffer
  <2>2. RowOf(r)'
    BY <1>1, <1>2, <1>4 DEF RowOf
  <2>3. ObjectsOf(r)'
    BY <1>1, <1>4, <1>5, <2>1 DEF ObjectsOf
  <2>4. CopyOf(r)'
    BY <1>1, <1>2 DEF CopyOf
  <2> QED
    BY <2>2, <2>3, <2>4 DEF RunFits
<1> QED
  BY <1>1, <1>2, <1>4, <1>6, <1>7, <1>8

(* The document and the snapshot of a run appear with its closed row. *)
LEMMA PersistCloses ==
  ASSUME TypeOK, NEW r \in Runs, RunFits(r), Persist(r)
  PROVE  /\ TypeOK' /\ WritesOwn(r) /\ RunFits(r)'
         /\ workflows[r] = Address("created", r) /\ workflow[Address("created", r)] = Created
         /\ workflows'[r] = Address("closed", r)
         /\ workflow'[Address("closed", r)].status = Completed
         /\ workflow'[Address("closed", r)].product = Address("snapshot", r)
         /\ product'[Address("snapshot", r)] = r /\ product'[Address("published", r)] = r
         /\ ProductOf[r] \in Catalogue
         /\ products' = [products EXCEPT ![ProductOf[r]] = Address("published", r)]
<1> DEFINE closed == Address("closed", r)
           snapshot == Address("snapshot", r)
           published == Address("published", r)
           row == [workflow[Address("loaded", r)] EXCEPT !.status = Completed, !.product = snapshot]
<1>1. /\ worker[r] = "persist" /\ workflows[r] = Address("created", r)
      /\ workflow[Address("created", r)] = Created
      /\ copy[r].workflow = Address("loaded", r) /\ copy[r].product = Address("fetched", r)
      /\ product[Address("fetched", r)] = r /\ ProductOf[r] \in Catalogue
      /\ request[r] \in {"accepted", "answered"}
  <2>1. /\ worker[r] = "persist"
        /\ request[r] \in {"new", "create", "enqueue", "reject", "accepted", "answered"}
    BY DEF Persist, TypeOK
  <2> QED
    BY <2>1 DEF RunFits, RowOf, ObjectsOf, CopyOf
<1>2. CanClose(r, Completed)
  BY <1>1, ClosingAllowed, CreatedIs DEF CanClose
<1>3. /\ workflow' = [workflow EXCEPT ![closed] = row]
      /\ product' = [product EXCEPT ![published] = r, ![snapshot] = r]
      /\ products' = [products EXCEPT ![ProductOf[r]] = published]
      /\ workflows' = [workflows EXCEPT ![r] = closed]
      /\ worker' = [worker EXCEPT ![r] = "done"]
      /\ UNCHANGED <<request, copy, reading>>
  BY <1>1, <1>2 DEF Persist, CompleteWorkflow, Proceeds
<1>4. /\ closed \in WorkflowAddresses
      /\ published \in ProductAddresses /\ snapshot \in ProductAddresses
  BY AddressesAre
<1>5. row \in WorkflowObjects /\ row.status = Completed /\ row.product = snapshot
  <2>1. workflow[Address("loaded", r)] \in WorkflowObjects
    BY AddressesAre DEF TypeOK
  <2>2. Completed \in Statuses
    BY DEF Statuses
  <2> QED
    BY <1>4, <2>1, <2>2 DEF WorkflowObjects
<1> HIDE DEF row
<1>6. /\ workflow' \in [WorkflowAddresses -> WorkflowObjects] /\ workflow'[closed] = row
      /\ \A a \in WorkflowAddresses : a # closed => workflow'[a] = workflow[a]
  BY <1>3, <1>4, <1>5 DEF TypeOK
<1>7. /\ product' \in [ProductAddresses -> Runs \cup {NoRun}]
      /\ product'[published] = r /\ product'[snapshot] = r
      /\ \A a \in ProductAddresses : a \notin {published, snapshot} => product'[a] = product[a]
  <2>1. published # snapshot
    BY AddressesDiffer
  <2> QED
    BY <1>3, <1>4, <2>1 DEF TypeOK
<1>8. workflows'[r] = closed /\ worker'[r] = "done"
  BY <1>3 DEF TypeOK
<1>9. TypeOK'
  BY <1>3, <1>4, <1>6, <1>7 DEF TypeOK
<1>10. WritesOwn(r)
  BY <1>3, <1>6, <1>7 DEF WritesOwn, RunPlaces, TypeOK
<1>11. RunFits(r)'
  <2>1. closed # Address("created", r) /\ closed # Address("trigger", r)
    BY AddressesDiffer
  <2>2. workflow'[Address("trigger", r)] = workflow[Address("trigger", r)]
    BY <1>6, <2>1, AddressesAre
  <2>3. RowOf(r)'
    BY <1>1, <1>3, <1>8 DEF RowOf
  <2>4. ObjectsOf(r)'
    BY <1>1, <1>3, <1>5, <1>6, <1>7, <1>8, <2>1, <2>2 DEF ObjectsOf, RunFits
  <2>5. CopyOf(r)'
    BY <1>8 DEF CopyOf
  <2> QED
    BY <2>3, <2>4, <2>5 DEF RunFits
<1> QED
  BY <1>1, <1>3, <1>5, <1>6, <1>7, <1>8, <1>9, <1>10, <1>11

(* A run that was refused or that panicked. *)
LEMMA FailCloses ==
  ASSUME TypeOK, NEW r \in Runs, RunFits(r), RejectFail(r) \/ Fail(r)
  PROVE  /\ TypeOK' /\ WritesOwn(r) /\ RunFits(r)'
         /\ workflows[r] = Address("created", r) /\ workflow[Address("created", r)] = Created
         /\ workflows'[r] = Address("closed", r)
         /\ workflow'[Address("closed", r)].status = Failed
         /\ workflow'[Address("closed", r)].product = Nil
         /\ UNCHANGED <<product, products>>
<1> DEFINE closed == Address("closed", r)
<1>1. /\ workflows[r] = Address("created", r) /\ workflow[Address("created", r)] = Created
      /\ request[r] # "new" => ProductOf[r] \in Catalogue
  BY DEF RejectFail, Fail, RunFits, RowOf, ObjectsOf
<1>2. CanClose(r, Failed)
  BY <1>1, ClosingAllowed, CreatedIs DEF CanClose
<1>3. PICK from \in WorkflowAddresses :
        /\ workflow[from].product = Nil
        /\ workflow' = [workflow EXCEPT ![closed] = [workflow[from] EXCEPT !.status = Failed]]
        /\ workflows' = [workflows EXCEPT ![r] = closed]
        /\ \/ /\ request[r] = "reject" /\ worker[r] = "none"
              /\ request' = [request EXCEPT ![r] = "answered"] /\ worker' = worker
           \/ /\ worker[r] = "fail" /\ request[r] \in {"accepted", "answered"}
              /\ worker' = [worker EXCEPT ![r] = "done"] /\ request' = request
        /\ UNCHANGED <<product, products, copy, reading>>
  <2>1. CASE RejectFail(r)
    <3>1. /\ request[r] = "reject" /\ worker[r] = "none"
          /\ workflow[Address("trigger", r)].product = Nil
      <4>1. /\ request[r] = "reject" /\ worker[r] = "none"
            /\ workflow[Address("trigger", r)] = Fields(InProgress, <<>>, "queue full", Nil)
        BY <2>1 DEF RejectFail, RunFits, RowOf, ObjectsOf
      <4>2. Fields(InProgress, <<>>, "queue full", Nil).product = Nil
        BY DEF Fields
      <4> QED
        BY <4>1, <4>2
    <3>2. Address("trigger", r) \in WorkflowAddresses
      BY AddressesAre
    <3> QED
      BY <1>2, <2>1, <3>1, <3>2 DEF RejectFail, FailWorkflow, Becomes
  <2>2. CASE Fail(r)
    <3>1. /\ worker[r] = "fail" /\ copy[r].workflow = Address("loaded", r)
          /\ workflow[Address("loaded", r)].product = Nil
      BY <2>2 DEF Fail, RunFits, CopyOf
    <3>2. request[r] \in {"accepted", "answered"}
      BY <3>1 DEF RunFits, RowOf, TypeOK
    <3>3. Address("loaded", r) \in WorkflowAddresses
      BY AddressesAre
    <3> QED
      BY <1>2, <2>2, <3>1, <3>2, <3>3 DEF Fail, FailWorkflow, Proceeds
  <2> QED
    BY <2>1, <2>2
<1> DEFINE row == [workflow[from] EXCEPT !.status = Failed]
<1>4. row \in WorkflowObjects /\ row.status = Failed /\ row.product = Nil
  <2>1. workflow[from] \in WorkflowObjects
    BY <1>3 DEF TypeOK
  <2>2. Failed \in Statuses
    BY DEF Statuses
  <2> QED
    BY <1>3, <2>1, <2>2 DEF WorkflowObjects
<1>5. closed \in WorkflowAddresses
  BY AddressesAre
<1>6. /\ workflow' \in [WorkflowAddresses -> WorkflowObjects] /\ workflow'[closed] = row
      /\ \A a \in WorkflowAddresses : a # closed => workflow'[a] = workflow[a]
  <2>1. workflow' = [workflow EXCEPT ![closed] = row]
    BY <1>3
  <2> HIDE DEF row
  <2> QED
    BY <1>4, <1>5, <2>1 DEF TypeOK
<1> HIDE DEF row
<1>7. /\ workflows'[r] = closed
      /\ \/ request[r] = "reject" /\ request'[r] = "answered" /\ worker'[r] = "none"
         \/ /\ request[r] \in {"accepted", "answered"} /\ request'[r] = request[r]
            /\ worker'[r] = "done"
  BY <1>3 DEF TypeOK
<1>8. TypeOK'
  BY <1>3, <1>5, <1>6 DEF TypeOK
<1>9. WritesOwn(r)
  BY <1>3, <1>6 DEF WritesOwn, RunPlaces, TypeOK
<1>10. RunFits(r)'
  <2>1. closed # Address("created", r) /\ closed # Address("trigger", r)
    BY AddressesDiffer
  <2>2. workflow'[Address("trigger", r)] = workflow[Address("trigger", r)]
    BY <1>6, <2>1, AddressesAre
  <2>3. RowOf(r)'
    BY <1>1, <1>7 DEF RowOf
  <2>4. ObjectsOf(r)'
    BY <1>4, <1>6, <1>7, <2>1, <2>2 DEF ObjectsOf, RunFits
  <2>5. CopyOf(r)'
    BY <1>7 DEF CopyOf
  <2> QED
    BY <2>3, <2>4, <2>5 DEF RunFits
<1> QED
  BY <1>1, <1>3, <1>4, <1>6, <1>7, <1>8, <1>9, <1>10

-------------------------------------------------------------------------------
(* Readers. *)

ReaderStep(rd) ==
  \/ \E r \in Runs : ReadStatus(rd, r)
  \/ \E p \in Catalogue : ReadProduct(rd, p)
  \/ Encode(rd)

(* A reader writes to the objects it is handed, and to nothing else. *)
WritesRead(rd) ==
  /\ \A a \in WorkflowAddresses : a # Address("read", rd) => workflow'[a] = workflow[a]
  /\ \A a \in ProductAddresses : a # Address("read", rd) => product'[a] = product[a]
  /\ UNCHANGED <<workflows, products, request, worker, copy>>
  /\ \A other \in Readers \ {rd} : reading'[other] = reading[other]

LEMMA RowIs ==
  ASSUME TypeOK, NEW r \in Runs, RunFits(r)
  PROVE  /\ workflows[r] \in {Nil, Address("created", r), Address("closed", r)}
         /\ workflows[r] # Nil =>
              /\ workflow[workflows[r]] \in WorkflowObjects
              /\ workflow[workflows[r]].product \in {Nil, Address("snapshot", r)}
<1>1. workflows[r] \in {Nil, Address("created", r), Address("closed", r)}
  BY DEF TypeOK, RunFits, RowOf
<1>2. CASE workflows[r] = Address("created", r)
  BY <1>2, CreatedIs DEF RunFits, ObjectsOf
<1>3. CASE workflows[r] = Address("closed", r)
  <2>1. Address("closed", r) \in WorkflowAddresses
    BY AddressesAre
  <2> QED
    BY <1>3, <2>1 DEF TypeOK, RunFits, ObjectsOf
<1> QED
  BY <1>1, <1>2, <1>3

LEMMA ReadTyped ==
  ASSUME TypeOK, NEW rd \in Readers, NEW object \in WorkflowObjects,
         object.product \in {Nil, Address("read", rd)},
         workflow' = workflow \/ workflow' = [workflow EXCEPT ![Address("read", rd)] = object],
         NEW claims \in Runs \cup {NoRun},
         product' = product \/ product' = [product EXCEPT ![Address("read", rd)] = claims],
         NEW handed \in Refs, handed.workflow \in {Nil, Address("read", rd)},
         handed.product \in {Nil, Address("read", rd)},
         reading' = [reading EXCEPT ![rd] = handed], ReaderFits(rd),
         UNCHANGED <<workflows, products, request, worker, copy>>
  PROVE  TypeOK' /\ WritesRead(rd) /\ ReaderFits(rd)'
<1>1. Address("read", rd) \in WorkflowAddresses /\ Address("read", rd) \in ProductAddresses
  BY AddressesAre
<1>2. /\ workflow' \in [WorkflowAddresses -> WorkflowObjects]
      /\ \A a \in WorkflowAddresses : a # Address("read", rd) => workflow'[a] = workflow[a]
      /\ workflow'[Address("read", rd)].product \in {Nil, Address("read", rd)}
  BY <1>1 DEF TypeOK, ReaderFits
<1>3. /\ product' \in [ProductAddresses -> Runs \cup {NoRun}]
      /\ \A a \in ProductAddresses : a # Address("read", rd) => product'[a] = product[a]
  BY <1>1 DEF TypeOK
<1>4. /\ reading' \in [Readers -> Refs] /\ reading'[rd] = handed
      /\ \A other \in Readers \ {rd} : reading'[other] = reading[other]
  BY DEF TypeOK
<1>5. TypeOK'
  BY <1>2, <1>3, <1>4 DEF TypeOK
<1>6. WritesRead(rd)
  BY <1>2, <1>3, <1>4 DEF WritesRead
<1>7. ReaderFits(rd)'
  BY <1>2, <1>4 DEF ReaderFits
<1> QED
  BY <1>5, <1>6, <1>7

LEMMA NothingIs == Nothing \in Refs /\ Nothing.workflow = Nil /\ Nothing.product = Nil
BY DEF Nothing, Refs

LEMMA BlankIs == Blank \in WorkflowObjects /\ Blank.product = Nil
<1>1. Blank \in WorkflowObjects
  BY FieldsTyped DEF Blank
<1>2. Blank.product = Nil
  BY DEF Blank, Fields
<1> QED
  BY <1>1, <1>2

LEMMA ReaderAside ==
  ASSUME TypeOK, \A r \in Runs : RunFits(r), NEW rd \in Readers, ReaderFits(rd), ReaderStep(rd)
  PROVE  TypeOK' /\ WritesRead(rd) /\ ReaderFits(rd)' /\ reading'[rd] # reading[rd]
<1> DEFINE at == Address("read", rd)
<1>1. at \in WorkflowAddresses /\ at \in ProductAddresses /\ at # Nil
  BY AddressesAre, AddressesDiffer
<1>2. ASSUME NEW r \in Runs, ReadStatus(rd, r)
      PROVE  TypeOK' /\ WritesRead(rd) /\ ReaderFits(rd)' /\ reading'[rd] # reading[rd]
  <2> DEFINE row == workflow[workflows[r]]
             handed == [workflow |-> at, product |-> Nil]
  <2>1. /\ reading[rd] = Nothing /\ workflows[r] # Nil
        /\ UNCHANGED <<workflows, products, request, worker, copy>>
    BY <1>2 DEF ReadStatus
  <2>2. row \in WorkflowObjects /\ row.product \in {Nil, Address("snapshot", r)}
    BY <2>1, RowIs
  <2>3. reading' = [reading EXCEPT ![rd] = handed]
    <3>1. GetWorkflow(r, at).ref = at
      BY HandedIs DEF GetWorkflow
    <3>2. reading' = [reading EXCEPT ![rd] = [Nothing EXCEPT !.workflow = at]]
      BY <1>2, <2>1, <3>1 DEF ReadStatus
    <3>3. [Nothing EXCEPT !.workflow = at] = handed
      BY DEF Nothing
    <3> QED
      BY <3>2, <3>3
  <2>4. PICK object \in WorkflowObjects, claims \in Runs \cup {NoRun} :
          /\ object.product \in {Nil, at}
          /\ workflow' = [workflow EXCEPT ![at] = object]
          /\ product' = product \/ product' = [product EXCEPT ![at] = claims]
    <3>1. CASE row.product = Nil
      <4>1. GetWorkflow(r, at) = Handed(at, [workflow EXCEPT ![at] = row], product)
        BY <3>1 DEF GetWorkflow
      <4>2. workflow' = [workflow EXCEPT ![at] = row] /\ product' = product
        BY <1>2, <4>1, HandedIs DEF ReadStatus
      <4> QED
        BY <2>2, <3>1, <4>2
    <3>2. CASE row.product # Nil
      <4> DEFINE copied == [row EXCEPT !.product = at]
                 claimed == product[row.product]
      <4>1. GetWorkflow(r, at)
              = Handed(at, [workflow EXCEPT ![at] = copied], [product EXCEPT ![at] = claimed])
        BY <3>2 DEF GetWorkflow
      <4>2. /\ workflow' = [workflow EXCEPT ![at] = copied]
            /\ product' = [product EXCEPT ![at] = claimed]
        BY <1>2, <4>1, HandedIs DEF ReadStatus
      <4>3. copied \in WorkflowObjects /\ copied.product = at
        BY <1>1, <2>2 DEF WorkflowObjects
      <4>4. claimed \in Runs \cup {NoRun}
        BY <2>2, <3>2, AddressesAre DEF TypeOK
      <4> HIDE DEF copied, claimed
      <4> QED
        BY <4>2, <4>3, <4>4
    <3> QED
      BY <3>1, <3>2
  <2>5. handed \in Refs /\ handed.workflow = at /\ handed.product = Nil
    BY <1>1 DEF Refs
  <2> HIDE DEF handed
  <2>6. TypeOK' /\ WritesRead(rd) /\ ReaderFits(rd)'
    BY <2>1, <2>3, <2>4, <2>5, ReadTyped
  <2>7. reading'[rd] # reading[rd]
    BY <1>1, <2>1, <2>3, <2>5, NothingIs DEF TypeOK
  <2> QED
    BY <2>6, <2>7
<1>3. ASSUME NEW p \in Catalogue, ReadProduct(rd, p)
      PROVE  TypeOK' /\ WritesRead(rd) /\ ReaderFits(rd)' /\ reading'[rd] # reading[rd]
  <2> DEFINE claims == product[products[p]]
             handed == [workflow |-> Nil, product |-> at]
  <2>1. /\ reading[rd] = Nothing
        /\ UNCHANGED <<workflow, workflows, products, request, worker, copy>>
    BY <1>3 DEF ReadProduct
  <2>2. /\ reading' = [reading EXCEPT ![rd] = [Nothing EXCEPT !.product = at]]
        /\ product' = [product EXCEPT ![at] = claims]
    <3>1. GetProduct(p, at).ref = at /\ GetProduct(p, at).products = [product EXCEPT ![at] = claims]
      BY HandedIs DEF GetProduct
    <3> QED
      BY <1>3, <2>1, <3>1 DEF ReadProduct
  <2>3. [Nothing EXCEPT !.product = at] = handed
    BY DEF Nothing
  <2>4. claims \in Runs \cup {NoRun}
    BY DEF TypeOK
  <2>5. handed \in Refs /\ handed.workflow = Nil /\ handed.product = at
    BY <1>1 DEF Refs
  <2> HIDE DEF handed, claims
  <2>6. TypeOK' /\ WritesRead(rd) /\ ReaderFits(rd)'
    BY <2>1, <2>2, <2>3, <2>4, <2>5, BlankIs, ReadTyped
  <2>7. reading'[rd] # reading[rd]
    BY <1>1, <2>1, <2>2, <2>3, <2>5, NothingIs DEF TypeOK
  <2> QED
    BY <2>6, <2>7
<1>4. CASE Encode(rd)
  <2>1. /\ reading[rd] # Nothing /\ reading' = [reading EXCEPT ![rd] = Nothing]
        /\ workflow' = [workflow EXCEPT ![at] = Blank] /\ product' = [product EXCEPT ![at] = NoRun]
        /\ UNCHANGED <<workflows, products, request, worker, copy>>
    BY <1>4 DEF Encode
  <2>2. TypeOK' /\ WritesRead(rd) /\ ReaderFits(rd)'
    BY <2>1, NothingIs, BlankIs, ReadTyped
  <2> QED
    BY <2>1, <2>2 DEF TypeOK
<1> QED
  BY <1>2, <1>3, <1>4 DEF ReaderStep

LEMMA OthersNotRead ==
  ASSUME NEW rd \in Readers, WritesRead(rd)
  PROVE  /\ \A r \in Runs : Keeps(r) /\ SameRow(r)
         /\ \A other \in Readers \ {rd} : KeepsReader(other)
         /\ \A p \in Catalogue : product'[Address("seeded", p)] = product[Address("seeded", p)]
<1>1. \A place, owner : place # "read" => Address(place, owner) # Address("read", rd)
  BY AddressesDiffer
<1>2. \A other : other # rd => Address("read", other) # Address("read", rd)
  BY AddressesDiffer
<1>3. ASSUME NEW r \in Runs PROVE Keeps(r)
  BY <1>1, AddressesAre DEF WritesRead, Keeps
<1>4. ASSUME NEW r \in Runs PROVE SameRow(r)
  BY <1>3 DEF WritesRead, Keeps, SameRow
<1>5. ASSUME NEW other \in Readers \ {rd} PROVE KeepsReader(other)
  BY <1>2, AddressesAre DEF WritesRead, KeepsReader
<1>6. \A p \in Catalogue : product'[Address("seeded", p)] = product[Address("seeded", p)]
  BY <1>1, AddressesAre DEF WritesRead
<1> QED
  BY <1>3, <1>4, <1>5, <1>6

-------------------------------------------------------------------------------
(* The invariant. *)

RunStep(r) ==
  \/ Trigger(r) \/ TriggerCreate(r) \/ Accept(r) \/ Reject(r) \/ RejectFail(r) \/ Answer(r)
  \/ LoadWorkflow(r) \/ FetchStep(r) \/ Detect(r) \/ Persist(r) \/ Recover(r) \/ Fail(r)

LEMMA NextIs ==
  ASSUME Next
  PROVE  (\E r \in Runs : RunStep(r)) \/ (\E rd \in Readers : ReaderStep(rd))
BY DEF Next, RunStep, ReaderStep

LEMMA RunStepFits ==
  ASSUME TypeOK, NEW r \in Runs, RunFits(r), RunStep(r)
  PROVE  TypeOK' /\ WritesOwn(r) /\ RunFits(r)'
BY RequestAside, WorkerAside, CreateOpens, PersistCloses, FailCloses DEF RunStep

(* Documents change by a completion, and a row stays closed. *)
LEMMA DocumentsFit ==
  ASSUME TypeOK, NEW r \in Runs, RunFits(r), RunStep(r), \A p \in Catalogue : DocumentFits(p)
  PROVE  \A p \in Catalogue : DocumentFits(p)'
<1>1. WritesOwn(r)
  BY RunStepFits
<1>2. /\ workflows[r] # Address("closed", r) \/ workflows'[r] = workflows[r]
      /\ \/ products' = products
         \/ /\ workflows'[r] = Address("closed", r) /\ ProductOf[r] \in Catalogue
            /\ products' = [products EXCEPT ![ProductOf[r]] = Address("published", r)]
  <2>1. Address("closed", r) # Address("created", r) /\ Address("closed", r) # Nil
    BY AddressesDiffer
  <2>2. CASE Trigger(r) \/ Accept(r) \/ Reject(r) \/ Answer(r)
    BY <2>2, RequestAside DEF SameRow
  <2>3. CASE LoadWorkflow(r) \/ FetchStep(r) \/ Detect(r) \/ Recover(r)
    BY <2>3, WorkerAside DEF SameRow
  <2>4. CASE TriggerCreate(r)
    BY <2>1, <2>4, CreateOpens
  <2>5. CASE Persist(r)
    BY <2>1, <2>5, PersistCloses
  <2>6. CASE RejectFail(r) \/ Fail(r)
    BY <2>1, <2>6, FailCloses
  <2> QED
    BY <2>2, <2>3, <2>4, <2>5, <2>6 DEF RunStep
<1>3. \A q \in Runs : workflows[q] = Address("closed", q) => workflows'[q] = Address("closed", q)
  BY <1>1, <1>2 DEF WritesOwn
<1>4. TAKE p \in Catalogue
<1>5. CASE products'[p] = products[p]
  BY <1>3, <1>5 DEF DocumentFits
<1>6. CASE products'[p] # products[p]
  BY <1>2, <1>6 DEF DocumentFits, TypeOK
<1> QED
  BY <1>5, <1>6

LEMMA InitFits == Init => Invariant
<1> SUFFICES ASSUME Init PROVE Invariant
  OBVIOUS
<1> USE DEF Init
<1>1. TypeOK
  <2>1. workflow \in [WorkflowAddresses -> WorkflowObjects]
    BY BlankIs DEF WorkflowAddresses
  <2>2. product \in [ProductAddresses -> Runs \cup {NoRun}]
    BY DEF ProductAddresses
  <2>3. products \in [Catalogue -> ProductAddresses]
    BY AddressesAre
  <2>4. copy \in [Runs -> Refs] /\ reading \in [Readers -> Refs]
    BY DEF Refs
  <2> QED
    BY <2>1, <2>2, <2>3, <2>4 DEF TypeOK
<1>2. ASSUME NEW r \in Runs PROVE RunFits(r)
  <2>1. request[r] = "new" /\ worker[r] = "none" /\ workflows[r] = Nil
    OBVIOUS
  <2>2. Address("created", r) # Nil /\ Address("closed", r) # Nil
    BY AddressesDiffer
  <2> QED
    BY <2>1, <2>2 DEF RunFits, RowOf, ObjectsOf, CopyOf
<1>3. \A p \in Catalogue : DocumentFits(p)
  BY DEF DocumentFits
<1>4. ASSUME NEW rd \in Readers PROVE ReaderFits(rd)
  <2>1. Address("read", rd) \in {"read"} \X Readers
    BY DEF Address
  <2>2. workflow[Address("read", rd)] = Blank
    BY <2>1
  <2> QED
    BY <2>2, BlankIs DEF ReaderFits
<1> QED
  BY <1>1, <1>2, <1>3, <1>4 DEF Invariant

LEMMA StepFits == Invariant /\ [Next]_vars => Invariant'
<1> SUFFICES ASSUME Invariant, [Next]_vars PROVE Invariant'
  OBVIOUS
<1>0. /\ TypeOK /\ \A r \in Runs : RunFits(r)
      /\ \A p \in Catalogue : DocumentFits(p)
      /\ \A rd \in Readers : ReaderFits(rd)
  BY DEF Invariant
<1>1. ASSUME NEW r \in Runs, RunStep(r) PROVE Invariant'
  <2>1. TypeOK' /\ WritesOwn(r) /\ RunFits(r)'
    BY <1>0, <1>1, RunStepFits
  <2>2. ASSUME NEW q \in Runs PROVE RunFits(q)'
    BY <1>0, <2>1, OthersKept, RunKept
  <2>3. \A p \in Catalogue : DocumentFits(p)'
    BY <1>0, <1>1, DocumentsFit
  <2>4. ASSUME NEW rd \in Readers PROVE ReaderFits(rd)'
    BY <1>0, <2>1, OthersKept, ReaderKept
  <2> QED
    BY <2>1, <2>2, <2>3, <2>4 DEF Invariant
<1>2. ASSUME NEW rd \in Readers, ReaderStep(rd) PROVE Invariant'
  <2>1. TypeOK' /\ WritesRead(rd) /\ ReaderFits(rd)'
    BY <1>0, <1>2, ReaderAside
  <2>2. ASSUME NEW q \in Runs PROVE RunFits(q)'
    BY <1>0, <2>1, OthersNotRead, RunKept
  <2>3. ASSUME NEW p \in Catalogue PROVE DocumentFits(p)'
    BY <1>0, <2>1 DEF DocumentFits, WritesRead
  <2>4. ASSUME NEW other \in Readers PROVE ReaderFits(other)'
    BY <1>0, <2>1, OthersNotRead, ReaderKept
  <2> QED
    BY <2>1, <2>2, <2>3, <2>4 DEF Invariant
<1>3. CASE UNCHANGED vars
  <2>1. UNCHANGED <<workflow, product, workflows, products, request, worker, copy, reading>>
    BY <1>3 DEF vars
  <2>2. TypeOK'
    BY <1>0, <2>1 DEF TypeOK
  <2>3. ASSUME NEW r \in Runs PROVE RunFits(r)'
    BY <1>0, <2>1, RunKept DEF Keeps
  <2>4. ASSUME NEW p \in Catalogue PROVE DocumentFits(p)'
    BY <1>0, <2>1 DEF DocumentFits
  <2>5. ASSUME NEW rd \in Readers PROVE ReaderFits(rd)'
    BY <1>0, <2>1 DEF ReaderFits
  <2> QED
    BY <2>2, <2>3, <2>4, <2>5 DEF Invariant
<1> QED
  BY <1>1, <1>2, <1>3, NextIs

(* In every state of the store, its requests, workers and readers, whatever
   an open run's workers write is in objects of their own, a closed row
   refers to a snapshot nobody writes, and a reader refers to its copy only. *)
THEOREM ObjectsAreOwned == Spec => []Invariant
<1> QED
  BY InitFits, StepFits, PTL DEF Spec

-------------------------------------------------------------------------------
(* What the store shows. *)

(* The row of an open run is the one that CreateWorkflow stored: neither the
   request, which goes on writing to its workflow when the queue is full, nor
   the worker, which records steps, errors and claims, writes to it
   (memory.go, CreateWorkflow and GetWorkflow; engine.go:141, 178, 196). *)
THEOREM OpenRowsStayAsCreated == Spec => []OpenRowsAsCreated
<1>1. Invariant => OpenRowsAsCreated
  <2> SUFFICES ASSUME Invariant, NEW r \in Runs, StatusOf(r) = InProgress
               PROVE  workflow[workflows[r]] = Created
    BY DEF OpenRowsAsCreated, Created
  <2>1. TypeOK /\ RunFits(r)
    BY DEF Invariant
  <2>2. workflows[r] \in {Nil, Address("created", r), Address("closed", r)}
    BY <2>1, RowIs
  <2>3. workflows[r] # Nil
    BY StatusesDiffer DEF StatusOf
  <2>4. CASE workflows[r] = Address("closed", r)
    <3>1. workflow[workflows[r]].status = InProgress
      BY <2>3 DEF StatusOf
    <3> QED
      BY <2>1, <2>4, <3>1, StatusesDiffer DEF RunFits, ObjectsOf
  <2> QED
    BY <2>1, <2>2, <2>3, <2>4 DEF RunFits, ObjectsOf
<1> QED
  BY <1>1, ObjectsAreOwned, PTL

LEMMA AcceptedKept ==
  ASSUME TypeOK, NEW r \in Runs, RunFits(r), RunStep(r), request[r] = "accepted"
  PROVE  workflow'[Address("trigger", r)] = workflow[Address("trigger", r)]
<1>1. workflow[Address("trigger", r)] = Created
  BY DEF RunFits, ObjectsOf
<1>2. CASE Answer(r)
  BY <1>2 DEF Answer, storeVars
<1>3. CASE LoadWorkflow(r) \/ FetchStep(r) \/ Detect(r) \/ Persist(r) \/ Recover(r) \/ Fail(r)
  <2>1. request' = request
    BY <1>3 DEF LoadWorkflow, FetchStep, Detect, Persist, Recover, Fail
  <2> QED
    BY <1>1, <2>1, RunStepFits DEF RunFits, ObjectsOf
<1> QED
  BY <1>2, <1>3 DEF RunStep, Trigger, TriggerCreate, Accept, Reject, RejectFail

LEMMA HeldKept ==
  ASSUME NEW rd \in Readers, ReaderFits(rd), KeepsReader(rd)
  PROVE  HeldBy(rd)' = HeldBy(rd)
<1> DEFINE at == Address("read", rd)
<1>1. /\ reading'[rd] = reading[rd] /\ workflow'[at] = workflow[at] /\ product'[at] = product[at]
      /\ workflow[at].product \in {Nil, at}
  BY DEF ReaderFits, KeepsReader
<1>2. Deep(at)' = Deep(at)
  BY <1>1 DEF Deep
<1>3. reading[rd].workflow \in {Nil, at} /\ reading[rd].product \in {Nil, at}
  BY DEF ReaderFits
<1>4. (IF reading[rd].workflow = Nil THEN Nil ELSE Deep(reading[rd].workflow))'
        = (IF reading[rd].workflow = Nil THEN Nil ELSE Deep(reading[rd].workflow))
  BY <1>1, <1>2, <1>3
<1>5. (IF reading[rd].product = Nil THEN NoRun ELSE product[reading[rd].product])'
        = (IF reading[rd].product = Nil THEN NoRun ELSE product[reading[rd].product])
  BY <1>1, <1>3
<1> QED
  BY <1>4, <1>5 DEF HeldBy

(* Nothing that a handler encodes, after the lock of the store is released, is
   written by anyone else: neither what GetWorkflow and GetProduct handed it
   (memory.go, their Clones), nor the workflow of an accepted request, which
   has a worker by then (api.go, handleTrigger; engine.go, Trigger). *)
THEOREM EncodedAlone == Spec => NothingChangesWhileEncoded
<1> DEFINE Kept == /\ \A rd \in Readers : reading'[rd] = reading[rd] => HeldBy(rd)' = HeldBy(rd)
                   /\ \A r \in Runs : request[r] = "accepted" =>
                        workflow'[Address("trigger", r)] = workflow[Address("trigger", r)]
<1>1. Invariant /\ [Next]_vars => [Kept]_vars
  <2> SUFFICES ASSUME Invariant, Next PROVE Kept
    OBVIOUS
  <2>0. /\ TypeOK /\ \A r \in Runs : RunFits(r)
        /\ \A rd \in Readers : ReaderFits(rd)
    BY DEF Invariant
  <2>1. ASSUME NEW r \in Runs, RunStep(r) PROVE Kept
    <3>1. WritesOwn(r)
      BY <2>0, <2>1, RunStepFits
    <3>2. ASSUME NEW rd \in Readers PROVE HeldBy(rd)' = HeldBy(rd)
      BY <2>0, <3>1, OthersKept, HeldKept
    <3>3. ASSUME NEW q \in Runs, request[q] = "accepted"
          PROVE  workflow'[Address("trigger", q)] = workflow[Address("trigger", q)]
      <4>1. CASE q = r
        BY <2>0, <2>1, <3>3, <4>1, AcceptedKept
      <4>2. CASE q # r
        BY <3>1, <4>2, OthersKept DEF Keeps
      <4> QED
        BY <4>1, <4>2
    <3> QED
      BY <3>2, <3>3
  <2>2. ASSUME NEW rd \in Readers, ReaderStep(rd) PROVE Kept
    <3>1. WritesRead(rd) /\ reading'[rd] # reading[rd]
      BY <2>0, <2>2, ReaderAside
    <3>2. ASSUME NEW other \in Readers, reading'[other] = reading[other]
          PROVE  HeldBy(other)' = HeldBy(other)
      BY <2>0, <3>1, <3>2, OthersNotRead, HeldKept
    <3>3. \A r \in Runs : workflow'[Address("trigger", r)] = workflow[Address("trigger", r)]
      BY <3>1, OthersNotRead DEF Keeps
    <3> QED
      BY <3>2, <3>3
  <2> QED
    BY <2>1, <2>2, NextIs
<1> QED
  BY <1>1, ObjectsAreOwned, PTL DEF Spec, NothingChangesWhileEncoded

-------------------------------------------------------------------------------
(* The store, followed through its pointers, is the one of RunLifecycle. *)

SnapshotOf(r) == IF workflows[r] = Nil THEN NoRun ELSE Deep(workflows[r]).product

CurrentOf(p) == product[products[p]]

LEMMA DeepIs ==
  ASSUME NEW ref, workflow[ref] \in WorkflowObjects
  PROVE  Deep(ref).product =
           IF workflow[ref].product = Nil THEN NoRun ELSE product[workflow[ref].product]
BY DEF Deep, WorkflowObjects

(* What is shown of a run, by which row it has. *)
LEMMA RunShows ==
  ASSUME TypeOK, NEW r \in Runs, RunFits(r)
  PROVE  /\ workflows[r] = Nil => StatusOf(r) = NotCreated /\ SnapshotOf(r) = NoRun
         /\ workflows[r] = Address("created", r) =>
              StatusOf(r) = InProgress /\ SnapshotOf(r) = NoRun
         /\ workflows[r] = Address("closed", r) =>
              /\ StatusOf(r) = workflow[Address("closed", r)].status
              /\ SnapshotOf(r) = IF workflow[Address("closed", r)].product = Nil
                                 THEN NoRun ELSE product[Address("snapshot", r)]
<1>1. Address("created", r) # Nil /\ Address("closed", r) # Nil
  BY AddressesDiffer
<1>2. ASSUME workflows[r] = Address("created", r)
      PROVE  StatusOf(r) = InProgress /\ SnapshotOf(r) = NoRun
  <2>1. workflow[workflows[r]] = Created
    BY <1>2 DEF RunFits, ObjectsOf
  <2> QED
    BY <1>1, <1>2, <2>1, CreatedIs, DeepIs DEF StatusOf, SnapshotOf
<1>3. ASSUME workflows[r] = Address("closed", r)
      PROVE  /\ StatusOf(r) = workflow[Address("closed", r)].status
             /\ SnapshotOf(r) = IF workflow[Address("closed", r)].product = Nil
                                THEN NoRun ELSE product[Address("snapshot", r)]
  <2>1. /\ workflow[workflows[r]] \in WorkflowObjects
        /\ workflow[workflows[r]].product \in {Nil, Address("snapshot", r)}
    BY <1>1, <1>3, RowIs
  <2> QED
    BY <1>1, <1>3, <2>1, DeepIs DEF StatusOf, SnapshotOf
<1> QED
  BY <1>2, <1>3 DEF StatusOf, SnapshotOf

(* Nothing is shown of a step that writes neither the row nor its snapshot. *)
LEMMA RunShowsSame ==
  ASSUME TypeOK, NEW r \in Runs, RunFits(r), TypeOK', RunFits(r)', workflows'[r] = workflows[r],
         workflow'[Address("closed", r)] = workflow[Address("closed", r)],
         product'[Address("snapshot", r)] = product[Address("snapshot", r)]
  PROVE  StatusOf(r)' = StatusOf(r) /\ SnapshotOf(r)' = SnapshotOf(r)
<1>1. \/ workflows[r] = Nil
      \/ workflows[r] = Address("created", r)
      \/ workflows[r] = Address("closed", r)
  BY RowIs
<1>2. (TypeOK /\ RunFits(r) =>
         /\ workflows[r] = Nil => StatusOf(r) = NotCreated /\ SnapshotOf(r) = NoRun
         /\ workflows[r] = Address("created", r) =>
              StatusOf(r) = InProgress /\ SnapshotOf(r) = NoRun
         /\ workflows[r] = Address("closed", r) =>
              /\ StatusOf(r) = workflow[Address("closed", r)].status
              /\ SnapshotOf(r) = IF workflow[Address("closed", r)].product = Nil
                                 THEN NoRun ELSE product[Address("snapshot", r)])'
  BY RunShows, PTL
<1> QED
  BY <1>1, <1>2, RunShows

(* A document shows what it was seeded with, or what a closed run published. *)
LEMMA CurrentSame ==
  ASSUME TypeOK, NEW p \in Catalogue, DocumentFits(p), products'[p] = products[p],
         product'[Address("seeded", p)] = product[Address("seeded", p)],
         \A q \in Runs : workflows[q] = Address("closed", q) =>
           product'[Address("published", q)] = product[Address("published", q)]
  PROVE  CurrentOf(p)' = CurrentOf(p)
BY DEF DocumentFits, CurrentOf

LEMMA SameStatuses ==
  /\ Lifecycle!NotCreated = NotCreated /\ Lifecycle!InProgress = InProgress
  /\ Lifecycle!Completed = Completed /\ Lifecycle!Failed = Failed
BY DEF NotCreated, InProgress, Completed, Failed, Lifecycle!NotCreated, Lifecycle!InProgress,
       Lifecycle!Completed, Lifecycle!Failed

ShowsStatus == [r \in Runs |-> StatusOf(r)]
ShowsSnapshot == [r \in Runs |-> SnapshotOf(r)]
ShowsCurrent == [p \in Catalogue |-> CurrentOf(p)]

LEMMA ShowsInit ==
  ASSUME ShowsStatus = [r \in Runs |-> NotCreated], ShowsSnapshot = [r \in Runs |-> NoRun],
         ShowsCurrent = [p \in Catalogue |-> NoRun]
  PROVE  Lifecycle!Init
BY SameStatuses
   DEF Lifecycle!Init, ShowsStatus, ShowsSnapshot, ShowsCurrent, SnapshotOf, CurrentOf

LEMMA ShowsStutter ==
  ASSUME UNCHANGED <<ShowsStatus, ShowsSnapshot, ShowsCurrent>>
  PROVE  UNCHANGED Lifecycle!vars
BY DEF Lifecycle!vars, ShowsStatus, ShowsSnapshot, ShowsCurrent, SnapshotOf, CurrentOf

LEMMA ShowsOpen ==
  ASSUME NEW r \in Runs, StatusOf(r) = NotCreated, ProductOf[r] \in Catalogue,
         ShowsStatus' = [ShowsStatus EXCEPT ![r] = InProgress],
         UNCHANGED <<ShowsSnapshot, ShowsCurrent>>
  PROVE  Lifecycle!Next
<1>1. Lifecycle!Open(r)
  BY SameStatuses
     DEF Lifecycle!Open, ShowsStatus, ShowsSnapshot, ShowsCurrent, SnapshotOf, CurrentOf
<1> QED
  BY <1>1 DEF Lifecycle!Next

LEMMA ShowsComplete ==
  ASSUME NEW r \in Runs, StatusOf(r) = InProgress,
         ShowsStatus' = [ShowsStatus EXCEPT ![r] = Completed],
         ShowsSnapshot' = [ShowsSnapshot EXCEPT ![r] = r],
         ShowsCurrent' = [ShowsCurrent EXCEPT ![ProductOf[r]] = r]
  PROVE  Lifecycle!Next
<1>1. Lifecycle!Complete(r)
  BY SameStatuses
     DEF Lifecycle!Complete, ShowsStatus, ShowsSnapshot, ShowsCurrent, SnapshotOf, CurrentOf
<1> QED
  BY <1>1 DEF Lifecycle!Next

LEMMA ShowsFail ==
  ASSUME NEW r \in Runs, StatusOf(r) = InProgress,
         ShowsStatus' = [ShowsStatus EXCEPT ![r] = Failed],
         UNCHANGED <<ShowsSnapshot, ShowsCurrent>>
  PROVE  Lifecycle!Next
<1>1. Lifecycle!Fail(r)
  BY SameStatuses
     DEF Lifecycle!Fail, ShowsStatus, ShowsSnapshot, ShowsCurrent, SnapshotOf, CurrentOf
<1> QED
  BY <1>1 DEF Lifecycle!Next

(* What a step of one run leaves as it is shown. *)
LEMMA OthersShowSame ==
  ASSUME Invariant, Invariant', NEW r \in Runs, WritesOwn(r), workflows[r] # Address("closed", r)
  PROVE  /\ \A q \in Runs \ {r} : StatusOf(q)' = StatusOf(q) /\ SnapshotOf(q)' = SnapshotOf(q)
         /\ \A p \in Catalogue : products'[p] = products[p] => CurrentOf(p)' = CurrentOf(p)
<1>1. ASSUME NEW q \in Runs \ {r}
      PROVE  StatusOf(q)' = StatusOf(q) /\ SnapshotOf(q)' = SnapshotOf(q)
  <2>1. TypeOK /\ RunFits(q) /\ TypeOK' /\ RunFits(q)'
    BY DEF Invariant
  <2>2. Keeps(q)
    BY OthersKept
  <2> QED
    BY <2>1, <2>2, RunShowsSame DEF Keeps
<1>2. ASSUME NEW p \in Catalogue, products'[p] = products[p]
      PROVE  CurrentOf(p)' = CurrentOf(p)
  <2>1. TypeOK /\ DocumentFits(p)
    BY DEF Invariant
  <2>2. product'[Address("seeded", p)] = product[Address("seeded", p)]
    BY OthersKept
  <2>3. \A q \in Runs : workflows[q] = Address("closed", q) =>
          product'[Address("published", q)] = product[Address("published", q)]
    BY OthersKept DEF Keeps
  <2> QED
    BY <1>2, <2>1, <2>2, <2>3, CurrentSame
<1> QED
  BY <1>1, <1>2

(* A step that changes no map entry, no row and no published object. *)
LEMMA SameRowShowsSame ==
  ASSUME Invariant, Invariant', NEW r \in Runs, WritesOwn(r), SameRow(r)
  PROVE  UNCHANGED Lifecycle!vars
<1>1. /\ TypeOK /\ TypeOK' /\ \A q \in Runs : RunFits(q) /\ RunFits(q)'
      /\ \A p \in Catalogue : DocumentFits(p)
  BY DEF Invariant
<1>2. ASSUME NEW q \in Runs PROVE StatusOf(q)' = StatusOf(q) /\ SnapshotOf(q)' = SnapshotOf(q)
  <2>1. CASE q = r
    BY <1>1, <2>1, RunShowsSame DEF SameRow
  <2>2. CASE q # r
    BY <1>1, <2>2, OthersKept, RunShowsSame DEF Keeps
  <2> QED
    BY <2>1, <2>2
<1>3. ASSUME NEW p \in Catalogue PROVE CurrentOf(p)' = CurrentOf(p)
  <2>1. products'[p] = products[p]
    BY DEF SameRow
  <2>2. \A q \in Runs : product'[Address("published", q)] = product[Address("published", q)]
    BY OthersKept DEF Keeps, SameRow
  <2>3. product'[Address("seeded", p)] = product[Address("seeded", p)]
    BY OthersKept
  <2> QED
    BY <1>1, <2>1, <2>2, <2>3, CurrentSame
<1>4. UNCHANGED <<ShowsStatus, ShowsSnapshot, ShowsCurrent>>
  BY <1>2, <1>3 DEF ShowsStatus, ShowsSnapshot, ShowsCurrent
<1> QED
  BY <1>4, ShowsStutter

LEMMA ReadersShowSame ==
  ASSUME Invariant, Invariant', NEW rd \in Readers, WritesRead(rd)
  PROVE  UNCHANGED Lifecycle!vars
<1>1. /\ TypeOK /\ TypeOK' /\ \A q \in Runs : RunFits(q) /\ RunFits(q)'
      /\ \A p \in Catalogue : DocumentFits(p)
  BY DEF Invariant
<1>2. ASSUME NEW q \in Runs PROVE StatusOf(q)' = StatusOf(q) /\ SnapshotOf(q)' = SnapshotOf(q)
  BY <1>1, OthersNotRead, RunShowsSame DEF Keeps
<1>3. ASSUME NEW p \in Catalogue PROVE CurrentOf(p)' = CurrentOf(p)
  <2>1. products'[p] = products[p]
    BY DEF WritesRead
  <2> QED
    BY <1>1, <2>1, OthersNotRead, CurrentSame DEF Keeps
<1>4. UNCHANGED <<ShowsStatus, ShowsSnapshot, ShowsCurrent>>
  BY <1>2, <1>3 DEF ShowsStatus, ShowsSnapshot, ShowsCurrent
<1> QED
  BY <1>4, ShowsStutter

LEMMA RunShowsNow ==
  ASSUME NEW r \in Runs
  PROVE  Invariant' =>
         /\ workflows'[r] = Address("created", r) =>
              StatusOf(r)' = InProgress /\ SnapshotOf(r)' = NoRun
         /\ workflows'[r] = Address("closed", r) =>
              /\ StatusOf(r)' = workflow'[Address("closed", r)].status
              /\ SnapshotOf(r)' = IF workflow'[Address("closed", r)].product = Nil
                                  THEN NoRun ELSE product'[Address("snapshot", r)]
<1>1. Invariant =>
        /\ workflows[r] = Address("created", r) => StatusOf(r) = InProgress /\ SnapshotOf(r) = NoRun
        /\ workflows[r] = Address("closed", r) =>
             /\ StatusOf(r) = workflow[Address("closed", r)].status
             /\ SnapshotOf(r) = IF workflow[Address("closed", r)].product = Nil
                                THEN NoRun ELSE product[Address("snapshot", r)]
  BY RunShows DEF Invariant
<1>2. (Invariant =>
        /\ workflows[r] = Address("created", r) => StatusOf(r) = InProgress /\ SnapshotOf(r) = NoRun
        /\ workflows[r] = Address("closed", r) =>
             /\ StatusOf(r) = workflow[Address("closed", r)].status
             /\ SnapshotOf(r) = IF workflow[Address("closed", r)].product = Nil
                                THEN NoRun ELSE product[Address("snapshot", r)])'
  BY <1>1, PTL
<1> QED
  BY <1>2

LEMMA RunStepImplements ==
  ASSUME Invariant, Invariant', NEW r \in Runs, RunStep(r)
  PROVE  [Lifecycle!Next]_(Lifecycle!vars)
<1>0. TypeOK /\ RunFits(r) /\ WritesOwn(r)
  BY RunStepFits DEF Invariant
<1>1. CASE Trigger(r) \/ Accept(r) \/ Reject(r) \/ Answer(r)
  BY <1>0, <1>1, RequestAside, SameRowShowsSame
<1>2. CASE LoadWorkflow(r) \/ FetchStep(r) \/ Detect(r) \/ Recover(r)
  BY <1>0, <1>2, WorkerAside, SameRowShowsSame
<1>3. Address("created", r) # Address("closed", r) /\ Nil # Address("closed", r)
      /\ Nil # Address("snapshot", r)
  BY AddressesDiffer
<1>4. CASE TriggerCreate(r)
  <2>1. /\ workflows[r] = Nil /\ workflows'[r] = Address("created", r)
        /\ ProductOf[r] \in Catalogue /\ products' = products
    BY <1>0, <1>4, CreateOpens
  <2>2. /\ StatusOf(r) = NotCreated /\ SnapshotOf(r) = NoRun
        /\ StatusOf(r)' = InProgress /\ SnapshotOf(r)' = NoRun
    BY <1>0, <2>1, RunShows, RunShowsNow
  <2>3. ShowsStatus' = [ShowsStatus EXCEPT ![r] = InProgress]
    BY <1>0, <1>3, <2>1, <2>2, OthersShowSame DEF ShowsStatus
  <2>4. UNCHANGED <<ShowsSnapshot, ShowsCurrent>>
    BY <1>0, <1>3, <2>1, <2>2, OthersShowSame DEF ShowsSnapshot, ShowsCurrent
  <2> QED
    BY <2>1, <2>2, <2>3, <2>4, ShowsOpen
<1>5. CASE Persist(r)
  <2>1. /\ workflows[r] = Address("created", r) /\ workflows'[r] = Address("closed", r)
        /\ workflow'[Address("closed", r)].status = Completed
        /\ workflow'[Address("closed", r)].product = Address("snapshot", r)
        /\ product'[Address("snapshot", r)] = r /\ product'[Address("published", r)] = r
        /\ ProductOf[r] \in Catalogue
        /\ products' = [products EXCEPT ![ProductOf[r]] = Address("published", r)]
    BY <1>0, <1>5, PersistCloses
  <2>2. StatusOf(r) = InProgress /\ StatusOf(r)' = Completed /\ SnapshotOf(r)' = r
    BY <1>0, <1>3, <2>1, RunShows, RunShowsNow
  <2>3. ShowsStatus' = [ShowsStatus EXCEPT ![r] = Completed]
    BY <1>0, <1>3, <2>1, <2>2, OthersShowSame DEF ShowsStatus
  <2>4. ShowsSnapshot' = [ShowsSnapshot EXCEPT ![r] = r]
    BY <1>0, <1>3, <2>1, <2>2, OthersShowSame DEF ShowsSnapshot
  <2>5. CurrentOf(ProductOf[r])' = r
    BY <1>0, <2>1 DEF CurrentOf, TypeOK
  <2>6. ASSUME NEW p \in Catalogue, p # ProductOf[r] PROVE CurrentOf(p)' = CurrentOf(p)
    <3>1. products'[p] = products[p]
      BY <1>0, <2>1, <2>6 DEF TypeOK
    <3> QED
      BY <1>0, <1>3, <2>1, <3>1, OthersShowSame
  <2>7. ShowsCurrent' = [ShowsCurrent EXCEPT ![ProductOf[r]] = r]
    BY <2>1, <2>5, <2>6 DEF ShowsCurrent
  <2> QED
    BY <2>2, <2>3, <2>4, <2>7, ShowsComplete
<1>6. CASE RejectFail(r) \/ Fail(r)
  <2>1. /\ workflows[r] = Address("created", r) /\ workflows'[r] = Address("closed", r)
        /\ workflow'[Address("closed", r)].status = Failed
        /\ workflow'[Address("closed", r)].product = Nil
        /\ products' = products
    BY <1>0, <1>6, FailCloses
  <2>2. /\ StatusOf(r) = InProgress /\ SnapshotOf(r) = NoRun
        /\ StatusOf(r)' = Failed /\ SnapshotOf(r)' = NoRun
    BY <1>0, <2>1, RunShows, RunShowsNow
  <2>3. ShowsStatus' = [ShowsStatus EXCEPT ![r] = Failed]
    BY <1>0, <1>3, <2>1, <2>2, OthersShowSame DEF ShowsStatus
  <2>4. UNCHANGED <<ShowsSnapshot, ShowsCurrent>>
    BY <1>0, <1>3, <2>1, <2>2, OthersShowSame DEF ShowsSnapshot, ShowsCurrent
  <2> QED
    BY <2>2, <2>3, <2>4, ShowsFail
<1> QED
  BY <1>1, <1>2, <1>4, <1>5, <1>6 DEF RunStep

(* The store keeps the promise of RunLifecycle although its objects are shared:
   what its maps show, followed through their pointers, changes only when
   CreateWorkflow, CompleteWorkflow and FailWorkflow take effect, and then all
   of it at once (memory.go; engine.go:191 writes the claims long before). *)
THEOREM MemoryRefinesLifecycle == Spec => MemoryImplementsLifecycle
<1>1. Init => Lifecycle!Init
  <2> SUFFICES ASSUME Init PROVE Lifecycle!Init
    OBVIOUS
  <2>1. \A r \in Runs : StatusOf(r) = NotCreated /\ SnapshotOf(r) = NoRun
    BY DEF Init, StatusOf, SnapshotOf
  <2>2. \A p \in Catalogue : CurrentOf(p) = NoRun
    BY AddressesAre DEF Init, CurrentOf, ProductAddresses
  <2> QED
    BY <2>1, <2>2, ShowsInit DEF ShowsStatus, ShowsSnapshot, ShowsCurrent
<1>2. Invariant /\ Invariant' /\ [Next]_vars => [Lifecycle!Next]_(Lifecycle!vars)
  <2> SUFFICES ASSUME Invariant, Invariant', [Next]_vars
               PROVE  [Lifecycle!Next]_(Lifecycle!vars)
    OBVIOUS
  <2>1. ASSUME NEW rd \in Readers, ReaderStep(rd) PROVE UNCHANGED Lifecycle!vars
    <3>1. WritesRead(rd)
      BY <2>1, ReaderAside DEF Invariant
    <3> QED
      BY <3>1, ReadersShowSame
  <2>2. CASE UNCHANGED vars
    <3>1. UNCHANGED <<workflow, product, workflows, products>>
      BY <2>2 DEF vars
    <3>2. \A r \in Runs : StatusOf(r)' = StatusOf(r) /\ SnapshotOf(r)' = SnapshotOf(r)
      BY <3>1 DEF StatusOf, SnapshotOf, Deep
    <3>3. \A p \in Catalogue : CurrentOf(p)' = CurrentOf(p)
      BY <3>1 DEF CurrentOf
    <3> QED
      BY <3>2, <3>3, ShowsStutter DEF ShowsStatus, ShowsSnapshot, ShowsCurrent
  <2> QED
    BY <2>1, <2>2, NextIs, RunStepImplements
<1> QED
  BY <1>1, <1>2, ObjectsAreOwned, PTL DEF Spec, MemoryImplementsLifecycle, Lifecycle!Spec

-------------------------------------------------------------------------------
(* What RunLifecycle promises holds of whatever implements it. *)

Promised == INSTANCE RunLifecycleProofs WITH
  status   <- [r \in Runs |-> StatusOf(r)],
  snapshot <- [r \in Runs |-> IF workflows[r] = Nil THEN NoRun ELSE Deep(workflows[r]).product],
  current  <- [p \in Catalogue |-> product[products[p]]]

LEMMA PromisedIs ==
  /\ MemoryImplementsLifecycle => Promised!Spec
  /\ Promised!ShowsCompletedRun => Lifecycle!ShowsCompletedRun
  /\ Promised!OwnSnapshot => Lifecycle!OwnSnapshot
BY PTL
   DEF MemoryImplementsLifecycle, Lifecycle!Spec, Promised!Spec, Lifecycle!Init, Promised!Init,
       Lifecycle!Next, Promised!Next, Lifecycle!vars, Promised!vars, Lifecycle!Open,
       Promised!Open, Lifecycle!Complete, Promised!Complete, Lifecycle!Fail, Promised!Fail,
       Lifecycle!NotCreated, Promised!NotCreated, Lifecycle!InProgress, Promised!InProgress,
       Lifecycle!Completed, Promised!Completed, Lifecycle!Failed, Promised!Failed,
       Lifecycle!ShowsCompletedRun, Promised!ShowsCompletedRun, Lifecycle!OwnSnapshot,
       Promised!OwnSnapshot

(* Followed through its pointers, a document always shows the claims of a
   completed run of its product once there is one, and the snapshot of a
   completed run is its own, although runs of one product share the document
   and a worker writes claims in objects before it calls the store. *)
THEOREM StoredResultsStay ==
  Spec => [](Lifecycle!ShowsCompletedRun /\ Lifecycle!OwnSnapshot)
BY MemoryRefinesLifecycle, PromisedIs, Promised!DocumentsShowCompletedRuns,
   Promised!SnapshotsAreOwn, PTL

===============================================================================
