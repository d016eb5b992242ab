# Verification of the claim identification service

TLA+ models of the Go service in this repository, the TLC configurations that
check them on small instances, and TLAPS proofs of the properties that matter
most. Paths below are relative to the repository's root (`src/` in
`PROJECT.json`, which maps every definition to the lines it models).

## 1. The system

`POST /products/{id}/claims/identify` opens a *run* (a workflow row) and answers
202; a pool of workers fetches the product, detects the claims in its copy,
and completes the run, which publishes the claims in the product document.
`GET` endpoints show the row and the document.

| Part | State | Operations | Talks to |
|---|---|---|---|
| `internal/model/workflow.go` run states | status, steps, error | `CanTransitionTo`, `RecordStep`, `Clone` | used by engine and stores |
| `internal/workflow` engine | channel `jobs`, flag `closed` under an RWMutex, one run in the hands of each worker | `Trigger`, `enqueue`, `process` (with `recover`), `fail`, `Start`, `Shutdown` | store, detector |
| `internal/store/memory` (default) | rows and documents under one mutex | create, complete, fail, reads | engine, handlers, seed |
| `internal/store/postgres` | tables `workflows`, `products`, `claims`; a pool of connections | the same, as statements and transactions | PostgreSQL |
| `cmd/server` process | the process's life, one signal context, one grace period | open, seed, serve, two shutdowns, exit | everything |
| `internal/seed` | none | test for a stored product, then upsert | store |
| `internal/httpapi` | none | identify, status, product | engine, store |
| `internal/claims` detector | none (a pure function) | `scanFields`, `scanText`, `isNegated`, `resolveOverlaps`, `structuredClaims`, deduplication | engine |
| `internal/config`, `internal/uid`, `cmd/genmedia` | none | environment, random ids, sample images | |

What is hard, and what makes each part correct (`PROJECT.json` "hazards" has the
lines):

* **Engine.** Requests, workers and Shutdown interleave around one channel and
  one lock. A send on the closed channel would panic; a full queue rejects a run
  whose row exists already; a worker fails a run whose completion may have taken
  effect with its answer lost; a deadline can pass between any two steps; a panic
  ends a run in any of its steps. A run must have one owner, a closed row must be
  final, its audit trail must match its outcome, refused requests must publish
  nothing, accepted runs must end, and Shutdown must neither hang nor lie.
* **Stores.** A run's status, its snapshot, the document and the claims table
  change together or not at all, while another run of the product completes. The
  in-memory store shares its process with everyone it hands objects to: what a
  worker writes before it calls the store, or a handler encodes after the lock is
  released, must not be the store's own.
* **Process.** A shutdown that takes too long, a crash, a restart that seeds the
  catalogue again: what was completed must survive in a store that is durable,
  and a clean exit must leave no run open.
* **Detector.** The answer depends on orders: of fields, of matches, of the
  negation test and the overlap resolution. A claim must be reported once, from
  the best field that makes it, nothing may be lost, and a match may be dropped
  only for one reported in its place. Negation is looked for in a window of bytes that may
  begin anywhere, inside a word or a rune included.

## 2. The modules

| Module | Models | How it corresponds to the code |
|---|---|---|
| `WorkflowStates` | `model/workflow.go` | `Statuses`, `CanTransitionTo`, `RecordStep`, as in the code |
| `RunLifecycle` | the abstract specification | a run is opened, completed (publishing everything at once) or failed (publishing nothing) |
| `Store` | `store.Store` over `memory.go` | rows and documents; one operator per operation, one step each because of the mutex |
| `MemoryStore` | `memory.go`, the `Clone` methods, and who uses what they return: `engine.go`, `handleStatus`, `handleGetProduct` | objects have addresses; `workflow` and `product` are the heap, `workflows` and `products` the maps of the store, `copy` and `reading` what workers and handlers hold |
| `Engine` | `engine.go`, `handleIdentify` | `request[r]`, `worker[w]` and `shutdown[c]` are program counters of the handler's goroutine, the workers and the callers of Shutdown; `jobs` and `closed` are the channel; the readers of the lock are the requests between `RLock` and `RUnlock`, and a waiting writer keeps new ones out |
| `EngineInvariant` | | the inductive invariant of the proofs |
| `PostgresStore` | `postgres.go` | `tx[c]` is the transaction of a connection and its next statement; row locks follow from where a transaction is; tables hold what is committed |
| `Service` (extends `Engine`) | `main.go`, `seed.go` | `process` is where `run()` is, `grace` whether the shutdown context lives; `Gone` is what the end of a process takes with it |
| `Overlaps` | `scanText`, `resolveOverlaps` | hits are spans with a rule; `ScanText` drops negated ones, `Resolve` looks at the next match in the code's sort order |
| `Detection` (extends `Overlaps`) | `Detect`, `scanFields`, `structuredClaims` | one action per turn of the loops of `Detect`: the fields are scanned with the actions of `Overlaps`, then the structured claims are added, then `Deduplicate` |
| `Negation` | `isNegated` | the bytes before a match, the window, and what the expression accepts in it |
| `MC*` | | constants for TLC |
| `*Proofs`, `EngineTheorems` | | theorems |

`Engine` and `PostgresStore` each implement `RunLifecycle` (`ImplementsLifecycle`),
and so do `Service` across crashes and restarts (`RestartsKeepLifecycle`) and the
in-memory store, seen through its pointers (`MemoryImplementsLifecycle`);
`Detection` implements `Overlaps` in every field.
`Engine` takes a store operation as one step that may fail, or take effect and
lose its answer; `PostgresStore` justifies that: seen from committed state its
transactions are single steps.

The data is abstracted to what the properties tell apart. A set of claims is
named by the run that detected it; a step is its name and whether it failed; an
error is the kind its text describes. In `Overlaps` the hits of the rules and
the negated starts are arbitrary, but that nothing precedes the first byte of a
text, and in `Detection` each hit has a dedupe key besides. In `Negation` the nine negators are one of a single byte. In
`MemoryStore` a product is whose claims it holds.

`HonoursContext` is the set of calls that give up when their context has ended:
none for the in-memory store, all for PostgreSQL. `engine` and `service` take all
but `GetWorkflow`, so that a run past its deadline is failed by its fetch or its
completion at any point, and the loss of a run whose row cannot be read, which is
the code's design, is set apart. The in-memory store is among them: a deadline is
nothing to it, so it does what the model does when no deadline passes. `faults`
has none, as its `Faults` let any call fail at any time.

Nondeterministic choices stand for: which goroutine runs next, whether a store
call fails or loses its answer (`Faults`), whether the deadline of a run has
passed (`Deadline`), whether a step panics (`Panic`: `uid` does in `Detect` when
the system's randomness fails, and copying a product may in the store's calls;
a panic in the first step has the effect of one in the second), whether the grace
period ends, and when the process is killed.

Definitions marked *Slip* are plausible mistakes in the code; each property is
checked to fail when its slip replaces the definition it is a slip of.

## 3. The runs

| Run | Question | Answer |
|---|---|---|
| `engine` | While only deadlines make calls fail: who owns a run, is the channel open for senders, what does nil from Shutdown mean, who is left open, does everything end, is a late run failed rather than completed? | `TypeOK`, `SingleOwner`, `NoSendOnClosedChannel`, `OrphansOnlyAtShutdown`, `NilMeansDrained`, `AcceptedRunsEnd`, `RequestsAreAnswered`, `ShutdownReturns`, `LateRunNeverCompletes`, `FailRecordsFailure` hold |
| `faults` | What may a store that fails or loses answers do to a run? | `Invariant`, `RefusedNeverRuns`, `AuditTrailMatchesOutcome`, `TerminalIsFinal`, `ImplementsLifecycle`, `DocumentsShowCompletedRuns` hold |
| `postgres` | Are transactions as good as single steps, and do they end? | `Invariant`, `ClaimsMatchDocument`, `ClosedRunsKeepResult`, `ImplementsLifecycle`, `TransactionsEnd` hold |
| `service` | What is left by a clean exit, by crashes and restarts, and does a signalled process end? | `CleanExitLeavesNoOpenRun`, `RestartsKeepLifecycle`, `SignalEndsProcess` hold |
| `detection` | Which matches become claims, which claims does a product get, and from which field? | `ClaimsDisjoint`, `OnlyDisplacedDropped`, `OneClaimPerKey`, `NothingLost`, `BestWordingKept` hold |
| `negation` | Where does a search of the window differ from a search of the text? | `MissedOnlyOutOfReach`, `MistakenOnlyForCutWord` hold |
| `memory` | Does anything written or read outside the store's lock reach the store or an answer? | `OpenRowsAsCreated`, `MemoryImplementsLifecycle`, `NothingChangesWhileEncoded` hold |

Five runs show the code disagreeing with what the repository says of it:

| Run | Said | Done |
|---|---|---|
| `refused` | every run has a timeout | a run refused during shutdown stays `IN_PROGRESS` (`engine.go:132`) |
| `panic_steps` | a failed run shows the step that failed | the recovery from a panic records no step (`engine.go:160`) |
| `service_drain` | in-flight runs are drained | the grace period (15 s by default) may end before a run (30 s) does; `run()` returns nil (`main.go:114`) |
| `overlaps_negated` | a claim preceded by "not" is discarded | in "Not clinically proven to cure diabetes" the outer match is dropped and "cure diabetes" is reported (`detector.go:131`) |
| `detection_longest` | the longest match wins | the leftmost does: in "100% authentic recipe", "100% authentic" is reported and the longer "authentic recipe" dropped (`detector.go:170`) |

`OnlyDisplacedDropped` and `LongestWins` are two readings of one sentence: the
first, which the code meets, is what its sort order makes of "longest" (the
leftmost match, and of those that start together the longest); the second is what
the comment says. Met while modelling, without a run of their own: a panic after
the run's deadline is not recorded when `GetWorkflow` honours contexts, because
the recovery reads the row with the run's own context (`engine.go:160`), although README says that a
panic is recorded as a failed run; the in-memory store ignores contexts, so a run
past `WORKFLOW_TIMEOUT` completes there (`LateRunNeverCompletes` needs
`"CompleteWorkflow" \in HonoursContext`). A negator that begins
more than 32 bytes before a match is not seen, and a word cut by the window whose
rest is a negator counts as one, as the end of "knot" before 29 further bytes
would ("not" is what is left of it): `Negation` says that these are the only
differences.

### Bounds

* *Engine*: two or three requests, one or two workers, a queue of one, one or two
  callers of Shutdown. Three requests fill a worker and the queue and have the
  third rejected, or one of them names a product that does not exist; two workers race for the channel; two callers reach the early
  return of Shutdown. Nothing in the engine counts beyond that. Workers are
  interchangeable; symmetry is used in `faults`, which checks safety only.
* *PostgresStore*: two connections, as every lock conflict is between two; two
  runs of one product and one of another, with two, one and no claims, so that
  the claims table has rows to delete, a half-inserted set and an empty set.
* *Service*: two runs, one worker, at most two restarts (`MaxRestarts`), a store
  that outlives the process and does not fail: one crash while a run is open, and a further one after the catalogue was seeded
  over its result.
* *Detection*: four bytes and two rules allow spans that nest, cross, touch and
  are equal; three hits, all choices of them in a title, are needed for a match
  that loses to one that itself overlaps another. Products with copy in every
  field have two bullets, so that one may be blank before another, over five
  texts. `overlaps_negated` needs three bytes after the
  first, before which nothing can stand; `detection_longest` is the instance of
  `detection`.
* *Negation*: a window of six bytes just holds a negator and two words; three
  bytes more put a negator, a word or a two-byte rune on or before its edge.
* *MemoryStore*: two runs of one product, whose objects could be confused, and one
  of another; two readers that hold objects at the same time. A run that
  panics and one that is rejected are among them.

A deadlock is an error in the engine's and the store's runs. It is allowed where
the system may stop for good: a process that has exited, a call of `Detect` that
has returned, a text that has ended.

### Fairness

Weak fairness of each request, each worker and each caller of Shutdown
(`Fairness`): they are goroutines, and the Go scheduler runs every goroutine
that can run. Nothing is assumed of deadlines, panics, faults, signals, the end
of the grace period or crashes; requests need not arrive. `Service` assumes the
same while the process runs. `PostgresStore` assumes strong fairness of each
connection's next statement: PostgreSQL grants a row lock to its waiters in
turn, so one that is free again and again is granted.

## 4. The proofs

All theorems are for arbitrary constants (sets of runs, workers, products and
connections of any size, any queue size, any faults, texts of any length), from
the named `ASSUME`s only: `NoRun` is not a run, sizes are natural numbers, each
detection finds some number of claims, texts are sets of spans. Theorems that
need more of a constant assume it in their statement.

* `RunLifecycleProofs`: `ShowsCompletedRun` and `OwnSnapshot` are inductive
  together with the type invariant. What implements `RunLifecycle` has them.
* `EngineProofs`: `TypeOK`, `SingleOwner` and `NoSendOnClosedChannel`.
  `SingleOwner` alone is not inductive: a worker that is busy must hold an
  accepted run, the queue must hold accepted runs (`RunsOwned`, `RunsQueued`),
  so that a request about to send holds a run nobody owns. Together: `Placed`.
  `NoSendOnClosedChannel` needs only the lock.
  Then the full `Invariant`: `RowsFit` says what the row of a run
  is from where the run is: open while it is queued or being loaded, fetched,
  detected or persisted; with a truthful trail when closed. The one place where
  a worker may hold a closed run is `fail()`, after a lost answer.
* `EngineTheorems`: `RefusedNeverRuns`, `AuditTrailMatchesOutcome`,
  `TerminalIsFinal` and `ImplementsLifecycle` from that invariant. For the
  refinement, `Invariant` supplies that a completing run is open, is of a known
  product, and carries its own claims.
* `PostgresProofs`: `Invariant` (`TxFits`, `LocksExclude`), `ClaimsMatchDocument`,
  `ClosedRunsKeepResult` and `ImplementsLifecycle`. The heart is that what a
  transaction has read, an open run and the claims it deletes, stays valid up to
  its commit because the others that could change it wait for its row locks.
* `EngineTheorems` further: `DocumentsShowCompletedRuns`, and that results are a
  run's own, through the refinement.
  `OrphansOnlyAtShutdown` and `NilMeansDrained` for a store without faults whose
  `GetWorkflow` ignores contexts, and at least one worker: an answered request's open run is
  somewhere (`AcceptedHaveRows`, `OpenRunsKept`), and a worker exits only when the
  channel is closed and empty (`ExitedAfterDrain`), so nil means that none is
  open (`NilAfterExit`). `LateRunNeverCompletes` for a store whose
  `CompleteWorkflow` honours contexts, whatever its faults, and `FailRecordsFailure` for one without faults.
* `DetectionProofs`, of a text: `ClaimsDisjoint` and `OnlyDisplacedDropped`. The invariant says
  that matches looked at precede those that are not (`Sorted`), and that a
  rejected one overlaps an accepted earlier one (`Beaten`). The reported matches
  are thereby determined by the hits.
* `DetectionProofs`, of a product: `DetectorScansTexts`, every step of `Detection` is one of
  `Overlaps` or none, so both theorems above hold of every field. `OneClaimPerKey`,
  `BestWordingKept` and `NothingLost` from an invariant that says, of the
  candidates, that each is what its field says, that their sources and starts
  ascend, and that every scanned match is among them or beaten; of the claims,
  that they are the first candidates of their keys so far.
* `ServiceProofs`: `RestartsKeepLifecycle` for any faults of the store. Either
  nothing was ever seeded (`Unseeded`), and then no request gets past its first
  step, or the engine's `Invariant` holds; `GoneRows` shows that what a process
  leaves behind when it ends satisfies it again (`RowsStand`), so the next one
  starts from it and its seeding changes nothing. `CleanExitLeavesNoOpenRun` for a
  store without faults whose `GetWorkflow` ignores contexts, and at least one worker: every open
  run that no earlier process abandoned belongs to the running one, and was refused
  only by an engine closed over its handler after the grace period (`Accounted`);
  the two shutdowns share that period and come in order (`Orderly`); the engine's
  own argument (`Undisturbed`), with the abandoned runs excused, does the rest.

* `MemoryStoreProofs`: `OpenRowsAsCreated`, `NothingChangesWhileEncoded` and
  `MemoryImplementsLifecycle`. None is inductive: that nobody writes to a stored
  row needs that a worker's copy is at `loaded` and its product at `fetched`
  (`CopyOf`), that the row of a run is `created` or `closed` from where its request
  and its worker are (`RowOf`), and what those objects hold (`ObjectsOf`). A step
  of a run writes to the objects of that run only (`WritesOwn`), a reader's step
  to that reader's (`WritesRead`), so everything else is kept (`OthersKept`). A
  document refers to its seed or to what a closed run published (`DocumentFits`):
  it changes hands only in the step that closes a run, which is `Complete` of
  `RunLifecycle`; all that workers write before is a stutter there.
* `NegationProofs`: `MissedOnlyOutOfReach` and `MistakenOnlyForCutWord`. A
  continuation byte follows a lead byte, so the window begins with a whole rune
  at its first byte or its second (`WindowStarts`); every word byte lies in a word
  with two ends (`InWord`), so the expression counts words as the text has them
  (`WordsCounted`). Both are invariants of a text that grows by runes (`Fits`),
  which takes the place of an induction over the text.

What implements `RunLifecycle` has its theorems: `EngineTheorems`,
`PostgresProofs`, `MemoryStoreProofs` and `ServiceProofs` instantiate
`RunLifecycleProofs` with their refinement mappings (`Promised`, `LivesPromised`)
and conclude that documents show completed runs and that results stay, at every
commit, through every pointer and across restarts.

Only model-checked: liveness (`AcceptedRunsEnd`, `RequestsAreAnswered`,
`ShutdownReturns`, `TransactionsEnd`, `SignalEndsProcess`), which is out of the
prover's reach. All other properties that the passing runs check are proved.

## 5. Not modelled

* Strings: the regular expressions of the catalogue (`rules.go`), `cleanValue`,
  `excerpt`, the normalisation in `dedupeKey`, `titleCase`, and what `isPlaceName`
  and `isLicenceNumber` accept. They are conversions without a state whose
  results are data here: hits, keys, accepted or rejected values.
* HTTP plumbing (routing, logging, request ids, CORS), the handlers that answer
  with constants or a ping, media URLs, the media generator, timestamps.
* Configuration: read once, before anything runs. Its values are constants; one
  that the code does not test, a `SHUTDOWN_TIMEOUT` of zero or less, is a grace
  period that ends at once, which `Service` allows.
* Connecting to PostgreSQL and migrating, which end before the first request and
  whose statements are all `IF NOT EXISTS`. `PostgresStore` starts with the tables
  they leave.
* An in-memory store across restarts: nothing is left of it, so a restart is the
  initial state.
* Several server processes on one database. Each would seed and run on its own;
  `PostgresStore` already allows any number of transactions on one run.
* How long a store call takes. `Shutdown` waits for the lock before it looks at
  its context (`engine.go:79`), so a slow call of a rejected request holds it up
  past the grace period; the liveness properties say only that it returns.
* A store whose `GetWorkflow` gives up after the deadline, in the properties about
  open runs: a worker that loads its row too late, or recovers from a panic too
  late, leaves the run open (`engine.go:166`, `engine.go:160`). `AcceptedRunsEnd`,
  `OrphansOnlyAtShutdown`, `NilMeansDrained` and `CleanExitLeavesNoOpenRun` are
  about a store that answers that call; the properties of `faults` hold of any.

## 6. Plan

Done, in this order: `WorkflowStates`, `RunLifecycle`, `Store`, `Engine` and its
proofs; `PostgresStore` and its proofs; `Service` and its proofs; `Overlaps` and its proofs;
`Detection` composed over `Overlaps`, and its proofs; `Negation` and its proofs;
`MemoryStore` and its proofs; the engine's theorems for stores without faults.

Left, most important first:

1. The engine's safety properties across restarts: `SingleOwner`,
   `RefusedNeverRuns` and `AuditTrailMatchesOutcome` as theorems of `ServiceSpec`,
   from the `Unseeded` or `Invariant` argument of `ServiceProofs`.
2. The negated starts of `Overlaps` taken from the text through `Negation`.
