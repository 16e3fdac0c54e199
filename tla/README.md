# Axiom Edge: a TLA+ verification project

Axiom Edge proves one program execution at a time on a small fixed fleet. A
*manager* (`crates/edge-manager`) accepts a proof, hands each STARK *worker*
(`crates/edge-worker`) a shard of the execution's segments, and folds the
segment proofs into one proof through a recursion tree, whose work it schedules
on the same workers. This directory holds the TLA+ model of that system, the TLC
runs that check it, and the TLAPS proofs about it.

Paths below are relative to `src/crates/`.

## Inventory

### The parts and the state they keep

| Part | Source | State | Operations |
|---|---|---|---|
| Recursion tree | `edge-manager/src/proof_state/recursion.rs` | none | layer counts, slot of a segment, segment of a slot |
| ProofState | `edge-manager/src/proof_state/{state,result_handler}.rs` | status, segment count, app/leaf/internal/EVM proofs of one proof, under one mutex | handle each kind of result and return follow-up requests; seal, fail, finalize |
| Scheduler | `edge-manager/src/{scheduler,priority_queue}.rs` | per worker: active count, activities, finished segments; the queue; its own segment count. One mutex per proof | init, assign or queue, complete, drain, learn the segment count, release a worker, remove |
| Manager handlers | `edge-manager/src/handlers.rs` | the maps of proofs, scheduler entries and staged inputs; tasks | upload, start, receive a result, finalize, cancel, retry sends, watchdog, eviction |
| Worker registry | `edge-manager/src/worker_registry.rs` | workers by id, ids by URL | register, validate, ready workers |
| Persistence | `edge-manager/src/proof_state/persistence.rs` | files of final proofs | write, rename |
| Lifecycle reports | `edge-manager/src/lifecycle.rs` | none | post events with retries |
| Worker handlers | `edge-worker/src/{handlers,result_client}.rs` | requests under way | accept a shard or a recursion job, post results |
| Uploads and janitor | `edge-worker/src/handlers.rs` | input directories, the proofs in use | stage, mark, clean up, sweep |
| Prover pool | `edge-worker/src/prover_pool.rs` | threads, job channels, availability flags | submit, run, mark free, shut down |
| App prover | `edge-worker/src/provers/sharded_app_prover.rs` | snapshots, channels | execute, prove owned segments, stream, report ExecuteE2 |
| Provers, keys, codecs, config, telemetry | the rest | none of their own | library calls, parsing, reporting |

### How they interact

Workers register with the manager. A client stages its input with `upload_input`
and calls `start_proof`, which asks the registry for the complete set of workers,
admits one proof under a gate, creates its `ProofState` and scheduler entry (every
STARK worker busy with its shard), uploads the input to all workers and posts
`/sharded_app_prove` to all shard owners at once. A worker checks that the files
are there, marks the proof active and submits a job to its pool; the job's executor,
provers and sender stream the results, one post each, and worker 0 also posts
`ExecuteE2`, the only source of the segment count. Each post is a call of
`proof_result`: it handles the result under the `ProofState` mutex, releases it, and
then, with an await before each part, updates the scheduler, dispatches what that
freed, finalizes or drains the proof, and enqueues the follow-up requests. Assigned
work goes to a spawned `send_work_with_retry`, which pushes retained deferral inputs
just before the final internal request. The watchdog passes over all proofs every
30 seconds. There is no channel to cancel a worker's job: a failing proof is
`Failing` until its workers have drained or a TTL has run out, and then `Failed`.

### What is hard

In the manager: tasks interleave between awaits; two segment counts are set in two
critical sections; results come in any order; requests are delivered whose response
is lost; results are posted once and may be lost; timeouts, cancel, drain,
finalization, eviction and a `start_proof` still uploading race for the status and
for the slot of the single active proof; the manager may crash. In a worker:
threads behind flags that lag, a `Notify` without permits, consumers that wait for
a coordinator, bounded channels between threads that may each end early, and files
that uploads, jobs, cleanups and a janitor share. `PROJECT.json` lists each hazard
at its line.

### What makes each part correct

* Tree arithmetic: the loops are a geometric fold, and slots and segments are inverse.
* ProofState: whatever the order of results, each slot is requested once, only when
  its children exist, and the artifact that completes the proof covers every segment.
* Scheduler: the books agree with the work that is really under way; roles,
  isolation and packing limits hold; nothing stays in the queue for ever.
* Handlers: a terminal status is final; a completed proof is complete; a drained
  proof has idle workers; the one active slot is always given back.
* Admission and eviction: one active proof; a slot always has an owner; what is
  completed can be downloaded, where proofs are kept on disk.
* Registry: the workers of a proof are different, and shard owners have ids without gaps.
* Prover pool: no lost wakeup, no deadlock, every job at one place at a time and answered.
* App prover: snapshots fit, each segment once, the job always ends and implements a shard.
* Inputs: files are there when a job needs them, and are freed afterwards.
* Recursion requests: one message each, and a final artifact that has all its parts.

## Modules

| Module | Models | Extends |
|---|---|---|
| `RecursionTree` | `recursion.rs`, as operators | |
| `MCRecursionTree` | enumerates trees, with the reference definitions | `RecursionTree` |
| `RecursionLemmas` | lemmas about the arithmetic | `RecursionTree` |
| `RecursionProofs` | theorems about the arithmetic | `MCRecursionTree`, `RecursionLemmas` |
| `ProofState` | `ProofState`: its variables, `HandleProofResult(r)` (effect) and `Requests(r)` (follow-ups) | `RecursionTree` |
| `ProofTree` | `ProofState` with ideal workers that answer every request once | `ProofState` |
| `TreeProofs` | theorems about `ProofTree` | `ProofTree`, `RecursionLemmas` |
| `Scheduler` | `EdgeProofState`, `EdgeStateStore`, `PriorityWorkQueue` | `ProofState` |
| `Manager` | the tasks of `handlers.rs` for one admitted proof and the workers' posts | `Scheduler` |
| `MCManager` | role assignments for the runs | `Manager` |
| `ManagerProofs` | theorems about `Manager` | `Manager`; instance of `TreeProofs` |
| `WorkerRegistry` | `worker_registry.rs` | |
| `ProofLifecycle` | proofs from upload to eviction, with calls of `start_proof`, persistence and a crash | `WorkerRegistry` |
| `MCLifecycle` | a deployment for the runs | `ProofLifecycle` |
| `LifecycleProofs` | theorems about `ProofLifecycle` | `ProofLifecycle` |
| `ShardSpec` | abstract: what the manager relies on from one shard | |
| `AppProver` | one ShardedAppProve job, shown to implement `ShardSpec` | instance of `ShardSpec` |
| `AppProverProofs` | theorems about `AppProver` | `AppProver` |
| `ProverPool` | one class of provers of a worker | |
| `PoolProofs` | theorems about `ProverPool` | `ProverPool` |
| `WorkerInputs` | the input files of a worker | |
| `Worker` | the recursion requests of a worker over its files | `WorkerInputs` |
| `WorkerProofs` | theorems about `Worker` | `Worker` |

The manager is modelled at two grains. `Manager` follows one proof through every
await between its dispatch and its end; `ProofLifecycle` follows several proofs and
calls through admission, cancel, eviction and crash, and keeps of the proving
between kickoff and last result only that it ends in `Ready` or `Failing`. The
worker's side meets the manager's at `ShardSpec`: the worker steps `PostApp`,
`PostExecuteE2` and `PostShardError` of `Manager` are its steps, and `AppProver`
implements it.

Operators prefixed by a comment `Mutant:` are plausible bugs; each property of a
passing run is violated when one of them takes the place of the definition
below it (`PROJECT.json`, "mutants").

### From code to state

`Manager` and below:

* Proof bytes are reduced to presence. `app_proofs` is a set of segments,
  `leaf_proofs` a set of ranges, `internal_proofs` a set of layer and range.
  `compact_completed_state` drops bytes and keeps the map entries, so it changes
  nothing here.
* `active_proofs` of a worker is `sharded[w]` (its ShardedAppProve marker, always
  first and never pushed again) and `jobs[w]` (the rest, in order).
* A call of `proof_result` is a record in `handlers`; its `pc` is the await it is
  at: `segments` (set_num_segments), `drain` (drain_pending, mutex held),
  `complete` (worker_completed) or `late` (worker_drained), `dequeue` (mutex held),
  `sealed`, `finalize`, `remove`, `try` (try_finalize_failing_proof),
  `removeFailed`, `follow` (the follow-up loop).
* A task of `send_work_with_retry` is a record in `sends`; an accepted job is one in
  `running`. `copy` tells the jobs of a request that was delivered more than once
  apart.
* `starter`, `canceler` and `watchdog` are the pcs of `start_proof` from its dispatch
  on, of one `cancel_proof`, and of the watchdog.
* `quiet` says that `last_updated` is more than `FAILING_DRAIN_TTL` ago: time passes in
  one step, `MinutePasses`, and a handled result resets it.

`ProofLifecycle` and `WorkerRegistry`:

* `state[p]` is the status of `proof_states` (`Ready` is `InProgress` with the final
  artifact in place), `entries` the keys of the scheduler's `state_store`.
* `staged[p]` is what `staged_inputs` has: an upload, which carries `staged_at`, or the
  retained deferral inputs ("kept"), which do not.
* A call of `start_proof` is `calls[c]`; its `pc` is the await or the part it is at.
  `gate` to `init` is the critical section of the admission gate with its two inserts.
* `kind[p]` is the `proof_type` of the proof until it is over. `persists` says whether the
  configuration has a `persist_final_proofs_dir` (by default it has none); `disk[p]` is the
  set of types whose artifact is there, `{uuid}.proof.bin` and `{uuid}.evm.bin`.
  `download_proof(p)` is the answer of the handler of that name.
* `finalizing[p]` is the pc of `finalize_proof`; while it is `writing`, `renaming` or
  `publishing` (`Persisting`) the proof's lock is held. Without the directory it goes
  straight to `publishing`.
* `cancel_proof` of a proof in progress is two steps, status and removal (`canceling`);
  of any other proof it is the removal alone (`CancelNoStatus`).
* `completed` and `disturbed` are history: what has ever been `Completed`, and the proofs
  that met one of the coincidences of `Rare` since they were admitted.
* `old` says that `last_updated` is more than the five minutes of `should_evict` ago.
  Only the admission, handled results and `finalize_proof` refresh it.
* `register` is two steps, lookup and insert; one call per URL at a time.

Workers:

* `AppProver`: a snapshot is the number of the first segment it can start. `exec`, `pc` and
  `sender` are the threads and the task; a channel is alive as long as an owner of its
  other end is (`Receivers`, `ProveSenderAlive`, `ResultSenderAlive`).
* `ProverPool`: a submitting task scans the flags one thread at a time; `notified` is the
  state of its registered waiter. One class of provers stands for all: `app` says whether it is
  the app class, whose threads compare the loaded program with the job's, drop the one and
  build the other (`RunAppJob`, `BuildProver`, `WorkerLoadFails`), and `parallel` whether
  its jobs are parallel ones.
* `WorkerInputs`: a directory is the set of its files; `Tmp` is what an upload without
  space leaves. A run of the stale-input cleanup is the janitor's, or that of an upload that
  found no space. A directory may become old at any time: the caller may have pre-uploaded
  it (Flow 1 of `start_proof`) long before the kickoff, and may never start the proof
  (`started` are those it starts). `raced` is history: the kickoffs that came while a scan
  was past its last look at `active_uploaded_proofs` for that proof.
* `Worker`: what a request posted is a sequence of artifacts, reduced to whether they are
  merged, which Merkle proofs they carry, and the flag for the EVM step. `evm_prove` says
  whether the worker is built with that feature; without it a final internal request of an
  Evm proof ends `silent`.

### Where steps are coarser than the code

* `try_finalize_failing_proof` reads status and TTL, asks the scheduler and makes the
  transition in three short critical sections; here they are one step. Nothing leaves
  `Failing` except this transition, and a drained entry can only become busy again
  through a follow-up that was queued before the proof failed.
* Looking an entry up in the store and taking its mutex are one step. Removal takes
  no mutex, in the code and here, so an entry can go in the middle of a section.
* In `Manager` the just-in-time push of deferral inputs before a final internal request
  is part of the attempt: a failed push is the fault "send".
* The upload of one input to all workers, with its five attempts each, is one step
  that succeeds or fails.
* Task panics, and the server dropping a `proof_result` handler between result and
  follow-ups, are not modelled.

## Runs

Every passing run ends without error in less than five minutes on two cores. Deadlock
is not an error in any of them: a finished proof, job or worker stops.

| Run | Question | Instance |
|---|---|---|
| `MCRecursionTree` | is the arithmetic a fold, and are slots and segments inverse? | arities 2-5, up to 30 leaves |
| `MCTree` | does every order of results build the tree, once, and hand over to the EVM step? | 1-12 segments, leaf arity 2, internal arity 2 |
| `MCFull` | do books, queue and tree agree, and does the proof complete? | 2 full workers, 4 segments, 2 packed leaves, Evm |
| `MCLoss` | what survives lost results and requests, timeout and cancel? | 2 full workers, 2 segments, 2 faults |
| `MCError` | and failing shards and jobs, lost responses, failing persistence? | 2 STARK-only workers and a dedicated EVM worker, 1 segment, 2 faults, 2 attempts |
| `MCPool` | do tasks and threads find each other? | 2 threads, 2 single jobs or one parallel job, app provers swapped between 2 programs or fixed ones, shutdown |
| `MCApp` | does the pipeline implement a shard, and end? | 1-3 workers, 1-2 app provers, 1-6 segments, 2 faults |
| `MCWorker` | are files there when needed and gone afterwards, and is each request answered once? | 2 proofs, one with deferral, either one started and the other only uploaded, room for 3 files, with and without evm-prove |
| `MCLifecycle` | is the slot single and owned; can what is completed be downloaded? | 2 proofs of either type, 2 calls, 2 workers with any ids, 1 crash, with and without persistence |
| `MCSealedFails`, `MCJitRace`, `MCKeptLeak` | expected violations, see below | minimal instances |

Bounds. Trees: 9 to 12 segments with arities 2 and 2 give five and six leaves and three
internal layers, with a partial batch, a partial group and carried singletons; 1 and 2
segments give the wrapped single-layer tree. Manager: four segments on two workers
give two leaves that are packed or queued, internal layers and a queue behind the
EVM step; one segment on two shard owners leaves one without a segment of its own.
`FaultBudget` bounds the number of losses, errors and delivery failures; the timeout
and the single cancel are not counted. `AppProver`: six segments and three workers
let the snapshot schedule wrap and the channels fill (capacity 2, 4 and 4). `ProverPool`: two threads and two
tasks give every order of flag, channel and notification between a thread that frees
itself and a task that goes to sleep. `WorkerInputs`: three files of room are too few for the
inputs of both proofs and the deferral input, so that uploads fail and sweep in the late phases; in
the early ones the janitor runs the same sweep. `ProofLifecycle`: two calls on two uuids include two calls for one uuid, a
uuid that comes again, and a call of an earlier run that goes on in a later one.
Proofs, calls and the two proof types are symmetric there.

Three constants narrow an instance to what the properties are about, and are named
for it. `Faults` of `Manager` selects the faults. `Rare` of `ProofLifecycle` lets in
coincidences that can leave the slot without an owner: a step between two neighbouring
inserts, a `proof_result` dropped in the middle of `finalize_proof`, a timeout longer than
the ten hours after which any proof is evicted. A proof that met one is in `disturbed` until
its uuid is admitted again, and `SlotHasOwner` is about the others. The theorems of
`LifecycleProofs` hold for every `Rare`; the run has the last of the three, the one that
keeps the state space within its time. `Started` of `WorkerInputs` are the sets of proofs
the manager may start: one of the two in the run, the other is only pre-uploaded; the
safety theorems of `WorkerProofs` hold for all of them.

Fairness. `Manager`'s `Spec` gives weak fairness to `ManagerStep`: tokio runs every ready
task, the watchdog's interval fires, and the clock advances. It assumes nothing of
workers or clients, so `SlotEventuallyFreed` holds even if no worker ever
answers. `LiveSpec` adds weak fairness of `WorkerStep`, that workers finish what they
accepted, which `Completes` needs; its run has no faults. `AppProver`: some thread
goes on as long as one can without a fault. `ProverPool`: each thread and each task is
scheduled, and provers return; no failure and no shutdown has to happen. `Worker`: each
task of a worker goes on, the janitor's interval fires, time passes, and the manager's
own steps (its uploads) are taken.

### Properties

* `EachSlotRequestedOnce`, `RequestsAreBacked`, `FinalProofCoversAll`,
  `FinalFlagIsExact`, `BecomesReady` (`ProofTree`): the tree is built exactly once.
* `BooksMatchWork`, `WorkExistsOnce`, `WorkersNotOverloaded`, `Completes` (`Manager`):
  scheduling without faults. The books are compared with the sends, jobs and unaccounted
  results per worker and step. After the final artifact has arrived the last
  result is not accounted for and the entry is about to be removed, so the
  property ends there.
* `TreeNeedsSegments`: the tree is built only when its size is known. This is an
  agreement between two components: `ProofState` returns leaf requests before
  ExecuteE2, and only the scheduler's shard markers keep them from being run.
* `CompletedCoversAll`, `TerminalIsFinal`, `DrainedMeansIdle`, `SlotEventuallyFreed`: what
  failures must not break.
* `OneActiveProof`, `SlotHasOwner`, `ShardsCovered`, `CompletedIsDownloadable`
  (`ProofLifecycle`): the slot of the single active proof is given to one proof, is
  never orphaned, goes to a proof whose shards are whole, and ends in an artifact that
  stays and can be downloaded, if the deployment keeps artifacts.
* `NoLostWakeup`, `CoordinatorNotBehindConsumer`, `JobInOnePlace`, `EveryJobAnswered`
  (`ProverPool`). `JobInOnePlace` relates the task, the channels, the threads and the replies.
* `SnapshotsFit`, `SegmentInOnePlace`, `JobEnds`, and the refinement `ImplementsShard`
  (`AppProver`): the mapping takes the unposted owned segments for `unsent`, and
  the state of the spawned task and its error post for `shard`.
* `InputsHeld`, `Reclaimed`, `AnsweredOnce`, `FinalArtifactComplete`, `RequestAnswered`
  (`Worker`). `InputsHeld` excepts `raced`, `Reclaimed` the dropped kickoff, and
  `RequestAnswered` the build without evm-prove: the list below has all three.

### Where the code differs from what it says

1. `MCSealedFails`: `send_work_with_retry` fails an `InProgress` proof although its final
   artifact has arrived, where `mark_failing` would not (`state.rs:327`).
2. `MCJitRace`: the last app result is posted before the input directory is
   removed, so the just-in-time deferral input may be in it, against the comment in
   `cleanup_uploaded_input_dir` (`edge-worker/src/handlers.rs:635`).
3. `MCKeptLeak`: a cancel during the uploads of `start_proof` does not stop it, and it
   re-stages the deferral inputs without a time stamp; once the proof is evicted, the
   bytes have no `proof_states` entry and every sweep skips them, against `handlers.rs:1752`.

Also met while modelling. Properties except these cases by name, or instances stay
clear of them:

* The Error result that fails a proof is neither live nor late, so its worker's slot is
  never freed (`handlers.rs:1316`); a failing proof all of whose workers have
  reported waits for the TTL.
* When the retries of one packed leaf run out, `release_worker` (`handlers.rs:1996`) forgets
  another leaf of that worker that still runs; `DrainedMeansIdle` therefore holds with one
  leaf prover per worker (`MCLoss`) and fails with two. It also fails when a shard that posted an Error
  still posts a result, which frees the slot a second time.
* The drain TTL counts from the last handled result, not from the moment the proof
  begins to fail (`handlers.rs:1647`): a quiet proof that times out has no drain time.
* A request that is delivered twice runs twice, so `WorkersNotOverloaded` is for runs
  without lost responses.
* Two parallel app jobs submitted to one pool at once deadlock: the barrier of the one counts
  the busy threads of the other (`prover_pool.rs:1177`). With one active proof a
  worker gets one shard at a time, and `MCPool` has `NumParallel = 1`.
* Each of the three coincidences in `Rare` can leave the slot without an owner, and
  nothing but a restart of the manager repairs that (`disturbed` in `SlotHasOwner`).
* The stale-input cleanup looks at `active_uploaded_proofs` a last time and then removes the directory
  (`edge-worker/src/handlers.rs:706-711`): a kickoff in between, of inputs older than ten
  minutes, is marked and loses its files. It times out, or its prover reports that it
  cannot read them (`raced` in `InputsHeld`).
* A worker without the feature evm-prove (it is not a default one) accepts the final internal request
  of an Evm proof, proves it and posts neither result nor error
  (`edge-worker/src/handlers.rs:1178-1193`): the proof waits for its timeout
  (`silent` in `RequestAnswered`).
* A uuid that completed once as a STARK and once as an EVM proof has two artifacts, and
  `download_proof` refuses both (`handlers.rs:370`), as a test of it says.
* A kickoff whose handler is dropped while it waits for its files leaves its mark in
  `active_uploaded_proofs`, and its directory stays (`edge-worker/src/handlers.rs:809`).

## Proofs

All theorems hold for every value of the constants that satisfies the named
assumptions (`AritiesAssumption`, `ArityAssumption`, `TreeAssumption`, `WorkerAssumption`,
`ManagerAssumption`, `RegistryAssumption`, `LifecycleAssumption`, `PoolAssumption`,
`InputsAssumption`, `AppProverAssumption`), and of the hypothesis a theorem names.

`RecursionProofs`, for all arities above one and every number of leaves:

* `FoldIsGeometricHolds`: `Spec => []FoldIsGeometric`;
* `SlotsAndSegmentsAgreeHolds`: `Spec => []SlotsAndSegmentsAgree`.

They rest on `RecursionLemmas`. The loops of `recursion.rs` are recursive functions
there; `RecursionExists` shows that such a function exists and satisfies its equation, and
`StrongInduction` is by the least element of the set of counterexamples. The two facts that carry
the rest: nested rounding is one rounding (`DivCeilNested`, `ceil(ceil(n/a)/b) = ceil(n/(ab))`), so a layer's
size is `ceil(leaves / arity^(layer+1))`, and the number of layers is the
least exponent whose power of the arity reaches the leaves (`LayersAreLogarithm`).

`TreeProofs`, for all arities (leaf arity from one, internal arity from two), both proof types and
every segment count:

* `TreeTypesHold`: `Spec => []TypeOK`;
* `EachSlotRequestedOnceHolds`: `Spec => []EachSlotRequestedOnce`;
* `RequestsAreBackedHolds`: `Spec => []RequestsAreBacked`;
* `FinalProofCoversAllHolds`: `Spec => []FinalProofCoversAll`;
* `FinalFlagIsExactHolds`: `Spec => []FinalFlagIsExact`.

A slot of level `k` (segments are level -2, leaf proofs -1, internal layers 0, 1, ...) is an aligned range of
`Span(k)` segments, cut off at the end of the execution. The inductive invariant `TreeInv` says:
what is asked for are slots, no two the same (`AskedInv`); under every request all slots
of *all* lower levels have their proofs (`BackedInv`; the children alone would not do, since
`FinalProofCoversAll` is about the app proofs at the bottom); what is stored was asked for and is no
longer in flight (`StoredInv`); and while the segment count is unknown only whole slots are
asked for. The last part is what keeps ExecuteE2 apart from the others: the flush and
the tail trigger ask for partial slots only, which nobody can have asked for yet
(`FreshByCount`). A group completed by its last member cannot have been asked for before,
because that member was missing (`FreshByChild`). `GroupAsks` is the one lemma behind all
the places that ask: a complete group of children is a slot one level up, with
their range. `FinalFlagIsExact` needs the scheduler's order (`e2First`), the others do not.

`ManagerProofs`:

* `TypeCorrect`: `Spec => []TypeOK`;
* `TreeNeedsSegmentsHolds`: `Spec => []TreeNeedsSegments`;
* `TerminalIsFinalHolds`: `Spec => TerminalIsFinal`;
* `CompletedCoversAllHolds`: `Spec => []CompletedCoversAll`;
* `WorkExistsOnceHolds`: `Spec => []WorkExistsOnce` if `"ack" \notin Faults`;
* `WorkersNotOverloadedHolds`: `Spec => []WorkersNotOverloaded` if `Calm`, that is
  `Faults \cap {"send", "ack", "error"} = {}`;
* `DrainedMeansIdleHolds`: `Spec => []DrainedMeansIdle` if `Calm`;
* `BooksMatchWorkHolds`: `Spec => []BooksMatchWork` if `Undisturbed`, that is
  `Faults \subseteq {"persist"}`.

They stand on five inductive invariants, each proved with the help of those before it:
`IInv`, `KnownInv`, `OnceInv`, `CalmInv` and `BooksInv`. The first is `IInv == TypeOK /\ SegmentsFirst /\ PendingIsASequence`.
`TreeNeedsSegments` alone is not inductive: a job in flight could post a tree proof
at any time. `SegmentsFirst` says why it cannot. Call the proof `Safe` when its
segment count is known or it is no longer `InProgress`; `Safe` is stable. A tree result is stored
only by an unsealed proof, so a post that grows the tree in a `Safe` state
finds the count known. Hence it is enough that tree work is at a worker only in `Safe` states, that
a worker is free of its shard only then, and that an EVM request exists only then (it alone can go
to a worker that never had a shard). Each way to free a worker is covered:
the scheduler's count (set after ProofState's), a late result (the proof is
failing), `release_worker` (after the proof was marked failing, or on behalf of
work already in flight) and an Error (which fails the proof).

The proofs have one lemma per task, one step per action under it, and lemmas on
the scheduler's operations: what `Assign`, `EnqueueOrAssign` and `TryDequeueWork` may
place (`Places`), and what `Append` and `RemoveAt` do to the queue.

`KnownInv` carries the tree over. Call a slot known when a request for it is in a
follow-up, in the queue, on its way or at work (`Works`), or when its proof is stored. The known slots and the stored
proofs satisfy `TreeInv` of `TreeProofs`, read as a state of `ProofTree` through the
instance `Tree` (`TreeHolds`), although here results are lost, sent twice or late: what is lost is no longer
known, and a second copy changes nothing. So the lemmas of `TreeProofs` apply at
each result (`ResultGrows`): what it stores was known, and it asks for at most one slot, a new one
whose children are stored. No hypothesis on the faults is needed.

`OnceInv` says that each of the places holds a slot once and that no two places hold
the same one, a stored proof being a place too. A slot only moves on, and a new one was known nowhere
(`FreshKeys`). `WorkExistsOnce` is then a count of disjoint sets (`PlaceCounts`, `DisjointCount`). A lost
response leaves a request both at the worker and on its way again, hence the hypothesis;
TLC finds that violation with `Faults = {"ack"}`.

`CalmInv` is about the counts. `active_proof_count` of a worker is at least its shard marker
plus its load (requests, jobs and results not yet credited), and at most `MaxLeafProvers`
(`LoadInv`); a segment and the ExecuteE2 of a shard are posted and credited
once (`ShardsInv`, `E2Inv`), so a worker is free of its shard only when its last segment is
accounted for (`CompletedIsAll`, `OwnedCount`). Requests start only on workers with room, so
the load stays within the limit; that the EVM step is alone follows from the tree: when
its final internal proof is stored nothing else is open (`FinalIsLast` of `TreeProofs`, with
`OnceInv`). The inequality is what survives losses, cancels and timeouts. It does not survive
`release_worker` and the completion of an `Error`, which set a count to zero whatever the worker
still runs: where two leaves may be packed on a worker, TLC finds both properties
violated with `"send"` or with `"ack"`, and `DrainedMeansIdle` with `"error"`. (`MCLoss` may
have `"send"` because there a worker has one job at a time.)

`BooksInv` makes the inequality exact, step by step of the recursion, until the final artifact
arrives: for each worker and each step there are as many entries as there is load (`BookOf`). It needs that
a completion finds an entry of its step (`FirstOfStep`) and that a result's call is new: the
results under way are stored (`IsAnswer`) and what runs is not, by `OnceInv`. `UnderWay` says that until then the
proof is `InProgress`, so that no call is late or gives up. TLC refutes `BooksMatchWork` with any one
of `"send"`, `"lost"`, `"error"`, `"cancel"` and `"timeout"`, hence the hypothesis.

`LifecycleProofs`:

* `LifecycleTypes`: `Spec => []TypeOK`;
* `OneActiveProofHolds`: `Spec => []OneActiveProof`, for every `Rare`. The invariant
  `OneAdmission` adds that one call at most is between the two inserts of the admission, and
  that the slot is free then: an entry appears only at the second insert.
* `SlotHasOwnerHolds`: `Spec => []SlotHasOwner`, for every `Rare`. `SlotInv` adds that a proof
  between its two inserts is `InProgress` or `disturbed`, so that its entry is born with an
  owner. That a proof being persisted is `Ready` (`TypeOK`) makes what ends it also free it.
* `CompletedIsDownloadableHolds`: `Spec => []CompletedIsDownloadable`. `FilesInv` adds that
  a proof that is `publishing` has the artifact of its type already, if there is a directory
  for it; no step removes one, and what is added is of the type of the attempt.
* `ShardsCoveredHolds`: `Spec => []ShardsCovered`. `RegistryInv` relates the two maps of the
  registry and the calls between lookup and insert: an id may be overwritten by a racing
  call, but whoever is registered at an id is bound to that id, so no URL is at two ids;
  `ReadyIsWhole` then turns the cardinality test of `ready_workers` into a gapless prefix.

`PoolProofs`, for any number of threads, tasks and programs:

* `PoolTypesHold`: `Spec => []TypeOK`.
* `JobInOnePlaceHolds`: `Spec => []JobInOnePlace`. A job leaves its task only with the
  `try_send` that succeeds, its channel with the receive, its thread with the reply.
* `NoLostWakeupHolds`: `Spec => []NoLostWakeup`. A task that sleeps scanned every flag after it
  had registered as a waiter; `WakeupInv` says what each point of that scan builds up: every
  thread already scanned has work, or has still to notify before it waits for work,
  unless the waiter was notified already.
* `CoordinatorNotBehindConsumerHolds`: `Spec => []CoordinatorNotBehindConsumer` if
  `NumParallel <= 1`. With one parallel job every busy thread runs it, so a thread that has
  passed the counting barrier was counted (`BarrierCounts`, a pigeonhole on the threads), and the thread
  the coordinator is sent to is free. The hypothesis is needed: with two parallel jobs
  TLC finds the deadlock listed above.

`WorkerProofs`, for any number of proofs, files and requests:

* `WorkerTypesHold`: `Spec => []TypeOK`.
* `InputsHeldHolds`: `Spec => []InputsHeld`. `HeldInv` adds that whoever is past the check of its
  files is marked active, and that a scan about to remove the directory of a marked proof
  had its last look before the kickoff (`raced`). Nothing is assumed of the age of
  inputs or of the order of cleanup and tree. `MergeFindsInput` is no theorem: `MCJitRace` refutes it.
* `AnsweredOnceHolds` and `FinalArtifactCompleteHolds`: what a request has posted is
  determined by where its task is (`RequestInv`), whichever of its steps fail.

`AppProverProofs`, for any number of workers, provers, segments and any channel capacity:

* `AppProverTypesHold`: `Spec => []TypeOK`.
* `SnapshotsFitHolds`: `Spec => []SnapshotsFit`. `ScheduleInv` gives the deque in closed form:
  after each step of the executor it is the window `Deque(curr_idx)` of the schedule, so that
  the pop, the reuse and the push of the loop neither run dry nor use a snapshot past its segment.
* `SegmentInOnePlaceHolds`: `Spec => []SegmentInOnePlace`. `OnceInv` relates all places of a
  segment at once: not executed yet, in a channel, held by a prover, posted.
* `ImplementsShardHolds`: `Spec => ImplementsShard`, the refinement: every step of the pipeline is a
  step of `ShardSpec` or changes nothing there. `ShardInv` supplies what the end of a
  shard needs: a job that ends well has lost no segment (`NothingLost`), since a channel closes
  only when it is empty or its reader has failed (`Drained`).

Only model-checked: liveness (`BecomesReady`, `Completes`, `SlotEventuallyFreed`,
`EveryJobAnswered`, `JobEnds`, `Reclaimed`, `RequestAnswered`), because it rests on fairness. Every
invariant and every action property of a passing run is proved, some of them under the
hypotheses named above.

## Plan

Done: all parts of the table above with protocol state; the safety theorems of the tree,
of the manager and its scheduler, of the lifecycle and of the workers.

Left: a `proof_result` handler dropped between its result and its follow-ups, as one more
action of `Manager`.

## Not modelled

The provers, keys, artifacts, codecs and the Merkle content of deferrals
(library calls without protocol state); configuration, HTTP routing, telemetry and
metrics; the order of lifecycle events, which are posted by independent tasks and
which the repository promises nothing about; queries, which change no state (of downloads,
only which artifact they answer with); the debug snapshot of failed proofs; the examples, scripts and the fixture
converter. Of the builds of a worker, the one with mock-provers, which the
end-to-end tests use.
