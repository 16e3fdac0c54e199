------------------------------ MODULE Scheduler ------------------------------
(***************************************************************************)
(* EdgeProofState and EdgeStateStore                                       *)
(* (crates/edge-manager/src/scheduler.rs, priority_queue.rs): which worker *)
(* is busy with what for the one active proof, and the work that waits for *)
(* a worker.  Every operation runs under one mutex.  The operations that   *)
(* free a slot and then take work from the queue in the same critical      *)
(* section are two actions here, ApplyCompletion or SetNumSegments and     *)
(* TryDequeueWork; the module that composes them holds the mutex between   *)
(* the two.                                                                *)
(*                                                                         *)
(* active_proofs of a worker is split into sharded[w], its ShardedAppProve *)
(* marker (pushed first, by init_proof, and never pushed again) and        *)
(* jobs[w], the recursion work after it.                                   *)
(***************************************************************************)
EXTENDS ProofState, SequencesExt

CONSTANTS NumWorkers,         \* registered workers; their ids are 0..NumWorkers-1
          Role,               \* [Workers -> WorkerRole]
          MaxLeafProvers,     \* concurrent leaf proofs of a worker
          LeafPackThreshold   \* leaves assigned before packing stops

Workers == 0..(NumWorkers - 1)
RunsStarkProving(w) == Role[w] # "EvmDedicated"
RunsEvmProve(w) == Role[w] # "StarkOnly"
StarkWorkers == {w \in Workers : RunsStarkProving(w)}

\* What WorkerRegistry::ready_workers lets through: ids without gaps, the
\* workers that own shards first.
ASSUME WorkerAssumption ==
    /\ NumWorkers \in Nat \ {0}
    /\ Role \in [Workers -> {"Full", "StarkOnly", "EvmDedicated"}]
    /\ StarkWorkers # {}
    /\ \A w \in StarkWorkers : \A v \in Workers : v < w => v \in StarkWorkers
    /\ MaxLeafProvers \in Nat \ {0}
    /\ LeafPackThreshold \in Nat

VARIABLES entry,                 \* the store holds this proof
          active_proof_count,    \* [Workers -> Nat]
          sharded,               \* [Workers -> BOOLEAN], see above
          jobs,                  \* [Workers -> Seq of [step, layer]]
          completed_segments,    \* [Workers -> set of segments]
          pending,               \* the priority queue, in arrival order
          sched_segments,        \* the scheduler's own num_segments
          assigned_leaf_proofs,  \* leaves assigned so far
          sends                  \* assigned work handed to send_work_with_retry

bookVars == <<active_proof_count, sharded, jobs>>
schedulerVars == <<entry, bookVars, completed_segments, pending, sched_segments,
                   assigned_leaf_proofs, sends>>

\* init_proof: every STARK worker starts busy with its shard.
InitProof ==
    /\ entry = TRUE
    /\ active_proof_count = [w \in Workers |-> IF RunsStarkProving(w) THEN 1 ELSE 0]
    /\ sharded = [w \in Workers |-> RunsStarkProving(w)]
    /\ jobs = [w \in Workers |-> <<>>]
    /\ completed_segments = [w \in Workers |-> {}]
    /\ pending = <<>>
    /\ sched_segments = None
    /\ assigned_leaf_proofs = 0
    /\ sends = {}
-----------------------------------------------------------------------------
HasJob(w, step) == \E i \in DOMAIN jobs[w] : jobs[w][i].step = step

\* can_accept_work.  Leaves are placed by LeafCandidates instead.
CanAcceptWork(w, step) ==
    IF step = "EvmProve"
    THEN RunsEvmProve(w) /\ active_proof_count[w] = 0
    ELSE /\ RunsStarkProving(w)
         /\ ~HasJob(w, "EvmProve")
         /\ ~sharded[w]
         /\ active_proof_count[w] = 0

\* The key of find_best_worker_for_leaf: fewest proofs first, then workers on
\* the highest internal layer.
PackKey(w) ==
    LET first == Head(jobs[w])
        bias  == IF jobs[w] = <<>> THEN 1500
                 ELSE IF first.step = "InternalProve"
                      THEN IF first.layer < 100 THEN 1000 - 10 * first.layer ELSE 0
                 ELSE IF first.step = "LeafProve" THEN 2000 ELSE 1500
    IN  10000 * active_proof_count[w] + bias

\* Mutant: the shard marker is not looked at when a leaf is placed.
LeafCandidatesIgnoreShard ==
    LET packable == {w \in StarkWorkers : active_proof_count[w] < MaxLeafProvers}
    IN  IF assigned_leaf_proofs < LeafPackThreshold
        THEN {w \in packable : \A v \in packable : PackKey(w) <= PackKey(v)} ELSE {}

\* Mutant: packing goes on past the per-worker limit.
LeafCandidatesUnbounded ==
    LET packable == {w \in StarkWorkers : ~sharded[w]}
    IN  IF assigned_leaf_proofs < LeafPackThreshold
        THEN {w \in packable : \A v \in packable : PackKey(w) <= PackKey(v)}
        ELSE {w \in packable : active_proof_count[w] = 0}

\* find_best_worker_for_leaf, up to the choice of the first of several.
LeafCandidates ==
    LET free     == {w \in StarkWorkers : active_proof_count[w] = 0 /\ ~sharded[w]}
        packable == {w \in StarkWorkers :
                       active_proof_count[w] < MaxLeafProvers /\ ~sharded[w]}
    IN  IF free # {} THEN free
        ELSE IF assigned_leaf_proofs < LeafPackThreshold
        THEN {w \in packable : \A v \in packable : PackKey(w) <= PackKey(v)}
        ELSE {}

Candidates(step) ==
    IF step = "LeafProve" THEN LeafCandidates
    ELSE {w \in Workers : CanAcceptWork(w, step)}

\* The first of them in worker order takes the work; the caller sends it.
Assign(work) ==
    \E w \in Candidates(work.step) :
      /\ \A v \in Candidates(work.step) : w <= v
      /\ active_proof_count' = [active_proof_count EXCEPT ![w] = @ + 1]
      /\ jobs' = [jobs EXCEPT ![w] = Append(@, [step |-> work.step, layer |-> work.layer])]
      /\ assigned_leaf_proofs' = IF work.step = "LeafProve" THEN assigned_leaf_proofs + 1
                                 ELSE assigned_leaf_proofs
      /\ sends' = sends \cup {[worker |-> w, work |-> work, tries |-> 0, pc |-> "send"]}
      /\ UNCHANGED <<entry, sharded, completed_segments, sched_segments>>

NoWorker(work) ==
    /\ Candidates(work.step) = {}
    /\ UNCHANGED <<entry, bookVars, completed_segments, sched_segments,
                   assigned_leaf_proofs, sends>>

\* enqueue_or_assign.  Unknown proofs are ignored.
EnqueueOrAssign(work) ==
    IF ~entry THEN UNCHANGED schedulerVars
    ELSE \/ Assign(work) /\ UNCHANGED pending
         \/ NoWorker(work) /\ pending' = Append(pending, work)

\* PriorityWorkQueue: leaves, then internal proofs by layer (layers past the
\* tenth share the last queue), then the EVM step.
Priority(work) ==
    IF work.step = "LeafProve" THEN 0
    ELSE IF work.step = "InternalProve" THEN IF work.layer < 10 THEN 1 + work.layer ELSE 10
    ELSE 11

IsNextInQueue(i) ==
    \A j \in DOMAIN pending :
       \/ Priority(pending[i]) < Priority(pending[j])
       \/ Priority(pending[i]) = Priority(pending[j]) /\ i <= j

\* try_dequeue_work: pop one item; without a worker for it, requeue it behind
\* its class.
TryDequeueWork ==
    \/ pending = <<>> /\ UNCHANGED schedulerVars
    \/ \E i \in DOMAIN pending :
          /\ IsNextInQueue(i)
          /\ \/ Assign(pending[i]) /\ pending' = RemoveAt(pending, i)
             \/ /\ NoWorker(pending[i])
                /\ pending' = Append(RemoveAt(pending, i), pending[i])
-----------------------------------------------------------------------------
\* Segments w owns among n, as the round-robin count of
\* worker_completed_all_segments computes it.
ExpectedCount(w, n) == IF w < n THEN DivCeil(n - w, Cardinality(StarkWorkers)) ELSE 0

\* Mutant: the shard size is rounded down.
CompletedAllSegmentsFloor(w, done, n) ==
    /\ n # None
    /\ Cardinality({seg \in done : seg % Cardinality(StarkWorkers) = w})
         >= (n - w) \div Cardinality(StarkWorkers)

CompletedAllSegments(w, done, n) ==
    /\ n # None
    /\ Cardinality({seg \in done : seg % Cardinality(StarkWorkers) = w})
         >= ExpectedCount(w, n)

OneLess(n) == IF n = 0 THEN 0 ELSE n - 1   \* saturating_sub(1)

\* The first job of that step goes; none, if there is none.
WithoutFirst(s, step) ==
    {RemoveAt(s, i) : i \in {i \in DOMAIN s :
        s[i].step = step /\ \A j \in 1..(i - 1) : s[j].step # step}}

\* Whether apply_completion frees a slot, and so whether the live path goes on
\* to take work from the queue.
FreesSlot(w, r) ==
    CASE r.kind = "App" ->
           CompletedAllSegments(w, completed_segments[w] \cup {r.segment}, sched_segments)
      [] r.kind = "ExecuteE2" -> FALSE
      [] OTHER -> TRUE

CompleteApp(w, r) ==
    /\ completed_segments' = [completed_segments EXCEPT ![w] = @ \cup {r.segment}]
    /\ IF FreesSlot(w, r)
       THEN /\ active_proof_count' = [active_proof_count EXCEPT ![w] = OneLess(@)]
            /\ sharded' = [sharded EXCEPT ![w] = FALSE]
            /\ UNCHANGED jobs
       ELSE UNCHANGED bookVars

\* An error frees the oldest activity of the worker, whatever it was.
CompleteError(w) ==
    /\ UNCHANGED completed_segments
    /\ \/ /\ sharded[w] \/ jobs[w] # <<>>
          /\ active_proof_count' = [active_proof_count EXCEPT ![w] = OneLess(@)]
          /\ sharded' = [sharded EXCEPT ![w] = FALSE]
          /\ jobs' = IF sharded[w] THEN jobs ELSE [jobs EXCEPT ![w] = Tail(@)]
       \/ /\ ~sharded[w] /\ jobs[w] = <<>>
          /\ UNCHANGED bookVars

CompleteTree(w, r) ==
    /\ active_proof_count' = [active_proof_count EXCEPT ![w] = OneLess(@)]
    /\ \/ \E rest \in WithoutFirst(jobs[w], r.kind) : jobs' = [jobs EXCEPT ![w] = rest]
       \/ WithoutFirst(jobs[w], r.kind) = {} /\ UNCHANGED jobs
    /\ UNCHANGED <<sharded, completed_segments>>

\* Mutant: a tree result leaves its worker's slot taken.
ApplyCompletionForgetting(w, r) ==
    /\ entry
    /\ UNCHANGED <<entry, pending, sched_segments, assigned_leaf_proofs, sends>>
    /\ IF r.kind = "App" THEN CompleteApp(w, r)
       ELSE UNCHANGED <<bookVars, completed_segments>>

\* apply_completion, shared by worker_completed and worker_drained.
ApplyCompletion(w, r) ==
    /\ entry
    /\ UNCHANGED <<entry, pending, sched_segments, assigned_leaf_proofs, sends>>
    /\ CASE r.kind = "App"       -> CompleteApp(w, r)
         [] r.kind = "ExecuteE2" -> UNCHANGED <<bookVars, completed_segments>>
         [] r.kind = "Error"     -> CompleteError(w)
         [] OTHER                -> CompleteTree(w, r)

\* The workers set_num_segments releases: those with nothing left to prove.
DoneWithShard(n) ==
    {w \in Workers : active_proof_count[w] > 0 /\ CompletedAllSegments(w, completed_segments[w], n)}

SetNumSegments(n) ==
    /\ entry
    /\ sched_segments' = n
    /\ active_proof_count' =
          [w \in Workers |-> IF w \in DoneWithShard(n) THEN OneLess(active_proof_count[w])
                             ELSE active_proof_count[w]]
    /\ sharded' = [w \in Workers |-> sharded[w] /\ w \notin DoneWithShard(n)]
    /\ UNCHANGED <<entry, jobs, completed_segments, pending, assigned_leaf_proofs, sends>>

\* release_worker: the worker's books are wiped.
ReleaseWorker(w) ==
    /\ IF entry
       THEN /\ active_proof_count' = [active_proof_count EXCEPT ![w] = 0]
            /\ sharded' = [sharded EXCEPT ![w] = FALSE]
            /\ jobs' = [jobs EXCEPT ![w] = <<>>]
       ELSE UNCHANGED bookVars
    /\ UNCHANGED <<entry, completed_segments, pending, sched_segments, assigned_leaf_proofs>>

RemoveProof ==
    /\ entry' = FALSE
    /\ UNCHANGED <<bookVars, completed_segments, pending, sched_segments,
                   assigned_leaf_proofs>>

IsFullyDrained == entry => \A w \in Workers : active_proof_count[w] = 0
=============================================================================
