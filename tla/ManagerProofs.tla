---------------------------- MODULE ManagerProofs ----------------------------
(***************************************************************************)
(* Proofs about Manager, for every number of workers and segments, every   *)
(* choice of roles, arities, retries and faults: its types, that the tree  *)
(* is built only once the segment count is known, that a terminal status   *)
(* is final, that a proof which completes covers every segment, that no    *)
(* slot of the tree is worked on twice unless a response is lost, that     *)
(* while no dispatch and no job fails the scheduler's counts keep workers  *)
(* within MaxLeafProvers and a drained count means an idle worker, and     *)
(* that the books match the work as long as nothing but the writing of the *)
(* final artifact can fail.                                                *)
(***************************************************************************)
EXTENDS Manager, FiniteSetTheorems, TLAPS

\* The inductive invariant.  Nothing is needed of the queue but that it is one.
PendingIsASequence == \E S : pending \in Seq(S)
IInv == TypeOK /\ SegmentsFirst /\ PendingIsASequence

Queued == {pending[i] : i \in DOMAIN pending}

\* What a scheduler step does that may put the works of Q on the queue or
\* assign one of them.
Places(Q) ==
    /\ UNCHANGED <<entry, sharded, completed_segments, sched_segments>>
    /\ active_proof_count' \in [Workers -> Nat]
    /\ assigned_leaf_proofs' \in Nat
    /\ PendingIsASequence'
    /\ \A i \in DOMAIN pending' : pending'[i] \in Q
    /\ \/ sends' = sends
       \/ Safe /\ \E w \in Workers : \E work \in Q :
            sends' = sends \cup {[worker |-> w, work |-> work, tries |-> 0, pc |-> "send"]}
-----------------------------------------------------------------------------
\* Only requests for the EVM step can be placed on a worker before a worker is
\* free of its shard, so whatever Assign places is placed safely.
LEMMA AssignIsSafe ==
    ASSUME IInv, NEW work, work.step = "EvmProve" => Safe, Assign(work)
    PROVE  /\ UNCHANGED <<entry, sharded, completed_segments, sched_segments>>
           /\ active_proof_count' \in [Workers -> Nat]
           /\ assigned_leaf_proofs' \in Nat
           /\ Safe
           /\ \E w \in Workers :
                sends' = sends \cup {[worker |-> w, work |-> work, tries |-> 0, pc |-> "send"]}
<1>1. PICK w \in Candidates(work.step) :
        /\ active_proof_count' = [active_proof_count EXCEPT ![w] = @ + 1]
        /\ assigned_leaf_proofs' = IF work.step = "LeafProve" THEN assigned_leaf_proofs + 1
                                   ELSE assigned_leaf_proofs
        /\ sends' = sends \cup {[worker |-> w, work |-> work, tries |-> 0, pc |-> "send"]}
        /\ UNCHANGED <<entry, sharded, completed_segments, sched_segments>>
  BY DEF Assign
<1>2. w \in Workers
  BY <1>1 DEF Candidates, LeafCandidates, StarkWorkers
<1>3. work.step # "EvmProve" => w \in StarkWorkers /\ ~sharded[w]
  BY <1>1 DEF Candidates, LeafCandidates, CanAcceptWork, StarkWorkers
<1>4. Safe
  BY <1>3 DEF IInv, SegmentsFirst
<1>. QED  BY <1>1, <1>2, <1>4 DEF IInv, TypeOK

\* Appending to the queue, and removing from it, keep it a sequence of works
\* that were there or came in.
LEMMA AppendToQueue ==
    ASSUME NEW s, NEW S, s \in Seq(S), NEW x
    PROVE  /\ Append(s, x) \in Seq(S \cup {x})
           /\ \A i \in DOMAIN Append(s, x) :
                Append(s, x)[i] \in {s[j] : j \in DOMAIN s} \cup {x}
<1>1. s \in Seq(S \cup {x})
  OBVIOUS
<1>2. Append(s, x) \in Seq(S \cup {x})
  BY <1>1
<1>3. ASSUME NEW i \in DOMAIN Append(s, x)
      PROVE  Append(s, x)[i] \in {s[j] : j \in DOMAIN s} \cup {x}
  BY <1>1, <1>3
<1>. QED  BY <1>2, <1>3

\* Popping an item leaves a sequence of items that were in the queue.
LEMMA RemoveFromQueue ==
    ASSUME NEW s, NEW S, s \in Seq(S), NEW k \in DOMAIN s
    PROVE  /\ RemoveAt(s, k) \in Seq(S)
           /\ \A i \in DOMAIN RemoveAt(s, k) :
                RemoveAt(s, k)[i] \in {s[j] : j \in DOMAIN s}
<1>. DEFINE a == SubSeq(s, 1, k - 1)
            b == SubSeq(s, k + 1, Len(s))
<1>1. a \in Seq(S) /\ Len(a) = k - 1 /\ \A i \in 1..(k - 1) : a[i] = s[i]
  OBVIOUS
<1>2. b \in Seq(S) /\ Len(b) = Len(s) - k /\ \A i \in 1..(Len(s) - k) : b[i] = s[k + i]
  OBVIOUS
<1>. k \in 1..Len(s) /\ Len(s) \in Nat
  OBVIOUS
<1>. HIDE DEF a, b
<1>3. a \o b \in Seq(S) /\ Len(a \o b) = Len(s) - 1
  BY <1>1, <1>2
<1>4. ASSUME NEW i \in DOMAIN (a \o b)
      PROVE  (a \o b)[i] \in {s[j] : j \in DOMAIN s}
  <2>1. i \in 1..(Len(s) - 1)
    BY <1>3
  <2>2. CASE i <= k - 1
    BY <2>1, <2>2, <1>1, <1>2
  <2>3. CASE i > k - 1
    <3>1. (a \o b)[i] = b[i - (k - 1)]
      BY <2>1, <2>3, <1>1, <1>2
    <3>2. i - (k - 1) \in 1..(Len(s) - k) /\ i + 1 \in DOMAIN s
      BY <2>1, <2>3
    <3>3. (a \o b)[i] = s[i + 1]
      <4>1. k + (i - (k - 1)) = i + 1
        BY <2>1
      <4>. QED  BY <4>1, <3>1, <3>2, <1>2
    <3>. QED  BY <3>2, <3>3
  <2>. QED  BY <2>1, <2>2, <2>3
<1>. QED  BY <1>3, <1>4 DEF RemoveAt, a, b

\* try_dequeue_work assigns or requeues an item of the queue and adds nothing.
LEMMA TryDequeueWorkPlaces ==
    ASSUME IInv, TryDequeueWork
    PROVE  Places(Queued)
<1>1. PICK S : pending \in Seq(S)
  BY DEF IInv, PendingIsASequence
<1>2. \A x \in Queued : x.step = "EvmProve" => Safe
  BY DEF IInv, SegmentsFirst, Queued
<1>3. CASE pending = <<>> /\ UNCHANGED schedulerVars
  BY <1>1, <1>3 DEF IInv, TypeOK, Places, Queued, PendingIsASequence, schedulerVars, bookVars
<1>4. CASE \E i \in DOMAIN pending : Assign(pending[i]) /\ pending' = RemoveAt(pending, i)
  <2>1. PICK i \in DOMAIN pending : Assign(pending[i]) /\ pending' = RemoveAt(pending, i)
    BY <1>4
  <2>2. pending[i] \in Queued
    BY DEF Queued
  <2>3. /\ pending' \in Seq(S)
        /\ \A j \in DOMAIN pending' : pending'[j] \in Queued
    BY <1>1, <2>1, RemoveFromQueue DEF Queued
  <2>4. /\ UNCHANGED <<entry, sharded, completed_segments, sched_segments>>
        /\ active_proof_count' \in [Workers -> Nat]
        /\ assigned_leaf_proofs' \in Nat
        /\ Safe
        /\ \E w \in Workers : sends' = sends \cup
              {[worker |-> w, work |-> pending[i], tries |-> 0, pc |-> "send"]}
    BY <1>2, <2>1, <2>2, AssignIsSafe
  <2>. QED  BY <2>2, <2>3, <2>4 DEF Places, PendingIsASequence
<1>5. CASE \E i \in DOMAIN pending :
             NoWorker(pending[i]) /\ pending' = Append(RemoveAt(pending, i), pending[i])
  <2>1. PICK i \in DOMAIN pending :
          NoWorker(pending[i]) /\ pending' = Append(RemoveAt(pending, i), pending[i])
    BY <1>5
  <2>. DEFINE rest == RemoveAt(pending, i)
  <2>2. rest \in Seq(S) /\ \A j \in DOMAIN rest : rest[j] \in Queued
    BY <1>1, RemoveFromQueue DEF Queued
  <2>. HIDE DEF rest
  <2>3. /\ Append(rest, pending[i]) \in Seq(S \cup {pending[i]})
        /\ \A j \in DOMAIN Append(rest, pending[i]) :
             Append(rest, pending[i])[j] \in {rest[k] : k \in DOMAIN rest} \cup {pending[i]}
    BY <2>2, AppendToQueue
  <2>4. \A j \in DOMAIN Append(rest, pending[i]) : Append(rest, pending[i])[j] \in Queued
    BY <2>2, <2>3 DEF Queued
  <2>5. pending' = Append(rest, pending[i])
    BY <2>1 DEF rest
  <2>. QED  BY <2>1, <2>3, <2>4, <2>5
            DEF Places, NoWorker, PendingIsASequence, IInv, TypeOK, bookVars
<1>. QED  BY <1>3, <1>4, <1>5 DEF TryDequeueWork

\* enqueue_or_assign assigns or queues the one item it is given.
LEMMA EnqueueOrAssignPlaces ==
    ASSUME IInv, NEW work, work.step = "EvmProve" => Safe, EnqueueOrAssign(work)
    PROVE  Places(Queued \cup {work})
<1>1. PICK S : pending \in Seq(S)
  BY DEF IInv, PendingIsASequence
<1>2. CASE UNCHANGED schedulerVars
  BY <1>1, <1>2 DEF IInv, TypeOK, Places, Queued, PendingIsASequence, schedulerVars, bookVars
<1>3. CASE Assign(work) /\ UNCHANGED pending
  <2>1. /\ UNCHANGED <<entry, sharded, completed_segments, sched_segments>>
        /\ active_proof_count' \in [Workers -> Nat]
        /\ assigned_leaf_proofs' \in Nat
        /\ Safe
        /\ \E w \in Workers :
              sends' = sends \cup {[worker |-> w, work |-> work, tries |-> 0, pc |-> "send"]}
    BY <1>3, AssignIsSafe
  <2>. QED  BY <1>1, <1>3, <2>1 DEF Places, Queued, PendingIsASequence
<1>4. CASE NoWorker(work) /\ pending' = Append(pending, work)
  <2>1. /\ pending' \in Seq(S \cup {work})
        /\ \A j \in DOMAIN pending' : pending'[j] \in Queued \cup {work}
    BY <1>1, <1>4, AppendToQueue DEF Queued
  <2>. QED  BY <1>4, <2>1 DEF Places, NoWorker, PendingIsASequence, IInv, TypeOK, bookVars
<1>. QED  BY <1>2, <1>3, <1>4 DEF EnqueueOrAssign

-----------------------------------------------------------------------------
\* The results workers post.
IsPosted(r) ==
    \/ r = ErrorResult
    \/ \E ok \in BOOLEAN : r = E2Result(NumSegments, ok)
    \/ \E seg \in 0..(NumSegments - 1) : r = AppResult(seg, TRUE)
    \/ \E work : r = TreeResult(work, TRUE) /\ work.step \in Steps /\ Safe

\* Follow-ups are recursion work, and the EVM step is asked for only by the
\* final internal proof, which there is only once the segment count is known.
LEMMA FollowUps ==
    ASSUME NEW r, NEW x \in Requests(r)
    PROVE  x.step \in Steps /\ (x.step = "EvmProve" => num_segments # None)
<1>1. ASSUME NEW n, x \in ExecuteE2Requests(n) PROVE x.step \in {"LeafProve", "InternalProve"}
  <2>1. CASE x \in FlushPendingLeafBatches(n)
    BY <2>1 DEF FlushPendingLeafBatches, LeafRequest
  <2>2. CASE \E layer : x \in TailRequests(n, layer)
    BY <2>2 DEF TailRequests, InternalRequest
  <2>. QED  BY <1>1, <2>1, <2>2 DEF ExecuteE2Requests, TriggerTailProofs
<1>2. ASSUME NEW seg, x \in AppRequests(seg) PROVE x.step = "LeafProve"
  BY <1>2 DEF AppRequests, LeafRequest
<1>3. ASSUME NEW leaf, x \in LeafRequests(leaf) PROVE x.step = "InternalProve"
  BY <1>3 DEF LeafRequests, InternalRequest
<1>4. ASSUME NEW p, x \in InternalRequests(p)
      PROVE  x.step = "InternalProve" \/ (x.step = "EvmProve" /\ num_segments # None)
  <2>1. CASE x \in ParentRequests(p)
    BY <2>1 DEF ParentRequests, InternalRequest
  <2>2. CASE x \notin ParentRequests(p)
    BY <1>4, <2>2 DEF InternalRequests, InternalRequest, EvmRequest
  <2>. QED  BY <2>1, <2>2
<1>. QED  BY <1>1, <1>2, <1>3, <1>4 DEF Requests, Steps

\* The proof's own state: handling a result keeps its types, keeps what is Safe
\* so, and grows the tree only if it is.
LEMMA HandlingAResult ==
    ASSUME IInv, NEW r, IsPosted(r), HandleProofResult(r)
    PROVE  /\ status' \in Statuses
           /\ num_segments' \in {None, NumSegments}
           /\ app_proofs' \subseteq 0..(NumSegments - 1)
           /\ evm_proof' \in BOOLEAN
           /\ TreeNeedsSegments'
           /\ Safe => Safe'
           /\ ~IsSealedForResults /\ r.kind \in {"Error", "ExecuteE2"} => Safe'
<1>. USE ManagerAssumption DEF Safe, TreeNeedsSegments, None, Statuses
<1>1. CASE IsSealedForResults
  BY <1>1 DEF HandleProofResult, proofVars, IInv, TypeOK, SegmentsFirst
<1>2. CASE ~IsSealedForResults /\ ~r.ok
  BY <1>2 DEF HandleProofResult, Fail, treeVars, IInv, TypeOK, SegmentsFirst
<1>3. CASE ~IsSealedForResults /\ r.ok
  <2>0. ~(status # "InProgress")
    BY <1>3 DEF IsSealedForResults
  <2>1. CASE \E ok \in BOOLEAN : r = E2Result(NumSegments, ok)
    BY <1>3, <2>1 DEF HandleProofResult, E2Result, HandleExecuteE2Result, Fail, treeVars,
                      IInv, TypeOK, SegmentsFirst
  <2>2. CASE \E seg \in 0..(NumSegments - 1) : r = AppResult(seg, TRUE)
    BY <1>3, <2>2 DEF HandleProofResult, AppResult, HandleAppResult,
                      IInv, TypeOK, SegmentsFirst
  <2>3. ASSUME NEW work, r = TreeResult(work, TRUE), work.step \in Steps, Safe
        PROVE  /\ status' \in Statuses
               /\ num_segments' = num_segments
               /\ app_proofs' = app_proofs
               /\ evm_proof' \in BOOLEAN
               /\ num_segments # None
    <3>1. num_segments # None
      BY <2>0, <2>3
    <3>2. CASE r.kind = "LeafProve"
      BY <1>3, <2>3, <3>1, <3>2 DEF HandleProofResult, TreeResult, HandleLeafResult, IInv, TypeOK
    <3>3. CASE r.kind = "InternalProve"
      BY <1>3, <2>3, <3>1, <3>3 DEF HandleProofResult, TreeResult, HandleInternalResult,
                                    IInv, TypeOK
    <3>4. CASE r.kind = "EvmProve"
      BY <1>3, <2>3, <3>1, <3>4 DEF HandleProofResult, TreeResult, HandleHalo2Result, Fail,
                                    treeVars, IInv, TypeOK
    <3>. QED  BY <2>3, <3>2, <3>3, <3>4 DEF Steps, TreeResult
  <2>4. CASE \E work : r = TreeResult(work, TRUE) /\ work.step \in Steps /\ Safe
    BY <2>3, <2>4 DEF TreeResult, Steps, IInv, TypeOK
  <2>5. r # ErrorResult
    BY <1>3 DEF ErrorResult
  <2>. QED  BY ONLY IsPosted(r), <2>1, <2>2, <2>4, <2>5 DEF IsPosted, Safe
<1>. QED  BY <1>1, <1>2, <1>3

\* proof_result up to the release of the ProofState lock, whoever posts.
LEMMA Arrival ==
    ASSUME IInv, NEW w \in Workers, NEW work, NEW copy, NEW r, IsPosted(r),
           ProofResult(w, work, copy, r),
           running' \subseteq running,
           e2Unsent' \in BOOLEAN,
           shard' \in [StarkWorkers -> {"idle", "proving", "failed"}],
           unsent' \in [StarkWorkers -> SUBSET (0..(NumSegments - 1))]
    PROVE  IInv'
<1>1. /\ HandleProofResult(r)
      /\ UNCHANGED <<schedulerVars, taskVars>>
  BY DEF ProofResult
<1>2. /\ status' \in Statuses
      /\ num_segments' \in {None, NumSegments}
      /\ app_proofs' \subseteq 0..(NumSegments - 1)
      /\ evm_proof' \in BOOLEAN
      /\ TreeNeedsSegments'
      /\ Safe => Safe'
      /\ ~IsSealedForResults /\ r.kind \in {"Error", "ExecuteE2"} => Safe'
  BY <1>1, HandlingAResult
<1>3. quiet' \in BOOLEAN
  BY DEF ProofResult, IInv, TypeOK
<1>4. ASSUME NEW h \in handlers', h \notin handlers
      PROVE  /\ DOMAIN h = {"worker", "work", "copy", "res", "sealed", "pc", "todo"}
             /\ h.worker \in Workers /\ h.pc \in Pcs
             /\ h.pc = "segments" => h.res.count = NumSegments
             /\ \A x \in h.todo : x.step \in Steps /\ (x.step = "EvmProve" => Safe')
             /\ h.res.kind = "Error" \/ h.pc \in {"segments", "late"} => Safe'
  <2>1. CASE IsSealedForResults
    <3>1. /\ h = [worker |-> w, work |-> work, copy |-> copy, res |-> r,
                  sealed |-> IsSealedForResults', pc |-> "late", todo |-> {}]
          /\ status = "Failing"
      BY <1>4, <2>1 DEF ProofResult
    <3>. QED  BY <3>1, <1>2 DEF Pcs, Safe
  <2>2. CASE ~IsSealedForResults
    <3>1. PICK pc \in {"segments", "sealed", "complete"} :
            /\ h = [worker |-> w, work |-> work, copy |-> copy, res |-> r,
                    sealed |-> IsSealedForResults', pc |-> pc, todo |-> Requests(r)]
            /\ pc = "segments" => r.kind = "ExecuteE2"
      BY <1>4, <2>2 DEF ProofResult
    <3>2. r.kind = "ExecuteE2" => r.count = NumSegments
      BY DEF IsPosted, ErrorResult, E2Result, AppResult, TreeResult, Steps
    <3>3. num_segments # None => Safe'
      BY <1>2 DEF Safe
    <3>4. \A x \in Requests(r) : x.step \in Steps /\ (x.step = "EvmProve" => Safe')
      BY <3>3, FollowUps
    <3>. QED  BY <3>1, <3>2, <3>4, <1>2, <2>2 DEF Pcs
  <2>. QED  BY <2>1, <2>2
<1>5. TypeOK'
  BY <1>1, <1>2, <1>3, <1>4 DEF IInv, TypeOK, schedulerVars, bookVars, taskVars
<1>6. SegmentsFirst'
  BY <1>1, <1>2, <1>4 DEF IInv, SegmentsFirst, schedulerVars, bookVars, taskVars
<1>7. PendingIsASequence'
  BY <1>1 DEF IInv, PendingIsASequence, schedulerVars
<1>. QED  BY <1>5, <1>6, <1>7 DEF IInv

\* A step that leaves the proof, the workers and the tasks alone, and places
\* works of Q, on behalf of a handler.
LEMMA Placing ==
    ASSUME IInv, NEW Q, Places(Q),
           \A x \in Q : x.step \in Steps /\ (x.step = "EvmProve" => Safe),
           UNCHANGED <<proofVars, workerVars, taskVars, quiet>>,
           \A g \in handlers' \ handlers :
              /\ DOMAIN g = {"worker", "work", "copy", "res", "sealed", "pc", "todo"}
              /\ g.worker \in Workers /\ g.pc \in Pcs
              /\ g.pc \notin {"segments", "late"}
              /\ \A x \in g.todo : x.step \in Steps /\ (x.step = "EvmProve" => Safe)
              /\ g.res.kind = "Error" => Safe
    PROVE  IInv'
<1>1. Safe' <=> Safe
  BY DEF Safe, proofVars
<1>2. \A s \in sends' \ sends : /\ DOMAIN s = {"worker", "work", "tries", "pc"}
                                /\ s.worker \in Workers /\ s.work.step \in Steps
                                /\ s.tries = 0 /\ s.pc = "send" /\ Safe
  BY DEF Places
<1>3. TypeOK'
  BY <1>2, ManagerAssumption
     DEF IInv, TypeOK, Places, proofVars, workerVars, taskVars
<1>4. SegmentsFirst'
  BY <1>1, <1>2
     DEF IInv, SegmentsFirst, TreeNeedsSegments, Places, proofVars, workerVars, taskVars
<1>. QED  BY <1>3, <1>4 DEF IInv, Places

-----------------------------------------------------------------------------
\* The workers that own shards are registered workers.
LEMMA StarkWorkersAreWorkers == StarkWorkers \subseteq Workers
  BY DEF StarkWorkers

\* Worker 0, which reports ExecuteE2, owns a shard: ready_workers lets only
\* deployments through whose shard owners come first.
LEMMA WorkerZero == 0 \in Workers /\ 0 \in StarkWorkers
<1>1. Workers \subseteq Nat /\ 0 \in Workers
  BY WorkerAssumption DEF Workers
<1>2. PICK w \in StarkWorkers : TRUE
  BY WorkerAssumption
<1>3. CASE w = 0
  BY <1>1, <1>3
<1>4. CASE w # 0
  BY <1>1, <1>2, <1>4, WorkerAssumption, StarkWorkersAreWorkers
<1>. QED  BY <1>1, <1>3, <1>4

\* The state in which start_proof begins to dispatch satisfies the invariant.
LEMMA InitEstablishes == Init => IInv
<1>. SUFFICES ASSUME Init PROVE IInv
  OBVIOUS
<1>. USE DEF Init, NewProofState, InitProof
<1>1. TypeOK
  <2>1. \A w \in StarkWorkers : Owned(w) \subseteq 0..(NumSegments - 1)
    BY DEF Owned
  <2>2. unsent \in [StarkWorkers -> SUBSET (0..(NumSegments - 1))]
    BY <2>1
  <2>3. DOMAIN pending = {}
    OBVIOUS
  <2>4. sharded \in [Workers -> BOOLEAN]
    BY DEF RunsStarkProving
  <2>. QED  BY <2>2, <2>3, <2>4, ManagerAssumption DEF TypeOK, Statuses
<1>2. SegmentsFirst
  BY StarkWorkersAreWorkers DEF SegmentsFirst, TreeNeedsSegments, StarkWorkers
<1>3. PendingIsASequence
  <2>1. pending \in Seq({})
    OBVIOUS
  <2>. QED  BY <2>1 DEF PendingIsASequence
<1>. QED  BY <1>1, <1>2, <1>3 DEF IInv

\* A worker's post keeps the invariant: an Error or ExecuteE2 makes the proof
\* Safe, and tree results come only from jobs that were placed when it was.
LEMMA WorkerStepPreserves == IInv /\ WorkerStep => IInv'
<1>. SUFFICES ASSUME IInv, WorkerStep PROVE IInv'
  OBVIOUS
<1>. USE StarkWorkersAreWorkers, WorkerZero
<1>1. ASSUME NEW w \in StarkWorkers, NEW seg \in unsent[w], PostApp(w, seg) PROVE IInv'
  <2>1. seg \in 0..(NumSegments - 1) /\ unsent' \in [StarkWorkers -> SUBSET (0..(NumSegments - 1))]
    BY <1>1 DEF PostApp, IInv, TypeOK
  <2>2. IsPosted(AppResult(seg, TRUE))
    BY <2>1 DEF IsPosted
  <2>3. ProofResult(w, ShardJob, 0, AppResult(seg, TRUE)) /\ UNCHANGED <<running, shard, e2Unsent>>
    BY <1>1 DEF PostApp
  <2>. QED  BY <2>1, <2>2, <2>3, Arrival DEF IInv, TypeOK
<1>2. ASSUME NEW ok \in BOOLEAN, PostExecuteE2(ok) PROVE IInv'
  <2>1. IsPosted(E2Result(NumSegments, ok))
    BY DEF IsPosted
  <2>2. /\ ProofResult(0, ShardJob, 0, E2Result(NumSegments, ok))
        /\ e2Unsent' = FALSE /\ UNCHANGED <<running, shard, unsent>>
    BY <1>2 DEF PostExecuteE2
  <2>. QED  BY <2>1, <2>2, Arrival DEF IInv, TypeOK
<1>3. ASSUME NEW job \in running, PostTree(job) PROVE IInv'
  <2>1. job.worker \in Workers /\ job.work.step \in Steps /\ Safe
    BY DEF IInv, TypeOK, SegmentsFirst
  <2>2. IsPosted(TreeResult(job.work, TRUE))
    BY <2>1 DEF IsPosted
  <2>3. /\ ProofResult(job.worker, job.work, job.copy, TreeResult(job.work, TRUE))
        /\ running' = running \ {job} /\ UNCHANGED <<shard, unsent, e2Unsent>>
    BY <1>3 DEF PostTree
  <2>. QED  BY <2>1, <2>2, <2>3, Arrival DEF IInv, TypeOK
<1>4. ASSUME NEW job \in running, PostTreeError(job) PROVE IInv'
  <2>1. job.worker \in Workers
    BY DEF IInv, TypeOK
  <2>2. IsPosted(ErrorResult)
    BY DEF IsPosted
  <2>3. /\ ProofResult(job.worker, job.work, job.copy, ErrorResult)
        /\ running' = running \ {job} /\ UNCHANGED <<shard, unsent, e2Unsent>>
    BY <1>4 DEF PostTreeError
  <2>. QED  BY <2>1, <2>2, <2>3, Arrival DEF IInv, TypeOK
<1>5. ASSUME NEW w \in StarkWorkers, NEW queued \in SUBSET unsent[w], NEW e2Queued \in BOOLEAN,
             PostShardError(w, queued, e2Queued)
      PROVE  IInv'
  <2>1. IsPosted(ErrorResult)
    BY DEF IsPosted
  <2>2. /\ ProofResult(w, ShardJob, 0, ErrorResult)
        /\ running' = running /\ e2Unsent' = e2Queued
    BY <1>5 DEF PostShardError
  <2>3. /\ shard' \in [StarkWorkers -> {"idle", "proving", "failed"}]
        /\ unsent' \in [StarkWorkers -> SUBSET (0..(NumSegments - 1))]
    BY <1>5 DEF PostShardError, IInv, TypeOK
  <2>. QED  BY <2>1, <2>2, <2>3, Arrival
<1>6. CASE LoseResult
  <2>0. e2Unsent \in BOOLEAN /\ unsent \in [StarkWorkers -> SUBSET (0..(NumSegments - 1))]
    BY DEF IInv, TypeOK
  <2>1. /\ UNCHANGED <<proofVars, schedulerVars, handlers, shard, taskVars, quiet>>
        /\ running' \subseteq running
        /\ e2Unsent' \in BOOLEAN
        /\ unsent' \in [StarkWorkers -> SUBSET (0..(NumSegments - 1))]
    BY <1>6, <2>0 DEF LoseResult
  <2>2. TypeOK'
    BY <2>1 DEF IInv, TypeOK, proofVars, schedulerVars, bookVars, taskVars
  <2>3. SegmentsFirst'
    BY <2>1 DEF IInv, SegmentsFirst, TreeNeedsSegments, Safe, proofVars, schedulerVars, bookVars,
                taskVars
  <2>. QED  BY <2>1, <2>2, <2>3 DEF IInv, PendingIsASequence, schedulerVars
<1>. QED  BY <1>1, <1>2, <1>3, <1>4, <1>5, <1>6 DEF WorkerStep

-----------------------------------------------------------------------------
\* Taking one from a worker's count and its shard marker from its books keeps
\* their types.
LEMMA Freed ==
    ASSUME IInv, NEW w \in Workers
    PROVE  /\ [active_proof_count EXCEPT ![w] = OneLess(@)] \in [Workers -> Nat]
           /\ [sharded EXCEPT ![w] = FALSE] \in [Workers -> BOOLEAN]
<1>1. active_proof_count \in [Workers -> Nat] /\ sharded \in [Workers -> BOOLEAN]
  BY DEF IInv, TypeOK
<1>2. ASSUME NEW f, f \in [Workers -> Nat]
      PROVE  [f EXCEPT ![w] = OneLess(@)] \in [Workers -> Nat]
  <2>1. OneLess(f[w]) \in Nat
    BY <1>2 DEF OneLess
  <2>. QED  BY <1>2, <2>1
<1>3. ASSUME NEW f, f \in [Workers -> BOOLEAN]
      PROVE  [f EXCEPT ![w] = FALSE] \in [Workers -> BOOLEAN]
  <2>. DEFINE g == [f EXCEPT ![w] = FALSE]
  <2>1. DOMAIN g = Workers /\ g = [v \in Workers |-> g[v]]
    BY <1>3
  <2>2. \A v \in Workers : g[v] = IF v = w THEN FALSE ELSE f[v]
    BY <1>3, Zenon
  <2>3. \A v \in Workers : g[v] \in BOOLEAN
    BY <1>3, <2>2, Zenon
  <2>. HIDE DEF g
  <2>4. g \in [Workers -> BOOLEAN]
    BY <2>1, <2>3, Zenon
  <2>. QED  BY <2>4 DEF g
<1>. QED  BY <1>1, <1>2, <1>3

\* What a step of proof_result past the ProofState lock does to the invariant.
LEMMA HandlerStepPreserves ==
    ASSUME IInv, NEW h \in handlers, HandlerStep(h)
    PROVE  IInv'
<1>. DEFINE Moved(g) == \E pc \in Pcs \ {"segments", "late"} : \E todo \in SUBSET h.todo :
                          g = [h EXCEPT !.pc = pc] \/ g = [h EXCEPT !.pc = pc, !.todo = todo]
<1>0. ASSUME NEW g, Moved(g)
      PROVE  /\ DOMAIN g = {"worker", "work", "copy", "res", "sealed", "pc", "todo"}
             /\ g.worker \in Workers /\ g.pc \in Pcs /\ g.pc \notin {"segments", "late"}
             /\ \A x \in g.todo : x.step \in Steps /\ (x.step = "EvmProve" => Safe)
             /\ g.res.kind = "Error" => Safe
  <2>1. PICK pc \in Pcs \ {"segments", "late"}, todo \in SUBSET h.todo :
          g = [h EXCEPT !.pc = pc] \/ g = [h EXCEPT !.pc = pc, !.todo = todo]
    BY <1>0
  <2>. HIDE DEF Moved
  <2>2. /\ DOMAIN h = {"worker", "work", "copy", "res", "sealed", "pc", "todo"}
        /\ h.worker \in Workers
        /\ \A x \in h.todo : x.step \in Steps /\ (x.step = "EvmProve" => Safe)
        /\ h.res.kind = "Error" => Safe
    BY DEF IInv, TypeOK, SegmentsFirst
  <2>3. /\ DOMAIN g = DOMAIN h /\ g.worker = h.worker /\ g.res = h.res /\ g.pc = pc
        /\ g.todo \subseteq h.todo
    BY <2>1, <2>2
  <2>. QED  BY <2>2, <2>3
<1>1. ASSUME NEW pc \in Pcs \ {"segments", "late"}, Goto(h, pc)
      PROVE  \A g \in handlers' \ handlers : Moved(g)
  BY <1>1 DEF Goto
<1>2. ASSUME NEW todo \in SUBSET h.todo, FollowUp(h, todo)
      PROVE  \A g \in handlers' \ handlers : Moved(g)
  BY <1>2 DEF FollowUp, Pcs
<1>3. AfterSegments(h) \in Pcs \ {"segments", "late"}
  BY DEF AfterSegments, Pcs
<1>4. \A x \in Queued : x.step \in Steps /\ (x.step = "EvmProve" => Safe)
  BY DEF Queued, IInv, TypeOK, SegmentsFirst
<1>. HIDE DEF Moved
<1>5. CASE HandlerDrain(h) \/ HandlerDequeue(h)
  <2>1. TryDequeueWork /\ UNCHANGED <<proofVars, workerVars, taskVars, quiet>>
    BY <1>5 DEF HandlerDrain, HandlerDequeue
  <2>2. \A g \in handlers' \ handlers : Moved(g)
    BY <1>5, <1>1, <1>3 DEF HandlerDrain, HandlerDequeue, Pcs
  <2>3. Places(Queued)
    BY <2>1, TryDequeueWorkPlaces
  <2>. QED  BY <2>1, <2>2, <2>3, <1>0, <1>4, Placing
<1>6. CASE HandlerFollowUp(h)
  <2>1. PICK work \in h.todo : EnqueueOrAssign(work) /\ FollowUp(h, h.todo \ {work})
    BY <1>6 DEF HandlerFollowUp
  <2>2. UNCHANGED <<proofVars, workerVars, taskVars, quiet>>
    BY <1>6 DEF HandlerFollowUp
  <2>3. \A g \in handlers' \ handlers : Moved(g)
    BY <2>1, <1>2
  <2>4. work.step \in Steps /\ (work.step = "EvmProve" => Safe)
    BY DEF IInv, TypeOK, SegmentsFirst
  <2>5. Places(Queued \cup {work})
    BY <2>1, <2>4, EnqueueOrAssignPlaces
  <2>6. \A x \in Queued \cup {work} : x.step \in Steps /\ (x.step = "EvmProve" => Safe)
    BY <2>4, <1>4
  <2>. QED  BY <2>2, <2>3, <2>5, <2>6, <1>0, Placing
\* The steps that place nothing: SegmentsFirst asks why shards are let go.
<1>7. ASSUME UNCHANGED <<pending, assigned_leaf_proofs, sends>>,
             UNCHANGED <<num_segments, app_proofs, leaf_proofs, internal_proofs, evm_proof>>,
             UNCHANGED <<workerVars, taskVars>>,
             status' \in Statuses, Safe => Safe',
             quiet' \in BOOLEAN, entry' \in BOOLEAN,
             sched_segments' \in {None, NumSegments},
             sched_segments' = sched_segments \/ Safe,
             active_proof_count' \in [Workers -> Nat],
             sharded' \in [Workers -> BOOLEAN],
             sharded' = sharded \/ Safe,
             \A g \in handlers' \ handlers : Moved(g)
      PROVE  IInv'
  <2>1. TypeOK'
    BY <1>7, <1>0 DEF IInv, TypeOK, workerVars, taskVars
  <2>2. SegmentsFirst'
    BY <1>7, <1>0 DEF IInv, SegmentsFirst, TreeNeedsSegments, workerVars, taskVars
  <2>. QED  BY <1>7, <2>1, <2>2 DEF IInv, PendingIsASequence
<1>8. /\ h.worker \in Workers
      /\ status \in Statuses /\ quiet \in BOOLEAN /\ entry \in BOOLEAN
      /\ sched_segments \in {None, NumSegments}
      /\ active_proof_count \in [Workers -> Nat] /\ sharded \in [Workers -> BOOLEAN]
  BY DEF IInv, TypeOK
<1>9. CASE HandlerSegments(h)
  <2>1. Safe /\ h.res.count = NumSegments
    BY <1>9 DEF HandlerSegments, IInv, SegmentsFirst, TypeOK
  <2>2. \A g \in handlers' \ handlers : Moved(g)
    BY <1>9, <1>1, <1>3 DEF HandlerSegments, Pcs
  <2>3. /\ sched_segments' \in {None, NumSegments} /\ entry' = entry
        /\ active_proof_count' \in [Workers -> Nat]
        /\ sharded' \in [Workers -> BOOLEAN]
        /\ UNCHANGED <<pending, assigned_leaf_proofs, sends>>
    <3>1. CASE UNCHANGED schedulerVars
      BY <3>1, <1>8 DEF schedulerVars, bookVars
    <3>2. CASE SetNumSegments(NumSegments)
      <4>1. active_proof_count' \in [Workers -> Nat]
        BY <3>2, <1>8 DEF SetNumSegments, OneLess
      <4>2. \A w \in Workers : (sharded[w] /\ w \notin DoneWithShard(NumSegments)) \in BOOLEAN
        OBVIOUS
      <4>3. sharded' \in [Workers -> BOOLEAN]
        BY <3>2, <4>2 DEF SetNumSegments
      <4>. QED  BY <3>2, <4>1, <4>3 DEF SetNumSegments
    <3>. QED  BY <1>9, <2>1, <3>1, <3>2 DEF HandlerSegments
  <2>4. UNCHANGED <<proofVars, workerVars, taskVars, quiet>>
    BY <1>9 DEF HandlerSegments
  <2>. QED  BY <1>7, <1>8, <2>1, <2>2, <2>3, <2>4 DEF proofVars, Safe
<1>10. CASE HandlerComplete(h)
  <2>1. \A g \in handlers' \ handlers : Moved(g)
    BY <1>10, <1>1 DEF HandlerComplete, Pcs
  <2>2. UNCHANGED <<proofVars, workerVars, taskVars, quiet>>
    BY <1>10 DEF HandlerComplete
  <2>3. /\ UNCHANGED <<entry, pending, sched_segments, assigned_leaf_proofs, sends>>
        /\ active_proof_count' \in [Workers -> Nat]
        /\ sharded' \in [Workers -> BOOLEAN]
        /\ sharded' = sharded \/ Safe
    <3>1. CASE UNCHANGED schedulerVars
      BY <3>1, <1>8 DEF schedulerVars, bookVars
    <3>2. CASE ApplyCompletion(h.worker, h.res)
      <4>1. CASE h.res.kind = "App"
        <5>1. sched_segments # None => Safe
          BY DEF IInv, SegmentsFirst
        <5>2. FreesSlot(h.worker, h.res) => Safe
          BY <4>1, <5>1 DEF FreesSlot, CompletedAllSegments
        <5>3. CompleteApp(h.worker, h.res)
              /\ UNCHANGED <<entry, pending, sched_segments, assigned_leaf_proofs, sends>>
          BY <3>2, <4>1 DEF ApplyCompletion
        <5>4. CASE UNCHANGED bookVars
          BY <5>3, <5>4, <1>8 DEF bookVars
        <5>5. CASE /\ Safe
                   /\ active_proof_count' = [active_proof_count EXCEPT ![h.worker] = OneLess(@)]
                   /\ sharded' = [sharded EXCEPT ![h.worker] = FALSE]
          BY <5>3, <5>5, <1>8, Freed
        <5>. QED  BY <5>2, <5>3, <5>4, <5>5 DEF CompleteApp
      <4>2. CASE h.res.kind = "Error"
        <5>1. Safe
          BY <4>2 DEF IInv, SegmentsFirst
        <5>2. CompleteError(h.worker)
              /\ UNCHANGED <<entry, pending, sched_segments, assigned_leaf_proofs, sends>>
          BY <3>2, <4>2 DEF ApplyCompletion
        <5>3. CASE UNCHANGED bookVars
          BY <5>2, <5>3, <1>8 DEF bookVars
        <5>4. CASE /\ active_proof_count' = [active_proof_count EXCEPT ![h.worker] = OneLess(@)]
                   /\ sharded' = [sharded EXCEPT ![h.worker] = FALSE]
          BY <5>1, <5>2, <5>4, <1>8, Freed
        <5>. QED  BY <5>2, <5>3, <5>4 DEF CompleteError
      <4>3. CASE h.res.kind \notin {"App", "Error"}
        BY <3>2, <4>3, <1>8 DEF ApplyCompletion, CompleteTree, OneLess, bookVars
      <4>. QED  BY <4>1, <4>2, <4>3
    <3>. QED  BY <1>10, <3>1, <3>2 DEF HandlerComplete
  <2>. QED  BY <1>7, <1>8, <2>1, <2>2, <2>3 DEF proofVars, Safe
<1>11. CASE HandlerSealed(h)
  <2>1. \A g \in handlers' \ handlers : Moved(g)
    BY <1>11, <1>1 DEF HandlerSealed, Pcs
  <2>. QED  BY <1>11, <1>7, <1>8, <2>1 DEF HandlerSealed, proofVars, schedulerVars, bookVars, Safe
<1>12. CASE HandlerFinalize(h)
  <2>1. \A g \in handlers' \ handlers : Moved(g)
    BY <1>12, <1>1 DEF HandlerFinalize, Pcs
  <2>2. /\ status' \in Statuses /\ quiet' \in BOOLEAN
        /\ status' = status \/ status' # "InProgress"
    BY <1>12, <1>8 DEF HandlerFinalize, Statuses
  <2>3. UNCHANGED <<treeVars, schedulerVars, workerVars, taskVars>>
    BY <1>12 DEF HandlerFinalize
  <2>. QED  BY <1>7, <1>8, <2>1, <2>2, <2>3 DEF treeVars, schedulerVars, bookVars, Safe
<1>13. CASE HandlerTry(h)
  <2>1. \A g \in handlers' \ handlers : Moved(g)
    BY <1>13, <1>1, <1>2 DEF HandlerTry, Pcs
  <2>2. /\ status' \in Statuses
        /\ status' = status \/ status' # "InProgress"
        /\ UNCHANGED treeVars
    BY <1>13, <1>8 DEF HandlerTry, TransitionFailingToFailed, Statuses, proofVars, treeVars
  <2>3. UNCHANGED <<schedulerVars, workerVars, taskVars, quiet>>
    BY <1>13 DEF HandlerTry
  <2>. QED  BY <1>7, <1>8, <2>1, <2>2, <2>3 DEF treeVars, schedulerVars, bookVars, Safe
<1>14. CASE HandlerRemove(h)
  <2>1. \A g \in handlers' \ handlers : Moved(g)
    BY <1>14, <1>1, <1>2 DEF HandlerRemove, Pcs
  <2>2. /\ entry' = FALSE
        /\ UNCHANGED <<bookVars, pending, sched_segments, assigned_leaf_proofs, sends>>
        /\ UNCHANGED <<proofVars, workerVars, taskVars, quiet>>
    BY <1>14 DEF HandlerRemove, RemoveProof
  <2>. QED  BY <1>7, <1>8, <2>1, <2>2 DEF proofVars, bookVars, Safe
<1>. QED  BY <1>5, <1>6, <1>9, <1>10, <1>11, <1>12, <1>13, <1>14 DEF HandlerStep

-----------------------------------------------------------------------------
\* The steps of the other tasks leave results, queue and handlers alone; they
\* must give a reason for each worker they free and each job they start.
LEMMA TaskStep ==
    ASSUME IInv,
           UNCHANGED <<num_segments, app_proofs, leaf_proofs, internal_proofs, evm_proof>>,
           UNCHANGED <<pending, assigned_leaf_proofs, sched_segments>>,
           UNCHANGED <<handlers, unsent, e2Unsent>>,
           status' \in Statuses, Safe => Safe',
           quiet' \in BOOLEAN, entry' \in BOOLEAN,
           active_proof_count' \in [Workers -> Nat],
           sharded' \in [Workers -> BOOLEAN],
           sharded' = sharded \/ Safe',
           \A s \in sends' \ sends :
              /\ DOMAIN s = {"worker", "work", "tries", "pc"}
              /\ s.worker \in Workers /\ s.work.step \in Steps
              /\ s.tries \in 0..MaxRetries
              /\ s.pc \in {"send", "release", "fail", "try", "remove"}
              /\ s.pc = "send" => s.tries < MaxRetries
              /\ Safe,
           \A j \in running' \ running :
              /\ j.worker \in Workers /\ j.work.step \in Steps /\ j.copy \in 0..(MaxRetries - 1)
              /\ Safe,
           shard' \in [StarkWorkers -> {"idle", "proving", "failed"}],
           dispatch' \in [StarkWorkers -> {"sending", "ok", "failed", "released"}],
           starter' \in {"dispatch", "release", "try", "remove", "done"},
           starter' = "release" => (starter = "release" \/ Safe'),
           canceler' \in {"idle", "remove", "done"},
           watchdog' \in {"idle", "try", "remove"}
    PROVE  IInv'
<1>1. TypeOK'
  BY DEF IInv, TypeOK
<1>2. SegmentsFirst'
  BY DEF IInv, SegmentsFirst, TreeNeedsSegments
<1>. QED  BY <1>1, <1>2 DEF IInv, PendingIsASequence

\* What TypeOK says of the variables that TaskStep asks about.
LEMMA TaskTypes ==
    ASSUME IInv
    PROVE  /\ status \in Statuses /\ quiet \in BOOLEAN /\ entry \in BOOLEAN
           /\ active_proof_count \in [Workers -> Nat]
           /\ sharded \in [Workers -> BOOLEAN]
           /\ shard \in [StarkWorkers -> {"idle", "proving", "failed"}]
           /\ dispatch \in [StarkWorkers -> {"sending", "ok", "failed", "released"}]
           /\ starter \in {"dispatch", "release", "try", "remove", "done"}
           /\ canceler \in {"idle", "remove", "done"}
           /\ watchdog \in {"idle", "try", "remove"}
  BY DEF IInv, TypeOK

\* release_worker wipes a worker's books and leaves the rest of the store.
LEMMA Released ==
    ASSUME IInv, NEW w \in Workers, ReleaseWorker(w)
    PROVE  /\ active_proof_count' \in [Workers -> Nat]
           /\ sharded' \in [Workers -> BOOLEAN]
           /\ UNCHANGED <<entry, pending, sched_segments, assigned_leaf_proofs>>
<1>1. ASSUME NEW f, f \in [Workers -> Nat]
      PROVE  [f EXCEPT ![w] = 0] \in [Workers -> Nat]
  BY <1>1
<1>2. CASE UNCHANGED bookVars
  BY <1>2, TaskTypes DEF ReleaseWorker, bookVars
<1>3. CASE /\ active_proof_count' = [active_proof_count EXCEPT ![w] = 0]
           /\ sharded' = [sharded EXCEPT ![w] = FALSE]
  BY <1>1, <1>3, TaskTypes, Freed DEF ReleaseWorker
<1>. QED  BY <1>2, <1>3 DEF ReleaseWorker

\* send_work_with_retry: it has work in hand only once that is safe, so it may
\* start a job, free the worker and fail the proof.
LEMMA SendStepPreserves ==
    ASSUME IInv, NEW s \in sends, SendStep(s)
    PROVE  IInv'
<1>1. /\ DOMAIN s = {"worker", "work", "tries", "pc"}
      /\ s.worker \in Workers /\ s.work.step \in Steps
      /\ s.tries \in 0..MaxRetries
      /\ s.pc \in {"send", "release", "fail", "try", "remove"}
      /\ s.pc = "send" => s.tries < MaxRetries
      /\ Safe
  BY DEF IInv, TypeOK, SegmentsFirst
<1>. DEFINE Moved(t) ==
       /\ DOMAIN t = {"worker", "work", "tries", "pc"}
       /\ t.worker \in Workers /\ t.work.step \in Steps
       /\ t.tries \in 0..MaxRetries
       /\ t.pc \in {"send", "release", "fail", "try", "remove"}
       /\ t.pc = "send" => t.tries < MaxRetries
       /\ Safe
<1>2. ASSUME NEW pc \in {"release", "fail", "try", "remove"}
      PROVE  Moved([s EXCEPT !.pc = pc])
  BY <1>1
<1>3. s.pc = "send" => Moved(Resend(s))
  BY <1>1, ManagerAssumption DEF Resend
<1>4. s.pc = "send" => /\ Job(s).worker \in Workers /\ Job(s).work.step \in Steps
                       /\ Job(s).copy \in 0..(MaxRetries - 1)
  BY <1>1, ManagerAssumption DEF Job
<1>5. CASE SendAttempt(s)
  <2>1. /\ UNCHANGED <<proofVars, sendFrame, handlers, shard, unsent, e2Unsent, taskVars, quiet>>
        /\ running' \subseteq running \cup {Job(s)}
        /\ sends' \subseteq sends \cup {Resend(s)}
        /\ s.pc = "send"
    BY <1>5 DEF SendAttempt
  <2>2. /\ UNCHANGED <<status, num_segments, app_proofs, leaf_proofs, internal_proofs, evm_proof>>
        /\ UNCHANGED <<entry, active_proof_count, sharded, pending, sched_segments,
                       assigned_leaf_proofs>>
        /\ UNCHANGED <<handlers, shard, unsent, e2Unsent, dispatch, starter, canceler, watchdog,
                       quiet>>
    BY <2>1 DEF proofVars, sendFrame, bookVars, taskVars
  <2>3. \A t \in sends' \ sends : Moved(t)
    BY <2>1, <1>3
  <2>4. \A j \in running' \ running :
          j.worker \in Workers /\ j.work.step \in Steps /\ j.copy \in 0..(MaxRetries - 1) /\ Safe
    BY <2>1, <1>1, <1>4
  <2>. QED  BY <2>2, <2>3, <2>4, TaskTypes, TaskStep DEF Safe
<1>6. CASE SendRelease(s)
  <2>1. /\ UNCHANGED <<proofVars, handlers, workerVars, taskVars, quiet>>
        /\ ReleaseWorker(s.worker)
        /\ sends' = (sends \ {s}) \cup {[s EXCEPT !.pc = "fail"]}
    BY <1>6 DEF SendRelease, SendGoto
  <2>2. \A t \in sends' \ sends : Moved(t)
    BY <2>1, <1>2
  <2>3. Safe'
    BY <1>1, <2>1 DEF Safe, proofVars
  <2>4. /\ active_proof_count' \in [Workers -> Nat]
        /\ sharded' \in [Workers -> BOOLEAN]
        /\ UNCHANGED <<entry, pending, sched_segments, assigned_leaf_proofs>>
    BY <1>1, <2>1, Released
  <2>. QED  BY <2>1, <2>2, <2>3, <2>4, TaskTypes, TaskStep DEF proofVars, workerVars, taskVars
<1>7. CASE SendFail(s)
  <2>1. /\ UNCHANGED <<treeVars, sendFrame, handlers, workerVars, taskVars, quiet>>
        /\ status' \in {status, "Failing"}
        /\ sends' = (sends \ {s}) \cup {[s EXCEPT !.pc = "try"]}
    BY <1>7 DEF SendFail, SendGoto
  <2>2. \A t \in sends' \ sends : Moved(t)
    BY <2>1, <1>2
  <2>3. Safe' /\ status' \in Statuses
    BY <1>1, <2>1, TaskTypes DEF Safe, treeVars, Statuses
  <2>. QED  BY <2>1, <2>2, <2>3, TaskTypes, TaskStep
            DEF treeVars, sendFrame, bookVars, workerVars, taskVars
<1>8. CASE SendTry(s)
  <2>1. /\ UNCHANGED <<treeVars, sendFrame, handlers, workerVars, taskVars, quiet>>
        /\ status' \in {status, "Failed"}
        /\ sends' \subseteq sends \cup {[s EXCEPT !.pc = "remove"]}
    BY <1>8 DEF SendTry, SendGoto, TransitionFailingToFailed, proofVars, treeVars
  <2>2. \A t \in sends' \ sends : Moved(t)
    BY <2>1, <1>2
  <2>3. Safe' /\ status' \in Statuses
    BY <1>1, <2>1, TaskTypes DEF Safe, treeVars, Statuses
  <2>. QED  BY <2>1, <2>2, <2>3, TaskTypes, TaskStep
            DEF treeVars, sendFrame, bookVars, workerVars, taskVars
<1>9. CASE SendRemove(s)
  BY <1>9, TaskTypes, TaskStep
     DEF SendRemove, RemoveProof, Safe, proofVars, bookVars, workerVars, taskVars
<1>. QED  BY <1>5, <1>6, <1>7, <1>8, <1>9 DEF SendStep

-----------------------------------------------------------------------------
\* An unsealed proof that is marked failing is Safe afterwards; a sealed one is
\* Safe already, since the final artifact needs the segment count.
LEMMA MarkedFailing ==
    ASSUME IInv, MarkFailing
    PROVE  Safe' /\ status' \in Statuses /\ UNCHANGED treeVars
<1>1. CASE ~IsSealedForResults
  BY <1>1 DEF MarkFailing, Safe, Statuses
<1>2. CASE IsSealedForResults
  <2>1. Safe
    BY <1>2 DEF IsSealedForResults, IsReadyForFinalization, FinalInternalProofPresent, IInv,
                SegmentsFirst, TreeNeedsSegments, Safe
  <2>. QED  BY <1>2, <2>1, TaskTypes DEF MarkFailing, treeVars, Safe
<1>. QED  BY <1>1, <1>2

\* The dispatch of the shards: a worker is released only after the proof was
\* marked failing.
LEMMA StarterStepPreserves == IInv /\ StarterStep => IInv'
<1>. SUFFICES ASSUME IInv, StarterStep PROVE IInv'
  OBVIOUS
<1>1. ASSUME NEW w \in StarkWorkers, Kickoff(w) PROVE IInv'
  <2>1. /\ UNCHANGED <<proofVars, schedulerVars, handlers, running, unsent, e2Unsent,
                       starter, canceler, watchdog, quiet>>
        /\ shard' = shard \/ shard' = [shard EXCEPT ![w] = "proving"]
        /\ \/ dispatch' = [dispatch EXCEPT ![w] = "ok"]
           \/ dispatch' = [dispatch EXCEPT ![w] = "failed"]
    BY <1>1 DEF Kickoff
  <2>2. /\ shard' \in [StarkWorkers -> {"idle", "proving", "failed"}]
        /\ dispatch' \in [StarkWorkers -> {"sending", "ok", "failed", "released"}]
    BY <2>1, TaskTypes
  <2>. QED  BY <2>1, <2>2, TaskTypes, TaskStep DEF proofVars, schedulerVars, bookVars, Safe
<1>2. CASE StartJoin
  <2>1. UNCHANGED <<schedulerVars, handlers, workerVars, dispatch, canceler, watchdog, quiet>>
    BY <1>2 DEF StartJoin
  <2>2. CASE MarkFailing /\ starter' = "release"
    <3>1. Safe' /\ status' \in Statuses /\ UNCHANGED treeVars
      BY <2>2, MarkedFailing
    <3>. QED  BY <2>1, <2>2, <3>1, TaskTypes, TaskStep
              DEF treeVars, schedulerVars, bookVars, workerVars
  <2>3. CASE UNCHANGED proofVars /\ starter' = "done"
    BY <2>1, <2>3, TaskTypes, TaskStep DEF proofVars, schedulerVars, bookVars, workerVars, Safe
  <2>. QED  BY <1>2, <2>2, <2>3 DEF StartJoin
<1>3. CASE StartRelease
  <2>1. UNCHANGED <<proofVars, handlers, workerVars, canceler, watchdog, quiet, sends>>
    BY <1>3 DEF StartRelease, schedulerVars
  <2>2. Safe
    BY <1>3 DEF StartRelease, IInv, SegmentsFirst
  <2>3. Safe'
    BY <2>1, <2>2 DEF Safe, proofVars
  <2>4. ASSUME NEW w \in StarkWorkers, ReleaseWorker(w), UNCHANGED starter,
               dispatch' = [dispatch EXCEPT ![w] = "released"]
        PROVE  IInv'
    <3>1. /\ active_proof_count' \in [Workers -> Nat]
          /\ sharded' \in [Workers -> BOOLEAN]
          /\ UNCHANGED <<entry, pending, sched_segments, assigned_leaf_proofs>>
      BY <2>4, StarkWorkersAreWorkers, Released
    <3>2. dispatch' \in [StarkWorkers -> {"sending", "ok", "failed", "released"}]
      BY <2>4, TaskTypes
    <3>. QED  BY <2>1, <2>3, <2>4, <3>1, <3>2, TaskTypes, TaskStep DEF proofVars, workerVars
  <2>5. CASE starter' = "try" /\ UNCHANGED <<schedulerVars, dispatch>>
    BY <2>1, <2>3, <2>5, TaskTypes, TaskStep DEF proofVars, schedulerVars, bookVars, workerVars
  <2>. QED  BY <1>3, <2>4, <2>5 DEF StartRelease
<1>4. CASE StartTry
  <2>1. /\ UNCHANGED <<treeVars, schedulerVars, handlers, workerVars, dispatch, canceler, watchdog,
                       quiet>>
        /\ status' \in {status, "Failed"}
        /\ starter' \in {"remove", "done"}
    BY <1>4 DEF StartTry, TransitionFailingToFailed, proofVars, treeVars
  <2>2. status' \in Statuses /\ (Safe => Safe')
    BY <2>1, TaskTypes DEF Safe, Statuses, treeVars
  <2>. QED  BY <2>1, <2>2, TaskTypes, TaskStep DEF treeVars, schedulerVars, bookVars, workerVars
<1>5. CASE StartRemove
  BY <1>5, TaskTypes, TaskStep
     DEF StartRemove, RemoveProof, Safe, proofVars, bookVars, workerVars
<1>. QED  BY <1>1, <1>2, <1>3, <1>4, <1>5 DEF StarterStep

\* The client's cancel, the watchdog and the clock.
LEMMA ClientAndClockPreserve ==
    IInv /\ (CancelProof \/ CancelRemove \/ WatchdogStep \/ MinutePasses) => IInv'
<1>. SUFFICES ASSUME IInv, CancelProof \/ CancelRemove \/ WatchdogStep \/ MinutePasses PROVE IInv'
  OBVIOUS
<1>1. CASE CancelProof
  <2>1. /\ UNCHANGED <<treeVars, schedulerVars, handlers, workerVars, dispatch, starter, watchdog,
                       quiet>>
        /\ status' \in {status, "Canceled"}
        /\ canceler' = "remove"
    BY <1>1 DEF CancelProof
  <2>2. status' \in Statuses /\ (Safe => Safe')
    BY <2>1, TaskTypes DEF Safe, Statuses, treeVars
  <2>. QED  BY <2>1, <2>2, TaskTypes, TaskStep DEF treeVars, schedulerVars, bookVars, workerVars
<1>2. CASE CancelRemove \/ WatchdogRemove
  BY <1>2, TaskTypes, TaskStep
     DEF CancelRemove, WatchdogRemove, RemoveProof, Safe, proofVars, bookVars, workerVars
<1>3. CASE WatchdogTry
  <2>1. /\ UNCHANGED <<treeVars, schedulerVars, handlers, workerVars, dispatch, starter, canceler,
                       quiet>>
        /\ status' \in {status, "Failed"}
        /\ watchdog' \in {"idle", "remove"}
    BY <1>3 DEF WatchdogTry, TransitionFailingToFailed, proofVars, treeVars
  <2>2. status' \in Statuses /\ (Safe => Safe')
    BY <2>1, TaskTypes DEF Safe, Statuses, treeVars
  <2>. QED  BY <2>1, <2>2, TaskTypes, TaskStep DEF treeVars, schedulerVars, bookVars, workerVars
<1>4. CASE WatchdogTimeout
  <2>1. /\ UNCHANGED <<schedulerVars, handlers, workerVars, dispatch, starter, canceler, quiet>>
        /\ MarkFailing /\ watchdog' = "try"
    BY <1>4 DEF WatchdogTimeout
  <2>2. Safe' /\ status' \in Statuses /\ UNCHANGED treeVars
    BY <2>1, MarkedFailing
  <2>. QED  BY <2>1, <2>2, TaskTypes, TaskStep DEF treeVars, schedulerVars, bookVars, workerVars
<1>5. CASE MinutePasses
  BY <1>5, TaskTypes, TaskStep
     DEF MinutePasses, Safe, proofVars, schedulerVars, bookVars, workerVars, taskVars
<1>. QED  BY <1>1, <1>2, <1>3, <1>4, <1>5 DEF WatchdogStep

\* The invariant is inductive.
LEMMA NextPreserves == IInv /\ [Next]_vars => IInv'
<1>. SUFFICES ASSUME IInv, [Next]_vars PROVE IInv'
  OBVIOUS
<1>1. CASE WorkerStep
  BY <1>1, WorkerStepPreserves
<1>2. CASE ManagerStep
  BY <1>2, HandlerStepPreserves, SendStepPreserves, StarterStepPreserves, ClientAndClockPreserve
     DEF ManagerStep
<1>3. CASE CancelProof
  BY <1>3, ClientAndClockPreserve
<1>4. CASE UNCHANGED vars
  BY <1>4, TaskTypes, TaskStep
     DEF vars, Safe, proofVars, schedulerVars, bookVars, workerVars, taskVars
<1>. QED  BY <1>1, <1>2, <1>3, <1>4 DEF Next

-----------------------------------------------------------------------------
\* Every reachable state is well typed: counts never go below zero, the tasks
\* of handlers.rs are always at one of their awaits, send_work_with_retry never
\* attempts a request more than MaxRetries times, and the segment count known
\* to ProofState and to the scheduler is that of the execution.
THEOREM TypeCorrect == Spec => []TypeOK
<1>1. IInv => TypeOK
  BY DEF IInv
<1>. QED  BY <1>1, InitEstablishes, NextPreserves, PTL DEF Spec

\* No tree proof is stored before ExecuteE2, for any number of workers and
\* segments and whatever fails: the ordering that result_handler.rs takes for
\* granted and that only the scheduler's shard markers bring about.
THEOREM TreeNeedsSegmentsHolds == Spec => []TreeNeedsSegments
<1>1. IInv => TreeNeedsSegments
  BY DEF IInv, SegmentsFirst
<1>. QED  BY <1>1, InitEstablishes, NextPreserves, PTL DEF Spec

\* Completed, Failed and Canceled are final, whichever of the finalizer, the
\* watchdog, the client, the retries, the drain and late results come last.
THEOREM TerminalIsFinalHolds == Spec => TerminalIsFinal
<1>1. ASSUME [Next]_vars, status \in {"Completed", "Failed", "Canceled"}
      PROVE  status' = status
  <2>1. ASSUME NEW r, HandleProofResult(r) PROVE status' = status
    BY <1>1, <2>1 DEF HandleProofResult, IsSealedForResults, proofVars
  <2>2. CASE WorkerStep
    <3>1. CASE LoseResult
      BY <3>1 DEF LoseResult, proofVars
    <3>. QED  BY <2>1, <2>2, <3>1 DEF WorkerStep, PostApp, PostExecuteE2, PostTree,
                 PostTreeError, PostShardError, ProofResult
  <2>3. CASE \E h \in handlers : HandlerStep(h)
    BY <1>1, <2>3 DEF HandlerStep, HandlerSegments, HandlerDrain, HandlerComplete, HandlerDequeue,
       HandlerSealed, HandlerFinalize, HandlerTry, HandlerRemove, HandlerFollowUp,
       TransitionFailingToFailed, proofVars
  <2>4. CASE \E s \in sends : SendStep(s)
    BY <1>1, <2>4 DEF SendStep, SendAttempt, SendRelease, SendFail, SendTry, SendRemove,
       TransitionFailingToFailed, proofVars
  <2>5. CASE StarterStep
    BY <1>1, <2>5 DEF StarterStep, Kickoff, StartJoin, StartRelease, StartTry, StartRemove,
       MarkFailing, IsSealedForResults, TransitionFailingToFailed, proofVars
  <2>6. CASE WatchdogStep \/ CancelRemove \/ MinutePasses \/ CancelProof
    BY <1>1, <2>6 DEF WatchdogStep, WatchdogTry, WatchdogTimeout, WatchdogRemove, CancelRemove,
       MinutePasses, CancelProof, MarkFailing, IsSealedForResults, TransitionFailingToFailed,
       proofVars
  <2>7. CASE UNCHANGED vars
    BY <2>7 DEF vars, proofVars
  <2>. QED  BY <1>1, <2>2, <2>3, <2>4, <2>5, <2>6, <2>7 DEF Next, ManagerStep
<1>2. [Next]_vars => [(status \in {"Completed", "Failed", "Canceled"}) => (status' = status)]_vars
  BY <1>1
<1>. QED  BY <1>2, PTL DEF Spec, TerminalIsFinal

-----------------------------------------------------------------------------
(* The tree the manager builds *)

\* The requests in follow-ups, in the queue, on their way and at work.
Todos == UNION {h.todo : h \in handlers}
Sent == {s.work : s \in sends}
Worked == {j.work : j \in running}
Works == Todos \cup Queued \cup Sent \cup Worked

\* A request without its final flag, and the requests of the stored proofs.
AsSlot(x) == [step |-> x.step, layer |-> x.layer, start |-> x.start, end |-> x.end,
              final |-> x.step = "EvmProve"]
Stored ==
    {LeafRequest(p.start, p.end) : p \in leaf_proofs}
      \cup {InternalRequest(p.layer, p.start, p.end, FALSE) : p \in internal_proofs}
      \cup {x \in {EvmRequest} : evm_proof}

Known == {AsSlot(x) : x \in Works} \cup Stored
Open == Known \ Stored

\* The lemmas of TreeProofs, read for the slots known here: no request is
\* answered before ExecuteE2, and what is lost is no longer known.
Tree == INSTANCE TreeProofs
          WITH status <- "InProgress", total <- NumSegments, SegmentCounts <- {NumSegments},
               e2First <- FALSE, unsent <- {}, e2Unsent <- (num_segments = None),
               requested <- Open, asked <- SetToBag(Known)

\* What is asked for, or proved, are slots of the tree with everything below
\* them proved; only whole ones as long as the segment count is not known.
SlotsInv ==
    /\ \A x \in Known : x = EvmRequest \/ Tree!WellFormed(x)
    /\ num_segments = None =>
          \A x \in Known : Tree!WellFormed(x) /\ x.start + Tree!Span(Tree!Level(x)) <= NumSegments
    /\ EvmRequest \in Known => ProofType = "Evm" /\ FinalInternalProofPresent
    /\ \A x \in Known : x.step # "EvmProve" => Tree!Backed(x)

\* The flag of a request in flight is exact, and stored proofs are records.
FlagsInv ==
    /\ \A x \in Works :
          x.step = "InternalProve" => x.final = (x.layer = EffectiveFinalLayer(NumSegments))
    /\ \A p \in leaf_proofs : p = LeafOf(p)
    /\ \A p \in internal_proofs : p = InternalOf(p)

KnownInv ==
    /\ SlotsInv
    /\ FlagsInv
    /\ status = "Completed" => IsReadyForFinalization

\* The definitions Tree takes from ProofState are this module's.
LEMMA SameArithmetic ==
    /\ \A a, b : Tree!DivCeil(a, b) = DivCeil(a, b)
    /\ \A a, b : Tree!NumInternalLayers(a, b) = NumInternalLayers(a, b)
    /\ \A a, b, c : Tree!NumProofsAtInternalLayer(a, b, c) = NumProofsAtInternalLayer(a, b, c)
    /\ \A a, b, c : Tree!Scaled(a, b, c) = Scaled(a, b, c)
<1>1. \A a, b : Tree!DivCeil(a, b) = DivCeil(a, b)
  BY DEF Tree!DivCeil, DivCeil
<1>2. \A a, b : Tree!NumInternalLayers(a, b) = NumInternalLayers(a, b)
  BY DEF Tree!NumInternalLayers, NumInternalLayers, Tree!DivCeil, DivCeil
<1>3. \A a, b, c : Tree!NumProofsAtInternalLayer(a, b, c) = NumProofsAtInternalLayer(a, b, c)
  BY DEF Tree!NumProofsAtInternalLayer, NumProofsAtInternalLayer, Tree!DivCeil, DivCeil
<1>4. \A a, b, c : Tree!Scaled(a, b, c) = Scaled(a, b, c)
  BY DEF Tree!Scaled, Scaled
<1>. QED  BY <1>1, <1>2, <1>3, <1>4

\* The tree module and the manager agree on the layers of a segment count.
LEMMA SameLayers ==
    /\ Tree!None = None
    /\ \A n : Tree!NumLeafProofs(n) = NumLeafProofs(n)
    /\ \A n : Tree!LayersFor(n) = LayersFor(n)
    /\ \A n : Tree!EffectiveFinalLayer(n) = EffectiveFinalLayer(n)
    /\ \A p : Tree!SlotIdx(p) = SlotIdx(p)
    /\ \A n : Tree!OutOfBounds(n) = OutOfBounds(n)
<1>1. Tree!None = None
  BY DEF Tree!None, None
<1>2. \A n : Tree!NumLeafProofs(n) = NumLeafProofs(n)
  BY SameArithmetic DEF Tree!NumLeafProofs, NumLeafProofs
<1>3. \A n : Tree!LayersFor(n) = LayersFor(n)
  BY <1>2, SameArithmetic DEF Tree!LayersFor, LayersFor
<1>4. \A n : Tree!EffectiveFinalLayer(n) = EffectiveFinalLayer(n)
  BY <1>3 DEF Tree!EffectiveFinalLayer, EffectiveFinalLayer
<1>5. \A p : Tree!SlotIdx(p) = SlotIdx(p)
  BY SameArithmetic DEF Tree!SlotIdx, SlotIdx, Tree!SegmentStartToInternalIdx, SegmentStartToInternalIdx
<1>6. \A n : Tree!OutOfBounds(n) = OutOfBounds(n)
  BY <1>1 DEF Tree!OutOfBounds, OutOfBounds
<1>. QED  BY <1>1, <1>2, <1>3, <1>4, <1>5, <1>6

\* They agree on the requests a state calls for and on when it is complete.
LEMMA SameRequests ==
    /\ Tree!EvmRequest = EvmRequest
    /\ \A x : Tree!LeafOf(x) = LeafOf(x) /\ Tree!InternalOf(x) = InternalOf(x)
    /\ \A a, b, c, d : Tree!InternalRequest(a, b, c, d) = InternalRequest(a, b, c, d)
    /\ \A s : Tree!AppRequests(s) = AppRequests(s)
    /\ \A n : Tree!FlushPendingLeafBatches(n) = FlushPendingLeafBatches(n)
    /\ \A p : Tree!LeafRequests(p) = LeafRequests(p)
    /\ \A p : Tree!ParentRequests(p) = ParentRequests(p)
    /\ Tree!FinalInternalProofPresent = FinalInternalProofPresent
<1>1. Tree!EvmRequest = EvmRequest /\ \A x : Tree!LeafOf(x) = LeafOf(x) /\ Tree!InternalOf(x) = InternalOf(x)
  BY DEF Tree!EvmRequest, EvmRequest, Tree!LeafOf, LeafOf, Tree!InternalOf, InternalOf
<1>2. \A a, b, c, d : Tree!InternalRequest(a, b, c, d) = InternalRequest(a, b, c, d)
  BY DEF Tree!InternalRequest, InternalRequest
<1>3. \A a, b : Tree!LeafRequest(a, b) = LeafRequest(a, b)
  BY DEF Tree!LeafRequest, LeafRequest
<1>4. \A s : Tree!AppRequests(s) = AppRequests(s)
  BY <1>3, SameLayers DEF Tree!AppRequests, AppRequests
<1>5. \A n : Tree!FlushPendingLeafBatches(n) = FlushPendingLeafBatches(n)
  BY <1>3 DEF Tree!FlushPendingLeafBatches, FlushPendingLeafBatches
<1>6. \A p : Tree!LeafRequests(p) = LeafRequests(p)
  BY SameLayers DEF Tree!LeafRequests, LeafRequests, Tree!InternalRequest, InternalRequest
<1>7. \A p : Tree!ParentRequests(p) = ParentRequests(p)
    BY DEF Tree!ParentRequests, ParentRequests, Tree!SlotIdx, SlotIdx,
         Tree!SegmentStartToInternalIdx, SegmentStartToInternalIdx, Tree!Scaled, Scaled,
         Tree!NumProofsAtInternalLayer, NumProofsAtInternalLayer, Tree!NumLeafProofs,
         NumLeafProofs, Tree!DivCeil, DivCeil, Tree!EffectiveFinalLayer, EffectiveFinalLayer,
         Tree!LayersFor, LayersFor, Tree!NumInternalLayers, NumInternalLayers,
         Tree!InternalRequest, InternalRequest, Tree!None, None
<1>8. Tree!FinalInternalProofPresent = FinalInternalProofPresent
  BY SameLayers DEF Tree!FinalInternalProofPresent, FinalInternalProofPresent
<1>. QED  BY <1>1, <1>2, <1>4, <1>5, <1>6, <1>7, <1>8

\* They agree on the final proof of the next state, too.
LEMMA SameFinalNext == Tree!FinalInternalProofPresent' <=> FinalInternalProofPresent'
<1>1. \A p : Tree!SlotIdx(p)' = SlotIdx(p)'
  BY SameArithmetic DEF Tree!SlotIdx, SlotIdx, Tree!SegmentStartToInternalIdx,
                        SegmentStartToInternalIdx
<1>. QED  BY <1>1, SameLayers DEF Tree!FinalInternalProofPresent, FinalInternalProofPresent

\* The invariant of TreeProofs holds of what is known here.
LEMMA TreeHolds ==
    ASSUME IInv, KnownInv PROVE Tree!TreeInv
<1>. USE ManagerAssumption
<1>0. Tree!Asked = Known /\ SetToBag(Known) = Tree!SetToBag(Known)
  BY DEF Tree!Asked, Tree!BagToSet, SetToBag, Tree!SetToBag
<1>1. Tree!Basics
  <2>1. num_segments \in {None, NumSegments} /\ app_proofs \subseteq 0..(NumSegments - 1)
        /\ evm_proof \in BOOLEAN
    BY DEF IInv, TypeOK
  <2>. QED  BY <1>0, <2>1, SameLayers DEF Tree!Basics, Open, None
<1>2. Tree!AskedInv
  <2>1. ASSUME NEW v \in Known, NEW w \in Known, Tree!SameSlot(v, w) PROVE v = w
    <3>1. CASE v = EvmRequest \/ w = EvmRequest
      <4>1. v.step = "EvmProve" /\ w.step = "EvmProve"
        BY <2>1, <3>1 DEF Tree!SameSlot, EvmRequest
      <4>. QED  BY <4>1 DEF KnownInv, SlotsInv, Tree!WellFormed
    <3>2. CASE Tree!WellFormed(v) /\ Tree!WellFormed(w)
      <4>1. v.final = w.final
        <5>1. \A x \in Known : x.step # "EvmProve" => x.final = FALSE
          <6>1. \A y : AsSlot(y).step = y.step /\ (AsSlot(y).final <=> y.step = "EvmProve")
            BY DEF AsSlot
          <6>2. \A y : AsSlot(y).step # "EvmProve" => AsSlot(y).final = FALSE
            BY <6>1 DEF AsSlot
          <6>3. \A x \in Stored : x.step # "EvmProve" => x.final = FALSE
            BY DEF Stored, LeafRequest, InternalRequest, EvmRequest
          <6>. QED  BY <6>2, <6>3 DEF Known
        <5>. QED  BY <3>2, <5>1 DEF Tree!WellFormed
      <4>. QED  BY <2>1, <3>2, <4>1, ArityAssumption, Tree!SameRequest
    <3>. QED  BY <3>1, <3>2 DEF KnownInv, SlotsInv
  <2>. QED  BY <1>0, <2>1, SameRequests DEF KnownInv, SlotsInv, Tree!AskedInv
<1>3. Tree!BackedInv
  BY <1>0 DEF KnownInv, SlotsInv, Tree!BackedInv
<1>4. Tree!StoredInv
  <2>1. Stored \subseteq Known \ Open
    BY DEF Known, Open
  <2>2. ASSUME NEW p \in leaf_proofs
        PROVE  \E w \in Known \ Open : w.step = "LeafProve" /\ p = LeafOf(w)
    <3>1. LeafRequest(p.start, p.end) \in Stored
      BY DEF Stored
    <3>2. p = LeafOf(LeafRequest(p.start, p.end)) /\ LeafRequest(p.start, p.end).step = "LeafProve"
      BY DEF KnownInv, FlagsInv, LeafOf, LeafRequest
    <3>. QED  BY <2>1, <3>1, <3>2
  <2>3. ASSUME NEW p \in internal_proofs
        PROVE  \E w \in Known \ Open : w.step = "InternalProve" /\ p = InternalOf(w)
    <3>. DEFINE w == InternalRequest(p.layer, p.start, p.end, FALSE)
    <3>1. w \in Stored
      BY DEF Stored
    <3>2. p = InternalOf(w) /\ w.step = "InternalProve"
      BY DEF KnownInv, FlagsInv, InternalOf, InternalRequest
    <3>. QED  BY <2>1, <3>1, <3>2
  <2>4. evm_proof => EvmRequest \in Known \ Open
    BY <2>1 DEF Stored
  <2>. QED  BY <1>0, <2>2, <2>3, <2>4, SameRequests DEF Tree!StoredInv
<1>5. Tree!FlagInv
  BY DEF Tree!FlagInv
<1>. QED  BY <1>1, <1>2, <1>3, <1>4, <1>5 DEF Tree!TreeInv

-----------------------------------------------------------------------------
\* What a step does to the stored proofs: they grow, by what was known.
TreeGrew ==
    /\ num_segments' \in {None, NumSegments}
    /\ num_segments # None => num_segments' = num_segments
    /\ \A k \in Tree!Levels, s \in Nat : Tree!Has(k, s) => Tree!Has(k, s)'
    /\ FinalInternalProofPresent => FinalInternalProofPresent'
    /\ Stored' \subseteq Known
    /\ \A p \in leaf_proofs' : p = LeafOf(p)
    /\ \A p \in internal_proofs' : p = InternalOf(p)

\* New requests, at most one at a time: slots not known before, backed by what
\* is now stored.
Asks(new) ==
    /\ \A x \in new : Tree!NewSlot(x) \/ Tree!NewEvm(x)
    /\ \A x \in new :
          x.step = "InternalProve" => x.final = (x.layer = EffectiveFinalLayer(NumSegments))
    /\ \A x, y \in new : x = y

\* A slot of the tree stays one when proofs are added.
LEMMA SlotStable ==
    ASSUME NEW x
    PROVE  /\ Tree!WellFormed(x)' <=> Tree!WellFormed(x)
           /\ (x.start + Tree!Span(Tree!Level(x)) <= NumSegments)'
                <=> x.start + Tree!Span(Tree!Level(x)) <= NumSegments
<1>1. Tree!Level(x)' = Tree!Level(x)
  BY DEF Tree!Level
<1>. QED  BY <1>1 DEF Tree!WellFormed, Tree!EndOf, Tree!Level

\* Flags do not matter to what a slot is.
LEMMA SlotOfRequest ==
    ASSUME NEW x
    PROVE  /\ Tree!WellFormed(x) => Tree!WellFormed(AsSlot(x))
           /\ Tree!Level(AsSlot(x)) = Tree!Level(x)
           /\ AsSlot(x).start = x.start /\ AsSlot(x).step = x.step
           /\ Tree!Backed(x)' => Tree!Backed(AsSlot(x))'
           /\ Tree!Backed(x) => Tree!Backed(AsSlot(x))
<1>1. /\ AsSlot(x).start = x.start /\ AsSlot(x).step = x.step /\ AsSlot(x).layer = x.layer
      /\ AsSlot(x).end = x.end /\ AsSlot(x).final \in BOOLEAN
  BY DEF AsSlot
<1>2. Tree!Level(AsSlot(x)) = Tree!Level(x)
  BY <1>1 DEF Tree!Level
<1>3. Tree!WellFormed(x) => Tree!WellFormed(AsSlot(x))
  <2>. SUFFICES ASSUME Tree!WellFormed(x) PROVE Tree!WellFormed(AsSlot(x))
    OBVIOUS
  <2>1. /\ x.step \in {"LeafProve", "InternalProve"}
        /\ x.layer \in 0..Tree!EffectiveFinalLayer(NumSegments)
        /\ x.start \in 0..(NumSegments - 1) /\ x.end \in 0..(NumSegments - 1)
    BY DEF Tree!WellFormed
  <2>2. AsSlot(x) \in [step : {"LeafProve", "InternalProve"},
                       layer : 0..Tree!EffectiveFinalLayer(NumSegments),
                       start : 0..(NumSegments - 1), end : 0..(NumSegments - 1), final : BOOLEAN]
    BY <2>1 DEF AsSlot
  <2>. QED  BY <1>1, <1>2, <2>2 DEF Tree!WellFormed
<1>4. Tree!Backed(x) => Tree!Backed(AsSlot(x))
  BY <1>1, <1>2 DEF Tree!Backed
<1>5. Tree!Backed(x)' => Tree!Backed(AsSlot(x))'
  <2>1. Tree!Level(AsSlot(x))' = Tree!Level(x)'
    BY <1>1 DEF Tree!Level
  <2>. QED  BY <1>1, <2>1 DEF Tree!Backed
<1>. QED  BY <1>1, <1>2, <1>3, <1>4, <1>5

\* A step that stores what was known and asks for new slots keeps the invariant.
LEMMA KnownGrows ==
    ASSUME IInv, KnownInv, NEW new, Works' \subseteq Works \cup new, TreeGrew, Asks(new),
           status' = "Completed" => IsReadyForFinalization'
    PROVE  KnownInv'
<1>. USE ManagerAssumption, ArityAssumption
<1>0. Tree!TreeInv
  BY TreeHolds
<1>1. Known' \subseteq Known \cup {AsSlot(x) : x \in new}
  BY DEF Known, TreeGrew, AsSlot
<1>2. ASSUME NEW x \in new, ~Tree!NewSlot(x)
      PROVE  /\ AsSlot(x) = EvmRequest /\ ProofType = "Evm" /\ FinalInternalProofPresent'
             /\ num_segments' # None
  <2>1. Tree!NewEvm(x)
    BY <1>2 DEF Asks
  <2>2. x = EvmRequest /\ ProofType = "Evm" /\ num_segments' # None
    BY <2>1, SameRequests DEF Tree!NewEvm
  <2>3. AsSlot(EvmRequest) = EvmRequest
    BY DEF AsSlot, EvmRequest
  <2>4. FinalInternalProofPresent'
    BY <2>1, SameFinalNext DEF Tree!NewEvm
  <2>. QED  BY <2>2, <2>3, <2>4
<1>3. ASSUME NEW x \in new, Tree!NewSlot(x)
      PROVE  /\ Tree!WellFormed(AsSlot(x)) /\ Tree!Backed(AsSlot(x))'
             /\ num_segments' = None =>
                  AsSlot(x).start + Tree!Span(Tree!Level(AsSlot(x))) <= NumSegments
  BY <1>3, SlotOfRequest DEF Tree!NewSlot
<1>4. \A x \in Known' : x = EvmRequest \/ Tree!WellFormed(x)'
  BY <1>1, <1>2, <1>3, SlotStable DEF KnownInv, SlotsInv
<1>5. num_segments' = None =>
        \A x \in Known' : Tree!WellFormed(x)' /\ (x.start + Tree!Span(Tree!Level(x)) <= NumSegments)'
  BY <1>1, <1>2, <1>3, SlotStable DEF KnownInv, SlotsInv, TreeGrew
<1>6. EvmRequest \in Known' => ProofType = "Evm" /\ FinalInternalProofPresent'
  <2>1. CASE EvmRequest \in Known
    BY <2>1 DEF KnownInv, SlotsInv, TreeGrew
  <2>2. CASE \E x \in new : EvmRequest = AsSlot(x)
    <3>1. PICK x \in new : EvmRequest = AsSlot(x)
      BY <2>2
    <3>2. ~Tree!WellFormed(EvmRequest)
      BY DEF Tree!WellFormed, EvmRequest
    <3>. QED  BY <1>2, <1>3, <3>1, <3>2
  <2>. QED  BY <1>1, <2>1, <2>2
<1>7. ASSUME NEW x \in Known', x.step # "EvmProve" PROVE Tree!Backed(x)'
  <2>1. CASE x \in Known
    <3>1. Tree!Backed(x) /\ Tree!WellFormed(x)
      BY <1>7, <2>1 DEF KnownInv, SlotsInv, EvmRequest
    <3>2. x.start \in Nat /\ x.end \in Nat /\ Tree!Level(x) \in Tree!Levels
      BY <1>0, <3>1, Tree!WellFormedFacts
    <3>3. ASSUME NEW m \in (-2)..(Tree!Level(x) - 1), NEW s \in x.start..x.end, Tree!Aligned(m, s)
          PROVE  Tree!Has(m, s)'
      <4>1. m \in Tree!Levels /\ s \in Nat
        BY <3>2 DEF Tree!Levels
      <4>2. Tree!Has(m, s)
        BY <3>1, <3>3 DEF Tree!Backed
      <4>. QED  BY <4>1, <4>2 DEF TreeGrew
    <3>. QED  BY <3>3 DEF Tree!Backed, Tree!Level
  <2>2. CASE \E y \in new : x = AsSlot(y)
    <3>1. PICK y \in new : x = AsSlot(y)
      BY <2>2
    <3>. QED  BY <1>2, <1>3, <1>7, <3>1 DEF EvmRequest
  <2>. QED  BY <1>1, <2>1, <2>2
<1>8. SlotsInv'
  BY <1>4, <1>5, <1>6, <1>7 DEF SlotsInv, EvmRequest
<1>9. FlagsInv'
  <2>1. ASSUME NEW x \in Works', x.step = "InternalProve"
        PROVE  x.final = (x.layer = EffectiveFinalLayer(NumSegments))
    BY <2>1 DEF KnownInv, FlagsInv, Asks
  <2>. QED  BY <2>1 DEF FlagsInv, TreeGrew, LeafOf, InternalOf
<1>. QED  BY <1>8, <1>9 DEF KnownInv

\* Growth, in the words of TreeProofs.
LEMMA TreeProgress ==
    ASSUME IInv, KnownInv, TreeGrew, NEW done \in SUBSET Known,
           app_proofs' \subseteq 0..(NumSegments - 1), evm_proof' \in BOOLEAN,
           \A p \in leaf_proofs' :
              p \in leaf_proofs \/ \E w \in done : w.step = "LeafProve" /\ p = LeafOf(w),
           \A p \in internal_proofs' :
              p \in internal_proofs \/ \E w \in done : w.step = "InternalProve" /\ p = InternalOf(w),
           evm_proof' => evm_proof \/ EvmRequest \in done
    PROVE  Tree!Progress(done)
<1>. USE ManagerAssumption
<1>1. Tree!Asked = Known
  BY DEF Tree!Asked, Tree!BagToSet, SetToBag
<1>2. num_segments' = IF num_segments' = None THEN Tree!None ELSE NumSegments
  BY SameLayers DEF TreeGrew
<1>3. num_segments' = None => num_segments = None
  BY DEF TreeGrew
<1>4. Tree!FinalInternalProofPresent => Tree!FinalInternalProofPresent'
  BY SameRequests, SameFinalNext DEF TreeGrew
<1>. QED  BY <1>1, <1>2, <1>3, <1>4, SameRequests DEF Tree!Progress, TreeGrew, None

\* handle_app_result: a repeated app proof changes nothing.
LEMMA AppArrives ==
    ASSUME IInv, KnownInv, NEW seg \in 0..(NumSegments - 1), HandleAppResult(AppResult(seg, TRUE))
    PROVE  TreeGrew /\ Asks(AppRequests(seg))
<1>. USE ManagerAssumption, ArityAssumption
<1>0. Tree!TreeInv
  BY TreeHolds
<1>1. num_segments \in {None, NumSegments} /\ app_proofs \subseteq 0..(NumSegments - 1)
      /\ evm_proof \in BOOLEAN
  BY DEF IInv, TypeOK
<1>2. ~OutOfBounds(seg)
  BY <1>1 DEF OutOfBounds
<1>3. app_proofs' = app_proofs \cup {seg}
      /\ UNCHANGED <<status, num_segments, leaf_proofs, internal_proofs, evm_proof>>
  BY <1>2 DEF HandleAppResult, AppResult
<1>4. TreeGrew
  <2>1. \A k \in Tree!Levels, s \in Nat : Tree!Has(k, s) => Tree!Has(k, s)'
    BY <1>3 DEF Tree!Has
  <2>2. FinalInternalProofPresent => FinalInternalProofPresent'
    BY <1>3 DEF FinalInternalProofPresent, SlotIdx
  <2>3. Stored' = Stored
    BY <1>3 DEF Stored
  <2>. QED  BY <1>1, <1>3, <2>1, <2>2, <2>3 DEF TreeGrew, Known, KnownInv, FlagsInv, LeafOf, InternalOf
<1>5. Tree!Progress({})
  BY <1>1, <1>3, <1>4, TreeProgress
<1>6. ASSUME NEW w \in AppRequests(seg)
      PROVE  Tree!NewSlot(w) /\ w.final = FALSE /\ w.step = "LeafProve"
  <2>1. seg \in (0..(NumSegments - 1)) \ app_proofs
    BY <1>6 DEF AppRequests
  <2>2. w \in Tree!AppRequests(seg)
    BY <1>6, SameRequests
  <2>3. Tree!NewSlot(w) /\ w.final = FALSE
    BY <1>0, <1>3, <1>5, <2>1, <2>2, Tree!AppAsks
  <2>. QED  BY <1>6, <2>3 DEF AppRequests, LeafRequest
<1>7. \A v, w \in AppRequests(seg) : v = w
  BY DEF AppRequests
<1>. QED  BY <1>4, <1>6, <1>7 DEF Asks

\* ExecuteE2: the partial last batch may have waited for the count; nothing of
\* the tree is there yet, so there are no tails.
LEMMA E2Arrives ==
    ASSUME IInv, KnownInv, HandleExecuteE2Result(E2Result(NumSegments, TRUE))
    PROVE  TreeGrew /\ Asks(ExecuteE2Requests(NumSegments))
<1>. USE ManagerAssumption, ArityAssumption
<1>0. Tree!TreeInv
  BY TreeHolds
<1>1. num_segments \in {None, NumSegments} /\ app_proofs \subseteq 0..(NumSegments - 1)
      /\ evm_proof \in BOOLEAN
  BY DEF IInv, TypeOK
<1>3. num_segments' = NumSegments /\ UNCHANGED <<status, app_proofs, leaf_proofs, internal_proofs, evm_proof>>
  BY <1>1 DEF HandleExecuteE2Result, E2Result
<1>4. TreeGrew
  <2>1. \A k \in Tree!Levels, s \in Nat : Tree!Has(k, s) => Tree!Has(k, s)'
    BY <1>3 DEF Tree!Has
  <2>2. FinalInternalProofPresent => FinalInternalProofPresent'
    <3>1. FinalInternalProofPresent => num_segments' = num_segments
      BY <1>1, <1>3 DEF FinalInternalProofPresent
    <3>. QED  BY <1>3, <3>1 DEF FinalInternalProofPresent, SlotIdx
  <2>3. Stored' = Stored
    BY <1>3 DEF Stored
  <2>. QED  BY <1>1, <1>3, <2>1, <2>2, <2>3 DEF TreeGrew, Known, KnownInv, FlagsInv, LeafOf, InternalOf
<1>5. CASE num_segments # None
  BY <1>4, <1>5 DEF ExecuteE2Requests, Asks
<1>6. CASE num_segments = None
  <2>1. Tree!Progress({})
    BY <1>1, <1>3, <1>4, TreeProgress
  <2>2. leaf_proofs = {} /\ internal_proofs = {}
    BY <1>6 DEF IInv, SegmentsFirst, TreeNeedsSegments
  <2>3. ASSUME NEW layer \in 0..(LayersFor(NumSegments) - 1) PROVE TailRequests(NumSegments, layer) = {}
    BY <2>2 DEF TailRequests
  <2>4. ExecuteE2Requests(NumSegments) \subseteq FlushPendingLeafBatches(NumSegments)
    BY <2>3 DEF ExecuteE2Requests, TriggerTailProofs
  <2>5. ASSUME NEW w \in FlushPendingLeafBatches(NumSegments)
        PROVE  Tree!NewSlot(w) /\ w.final = FALSE /\ w.step = "LeafProve"
    <3>1. w \in Tree!FlushPendingLeafBatches(NumSegments)
      BY <2>5, SameRequests
    <3>2. num_segments' # None
      BY <1>3 DEF None
    <3>. QED  BY <1>0, <1>3, <1>6, <2>1, <3>1, <3>2, Tree!FlushAsks
  <2>6. \A v, w \in FlushPendingLeafBatches(NumSegments) : v = w
    BY DEF FlushPendingLeafBatches
  <2>. QED  BY <1>4, <2>4, <2>5, <2>6 DEF Asks
<1>. QED  BY <1>5, <1>6

\* A request in flight is a slot of the tree, or the EVM step.
LEMMA WorkIsSlot ==
    ASSUME IInv, KnownInv, NEW work \in Works
    PROVE  /\ AsSlot(work) \in Known
           /\ work.step = "EvmProve" => AsSlot(work) = EvmRequest
           /\ work.step # "EvmProve" => /\ Tree!WellFormed(AsSlot(work))
                                        /\ work.step \in {"LeafProve", "InternalProve"}
                                        /\ work.layer \in Nat
                                        /\ work.start \in 0..(NumSegments - 1)
                                        /\ work.end \in 0..(NumSegments - 1)
           /\ work.step = "LeafProve" => work.layer = 0
           /\ LeafOf(AsSlot(work)) = LeafOf(work) /\ InternalOf(AsSlot(work)) = InternalOf(work)
<1>. USE ManagerAssumption, ArityAssumption
<1>0. Tree!TreeInv
  BY TreeHolds
<1>1. AsSlot(work) \in Known
  BY DEF Known
<1>2. /\ AsSlot(work).step = work.step /\ AsSlot(work).layer = work.layer
      /\ AsSlot(work).start = work.start /\ AsSlot(work).end = work.end
  BY DEF AsSlot
<1>3. AsSlot(work) = EvmRequest \/ Tree!WellFormed(AsSlot(work))
  BY <1>1 DEF KnownInv, SlotsInv
<1>4. AsSlot(work) = EvmRequest => work.step = "EvmProve"
  BY <1>2 DEF EvmRequest
<1>5. Tree!WellFormed(AsSlot(work)) => /\ work.step \in {"LeafProve", "InternalProve"}
                                       /\ work.layer \in Nat
                                       /\ work.start \in 0..(NumSegments - 1)
                                       /\ work.end \in 0..(NumSegments - 1)
                                       /\ work.step = "LeafProve" => work.layer = 0
  <2>. SUFFICES ASSUME Tree!WellFormed(AsSlot(work))
                PROVE  /\ work.step \in {"LeafProve", "InternalProve"}
                       /\ work.layer \in Nat
                       /\ work.start \in 0..(NumSegments - 1)
                       /\ work.end \in 0..(NumSegments - 1)
                       /\ work.step = "LeafProve" => work.layer = 0
    OBVIOUS
  <2>1. work.step = "LeafProve" => work.layer = 0
    BY <1>2 DEF Tree!WellFormed
  <2>. QED  BY <1>0, <1>2, <2>1, Tree!WellFormedFacts
<1>6. LeafOf(AsSlot(work)) = LeafOf(work) /\ InternalOf(AsSlot(work)) = InternalOf(work)
  BY <1>2 DEF LeafOf, InternalOf
<1>. QED  BY <1>1, <1>3, <1>4, <1>5, <1>6

\* handle_leaf_result: the copy of a leaf proof that is there changes nothing.
LEMMA LeafArrives ==
    ASSUME IInv, KnownInv, num_segments # None, NEW work \in Works, work.step = "LeafProve",
           HandleLeafResult(LeafOf(work))
    PROVE  TreeGrew /\ Asks(LeafRequests(LeafOf(work)))
<1>. USE ManagerAssumption, ArityAssumption
<1>. DEFINE leaf == LeafOf(work)
            slot == AsSlot(work)
<1>0. Tree!TreeInv
  BY TreeHolds
<1>1. num_segments = NumSegments /\ app_proofs \subseteq 0..(NumSegments - 1) /\ evm_proof \in BOOLEAN
  BY DEF IInv, TypeOK
<1>2. /\ slot \in Known /\ Tree!WellFormed(slot) /\ LeafOf(slot) = leaf
      /\ work.start \in 0..(NumSegments - 1) /\ work.end \in 0..(NumSegments - 1) /\ work.layer = 0
  BY WorkIsSlot
<1>3. /\ slot.step = "LeafProve" /\ slot.start = work.start /\ slot.end = work.end
      /\ leaf.start = work.start /\ leaf.end = work.end /\ Tree!Level(slot) = -1
      /\ slot = LeafRequest(leaf.start, leaf.end)
  BY <1>2 DEF AsSlot, LeafOf, LeafRequest, Tree!Level
<1>4. leaf.end = Tree!EndOf(-1, leaf.start)
  BY <1>2, <1>3 DEF Tree!WellFormed
<1>5. ASSUME NEW p \in leaf_proofs, p.start = leaf.start PROVE p = leaf
  <2>1. p.end = Tree!EndOf(-1, p.start)
    BY <1>0, Tree!StoredLeaf
  <2>2. p = LeafOf(p) /\ p.end = leaf.end
    BY <1>4, <1>5, <2>1 DEF KnownInv, FlagsInv
  <2>. QED  BY <1>3, <1>5, <2>2 DEF LeafOf
<1>6. leaf_proofs' = leaf_proofs \cup {leaf}
      /\ UNCHANGED <<status, num_segments, app_proofs, internal_proofs, evm_proof>>
  <2>1. ~OutOfBounds(leaf.start) /\ ~OutOfBounds(leaf.end)
    BY <1>1, <1>2, <1>3 DEF OutOfBounds
  <2>. QED  BY <1>5, <2>1 DEF HandleLeafResult
<1>. HIDE DEF leaf, slot
<1>7. TreeGrew
  <2>1. \A k \in Tree!Levels, s \in Nat : Tree!Has(k, s) => Tree!Has(k, s)'
    BY <1>6 DEF Tree!Has
  <2>2. FinalInternalProofPresent => FinalInternalProofPresent'
    BY <1>6 DEF FinalInternalProofPresent, SlotIdx
  <2>3. Stored' \subseteq Stored \cup {slot}
    BY <1>3, <1>6 DEF Stored
  <2>4. leaf = LeafOf(leaf)
    BY DEF leaf, LeafOf
  <2>. QED  BY <1>1, <1>2, <1>6, <2>1, <2>2, <2>3, <2>4
            DEF TreeGrew, Known, KnownInv, FlagsInv, LeafOf, InternalOf
<1>8. Tree!Progress({slot})
  BY <1>1, <1>2, <1>3, <1>6, <1>7, TreeProgress
<1>9. ASSUME NEW w \in LeafRequests(leaf)
      PROVE  /\ Tree!NewSlot(w) /\ w.step = "InternalProve"
             /\ w.final = (w.layer = EffectiveFinalLayer(NumSegments))
  <2>1. \A p \in leaf_proofs : p.start # leaf.start
    BY <1>9 DEF LeafRequests
  <2>2. slot \notin Stored
    <3>1. \A p \in leaf_proofs : slot # LeafRequest(p.start, p.end)
      BY <1>3, <2>1 DEF LeafRequest
    <3>2. \A q \in internal_proofs : slot # InternalRequest(q.layer, q.start, q.end, FALSE)
      BY <1>3 DEF InternalRequest
    <3>3. slot # EvmRequest
      BY <1>3 DEF EvmRequest
    <3>. QED  BY <3>1, <3>2, <3>3 DEF Stored
  <2>3. slot \in Open
    BY <1>2, <2>2 DEF Open
  <2>4. Tree!LeafOf(slot) = leaf /\ w \in Tree!LeafRequests(leaf)
    BY <1>2, <1>9, SameRequests
  <2>5. Tree!NewSlot(w) /\ w.final = FALSE
    BY <1>0, <1>1, <1>3, <1>6, <1>8, <2>3, <2>4, Tree!LeafAsks DEF None
  <2>6. w.step = "InternalProve" /\ w.layer = 0
    BY <1>9 DEF LeafRequests, InternalRequest
  <2>7. Tree!EffectiveFinalLayer(NumSegments) \in Nat \ {0}
    BY <1>0, <1>2, Tree!WellFormedFacts
  <2>. QED  BY <2>5, <2>6, <2>7, SameLayers
<1>10. ASSUME NEW v \in LeafRequests(leaf), NEW w \in LeafRequests(leaf) PROVE v = w
  <2>1. v.start = w.start /\ v.layer = w.layer
    BY <1>10 DEF LeafRequests, InternalRequest
  <2>2. Tree!SameSlot(v, w)
    BY <1>9, <2>1 DEF Tree!SameSlot
  <2>3. v.final = w.final
    BY <1>9, <2>1
  <2>4. Tree!WellFormed(v) /\ Tree!WellFormed(w)
    BY <1>9 DEF Tree!NewSlot
  <2>. QED  BY <2>2, <2>3, <2>4, Tree!SameRequest
<1>. QED  BY <1>7, <1>9, <1>10 DEF Asks, leaf

\* The result of the EVM step.
LEMMA EvmArrives ==
    ASSUME IInv, KnownInv, num_segments # None, NEW work \in Works, work.step = "EvmProve",
           HandleHalo2Result
    PROVE  TreeGrew /\ UNCHANGED status
<1>1. num_segments = NumSegments /\ evm_proof \in BOOLEAN
  BY DEF IInv, TypeOK
<1>2. EvmRequest \in Known
  BY WorkIsSlot
<1>3. ProofType = "Evm"
  BY <1>2 DEF KnownInv, SlotsInv
<1>4. evm_proof' = TRUE /\ UNCHANGED <<status, num_segments, app_proofs, leaf_proofs, internal_proofs>>
  BY <1>3 DEF HandleHalo2Result
<1>5. \A k \in Tree!Levels, s \in Nat : Tree!Has(k, s) => Tree!Has(k, s)'
  BY <1>4 DEF Tree!Has
<1>6. FinalInternalProofPresent => FinalInternalProofPresent'
  BY <1>4 DEF FinalInternalProofPresent, SlotIdx
<1>7. Stored' \subseteq Stored \cup {EvmRequest}
  BY <1>4 DEF Stored
<1>. QED  BY <1>1, <1>2, <1>4, <1>5, <1>6, <1>7
          DEF TreeGrew, Known, KnownInv, FlagsInv, LeafOf, InternalOf

\* handle_internal_result: the copy of an internal proof that is there changes
\* nothing and asks for nothing.
LEMMA InternalArrives ==
    ASSUME IInv, KnownInv, num_segments # None, NEW work \in Works, work.step = "InternalProve",
           HandleInternalResult(InternalOf(work))
    PROVE  TreeGrew /\ Asks(InternalRequests(InternalOf(work)))
<1>. USE ManagerAssumption, ArityAssumption
<1>. DEFINE p == InternalOf(work)
            slot == AsSlot(work)
            top == EffectiveFinalLayer(NumSegments)
<1>0. Tree!TreeInv /\ Tree!Asked = Known
  <2>1. Tree!Asked = Known
    BY DEF Tree!Asked, Tree!BagToSet, SetToBag
  <2>. QED  BY <2>1, TreeHolds
<1>1. num_segments = NumSegments /\ app_proofs \subseteq 0..(NumSegments - 1) /\ evm_proof \in BOOLEAN
  BY DEF IInv, TypeOK
<1>2. /\ slot \in Known /\ Tree!WellFormed(slot) /\ InternalOf(slot) = p
      /\ work.start \in 0..(NumSegments - 1) /\ work.end \in 0..(NumSegments - 1) /\ work.layer \in Nat
  BY WorkIsSlot
<1>3. /\ slot.step = "InternalProve" /\ slot.start = work.start /\ slot.end = work.end
      /\ slot.layer = work.layer /\ slot.final = FALSE
      /\ p.layer = work.layer /\ p.start = work.start /\ p.end = work.end
      /\ slot = InternalRequest(p.layer, p.start, p.end, FALSE)
  <2>1. "InternalProve" # "EvmProve"
    OBVIOUS
  <2>. QED  BY <2>1 DEF AsSlot, InternalOf, InternalRequest
<1>4. /\ SlotIdx(p) \in Nat /\ p.start = SlotIdx(p) * Tree!Span(p.layer)
      /\ p.end = Tree!EndOf(p.layer, p.start)
  <2>1. Tree!InternalOf(slot) = p
    BY <1>2, SameRequests
  <2>. QED  BY <1>0, <1>2, <1>3, <2>1, Tree!InternalSlot, SameLayers
<1>5. ASSUME NEW q \in internal_proofs, q.layer = p.layer, SlotIdx(q) = SlotIdx(p) PROVE q = p
  <2>1. q.start = Tree!SlotIdx(q) * Tree!Span(q.layer) /\ q.end = Tree!EndOf(q.layer, q.start)
    BY <1>0, Tree!StoredInternal
  <2>2. Tree!SlotIdx(q) = SlotIdx(q)
    BY SameLayers
  <2>3. q.start = p.start /\ q.end = p.end
    BY <1>4, <1>5, <2>1, <2>2
  <2>4. q = InternalOf(q) /\ p = InternalOf(p)
    BY DEF KnownInv, FlagsInv, InternalOf
  <2>. QED  BY <1>5, <2>3, <2>4 DEF InternalOf
<1>6. internal_proofs' = internal_proofs \cup {p}
      /\ UNCHANGED <<status, num_segments, app_proofs, leaf_proofs, evm_proof>>
  <2>1. ~OutOfBounds(p.start) /\ ~OutOfBounds(p.end)
    BY <1>1, <1>2, <1>3 DEF OutOfBounds
  <2>. QED  BY <1>5, <2>1 DEF HandleInternalResult
<1>. HIDE DEF p, slot, top
<1>7. TreeGrew
  <2>1. \A k \in Tree!Levels, s \in Nat : Tree!Has(k, s) => Tree!Has(k, s)'
    BY <1>6 DEF Tree!Has
  <2>2. FinalInternalProofPresent => FinalInternalProofPresent'
    BY <1>6 DEF FinalInternalProofPresent, SlotIdx
  <2>3. Stored' \subseteq Stored \cup {slot}
    BY <1>3, <1>6 DEF Stored
  <2>4. p = InternalOf(p)
    BY DEF p, InternalOf
  <2>. QED  BY <1>1, <1>2, <1>6, <2>1, <2>2, <2>3, <2>4
            DEF TreeGrew, Known, KnownInv, FlagsInv, LeafOf, InternalOf
<1>8. Tree!Progress({slot})
  BY <1>1, <1>2, <1>3, <1>6, <1>7, TreeProgress
<1>9. CASE Duplicate(p)
  BY <1>7, <1>9 DEF InternalRequests, Asks, p
<1>10. CASE ~Duplicate(p)
  <2>1. slot \in Open
    <3>1. \A q \in internal_proofs : slot # InternalRequest(q.layer, q.start, q.end, FALSE)
      <4>. SUFFICES ASSUME NEW q \in internal_proofs, slot = InternalRequest(q.layer, q.start, q.end, FALSE)
                    PROVE  FALSE
        OBVIOUS
      <4>1. q.layer = p.layer /\ q.start = p.start
        BY <1>3 DEF InternalRequest
      <4>. QED  BY <1>10, <4>1 DEF Duplicate, SlotIdx
    <3>2. \A a, b : LeafRequest(a, b).step = "LeafProve"
      BY DEF LeafRequest
    <3>3. EvmRequest.step = "EvmProve"
      BY DEF EvmRequest
    <3>. QED  BY <1>2, <1>3, <3>1, <3>2, <3>3 DEF Stored, Open
  <2>2. Tree!InternalOf(slot) = p /\ num_segments # None /\ num_segments' # None
    BY <1>1, <1>2, <1>6, SameRequests DEF None
  <2>3. ~OutOfBounds(p.start) /\ ~OutOfBounds(p.end)
    BY <1>1, <1>2, <1>3 DEF OutOfBounds
  <2>4. Tree!EffectiveFinalLayer(NumSegments) = top /\ Tree!LayersFor(NumSegments) = LayersFor(NumSegments)
    BY SameLayers DEF top
  <2>5. top \in Nat \ {0}
    BY <1>0, <1>2, <2>4, Tree!WellFormedFacts
  <2>6. CASE p.layer = top
    <3>1. InternalRequests(p) = IF ProofType = "Evm" THEN {EvmRequest} ELSE {}
      BY <1>1, <1>10, <2>3, <2>6 DEF InternalRequests, top, None
    <3>2. ProofType = "Evm" => Tree!NewEvm(EvmRequest)
      BY <1>0, <1>3, <1>6, <1>8, <2>1, <2>2, <2>4, <2>6, Tree!EvmAsks, SameRequests
    <3>3. EvmRequest.step # "InternalProve"
      BY DEF EvmRequest
    <3>. QED  BY <1>7, <3>1, <3>2, <3>3 DEF Asks, p
  <2>7. CASE p.layer # top /\ LayersFor(NumSegments) = 1 /\ p.layer = 0
    <3>. DEFINE w == InternalRequest(1, p.start, p.end, TRUE)
    <3>1. InternalRequests(p) = {w}
      BY <1>1, <1>10, <2>3, <2>7 DEF InternalRequests, top, None
    <3>2. /\ w \in [step : {"LeafProve", "InternalProve"}, layer : Nat, start : Nat, end : Nat,
                    final : BOOLEAN]
          /\ w.step = "InternalProve" /\ w.layer = 1 /\ w.start = slot.start /\ w.end = slot.end
          /\ w.final = TRUE
      BY <1>2, <1>3 DEF InternalRequest
    <3>. HIDE DEF w
    <3>3. Tree!NewSlot(w) /\ Tree!EffectiveFinalLayer(NumSegments) = 1
      BY <1>0, <1>3, <1>6, <1>8, <2>1, <2>2, <2>4, <2>7, <3>2, Tree!WrapAsks
    <3>. QED  BY <1>7, <2>4, <3>1, <3>2, <3>3 DEF Asks, p, top
  <2>8. CASE p.layer # top /\ ~(LayersFor(NumSegments) = 1 /\ p.layer = 0)
    <3>1. InternalRequests(p) = ParentRequests(p)
      BY <1>1, <1>10, <2>3, <2>8 DEF InternalRequests, top, None
    <3>2. ASSUME NEW w \in ParentRequests(p)
          PROVE  /\ Tree!NewSlot(w) /\ w.step = "InternalProve" /\ w.layer = p.layer + 1
                 /\ w.final <=> p.layer + 1 = top
      <4>1. w \in Tree!ParentRequests(p)
        BY <3>2, SameRequests
      <4>2. /\ slot.layer # Tree!EffectiveFinalLayer(NumSegments)
            /\ ~(Tree!LayersFor(NumSegments) = 1 /\ slot.layer = 0)
        BY <1>3, <2>4, <2>8
      <4>3. (num_segments' = None) = (num_segments = None)
        BY <2>2
      <4>4. /\ Tree!NewSlot(w) /\ w.step = "InternalProve" /\ w.layer = slot.layer + 1
            /\ w.final <=> (~(num_segments = None)
                            /\ slot.layer + 1 = Tree!EffectiveFinalLayer(NumSegments))
        BY <1>0, <1>3, <1>6, <1>8, <2>1, <2>2, <4>1, <4>2, <4>3, Tree!ParentAsks
      <4>. QED  BY <1>3, <2>2, <2>4, <4>4
    <3>3. ASSUME NEW w \in ParentRequests(p) PROVE w.final = (w.layer = top)
      <4>1. w.final \in BOOLEAN
        BY <3>2, <3>3, <1>0, Tree!WellFormedFacts DEF Tree!NewSlot
      <4>2. w.final <=> w.layer = top
        BY <3>2, <3>3
      <4>. QED  BY <4>1, <4>2, Zenon
    <3>4. ASSUME NEW v \in ParentRequests(p), NEW w \in ParentRequests(p)
          PROVE  v = w
      <4>0. v.start = w.start
        <5>1. \A q \in internal_proofs \cup {p} : q.start \in Nat
          BY <1>0, <1>2, <1>3, Tree!StoredInternal
        <5>2. ASSUME NEW S \in SUBSET (internal_proofs \cup {p}), NEW a \in S, NEW b \in S,
                     \A o \in S : a.start <= o.start, \A o \in S : b.start <= o.start
              PROVE  a.start = b.start
          BY <5>1, <5>2
        <5>. DEFINE first == (SlotIdx(p) \div InternalArity) * InternalArity
                    full  == first + InternalArity - 1
                    here  == NumProofsAtInternalLayer(NumLeafProofs(num_segments), p.layer, InternalArity)
                    last  == IF num_segments # None /\ here - 1 < full THEN here - 1 ELSE full
                    group == {q \in internal_proofs \cup {p} :
                                q.layer = p.layer /\ SlotIdx(q) \in first..last}
        <5>3. ASSUME NEW x \in ParentRequests(p)
              PROVE  \E a \in group : x.start = a.start /\ \A o \in group : a.start <= o.start
          BY <5>3 DEF ParentRequests, InternalRequest
        <5>4. group \in SUBSET (internal_proofs \cup {p})
          OBVIOUS
        <5>. HIDE DEF group
        <5>. QED  BY <5>2, <5>3, <5>4
      <4>1. v.final = w.final /\ Tree!SameSlot(v, w)
        BY <3>2, <3>3, <4>0 DEF Tree!SameSlot
      <4>2. Tree!WellFormed(v) /\ Tree!WellFormed(w)
        BY <3>2 DEF Tree!NewSlot
      <4>. QED  BY <4>1, <4>2, Tree!SameRequest
    <3>. QED  BY <1>7, <3>1, <3>2, <3>3, <3>4 DEF Asks, p, top
  <2>. QED  BY <2>6, <2>7, <2>8
<1>. QED  BY <1>9, <1>10
-----------------------------------------------------------------------------
\* A step that leaves the results alone.
LEMMA TreeUnchanged ==
    ASSUME IInv, KnownInv, UNCHANGED treeVars
    PROVE  TreeGrew /\ Asks({}) /\ (IsReadyForFinalization' <=> IsReadyForFinalization)
<1>1. UNCHANGED <<num_segments, app_proofs, leaf_proofs, internal_proofs, evm_proof>>
  BY DEF treeVars
<1>2. FinalInternalProofPresent' <=> FinalInternalProofPresent
  BY <1>1 DEF FinalInternalProofPresent, SlotIdx
<1>3. \A k \in Tree!Levels, s \in Nat : Tree!Has(k, s) => Tree!Has(k, s)'
  BY <1>1 DEF Tree!Has
<1>4. Stored' = Stored
  BY <1>1 DEF Stored
<1>5. num_segments \in {None, NumSegments}
  BY DEF IInv, TypeOK
<1>6. TreeGrew
  BY <1>1, <1>2, <1>3, <1>4, <1>5 DEF TreeGrew, Known, KnownInv, FlagsInv, LeafOf, InternalOf
<1>. QED  BY <1>1, <1>2, <1>6 DEF Asks, IsReadyForFinalization

\* It keeps the invariant if it invents no work and completes only what is ready.
LEMMA NothingNew ==
    ASSUME IInv, KnownInv, UNCHANGED treeVars, Works' \subseteq Works,
           status' = "Completed" => status = "Completed" \/ IsReadyForFinalization
    PROVE  KnownInv'
<1>1. TreeGrew /\ Asks({}) /\ (IsReadyForFinalization' <=> IsReadyForFinalization)
  BY TreeUnchanged
<1>2. status' = "Completed" => IsReadyForFinalization'
  BY <1>1 DEF KnownInv
<1>3. Works' \subseteq Works \cup {}
  OBVIOUS
<1>. QED  BY <1>1, <1>2, <1>3, KnownGrows

\* A step's works come from those that were there and the follow-ups it makes.
LEMMA WorksFrom ==
    ASSUME NEW S,
           \A g \in handlers' : g.todo \subseteq S,
           Queued' \subseteq S,
           \A s \in sends' : s.work \in S,
           \A j \in running' : j.work \in S
    PROVE  Works' \subseteq S
<1>1. ASSUME NEW x \in Todos' PROVE x \in S
  <2>1. PICK h \in handlers' : x \in h.todo
    BY <1>1 DEF Todos
  <2>. QED  BY <2>1
<1>2. Sent' \subseteq S /\ Worked' \subseteq S
  BY DEF Sent, Worked
<1>. QED  BY <1>1, <1>2 DEF Works

\* What the places hold, in terms of the places.
LEMMA WorksOfState ==
    /\ \A g \in handlers : g.todo \subseteq Works
    /\ Queued \subseteq Works
    /\ \A s \in sends : s.work \in Works
    /\ \A j \in running : j.work \in Works
<1>1. ASSUME NEW g \in handlers, NEW x \in g.todo PROVE x \in Todos
  BY <1>1 DEF Todos
<1>2. \A s \in sends : s.work \in Sent
  BY DEF Sent
<1>3. \A j \in running : j.work \in Worked
  BY DEF Worked
<1>. QED  BY <1>1, <1>2, <1>3 DEF Works

\* A result that an unsealed proof takes in: what it makes possible is asked
\* for, once.
LEMMA ResultGrows ==
    ASSUME IInv, KnownInv, NEW r, HandleProofResult(r), ~IsSealedForResults, r.ok,
           \/ r = ErrorResult
           \/ \E ok \in BOOLEAN : r = E2Result(NumSegments, ok)
           \/ \E seg \in 0..(NumSegments - 1) : r = AppResult(seg, TRUE)
           \/ \E x \in Works : r = TreeResult(x, TRUE) /\ x.step \in Steps /\ Safe
    PROVE  TreeGrew /\ Asks(Requests(r)) /\ status' = "InProgress"
<1>0. status = "InProgress"
  BY DEF IsSealedForResults
<1>1. ASSUME NEW new, Requests(r) \subseteq new, Asks(new) PROVE Asks(Requests(r))
  BY <1>1 DEF Asks
<1>2. CASE \E ok \in BOOLEAN : r = E2Result(NumSegments, ok)
  <2>1. r = E2Result(NumSegments, TRUE)
    BY <1>2 DEF E2Result
  <2>2. HandleExecuteE2Result(E2Result(NumSegments, TRUE))
    BY <2>1 DEF HandleProofResult, E2Result
  <2>3. Requests(r) \subseteq ExecuteE2Requests(NumSegments)
    BY <2>1 DEF Requests, E2Result
  <2>4. status' = "InProgress"
    BY <1>0, <2>2, ManagerAssumption DEF HandleExecuteE2Result, E2Result, Fail
  <2>. QED  BY <1>1, <2>2, <2>3, <2>4, E2Arrives
<1>3. ASSUME NEW seg \in 0..(NumSegments - 1), r = AppResult(seg, TRUE)
      PROVE  TreeGrew /\ Asks(Requests(r)) /\ status' = "InProgress"
  <2>1. HandleAppResult(AppResult(seg, TRUE))
    BY <1>3 DEF HandleProofResult, AppResult
  <2>2. Requests(r) \subseteq AppRequests(seg)
    BY <1>3 DEF Requests, AppResult
  <2>3. status' = "InProgress"
    BY <1>0, <2>1 DEF HandleAppResult
  <2>. QED  BY <1>1, <2>1, <2>2, <2>3, AppArrives
<1>4. ASSUME NEW x \in Works, r = TreeResult(x, TRUE), x.step \in Steps, Safe
      PROVE  TreeGrew /\ Asks(Requests(r)) /\ status' = "InProgress"
  <2>0. num_segments # None
    BY <1>0, <1>4 DEF Safe
  <2>1. CASE x.step = "LeafProve"
    <3>1. HandleLeafResult(LeafOf(x))
      BY <1>4, <2>1 DEF HandleProofResult, TreeResult
    <3>2. Requests(r) \subseteq LeafRequests(LeafOf(x))
      BY <1>4, <2>1 DEF Requests, TreeResult
    <3>3. status' = "InProgress"
      BY <1>0, <3>1 DEF HandleLeafResult
    <3>. QED  BY <1>1, <2>0, <2>1, <3>1, <3>2, <3>3, LeafArrives
  <2>2. CASE x.step = "InternalProve"
    <3>1. HandleInternalResult(InternalOf(x))
      BY <1>4, <2>2 DEF HandleProofResult, TreeResult
    <3>2. Requests(r) \subseteq InternalRequests(InternalOf(x))
      BY <1>4, <2>2 DEF Requests, TreeResult
    <3>3. status' = "InProgress"
      BY <1>0, <3>1 DEF HandleInternalResult
    <3>. QED  BY <1>1, <2>0, <2>2, <3>1, <3>2, <3>3, InternalArrives
  <2>3. CASE x.step = "EvmProve"
    <3>1. HandleHalo2Result
      BY <1>4, <2>3 DEF HandleProofResult, TreeResult
    <3>2. Requests(r) \subseteq {}
      BY <1>4, <2>3 DEF Requests, TreeResult
    <3>3. TreeGrew /\ UNCHANGED status
      BY <2>0, <2>3, <3>1, EvmArrives
    <3>4. Asks({})
      BY DEF Asks
    <3>. QED  BY <1>0, <1>1, <3>2, <3>3, <3>4
  <2>. QED  BY <1>4, <2>1, <2>2, <2>3 DEF Steps
<1>5. r # ErrorResult
  BY DEF ErrorResult
<1>. QED  BY <1>2, <1>3, <1>4, <1>5

\* proof_result up to the release of the ProofState lock: what the result makes
\* possible is asked for, once.
LEMMA KnownAtArrival ==
    ASSUME IInv, KnownInv, NEW w, NEW job, NEW copy, NEW r, ProofResult(w, job, copy, r),
           running' \subseteq running,
           \/ r = ErrorResult
           \/ \E ok \in BOOLEAN : r = E2Result(NumSegments, ok)
           \/ \E seg \in 0..(NumSegments - 1) : r = AppResult(seg, TRUE)
           \/ \E x \in Works : r = TreeResult(x, TRUE) /\ x.step \in Steps /\ Safe
    PROVE  KnownInv'
<1>1. HandleProofResult(r) /\ UNCHANGED schedulerVars
  BY DEF ProofResult
<1>2. UNCHANGED <<pending, sends>>
  BY <1>1 DEF schedulerVars
<1>3. \A g \in handlers' : g \in handlers \/ g.todo = {} \/ (~IsSealedForResults /\ g.todo = Requests(r))
  BY DEF ProofResult
<1>4. ASSUME NEW new, IsSealedForResults \/ Requests(r) \subseteq new PROVE Works' \subseteq Works \cup new
  <2>1. \A g \in handlers' : g.todo \subseteq Works \cup new
    BY <1>3, <1>4, WorksOfState
  <2>2. Queued' = Queued
    BY <1>2 DEF Queued
  <2>. QED  BY <1>2, <2>1, <2>2, WorksOfState, WorksFrom
<1>5. CASE IsSealedForResults
  <2>1. Works' \subseteq Works \cup {}
    BY <1>4, <1>5
  <2>2. UNCHANGED treeVars /\ status' = status
    BY <1>1, <1>5 DEF HandleProofResult, proofVars, treeVars
  <2>. QED  BY <2>1, <2>2, NothingNew
<1>6. CASE ~IsSealedForResults /\ ~r.ok
  <2>1. Works' \subseteq Works \cup {}
    BY <1>4, <1>6 DEF Requests
  <2>2. UNCHANGED treeVars /\ status' = "Failing"
    BY <1>1, <1>6 DEF HandleProofResult, Fail
  <2>. QED  BY <2>1, <2>2, NothingNew
<1>7. CASE ~IsSealedForResults /\ r.ok
  <2>0. status = "InProgress"
    BY <1>7 DEF IsSealedForResults
  <2>1. TreeGrew /\ Asks(Requests(r)) /\ status' = "InProgress"
    BY <1>1, <1>7, ResultGrows
  <2>2. Works' \subseteq Works \cup Requests(r)
    BY <1>4
  <2>. QED  BY <2>1, <2>2, KnownGrows
<1>. QED  BY <1>5, <1>6, <1>7

\* A worker's post or silence.
LEMMA KnownAtWorkerStep == IInv /\ KnownInv /\ WorkerStep => KnownInv'
<1>. SUFFICES ASSUME IInv, KnownInv, WorkerStep PROVE KnownInv'
  OBVIOUS
<1>1. ASSUME NEW w \in StarkWorkers, NEW seg \in unsent[w], PostApp(w, seg) PROVE KnownInv'
  <2>1. seg \in 0..(NumSegments - 1)
    BY DEF IInv, TypeOK
  <2>2. ProofResult(w, ShardJob, 0, AppResult(seg, TRUE)) /\ running' = running
    BY <1>1 DEF PostApp
  <2>. QED  BY <2>1, <2>2, KnownAtArrival
<1>2. ASSUME NEW ok \in BOOLEAN, PostExecuteE2(ok) PROVE KnownInv'
  <2>1. ProofResult(0, ShardJob, 0, E2Result(NumSegments, ok)) /\ running' = running
    BY <1>2 DEF PostExecuteE2
  <2>2. \E v \in BOOLEAN : E2Result(NumSegments, ok) = E2Result(NumSegments, v)
    BY <1>2
  <2>. QED  BY <2>1, <2>2, KnownAtArrival
<1>3. ASSUME NEW job \in running, PostTree(job) PROVE KnownInv'
  <2>1. job.work \in Works /\ job.work.step \in Steps /\ Safe
    BY WorksOfState DEF IInv, TypeOK, SegmentsFirst
  <2>2. /\ ProofResult(job.worker, job.work, job.copy, TreeResult(job.work, TRUE))
        /\ running' = running \ {job}
    BY <1>3 DEF PostTree
  <2>. QED  BY <2>1, <2>2, KnownAtArrival
<1>4. ASSUME NEW job \in running, PostTreeError(job) PROVE KnownInv'
  <2>1. ProofResult(job.worker, job.work, job.copy, ErrorResult) /\ running' = running \ {job}
    BY <1>4 DEF PostTreeError
  <2>. QED  BY <2>1, KnownAtArrival
<1>5. ASSUME NEW w \in StarkWorkers, NEW queued \in SUBSET unsent[w], NEW e2Queued \in BOOLEAN,
             PostShardError(w, queued, e2Queued)
      PROVE  KnownInv'
  <2>1. ProofResult(w, ShardJob, 0, ErrorResult) /\ running' = running
    BY <1>5 DEF PostShardError
  <2>. QED  BY <2>1, KnownAtArrival
<1>6. CASE LoseResult
  <2>1. UNCHANGED <<proofVars, schedulerVars, handlers>> /\ running' \subseteq running
    BY <1>6 DEF LoseResult
  <2>2. UNCHANGED treeVars /\ UNCHANGED <<status, pending, sends>>
    BY <2>1 DEF proofVars, treeVars, schedulerVars
  <2>3. Queued' = Queued
    BY <2>2 DEF Queued
  <2>4. Works' \subseteq Works
    BY <2>1, <2>2, <2>3, WorksOfState, WorksFrom
  <2>. QED  BY <2>2, <2>4, NothingNew
<1>. QED  BY <1>1, <1>2, <1>3, <1>4, <1>5, <1>6 DEF WorkerStep
\* The steps of proof_result past the ProofState lock move work on.
LEMMA KnownAtHandlerStep ==
    ASSUME IInv, KnownInv, NEW h \in handlers, HandlerStep(h)
    PROVE  KnownInv'
<1>0. DOMAIN h = {"worker", "work", "copy", "res", "sealed", "pc", "todo"}
  BY DEF IInv, TypeOK
<1>1. ASSUME NEW pc, Goto(h, pc) PROVE \A g \in handlers' : g \in handlers \/ g.todo = h.todo
  BY <1>0, <1>1 DEF Goto
<1>2. ASSUME NEW todo, FollowUp(h, todo), todo \subseteq h.todo
      PROVE  \A g \in handlers' : g \in handlers \/ g.todo \subseteq h.todo
  <2>1. \A g \in handlers' : g \in handlers \/ g = [h EXCEPT !.pc = "follow", !.todo = todo]
    BY <1>2 DEF FollowUp
  <2>2. [h EXCEPT !.pc = "follow", !.todo = todo].todo = todo
    BY <1>0
  <2>. QED  BY <1>2, <2>1, <2>2
<1>3. \A g \in handlers' : g.todo \subseteq Works
  <2>1. (\E pc : Goto(h, pc)) \/ (\E todo \in SUBSET h.todo : FollowUp(h, todo))
    BY DEF HandlerStep, HandlerSegments, HandlerDrain, HandlerComplete, HandlerDequeue,
           HandlerSealed, HandlerFinalize, HandlerTry, HandlerRemove, HandlerFollowUp
  <2>2. \A g \in handlers' : g \in handlers \/ g.todo \subseteq h.todo
    BY <1>1, <1>2, <2>1
  <2>. QED  BY <2>2, WorksOfState
<1>4. UNCHANGED treeVars /\ UNCHANGED running
  BY DEF HandlerStep, HandlerSegments, HandlerDrain, HandlerComplete, HandlerDequeue,
         HandlerSealed, HandlerFinalize, HandlerTry, HandlerRemove, HandlerFollowUp,
         TransitionFailingToFailed, proofVars, treeVars, workerVars
<1>5. status' = "Completed" => status = "Completed" \/ IsReadyForFinalization
  <2>1. CASE HandlerFinalize(h)
    BY <2>1 DEF HandlerFinalize
  <2>2. CASE HandlerTry(h)
    BY <2>2 DEF HandlerTry, TransitionFailingToFailed, proofVars
  <2>3. CASE ~HandlerFinalize(h) /\ ~HandlerTry(h)
    <3>1. UNCHANGED proofVars
      BY <2>3 DEF HandlerStep, HandlerSegments, HandlerDrain, HandlerComplete, HandlerDequeue,
                  HandlerSealed, HandlerRemove, HandlerFollowUp
    <3>. QED  BY <3>1 DEF proofVars
  <2>. QED  BY <2>1, <2>2, <2>3
<1>6. ASSUME NEW Q, Places(Q), Q \subseteq Works
      PROVE  Queued' \subseteq Works /\ \A s \in sends' : s.work \in Works
  <2>1. \A s \in sends' : s \in sends \/ s.work \in Q
    BY <1>6 DEF Places
  <2>2. Queued' \subseteq Q
    BY <1>6 DEF Places, Queued
  <2>. QED  BY <1>6, <2>1, <2>2, WorksOfState
<1>7. Queued' \subseteq Works /\ \A s \in sends' : s.work \in Works
  <2>1. CASE HandlerDrain(h) \/ HandlerDequeue(h)
    <3>1. Places(Queued)
      BY <2>1, TryDequeueWorkPlaces DEF HandlerDrain, HandlerDequeue
    <3>. QED  BY <1>6, <3>1, WorksOfState
  <2>2. CASE HandlerFollowUp(h)
    <3>1. PICK work \in h.todo : EnqueueOrAssign(work)
      BY <2>2 DEF HandlerFollowUp
    <3>2. work.step = "EvmProve" => Safe
      BY DEF IInv, SegmentsFirst
    <3>3. Places(Queued \cup {work})
      BY <3>1, <3>2, EnqueueOrAssignPlaces
    <3>. QED  BY <1>6, <3>3, WorksOfState
  <2>3. CASE UNCHANGED <<pending, sends>>
    BY <2>3, WorksOfState DEF Queued
  <2>4. HandlerDrain(h) \/ HandlerDequeue(h) \/ HandlerFollowUp(h) \/ UNCHANGED <<pending, sends>>
    BY DEF HandlerStep, HandlerSegments, HandlerComplete, HandlerSealed, HandlerFinalize, HandlerTry,
           HandlerRemove, SetNumSegments, ApplyCompletion, RemoveProof, schedulerVars
  <2>. QED  BY <2>1, <2>2, <2>3, <2>4
<1>8. Works' \subseteq Works
  BY <1>3, <1>4, <1>7, WorksOfState, WorksFrom
<1>. QED  BY <1>4, <1>5, <1>8, NothingNew

\* send_work_with_retry carries one request from the sends to the jobs.
LEMMA KnownAtSendStep ==
    ASSUME IInv, KnownInv, NEW s \in sends, SendStep(s)
    PROVE  KnownInv'
<1>0. DOMAIN s = {"worker", "work", "tries", "pc"}
  BY DEF IInv, TypeOK
<1>1. UNCHANGED <<treeVars, handlers, pending>>
  BY DEF SendStep, SendAttempt, SendRelease, SendFail, SendTry, SendRemove, TransitionFailingToFailed,
         ReleaseWorker, RemoveProof, sendFrame, proofVars, treeVars
<1>2. status' = "Completed" => status = "Completed"
  BY DEF SendStep, SendAttempt, SendRelease, SendFail, SendTry, SendRemove, TransitionFailingToFailed,
         proofVars
<1>3. running' \subseteq running \cup {Job(s)}
  BY DEF SendStep, SendAttempt, SendRelease, SendFail, SendTry, SendRemove, workerVars
<1>4. /\ Job(s).work = s.work /\ Resend(s).work = s.work
      /\ \A pc : [s EXCEPT !.pc = pc].work = s.work
  BY <1>0 DEF Job, Resend
<1>5. \A t \in sends' : t \in sends \/ t = Resend(s) \/ \E pc : t = [s EXCEPT !.pc = pc]
  BY DEF SendStep, SendAttempt, SendRelease, SendFail, SendTry, SendRemove, SendGoto
<1>6. \A t \in sends' : t.work \in Works
  BY <1>4, <1>5, WorksOfState
<1>7. \A j \in running' : j.work \in Works
  BY <1>3, <1>4, WorksOfState
<1>8. Works' \subseteq Works
  <2>1. Queued' = Queued
    BY <1>1 DEF Queued
  <2>. QED  BY <1>1, <1>6, <1>7, <2>1, WorksOfState, WorksFrom
<1>. QED  BY <1>1, <1>2, <1>8, NothingNew

\* Every step keeps it,
LEMMA KnownAtNext == IInv /\ KnownInv /\ [Next]_vars => KnownInv'
<1>. SUFFICES ASSUME IInv, KnownInv, [Next]_vars PROVE KnownInv'
  OBVIOUS
<1>1. ASSUME UNCHANGED <<treeVars, handlers, pending, sends, running>>,
             status' = "Completed" => status = "Completed"
      PROVE  KnownInv'
  <2>1. Works' = Works
    BY <1>1 DEF Works, Todos, Queued, Sent, Worked
  <2>. QED  BY <1>1, <2>1, NothingNew
<1>2. CASE WorkerStep
  BY <1>2, KnownAtWorkerStep
<1>3. CASE StarterStep
  <2>1. UNCHANGED <<treeVars, handlers, pending, sends, running>>
    BY <1>3 DEF StarterStep, Kickoff, StartJoin, StartRelease, StartTry, StartRemove, MarkFailing,
       TransitionFailingToFailed, ReleaseWorker, RemoveProof, proofVars, treeVars, schedulerVars,
       workerVars
  <2>2. status' = "Completed" => status = "Completed"
    BY <1>3 DEF StarterStep, Kickoff, StartJoin, StartRelease, StartTry, StartRemove, MarkFailing,
       TransitionFailingToFailed, proofVars
  <2>. QED  BY <1>1, <2>1, <2>2
<1>4. CASE WatchdogStep \/ CancelRemove \/ MinutePasses \/ CancelProof \/ UNCHANGED vars
  <2>1. UNCHANGED <<treeVars, handlers, pending, sends, running>>
    BY <1>4 DEF WatchdogStep, WatchdogTry, WatchdogTimeout, WatchdogRemove, CancelRemove,
       MinutePasses, CancelProof, MarkFailing, TransitionFailingToFailed, RemoveProof, proofVars,
       treeVars, schedulerVars, workerVars, vars
  <2>2. status' = "Completed" => status = "Completed"
    BY <1>4 DEF WatchdogStep, WatchdogTry, WatchdogTimeout, WatchdogRemove, CancelRemove,
       MinutePasses, CancelProof, MarkFailing, TransitionFailingToFailed, proofVars, vars
  <2>. QED  BY <1>1, <2>1, <2>2
<1>. QED  BY <1>2, <1>3, <1>4, KnownAtHandlerStep, KnownAtSendStep DEF Next, ManagerStep

\* and it holds at the start.
LEMMA KnownAtInit == Init => KnownInv
<1>. SUFFICES ASSUME Init PROVE KnownInv
  OBVIOUS
<1>1. /\ status = "InProgress" /\ leaf_proofs = {} /\ internal_proofs = {} /\ evm_proof = FALSE
      /\ handlers = {} /\ pending = <<>> /\ sends = {} /\ running = {}
  BY DEF Init, NewProofState, InitProof
<1>2. Queued = {}
  BY <1>1 DEF Queued
<1>3. Works = {}
  BY <1>1, <1>2 DEF Works, Todos, Sent, Worked
<1>4. Stored = {}
  BY <1>1 DEF Stored
<1>5. Known = {}
  BY <1>3, <1>4 DEF Known
<1>. QED  BY <1>1, <1>3, <1>5 DEF KnownInv, SlotsInv, FlagsInv

\* A Completed proof has an app proof of every segment and a final internal
\* proof over all of them, for every number of workers and segments, every
\* arity and every mixture of retries, duplicates, losses, errors, cancels and
\* timeouts: a request that was delivered twice, or answered after a failure,
\* can neither leave a segment out nor put a proof in the wrong slot.
THEOREM CompletedCoversAllHolds == Spec => []CompletedCoversAll
<1>. USE ManagerAssumption, ArityAssumption
<1>1. ASSUME IInv, KnownInv, status = "Completed"
      PROVE  /\ app_proofs = 0..(NumSegments - 1)
             /\ \E p \in internal_proofs :
                   p.layer = EffectiveFinalLayer(NumSegments) /\ p.start = 0 /\ p.end = NumSegments - 1
  <2>1. Tree!TreeInv
    BY <1>1, TreeHolds
  <2>2. Tree!FinalProofCoversAll
    BY <2>1, Tree!FinalCovers
  <2>3. Tree!IsReadyForFinalization
    BY <1>1, SameRequests DEF KnownInv, IsReadyForFinalization, Tree!IsReadyForFinalization
  <2>4. Tree!EffectiveFinalLayer(NumSegments) = EffectiveFinalLayer(NumSegments)
    BY SameLayers
  <2>. QED  BY <2>2, <2>3, <2>4 DEF Tree!FinalProofCoversAll
<1>2. IInv /\ KnownInv => CompletedCoversAll
  BY <1>1 DEF CompletedCoversAll
<1>3. Init => IInv /\ KnownInv
  BY InitEstablishes, KnownAtInit
<1>4. IInv /\ KnownInv /\ [Next]_vars => (IInv /\ KnownInv)'
  BY NextPreserves, KnownAtNext
<1>. QED  BY <1>2, <1>3, <1>4, PTL DEF Spec
-----------------------------------------------------------------------------
(* Every slot is worked on once *)

\* A slot, and the slots in follow-ups, in the queue, on their way, at work and
\* proved.
Key(x) == <<x.step, x.layer, x.start>>
TodoKeys == {Key(x) : x \in Todos}
QueueKeys == {Key(x) : x \in Queued}
SendKeys == {Key(s.work) : s \in sends}
RunKeys == {Key(j.work) : j \in running}
StoredKeys == {Key(x) : x \in Stored}

\* No place holds a slot twice,
TodoOnce ==
    \A g, h \in handlers : \A x \in g.todo, y \in h.todo : Key(x) = Key(y) => g = h /\ x = y
QueueOnce == \A i, j \in DOMAIN pending : Key(pending[i]) = Key(pending[j]) => i = j
SendOnce == \A s, t \in sends : Key(s.work) = Key(t.work) => s = t
RunOnce == \A j, k \in running : Key(j.work) = Key(k.work) => j = k

\* no two places hold the same one,
PlacesApart ==
    /\ TodoKeys \cap (QueueKeys \cup SendKeys \cup RunKeys \cup StoredKeys) = {}
    /\ QueueKeys \cap (SendKeys \cup RunKeys \cup StoredKeys) = {}
    /\ SendKeys \cap (RunKeys \cup StoredKeys) = {}
    /\ RunKeys \cap StoredKeys = {}

\* and there are finitely many.
TodoFinite == IsFiniteSet(handlers) /\ \A h \in handlers : IsFiniteSet(h.todo)
PlacesFinite == TodoFinite /\ IsFiniteSet(sends) /\ IsFiniteSet(running)

OnceInv ==
    /\ TodoOnce /\ QueueOnce /\ SendOnce /\ RunOnce
    /\ PlacesApart /\ PlacesFinite

\* What removal from a sequence leaves.
LEMMA RemoveAtIs ==
    ASSUME NEW s, NEW S, s \in Seq(S), NEW k \in DOMAIN s
    PROVE  /\ RemoveAt(s, k) \in Seq(S)
           /\ Len(RemoveAt(s, k)) = Len(s) - 1
           /\ \A i \in 1..(Len(s) - 1) : /\ i < k => RemoveAt(s, k)[i] = s[i]
                                         /\ i >= k => RemoveAt(s, k)[i] = s[i + 1]
<1>. DEFINE a == SubSeq(s, 1, k - 1)
            b == SubSeq(s, k + 1, Len(s))
<1>1. a \in Seq(S) /\ Len(a) = k - 1 /\ \A i \in 1..(k - 1) : a[i] = s[i]
  OBVIOUS
<1>2. b \in Seq(S) /\ Len(b) = Len(s) - k /\ \A i \in 1..(Len(s) - k) : b[i] = s[k + i]
  BY SMTT(40)
<1>. k \in 1..Len(s) /\ Len(s) \in Nat
  OBVIOUS
<1>. HIDE DEF a, b
<1>3. a \o b \in Seq(S) /\ Len(a \o b) = Len(s) - 1
  BY <1>1, <1>2
<1>4. ASSUME NEW i \in DOMAIN (a \o b)
      PROVE  (i < k => (a \o b)[i] = s[i]) /\ (i >= k => (a \o b)[i] = s[i + 1])
  <2>1. i \in 1..(Len(s) - 1)
    BY <1>3
  <2>2. CASE i <= k - 1
    BY <2>1, <2>2, <1>1, <1>2
  <2>3. CASE i > k - 1
    <3>1. (a \o b)[i] = b[i - (k - 1)]
      BY <2>1, <2>3, <1>1, <1>2
    <3>2. i - (k - 1) \in 1..(Len(s) - k)
      BY <2>1, <2>3
    <3>3. (a \o b)[i] = s[i + 1]
      <4>1. k + (i - (k - 1)) = i + 1
        BY <2>1
      <4>. QED  BY <4>1, <3>1, <3>2, <1>2
    <3>4. i \in Int /\ k \in Int /\ ~(i < k)
      BY <2>1, <2>3
    <3>. QED  BY <3>3, <3>4
  <2>. QED  BY <2>1, <2>2, <2>3
<1>5. DOMAIN (a \o b) = 1..(Len(s) - 1)
  BY <1>3
<1>6. RemoveAt(s, k) = a \o b
  BY DEF RemoveAt, a, b
<1>. HIDE DEF RemoveAt
<1>. QED  BY <1>3, <1>4, <1>5, <1>6, Zenon

\* What appending to a sequence adds.
LEMMA AppendIs ==
    ASSUME NEW s, NEW S, s \in Seq(S), NEW x
    PROVE  /\ Append(s, x) \in Seq(S \cup {x})
           /\ Len(Append(s, x)) = Len(s) + 1 /\ Len(s) \in Nat
           /\ \A i \in 1..(Len(s) + 1) : Append(s, x)[i] = IF i <= Len(s) THEN s[i] ELSE x
<1>1. s \in Seq(S \cup {x}) /\ x \in S \cup {x} /\ Len(s) \in Nat
  OBVIOUS
<1>. QED  BY <1>1

\* Taking an item out of the queue takes its slot out.
LEMMA QueueAfterRemoval ==
    ASSUME PendingIsASequence, QueueOnce, NEW k \in DOMAIN pending
    PROVE  LET rest == RemoveAt(pending, k)
           IN  /\ \E S : rest \in Seq(S)
               /\ \A i \in DOMAIN rest : Key(rest[i]) \in QueueKeys /\ Key(rest[i]) # Key(pending[k])
               /\ \A i, j \in DOMAIN rest : Key(rest[i]) = Key(rest[j]) => i = j
<1>. DEFINE rest == RemoveAt(pending, k)
<1>1. PICK S : pending \in Seq(S)
  BY DEF PendingIsASequence
<1>2. /\ rest \in Seq(S) /\ Len(rest) = Len(pending) - 1
      /\ \A i \in 1..(Len(pending) - 1) : /\ i < k => rest[i] = pending[i]
                                          /\ i >= k => rest[i] = pending[i + 1]
  BY <1>1, RemoveAtIs
<1>3. DOMAIN pending = 1..Len(pending) /\ Len(pending) \in Nat
  BY <1>1
<1>. HIDE DEF rest
<1>4. DOMAIN rest = 1..(Len(pending) - 1)
  BY <1>2
<1>. DEFINE at(i) == IF i < k THEN i ELSE i + 1
<1>5. ASSUME NEW i \in DOMAIN rest
      PROVE  at(i) \in DOMAIN pending /\ at(i) # k /\ rest[i] = pending[at(i)]
  <2>1. i \in Int /\ k \in Int /\ i \in 1..(Len(pending) - 1)
    BY <1>3, <1>4
  <2>2. CASE i < k
    <3>1. at(i) = i /\ i # k /\ i \in 1..Len(pending)
      BY <1>3, <2>1, <2>2
    <3>2. rest[i] = pending[i]
      BY <1>2, <2>1, <2>2
    <3>. QED  BY <1>3, <3>1, <3>2
  <2>3. CASE i >= k
    <3>1. at(i) = i + 1 /\ i + 1 # k /\ i + 1 \in 1..Len(pending)
      BY <1>3, <2>1, <2>3
    <3>2. rest[i] = pending[i + 1]
      BY <1>2, <2>1, <2>3
    <3>. QED  BY <1>3, <3>1, <3>2
  <2>. QED  BY <2>1, <2>2, <2>3
<1>6. \A i, j \in DOMAIN rest : at(i) = at(j) => i = j
  BY <1>3, <1>4
<1>. HIDE DEF at
<1>7. \A i \in DOMAIN rest : Key(rest[i]) \in QueueKeys
  BY <1>5 DEF QueueKeys, Queued
<1>8. \A i \in DOMAIN rest : Key(rest[i]) # Key(pending[k])
  BY <1>5 DEF QueueOnce
<1>9. \A i, j \in DOMAIN rest : Key(rest[i]) = Key(rest[j]) => i = j
  BY <1>5, <1>6 DEF QueueOnce
<1>. QED  BY <1>2, <1>7, <1>8, <1>9 DEF rest

\* Adding a new slot to a sequence that holds none twice.
LEMMA QueueAfterAppend ==
    ASSUME NEW q, NEW S, q \in Seq(S), NEW x,
           \A i, j \in DOMAIN q : Key(q[i]) = Key(q[j]) => i = j,
           \A i \in DOMAIN q : Key(q[i]) # Key(x)
    PROVE  /\ \A i \in DOMAIN Append(q, x) :
                 Key(Append(q, x)[i]) = Key(x) \/ \E j \in DOMAIN q : Append(q, x)[i] = q[j]
           /\ \A i, j \in DOMAIN Append(q, x) : Key(Append(q, x)[i]) = Key(Append(q, x)[j]) => i = j
<1>. DEFINE p == Append(q, x)
<1>1. /\ p \in Seq(S \cup {x}) /\ Len(p) = Len(q) + 1 /\ Len(q) \in Nat
      /\ \A i \in 1..(Len(q) + 1) : p[i] = IF i <= Len(q) THEN q[i] ELSE x
  BY AppendIs
<1>2. DOMAIN q = 1..Len(q)
  OBVIOUS
<1>. HIDE DEF p
<1>3. DOMAIN p = 1..(Len(q) + 1)
  BY <1>1
<1>4. \A i \in DOMAIN p : (i \in DOMAIN q /\ p[i] = q[i]) \/ (i = Len(q) + 1 /\ p[i] = x)
  BY <1>1, <1>2, <1>3
<1>5. \A i \in DOMAIN p : Key(p[i]) = Key(x) \/ \E j \in DOMAIN q : p[i] = q[j]
  BY <1>4
<1>6. \A i, j \in DOMAIN p : Key(p[i]) = Key(p[j]) => i = j
  BY <1>4
<1>. QED  BY <1>5, <1>6 DEF p

\* The slots that the scheduler holds, or has given to a sender.
SchedulerOnce == QueueOnce /\ SendOnce /\ QueueKeys \cap SendKeys = {} /\ IsFiniteSet(sends)

\* An assignment puts its request on the way to a worker, and no other.
LEMMA AssignSends ==
    ASSUME NEW work, Assign(work), SendOnce, IsFiniteSet(sends), Key(work) \notin SendKeys
    PROVE  /\ SendOnce' /\ IsFiniteSet(sends')
           /\ SendKeys' = SendKeys \cup {Key(work)}
<1>1. PICK s : s.work = work /\ sends' = sends \cup {s}
  <2>1. PICK w : sends' = sends \cup {[worker |-> w, work |-> work, tries |-> 0, pc |-> "send"]}
    BY DEF Assign
  <2>2. [worker |-> w, work |-> work, tries |-> 0, pc |-> "send"].work = work
    OBVIOUS
  <2>. QED  BY <2>1, <2>2
<1>2. SendOnce'
  <2>1. ASSUME NEW t \in sends PROVE Key(t.work) # Key(work)
    BY DEF SendKeys
  <2>. QED  BY <1>1, <2>1 DEF SendOnce, Key
<1>3. SendKeys' = SendKeys \cup {Key(work)}
  BY <1>1 DEF SendKeys, Key
<1>4. IsFiniteSet(sends')
  BY <1>1, FS_AddElement
<1>. QED  BY <1>2, <1>3, <1>4

\* try_dequeue_work moves one item, or none.
LEMMA OnceAtDequeue ==
    ASSUME PendingIsASequence, SchedulerOnce, TryDequeueWork
    PROVE  SchedulerOnce' /\ (QueueKeys \cup SendKeys)' \subseteq QueueKeys \cup SendKeys
<1>0. QueueOnce /\ SendOnce /\ QueueKeys \cap SendKeys = {} /\ IsFiniteSet(sends)
  BY DEF SchedulerOnce
<1>1. CASE UNCHANGED schedulerVars
  <2>1. UNCHANGED <<pending, sends>>
    BY <1>1 DEF schedulerVars
  <2>2. QueueKeys' = QueueKeys /\ SendKeys' = SendKeys /\ QueueOnce' /\ SendOnce'
    BY <1>0, <2>1 DEF QueueKeys, Queued, SendKeys, QueueOnce, SendOnce, Key
  <2>. QED  BY <1>0, <2>1, <2>2 DEF SchedulerOnce
<1>2. ASSUME NEW k \in DOMAIN pending, Assign(pending[k]), pending' = RemoveAt(pending, k)
      PROVE  SchedulerOnce' /\ (QueueKeys \cup SendKeys)' \subseteq QueueKeys \cup SendKeys
  <2>1. /\ \A i \in DOMAIN pending' : Key(pending'[i]) \in QueueKeys /\ Key(pending'[i]) # Key(pending[k])
        /\ \A i, j \in DOMAIN pending' : Key(pending'[i]) = Key(pending'[j]) => i = j
    BY <1>0, <1>2, QueueAfterRemoval
  <2>2. Key(pending[k]) \in QueueKeys
    BY DEF QueueKeys, Queued
  <2>3. Key(pending[k]) \notin SendKeys
    BY <1>0, <2>2
  <2>4. SendOnce' /\ IsFiniteSet(sends') /\ SendKeys' = SendKeys \cup {Key(pending[k])}
    BY <1>0, <1>2, <2>3, AssignSends
  <2>5. QueueKeys' \subseteq QueueKeys \ {Key(pending[k])}
    BY <2>1 DEF QueueKeys, Queued, Key
  <2>6. QueueOnce'
    BY <2>1 DEF QueueOnce, Key
  <2>. QED  BY <1>0, <2>2, <2>4, <2>5, <2>6 DEF SchedulerOnce
<1>3. ASSUME NEW k \in DOMAIN pending, NoWorker(pending[k]),
             pending' = Append(RemoveAt(pending, k), pending[k])
      PROVE  SchedulerOnce' /\ (QueueKeys \cup SendKeys)' \subseteq QueueKeys \cup SendKeys
  <2>. DEFINE rest == RemoveAt(pending, k)
  <2>1. /\ \E S : rest \in Seq(S)
        /\ \A i \in DOMAIN rest : Key(rest[i]) \in QueueKeys /\ Key(rest[i]) # Key(pending[k])
        /\ \A i, j \in DOMAIN rest : Key(rest[i]) = Key(rest[j]) => i = j
    BY <1>0, QueueAfterRemoval
  <2>2. pending' = Append(rest, pending[k])
    BY <1>3
  <2>3. Key(pending[k]) \in QueueKeys
    BY DEF QueueKeys, Queued
  <2>. HIDE DEF rest
  <2>4. /\ \A i \in DOMAIN pending' :
             Key(pending'[i]) = Key(pending[k]) \/ \E j \in DOMAIN rest : pending'[i] = rest[j]
        /\ \A i, j \in DOMAIN pending' : Key(pending'[i]) = Key(pending'[j]) => i = j
    BY <2>1, <2>2, QueueAfterAppend
  <2>5. \A i \in DOMAIN pending' : Key(pending'[i]) \in QueueKeys
    BY <2>1, <2>3, <2>4
  <2>6. QueueKeys' \subseteq QueueKeys
    BY <2>5 DEF QueueKeys, Queued, Key
  <2>7. QueueOnce'
    BY <2>4 DEF QueueOnce, Key
  <2>8. sends' = sends
    BY <1>3 DEF NoWorker
  <2>9. SendKeys' = SendKeys /\ SendOnce'
    BY <1>0, <2>8 DEF SendKeys, SendOnce, Key
  <2>. QED  BY <1>0, <2>6, <2>7, <2>8, <2>9 DEF SchedulerOnce
<1>. QED  BY <1>1, <1>2, <1>3 DEF TryDequeueWork

\* enqueue_or_assign takes in one item whose slot it did not hold.
LEMMA OnceAtEnqueue ==
    ASSUME PendingIsASequence, SchedulerOnce, NEW work, EnqueueOrAssign(work),
           Key(work) \notin QueueKeys \cup SendKeys
    PROVE  /\ SchedulerOnce'
           /\ (QueueKeys \cup SendKeys)' \subseteq QueueKeys \cup SendKeys \cup {Key(work)}
<1>0. QueueOnce /\ SendOnce /\ QueueKeys \cap SendKeys = {} /\ IsFiniteSet(sends)
  BY DEF SchedulerOnce
<1>1. ASSUME pending' = pending PROVE QueueKeys' = QueueKeys /\ QueueOnce'
  BY <1>0, <1>1 DEF QueueKeys, Queued, QueueOnce, Key
<1>2. ASSUME sends' = sends PROVE SendKeys' = SendKeys /\ SendOnce' /\ IsFiniteSet(sends')
  BY <1>0, <1>2 DEF SendKeys, SendOnce, Key
<1>3. CASE UNCHANGED schedulerVars
  <2>1. UNCHANGED <<pending, sends>>
    BY <1>3 DEF schedulerVars
  <2>. QED  BY <1>0, <1>1, <1>2, <2>1 DEF SchedulerOnce
<1>4. CASE Assign(work) /\ UNCHANGED pending
  <2>1. SendOnce' /\ IsFiniteSet(sends') /\ SendKeys' = SendKeys \cup {Key(work)}
    BY <1>0, <1>4, AssignSends
  <2>. QED  BY <1>0, <1>1, <1>4, <2>1 DEF SchedulerOnce
<1>5. CASE NoWorker(work) /\ pending' = Append(pending, work)
  <2>1. PICK S : pending \in Seq(S)
    BY DEF PendingIsASequence
  <2>2. \A i \in DOMAIN pending : Key(pending[i]) \in QueueKeys
    BY DEF QueueKeys, Queued
  <2>3. \A i, j \in DOMAIN pending : Key(pending[i]) = Key(pending[j]) => i = j
    BY <1>0 DEF QueueOnce
  <2>4. \A i \in DOMAIN pending : Key(pending[i]) # Key(work)
    BY <2>2
  <2>5. /\ \A i \in DOMAIN pending' :
             Key(pending'[i]) = Key(work) \/ \E j \in DOMAIN pending : pending'[i] = pending[j]
        /\ \A i, j \in DOMAIN pending' : Key(pending'[i]) = Key(pending'[j]) => i = j
    BY <1>5, <2>1, <2>3, <2>4, QueueAfterAppend
  <2>6. \A i \in DOMAIN pending' : Key(pending'[i]) \in QueueKeys \cup {Key(work)}
    BY <2>2, <2>5
  <2>7. QueueKeys' \subseteq QueueKeys \cup {Key(work)}
    BY <2>6 DEF QueueKeys, Queued, Key
  <2>8. QueueOnce'
    BY <2>5 DEF QueueOnce, Key
  <2>9. sends' = sends
    BY <1>5 DEF NoWorker
  <2>. QED  BY <1>0, <1>2, <2>7, <2>8, <2>9 DEF SchedulerOnce
<1>. QED  BY <1>3, <1>4, <1>5 DEF EnqueueOrAssign

\* A handler that goes on with some of its follow-ups.
LEMMA TodosShrink ==
    ASSUME TodoOnce, TodoFinite, NEW h \in handlers, NEW g, g.todo \subseteq h.todo,
           handlers' \subseteq (handlers \ {h}) \cup {g}
    PROVE  /\ TodoOnce' /\ TodoFinite' /\ TodoKeys' \subseteq TodoKeys
           /\ \A x \in h.todo \ g.todo : Key(x) \notin TodoKeys'
<1>1. TodoOnce'
  BY DEF TodoOnce, Key
<1>2. TodoFinite'
  <2>1. IsFiniteSet(handlers \cup {g})
    BY FS_AddElement DEF TodoFinite
  <2>2. IsFiniteSet(handlers')
    BY <2>1, FS_Subset
  <2>3. IsFiniteSet(h.todo)
    BY DEF TodoFinite
  <2>4. IsFiniteSet(g.todo)
    BY <2>3, FS_Subset
  <2>. QED  BY <2>2, <2>4 DEF TodoFinite
<1>3. ASSUME NEW k \in TodoKeys'
      PROVE  \E f \in handlers' : \E y \in f.todo : k = Key(y)
  <2>1. PICK y \in Todos' : k = Key(y)
    BY DEF TodoKeys, Key
  <2>2. PICK f \in handlers' : y \in f.todo
    BY <2>1 DEF Todos
  <2>. QED  BY <2>1, <2>2
<1>4. ASSUME NEW f \in handlers, NEW y \in f.todo PROVE Key(y) \in TodoKeys
  <2>1. y \in Todos
    BY <1>4 DEF Todos
  <2>. QED  BY <2>1 DEF TodoKeys
<1>5. TodoKeys' \subseteq TodoKeys
  BY <1>3, <1>4
<1>6. ASSUME NEW x \in h.todo \ g.todo PROVE Key(x) \notin TodoKeys'
  <2>. SUFFICES ASSUME Key(x) \in TodoKeys' PROVE FALSE
    OBVIOUS
  <2>1. PICK f \in handlers' : \E y \in f.todo : Key(x) = Key(y)
    BY <1>3
  <2>. QED  BY <2>1 DEF TodoOnce
<1>. QED  BY <1>1, <1>2, <1>5, <1>6

\* What TodosShrink asks of the two ways a handler goes on.
LEMMA HandlerMoves ==
    ASSUME IInv, NEW h \in handlers
    PROVE  /\ \A pc : Goto(h, pc) =>
                \E g : g.todo = h.todo /\ handlers' \subseteq (handlers \ {h}) \cup {g}
           /\ \A todo \in SUBSET h.todo : FollowUp(h, todo) =>
                \E g : g.todo = todo /\ handlers' \subseteq (handlers \ {h}) \cup {g}
<1>0. DOMAIN h = {"worker", "work", "copy", "res", "sealed", "pc", "todo"}
  BY DEF IInv, TypeOK
<1>1. ASSUME NEW pc, Goto(h, pc)
      PROVE  \E g : g.todo = h.todo /\ handlers' \subseteq (handlers \ {h}) \cup {g}
  <2>1. [h EXCEPT !.pc = pc].todo = h.todo
    BY <1>0
  <2>. QED  BY <1>1, <2>1 DEF Goto
<1>2. ASSUME NEW todo \in SUBSET h.todo, FollowUp(h, todo)
      PROVE  \E g : g.todo = todo /\ handlers' \subseteq (handlers \ {h}) \cup {g}
  <2>. DEFINE g == [h EXCEPT !.pc = "follow", !.todo = todo]
  <2>1. g.todo = todo
    BY <1>0
  <2>2. handlers' = (handlers \ {h}) \cup
                       {[h EXCEPT !.pc = "follow", !.todo = rest] : rest \in {todo} \ {{}}}
    BY <1>2, Zenon DEF FollowUp
  <2>3. \A f \in handlers' : f \in handlers \ {h} \/ f = g
    <3>1. \A rest \in {todo} \ {{}} : rest = todo
      OBVIOUS
    <3>. QED  BY <2>2, <3>1, Zenon
  <2>. HIDE DEF g
  <2>. QED  BY <2>1, <2>3
<1>. QED  BY <1>1, <1>2

\* The keys and the uniqueness of a place depend on that place alone.
LEMMA PlaceUnchanged ==
    /\ pending' = pending => QueueKeys' = QueueKeys /\ (QueueOnce' <=> QueueOnce)
    /\ sends' = sends => SendKeys' = SendKeys /\ (SendOnce' <=> SendOnce)
    /\ running' = running => RunKeys' = RunKeys /\ (RunOnce' <=> RunOnce)
    /\ handlers' = handlers => TodoKeys' = TodoKeys /\ (TodoOnce' <=> TodoOnce)
    /\ UNCHANGED treeVars => StoredKeys' = StoredKeys
<1>1. pending' = pending => QueueKeys' = QueueKeys /\ (QueueOnce' <=> QueueOnce)
  BY DEF QueueKeys, Queued, QueueOnce, Key
<1>2. sends' = sends => SendKeys' = SendKeys /\ (SendOnce' <=> SendOnce)
  BY DEF SendKeys, SendOnce, Key
<1>3. running' = running => RunKeys' = RunKeys /\ (RunOnce' <=> RunOnce)
  BY DEF RunKeys, RunOnce, Key
<1>4. handlers' = handlers => TodoKeys' = TodoKeys /\ (TodoOnce' <=> TodoOnce)
  BY DEF TodoKeys, Todos, TodoOnce, Key
<1>5. UNCHANGED treeVars => StoredKeys' = StoredKeys
  BY DEF treeVars, StoredKeys, Stored, Key
<1>. QED  BY <1>1, <1>2, <1>3, <1>4, <1>5

\* The steps of proof_result past the ProofState lock.
LEMMA OnceAtHandlerStep ==
    ASSUME IInv, OnceInv, NEW h \in handlers, HandlerStep(h)
    PROVE  OnceInv'
<1>0. /\ TodoOnce /\ TodoFinite /\ RunOnce /\ IsFiniteSet(running)
      /\ SchedulerOnce /\ PendingIsASequence /\ PlacesApart
  BY DEF OnceInv, PlacesFinite, PlacesApart, SchedulerOnce, IInv
<1>1. UNCHANGED treeVars /\ UNCHANGED running
  BY DEF HandlerStep, HandlerSegments, HandlerDrain, HandlerComplete, HandlerDequeue,
         HandlerSealed, HandlerFinalize, HandlerTry, HandlerRemove, HandlerFollowUp,
         TransitionFailingToFailed, proofVars, treeVars, workerVars
<1>2. StoredKeys' = StoredKeys /\ RunKeys' = RunKeys /\ RunOnce' /\ IsFiniteSet(running')
  BY <1>0, <1>1, PlaceUnchanged
<1>3. ASSUME TodoOnce', TodoFinite', SchedulerOnce',
             (TodoKeys \cup QueueKeys \cup SendKeys)' \subseteq TodoKeys \cup QueueKeys \cup SendKeys,
             TodoKeys' \cap (QueueKeys \cup SendKeys)' = {}
      PROVE  OnceInv'
  BY <1>0, <1>2, <1>3 DEF OnceInv, PlacesFinite, PlacesApart, SchedulerOnce
<1>4. CASE HandlerFollowUp(h)
  <2>1. PICK work \in h.todo : EnqueueOrAssign(work) /\ FollowUp(h, h.todo \ {work})
    BY <1>4 DEF HandlerFollowUp
  <2>2. PICK g : g.todo = h.todo \ {work} /\ handlers' \subseteq (handlers \ {h}) \cup {g}
    BY <2>1, HandlerMoves
  <2>3. TodoOnce' /\ TodoFinite' /\ TodoKeys' \subseteq TodoKeys \ {Key(work)}
    BY <1>0, <2>2, TodosShrink
  <2>4. Key(work) \in TodoKeys
    <3>1. work \in Todos
      BY DEF Todos
    <3>. QED  BY <3>1 DEF TodoKeys
  <2>5. Key(work) \notin QueueKeys \cup SendKeys
    BY <1>0, <2>4 DEF PlacesApart
  <2>6. /\ SchedulerOnce'
        /\ (QueueKeys \cup SendKeys)' \subseteq QueueKeys \cup SendKeys \cup {Key(work)}
    BY <1>0, <2>1, <2>5, OnceAtEnqueue
  <2>. QED  BY <1>0, <1>3, <2>3, <2>4, <2>6 DEF PlacesApart
<1>5. CASE ~HandlerFollowUp(h)
  <2>1. (\E pc : Goto(h, pc)) \/ FollowUp(h, h.todo)
    BY <1>5 DEF HandlerStep, HandlerSegments, HandlerDrain, HandlerComplete, HandlerDequeue,
                HandlerSealed, HandlerFinalize, HandlerTry, HandlerRemove
  <2>2. PICK g : g.todo = h.todo /\ handlers' \subseteq (handlers \ {h}) \cup {g}
    BY <2>1, HandlerMoves
  <2>3. TodoOnce' /\ TodoFinite' /\ TodoKeys' \subseteq TodoKeys
    BY <1>0, <2>2, TodosShrink
  <2>4. TryDequeueWork \/ UNCHANGED <<pending, sends>>
    BY <1>5 DEF HandlerStep, HandlerSegments, HandlerDrain, HandlerComplete, HandlerDequeue,
       HandlerSealed, HandlerFinalize, HandlerTry, HandlerRemove, SetNumSegments, ApplyCompletion,
       RemoveProof, schedulerVars
  <2>5. SchedulerOnce' /\ (QueueKeys \cup SendKeys)' \subseteq QueueKeys \cup SendKeys
    BY <1>0, <2>4, OnceAtDequeue, PlaceUnchanged DEF SchedulerOnce
  <2>. QED  BY <1>0, <1>3, <2>3, <2>5 DEF PlacesApart
<1>. QED  BY <1>4, <1>5

\* send_work_with_retry delivers a request once, unless a response is lost.
LEMMA OnceAtSendStep ==
    ASSUME IInv, OnceInv, "ack" \notin Faults, NEW s \in sends, SendStep(s)
    PROVE  OnceInv'
<1>0. DOMAIN s = {"worker", "work", "tries", "pc"}
  BY DEF IInv, TypeOK
<1>1. UNCHANGED <<treeVars, handlers, pending>>
  BY DEF SendStep, SendAttempt, SendRelease, SendFail, SendTry, SendRemove, TransitionFailingToFailed,
         ReleaseWorker, RemoveProof, sendFrame, proofVars, treeVars
<1>2. /\ StoredKeys' = StoredKeys /\ TodoKeys' = TodoKeys /\ QueueKeys' = QueueKeys
      /\ TodoOnce' /\ QueueOnce' /\ TodoFinite'
  <2>1. TodoFinite'
    BY <1>1 DEF OnceInv, PlacesFinite, TodoFinite
  <2>. QED  BY <1>1, <2>1, PlaceUnchanged DEF OnceInv
<1>3. ASSUME SendOnce', RunOnce', IsFiniteSet(sends'), IsFiniteSet(running'),
             (SendKeys \cup RunKeys)' \subseteq SendKeys \cup RunKeys,
             SendKeys' \cap RunKeys' = {}
      PROVE  OnceInv'
  BY <1>2, <1>3 DEF OnceInv, PlacesFinite, PlacesApart
<1>4. /\ SendOnce /\ RunOnce /\ IsFiniteSet(sends) /\ IsFiniteSet(running)
      /\ SendKeys \cap RunKeys = {}
  BY DEF OnceInv, PlacesFinite, PlacesApart
<1>5. ASSUME NEW t, t.work = s.work, sends' \subseteq (sends \ {s}) \cup {t}, running' = running
      PROVE  OnceInv'
  <2>1. SendOnce'
    BY <1>4, <1>5 DEF SendOnce, Key
  <2>2. SendKeys' \subseteq SendKeys
    BY <1>5 DEF SendKeys, Key
  <2>3. IsFiniteSet(sends')
    <3>1. IsFiniteSet(sends \cup {t})
      BY <1>4, FS_AddElement
    <3>. QED  BY <1>5, <3>1, FS_Subset
  <2>4. RunKeys' = RunKeys /\ RunOnce' /\ IsFiniteSet(running')
    BY <1>4, <1>5, PlaceUnchanged
  <2>. QED  BY <1>3, <1>4, <2>1, <2>2, <2>3, <2>4
<1>6. CASE running' = running \cup {Job(s)} /\ sends' = sends \ {s}
  <2>1. Job(s).work = s.work
    BY DEF Job
  <2>2. Key(s.work) \in SendKeys
    BY DEF SendKeys
  <2>3. \A t \in sends \ {s} : Key(t.work) # Key(s.work)
    BY <1>4 DEF SendOnce
  <2>4. SendKeys' \subseteq SendKeys \ {Key(s.work)}
    BY <1>6, <2>3 DEF SendKeys, Key
  <2>5. SendOnce'
    BY <1>4, <1>6 DEF SendOnce, Key
  <2>6. \A j \in running : Key(j.work) # Key(s.work)
    BY <1>4, <2>2 DEF RunKeys
  <2>7. RunOnce'
    <3>1. \A j, k \in running : Key(j.work) = Key(k.work) => j = k
      BY <1>4 DEF RunOnce
    <3>2. \A j, k \in running' : Key(j.work) = Key(k.work) => j = k
      BY <1>6, <2>1, <2>6, <3>1
    <3>. QED  BY <3>2 DEF RunOnce, Key
  <2>8. RunKeys' = RunKeys \cup {Key(s.work)}
    BY <1>6, <2>1 DEF RunKeys, Key
  <2>9. IsFiniteSet(sends') /\ IsFiniteSet(running')
    BY <1>4, <1>6, FS_AddElement, FS_RemoveElement
  <2>. QED  BY <1>3, <1>4, <2>2, <2>4, <2>5, <2>7, <2>8, <2>9
<1>7. /\ Resend(s).work = s.work
      /\ \A pc : [s EXCEPT !.pc = pc].work = s.work
  BY <1>0 DEF Resend
<1>8. CASE SendAttempt(s)
  <2>1. ~Fault("ack")
    BY DEF Fault
  <2>2. \/ running' = running \cup {Job(s)} /\ sends' = sends \ {s}
        \/ running' = running /\ sends' = (sends \ {s}) \cup {Resend(s)}
    BY <1>8, <2>1 DEF SendAttempt
  <2>. QED  BY <1>5, <1>6, <1>7, <2>2
<1>9. CASE SendRelease(s) \/ SendFail(s) \/ SendTry(s) \/ SendRemove(s)
  <2>1. running' = running
    BY <1>9 DEF SendRelease, SendFail, SendTry, SendRemove, workerVars
  <2>2. sends' = sends \ {s} \/ \E pc : sends' = (sends \ {s}) \cup {[s EXCEPT !.pc = pc]}
    BY <1>9 DEF SendRelease, SendFail, SendTry, SendRemove, SendGoto
  <2>3. CASE sends' = sends \ {s}
    <3>1. s.work = s.work /\ sends' \subseteq (sends \ {s}) \cup {s}
      BY <2>3
    <3>. QED  BY <1>5, <2>1, <3>1
  <2>4. ASSUME NEW pc, sends' = (sends \ {s}) \cup {[s EXCEPT !.pc = pc]} PROVE OnceInv'
    <3>1. [s EXCEPT !.pc = pc].work = s.work /\ sends' \subseteq (sends \ {s}) \cup {[s EXCEPT !.pc = pc]}
      BY <1>7, <2>4
    <3>. QED  BY <1>5, <2>1, <3>1
  <2>. QED  BY <2>2, <2>3, <2>4
<1>. QED  BY <1>8, <1>9 DEF SendStep

\* What a result makes the manager ask for are slots it holds nowhere.
LEMMA FreshKeys ==
    ASSUME IInv, KnownInv, NEW new, Asks(new), NEW x \in new
    PROVE  /\ Key(x) \notin TodoKeys \cup QueueKeys \cup SendKeys \cup RunKeys \cup StoredKeys
           /\ \A v \in Known : Key(v) # Key(x)
<1>1. Tree!Asked = Known
  BY DEF Tree!Asked, Tree!BagToSet, SetToBag
<1>2. \A v \in Known : Key(v) # Key(x)
  <2>1. CASE Tree!NewSlot(x)
    BY <1>1, <2>1 DEF Tree!NewSlot, Tree!SameSlot, Key
  <2>2. CASE Tree!NewEvm(x)
    <3>1. x = EvmRequest /\ EvmRequest \notin Known
      BY <1>1, <2>2, SameRequests DEF Tree!NewEvm
    <3>2. ASSUME NEW v \in Known, Key(v) = Key(x) PROVE FALSE
      <4>1. v.step = "EvmProve"
        BY <3>1, <3>2 DEF Key, EvmRequest
      <4>2. v = EvmRequest \/ Tree!WellFormed(v)
        BY DEF KnownInv, SlotsInv
      <4>. QED  BY <3>1, <4>1, <4>2 DEF Tree!WellFormed
    <3>. QED  BY <3>2
  <2>. QED  BY <2>1, <2>2 DEF Asks
<1>3. \A y : Key(AsSlot(y)) = Key(y)
  BY DEF Key, AsSlot
<1>4. \A y \in Works : Key(y) # Key(x)
  BY <1>2, <1>3 DEF Known
<1>5. \A y \in Stored : Key(y) # Key(x)
  BY <1>2 DEF Known
<1>6. Key(x) \notin TodoKeys /\ Key(x) \notin QueueKeys
  BY <1>4 DEF TodoKeys, QueueKeys, Works
<1>7. Key(x) \notin SendKeys /\ Key(x) \notin RunKeys
  BY <1>4, WorksOfState DEF SendKeys, RunKeys
<1>8. Key(x) \notin StoredKeys
  BY <1>5 DEF StoredKeys
<1>. QED  BY <1>2, <1>6, <1>7, <1>8

\* A tree result stores its own slot and no other.
LEMMA StoredByResult ==
    ASSUME IInv, KnownInv, NEW x \in Works, x.step \in Steps, HandleProofResult(TreeResult(x, TRUE))
    PROVE  StoredKeys' \subseteq StoredKeys \cup {Key(x)}
<1>. DEFINE r == TreeResult(x, TRUE)
<1>0. r.ok = TRUE /\ r.kind = x.step /\ r.work = x
  BY DEF TreeResult
<1>1. x.step = "EvmProve" => AsSlot(x) = EvmRequest
  BY WorkIsSlot
<1>2. x.step = "LeafProve" => x.layer = 0
  BY WorkIsSlot
<1>. HIDE DEF r
<1>3. CASE UNCHANGED treeVars
  BY <1>3, PlaceUnchanged
<1>4. CASE x.step = "LeafProve" /\ HandleLeafResult(LeafOf(x))
  <2>1. leaf_proofs' \subseteq leaf_proofs \cup {LeafOf(x)} /\ UNCHANGED <<internal_proofs, evm_proof>>
    BY <1>4 DEF HandleLeafResult
  <2>2. Stored' \subseteq Stored \cup {LeafRequest(LeafOf(x).start, LeafOf(x).end)}
    BY <2>1 DEF Stored
  <2>3. Key(LeafRequest(LeafOf(x).start, LeafOf(x).end)) = Key(x)
    BY <1>2, <1>4 DEF Key, LeafRequest, LeafOf
  <2>. QED  BY <2>2, <2>3 DEF StoredKeys, Key
<1>5. CASE x.step = "InternalProve" /\ HandleInternalResult(InternalOf(x))
  <2>. DEFINE p == InternalOf(x)
  <2>1. internal_proofs' \subseteq internal_proofs \cup {p} /\ UNCHANGED <<leaf_proofs, evm_proof>>
    BY <1>5 DEF HandleInternalResult
  <2>2. Stored' \subseteq Stored \cup {InternalRequest(p.layer, p.start, p.end, FALSE)}
    <3>. HIDE DEF p
    <3>. QED  BY <2>1 DEF Stored
  <2>3. Key(InternalRequest(p.layer, p.start, p.end, FALSE)) = Key(x)
    BY <1>5 DEF Key, InternalRequest, InternalOf
  <2>. HIDE DEF p
  <2>. QED  BY <2>2, <2>3 DEF StoredKeys, Key
<1>6. CASE x.step = "EvmProve" /\ UNCHANGED <<leaf_proofs, internal_proofs>>
  <2>1. Stored' \subseteq Stored \cup {EvmRequest}
    BY <1>6 DEF Stored
  <2>2. Key(EvmRequest) = Key(x)
    BY <1>1, <1>6 DEF Key, AsSlot
  <2>. QED  BY <2>1, <2>2 DEF StoredKeys, Key
<1>7. HandleProofResult(r)
  BY DEF r
<1>. QED  BY <1>0, <1>3, <1>4, <1>5, <1>6, <1>7
          DEF HandleProofResult, HandleHalo2Result, Fail, Steps, proofVars, treeVars

\* A result that is not of the tree stores nothing there.
LEMMA NothingStored ==
    ASSUME NEW r, HandleProofResult(r), ~r.ok \/ r.kind \in {"App", "ExecuteE2"}
    PROVE  StoredKeys' = StoredKeys
<1>1. UNCHANGED <<leaf_proofs, internal_proofs, evm_proof>>
  BY DEF HandleProofResult, Fail, HandleAppResult, HandleExecuteE2Result, proofVars, treeVars
<1>. QED  BY <1>1 DEF StoredKeys, Stored, Key

\* proof_result up to the release of the ProofState lock; gone is what the
\* worker no longer works on.
LEMMA OnceAtArrival ==
    ASSUME IInv, KnownInv, OnceInv,
           NEW w, NEW job, NEW copy, NEW r, ProofResult(w, job, copy, r),
           NEW gone, running' \subseteq running, \A j \in running' : Key(j.work) \notin gone,
           gone \subseteq RunKeys, StoredKeys' \subseteq StoredKeys \cup gone,
           \/ r = ErrorResult
           \/ \E ok \in BOOLEAN : r = E2Result(NumSegments, ok)
           \/ \E seg \in 0..(NumSegments - 1) : r = AppResult(seg, TRUE)
           \/ \E x \in Works : r = TreeResult(x, TRUE) /\ x.step \in Steps /\ Safe
    PROVE  OnceInv'
<1>0. HandleProofResult(r) /\ UNCHANGED <<pending, sends>>
  BY DEF ProofResult, schedulerVars
<1>1. PICK g : handlers' \subseteq handlers \cup {g} /\ (g.todo = {} \/ (~IsSealedForResults /\ g.todo = Requests(r)))
  <2>. DEFINE call(pc, todo) == [worker |-> w, work |-> job, copy |-> copy, res |-> r,
                                 sealed |-> IsSealedForResults', pc |-> pc, todo |-> todo]
  <2>0. \A pc, todo : call(pc, todo).todo = todo
    OBVIOUS
  <2>1. \/ handlers' \subseteq handlers \cup {call("late", {})}
        \/ /\ ~IsSealedForResults
           /\ \E pc : handlers' \subseteq handlers \cup {call(pc, Requests(r))}
    BY DEF ProofResult
  <2>. HIDE DEF call
  <2>. QED  BY <2>0, <2>1
<1>2. /\ \A x \in g.todo : Key(x) \notin TodoKeys \cup QueueKeys \cup SendKeys \cup RunKeys \cup StoredKeys
      /\ \A x, y \in g.todo : x = y
  <2>1. CASE g.todo = {}
    BY <2>1
  <2>2. CASE ~IsSealedForResults /\ ~r.ok /\ g.todo = Requests(r)
    BY <2>2 DEF Requests
  <2>3. CASE ~IsSealedForResults /\ r.ok /\ g.todo = Requests(r)
    <3>1. Asks(Requests(r))
      BY <1>0, <2>3, ResultGrows
    <3>2. \A x \in g.todo : Key(x) \notin TodoKeys \cup QueueKeys \cup SendKeys \cup RunKeys \cup StoredKeys
      BY <2>3, <3>1, FreshKeys
    <3>. QED  BY <2>3, <3>1, <3>2 DEF Asks
  <2>. QED  BY <1>1, <2>1, <2>2, <2>3
<1>3. \A f \in handlers : \A y \in f.todo : Key(y) \in TodoKeys
  <2>1. ASSUME NEW f \in handlers, NEW y \in f.todo PROVE y \in Todos
    BY <2>1 DEF Todos
  <2>. QED  BY <2>1 DEF TodoKeys
<1>4. TodoOnce'
  <2>1. \A e, f \in handlers : \A x \in e.todo, y \in f.todo : Key(x) = Key(y) => e = f /\ x = y
    BY DEF OnceInv, TodoOnce
  <2>2. \A e, f \in handlers' : \A x \in e.todo, y \in f.todo : Key(x) = Key(y) => e = f /\ x = y
    BY <1>1, <1>2, <1>3, <2>1
  <2>. QED  BY <2>2 DEF TodoOnce, Key
<1>5. TodoFinite'
  <2>0. TodoFinite
    BY DEF OnceInv, PlacesFinite
  <2>1. IsFiniteSet(handlers \cup {g})
    BY <2>0, FS_AddElement DEF TodoFinite
  <2>2. IsFiniteSet(handlers')
    BY <1>1, <2>1, FS_Subset
  <2>3. IsFiniteSet(g.todo)
    <3>1. CASE g.todo = {}
      BY <3>1, FS_EmptySet
    <3>2. CASE g.todo # {}
      <4>1. PICK x : x \in g.todo
        BY <3>2
      <4>2. g.todo = {x}
        BY <1>2, <4>1
      <4>. QED  BY <4>2, FS_Singleton
    <3>. QED  BY <3>1, <3>2
  <2>. QED  BY <1>1, <2>0, <2>2, <2>3 DEF TodoFinite
<1>6. TodoKeys' \subseteq TodoKeys \cup {Key(x) : x \in g.todo}
  <2>1. ASSUME NEW k \in TodoKeys'
        PROVE  \E f \in handlers' : \E y \in f.todo : k = Key(y)
    <3>1. PICK y \in Todos' : k = Key(y)
      BY DEF TodoKeys, Key
    <3>2. PICK f \in handlers' : y \in f.todo
      BY <3>1 DEF Todos
    <3>. QED  BY <3>1, <3>2
  <2>. QED  BY <1>1, <1>3, <2>1
<1>7. RunKeys' \subseteq RunKeys \ gone /\ RunOnce' /\ IsFiniteSet(running')
  <2>1. RunKeys' \subseteq RunKeys /\ \A k \in RunKeys' : k \notin gone
    BY DEF RunKeys, Key
  <2>2. RunOnce'
    BY DEF OnceInv, RunOnce, Key
  <2>3. IsFiniteSet(running')
    BY FS_Subset DEF OnceInv, PlacesFinite
  <2>. QED  BY <2>1, <2>2, <2>3
<1>8. QueueKeys' = QueueKeys /\ QueueOnce' /\ SendKeys' = SendKeys /\ SendOnce' /\ IsFiniteSet(sends')
  BY <1>0, PlaceUnchanged DEF OnceInv, PlacesFinite
<1>9. PlacesApart'
  <2>. DEFINE fresh == {Key(x) : x \in g.todo}
  <2>1. fresh \cap (TodoKeys \cup QueueKeys \cup SendKeys \cup RunKeys \cup StoredKeys) = {}
    BY <1>2
  <2>2. TodoKeys' \subseteq TodoKeys \cup fresh
    BY <1>6
  <2>3. PlacesApart
    BY DEF OnceInv
  <2>. HIDE DEF fresh
  <2>. QED  BY <1>7, <1>8, <2>1, <2>2, <2>3 DEF PlacesApart
<1>. QED  BY <1>4, <1>5, <1>7, <1>8, <1>9 DEF OnceInv, PlacesFinite

\* A worker's post or silence.
LEMMA OnceAtWorkerStep ==
    ASSUME IInv, KnownInv, OnceInv, WorkerStep PROVE OnceInv'
<1>0. ASSUME NEW w, NEW job, NEW copy, NEW r, ProofResult(w, job, copy, r), running' \subseteq running,
             \/ r = ErrorResult
             \/ \E ok \in BOOLEAN : r = E2Result(NumSegments, ok)
             \/ \E seg \in 0..(NumSegments - 1) : r = AppResult(seg, TRUE)
      PROVE  OnceInv'
  <2>1. ~r.ok \/ r.kind \in {"App", "ExecuteE2"}
    BY <1>0 DEF ErrorResult, E2Result, AppResult
  <2>. DEFINE gone == {}
  <2>2. StoredKeys' \subseteq StoredKeys \cup gone
    BY <1>0, <2>1, NothingStored DEF ProofResult
  <2>3. gone \subseteq RunKeys /\ \A j \in running' : Key(j.work) \notin gone
    OBVIOUS
  <2>4. \/ r = ErrorResult
        \/ \E ok \in BOOLEAN : r = E2Result(NumSegments, ok)
        \/ \E seg \in 0..(NumSegments - 1) : r = AppResult(seg, TRUE)
        \/ \E x \in Works : r = TreeResult(x, TRUE) /\ x.step \in Steps /\ Safe
    BY <1>0
  <2>. HIDE DEF gone
  <2>. QED  BY <1>0, <2>2, <2>3, <2>4, OnceAtArrival
<1>1. ASSUME NEW w \in StarkWorkers, NEW seg \in unsent[w], PostApp(w, seg) PROVE OnceInv'
  <2>1. seg \in 0..(NumSegments - 1)
    BY DEF IInv, TypeOK
  <2>2. ProofResult(w, ShardJob, 0, AppResult(seg, TRUE)) /\ running' = running
    BY <1>1 DEF PostApp
  <2>. QED  BY <1>0, <2>1, <2>2
<1>2. ASSUME NEW ok \in BOOLEAN, PostExecuteE2(ok) PROVE OnceInv'
  <2>1. ProofResult(0, ShardJob, 0, E2Result(NumSegments, ok)) /\ running' = running
    BY <1>2 DEF PostExecuteE2
  <2>2. \E v \in BOOLEAN : E2Result(NumSegments, ok) = E2Result(NumSegments, v)
    BY <1>2
  <2>. QED  BY <1>0, <2>1, <2>2
<1>3. ASSUME NEW job \in running, PostTree(job) PROVE OnceInv'
  <2>1. job.work \in Works /\ job.work.step \in Steps /\ Safe
    BY WorksOfState DEF IInv, TypeOK, SegmentsFirst
  <2>2. /\ ProofResult(job.worker, job.work, job.copy, TreeResult(job.work, TRUE))
        /\ running' = running \ {job}
    BY <1>3 DEF PostTree
  <2>. DEFINE gone == {Key(job.work)}
  <2>3. StoredKeys' \subseteq StoredKeys \cup gone
    BY <2>1, <2>2, StoredByResult DEF ProofResult
  <2>4. gone \subseteq RunKeys /\ \A j \in running' : Key(j.work) \notin gone
    BY <2>2 DEF RunKeys, OnceInv, RunOnce
  <2>. HIDE DEF gone
  <2>. QED  BY <2>1, <2>2, <2>3, <2>4, OnceAtArrival
<1>4. ASSUME NEW job \in running, PostTreeError(job) PROVE OnceInv'
  <2>1. ProofResult(job.worker, job.work, job.copy, ErrorResult) /\ running' = running \ {job}
    BY <1>4 DEF PostTreeError
  <2>. QED  BY <1>0, <2>1
<1>5. ASSUME NEW w \in StarkWorkers, NEW queued \in SUBSET unsent[w], NEW e2Queued \in BOOLEAN,
             PostShardError(w, queued, e2Queued)
      PROVE  OnceInv'
  <2>1. ProofResult(w, ShardJob, 0, ErrorResult) /\ running' = running
    BY <1>5 DEF PostShardError
  <2>. QED  BY <1>0, <2>1
<1>6. CASE LoseResult
  <2>1. UNCHANGED <<proofVars, schedulerVars, handlers>> /\ running' \subseteq running
    BY <1>6 DEF LoseResult
  <2>2. UNCHANGED treeVars /\ UNCHANGED <<pending, sends>>
    BY <2>1 DEF proofVars, treeVars, schedulerVars
  <2>3. RunKeys' \subseteq RunKeys /\ RunOnce' /\ IsFiniteSet(running')
    BY <2>1, FS_Subset DEF RunKeys, RunOnce, OnceInv, PlacesFinite, Key
  <2>4. TodoFinite' /\ IsFiniteSet(sends')
    BY <2>1, <2>2 DEF TodoFinite, OnceInv, PlacesFinite
  <2>5. PlacesApart'
    BY <2>1, <2>2, <2>3, PlaceUnchanged DEF OnceInv, PlacesApart
  <2>. QED  BY <2>1, <2>2, <2>3, <2>4, <2>5, PlaceUnchanged DEF OnceInv, PlacesFinite
<1>. QED  BY <1>1, <1>2, <1>3, <1>4, <1>5, <1>6 DEF WorkerStep

\* Every step keeps it,
LEMMA OnceAtNext ==
    ASSUME IInv, KnownInv, OnceInv, "ack" \notin Faults, [Next]_vars PROVE OnceInv'
<1>1. ASSUME UNCHANGED <<treeVars, handlers, pending, sends, running>> PROVE OnceInv'
  <2>1. PlacesFinite'
    BY <1>1 DEF OnceInv, PlacesFinite, TodoFinite
  <2>2. PlacesApart'
    BY <1>1, PlaceUnchanged DEF OnceInv, PlacesApart
  <2>. QED  BY <1>1, <2>1, <2>2, PlaceUnchanged DEF OnceInv
<1>2. CASE StarterStep
  <2>1. UNCHANGED <<treeVars, handlers, pending, sends, running>>
    BY <1>2 DEF StarterStep, Kickoff, StartJoin, StartRelease, StartTry, StartRemove, MarkFailing,
       TransitionFailingToFailed, ReleaseWorker, RemoveProof, proofVars, treeVars, schedulerVars,
       workerVars
  <2>. QED  BY <1>1, <2>1
<1>3. CASE WatchdogStep \/ CancelRemove \/ MinutePasses \/ CancelProof \/ UNCHANGED vars
  <2>1. UNCHANGED <<treeVars, handlers, pending, sends, running>>
    BY <1>3 DEF WatchdogStep, WatchdogTry, WatchdogTimeout, WatchdogRemove, CancelRemove,
       MinutePasses, CancelProof, MarkFailing, TransitionFailingToFailed, RemoveProof, proofVars,
       treeVars, schedulerVars, workerVars, vars
  <2>. QED  BY <1>1, <2>1
<1>. QED  BY <1>2, <1>3, OnceAtWorkerStep, OnceAtHandlerStep, OnceAtSendStep DEF Next, ManagerStep

\* and it holds at the start.
LEMMA OnceAtInit == Init => OnceInv
<1>. SUFFICES ASSUME Init PROVE OnceInv
  OBVIOUS
<1>1. /\ leaf_proofs = {} /\ internal_proofs = {} /\ evm_proof = FALSE
      /\ handlers = {} /\ pending = <<>> /\ sends = {} /\ running = {}
  BY DEF Init, NewProofState, InitProof
<1>2. TodoKeys = {} /\ QueueKeys = {} /\ SendKeys = {} /\ RunKeys = {}
  BY <1>1 DEF TodoKeys, Todos, QueueKeys, Queued, SendKeys, RunKeys
<1>3. TodoOnce /\ QueueOnce /\ SendOnce /\ RunOnce
  BY <1>1 DEF TodoOnce, QueueOnce, SendOnce, RunOnce
<1>4. PlacesFinite
  BY <1>1, FS_EmptySet DEF PlacesFinite, TodoFinite
<1>. QED  BY <1>2, <1>3, <1>4 DEF OnceInv, PlacesApart

\* Counting: as many places as slots.
LEMMA SameCount ==
    ASSUME NEW A, NEW B, IsFiniteSet(A), NEW f \in [A -> B],
           \A x, y \in A : f[x] = f[y] => x = y,
           \A b \in B : \E x \in A : f[x] = b
    PROVE  IsFiniteSet(B) /\ Cardinality(B) = Cardinality(A)
<1>1. f \in Bijection(A, B)
  BY DEF Bijection, Injection, Surjection, IsInjective
<1>2. ExistsBijection(A, B)
  BY <1>1 DEF ExistsBijection
<1>. QED  BY <1>2, FS_Bijection

\* Sets with no common element add up.
LEMMA DisjointCount ==
    ASSUME NEW A, NEW B, IsFiniteSet(A), IsFiniteSet(B), A \cap B = {}
    PROVE  IsFiniteSet(A \cup B) /\ Cardinality(A \cup B) = Cardinality(A) + Cardinality(B)
           /\ Cardinality(A) \in Nat /\ Cardinality(B) \in Nat
<1>1. Cardinality(A) \in Nat /\ Cardinality(B) \in Nat
  BY FS_CardinalityType
<1>2. Cardinality(A \cap B) = 0
  BY FS_EmptySet
<1>3. IsFiniteSet(A \cup B) /\ Cardinality(A \cup B) = Cardinality(A) + Cardinality(B) - Cardinality(A \cap B)
  BY FS_Union
<1>. QED  BY <1>1, <1>2, <1>3

\* The pairs of a handler and one of its follow-ups, as WorkExistsOnce counts
\* them.
TodoPairs == UNION {{[h |-> h, work |-> x] : x \in h.todo} : h \in handlers}

\* There are as many slots in follow-ups as follow-ups.
LEMMA TodoCount ==
    ASSUME TodoOnce, TodoFinite
    PROVE  IsFiniteSet(TodoKeys) /\ Cardinality(TodoKeys) = Cardinality(TodoPairs)
<1>. DEFINE pairs(h) == {[h |-> h, work |-> x] : x \in h.todo}
            f == [t \in TodoPairs |-> Key(t.work)]
<1>1. ASSUME NEW h \in handlers PROVE IsFiniteSet(pairs(h))
  <2>1. IsFiniteSet(h.todo)
    BY DEF TodoFinite
  <2>. DEFINE g == [x \in h.todo |-> [h |-> h, work |-> x]]
  <2>2. g \in [h.todo -> pairs(h)] /\ \A x \in h.todo : g[x] = [h |-> h, work |-> x]
    OBVIOUS
  <2>3. \A x, y \in h.todo : g[x] = g[y] => x = y
    BY <2>2
  <2>4. \A b \in pairs(h) : \E x \in h.todo : g[x] = b
    BY <2>2
  <2>. HIDE DEF g, pairs
  <2>. QED  BY <2>1, <2>2, <2>3, <2>4, SameCount
<1>2. IsFiniteSet({pairs(h) : h \in handlers})
  <2>. DEFINE P == {pairs(h) : h \in handlers}
              g == [h \in handlers |-> pairs(h)]
  <2>1. g \in Surjection(handlers, P)
    BY DEF Surjection
  <2>2. IsFiniteSet(handlers)
    BY DEF TodoFinite
  <2>. HIDE DEF g, P
  <2>3. IsFiniteSet(P)
    BY <2>1, <2>2, FS_Surjection
  <2>. QED  BY <2>3 DEF P
<1>3. IsFiniteSet(TodoPairs)
  BY <1>1, <1>2, FS_UNION DEF TodoPairs
<1>4. \A t \in TodoPairs : t.h \in handlers /\ t.work \in t.h.todo /\ t = [h |-> t.h, work |-> t.work]
  BY DEF TodoPairs
<1>5. ASSUME NEW h \in handlers, NEW x \in h.todo
      PROVE  [h |-> h, work |-> x] \in TodoPairs /\ x \in Todos
  BY DEF TodoPairs, Todos
<1>6. f \in [TodoPairs -> TodoKeys]
  <2>1. ASSUME NEW t \in TodoPairs PROVE Key(t.work) \in TodoKeys
    BY <1>4, <1>5 DEF TodoKeys
  <2>. QED  BY <2>1
<1>7. \A t, u \in TodoPairs : f[t] = f[u] => t = u
  <2>1. ASSUME NEW t \in TodoPairs, NEW u \in TodoPairs, Key(t.work) = Key(u.work) PROVE t = u
    <3>1. t.h = u.h /\ t.work = u.work
      BY <1>4, <2>1 DEF TodoOnce
    <3>. QED  BY <1>4, <3>1
  <2>. QED  BY <2>1
<1>8. \A k \in TodoKeys : \E t \in TodoPairs : f[t] = k
  <2>1. ASSUME NEW k \in TodoKeys PROVE \E t \in TodoPairs : Key(t.work) = k
    <3>1. PICK x \in Todos : k = Key(x)
      BY DEF TodoKeys
    <3>2. PICK h \in handlers : x \in h.todo
      BY <3>1 DEF Todos
    <3>3. [h |-> h, work |-> x] \in TodoPairs /\ [h |-> h, work |-> x].work = x
      BY <1>5, <3>2
    <3>. QED  BY <3>1, <3>3
  <2>. QED  BY <2>1
<1>. HIDE DEF f
<1>. QED  BY <1>3, <1>6, <1>7, <1>8, SameCount

\* There are as many slots in the queue, on the way and at work as requests there.
LEMMA PlaceCounts ==
    ASSUME IInv, OnceInv
    PROVE  /\ IsFiniteSet(QueueKeys) /\ Cardinality(QueueKeys) = Len(pending)
           /\ IsFiniteSet(SendKeys) /\ Cardinality(SendKeys) = Cardinality(sends)
           /\ IsFiniteSet(RunKeys) /\ Cardinality(RunKeys) = Cardinality(running)
<1>1. IsFiniteSet(QueueKeys) /\ Cardinality(QueueKeys) = Len(pending)
  <2>1. PICK S : pending \in Seq(S)
    BY DEF IInv, PendingIsASequence
  <2>2. DOMAIN pending = 1..Len(pending) /\ Len(pending) \in Nat
    BY <2>1
  <2>. DEFINE len == Len(pending)
  <2>. HIDE DEF len
  <2>a. len \in Int /\ len >= 0 /\ 1 \in Int
    BY <2>2 DEF len
  <2>b. IsFiniteSet(1..len) /\ Cardinality(1..len) = IF 1 > len THEN 0 ELSE len - 1 + 1
    BY <2>a, FS_Interval
  <2>c. Cardinality(1..len) = len
    BY <2>a, <2>b
  <2>3. IsFiniteSet(DOMAIN pending) /\ Cardinality(DOMAIN pending) = Len(pending)
    BY <2>2, <2>b, <2>c DEF len
  <2>. DEFINE f == [i \in DOMAIN pending |-> Key(pending[i])]
  <2>4. f \in [DOMAIN pending -> QueueKeys]
    BY DEF QueueKeys, Queued
  <2>5. \A i, j \in DOMAIN pending : f[i] = f[j] => i = j
    BY DEF OnceInv, QueueOnce
  <2>6. \A k \in QueueKeys : \E i \in DOMAIN pending : f[i] = k
    BY DEF QueueKeys, Queued
  <2>. HIDE DEF f
  <2>. QED  BY <2>3, <2>4, <2>5, <2>6, SameCount
<1>2. IsFiniteSet(SendKeys) /\ Cardinality(SendKeys) = Cardinality(sends)
  <2>. DEFINE f == [s \in sends |-> Key(s.work)]
  <2>1. f \in [sends -> SendKeys] /\ \A k \in SendKeys : \E s \in sends : f[s] = k
    BY DEF SendKeys
  <2>2. \A s, t \in sends : f[s] = f[t] => s = t
    BY DEF OnceInv, SendOnce
  <2>3. IsFiniteSet(sends)
    BY DEF OnceInv, PlacesFinite
  <2>. HIDE DEF f
  <2>. QED  BY <2>1, <2>2, <2>3, SameCount
<1>3. IsFiniteSet(RunKeys) /\ Cardinality(RunKeys) = Cardinality(running)
  <2>. DEFINE f == [j \in running |-> Key(j.work)]
  <2>1. f \in [running -> RunKeys] /\ \A k \in RunKeys : \E j \in running : f[j] = k
    BY DEF RunKeys
  <2>2. \A j, k \in running : f[j] = f[k] => j = k
    BY DEF OnceInv, RunOnce
  <2>3. IsFiniteSet(running)
    BY DEF OnceInv, PlacesFinite
  <2>. HIDE DEF f
  <2>. QED  BY <2>1, <2>2, <2>3, SameCount
<1>. QED  BY <1>1, <1>2, <1>3

\* Unless a response is lost (then the worker holds a copy), no slot of the
\* tree is in two places at once, and none that is proved is in any: follow-ups,
\* queue, sends and jobs together hold as many requests as slots, for every
\* number of workers and every interleaving of the tasks.
THEOREM WorkExistsOnceHolds ==
    ASSUME "ack" \notin Faults
    PROVE  Spec => []WorkExistsOnce
<1>1. IInv /\ KnownInv /\ OnceInv => WorkExistsOnce
  <2>. SUFFICES ASSUME IInv, KnownInv, OnceInv PROVE WorkExistsOnce
    OBVIOUS
  <2>1. /\ Cardinality(TodoKeys) = Cardinality(TodoPairs) /\ Cardinality(QueueKeys) = Len(pending)
        /\ Cardinality(SendKeys) = Cardinality(sends) /\ Cardinality(RunKeys) = Cardinality(running)
        /\ IsFiniteSet(TodoKeys) /\ IsFiniteSet(QueueKeys) /\ IsFiniteSet(SendKeys) /\ IsFiniteSet(RunKeys)
    BY TodoCount, PlaceCounts DEF OnceInv, PlacesFinite
  <2>. DEFINE all == TodoKeys \cup QueueKeys \cup SendKeys \cup RunKeys
  <2>2. Cardinality(all) = Cardinality(TodoPairs) + Len(pending) + Cardinality(sends) + Cardinality(running)
    <3>. DEFINE two == TodoKeys \cup QueueKeys
                three == two \cup SendKeys
    <3>0. /\ TodoKeys \cap QueueKeys = {} /\ two \cap SendKeys = {} /\ three \cap RunKeys = {}
      BY DEF OnceInv, PlacesApart
    <3>1. /\ IsFiniteSet(two) /\ Cardinality(two) = Cardinality(TodoKeys) + Cardinality(QueueKeys)
          /\ Cardinality(TodoKeys) \in Nat /\ Cardinality(QueueKeys) \in Nat
      BY <2>1, <3>0, DisjointCount
    <3>. HIDE DEF two
    <3>2. /\ IsFiniteSet(three) /\ Cardinality(three) = Cardinality(two) + Cardinality(SendKeys)
          /\ Cardinality(SendKeys) \in Nat
      BY <2>1, <3>0, <3>1, DisjointCount
    <3>3. all = three \cup RunKeys
      BY DEF two
    <3>. HIDE DEF three
    <3>4. /\ Cardinality(three \cup RunKeys) = Cardinality(three) + Cardinality(RunKeys)
          /\ Cardinality(RunKeys) \in Nat
      BY <2>1, <3>0, <3>2, DisjointCount
    <3>. HIDE DEF all
    <3>. QED  BY <2>1, <3>1, <3>2, <3>3, <3>4
  <2>. DEFINE works == {t.work : t \in TodoPairs} \cup Queued \cup Sent \cup Worked
  <2>3. works = Works
    <3>1. {t.work : t \in TodoPairs} = Todos
      <4>1. ASSUME NEW t \in TodoPairs PROVE t.work \in Todos
        BY DEF TodoPairs, Todos
      <4>2. ASSUME NEW x \in Todos PROVE \E t \in TodoPairs : t.work = x
        <5>1. PICK h \in handlers : x \in h.todo
          BY DEF Todos
        <5>2. [h |-> h, work |-> x] \in TodoPairs /\ [h |-> h, work |-> x].work = x
          BY <5>1 DEF TodoPairs
        <5>. QED  BY <5>2
      <4>. QED  BY <4>1, <4>2
    <3>. QED  BY <3>1 DEF Works
  <2>4. {Key(x) : x \in Works} = all
    BY DEF Works, Sent, Worked, TodoKeys, QueueKeys, SendKeys, RunKeys
  <2>5. ASSUME NEW x \in Works
        PROVE  \/ x.step = "LeafProve" /\ LeafOf(x) \notin leaf_proofs
               \/ x.step = "InternalProve" /\ InternalOf(x) \notin internal_proofs
               \/ x.step = "EvmProve" /\ ~evm_proof
    <3>1. Key(x) \notin StoredKeys
      <4>1. Key(x) \in all
        BY <2>4
      <4>. QED  BY <4>1 DEF OnceInv, PlacesApart
    <3>2. \A y \in Stored : Key(y) # Key(x)
      BY <3>1 DEF StoredKeys
    <3>3. CASE x.step = "LeafProve"
      <4>. SUFFICES ASSUME LeafOf(x) \in leaf_proofs PROVE FALSE
        BY <3>3
      <4>1. LeafRequest(LeafOf(x).start, LeafOf(x).end) \in Stored
        BY DEF Stored
      <4>2. x.layer = 0
        BY <3>3, WorkIsSlot
      <4>3. Key(LeafRequest(LeafOf(x).start, LeafOf(x).end)) = Key(x)
        BY <3>3, <4>2 DEF Key, LeafRequest, LeafOf
      <4>. QED  BY <3>2, <4>1, <4>3
    <3>4. CASE x.step = "InternalProve"
      <4>. SUFFICES ASSUME InternalOf(x) \in internal_proofs PROVE FALSE
        BY <3>4
      <4>. DEFINE p == InternalOf(x)
                  y == InternalRequest(p.layer, p.start, p.end, FALSE)
      <4>1. y \in Stored
        <5>. HIDE DEF p
        <5>1. p \in internal_proofs
          BY DEF p
        <5>. QED  BY <5>1 DEF Stored
      <4>2. Key(y) = Key(x)
        BY <3>4 DEF Key, InternalRequest, InternalOf
      <4>. HIDE DEF y
      <4>. QED  BY <3>2, <4>1, <4>2
    <3>5. CASE x.step = "EvmProve"
      <4>. SUFFICES ASSUME evm_proof PROVE FALSE
        BY <3>5
      <4>1. EvmRequest \in Stored
        BY DEF Stored
      <4>2. AsSlot(x) = EvmRequest
        BY <3>5, WorkIsSlot
      <4>3. Key(EvmRequest) = Key(x)
        BY <4>2 DEF Key, AsSlot
      <4>. QED  BY <3>2, <4>1, <4>3
    <3>6. x.step \in {"LeafProve", "InternalProve", "EvmProve"}
      BY WorkIsSlot
    <3>. QED  BY <3>3, <3>4, <3>5, <3>6
  <2>. HIDE DEF all, works
  <2>6. Cardinality(TodoPairs) + Len(pending) + Cardinality(sends) + Cardinality(running)
          = Cardinality({Key(x) : x \in works})
    BY <2>2, <2>3, <2>4
  <2>7. \A x \in works :
           \/ x.step = "LeafProve" /\ LeafOf(x) \notin leaf_proofs
           \/ x.step = "InternalProve" /\ InternalOf(x) \notin internal_proofs
           \/ x.step = "EvmProve" /\ ~evm_proof
    BY <2>3, <2>5
  <2>. QED  BY <2>6, <2>7, Zenon DEF WorkExistsOnce, works, TodoPairs, Queued, Sent, Worked, Key
<1>2. Init => IInv /\ KnownInv /\ OnceInv
  BY InitEstablishes, KnownAtInit, OnceAtInit
<1>3. IInv /\ KnownInv /\ OnceInv /\ [Next]_vars => (IInv /\ KnownInv /\ OnceInv)'
  BY NextPreserves, KnownAtNext, OnceAtNext
<1>. QED  BY <1>1, <1>2, <1>3, PTL DEF Spec
-----------------------------------------------------------------------------
(* The scheduler's counts, while no dispatch and no job fails *)

\* The faults after which a count no longer covers the work behind it:
\* release_worker and the Error completion wipe entries they do not match.
Calm == Faults \cap {"send", "ack", "error"} = {}

\* What a worker was asked for and has not been credited with.
Owed(w) ==
    {h \in handlers : h.worker = w /\ h.res.kind \in Steps /\ h.pc \in {"complete", "late"}}
Load(w) == WorksOf(w) \cup Owed(w)
Marker(w) == IF sharded[w] THEN 1 ELSE 0

\* Nothing has failed; requests and jobs are where the roles allow them.
RequestsInv ==
    /\ \A s \in sends : s.pc = "send"
    /\ \A j \in running : DOMAIN j = {"worker", "work", "copy"}
    /\ \A x \in sends \cup running :
          IF x.work.step = "EvmProve" THEN RunsEvmProve(x.worker) ELSE RunsStarkProving(x.worker)
StartInv ==
    /\ \A w \in StarkWorkers : dispatch[w] \in {"sending", "ok"}
    /\ starter \in {"dispatch", "done"}
KindsInv ==
    \A h \in handlers : /\ h.res.kind \in {"App", "ExecuteE2"} \cup Steps
                        /\ h.pc \in {"segments", "drain"} => h.res.kind = "ExecuteE2"

\* The books have an entry for each piece of work, they are bounded, and a worker
\* busy with its shard has nothing else.
LoadInv ==
    \A w \in Workers : /\ Marker(w) + Cardinality(Load(w)) <= active_proof_count[w]
                       /\ active_proof_count[w] <= MaxLeafProvers
                       /\ Load(w) # {} => ~sharded[w]

\* ExecuteE2 is posted once, and tells the scheduler the segment count once.
E2Inv ==
    /\ e2Unsent => sched_segments = None /\ \A h \in handlers : h.res.kind # "ExecuteE2"
    /\ \A g, h \in handlers : g.res.kind = "ExecuteE2" /\ h.res.kind = "ExecuteE2" => g = h
    /\ \A h \in handlers : h.pc = "segments" => sched_segments = None

\* So is each segment, and a worker is free of its shard when all are accounted for.
SegmentsOnce ==
    \A g, h \in handlers :
       g.res.kind = "App" /\ h.res.kind = "App" /\ g.res.segment = h.res.segment => g = h
SegmentsOwned ==
    \A h \in handlers : h.res.kind = "App" =>
       /\ h.worker \in StarkWorkers
       /\ h.res.segment \in Owned(h.worker) /\ h.res.segment \notin unsent[h.worker]
       /\ h.pc \in {"complete", "late"} => h.res.segment \notin completed_segments[h.worker]
ShardsInv ==
    /\ completed_segments \in [Workers -> SUBSET (0..(NumSegments - 1))]
    /\ SegmentsOnce /\ SegmentsOwned
    /\ \A w \in StarkWorkers :
          /\ unsent[w] \subseteq Owned(w)
          /\ completed_segments[w] \subseteq Owned(w)
          /\ completed_segments[w] \cap unsent[w] = {}
          /\ ~sharded[w] => Owned(w) \subseteq completed_segments[w]

\* Before the scheduler has the count there is nothing but the shards.
EarlyInv ==
    sched_segments = None =>
      /\ \A w \in Workers : active_proof_count[w] = Marker(w)
      /\ \A w \in StarkWorkers : sharded[w]
      /\ \A x \in Queued \cup Todos : x.step # "EvmProve"

CalmInv == RequestsInv /\ StartInv /\ KindsInv /\ LoadInv /\ E2Inv /\ ShardsInv /\ EarlyInv

\* Counting what a set with one element more, less or replaced can hold.
LEMMA CountSub ==
    ASSUME NEW B, IsFiniteSet(B), NEW A
    PROVE  /\ A \subseteq B => Cardinality(A) <= Cardinality(B)
           /\ \A y : A \subseteq B \cup {y} => Cardinality(A) <= Cardinality(B) + 1
           /\ \A x \in B : A \subseteq B \ {x} => Cardinality(A) <= Cardinality(B) - 1
           /\ \A x \in B : \A y : A \subseteq (B \ {x}) \cup {y} => Cardinality(A) <= Cardinality(B)
           /\ A \subseteq B => IsFiniteSet(A) /\ Cardinality(A) \in Nat
           /\ \A y : A \subseteq B \cup {y} => IsFiniteSet(A) /\ Cardinality(A) \in Nat
           /\ Cardinality(B) \in Nat
<1>0. Cardinality(B) \in Nat
  BY FS_CardinalityType
<1>1. ASSUME NEW C, IsFiniteSet(C), A \subseteq C
      PROVE  Cardinality(A) <= Cardinality(C) /\ IsFiniteSet(A) /\ Cardinality(A) \in Nat
  BY <1>1, FS_Subset, FS_CardinalityType
<1>2. ASSUME NEW y, A \subseteq B \cup {y}
      PROVE  Cardinality(A) <= Cardinality(B) + 1 /\ IsFiniteSet(A) /\ Cardinality(A) \in Nat
  <2>1. IsFiniteSet(B \cup {y}) /\ Cardinality(B \cup {y}) <= Cardinality(B) + 1
        /\ Cardinality(B \cup {y}) \in Nat
    BY <1>0, FS_AddElement, FS_CardinalityType
  <2>2. Cardinality(A) <= Cardinality(B \cup {y}) /\ IsFiniteSet(A) /\ Cardinality(A) \in Nat
    BY <1>1, <1>2, <2>1
  <2>. QED  BY <1>0, <2>1, <2>2
<1>3. ASSUME NEW x \in B
      PROVE  IsFiniteSet(B \ {x}) /\ Cardinality(B \ {x}) = Cardinality(B) - 1
             /\ Cardinality(B \ {x}) \in Nat
  BY FS_RemoveElement, FS_CardinalityType
<1>4. ASSUME NEW x \in B, A \subseteq B \ {x} PROVE Cardinality(A) <= Cardinality(B) - 1
  BY <1>1, <1>3, <1>4
<1>5. ASSUME NEW x \in B, NEW y, A \subseteq (B \ {x}) \cup {y}
      PROVE  Cardinality(A) <= Cardinality(B)
  <2>. DEFINE C == (B \ {x}) \cup {y}
  <2>1. IsFiniteSet(C) /\ Cardinality(C) <= Cardinality(B \ {x}) + 1 /\ Cardinality(C) \in Nat
    <3>. DEFINE D == B \ {x}
    <3>1. IsFiniteSet(D) /\ Cardinality(D) \in Nat
      BY <1>3
    <3>. HIDE DEF D
    <3>2. /\ IsFiniteSet(D \cup {y})
          /\ Cardinality(D \cup {y}) = IF y \in D THEN Cardinality(D) ELSE Cardinality(D) + 1
      BY <3>1, FS_AddElement
    <3>3. Cardinality(D \cup {y}) <= Cardinality(D) + 1
      BY <3>1, <3>2
    <3>4. Cardinality(D \cup {y}) \in Nat
      BY <3>2, FS_CardinalityType
    <3>. QED  BY <3>2, <3>3, <3>4 DEF D
  <2>. HIDE DEF C
  <2>2. Cardinality(A) <= Cardinality(C) /\ Cardinality(A) \in Nat
    BY <1>1, <1>5, <2>1 DEF C
  <2>. QED  BY <1>0, <1>3, <2>1, <2>2
<1>6. A \subseteq B => Cardinality(A) <= Cardinality(B) /\ IsFiniteSet(A) /\ Cardinality(A) \in Nat
  BY <1>1
<1>. QED  BY <1>0, <1>2, <1>4, <1>5, <1>6

\* A worker owns no more segments than the round-robin count says.
LEMMA OwnedCount ==
    ASSUME NEW w \in StarkWorkers
    PROVE  /\ IsFiniteSet(Owned(w)) /\ Cardinality(Owned(w)) \in Nat
           /\ Cardinality(Owned(w)) <= ExpectedCount(w, NumSegments)
<1>. USE ManagerAssumption, WorkerAssumption
<1>. DEFINE k == Cardinality(StarkWorkers)
            n == NumSegments
<1>1. k \in Nat \ {0}
  <2>1. IsFiniteSet(Workers)
    BY FS_Interval DEF Workers
  <2>2. IsFiniteSet(StarkWorkers)
    BY <2>1, StarkWorkersAreWorkers, FS_Subset
  <2>. QED  BY <2>2, FS_CardinalityType, FS_EmptySet
<1>. HIDE DEF k
<1>2. w \in Nat
  BY DEF StarkWorkers, Workers
<1>3. Owned(w) = {seg \in 0..(n - 1) : seg % k = w}
  BY DEF Owned, k
<1>4. IsFiniteSet(Owned(w)) /\ Cardinality(Owned(w)) \in Nat
  <2>1. IsFiniteSet(0..(n - 1))
    BY FS_Interval
  <2>. QED  BY <2>1, <1>3, FS_Subset, FS_CardinalityType
<1>5. ASSUME NEW seg \in 0..(n - 1), seg % k = w
      PROVE  seg \div k \in Nat /\ seg = k * (seg \div k) + w
  BY <1>1, <1>5
<1>6. CASE w < n
  <2>. DEFINE c == DivCeil(n - w, k)
  <2>1. c \in Nat /\ n - w <= c * k
    BY <1>1, <1>2, <1>6 DEF DivCeil
  <2>2. ExpectedCount(w, NumSegments) = c
    BY <1>6 DEF ExpectedCount, k
  <2>. HIDE DEF c
  <2>3. ASSUME NEW seg \in Owned(w) PROVE seg \div k \in 0..(c - 1)
    <3>1. seg \in 0..(n - 1) /\ seg % k = w
      BY <1>3
    <3>. DEFINE q == seg \div k
    <3>2. q \in Nat /\ seg = k * q + w
      BY <3>1, <1>5
    <3>. HIDE DEF q
    <3>3. k * q < c * k
      BY <3>1, <3>2, <2>1, <1>1, <1>2
    <3>4. q < c
      <4>. SUFFICES ASSUME q >= c PROVE FALSE
        BY <3>2, <2>1
      <4>. QED  BY <3>2, <3>3, <2>1, <1>1
    <3>. QED  BY <3>2, <3>4, <2>1 DEF q
  <2>. DEFINE f == [seg \in Owned(w) |-> seg \div k]
  <2>4. f \in [Owned(w) -> 0..(c - 1)]
    BY <2>3
  <2>5. ASSUME NEW a \in Owned(w), NEW b \in Owned(w), f[a] = f[b] PROVE a = b
    <3>1. a = k * (a \div k) + w /\ b = k * (b \div k) + w
      BY <1>3, <1>5
    <3>2. a \div k = b \div k
      BY <2>5
    <3>. QED  BY <3>1, <3>2
  <2>. HIDE DEF f
  <2>6. f \in Injection(Owned(w), 0..(c - 1))
    BY <2>4, <2>5 DEF Injection, IsInjective
  <2>7. IsFiniteSet(0..(c - 1)) /\ Cardinality(0..(c - 1)) = c
    <3>1. IsFiniteSet(0..(c - 1)) /\ Cardinality(0..(c - 1)) = IF 0 > c - 1 THEN 0 ELSE c - 1 - 0 + 1
      BY <2>1, FS_Interval
    <3>. QED  BY <2>1, <3>1
  <2>8. Cardinality(Owned(w)) <= Cardinality(0..(c - 1))
    BY <2>6, <2>7, FS_Injection
  <2>. QED  BY <1>4, <2>2, <2>7, <2>8
<1>7. CASE ~(w < n)
  <2>1. Owned(w) = {}
    <3>. SUFFICES ASSUME NEW seg \in Owned(w) PROVE FALSE
      OBVIOUS
    <3>1. seg \in 0..(n - 1) /\ seg % k = w
      BY <1>3
    <3>. DEFINE q == seg \div k
    <3>2. q \in Nat /\ seg = k * q + w
      BY <3>1, <1>5
    <3>. HIDE DEF q
    <3>3. k * q >= 0
      BY <3>2, <1>1
    <3>. QED  BY <3>1, <3>2, <3>3, <1>1, <1>2, <1>7
  <2>2. Cardinality(Owned(w)) = 0
    BY <2>1, FS_EmptySet
  <2>. QED  BY <1>4, <1>7, <2>2 DEF ExpectedCount
<1>. QED  BY <1>6, <1>7

\* worker_completed_all_segments tells the truth about a worker's own segments.
LEMMA CompletedIsAll ==
    ASSUME NEW w \in StarkWorkers, NEW done, done \subseteq Owned(w),
           CompletedAllSegments(w, done, NumSegments)
    PROVE  Owned(w) \subseteq done
<1>1. {seg \in done : seg % Cardinality(StarkWorkers) = w} = done
  BY DEF Owned
<1>2. Cardinality(done) >= ExpectedCount(w, NumSegments)
  BY <1>1 DEF CompletedAllSegments
<1>3. IsFiniteSet(Owned(w)) /\ Cardinality(Owned(w)) <= ExpectedCount(w, NumSegments)
      /\ Cardinality(Owned(w)) \in Nat
  BY OwnedCount
<1>4. Cardinality(done) <= Cardinality(Owned(w)) /\ IsFiniteSet(done)
  BY <1>3, FS_Subset
<1>5. ExpectedCount(w, NumSegments) \in Int /\ Cardinality(done) \in Nat
  <2>1. w \in Nat /\ NumSegments \in Nat
    BY ManagerAssumption, WorkerAssumption DEF StarkWorkers, Workers
  <2>. DEFINE k == Cardinality(StarkWorkers)
  <2>2. k \in Nat \ {0}
    <3>1. IsFiniteSet(Workers)
      BY WorkerAssumption, FS_Interval DEF Workers
    <3>2. IsFiniteSet(StarkWorkers)
      BY <3>1, StarkWorkersAreWorkers, FS_Subset
    <3>. QED  BY <3>2, FS_CardinalityType, FS_EmptySet
  <2>. HIDE DEF k
  <2>3. ExpectedCount(w, NumSegments) = IF w < NumSegments THEN (NumSegments - w + k - 1) \div k ELSE 0
    BY DEF ExpectedCount, DivCeil, k
  <2>. QED  BY <1>4, <2>1, <2>2, <2>3, FS_CardinalityType
<1>6. Cardinality(Owned(w)) = Cardinality(done)
  BY <1>2, <1>3, <1>4, <1>5
<1>. QED  BY <1>3, <1>6, FS_Subset

\* Which segments and which workers there are does not change.
LEMMA OwnedStable == \A w : Owned(w)' = Owned(w)
BY DEF Owned, StarkWorkers, RunsStarkProving, Workers

\* A worker's load is finite.
LEMMA LoadFinite ==
    ASSUME PlacesFinite, NEW w PROVE IsFiniteSet(Load(w)) /\ Cardinality(Load(w)) \in Nat
<1>1. IsFiniteSet(sends) /\ IsFiniteSet(running) /\ IsFiniteSet(handlers)
  BY DEF PlacesFinite, TodoFinite
<1>2. IsFiniteSet(sends \cup running)
  BY <1>1, FS_Union
<1>3. IsFiniteSet((sends \cup running) \cup handlers)
  BY <1>1, <1>2, FS_Union
<1>4. Load(w) \subseteq (sends \cup running) \cup handlers
  BY DEF Load, WorksOf, Owed
<1>. QED  BY <1>3, <1>4, FS_Subset, FS_CardinalityType

\* Books that stay as they are cover a load that does not grow.
LEMMA LoadKept ==
    ASSUME IInv, LoadInv, PlacesFinite, UNCHANGED <<active_proof_count, sharded>>,
           \A w \in Workers : Load(w)' \subseteq Load(w)
    PROVE  LoadInv'
<1>. SUFFICES ASSUME NEW w \in Workers
              PROVE  /\ Marker(w)' + Cardinality(Load(w)') <= active_proof_count'[w]
                     /\ active_proof_count'[w] <= MaxLeafProvers
                     /\ Load(w)' # {} => ~sharded'[w]
  BY DEF LoadInv, Workers
<1>1. /\ Cardinality(Load(w)') <= Cardinality(Load(w)) /\ Cardinality(Load(w)') \in Nat
      /\ Cardinality(Load(w)) \in Nat
  BY LoadFinite, CountSub
<1>2. Marker(w)' = Marker(w) /\ Marker(w) \in {0, 1}
  BY DEF Marker
<1>3. active_proof_count[w] \in Nat
  BY DEF IInv, TypeOK
<1>. QED  BY <1>1, <1>2, <1>3 DEF LoadInv

\* A handler goes on at pc; the others stay where they are.
MovesTo(h, pc) ==
    \E g : /\ g.worker = h.worker /\ g.work = h.work /\ g.res = h.res
           /\ g.pc = pc /\ g.todo \subseteq h.todo
           /\ handlers' \subseteq (handlers \ {h}) \cup {g}

\* Both ways a handler goes on are of that kind.
LEMMA HandlerMovesTo ==
    ASSUME IInv, NEW h \in handlers
    PROVE  /\ \A pc : Goto(h, pc) => MovesTo(h, pc)
           /\ \A todo \in SUBSET h.todo : FollowUp(h, todo) => MovesTo(h, "follow")
<1>0. DOMAIN h = {"worker", "work", "copy", "res", "sealed", "pc", "todo"}
  BY DEF IInv, TypeOK
<1>1. ASSUME NEW pc, Goto(h, pc) PROVE MovesTo(h, pc)
  <2>. DEFINE g == [h EXCEPT !.pc = pc]
  <2>1. g.worker = h.worker /\ g.work = h.work /\ g.res = h.res /\ g.pc = pc /\ g.todo = h.todo
    BY <1>0
  <2>2. handlers' = (handlers \ {h}) \cup {g}
    BY <1>1 DEF Goto
  <2>. HIDE DEF g
  <2>. QED  BY <2>1, <2>2 DEF MovesTo
<1>2. ASSUME NEW todo \in SUBSET h.todo, FollowUp(h, todo) PROVE MovesTo(h, "follow")
  <2>. DEFINE g == [h EXCEPT !.pc = "follow", !.todo = todo]
  <2>1. g.worker = h.worker /\ g.work = h.work /\ g.res = h.res /\ g.pc = "follow" /\ g.todo = todo
    BY <1>0
  <2>2. handlers' = (handlers \ {h}) \cup
                       {[h EXCEPT !.pc = "follow", !.todo = rest] : rest \in {todo} \ {{}}}
    BY <1>2, Zenon DEF FollowUp
  <2>3. \A f \in handlers' : f \in handlers \ {h} \/ f = g
    <3>1. \A rest \in {todo} \ {{}} : rest = todo
      OBVIOUS
    <3>. QED  BY <2>2, <3>1, Zenon
  <2>. HIDE DEF g
  <2>. QED  BY <2>1, <2>3 DEF MovesTo
<1>. QED  BY <1>1, <1>2

\* What a move of a handler past its result leaves of the invariant.
LEMMA HandlerGoesOn ==
    ASSUME CalmInv, NEW h \in handlers, NEW pc, MovesTo(h, pc),
           pc \notin {"segments", "late"},
           pc \in {"complete", "drain"} => h.res.kind = "ExecuteE2"
    PROVE  /\ KindsInv'
           /\ e2Unsent' = e2Unsent /\ (sched_segments' = sched_segments \/ h.pc = "segments") => E2Inv'
           /\ SegmentsOnce'
           /\ UNCHANGED <<unsent, completed_segments>> => SegmentsOwned'
           /\ \A w : Owed(w)' \subseteq Owed(w)
           /\ \A w : h \in Owed(w) => h \notin Owed(w)'
           /\ Todos' \subseteq Todos
<1>1. PICK g : /\ g.worker = h.worker /\ g.work = h.work /\ g.res = h.res
               /\ g.pc = pc /\ g.todo \subseteq h.todo
               /\ handlers' \subseteq (handlers \ {h}) \cup {g}
  BY DEF MovesTo
<1>2. KindsInv'
  BY <1>1 DEF CalmInv, KindsInv, Steps
<1>3. ASSUME e2Unsent' = e2Unsent, sched_segments' = sched_segments \/ h.pc = "segments"
      PROVE  E2Inv'
  <2>1. e2Unsent' => sched_segments' = None /\ \A f \in handlers' : f.res.kind # "ExecuteE2"
    BY <1>1, <1>3 DEF CalmInv, KindsInv, E2Inv, None
  <2>2. \A f, e \in handlers' : f.res.kind = "ExecuteE2" /\ e.res.kind = "ExecuteE2" => f = e
    BY <1>1 DEF CalmInv, E2Inv
  <2>3. ASSUME NEW f \in handlers', f.pc = "segments" PROVE sched_segments' = None
    <3>1. f \in handlers \ {h}
      BY <1>1, <2>3
    <3>2. f.res.kind = "ExecuteE2" /\ sched_segments = None
      BY <2>3, <3>1 DEF CalmInv, KindsInv, E2Inv
    <3>3. h.pc # "segments"
      BY <3>1, <3>2 DEF CalmInv, KindsInv, E2Inv
    <3>. QED  BY <1>3, <3>2, <3>3
  <2>. QED  BY <2>1, <2>2, <2>3 DEF E2Inv, None
<1>4. SegmentsOnce'
  BY <1>1 DEF CalmInv, ShardsInv, SegmentsOnce
<1>5. ASSUME UNCHANGED <<unsent, completed_segments>> PROVE SegmentsOwned'
  <2>. SUFFICES ASSUME NEW f \in handlers', f.res.kind = "App"
                PROVE  /\ f.worker \in StarkWorkers
                       /\ f.res.segment \in Owned(f.worker) /\ f.res.segment \notin unsent[f.worker]
                       /\ f.pc \in {"complete", "late"} =>
                             f.res.segment \notin completed_segments[f.worker]
    BY <1>5, OwnedStable DEF SegmentsOwned, StarkWorkers, RunsStarkProving, Workers
  <2>. QED  BY <1>1 DEF CalmInv, ShardsInv, SegmentsOwned
<1>6. ASSUME NEW w PROVE Owed(w)' \subseteq Owed(w) /\ (h \in Owed(w) => h \notin Owed(w)')
  BY <1>1 DEF Owed, Steps
<1>7. Todos' \subseteq Todos
  <2>. SUFFICES ASSUME NEW x \in Todos' PROVE x \in Todos
    OBVIOUS
  <2>1. PICK f \in handlers' : x \in f.todo
    BY DEF Todos
  <2>2. \E e \in handlers : x \in e.todo
    BY <1>1, <2>1
  <2>. QED  BY <2>2 DEF Todos
<1>. QED  BY <1>2, <1>3, <1>4, <1>5, <1>6, <1>7

\* Assigning work to a worker that is free, or may take another leaf.
LEMMA AssignIsCalm ==
    ASSUME IInv, CalmInv, PlacesFinite, NEW work, sched_segments = None => work.step # "EvmProve",
           Assign(work), running' = running, \A w : Owed(w)' \subseteq Owed(w)
    PROVE  /\ sched_segments # None
           /\ LoadInv' /\ RequestsInv'
           /\ UNCHANGED <<entry, sharded, completed_segments, sched_segments>>
<1>. USE WorkerAssumption
<1>1. PICK w \in Candidates(work.step) :
        /\ active_proof_count' = [active_proof_count EXCEPT ![w] = @ + 1]
        /\ sends' = sends \cup {[worker |-> w, work |-> work, tries |-> 0, pc |-> "send"]}
        /\ UNCHANGED <<entry, sharded, completed_segments, sched_segments>>
  BY DEF Assign
<1>2. w \in Workers
  BY <1>1 DEF Candidates, LeafCandidates, StarkWorkers
<1>3. work.step # "EvmProve" => w \in StarkWorkers /\ RunsStarkProving(w) /\ ~sharded[w]
  BY <1>1 DEF Candidates, LeafCandidates, CanAcceptWork, StarkWorkers
<1>4. work.step = "EvmProve" => RunsEvmProve(w)
  BY <1>1 DEF Candidates, CanAcceptWork
<1>5. sched_segments # None
  BY <1>3 DEF CalmInv, EarlyInv
<1>6. active_proof_count \in [Workers -> Nat]
  BY DEF IInv, TypeOK
<1>7. active_proof_count[w] < MaxLeafProvers
  <2>1. active_proof_count[w] = 0 \/ active_proof_count[w] < MaxLeafProvers
    BY <1>1 DEF Candidates, LeafCandidates, CanAcceptWork
  <2>. QED  BY <2>1, <1>2, <1>6
<1>a. ~sharded[w]
  <2>1. CASE work.step = "EvmProve"
    <3>1. active_proof_count[w] = 0
      BY <1>1, <2>1 DEF Candidates, CanAcceptWork
    <3>2. Cardinality(Load(w)) \in Nat /\ Marker(w) + Cardinality(Load(w)) <= 0
      BY <1>2, <3>1, LoadFinite DEF CalmInv, LoadInv
    <3>. QED  BY <3>2 DEF Marker
  <2>. QED  BY <1>3, <2>1
<1>. DEFINE s == [worker |-> w, work |-> work, tries |-> 0, pc |-> "send"]
<1>8. s.worker = w /\ s.work = work /\ s.pc = "send" /\ sends' = sends \cup {s}
  BY <1>1
<1>. HIDE DEF s
<1>9. RequestsInv'
  BY <1>3, <1>4, <1>8 DEF CalmInv, RequestsInv, RunsEvmProve, RunsStarkProving
<1>10. LoadInv'
  <2>. SUFFICES ASSUME NEW v \in Workers
                PROVE  /\ Marker(v)' + Cardinality(Load(v)') <= active_proof_count'[v]
                       /\ active_proof_count'[v] <= MaxLeafProvers
                       /\ Load(v)' # {} => ~sharded'[v]
    BY DEF LoadInv, Workers
  <2>1. Marker(v)' = Marker(v) /\ Marker(v) \in {0, 1}
    BY <1>1 DEF Marker
  <2>2. Cardinality(Load(v)) \in Nat /\ IsFiniteSet(Load(v))
    BY LoadFinite
  <2>3. CASE v = w
    <3>1. Load(v)' \subseteq Load(v) \cup {s}
      <4>1. WorksOf(v)' \subseteq WorksOf(v) \cup {s}
        BY <1>8 DEF WorksOf
      <4>. QED  BY <4>1 DEF Load
    <3>2. Cardinality(Load(v)') <= Cardinality(Load(v)) + 1 /\ Cardinality(Load(v)') \in Nat
      BY <2>2, <3>1, CountSub
    <3>3. active_proof_count'[v] = active_proof_count[v] + 1
      BY <1>1, <1>6, <2>3
    <3>4. ~sharded'[v]
      BY <1>1, <1>a, <2>3
    <3>. QED  BY <1>6, <1>7, <2>1, <2>2, <2>3, <3>2, <3>3, <3>4 DEF CalmInv, LoadInv
  <2>4. CASE v # w
    <3>1. Load(v)' \subseteq Load(v)
      <4>1. WorksOf(v)' \subseteq WorksOf(v)
        BY <1>8, <2>4 DEF WorksOf
      <4>. QED  BY <4>1 DEF Load
    <3>2. Cardinality(Load(v)') <= Cardinality(Load(v)) /\ Cardinality(Load(v)') \in Nat
      BY <2>2, <3>1, CountSub
    <3>3. active_proof_count'[v] = active_proof_count[v]
      BY <1>1, <1>6, <2>4
    <3>4. Load(v)' # {} => ~sharded'[v]
      BY <1>1, <3>1 DEF CalmInv, LoadInv
    <3>. QED  BY <1>6, <2>1, <2>2, <3>2, <3>3, <3>4 DEF CalmInv, LoadInv
  <2>. QED  BY <2>3, <2>4
<1>. QED  BY <1>1, <1>5, <1>9, <1>10

\* A handler goes on, and the scheduler assigns one of the works it has or is
\* given, or leaves its books alone.
LEMMA CalmAtPlacing ==
    ASSUME IInv, CalmInv, PlacesFinite, NEW h \in handlers, NEW pc, MovesTo(h, pc),
           pc \notin {"segments", "late"},
           pc \in {"complete", "drain"} => h.res.kind = "ExecuteE2",
           Queued' \subseteq Queued \cup Todos,
           \/ \E work \in Queued \cup Todos : Assign(work)
           \/ UNCHANGED <<active_proof_count, sharded, completed_segments, sched_segments, sends>>,
           UNCHANGED <<workerVars, taskVars>>
    PROVE  CalmInv'
<1>. USE DEF workerVars, taskVars
<1>1. /\ KindsInv'
      /\ e2Unsent' = e2Unsent /\ (sched_segments' = sched_segments \/ h.pc = "segments") => E2Inv'
      /\ SegmentsOnce'
      /\ UNCHANGED <<unsent, completed_segments>> => SegmentsOwned'
      /\ \A w : Owed(w)' \subseteq Owed(w)
      /\ Todos' \subseteq Todos
  BY HandlerGoesOn
<1>2. StartInv'
  BY DEF CalmInv, StartInv, StarkWorkers, RunsStarkProving, Workers
<1>3. /\ UNCHANGED <<sharded, completed_segments, sched_segments>>
      /\ LoadInv' /\ RequestsInv' /\ EarlyInv'
  <2>1. CASE \E work \in Queued \cup Todos : Assign(work)
    <3>1. PICK work \in Queued \cup Todos : Assign(work)
      BY <2>1
    <3>2. sched_segments = None => work.step # "EvmProve"
      BY DEF CalmInv, EarlyInv
    <3>3. /\ sched_segments # None /\ LoadInv' /\ RequestsInv'
          /\ UNCHANGED <<sharded, completed_segments, sched_segments>>
      BY <1>1, <3>1, <3>2, AssignIsCalm
    <3>. QED  BY <3>3 DEF EarlyInv, None
  <2>2. CASE UNCHANGED <<active_proof_count, sharded, completed_segments, sched_segments, sends>>
    <3>1. ASSUME NEW w \in Workers PROVE Load(w)' \subseteq Load(w)
      BY <1>1, <2>2 DEF Load, WorksOf
    <3>2. LoadInv'
      BY <2>2, <3>1, LoadKept DEF CalmInv
    <3>3. RequestsInv'
      BY <2>2 DEF CalmInv, RequestsInv, RunsEvmProve, RunsStarkProving
    <3>4. EarlyInv'
      BY <1>1, <2>2 DEF CalmInv, EarlyInv, Marker, None, StarkWorkers, RunsStarkProving, Workers
    <3>. QED  BY <2>2, <3>2, <3>3, <3>4
  <2>. QED  BY <2>1, <2>2
<1>4. E2Inv' /\ SegmentsOwned'
  BY <1>1, <1>3
<1>5. ShardsInv'
  <2>1. UNCHANGED <<completed_segments, unsent, sharded>>
    BY <1>3
  <2>. QED  BY <1>1, <1>4, <2>1, OwnedStable DEF CalmInv, ShardsInv, StarkWorkers, RunsStarkProving, Workers
<1>. QED  BY <1>1, <1>2, <1>3, <1>4, <1>5 DEF CalmInv

\* set_num_segments: the workers whose segments are all accounted for are freed
\* of their shards, and nobody else.
LEMMA CalmAtSegments ==
    ASSUME IInv, CalmInv, PlacesFinite, NEW h \in handlers, h.pc = "segments",
           NEW pc, pc \in {"drain", "sealed", "complete"}, MovesTo(h, pc),
           SetNumSegments(h.res.count),
           UNCHANGED <<workerVars, taskVars>>
    PROVE  CalmInv'
<1>. USE DEF workerVars, taskVars
<1>0. h.res.kind = "ExecuteE2" /\ sched_segments = None /\ h.res.count = NumSegments
  BY DEF CalmInv, KindsInv, E2Inv, IInv, TypeOK
<1>1. /\ KindsInv' /\ E2Inv' /\ SegmentsOnce'
      /\ UNCHANGED <<unsent, completed_segments>> => SegmentsOwned'
      /\ \A w : Owed(w)' \subseteq Owed(w)
  BY <1>0, HandlerGoesOn
<1>. DEFINE D == DoneWithShard(NumSegments)
<1>2. /\ sched_segments' = NumSegments
      /\ active_proof_count' = [w \in Workers |-> IF w \in D THEN OneLess(active_proof_count[w])
                                                  ELSE active_proof_count[w]]
      /\ sharded' = [w \in Workers |-> sharded[w] /\ w \notin D]
      /\ UNCHANGED <<completed_segments, sends>>
  BY <1>0 DEF SetNumSegments
<1>3. \A w \in D : active_proof_count[w] > 0 /\ CompletedAllSegments(w, completed_segments[w], NumSegments)
  BY DEF DoneWithShard
<1>. HIDE DEF D
<1>4. active_proof_count \in [Workers -> Nat] /\ sharded \in [Workers -> BOOLEAN]
  BY DEF IInv, TypeOK
<1>5. StartInv'
  BY DEF CalmInv, StartInv, StarkWorkers, RunsStarkProving, Workers
<1>6. RequestsInv'
  BY <1>2 DEF CalmInv, RequestsInv, RunsEvmProve, RunsStarkProving
<1>7. EarlyInv'
  BY <1>2, ManagerAssumption DEF EarlyInv, None
<1>8. LoadInv'
  <2>. SUFFICES ASSUME NEW w \in Workers
                PROVE  /\ Marker(w)' + Cardinality(Load(w)') <= active_proof_count'[w]
                       /\ active_proof_count'[w] <= MaxLeafProvers
                       /\ Load(w)' # {} => ~sharded'[w]
    BY DEF LoadInv, Workers
  <2>1. /\ active_proof_count[w] = Marker(w) /\ Marker(w) \in {0, 1}
        /\ Marker(w) + Cardinality(Load(w)) <= active_proof_count[w]
        /\ active_proof_count[w] <= MaxLeafProvers
    BY <1>0 DEF CalmInv, EarlyInv, LoadInv, Marker
  <2>2. Load(w)' \subseteq Load(w)
    BY <1>1, <1>2 DEF Load, WorksOf
  <2>3. /\ Cardinality(Load(w)') <= Cardinality(Load(w)) /\ Cardinality(Load(w)') \in Nat
        /\ Cardinality(Load(w)) \in Nat
    BY <2>2, LoadFinite, CountSub
  <2>4. Cardinality(Load(w)') = 0
    BY <2>1, <2>3
  <2>5. CASE w \in D
    <3>1. active_proof_count'[w] = 0 /\ ~sharded'[w]
      <4>1. active_proof_count[w] = 1
        BY <1>3, <2>1, <2>5
      <4>2. active_proof_count'[w] = OneLess(active_proof_count[w])
        BY <1>2, <2>5
      <4>3. sharded'[w] <=> sharded[w] /\ w \notin D
        BY <1>2
      <4>. QED  BY <2>5, <4>1, <4>2, <4>3 DEF OneLess
    <3>2. Marker(w)' = 0
      BY <3>1 DEF Marker
    <3>. QED  BY <2>4, <3>1, <3>2, WorkerAssumption
  <2>6. CASE w \notin D
    <3>1. active_proof_count'[w] = active_proof_count[w] /\ (sharded'[w] <=> sharded[w])
      BY <1>2, <1>4, <2>6
    <3>2. Marker(w)' = Marker(w)
      BY <3>1 DEF Marker
    <3>3. Load(w)' # {} => ~sharded'[w]
      BY <2>2, <3>1 DEF CalmInv, LoadInv
    <3>. QED  BY <2>1, <2>4, <3>1, <3>2, <3>3
  <2>. QED  BY <2>5, <2>6
<1>9. ShardsInv'
  <2>1. UNCHANGED <<completed_segments, unsent>>
    BY <1>2
  <2>2. ASSUME NEW w \in StarkWorkers, ~sharded'[w]
        PROVE  Owned(w) \subseteq completed_segments[w]
    <3>1. w \in Workers /\ sharded[w]
      BY <1>0, StarkWorkersAreWorkers DEF CalmInv, EarlyInv
    <3>2. w \in D
      BY <1>2, <2>2, <3>1
    <3>3. completed_segments[w] \subseteq Owned(w)
      BY DEF CalmInv, ShardsInv
    <3>. QED  BY <1>3, <3>2, <3>3, CompletedIsAll
  <2>. QED  BY <1>1, <2>1, <2>2, OwnedStable DEF CalmInv, ShardsInv, StarkWorkers, RunsStarkProving, Workers
<1>. QED  BY <1>1, <1>5, <1>6, <1>7, <1>8, <1>9 DEF CalmInv

\* apply_completion of a result of the tree: the count covered it.
LEMMA CalmAtTreeCompletion ==
    ASSUME IInv, CalmInv, PlacesFinite, NEW h \in handlers, h.pc \in {"complete", "late"},
           h.res.kind \in Steps, NEW pc, pc \in {"dequeue", "try"}, MovesTo(h, pc),
           CompleteTree(h.worker, h.res), UNCHANGED <<pending, sched_segments, sends>>,
           UNCHANGED <<workerVars, taskVars>>
    PROVE  CalmInv'
<1>. USE DEF workerVars, taskVars
<1>1. /\ KindsInv' /\ E2Inv' /\ SegmentsOnce'
      /\ UNCHANGED <<unsent, completed_segments>> => SegmentsOwned'
      /\ \A w : Owed(w)' \subseteq Owed(w)
      /\ \A w : h \in Owed(w) => h \notin Owed(w)'
      /\ Todos' \subseteq Todos
  BY HandlerGoesOn
<1>2. /\ active_proof_count' = [active_proof_count EXCEPT ![h.worker] = OneLess(@)]
      /\ UNCHANGED <<sharded, completed_segments>>
  BY DEF CompleteTree
<1>3. active_proof_count \in [Workers -> Nat] /\ h.worker \in Workers
  BY DEF IInv, TypeOK
<1>4. h \in Owed(h.worker)
  BY DEF Owed
<1>5. StartInv' /\ RequestsInv'
  BY DEF CalmInv, StartInv, RequestsInv, RunsEvmProve, RunsStarkProving, StarkWorkers, Workers
<1>6. ShardsInv'
  BY <1>1, <1>2, OwnedStable DEF CalmInv, ShardsInv, StarkWorkers, RunsStarkProving, Workers
<1>7. /\ IsFiniteSet(Load(h.worker)) /\ h \in Load(h.worker)
      /\ Cardinality(Load(h.worker)) \in Nat /\ Cardinality(Load(h.worker)) > 0
  <2>1. h \in Load(h.worker)
    BY <1>4 DEF Load
  <2>2. IsFiniteSet(Load(h.worker)) /\ Cardinality(Load(h.worker)) \in Nat
    BY LoadFinite
  <2>3. Cardinality(Load(h.worker)) # 0
    BY <2>1, <2>2, FS_EmptySet
  <2>. QED  BY <2>1, <2>2, <2>3
<1>8. /\ Marker(h.worker) + Cardinality(Load(h.worker)) <= active_proof_count[h.worker]
      /\ \A w : Marker(w) \in {0, 1} /\ Marker(w)' = Marker(w)
  BY <1>2, <1>3 DEF CalmInv, LoadInv, Marker
<1>9. active_proof_count[h.worker] > Marker(h.worker) /\ active_proof_count[h.worker] \in Nat
  BY <1>3, <1>7, <1>8
<1>10. EarlyInv'
  <2>1. sched_segments # None
    BY <1>3, <1>8, <1>9 DEF CalmInv, EarlyInv
  <2>. QED  BY <2>1 DEF EarlyInv, None
<1>11. LoadInv'
  <2>. SUFFICES ASSUME NEW w \in Workers
                PROVE  /\ Marker(w)' + Cardinality(Load(w)') <= active_proof_count'[w]
                       /\ active_proof_count'[w] <= MaxLeafProvers
                       /\ Load(w)' # {} => ~sharded'[w]
    BY DEF LoadInv, Workers
  <2>1. WorksOf(w)' = WorksOf(w)
    BY DEF WorksOf
  <2>2. Cardinality(Load(w)) \in Nat /\ IsFiniteSet(Load(w))
    BY LoadFinite
  <2>3. CASE w = h.worker
    <3>1. h \notin WorksOf(w)
      <4>1. DOMAIN h = {"worker", "work", "copy", "res", "sealed", "pc", "todo"}
        BY DEF IInv, TypeOK
      <4>2. \A s \in sends : DOMAIN s = {"worker", "work", "tries", "pc"}
        BY DEF IInv, TypeOK
      <4>3. \A j \in running : DOMAIN j = {"worker", "work", "copy"}
        BY DEF CalmInv, RequestsInv
      <4>. QED  BY <4>1, <4>2, <4>3 DEF WorksOf
    <3>2. Load(w)' \subseteq Load(w) \ {h}
      BY <1>1, <1>4, <2>1, <2>3, <3>1 DEF Load
    <3>3. Cardinality(Load(w)') <= Cardinality(Load(w)) - 1
      BY <1>7, <2>2, <2>3, <3>2, CountSub
    <3>4. Cardinality(Load(w)') \in Nat
      <4>1. Load(w)' \subseteq Load(w)
        BY <3>2
      <4>. QED  BY <2>2, <4>1, CountSub
    <3>5. active_proof_count'[w] = active_proof_count[w] - 1
      BY <1>2, <1>3, <1>8, <1>9, <2>3 DEF OneLess
    <3>6. Load(w)' # {} => ~sharded'[w]
      BY <1>2, <3>2 DEF CalmInv, LoadInv
    <3>. QED  BY <1>3, <1>8, <2>2, <2>3, <3>3, <3>4, <3>5, <3>6, WorkerAssumption DEF CalmInv, LoadInv
  <2>4. CASE w # h.worker
    <3>1. Load(w)' \subseteq Load(w)
      BY <1>1, <2>1 DEF Load
    <3>2. Cardinality(Load(w)') <= Cardinality(Load(w)) /\ Cardinality(Load(w)') \in Nat
      BY <2>2, <3>1, CountSub
    <3>3. active_proof_count'[w] = active_proof_count[w]
      BY <1>2, <1>3, <2>4
    <3>4. Load(w)' # {} => ~sharded'[w]
      BY <1>2, <3>1 DEF CalmInv, LoadInv
    <3>. QED  BY <1>3, <1>8, <2>2, <3>2, <3>3, <3>4 DEF CalmInv, LoadInv
  <2>. QED  BY <2>3, <2>4
<1>. QED  BY <1>1, <1>5, <1>6, <1>10, <1>11 DEF CalmInv

\* apply_completion of an app proof: the marker goes with the last segment.
LEMMA CalmAtAppCompletion ==
    ASSUME IInv, CalmInv, PlacesFinite, NEW h \in handlers, h.pc \in {"complete", "late"},
           h.res.kind = "App", NEW pc, pc \in {"dequeue", "try"}, MovesTo(h, pc),
           CompleteApp(h.worker, h.res), UNCHANGED <<pending, sched_segments, sends>>,
           UNCHANGED <<workerVars, taskVars>>
    PROVE  CalmInv'
<1>. USE DEF workerVars, taskVars
<1>. DEFINE w == h.worker
            seg == h.res.segment
            done == completed_segments[w] \cup {seg}
<1>1. /\ KindsInv' /\ E2Inv' /\ SegmentsOnce'
      /\ \A v : Owed(v)' \subseteq Owed(v)
      /\ Todos' \subseteq Todos
  BY HandlerGoesOn
<1>2. /\ w \in StarkWorkers /\ w \in Workers
      /\ seg \in Owned(w) /\ seg \notin unsent[w] /\ seg \notin completed_segments[w]
  BY StarkWorkersAreWorkers DEF CalmInv, ShardsInv, SegmentsOwned
<1>3. /\ completed_segments' = [completed_segments EXCEPT ![w] = done]
      /\ completed_segments \in [Workers -> SUBSET (0..(NumSegments - 1))]
  BY DEF CompleteApp, CalmInv, ShardsInv
<1>4. active_proof_count \in [Workers -> Nat] /\ sharded \in [Workers -> BOOLEAN]
  BY DEF IInv, TypeOK
<1>5. sharded[w] /\ Marker(w) = 1 /\ active_proof_count[w] >= 1
  <2>1. sharded[w]
    BY <1>2 DEF CalmInv, ShardsInv
  <2>2. Cardinality(Load(w)) \in Nat
    BY LoadFinite
  <2>. QED  BY <1>2, <1>4, <2>1, <2>2 DEF CalmInv, LoadInv, Marker
<1>6. done \subseteq Owned(w) /\ completed_segments'[w] = done
      /\ \A v \in Workers \ {w} : completed_segments'[v] = completed_segments[v]
  BY <1>2, <1>3 DEF CalmInv, ShardsInv
<1>7. StartInv' /\ RequestsInv'
  BY DEF CalmInv, StartInv, RequestsInv, RunsEvmProve, RunsStarkProving, StarkWorkers, Workers
<1>8. SegmentsOwned'
  <2>. SUFFICES ASSUME NEW f \in handlers', f.res.kind = "App"
                PROVE  /\ f.worker \in StarkWorkers
                       /\ f.res.segment \in Owned(f.worker) /\ f.res.segment \notin unsent[f.worker]
                       /\ f.pc \in {"complete", "late"} =>
                             f.res.segment \notin completed_segments'[f.worker]
    BY OwnedStable DEF SegmentsOwned, StarkWorkers, RunsStarkProving, Workers
  <2>1. PICK g : /\ g.worker = h.worker /\ g.work = h.work /\ g.res = h.res
                 /\ g.pc = pc /\ handlers' \subseteq (handlers \ {h}) \cup {g}
    BY DEF MovesTo
  <2>2. CASE f = g
    BY <1>2, <2>1, <2>2 DEF CalmInv, ShardsInv, SegmentsOwned
  <2>3. CASE f \in handlers \ {h}
    <3>1. f.res.segment # seg
      BY <2>3 DEF CalmInv, ShardsInv, SegmentsOnce
    <3>2. /\ f.worker \in StarkWorkers /\ f.worker \in Workers
          /\ f.res.segment \in Owned(f.worker) /\ f.res.segment \notin unsent[f.worker]
          /\ f.pc \in {"complete", "late"} => f.res.segment \notin completed_segments[f.worker]
      BY <2>3, StarkWorkersAreWorkers DEF CalmInv, ShardsInv, SegmentsOwned
    <3>. QED  BY <1>6, <3>1, <3>2
  <2>. QED  BY <2>1, <2>2, <2>3
<1>9. ASSUME NEW v PROVE Load(v)' \subseteq Load(v)
  BY <1>1 DEF Load, WorksOf
<1>10. CASE FreesSlot(w, h.res)
  <2>1. /\ active_proof_count' = [active_proof_count EXCEPT ![w] = OneLess(@)]
        /\ sharded' = [sharded EXCEPT ![w] = FALSE]
    BY <1>10 DEF CompleteApp
  <2>2. CompletedAllSegments(w, done, sched_segments) /\ sched_segments # None
    BY <1>10 DEF FreesSlot, CompletedAllSegments
  <2>3. sched_segments = NumSegments
    BY <2>2 DEF IInv, TypeOK
  <2>4. Owned(w) \subseteq done
    <3>. HIDE DEF done, w, seg
    <3>. QED  BY <1>2, <1>6, <2>2, <2>3, CompletedIsAll
  <2>5. EarlyInv'
    BY <2>2 DEF EarlyInv, None
  <2>6. LoadInv'
    <3>. SUFFICES ASSUME NEW v \in Workers
                  PROVE  /\ Marker(v)' + Cardinality(Load(v)') <= active_proof_count'[v]
                         /\ active_proof_count'[v] <= MaxLeafProvers
                         /\ Load(v)' # {} => ~sharded'[v]
      BY DEF LoadInv, Workers
    <3>1. /\ Cardinality(Load(v)') <= Cardinality(Load(v)) /\ Cardinality(Load(v)') \in Nat
          /\ Cardinality(Load(v)) \in Nat
      BY <1>9, LoadFinite, CountSub
    <3>2. Marker(v) + Cardinality(Load(v)) <= active_proof_count[v] /\ active_proof_count[v] <= MaxLeafProvers
      BY DEF CalmInv, LoadInv
    <3>3. CASE v = w
      <4>1. active_proof_count'[v] = active_proof_count[v] - 1 /\ ~sharded'[v]
        BY <1>2, <1>4, <1>5, <2>1, <3>3 DEF OneLess
      <4>2. Marker(v)' = 0
        BY <4>1 DEF Marker
      <4>. QED  BY <1>4, <1>5, <3>1, <3>2, <3>3, <4>1, <4>2, WorkerAssumption
    <3>4. CASE v # w
      <4>1. active_proof_count'[v] = active_proof_count[v] /\ sharded'[v] = sharded[v]
        BY <1>4, <2>1, <3>4
      <4>2. Marker(v)' = Marker(v) /\ Marker(v) \in {0, 1}
        BY <4>1 DEF Marker
      <4>3. Load(v)' # {} => ~sharded'[v]
        BY <1>9, <4>1 DEF CalmInv, LoadInv
      <4>. QED  BY <1>4, <3>1, <3>2, <4>1, <4>2, <4>3
    <3>. QED  BY <3>3, <3>4
  <2>7. ShardsInv'
    <3>1. completed_segments' \in [Workers -> SUBSET (0..(NumSegments - 1))]
      BY <1>2, <1>3, <1>6 DEF Owned
    <3>2. ASSUME NEW v \in StarkWorkers
          PROVE  /\ unsent[v] \subseteq Owned(v)
                 /\ completed_segments'[v] \subseteq Owned(v)
                 /\ completed_segments'[v] \cap unsent[v] = {}
                 /\ ~sharded'[v] => Owned(v) \subseteq completed_segments'[v]
      <4>1. v \in Workers
        BY StarkWorkersAreWorkers
      <4>2. CASE v = w
        BY <1>2, <1>6, <2>4, <4>1, <4>2 DEF CalmInv, ShardsInv
      <4>3. CASE v # w
        BY <1>4, <1>6, <2>1, <4>1, <4>3 DEF CalmInv, ShardsInv
      <4>. QED  BY <4>2, <4>3
    <3>. HIDE DEF done, w, seg
    <3>. QED  BY <1>1, <1>8, <3>1, <3>2, OwnedStable DEF ShardsInv, StarkWorkers, RunsStarkProving, Workers
  <2>. QED  BY <1>1, <1>7, <2>5, <2>6, <2>7 DEF CalmInv
<1>11. CASE ~FreesSlot(w, h.res)
  <2>1. UNCHANGED <<active_proof_count, sharded>>
    BY <1>11 DEF CompleteApp, bookVars
  <2>2. LoadInv'
    BY <1>9, <2>1, LoadKept DEF CalmInv
  <2>3. EarlyInv'
    <3>1. Queued' = Queued
      BY DEF Queued
    <3>. QED  BY <1>1, <2>1, <3>1 DEF CalmInv, EarlyInv, Marker, None, StarkWorkers, RunsStarkProving, Workers
  <2>4. ShardsInv'
    <3>1. completed_segments' \in [Workers -> SUBSET (0..(NumSegments - 1))]
      BY <1>2, <1>3, <1>6 DEF Owned
    <3>2. ASSUME NEW v \in StarkWorkers
          PROVE  /\ unsent[v] \subseteq Owned(v)
                 /\ completed_segments'[v] \subseteq Owned(v)
                 /\ completed_segments'[v] \cap unsent[v] = {}
                 /\ ~sharded'[v] => Owned(v) \subseteq completed_segments'[v]
      <4>1. v \in Workers
        BY StarkWorkersAreWorkers
      <4>2. CASE v = w
        BY <1>2, <1>5, <1>6, <2>1, <4>1, <4>2 DEF CalmInv, ShardsInv
      <4>3. CASE v # w
        BY <1>6, <2>1, <4>1, <4>3 DEF CalmInv, ShardsInv
      <4>. QED  BY <4>2, <4>3
    <3>. HIDE DEF done, w, seg
    <3>. QED  BY <1>1, <1>8, <3>1, <3>2, OwnedStable DEF ShardsInv, StarkWorkers, RunsStarkProving, Workers
  <2>. QED  BY <1>1, <1>7, <2>2, <2>3, <2>4 DEF CalmInv
<1>. QED  BY <1>10, <1>11

\* The steps of proof_result past the ProofState lock.
LEMMA CalmAtHandlerStep ==
    ASSUME IInv, CalmInv, PlacesFinite, NEW h \in handlers, HandlerStep(h)
    PROVE  CalmInv'
<1>0. UNCHANGED <<workerVars, taskVars>>
  BY DEF HandlerStep, HandlerSegments, HandlerDrain, HandlerComplete, HandlerDequeue,
         HandlerSealed, HandlerFinalize, HandlerTry, HandlerRemove, HandlerFollowUp
<1>1. AfterSegments(h) \in {"sealed", "complete"}
  BY DEF AfterSegments
<1>2. h.pc \in {"segments", "drain"} => h.res.kind = "ExecuteE2"
  BY DEF CalmInv, KindsInv
<1>3. ASSUME UNCHANGED <<bookVars, completed_segments, pending, sched_segments, sends>>,
             NEW pc, MovesTo(h, pc), pc \notin {"segments", "late"},
             pc \in {"complete", "drain"} => h.res.kind = "ExecuteE2"
      PROVE  CalmInv'
  <2>1. /\ UNCHANGED <<active_proof_count, sharded, completed_segments, sched_segments, sends>>
        /\ Queued' = Queued
    BY <1>3 DEF bookVars, Queued
  <2>. QED  BY <1>0, <1>3, <2>1, CalmAtPlacing
<1>4. ASSUME TryDequeueWork, NEW pc, MovesTo(h, pc), pc \notin {"segments", "late"},
             pc \in {"complete", "drain"} => h.res.kind = "ExecuteE2"
      PROVE  CalmInv'
  <2>1. Queued' \subseteq Queued
    BY <1>4, TryDequeueWorkPlaces DEF Places, Queued
  <2>2. \/ \E work \in Queued \cup Todos : Assign(work)
        \/ UNCHANGED <<active_proof_count, sharded, completed_segments, sched_segments, sends>>
    BY <1>4 DEF TryDequeueWork, NoWorker, Queued, schedulerVars, bookVars
  <2>. QED  BY <1>0, <1>4, <2>1, <2>2, CalmAtPlacing
<1>5. CASE HandlerSegments(h)
  <2>1. CASE entry
    <3>. DEFINE pc == IF DoneWithShard(h.res.count) # {} THEN "drain" ELSE AfterSegments(h)
    <3>1. SetNumSegments(h.res.count) /\ Goto(h, pc) /\ h.pc = "segments"
      BY <1>5, <2>1 DEF HandlerSegments
    <3>2. pc \in {"drain", "sealed", "complete"}
      BY <1>1
    <3>. HIDE DEF pc
    <3>3. MovesTo(h, pc)
      BY <3>1, HandlerMovesTo
    <3>. QED  BY <1>0, <3>1, <3>2, <3>3, CalmAtSegments
  <2>2. CASE ~entry
    <3>1. Goto(h, AfterSegments(h)) /\ UNCHANGED schedulerVars /\ h.pc = "segments"
      BY <1>5, <2>2 DEF HandlerSegments
    <3>2. MovesTo(h, AfterSegments(h))
      BY <3>1, HandlerMovesTo
    <3>. QED  BY <1>1, <1>2, <1>3, <3>1, <3>2 DEF schedulerVars
  <2>. QED  BY <2>1, <2>2
<1>6. CASE HandlerDrain(h)
  <2>. DEFINE pc == IF sends' # sends THEN "drain" ELSE AfterSegments(h)
  <2>1. TryDequeueWork /\ Goto(h, pc) /\ h.pc = "drain"
    BY <1>6 DEF HandlerDrain
  <2>2. pc \in {"drain", "sealed", "complete"}
    BY <1>1
  <2>. HIDE DEF pc
  <2>3. MovesTo(h, pc)
    BY <2>1, HandlerMovesTo
  <2>. QED  BY <1>2, <1>4, <2>1, <2>2, <2>3
<1>7. CASE HandlerDequeue(h)
  <2>1. TryDequeueWork /\ MovesTo(h, "try")
    BY <1>7, HandlerMovesTo DEF HandlerDequeue
  <2>. QED  BY <1>4, <2>1
<1>8. CASE HandlerComplete(h)
  <2>1. CASE ~entry
    <3>1. MovesTo(h, "try") /\ UNCHANGED schedulerVars
      BY <1>8, <2>1, HandlerMovesTo DEF HandlerComplete
    <3>. QED  BY <1>3, <3>1 DEF schedulerVars
  <2>2. CASE entry
    <3>. DEFINE pc == IF h.pc = "complete" /\ FreesSlot(h.worker, h.res) THEN "dequeue" ELSE "try"
    <3>1. /\ h.pc \in {"complete", "late"} /\ Goto(h, pc)
          /\ ApplyCompletion(h.worker, h.res)
      BY <1>8, <2>2 DEF HandlerComplete
    <3>2. pc \in {"dequeue", "try"}
      OBVIOUS
    <3>. HIDE DEF pc
    <3>3. MovesTo(h, pc)
      BY <3>1, HandlerMovesTo
    <3>4. UNCHANGED <<pending, sched_segments, sends>>
      BY <3>1 DEF ApplyCompletion
    <3>5. CASE h.res.kind = "App"
      <4>1. CompleteApp(h.worker, h.res)
        BY <3>1, <3>5 DEF ApplyCompletion
      <4>. QED  BY <1>0, <3>1, <3>2, <3>3, <3>4, <3>5, <4>1, CalmAtAppCompletion
    <3>6. CASE h.res.kind = "ExecuteE2"
      <4>1. UNCHANGED <<bookVars, completed_segments>>
        BY <3>1, <3>6 DEF ApplyCompletion
      <4>. QED  BY <1>3, <3>2, <3>3, <3>4, <4>1
    <3>7. CASE h.res.kind \in Steps
      <4>1. CompleteTree(h.worker, h.res)
        BY <3>1, <3>7 DEF ApplyCompletion, Steps
      <4>. QED  BY <1>0, <3>1, <3>2, <3>3, <3>4, <3>7, <4>1, CalmAtTreeCompletion
    <3>. QED  BY <3>5, <3>6, <3>7 DEF CalmInv, KindsInv
  <2>. QED  BY <2>1, <2>2
<1>9. CASE HandlerFollowUp(h)
  <2>1. PICK work \in h.todo : EnqueueOrAssign(work) /\ FollowUp(h, h.todo \ {work})
    BY <1>9 DEF HandlerFollowUp
  <2>2. MovesTo(h, "follow")
    BY <2>1, HandlerMovesTo
  <2>3. work \in Todos
    BY DEF Todos
  <2>4. Queued' \subseteq Queued \cup {work}
    <3>1. work.step = "EvmProve" => Safe
      BY DEF IInv, SegmentsFirst
    <3>. QED  BY <2>1, <3>1, EnqueueOrAssignPlaces DEF Places, Queued
  <2>5. \/ \E x \in Queued \cup Todos : Assign(x)
        \/ UNCHANGED <<active_proof_count, sharded, completed_segments, sched_segments, sends>>
    BY <2>1, <2>3 DEF EnqueueOrAssign, NoWorker, schedulerVars, bookVars
  <2>. QED  BY <1>0, <2>2, <2>3, <2>4, <2>5, CalmAtPlacing
<1>10. CASE HandlerSealed(h) \/ HandlerFinalize(h) \/ HandlerTry(h) \/ HandlerRemove(h)
  <2>1. UNCHANGED <<bookVars, completed_segments, pending, sched_segments, sends>>
    BY <1>10 DEF HandlerSealed, HandlerFinalize, HandlerTry, HandlerRemove, RemoveProof, schedulerVars
  <2>2. \/ Goto(h, "try") \/ Goto(h, "finalize") \/ Goto(h, "remove") \/ Goto(h, "removeFailed")
        \/ FollowUp(h, h.todo)
    BY <1>10 DEF HandlerSealed, HandlerFinalize, HandlerTry, HandlerRemove
  <2>3. \E pc \in {"try", "finalize", "remove", "removeFailed", "follow"} : MovesTo(h, pc)
    BY <2>2, HandlerMovesTo
  <2>. QED  BY <1>3, <2>1, <2>3
<1>. QED  BY <1>5, <1>6, <1>7, <1>8, <1>9, <1>10 DEF HandlerStep

\* send_work_with_retry: without a fault the request becomes a job.
LEMMA CalmAtSendStep ==
    ASSUME IInv, CalmInv, PlacesFinite, Calm, NEW s \in sends, SendStep(s)
    PROVE  CalmInv'
<1>0. s.pc = "send" /\ DOMAIN s = {"worker", "work", "tries", "pc"} /\ s.worker \in Workers
  BY DEF CalmInv, RequestsInv, IInv, TypeOK
<1>1. SendAttempt(s)
  BY <1>0 DEF SendStep, SendRelease, SendFail, SendTry, SendRemove
<1>2. /\ running' = running \cup {Job(s)} /\ sends' = sends \ {s}
      /\ UNCHANGED <<sendFrame, handlers, unsent, e2Unsent, taskVars>>
  BY <1>0, <1>1 DEF SendAttempt, Fault, Calm
<1>. DEFINE j == Job(s)
<1>3. j.worker = s.worker /\ j.work = s.work /\ DOMAIN j = {"worker", "work", "copy"}
  BY DEF Job
<1>4. running' = running \cup {j}
  BY <1>2
<1>. HIDE DEF j
<1>5. UNCHANGED <<active_proof_count, sharded, completed_segments, pending, sched_segments>>
  BY <1>2 DEF sendFrame, bookVars
<1>6. RequestsInv'
  BY <1>2, <1>3, <1>4 DEF CalmInv, RequestsInv, RunsEvmProve, RunsStarkProving
<1>7. StartInv' /\ KindsInv' /\ E2Inv'
  BY <1>2, <1>5 DEF CalmInv, StartInv, KindsInv, E2Inv, taskVars, None, Steps, StarkWorkers,
                    RunsStarkProving, Workers
<1>8. ShardsInv'
  BY <1>2, <1>5, OwnedStable DEF CalmInv, ShardsInv, SegmentsOnce, SegmentsOwned, StarkWorkers,
                    RunsStarkProving, Workers
<1>9. EarlyInv'
  BY <1>2, <1>5 DEF CalmInv, EarlyInv, Queued, Todos, Marker, None, StarkWorkers, RunsStarkProving,
                    Workers
<1>10. LoadInv'
  <2>. SUFFICES ASSUME NEW w \in Workers
                PROVE  /\ Marker(w)' + Cardinality(Load(w)') <= active_proof_count'[w]
                       /\ active_proof_count'[w] <= MaxLeafProvers
                       /\ Load(w)' # {} => ~sharded'[w]
    BY DEF LoadInv, Workers
  <2>1. Marker(w)' = Marker(w) /\ Marker(w) \in {0, 1}
    BY <1>5 DEF Marker
  <2>2. Cardinality(Load(w)) \in Nat /\ IsFiniteSet(Load(w)) /\ active_proof_count[w] \in Nat
    BY LoadFinite DEF IInv, TypeOK
  <2>3. Owed(w)' = Owed(w)
    BY <1>2 DEF Owed, Steps
  <2>4. Cardinality(Load(w)') <= Cardinality(Load(w)) /\ Cardinality(Load(w)') \in Nat
    <3>1. CASE w = s.worker
      <4>1. s \in Load(w)
        BY <1>0, <3>1 DEF Load, WorksOf
      <4>2. s \notin Owed(w)
        <5>1. \A h \in handlers : DOMAIN h = {"worker", "work", "copy", "res", "sealed", "pc", "todo"}
          BY DEF IInv, TypeOK
        <5>. QED  BY <1>0, <5>1 DEF Owed
      <4>3. s \notin running'
        BY <1>0, <1>3, <1>4 DEF CalmInv, RequestsInv
      <4>4. WorksOf(w)' \subseteq (WorksOf(w) \ {s}) \cup {j}
        BY <1>2, <1>4, <4>3 DEF WorksOf
      <4>5. Load(w)' \subseteq (Load(w) \ {s}) \cup {j}
        BY <2>3, <4>2, <4>4 DEF Load
      <4>6. Load(w)' \subseteq Load(w) \cup {j}
        BY <4>5
      <4>. QED  BY <2>2, <4>1, <4>5, <4>6, CountSub
    <3>2. CASE w # s.worker
      <4>1. WorksOf(w)' \subseteq WorksOf(w)
        BY <1>2, <1>3, <1>4, <3>2 DEF WorksOf
      <4>2. Load(w)' \subseteq Load(w)
        BY <2>3, <4>1 DEF Load
      <4>. QED  BY <2>2, <4>2, CountSub
    <3>. QED  BY <3>1, <3>2
  <2>5. Load(w)' # {} => Load(w) # {}
    <3>1. s \in Load(s.worker)
      BY <1>0 DEF Load, WorksOf
    <3>2. ASSUME NEW x \in Load(w)' PROVE x \in Load(w) \/ w = s.worker
      BY <1>2, <1>3, <1>4, <2>3 DEF Load, WorksOf
    <3>. QED  BY <3>1, <3>2
  <2>. QED  BY <1>5, <2>1, <2>2, <2>4, <2>5 DEF CalmInv, LoadInv
<1>. QED  BY <1>6, <1>7, <1>8, <1>9, <1>10 DEF CalmInv

\* What proof_result adds when a result arrives.
LEMMA ArrivalAdds ==
    ASSUME NEW w, NEW work, NEW copy, NEW r, ProofResult(w, work, copy, r)
    PROVE  /\ UNCHANGED <<schedulerVars, taskVars>>
           /\ \E c : /\ c.worker = w /\ c.work = work /\ c.res = r
                     /\ c.pc \in {"late", "segments", "sealed", "complete"}
                     /\ c.pc = "segments" => r.kind = "ExecuteE2"
                     /\ c.todo \subseteq Requests(r)
                     /\ DOMAIN c = {"worker", "work", "copy", "res", "sealed", "pc", "todo"}
                     /\ handlers' \subseteq handlers \cup {c}
<1>. DEFINE call(pc, todo) == [worker |-> w, work |-> work, copy |-> copy, res |-> r,
                               sealed |-> IsSealedForResults', pc |-> pc, todo |-> todo]
            here == IF r.kind = "ExecuteE2" THEN "segments"
                    ELSE IF IsSealedForResults' THEN "sealed" ELSE "complete"
<1>1. \A pc, todo : LET c == call(pc, todo)
                    IN  /\ c.worker = w /\ c.work = work /\ c.res = r /\ c.pc = pc /\ c.todo = todo
                        /\ DOMAIN c = {"worker", "work", "copy", "res", "sealed", "pc", "todo"}
  OBVIOUS
<1>2. \/ handlers' \subseteq handlers \cup {call("late", {})}
      \/ handlers' \subseteq handlers
      \/ handlers' \subseteq handlers \cup {call(here, Requests(r))}
  BY DEF ProofResult
<1>3. here \in {"late", "segments", "sealed", "complete"} /\ (here = "segments" => r.kind = "ExecuteE2")
  OBVIOUS
<1>. HIDE DEF call, here
<1>4. \E c : /\ c.worker = w /\ c.work = work /\ c.res = r
             /\ c.pc \in {"late", "segments", "sealed", "complete"}
             /\ c.pc = "segments" => r.kind = "ExecuteE2"
             /\ c.todo \subseteq Requests(r)
             /\ DOMAIN c = {"worker", "work", "copy", "res", "sealed", "pc", "todo"}
             /\ handlers' \subseteq handlers \cup {c}
  <2>1. CASE handlers' \subseteq handlers \cup {call(here, Requests(r))}
    <3>. DEFINE c == call(here, Requests(r))
    <3>1. /\ c.worker = w /\ c.work = work /\ c.res = r /\ c.pc = here /\ c.todo = Requests(r)
          /\ DOMAIN c = {"worker", "work", "copy", "res", "sealed", "pc", "todo"}
      BY <1>1
    <3>. HIDE DEF c
    <3>2. handlers' \subseteq handlers \cup {c}
      BY <2>1 DEF c
    <3>. QED  BY <1>3, <3>1, <3>2
  <2>2. CASE handlers' \subseteq handlers \cup {call("late", {})}
    <3>. DEFINE c == call("late", {})
    <3>1. /\ c.worker = w /\ c.work = work /\ c.res = r /\ c.pc = "late" /\ c.todo = {}
          /\ DOMAIN c = {"worker", "work", "copy", "res", "sealed", "pc", "todo"}
      BY <1>1
    <3>. HIDE DEF c
    <3>2. handlers' \subseteq handlers \cup {c}
      BY <2>2 DEF c
    <3>. QED  BY <3>1, <3>2
  <2>. QED  BY <1>2, <2>1, <2>2
<1>. QED  BY <1>4 DEF ProofResult

\* Only a result of the tree leads to the EVM step.
LEMMA NoEvmYet ==
    ASSUME NEW r, r.kind \in {"App", "ExecuteE2"}, NEW x \in Requests(r)
    PROVE  x.step # "EvmProve"
<1>1. ASSUME NEW seg, x \in AppRequests(seg) PROVE x.step # "EvmProve"
  BY <1>1 DEF AppRequests, LeafRequest
<1>2. ASSUME NEW n, x \in FlushPendingLeafBatches(n) PROVE x.step # "EvmProve"
  BY <1>2 DEF FlushPendingLeafBatches, LeafRequest
<1>3. ASSUME NEW n, NEW layer, x \in TailRequests(n, layer) PROVE x.step # "EvmProve"
  <2>1. \E a, b, c, d : x = InternalRequest(a, b, c, d)
    BY <1>3 DEF TailRequests
  <2>. QED  BY <2>1 DEF InternalRequest
<1>4. ASSUME NEW n, x \in ExecuteE2Requests(n) PROVE x.step # "EvmProve"
  BY <1>2, <1>3, <1>4 DEF ExecuteE2Requests, TriggerTailProofs
<1>. QED  BY <1>1, <1>4 DEF Requests

\* A shard's result for one of its segments arrives, and is the only one.
LEMMA CalmAtPostApp ==
    ASSUME IInv, CalmInv, PlacesFinite, NEW w \in StarkWorkers, NEW seg \in unsent[w], PostApp(w, seg)
    PROVE  CalmInv'
<1>. DEFINE r == AppResult(seg, TRUE)
<1>1. /\ ProofResult(w, ShardJob, 0, r) /\ unsent' = [unsent EXCEPT ![w] = @ \ {seg}]
      /\ UNCHANGED <<running, e2Unsent>>
  BY DEF PostApp
<1>2. r.kind = "App" /\ r.segment = seg
  BY DEF AppResult
<1>. HIDE DEF r
<1>3. UNCHANGED <<schedulerVars, taskVars>>
  BY <1>1, ArrivalAdds
<1>4. PICK c : /\ c.worker = w /\ c.work = ShardJob /\ c.res = r
               /\ c.pc \in {"late", "segments", "sealed", "complete"}
               /\ c.pc = "segments" => r.kind = "ExecuteE2"
               /\ c.todo \subseteq Requests(r)
               /\ handlers' \subseteq handlers \cup {c}
  BY <1>1, ArrivalAdds
<1>5. /\ UNCHANGED <<active_proof_count, sharded, completed_segments, pending, sched_segments, sends>>
      /\ UNCHANGED <<dispatch, starter>>
  BY <1>3 DEF schedulerVars, taskVars, bookVars
<1>6. RequestsInv' /\ StartInv'
  BY <1>1, <1>5 DEF CalmInv, RequestsInv, StartInv, RunsEvmProve, RunsStarkProving, StarkWorkers, Workers
<1>7. KindsInv' /\ E2Inv'
  BY <1>1, <1>2, <1>4, <1>5 DEF CalmInv, KindsInv, E2Inv, Steps, None
<1>8. LoadInv'
  <2>1. ASSUME NEW v \in Workers PROVE Load(v)' \subseteq Load(v)
    <3>1. WorksOf(v)' = WorksOf(v)
      BY <1>1, <1>5 DEF WorksOf
    <3>2. Owed(v)' \subseteq Owed(v)
      BY <1>2, <1>4 DEF Owed, Steps
    <3>. QED  BY <3>1, <3>2 DEF Load
  <2>. QED  BY <1>5, <2>1, LoadKept DEF CalmInv
<1>9. /\ unsent \in [StarkWorkers -> SUBSET (0..(NumSegments - 1))]
      /\ unsent'[w] = unsent[w] \ {seg}
      /\ \A v \in StarkWorkers : unsent'[v] \subseteq unsent[v]
  BY <1>1 DEF IInv, TypeOK
<1>10. seg \in Owned(w) /\ seg \notin completed_segments[w] /\ seg \notin unsent'[w]
  BY <1>9 DEF CalmInv, ShardsInv
<1>11. ASSUME NEW f \in handlers, f.res.kind = "App" PROVE f.res.segment # seg
  <2>1. f.worker \in StarkWorkers /\ f.res.segment \in Owned(f.worker)
        /\ f.res.segment \notin unsent[f.worker]
    BY <1>11 DEF CalmInv, ShardsInv, SegmentsOwned
  <2>2. f.res.segment = seg => f.worker = w
    BY <1>10, <2>1 DEF Owned
  <2>. QED  BY <2>1, <2>2
<1>12. SegmentsOnce'
  BY <1>2, <1>4, <1>11 DEF CalmInv, ShardsInv, SegmentsOnce
<1>13. SegmentsOwned'
  <2>. SUFFICES ASSUME NEW f \in handlers', f.res.kind = "App"
                PROVE  /\ f.worker \in StarkWorkers
                       /\ f.res.segment \in Owned(f.worker) /\ f.res.segment \notin unsent'[f.worker]
                       /\ f.pc \in {"complete", "late"} =>
                             f.res.segment \notin completed_segments[f.worker]
    BY <1>5, OwnedStable DEF SegmentsOwned, StarkWorkers, RunsStarkProving, Workers
  <2>1. CASE f = c
    BY <1>2, <1>4, <1>10, <2>1
  <2>2. CASE f \in handlers
    BY <1>9, <2>2 DEF CalmInv, ShardsInv, SegmentsOwned
  <2>. QED  BY <1>4, <2>1, <2>2
<1>14. ShardsInv'
  BY <1>5, <1>9, <1>12, <1>13, OwnedStable DEF CalmInv, ShardsInv, StarkWorkers, RunsStarkProving, Workers
<1>15. EarlyInv'
  <2>1. ASSUME NEW x \in Todos', sched_segments = None PROVE x.step # "EvmProve"
    <3>1. PICK f \in handlers' : x \in f.todo
      BY DEF Todos
    <3>2. CASE f = c
      BY <1>2, <1>4, <3>1, <3>2, NoEvmYet
    <3>3. CASE f \in handlers
      <4>1. x \in Todos
        BY <3>1, <3>3 DEF Todos
      <4>. QED  BY <2>1, <4>1 DEF CalmInv, EarlyInv
    <3>. QED  BY <1>4, <3>2, <3>3
  <2>2. Queued' = Queued
    BY <1>5 DEF Queued
  <2>. QED  BY <1>5, <2>1, <2>2 DEF CalmInv, EarlyInv, Marker, None, StarkWorkers, RunsStarkProving, Workers
<1>. QED  BY <1>6, <1>7, <1>8, <1>14, <1>15 DEF CalmInv

\* Worker 0's segment count arrives, and is the only one.
LEMMA CalmAtPostE2 ==
    ASSUME IInv, CalmInv, PlacesFinite, Calm, NEW ok \in BOOLEAN, PostExecuteE2(ok)
    PROVE  CalmInv'
<1>. DEFINE r == E2Result(NumSegments, ok)
<1>1. /\ ProofResult(0, ShardJob, 0, r) /\ e2Unsent /\ e2Unsent' = FALSE
      /\ UNCHANGED <<running, unsent>>
  BY DEF PostExecuteE2
<1>2. r.kind = "ExecuteE2"
  BY DEF E2Result
<1>. HIDE DEF r
<1>3. UNCHANGED <<schedulerVars, taskVars>>
  BY <1>1, ArrivalAdds
<1>4. PICK c : /\ c.worker = 0 /\ c.work = ShardJob /\ c.res = r
               /\ c.pc \in {"late", "segments", "sealed", "complete"}
               /\ c.todo \subseteq Requests(r)
               /\ handlers' \subseteq handlers \cup {c}
  BY <1>1, ArrivalAdds
<1>5. /\ UNCHANGED <<active_proof_count, sharded, completed_segments, pending, sched_segments, sends>>
      /\ UNCHANGED <<dispatch, starter>>
  BY <1>3 DEF schedulerVars, taskVars, bookVars
<1>6. RequestsInv' /\ StartInv'
  BY <1>1, <1>5 DEF CalmInv, RequestsInv, StartInv, RunsEvmProve, RunsStarkProving, StarkWorkers, Workers
<1>7. KindsInv' /\ E2Inv'
  BY <1>1, <1>2, <1>4, <1>5 DEF CalmInv, KindsInv, E2Inv, Steps, None
<1>8. LoadInv'
  <2>1. ASSUME NEW v \in Workers PROVE Load(v)' \subseteq Load(v)
    <3>1. WorksOf(v)' = WorksOf(v)
      BY <1>1, <1>5 DEF WorksOf
    <3>2. Owed(v)' \subseteq Owed(v)
      BY <1>2, <1>4 DEF Owed, Steps
    <3>. QED  BY <3>1, <3>2 DEF Load
  <2>. QED  BY <1>5, <2>1, LoadKept DEF CalmInv
<1>9. SegmentsOnce'
  BY <1>2, <1>4 DEF CalmInv, ShardsInv, SegmentsOnce
<1>10. SegmentsOwned'
  <2>1. \A f \in handlers' : f.res.kind = "App" => f \in handlers
    BY <1>2, <1>4
  <2>. QED  BY <1>1, <1>5, <2>1, OwnedStable DEF CalmInv, ShardsInv, SegmentsOwned, StarkWorkers,
               RunsStarkProving, Workers
<1>11. ShardsInv'
  BY <1>1, <1>5, <1>9, <1>10, OwnedStable DEF CalmInv, ShardsInv, StarkWorkers, RunsStarkProving, Workers
<1>12. EarlyInv'
  <2>1. ASSUME NEW x \in Todos', sched_segments = None PROVE x.step # "EvmProve"
    <3>1. PICK f \in handlers' : x \in f.todo
      BY DEF Todos
    <3>2. CASE f = c
      BY <1>2, <1>4, <3>1, <3>2, NoEvmYet
    <3>3. CASE f \in handlers
      <4>1. x \in Todos
        BY <3>1, <3>3 DEF Todos
      <4>. QED  BY <2>1, <4>1 DEF CalmInv, EarlyInv
    <3>. QED  BY <1>4, <3>2, <3>3
  <2>2. Queued' = Queued
    BY <1>5 DEF Queued
  <2>. QED  BY <1>5, <2>1, <2>2 DEF CalmInv, EarlyInv, Marker, None, StarkWorkers, RunsStarkProving, Workers
<1>. QED  BY <1>6, <1>7, <1>8, <1>11, <1>12 DEF CalmInv

\* A job becomes a result that its worker has yet to be credited with.
LEMMA CalmAtPostTree ==
    ASSUME IInv, CalmInv, PlacesFinite, NEW job \in running, PostTree(job)
    PROVE  CalmInv'
<1>. DEFINE r == TreeResult(job.work, TRUE)
<1>1. /\ ProofResult(job.worker, job.work, job.copy, r) /\ running' = running \ {job}
      /\ UNCHANGED <<unsent, e2Unsent>>
  BY DEF PostTree
<1>2. r.kind \in Steps /\ job.worker \in Workers
  BY DEF TreeResult, IInv, TypeOK
<1>. HIDE DEF r
<1>3. UNCHANGED <<schedulerVars, taskVars>>
  BY <1>1, ArrivalAdds
<1>4. PICK c : /\ c.worker = job.worker /\ c.work = job.work /\ c.res = r
               /\ c.pc \in {"late", "segments", "sealed", "complete"}
               /\ c.pc = "segments" => r.kind = "ExecuteE2"
               /\ DOMAIN c = {"worker", "work", "copy", "res", "sealed", "pc", "todo"}
               /\ handlers' \subseteq handlers \cup {c}
  BY <1>1, ArrivalAdds
<1>5. /\ UNCHANGED <<active_proof_count, sharded, completed_segments, pending, sched_segments, sends>>
      /\ UNCHANGED <<dispatch, starter>>
  BY <1>3 DEF schedulerVars, taskVars, bookVars
<1>6. RequestsInv' /\ StartInv'
  BY <1>1, <1>5 DEF CalmInv, RequestsInv, StartInv, RunsEvmProve, RunsStarkProving, StarkWorkers, Workers
<1>7. KindsInv' /\ E2Inv'
  BY <1>1, <1>2, <1>4, <1>5 DEF CalmInv, KindsInv, E2Inv, Steps, None
<1>8. SegmentsOnce' /\ SegmentsOwned'
  <2>1. \A f \in handlers' : f.res.kind = "App" => f \in handlers
    BY <1>2, <1>4 DEF Steps
  <2>. QED  BY <1>1, <1>5, <2>1, OwnedStable DEF CalmInv, ShardsInv, SegmentsOnce, SegmentsOwned,
               StarkWorkers, RunsStarkProving, Workers
<1>9. ShardsInv'
  BY <1>1, <1>5, <1>8, OwnedStable DEF CalmInv, ShardsInv, StarkWorkers, RunsStarkProving, Workers
<1>10. job \in Load(job.worker)
  BY DEF Load, WorksOf
<1>11. EarlyInv'
  <2>1. IsFiniteSet(Load(job.worker)) /\ Cardinality(Load(job.worker)) \in Nat
    BY LoadFinite
  <2>2. Cardinality(Load(job.worker)) # 0
    BY <1>10, <2>1, FS_EmptySet
  <2>3. Marker(job.worker) \in {0, 1} /\ active_proof_count[job.worker] \in Nat
    BY <1>2 DEF Marker, IInv, TypeOK
  <2>4. sched_segments # None
    BY <1>2, <2>1, <2>2, <2>3 DEF CalmInv, LoadInv, EarlyInv
  <2>. QED  BY <1>5, <2>4 DEF EarlyInv, None
<1>12. LoadInv'
  <2>. SUFFICES ASSUME NEW w \in Workers
                PROVE  /\ Marker(w)' + Cardinality(Load(w)') <= active_proof_count'[w]
                       /\ active_proof_count'[w] <= MaxLeafProvers
                       /\ Load(w)' # {} => ~sharded'[w]
    BY DEF LoadInv, Workers
  <2>1. Marker(w)' = Marker(w) /\ Marker(w) \in {0, 1}
    BY <1>5 DEF Marker
  <2>2. Cardinality(Load(w)) \in Nat /\ IsFiniteSet(Load(w)) /\ active_proof_count[w] \in Nat
    BY LoadFinite DEF IInv, TypeOK
  <2>3. Cardinality(Load(w)') <= Cardinality(Load(w)) /\ Cardinality(Load(w)') \in Nat
    <3>1. CASE w = job.worker
      <4>1. job \notin sends /\ job \notin handlers'
        <5>1. DOMAIN job = {"worker", "work", "copy"}
          BY DEF CalmInv, RequestsInv
        <5>2. /\ \A s \in sends : DOMAIN s = {"worker", "work", "tries", "pc"}
              /\ \A h \in handlers : DOMAIN h = {"worker", "work", "copy", "res", "sealed", "pc", "todo"}
          BY DEF IInv, TypeOK
        <5>. QED  BY <1>4, <5>1, <5>2
      <4>2. WorksOf(w)' \subseteq WorksOf(w) \ {job}
        BY <1>1, <1>5, <4>1 DEF WorksOf
      <4>3. Owed(w)' \subseteq (Owed(w) \ {job}) \cup {c}
        BY <1>4, <4>1 DEF Owed, Steps
      <4>4. Load(w)' \subseteq (Load(w) \ {job}) \cup {c}
        BY <4>2, <4>3 DEF Load
      <4>5. Load(w)' \subseteq Load(w) \cup {c}
        BY <4>4
      <4>. QED  BY <1>10, <2>2, <3>1, <4>4, <4>5, CountSub
    <3>2. CASE w # job.worker
      <4>1. WorksOf(w)' \subseteq WorksOf(w)
        BY <1>1, <1>5 DEF WorksOf
      <4>2. Owed(w)' \subseteq Owed(w)
        BY <1>4, <3>2 DEF Owed, Steps
      <4>3. Load(w)' \subseteq Load(w)
        BY <4>1, <4>2 DEF Load
      <4>. QED  BY <2>2, <4>3, CountSub
    <3>. QED  BY <3>1, <3>2
  <2>4. Load(w)' # {} => Load(w) # {}
    <3>1. ASSUME NEW x \in Load(w)' PROVE x \in Load(w) \/ w = job.worker
      BY <1>1, <1>4, <1>5 DEF Load, WorksOf, Owed, Steps
    <3>. QED  BY <1>10, <3>1
  <2>. QED  BY <1>5, <2>1, <2>2, <2>3, <2>4 DEF CalmInv, LoadInv
<1>. QED  BY <1>6, <1>7, <1>9, <1>11, <1>12 DEF CalmInv

\* Results that are lost, and tasks that touch neither books nor requests.
LEMMA CalmAtFewer ==
    ASSUME IInv, CalmInv, PlacesFinite,
           UNCHANGED <<active_proof_count, sharded, completed_segments, pending, sched_segments, sends>>,
           handlers' = handlers, running' \subseteq running, StartInv',
           \A w \in StarkWorkers : unsent'[w] \subseteq unsent[w],
           e2Unsent' => e2Unsent
    PROVE  CalmInv'
<1>1. RequestsInv'
  BY DEF CalmInv, RequestsInv, RunsEvmProve, RunsStarkProving
<1>2. KindsInv' /\ E2Inv'
  BY DEF CalmInv, KindsInv, E2Inv, Steps, None
<1>3. LoadInv'
  <2>1. ASSUME NEW v \in Workers PROVE Load(v)' \subseteq Load(v)
    BY DEF Load, WorksOf, Owed, Steps
  <2>. QED  BY <2>1, LoadKept DEF CalmInv
<1>4. SegmentsOnce' /\ SegmentsOwned'
  BY OwnedStable DEF CalmInv, ShardsInv, SegmentsOnce, SegmentsOwned, StarkWorkers, RunsStarkProving,
                     Workers
<1>5. ShardsInv'
  BY <1>4, OwnedStable DEF CalmInv, ShardsInv, StarkWorkers, RunsStarkProving, Workers
<1>6. EarlyInv'
  BY DEF CalmInv, EarlyInv, Queued, Todos, Marker, None, StarkWorkers, RunsStarkProving, Workers
<1>. QED  BY <1>1, <1>2, <1>3, <1>5, <1>6 DEF CalmInv

\* A worker's post or silence.
LEMMA CalmAtWorkerStep ==
    ASSUME IInv, CalmInv, PlacesFinite, Calm, WorkerStep
    PROVE  CalmInv'
<1>1. "error" \notin Faults
  BY DEF Calm
<1>2. ASSUME NEW job PROVE ~PostTreeError(job)
  BY <1>1 DEF PostTreeError, Fault
<1>3. ASSUME NEW w, NEW queued, NEW e2Queued PROVE ~PostShardError(w, queued, e2Queued)
  BY <1>1 DEF PostShardError, Fault
<1>4. CASE LoseResult
  <2>1. /\ UNCHANGED <<active_proof_count, sharded, completed_segments, pending, sched_segments, sends>>
        /\ handlers' = handlers /\ running' \subseteq running /\ UNCHANGED <<dispatch, starter>>
    BY <1>4 DEF LoseResult, schedulerVars, bookVars, taskVars
  <2>2. StartInv'
    BY <2>1 DEF CalmInv, StartInv, StarkWorkers, RunsStarkProving, Workers
  <2>3. e2Unsent' => e2Unsent
    BY <1>4 DEF LoseResult
  <2>4. unsent \in [StarkWorkers -> SUBSET (0..(NumSegments - 1))]
    BY DEF IInv, TypeOK
  <2>5. \A w \in StarkWorkers : unsent'[w] \subseteq unsent[w]
    BY <1>4, <2>4 DEF LoseResult
  <2>. QED  BY <2>1, <2>2, <2>3, <2>5, CalmAtFewer
<1>. QED  BY <1>2, <1>3, <1>4, CalmAtPostApp, CalmAtPostE2, CalmAtPostTree DEF WorkerStep

\* Every step keeps it,
LEMMA CalmAtNext ==
    ASSUME IInv, CalmInv, PlacesFinite, Calm, [Next]_vars PROVE CalmInv'
<1>1. CASE StarterStep
  <2>1. starter \in {"dispatch", "done"} /\ \A w \in StarkWorkers : dispatch[w] \in {"sending", "ok"}
    BY DEF CalmInv, StartInv
  <2>2. (\E w \in StarkWorkers : Kickoff(w)) \/ StartJoin
    BY <1>1, <2>1 DEF StarterStep, StartRelease, StartTry, StartRemove
  <2>3. UNCHANGED <<schedulerVars, handlers, running, unsent, e2Unsent>>
    BY <2>2 DEF Kickoff, StartJoin, workerVars
  <2>4. dispatch \in [StarkWorkers -> {"sending", "ok", "failed", "released"}]
    BY DEF IInv, TypeOK
  <2>5. starter' \in {"dispatch", "done"} /\ \A w \in StarkWorkers : dispatch'[w] \in {"sending", "ok"}
    BY <2>1, <2>2, <2>4 DEF Kickoff, StartJoin, Fault, Calm
  <2>6. StartInv'
    BY <2>5 DEF StartInv, StarkWorkers, RunsStarkProving, Workers
  <2>. QED  BY <2>3, <2>6, CalmAtFewer DEF schedulerVars, bookVars
<1>2. CASE WatchdogStep \/ CancelRemove \/ MinutePasses \/ CancelProof \/ UNCHANGED vars
  <2>1. /\ UNCHANGED <<bookVars, completed_segments, pending, sched_segments, sends, handlers>>
        /\ UNCHANGED <<running, unsent, e2Unsent, dispatch, starter>>
    BY <1>2 DEF WatchdogStep, WatchdogTry, WatchdogTimeout, WatchdogRemove, CancelRemove,
       MinutePasses, CancelProof, RemoveProof, schedulerVars, workerVars, taskVars, vars
  <2>2. StartInv'
    BY <2>1 DEF CalmInv, StartInv, StarkWorkers, RunsStarkProving, Workers
  <2>. QED  BY <2>1, <2>2, CalmAtFewer DEF bookVars
<1>. QED  BY <1>1, <1>2, CalmAtWorkerStep, CalmAtHandlerStep, CalmAtSendStep DEF Next, ManagerStep

\* and it holds at the start.
LEMMA CalmAtInit == Init => CalmInv
<1>. SUFFICES ASSUME Init PROVE CalmInv
  OBVIOUS
<1>. USE ManagerAssumption, WorkerAssumption
<1>1. /\ handlers = {} /\ running = {} /\ pending = <<>> /\ sends = {} /\ sched_segments = None
      /\ active_proof_count = [w \in Workers |-> IF RunsStarkProving(w) THEN 1 ELSE 0]
      /\ sharded = [w \in Workers |-> RunsStarkProving(w)]
      /\ completed_segments = [w \in Workers |-> {}]
      /\ unsent = [w \in StarkWorkers |-> Owned(w)]
      /\ dispatch = [w \in StarkWorkers |-> "sending"] /\ starter = "dispatch"
  BY DEF Init, InitProof
<1>2. RequestsInv /\ StartInv /\ KindsInv /\ E2Inv
  BY <1>1 DEF RequestsInv, StartInv, KindsInv, E2Inv
<1>3. \A w \in Workers : /\ active_proof_count[w] = Marker(w) /\ active_proof_count[w] \in {0, 1}
                         /\ Load(w) = {}
  <2>. SUFFICES ASSUME NEW w \in Workers
                PROVE  /\ active_proof_count[w] = Marker(w) /\ active_proof_count[w] \in {0, 1}
                       /\ Load(w) = {}
    OBVIOUS
  <2>1. Load(w) = {}
    BY <1>1 DEF Load, WorksOf, Owed
  <2>2. /\ active_proof_count[w] = IF RunsStarkProving(w) THEN 1 ELSE 0
        /\ sharded[w] <=> RunsStarkProving(w)
    BY <1>1
  <2>. QED  BY <2>1, <2>2 DEF Marker
<1>4. LoadInv
  BY <1>3, FS_EmptySet DEF LoadInv
<1>5. \A w \in StarkWorkers : w \in Workers /\ sharded[w]
  BY <1>1 DEF StarkWorkers
<1>6. ShardsInv
  BY <1>1, <1>5 DEF ShardsInv, SegmentsOnce, SegmentsOwned
<1>7. EarlyInv
  BY <1>1, <1>3, <1>5 DEF EarlyInv, Queued, Todos
<1>. QED  BY <1>2, <1>4, <1>6, <1>7 DEF CalmInv

\* The EVM step comes last: a request for it is the only request there is.
LEMMA EvmIsAlone ==
    ASSUME IInv, KnownInv, OnceInv, NEW x \in Works, x.step = "EvmProve", NEW y \in Sent \cup Worked
    PROVE  Key(y) = Key(x)
<1>. USE ManagerAssumption, ArityAssumption
<1>1. AsSlot(x) = EvmRequest /\ EvmRequest \in Known
  BY WorkIsSlot
<1>2. FinalInternalProofPresent
  BY <1>1 DEF KnownInv, SlotsInv
<1>3. Tree!TreeInv /\ Tree!FinalInternalProofPresent /\ Tree!EvmRequest = EvmRequest
  BY <1>2, TreeHolds, SameRequests
<1>4. Open \subseteq {EvmRequest}
  BY <1>3, Tree!FinalIsLast
<1>5. y \in Works /\ Key(y) \in SendKeys \cup RunKeys
  BY DEF Works, Sent, Worked, SendKeys, RunKeys
<1>6. AsSlot(y) \in Known
  BY <1>5, WorkIsSlot
<1>7. Key(AsSlot(y)) = Key(y) /\ Key(AsSlot(x)) = Key(x)
  BY DEF Key, AsSlot
<1>8. AsSlot(y) \notin Stored
  <2>1. Key(y) \notin StoredKeys
    BY <1>5 DEF OnceInv, PlacesApart
  <2>. QED  BY <1>7, <2>1 DEF StoredKeys
<1>9. AsSlot(y) = EvmRequest
  BY <1>4, <1>6, <1>8 DEF Open
<1>. QED  BY <1>1, <1>7, <1>9

\* Everything together is inductive while no dispatch and no job fails.
LEMMA CalmHolds ==
    ASSUME Calm PROVE Spec => [](IInv /\ KnownInv /\ OnceInv /\ CalmInv)
<1>0. "ack" \notin Faults
  BY DEF Calm
<1>1. Init => IInv /\ KnownInv /\ OnceInv /\ CalmInv
  BY InitEstablishes, KnownAtInit, OnceAtInit, CalmAtInit
<1>2. IInv /\ KnownInv /\ OnceInv /\ CalmInv /\ [Next]_vars => (IInv /\ KnownInv /\ OnceInv /\ CalmInv)'
  <2>. SUFFICES ASSUME IInv, KnownInv, OnceInv, CalmInv, [Next]_vars
                PROVE  IInv' /\ KnownInv' /\ OnceInv' /\ CalmInv'
    OBVIOUS
  <2>1. PlacesFinite
    BY DEF OnceInv
  <2>. QED  BY <1>0, <2>1, NextPreserves, KnownAtNext, OnceAtNext, CalmAtNext
<1>. QED  BY <1>1, <1>2, PTL DEF Spec

\* While no dispatch and no job fails, no worker is asked for more than it can
\* take, whatever is lost, canceled or timed out: at most MaxLeafProvers jobs,
\* the EVM step alone and on a worker that has it, and no recursion work before
\* the last segment.  A worker that is released or reports an error is offered
\* new work although it may still be busy, hence the hypothesis.
THEOREM WorkersNotOverloadedHolds ==
    ASSUME Calm
    PROVE  Spec => []WorkersNotOverloaded
<1>1. IInv /\ KnownInv /\ OnceInv /\ CalmInv => WorkersNotOverloaded
  <2>. SUFFICES ASSUME IInv, KnownInv, OnceInv, CalmInv, NEW w \in Workers
                PROVE  /\ Cardinality(WorksOf(w)) <= MaxLeafProvers
                       /\ \A x \in WorksOf(w) :
                             IF x.work.step = "EvmProve" THEN RunsEvmProve(w) /\ WorksOf(w) = {x}
                             ELSE RunsStarkProving(w)
                       /\ w \in StarkWorkers /\ WorksOf(w) # {} /\ shard[w] = "proving" => unsent[w] = {}
    BY DEF WorkersNotOverloaded
  <2>1. Cardinality(WorksOf(w)) <= MaxLeafProvers
    <3>1. IsFiniteSet(Load(w)) /\ Cardinality(Load(w)) \in Nat
      BY LoadFinite DEF OnceInv
    <3>2. WorksOf(w) \subseteq Load(w)
      BY DEF Load
    <3>3. Cardinality(WorksOf(w)) <= Cardinality(Load(w)) /\ Cardinality(WorksOf(w)) \in Nat
      BY <3>1, <3>2, CountSub
    <3>4. Marker(w) \in {0, 1} /\ active_proof_count[w] \in Nat
      BY DEF Marker, IInv, TypeOK
    <3>. QED  BY <3>1, <3>3, <3>4, WorkerAssumption DEF CalmInv, LoadInv
  <2>2. ASSUME NEW x \in WorksOf(w)
        PROVE  IF x.work.step = "EvmProve" THEN RunsEvmProve(w) /\ WorksOf(w) = {x}
               ELSE RunsStarkProving(w)
    <3>1. x \in sends \cup running /\ x.worker = w
      BY DEF WorksOf
    <3>2. IF x.work.step = "EvmProve" THEN RunsEvmProve(w) ELSE RunsStarkProving(w)
      BY <3>1 DEF CalmInv, RequestsInv
    <3>3. ASSUME x.work.step = "EvmProve", NEW y \in WorksOf(w) PROVE y = x
      <4>1. y \in sends \cup running
        BY DEF WorksOf
      <4>2. x.work \in Works /\ y.work \in Sent \cup Worked
        BY <3>1, <4>1 DEF Works, Sent, Worked
      <4>3. Key(y.work) = Key(x.work)
        BY <3>3, <4>2, EvmIsAlone
      <4>4. CASE x \in sends /\ y \in sends
        BY <4>3, <4>4 DEF OnceInv, SendOnce
      <4>5. CASE x \in running /\ y \in running
        BY <4>3, <4>5 DEF OnceInv, RunOnce
      <4>6. \A s \in sends, j \in running : Key(s.work) # Key(j.work)
        <5>1. \A s \in sends : Key(s.work) \in SendKeys
          BY DEF SendKeys
        <5>2. \A j \in running : Key(j.work) \in RunKeys
          BY DEF RunKeys
        <5>. QED  BY <5>1, <5>2 DEF OnceInv, PlacesApart
      <4>. QED  BY <3>1, <4>1, <4>3, <4>4, <4>5, <4>6
    <3>. QED  BY <3>2, <3>3
  <2>3. ASSUME w \in StarkWorkers, WorksOf(w) # {} PROVE unsent[w] = {}
    <3>1. Load(w) # {}
      BY <2>3 DEF Load
    <3>2. ~sharded[w]
      BY <3>1 DEF CalmInv, LoadInv
    <3>. QED  BY <2>3, <3>2 DEF CalmInv, ShardsInv
  <2>. QED  BY <2>1, <2>2, <2>3
<1>. QED  BY <1>1, CalmHolds, PTL

\* While no dispatch and no job fails, a deployment that the scheduler calls
\* drained is idle: no request is on its way, no job runs and every shard has
\* posted its last result, so a failing proof that is given up leaves nobody
\* busy.  Without the hypothesis it need not be: release_worker and the Error
\* completion bring a count to zero while the worker goes on.
THEOREM DrainedMeansIdleHolds ==
    ASSUME Calm
    PROVE  Spec => []DrainedMeansIdle
<1>1. IInv /\ KnownInv /\ OnceInv /\ CalmInv => DrainedMeansIdle
  <2>. SUFFICES ASSUME IInv, OnceInv, CalmInv, \A w \in Workers : active_proof_count[w] = 0
                PROVE  /\ \A w \in Workers : WorksOf(w) = {}
                       /\ \A w \in StarkWorkers : ShardDone(w) \/ Owned(w) = {}
    BY DEF DrainedMeansIdle, IsFullyDrained
  <2>1. ASSUME NEW w \in Workers PROVE WorksOf(w) = {} /\ ~sharded[w]
    <3>1. IsFiniteSet(Load(w)) /\ Cardinality(Load(w)) \in Nat
      BY LoadFinite DEF OnceInv
    <3>2. Marker(w) \in {0, 1} /\ Marker(w) + Cardinality(Load(w)) <= 0
      BY DEF Marker, CalmInv, LoadInv
    <3>3. Cardinality(Load(w)) = 0 /\ Marker(w) = 0
      BY <3>1, <3>2
    <3>4. Load(w) = {}
      BY <3>1, <3>3, FS_EmptySet
    <3>. QED  BY <3>3, <3>4 DEF Load, Marker
  <2>2. ASSUME NEW w \in StarkWorkers PROVE ShardDone(w) \/ Owned(w) = {}
    <3>1. ~sharded[w]
      BY <2>1, StarkWorkersAreWorkers
    <3>2. unsent[w] = {}
      BY <3>1 DEF CalmInv, ShardsInv
    <3>3. ~e2Unsent
      BY <3>1 DEF CalmInv, EarlyInv, E2Inv
    <3>. QED  BY <3>2, <3>3 DEF ShardDone
  <2>. QED  BY <2>1, <2>2
<1>. QED  BY <1>1, CalmHolds, PTL
-----------------------------------------------------------------------------
(* The scheduler's books, while nothing goes wrong before the final artifact *)

Undisturbed == Faults \subseteq {"persist"}

\* The entries of a worker's active_proofs for a step, and the work behind them.
OfStep(s, step) == {i \in DOMAIN s : s[i].step = step}
LoadOf(w, step) == {x \in Load(w) : x.work.step = step}

\* The result of a tree request that is being accounted for is stored.
IsAnswer(h) ==
    /\ h.work.step = h.res.kind /\ h.work.layer \in Nat /\ h.work.start \in Nat
    /\ \/ h.res.kind = "LeafProve" /\ \E p \in leaf_proofs : p.start = h.work.start
       \/ /\ h.res.kind = "InternalProve"
          /\ \E p \in internal_proofs : p.layer = h.work.layer /\ p.start = h.work.start

\* Until the final artifact is there the proof goes on and nobody gives it up.
UnderWay ==
    /\ status = "InProgress" /\ entry /\ canceler = "idle" /\ watchdog = "idle"
    /\ \A h \in handlers :
          /\ h.pc \in {"segments", "drain", "complete", "dequeue", "try", "follow"}
          /\ ~h.sealed
          /\ h.res.kind \in Steps => IsAnswer(h)

BookOf(w) ==
    /\ \E S : jobs[w] \in Seq(S)
    /\ active_proof_count[w] = Len(jobs[w]) + Marker(w)
    /\ \A step \in Steps : Cardinality(OfStep(jobs[w], step)) = Cardinality(LoadOf(w, step))

BooksInv ==
    ~IsReadyForFinalization =>
       UnderWay /\ DOMAIN jobs = Workers /\ \A w \in Workers : BookOf(w)

\* Counting a set with one element more, less or replaced.
LEMMA CountChange ==
    ASSUME NEW B, IsFiniteSet(B)
    PROVE  /\ Cardinality(B) \in Nat
           /\ \A y : y \notin B => Cardinality(B \cup {y}) = Cardinality(B) + 1
           /\ \A x \in B : Cardinality(B \ {x}) = Cardinality(B) - 1
           /\ \A x \in B : \A y : y \notin B => Cardinality((B \ {x}) \cup {y}) = Cardinality(B)
<1>1. Cardinality(B) \in Nat
  BY FS_CardinalityType
<1>2. ASSUME NEW C, IsFiniteSet(C), NEW y, y \notin C PROVE Cardinality(C \cup {y}) = Cardinality(C) + 1
  BY <1>2, FS_AddElement
<1>3. ASSUME NEW x \in B PROVE Cardinality(B \ {x}) = Cardinality(B) - 1 /\ IsFiniteSet(B \ {x})
  BY FS_RemoveElement
<1>4. ASSUME NEW x \in B, NEW y, y \notin B PROVE Cardinality((B \ {x}) \cup {y}) = Cardinality(B)
  <2>1. Cardinality((B \ {x}) \cup {y}) = Cardinality(B \ {x}) + 1
    BY <1>2, <1>3, <1>4
  <2>. QED  BY <1>1, <1>3, <2>1
<1>. QED  BY <1>1, <1>2, <1>3, <1>4

\* What such a change of a worker's load does to its part of each step.
LEMMA LoadChange ==
    ASSUME PlacesFinite, NEW w, NEW step
    PROVE  /\ Load(w)' = Load(w) => Cardinality(LoadOf(w, step)') = Cardinality(LoadOf(w, step))
           /\ \A y : y \notin Load(w) /\ Load(w)' = Load(w) \cup {y} =>
                Cardinality(LoadOf(w, step)') =
                  Cardinality(LoadOf(w, step)) + (IF y.work.step = step THEN 1 ELSE 0)
           /\ \A x \in Load(w) : Load(w)' = Load(w) \ {x} =>
                Cardinality(LoadOf(w, step)') =
                  Cardinality(LoadOf(w, step)) - (IF x.work.step = step THEN 1 ELSE 0)
           /\ \A x \in Load(w) : \A y :
                y \notin Load(w) /\ y.work.step = x.work.step /\ Load(w)' = (Load(w) \ {x}) \cup {y} =>
                  Cardinality(LoadOf(w, step)') = Cardinality(LoadOf(w, step))
           /\ Cardinality(LoadOf(w, step)) \in Nat
<1>. DEFINE A == LoadOf(w, step)
<1>0. IsFiniteSet(A)
  <2>1. A \subseteq Load(w)
    BY DEF LoadOf
  <2>. QED  BY <2>1, LoadFinite, FS_Subset
<1>1. /\ Cardinality(A) \in Nat
      /\ \A y : y \notin A => Cardinality(A \cup {y}) = Cardinality(A) + 1
      /\ \A x \in A : Cardinality(A \ {x}) = Cardinality(A) - 1
      /\ \A x \in A : \A y : y \notin A => Cardinality((A \ {x}) \cup {y}) = Cardinality(A)
  <2>. HIDE DEF A
  <2>. QED  BY <1>0, CountChange
<1>2. ASSUME Load(w)' = Load(w) PROVE A' = A
  BY <1>2 DEF LoadOf
<1>3. ASSUME NEW y, y \notin Load(w), Load(w)' = Load(w) \cup {y}
      PROVE  y \notin A /\ A' = IF y.work.step = step THEN A \cup {y} ELSE A
  BY <1>3 DEF LoadOf
<1>4. ASSUME NEW x \in Load(w), Load(w)' = Load(w) \ {x}
      PROVE  IF x.work.step = step THEN x \in A /\ A' = A \ {x} ELSE A' = A
  BY <1>4 DEF LoadOf
<1>5. ASSUME NEW x \in Load(w), NEW y, y \notin Load(w), y.work.step = x.work.step,
             Load(w)' = (Load(w) \ {x}) \cup {y}
      PROVE  IF x.work.step = step THEN x \in A /\ y \notin A /\ A' = (A \ {x}) \cup {y} ELSE A' = A
  BY <1>5 DEF LoadOf
<1>. HIDE DEF A
<1>6. ASSUME NEW y, y \notin Load(w), Load(w)' = Load(w) \cup {y}
      PROVE  Cardinality(A') = Cardinality(A) + (IF y.work.step = step THEN 1 ELSE 0)
  <2>1. CASE y.work.step = step
    BY <1>1, <1>3, <1>6, <2>1
  <2>2. CASE y.work.step # step
    BY <1>1, <1>3, <1>6, <2>2
  <2>. QED  BY <2>1, <2>2
<1>7. ASSUME NEW x \in Load(w), Load(w)' = Load(w) \ {x}
      PROVE  Cardinality(A') = Cardinality(A) - (IF x.work.step = step THEN 1 ELSE 0)
  <2>1. CASE x.work.step = step
    BY <1>1, <1>4, <1>7, <2>1
  <2>2. CASE x.work.step # step
    BY <1>1, <1>4, <1>7, <2>2
  <2>. QED  BY <2>1, <2>2
<1>8. ASSUME NEW x \in Load(w), NEW y, y \notin Load(w), y.work.step = x.work.step,
             Load(w)' = (Load(w) \ {x}) \cup {y}
      PROVE  Cardinality(A') = Cardinality(A)
  <2>1. CASE x.work.step = step
    BY <1>1, <1>5, <1>8, <2>1
  <2>2. CASE x.work.step # step
    BY <1>1, <1>5, <1>8, <2>2
  <2>. QED  BY <2>1, <2>2
<1>. QED  BY <1>1, <1>2, <1>6, <1>7, <1>8 DEF A

\* The entries of a sequence after one is pushed,
LEMMA OfStepAfterPush ==
    ASSUME NEW s, NEW S, s \in Seq(S), NEW a, NEW step
    PROVE  /\ Cardinality(OfStep(Append(s, a), step)) =
                Cardinality(OfStep(s, step)) + (IF a.step = step THEN 1 ELSE 0)
           /\ IsFiniteSet(OfStep(s, step)) /\ Cardinality(OfStep(s, step)) \in Nat
<1>. DEFINE p == Append(s, a)
            A == OfStep(s, step)
<1>1. /\ p \in Seq(S \cup {a}) /\ Len(p) = Len(s) + 1 /\ Len(s) \in Nat
      /\ \A i \in 1..(Len(s) + 1) : p[i] = IF i <= Len(s) THEN s[i] ELSE a
  BY AppendIs
<1>2. DOMAIN s = 1..Len(s)
  OBVIOUS
<1>. HIDE DEF p
<1>3. DOMAIN p = 1..(Len(s) + 1)
  BY <1>1
<1>4. IsFiniteSet(A) /\ Cardinality(A) \in Nat
  <2>1. IsFiniteSet(1..Len(s))
    BY <1>1, FS_Interval
  <2>2. A \subseteq 1..Len(s)
    BY <1>2 DEF OfStep
  <2>. HIDE DEF A
  <2>. QED  BY <2>1, <2>2, FS_Subset, FS_CardinalityType
<1>5. /\ \A i \in DOMAIN s : i \in DOMAIN p /\ p[i] = s[i] /\ i # Len(s) + 1
      /\ Len(s) + 1 \in DOMAIN p /\ p[Len(s) + 1] = a
      /\ \A i \in DOMAIN p : i \in DOMAIN s \/ i = Len(s) + 1
  BY <1>1, <1>2, <1>3
<1>6. /\ Len(s) + 1 \notin A
      /\ OfStep(p, step) = IF a.step = step THEN A \cup {Len(s) + 1} ELSE A
  BY <1>5 DEF OfStep
<1>7. Cardinality(OfStep(p, step)) = Cardinality(A) + (IF a.step = step THEN 1 ELSE 0)
  <2>. HIDE DEF A
  <2>1. CASE a.step = step
    <3>1. Cardinality(A \cup {Len(s) + 1}) = Cardinality(A) + 1
      BY <1>4, <1>6, CountChange
    <3>. QED  BY <1>6, <2>1, <3>1
  <2>2. CASE a.step # step
    BY <1>4, <1>6, <2>2
  <2>. QED  BY <2>1, <2>2
<1>. QED  BY <1>4, <1>7 DEF p

\* and after one is taken out.
LEMMA OfStepAfterRemoval ==
    ASSUME NEW s, NEW S, s \in Seq(S), NEW k \in DOMAIN s, NEW step
    PROVE  Cardinality(OfStep(RemoveAt(s, k), step)) =
             Cardinality(OfStep(s, step)) - (IF s[k].step = step THEN 1 ELSE 0)
<1>. DEFINE rest == RemoveAt(s, k)
            A == OfStep(s, step)
            B == OfStep(rest, step)
<1>1. /\ rest \in Seq(S) /\ Len(rest) = Len(s) - 1
      /\ \A i \in 1..(Len(s) - 1) : /\ i < k => rest[i] = s[i]
                                    /\ i >= k => rest[i] = s[i + 1]
  BY RemoveAtIs
<1>2. DOMAIN s = 1..Len(s) /\ Len(s) \in Nat /\ k \in 1..Len(s)
  OBVIOUS
<1>. HIDE DEF rest
<1>3. DOMAIN rest = 1..(Len(s) - 1)
  BY <1>1
<1>4. IsFiniteSet(A) /\ Cardinality(A) \in Nat
  BY OfStepAfterPush
<1>. DEFINE f == [i \in A \ {k} |-> IF i < k THEN i ELSE i - 1]
<1>5. ASSUME NEW i \in A \ {k}
      PROVE  /\ i < k => i \in B
             /\ i > k => i - 1 \in B
             /\ i \in Int /\ (i < k \/ i > k)
  <2>1. i \in 1..Len(s) /\ s[i].step = step /\ i # k
    BY <1>2 DEF OfStep
  <2>2. CASE i < k
    <3>1. i \in 1..(Len(s) - 1)
      BY <1>2, <2>1, <2>2
    <3>2. rest[i] = s[i]
      BY <1>1, <2>2, <3>1
    <3>. QED  BY <1>2, <1>3, <2>1, <2>2, <3>1, <3>2 DEF OfStep
  <2>3. CASE i > k
    <3>1. i - 1 \in 1..(Len(s) - 1) /\ i - 1 >= k /\ (i - 1) + 1 = i
      BY <1>2, <2>1, <2>3
    <3>2. rest[i - 1] = s[(i - 1) + 1]
      BY <1>1, <3>1
    <3>3. i - 1 \in B
      BY <1>3, <2>1, <3>1, <3>2 DEF OfStep
    <3>. QED  BY <1>2, <2>1, <2>3, <3>3
  <2>. QED  BY <1>2, <2>1, <2>2, <2>3
<1>6. ASSUME NEW j \in B PROVE \E i \in A \ {k} : j = IF i < k THEN i ELSE i - 1
  <2>1. j \in 1..(Len(s) - 1) /\ rest[j].step = step
    BY <1>3 DEF OfStep
  <2>2. CASE j < k
    <3>1. rest[j] = s[j] /\ j \in 1..Len(s) /\ j # k
      BY <1>1, <1>2, <2>1, <2>2
    <3>2. j \in A \ {k}
      BY <1>2, <2>1, <3>1 DEF OfStep
    <3>. QED  BY <2>2, <3>2
  <2>3. CASE j >= k
    <3>1. rest[j] = s[j + 1]
      BY <1>1, <2>1, <2>3
    <3>2. j + 1 \in 1..Len(s) /\ j + 1 # k /\ ~(j + 1 < k) /\ j = (j + 1) - 1
      BY <1>2, <2>1, <2>3
    <3>3. j + 1 \in A \ {k}
      BY <1>2, <2>1, <3>1, <3>2 DEF OfStep
    <3>. QED  BY <3>2, <3>3
  <2>. QED  BY <1>2, <2>1, <2>2, <2>3
<1>. HIDE DEF A, B
<1>7. f \in [A \ {k} -> B]
  BY <1>2, <1>5
<1>8. \A x, y \in A \ {k} : f[x] = f[y] => x = y
  BY <1>2, <1>5
<1>9. \A b \in B : \E x \in A \ {k} : f[x] = b
  BY <1>6
<1>. HIDE DEF f
<1>10. Cardinality(B) = Cardinality(A \ {k})
  <2>1. IsFiniteSet(A \ {k})
    BY <1>4, FS_Subset
  <2>. QED  BY <1>7, <1>8, <1>9, <2>1, SameCount
<1>11. CASE s[k].step = step
  <2>1. k \in A
    BY <1>2, <1>11 DEF A, OfStep
  <2>2. Cardinality(B) = Cardinality(A) - 1
    BY <1>4, <1>10, <2>1, CountChange
  <2>. QED  BY <1>11, <2>2 DEF A, B, rest
<1>12. CASE s[k].step # step
  <2>1. A \ {k} = A
    BY <1>12 DEF A, OfStep
  <2>2. Cardinality(B) = Cardinality(A)
    BY <1>10, <2>1, Zenon
  <2>3. Cardinality(A) = Cardinality(A) - 0
    BY <1>4
  <2>. QED  BY <1>12, <2>2, <2>3 DEF A, B, rest
<1>. QED  BY <1>11, <1>12 DEF A

\* If there is an entry of a step, there is a first one.
LEMMA FirstOfStep ==
    ASSUME NEW s, NEW S, s \in Seq(S), NEW step, OfStep(s, step) # {}
    PROVE  WithoutFirst(s, step) # {}
<1>. USE ManagerAssumption, ArityAssumption
<1>1. OfStep(s, step) \in SUBSET Nat /\ DOMAIN s = 1..Len(s) /\ Len(s) \in Nat
  BY DEF OfStep
<1>2. PICK m \in OfStep(s, step) : \A k \in OfStep(s, step) : m <= k
  BY <1>1, Tree!LeastElement
<1>3. m \in DOMAIN s /\ s[m].step = step
  BY DEF OfStep
<1>4. ASSUME NEW j \in 1..(m - 1) PROVE s[j].step # step
  <2>1. j \in DOMAIN s /\ ~(m <= j)
    BY <1>1, <1>3
  <2>. QED  BY <1>2, <2>1 DEF OfStep
<1>5. RemoveAt(s, m) \in WithoutFirst(s, step)
  BY <1>3, <1>4 DEF WithoutFirst
<1>. QED  BY <1>5

\* The final artifact stays.
LEMMA ReadyKept ==
    /\ UNCHANGED treeVars => (IsReadyForFinalization' <=> IsReadyForFinalization)
    /\ [Next]_vars /\ IsReadyForFinalization => IsReadyForFinalization'
<1>1. ASSUME UNCHANGED treeVars PROVE IsReadyForFinalization' <=> IsReadyForFinalization
  BY <1>1 DEF treeVars, IsReadyForFinalization, FinalInternalProofPresent, SlotIdx, None
<1>2. ASSUME IsReadyForFinalization, NEW w, NEW work, NEW copy, NEW r, ProofResult(w, work, copy, r)
      PROVE  UNCHANGED treeVars
  <2>1. IsSealedForResults
    BY <1>2 DEF IsSealedForResults
  <2>. QED  BY <1>2, <2>1 DEF ProofResult, HandleProofResult, proofVars, treeVars
<1>3. ASSUME [Next]_vars, IsReadyForFinalization PROVE UNCHANGED treeVars
  <2>1. CASE WorkerStep
    <3>1. CASE LoseResult
      BY <3>1 DEF LoseResult, proofVars, treeVars
    <3>2. CASE \E w, work, copy, r : ProofResult(w, work, copy, r)
      BY <1>2, <1>3, <3>2
    <3>3. LoseResult \/ \E w, work, copy, r : ProofResult(w, work, copy, r)
      BY <2>1 DEF WorkerStep, PostApp, PostExecuteE2, PostTree, PostTreeError, PostShardError
    <3>. QED  BY <3>1, <3>2, <3>3
  <2>2. CASE \E h \in handlers : HandlerStep(h)
    BY <2>2 DEF HandlerStep, HandlerSegments, HandlerDrain, HandlerComplete, HandlerDequeue,
           HandlerSealed, HandlerFinalize, HandlerTry, HandlerRemove, HandlerFollowUp,
           TransitionFailingToFailed, proofVars, treeVars
  <2>3. CASE \E s \in sends : SendStep(s)
    BY <2>3 DEF SendStep, SendAttempt, SendRelease, SendFail, SendTry, SendRemove,
           TransitionFailingToFailed, proofVars, treeVars
  <2>4. CASE StarterStep
    BY <2>4 DEF StarterStep, Kickoff, StartJoin, StartRelease, StartTry, StartRemove, MarkFailing,
           TransitionFailingToFailed, proofVars, treeVars
  <2>5. CASE WatchdogStep \/ CancelRemove \/ MinutePasses \/ CancelProof \/ UNCHANGED vars
    BY <2>5 DEF WatchdogStep, WatchdogTry, WatchdogTimeout, WatchdogRemove, CancelRemove,
       MinutePasses, CancelProof, MarkFailing, TransitionFailingToFailed, proofVars, treeVars, vars
  <2>. QED  BY <1>3, <2>1, <2>2, <2>3, <2>4, <2>5 DEF Next, ManagerStep
<1>. QED  BY <1>1, <1>3

\* A handler goes on at pc, and is still the same call.
GoesOn(h, pc) ==
    \E g : /\ g.worker = h.worker /\ g.work = h.work /\ g.res = h.res /\ g.sealed = h.sealed
           /\ g.pc = pc
           /\ handlers \ {h} \subseteq handlers' /\ handlers' \subseteq (handlers \ {h}) \cup {g}

LEMMA HandlerGoesOnAt ==
    ASSUME IInv, NEW h \in handlers
    PROVE  /\ \A pc : Goto(h, pc) => GoesOn(h, pc)
           /\ \A todo : FollowUp(h, todo) => GoesOn(h, "follow")
<1>0. DOMAIN h = {"worker", "work", "copy", "res", "sealed", "pc", "todo"}
  BY DEF IInv, TypeOK
<1>1. ASSUME NEW pc, Goto(h, pc) PROVE GoesOn(h, pc)
  <2>. DEFINE g == [h EXCEPT !.pc = pc]
  <2>1. /\ g.worker = h.worker /\ g.work = h.work /\ g.res = h.res /\ g.sealed = h.sealed
        /\ g.pc = pc
    BY <1>0
  <2>2. handlers' = (handlers \ {h}) \cup {g}
    BY <1>1 DEF Goto
  <2>. HIDE DEF g
  <2>. QED  BY <2>1, <2>2 DEF GoesOn
<1>2. ASSUME NEW todo, FollowUp(h, todo) PROVE GoesOn(h, "follow")
  <2>. DEFINE g == [h EXCEPT !.pc = "follow", !.todo = todo]
  <2>1. /\ g.worker = h.worker /\ g.work = h.work /\ g.res = h.res /\ g.sealed = h.sealed
        /\ g.pc = "follow"
    BY <1>0
  <2>2. handlers' = (handlers \ {h}) \cup
                       {[h EXCEPT !.pc = "follow", !.todo = rest] : rest \in {todo} \ {{}}}
    BY <1>2, Zenon DEF FollowUp
  <2>3. \A f \in handlers' : f \in handlers \ {h} \/ f = g
    <3>1. \A rest \in {todo} \ {{}} : rest = todo
      OBVIOUS
    <3>. QED  BY <2>2, <3>1, Zenon
  <2>4. handlers \ {h} \subseteq handlers'
    BY <2>2, Zenon
  <2>. HIDE DEF g
  <2>. QED  BY <2>1, <2>3, <2>4 DEF GoesOn
<1>. QED  BY <1>1, <1>2

\* Past its completion it is no longer owed; the proof is still under way.
LEMMA AfterGoingOn ==
    ASSUME NEW h \in handlers, NEW pc, GoesOn(h, pc), pc # "late",
           pc = "complete" => h.res.kind = "ExecuteE2"
    PROVE  /\ \A w : Owed(w)' = Owed(w) \ {h}
           /\ /\ UnderWay /\ UNCHANGED <<treeVars, status, entry, canceler, watchdog>>
              /\ pc \in {"segments", "drain", "complete", "dequeue", "try", "follow"}
              => UnderWay'
<1>1. PICK g : /\ g.worker = h.worker /\ g.work = h.work /\ g.res = h.res /\ g.sealed = h.sealed
               /\ g.pc = pc
               /\ handlers \ {h} \subseteq handlers' /\ handlers' \subseteq (handlers \ {h}) \cup {g}
  BY DEF GoesOn
<1>2. ASSUME NEW w PROVE Owed(w)' = Owed(w) \ {h}
  <2>1. g.res.kind \in Steps => g.pc \notin {"complete", "late"}
    BY <1>1 DEF Steps
  <2>2. Owed(w)' \subseteq Owed(w) \ {h}
    <3>. SUFFICES ASSUME NEW f \in Owed(w)' PROVE f \in Owed(w) /\ f # h
      OBVIOUS
    <3>1. f \in handlers' /\ f.worker = w /\ f.res.kind \in Steps /\ f.pc \in {"complete", "late"}
      BY DEF Owed, Steps
    <3>2. f # g
      BY <2>1, <3>1
    <3>. QED  BY <1>1, <3>1, <3>2 DEF Owed
  <2>3. Owed(w) \ {h} \subseteq Owed(w)'
    BY <1>1 DEF Owed, Steps
  <2>. QED  BY <2>2, <2>3
<1>3. ASSUME UnderWay, UNCHANGED <<treeVars, status, entry, canceler, watchdog>>,
             pc \in {"segments", "drain", "complete", "dequeue", "try", "follow"}
      PROVE  UnderWay'
  <2>1. ASSUME NEW f \in handlers'
        PROVE  /\ f.pc \in {"segments", "drain", "complete", "dequeue", "try", "follow"}
               /\ ~f.sealed
               /\ f.res.kind \in Steps => IsAnswer(f)
    <3>1. CASE f \in handlers
      BY <1>3, <3>1 DEF UnderWay
    <3>2. CASE f = g
      <4>1. ~h.sealed /\ (h.res.kind \in Steps => IsAnswer(h))
        BY <1>3 DEF UnderWay
      <4>2. ~f.sealed
        BY <1>1, <3>2, <4>1
      <4>. QED  BY <1>1, <1>3, <3>2, <4>1, <4>2 DEF IsAnswer
    <3>. QED  BY <1>1, <3>1, <3>2
  <2>2. \A f : IsAnswer(f)' <=> IsAnswer(f)
    BY <1>3 DEF IsAnswer, treeVars
  <2>. QED  BY <1>3, <2>1, <2>2 DEF UnderWay, Steps
<1>. QED  BY <1>2, <1>3

\* What is sent, what runs and what is owed are never confused.
LEMMA KindsOfLoad ==
    ASSUME IInv, CalmInv
    PROVE  /\ \A s \in sends : s \notin running /\ s \notin handlers
           /\ \A j \in running : j \notin handlers
           /\ \A x : DOMAIN x = {"worker", "work", "tries", "pc"} => x \notin running /\ x \notin handlers
           /\ \A x : DOMAIN x = {"worker", "work", "copy"} => x \notin sends /\ x \notin handlers
           /\ \A x : DOMAIN x = {"worker", "work", "copy", "res", "sealed", "pc", "todo"} =>
                x \notin sends /\ x \notin running
<1>1. \A h \in handlers : DOMAIN h = {"worker", "work", "copy", "res", "sealed", "pc", "todo"}
  BY DEF IInv, TypeOK
<1>2. \A s \in sends : DOMAIN s = {"worker", "work", "tries", "pc"}
  BY DEF IInv, TypeOK
<1>3. \A j \in running : DOMAIN j = {"worker", "work", "copy"}
  BY DEF CalmInv, RequestsInv
<1>4. /\ {"worker", "work", "tries", "pc"} # {"worker", "work", "copy"}
      /\ {"worker", "work", "tries", "pc"} # {"worker", "work", "copy", "res", "sealed", "pc", "todo"}
      /\ {"worker", "work", "copy"} # {"worker", "work", "copy", "res", "sealed", "pc", "todo"}
  <2>1. /\ "tries" \in {"worker", "work", "tries", "pc"} /\ "tries" \notin {"worker", "work", "copy"}
        /\ "tries" \notin {"worker", "work", "copy", "res", "sealed", "pc", "todo"}
        /\ "res" \in {"worker", "work", "copy", "res", "sealed", "pc", "todo"}
        /\ "res" \notin {"worker", "work", "copy"}
    OBVIOUS
  <2>. QED  BY <2>1
<1>. QED  BY <1>1, <1>2, <1>3, <1>4

\* Books and load that do not change, for a worker.
LEMMA BookKept ==
    ASSUME PlacesFinite, NEW w, BookOf(w),
           jobs'[w] = jobs[w], active_proof_count'[w] = active_proof_count[w], sharded'[w] = sharded[w],
           \A step \in Steps : Cardinality(LoadOf(w, step)') = Cardinality(LoadOf(w, step))
    PROVE  BookOf(w)'
<1>1. Marker(w)' = Marker(w)
  BY DEF Marker
<1>2. \A step : OfStep(jobs[w], step)' = OfStep(jobs[w], step)
  BY DEF OfStep
<1>. QED  BY <1>1, <1>2 DEF BookOf, Steps

Books == DOMAIN jobs = Workers /\ \A w \in Workers : BookOf(w)

\* An assignment is entered where its request is sent.
LEMMA BooksAtAssign ==
    ASSUME IInv, CalmInv, PlacesFinite, Books, NEW work, Key(work) \notin SendKeys, Assign(work),
           running' = running, \A w : Owed(w)' = Owed(w)
    PROVE  Books'
<1>1. PICK w \in Candidates(work.step) :
        /\ active_proof_count' = [active_proof_count EXCEPT ![w] = @ + 1]
        /\ jobs' = [jobs EXCEPT ![w] = Append(@, [step |-> work.step, layer |-> work.layer])]
        /\ sends' = sends \cup {[worker |-> w, work |-> work, tries |-> 0, pc |-> "send"]}
        /\ UNCHANGED sharded
  BY DEF Assign
<1>2. w \in Workers
  BY <1>1 DEF Candidates, LeafCandidates, StarkWorkers
<1>3. active_proof_count \in [Workers -> Nat] /\ DOMAIN jobs = Workers
  BY DEF IInv, TypeOK, Books
<1>. DEFINE s == [worker |-> w, work |-> work, tries |-> 0, pc |-> "send"]
            a == [step |-> work.step, layer |-> work.layer]
<1>4. s.worker = w /\ s.work = work /\ s.pc = "send" /\ DOMAIN s = {"worker", "work", "tries", "pc"}
  OBVIOUS
<1>5. a.step = work.step
  OBVIOUS
<1>6. sends' = sends \cup {s} /\ jobs' = [jobs EXCEPT ![w] = Append(@, a)]
  BY <1>1
<1>. HIDE DEF s, a
<1>7. s \notin sends /\ s \notin running /\ s \notin handlers
  <2>1. \A t \in sends : Key(t.work) \in SendKeys
    BY DEF SendKeys
  <2>. QED  BY <1>4, <2>1, KindsOfLoad
<1>8. ASSUME NEW v \in Workers PROVE BookOf(v)'
  <2>0. BookOf(v)
    BY DEF Books
  <2>1. CASE v = w
    <3>1. Load(v)' = Load(v) \cup {s} /\ s \notin Load(v)
      <4>1. WorksOf(v)' = WorksOf(v) \cup {s}
        BY <1>4, <1>6, <2>1 DEF WorksOf
      <4>. QED  BY <1>7, <4>1 DEF Load, WorksOf, Owed
    <3>2. PICK S : jobs[v] \in Seq(S)
      BY <2>0 DEF BookOf
    <3>3. jobs'[v] = Append(jobs[v], a)
      BY <1>2, <1>3, <1>6, <2>1
    <3>4. jobs'[v] \in Seq(S \cup {a}) /\ Len(jobs'[v]) = Len(jobs[v]) + 1 /\ Len(jobs[v]) \in Nat
      BY <3>2, <3>3, AppendIs
    <3>5. active_proof_count'[v] = active_proof_count[v] + 1 /\ Marker(v)' = Marker(v)
          /\ Marker(v) \in {0, 1}
      BY <1>1, <1>2, <1>3, <2>1 DEF Marker
    <3>6. ASSUME NEW step \in Steps
          PROVE  Cardinality(OfStep(jobs'[v], step)) = Cardinality(LoadOf(v, step)')
      <4>1. Cardinality(LoadOf(v, step)') =
              Cardinality(LoadOf(v, step)) + (IF s.work.step = step THEN 1 ELSE 0)
        BY <3>1, LoadChange
      <4>2. Cardinality(OfStep(jobs'[v], step)) =
              Cardinality(OfStep(jobs[v], step)) + (IF a.step = step THEN 1 ELSE 0)
        BY <3>2, <3>3, OfStepAfterPush
      <4>3. Cardinality(OfStep(jobs[v], step)) = Cardinality(LoadOf(v, step))
        BY <2>0 DEF BookOf
      <4>. QED  BY <1>4, <1>5, <4>1, <4>2, <4>3
    <3>7. active_proof_count'[v] = Len(jobs'[v]) + Marker(v)'
      <4>1. active_proof_count[v] = Len(jobs[v]) + Marker(v)
        BY <2>0 DEF BookOf
      <4>. QED  BY <3>4, <3>5, <4>1
    <3>. QED  BY <3>4, <3>6, <3>7 DEF BookOf, OfStep, Steps
  <2>2. CASE v # w
    <3>1. Load(v)' = Load(v)
      <4>1. WorksOf(v)' = WorksOf(v)
        BY <1>4, <1>6, <2>2 DEF WorksOf
      <4>. QED  BY <4>1 DEF Load
    <3>2. jobs'[v] = jobs[v] /\ active_proof_count'[v] = active_proof_count[v] /\ sharded'[v] = sharded[v]
      BY <1>1, <1>3, <1>6, <2>2
    <3>3. \A step \in Steps : Cardinality(LoadOf(v, step)') = Cardinality(LoadOf(v, step))
      BY <3>1, LoadChange
    <3>. QED  BY <2>0, <3>2, <3>3, BookKept
  <2>. QED  BY <2>1, <2>2
<1>9. DOMAIN jobs' = Workers
  BY <1>3, <1>6
<1>. QED  BY <1>8, <1>9 DEF Books, Workers

\* A worker's books go by when neither they nor its load change.
LEMMA BooksKept ==
    ASSUME PlacesFinite, Books, UNCHANGED <<active_proof_count, sharded, jobs>>,
           \A w \in Workers : Load(w)' = Load(w)
    PROVE  Books'
<1>1. ASSUME NEW w \in Workers PROVE BookOf(w)'
  <2>1. \A step \in Steps : Cardinality(LoadOf(w, step)') = Cardinality(LoadOf(w, step))
    BY LoadChange
  <2>. QED  BY <2>1, BookKept DEF Books
<1>. QED  BY <1>1 DEF Books, Workers

\* A handler that waits for the queue, or for its follow-ups.
LEMMA BooksAtPlacing ==
    ASSUME IInv, CalmInv, OnceInv, Books, NEW h \in handlers,
           h.pc \notin {"complete", "late"} \/ h.res.kind \notin Steps,
           NEW pc, GoesOn(h, pc), pc # "late", pc = "complete" => h.res.kind = "ExecuteE2",
           running' = running,
           \/ \E work \in Queued \cup Todos : Assign(work)
           \/ UNCHANGED <<active_proof_count, sharded, jobs, sends>>
    PROVE  Books'
<1>1. \A w : Owed(w)' = Owed(w)
  <2>1. \A w : Owed(w)' = Owed(w) \ {h}
    BY AfterGoingOn
  <2>2. \A w : h \notin Owed(w)
    BY DEF Owed
  <2>. QED  BY <2>1, <2>2
<1>2. PlacesFinite
  BY DEF OnceInv
<1>3. CASE \E work \in Queued \cup Todos : Assign(work)
  <2>1. PICK work \in Queued \cup Todos : Assign(work)
    BY <1>3
  <2>2. Key(work) \in QueueKeys \cup TodoKeys
    BY DEF QueueKeys, TodoKeys
  <2>3. Key(work) \notin SendKeys
    BY <2>2 DEF OnceInv, PlacesApart
  <2>. QED  BY <1>1, <1>2, <2>1, <2>3, BooksAtAssign
<1>4. CASE UNCHANGED <<active_proof_count, sharded, jobs, sends>>
  <2>1. \A w \in Workers : Load(w)' = Load(w)
    BY <1>1, <1>4 DEF Load, WorksOf
  <2>. QED  BY <1>2, <1>4, <2>1, BooksKept
<1>. QED  BY <1>3, <1>4

\* set_num_segments takes a marker and its count together.
LEMMA BooksAtSegments ==
    ASSUME IInv, CalmInv, OnceInv, Books, NEW h \in handlers, h.pc = "segments",
           NEW pc, GoesOn(h, pc), pc # "late",
           SetNumSegments(h.res.count), running' = running
    PROVE  Books'
<1>0. h.res.kind = "ExecuteE2" /\ sched_segments = None /\ "ExecuteE2" \notin Steps
  BY DEF CalmInv, KindsInv, E2Inv, Steps
<1>1. \A w : Owed(w)' = Owed(w)
  <2>1. \A w : Owed(w)' = Owed(w) \ {h}
    BY <1>0, AfterGoingOn
  <2>2. \A w : h \notin Owed(w)
    BY <1>0 DEF Owed
  <2>. QED  BY <2>1, <2>2
<1>. DEFINE D == DoneWithShard(h.res.count)
<1>2. /\ active_proof_count' = [w \in Workers |-> IF w \in D THEN OneLess(active_proof_count[w])
                                                  ELSE active_proof_count[w]]
      /\ sharded' = [w \in Workers |-> sharded[w] /\ w \notin D]
      /\ UNCHANGED <<jobs, sends>>
  BY DEF SetNumSegments
<1>3. \A w \in D : active_proof_count[w] > 0
  BY DEF DoneWithShard
<1>. HIDE DEF D
<1>4. active_proof_count \in [Workers -> Nat] /\ sharded \in [Workers -> BOOLEAN]
  BY DEF IInv, TypeOK
<1>5. PlacesFinite
  BY DEF OnceInv
<1>6. ASSUME NEW w \in Workers PROVE BookOf(w)'
  <2>0. BookOf(w)
    BY DEF Books
  <2>1. Load(w)' = Load(w)
    BY <1>1, <1>2 DEF Load, WorksOf
  <2>2. \A step \in Steps : Cardinality(LoadOf(w, step)') = Cardinality(LoadOf(w, step))
    BY <1>5, <2>1, LoadChange
  <2>3. active_proof_count[w] = Marker(w) /\ Marker(w) \in {0, 1}
    BY <1>0 DEF CalmInv, EarlyInv, Marker
  <2>4. CASE w \notin D
    <3>1. active_proof_count'[w] = active_proof_count[w] /\ sharded'[w] = sharded[w]
      BY <1>2, <1>4, <2>4
    <3>. QED  BY <1>2, <1>5, <2>0, <2>2, <3>1, BookKept
  <2>5. CASE w \in D
    <3>1. active_proof_count[w] = 1
      BY <1>3, <2>3, <2>5
    <3>2. active_proof_count'[w] = 0 /\ ~sharded'[w]
      <4>1. active_proof_count'[w] = OneLess(active_proof_count[w])
        BY <1>2, <2>5
      <4>2. sharded'[w] <=> sharded[w] /\ w \notin D
        BY <1>2
      <4>. QED  BY <2>5, <3>1, <4>1, <4>2 DEF OneLess
    <3>3. Marker(w)' = 0
      BY <3>2 DEF Marker
    <3>4. Len(jobs[w]) \in Nat /\ active_proof_count[w] = Len(jobs[w]) + Marker(w)
      BY <2>0 DEF BookOf
    <3>5. active_proof_count'[w] = Len(jobs'[w]) + Marker(w)'
      BY <1>2, <2>3, <3>1, <3>2, <3>3, <3>4
    <3>. QED  BY <1>2, <2>0, <2>2, <3>5 DEF BookOf, OfStep, Steps
  <2>. QED  BY <2>4, <2>5
<1>. QED  BY <1>2, <1>6 DEF Books, Workers

\* apply_completion of a result of the tree: an entry of its step goes, and
\* there is one.
LEMMA BooksAtTreeCompletion ==
    ASSUME IInv, CalmInv, OnceInv, Books, NEW h \in handlers, h.pc \in {"complete", "late"},
           h.res.kind \in Steps, h.work.step = h.res.kind,
           NEW pc, pc \in {"dequeue", "try"}, GoesOn(h, pc),
           CompleteTree(h.worker, h.res), UNCHANGED <<sends, running>>
    PROVE  Books'
<1>. DEFINE w == h.worker
            kind == h.res.kind
<1>1. \A v : Owed(v)' = Owed(v) \ {h}
  BY AfterGoingOn
<1>2. /\ active_proof_count' = [active_proof_count EXCEPT ![w] = OneLess(@)]
      /\ UNCHANGED sharded
  BY DEF CompleteTree
<1>3. /\ active_proof_count \in [Workers -> Nat] /\ w \in Workers /\ DOMAIN jobs = Workers
      /\ PlacesFinite
  BY DEF IInv, TypeOK, Books, OnceInv
<1>4. h \in Owed(w) /\ \A v : h \in Owed(v) => v = w
  BY DEF Owed
<1>5. h \notin sends /\ h \notin running
  BY KindsOfLoad
<1>6. h \in Load(w) /\ h \in LoadOf(w, kind)
  BY <1>4 DEF Load, LoadOf
<1>7. Load(w)' = Load(w) \ {h} /\ \A v : v # w => Load(v)' = Load(v)
  BY <1>1, <1>4, <1>5 DEF Load, WorksOf
<1>8. BookOf(w)
  BY <1>3 DEF Books
<1>9. PICK S : jobs[w] \in Seq(S)
  BY <1>8 DEF BookOf
<1>10. OfStep(jobs[w], kind) # {}
  <2>1. IsFiniteSet(LoadOf(w, kind))
    <3>1. LoadOf(w, kind) \subseteq Load(w)
      BY DEF LoadOf
    <3>. QED  BY <1>3, <3>1, LoadFinite, FS_Subset
  <2>2. Cardinality(LoadOf(w, kind)) # 0
    BY <1>6, <2>1, FS_EmptySet
  <2>3. Cardinality(OfStep(jobs[w], kind)) # 0
    BY <1>8, <2>2 DEF BookOf
  <2>. QED  BY <2>3, FS_EmptySet
<1>11. WithoutFirst(jobs[w], kind) # {}
  BY <1>9, <1>10, FirstOfStep
<1>12. \E rest \in WithoutFirst(jobs[w], kind) : jobs' = [jobs EXCEPT ![w] = rest]
  BY <1>11 DEF CompleteTree
<1>13. PICK i \in DOMAIN jobs[w] : jobs[w][i].step = kind /\ jobs' = [jobs EXCEPT ![w] = RemoveAt(jobs[w], i)]
  BY <1>12 DEF WithoutFirst
<1>14. jobs'[w] = RemoveAt(jobs[w], i) /\ DOMAIN jobs' = Workers
       /\ \A v \in Workers : v # w => jobs'[v] = jobs[v]
  BY <1>3, <1>13
<1>15. BookOf(w)'
  <2>1. jobs'[w] \in Seq(S) /\ Len(jobs'[w]) = Len(jobs[w]) - 1
    <3>. HIDE DEF w
    <3>1. RemoveAt(jobs[w], i) \in Seq(S) /\ Len(RemoveAt(jobs[w], i)) = Len(jobs[w]) - 1
      BY <1>9, RemoveAtIs
    <3>. QED  BY <1>14, <3>1
  <2>2. Len(jobs[w]) \in Nat /\ Len(jobs[w]) >= 1
    BY <1>9
  <2>3. active_proof_count[w] = Len(jobs[w]) + Marker(w) /\ Marker(w)' = Marker(w) /\ Marker(w) \in {0, 1}
    BY <1>2, <1>8 DEF BookOf, Marker
  <2>4. active_proof_count'[w] = active_proof_count[w] - 1
    BY <1>2, <1>3, <2>2, <2>3 DEF OneLess
  <2>5. active_proof_count'[w] = Len(jobs'[w]) + Marker(w)'
    BY <2>1, <2>2, <2>3, <2>4
  <2>6. ASSUME NEW step \in Steps
        PROVE  Cardinality(OfStep(jobs'[w], step)) = Cardinality(LoadOf(w, step)')
    <3>1. Cardinality(LoadOf(w, step)') =
            Cardinality(LoadOf(w, step)) - (IF h.work.step = step THEN 1 ELSE 0)
      BY <1>3, <1>6, <1>7, LoadChange
    <3>2. Cardinality(OfStep(jobs'[w], step)) =
            Cardinality(OfStep(jobs[w], step)) - (IF jobs[w][i].step = step THEN 1 ELSE 0)
      BY <1>9, <1>14, OfStepAfterRemoval
    <3>3. Cardinality(OfStep(jobs[w], step)) = Cardinality(LoadOf(w, step))
      BY <1>8 DEF BookOf
    <3>. QED  BY <1>13, <3>1, <3>2, <3>3
  <2>. QED  BY <2>1, <2>5, <2>6 DEF BookOf, OfStep, Steps
<1>16. ASSUME NEW v \in Workers, v # w PROVE BookOf(v)'
  <2>1. active_proof_count'[v] = active_proof_count[v] /\ sharded'[v] = sharded[v] /\ jobs'[v] = jobs[v]
    BY <1>2, <1>3, <1>14, <1>16
  <2>2. \A step \in Steps : Cardinality(LoadOf(v, step)') = Cardinality(LoadOf(v, step))
    BY <1>3, <1>7, <1>16, LoadChange
  <2>3. BookOf(v)
    BY DEF Books
  <2>. QED  BY <1>3, <2>1, <2>2, <2>3, BookKept
<1>17. \A v \in Workers : BookOf(v)'
  BY <1>15, <1>16
<1>. QED  BY <1>14, <1>17 DEF Books, Workers

\* apply_completion of an app proof: the marker and its count go together.
LEMMA BooksAtAppCompletion ==
    ASSUME IInv, CalmInv, OnceInv, Books, NEW h \in handlers, h.pc \in {"complete", "late"},
           h.res.kind = "App", NEW pc, pc \in {"dequeue", "try"}, GoesOn(h, pc),
           CompleteApp(h.worker, h.res), UNCHANGED <<sends, running>>
    PROVE  Books'
<1>. DEFINE w == h.worker
<1>0. PlacesFinite /\ active_proof_count \in [Workers -> Nat] /\ sharded \in [Workers -> BOOLEAN]
  BY DEF OnceInv, IInv, TypeOK
<1>1. \A v : Load(v)' = Load(v)
  <2>1. \A v : Owed(v)' = Owed(v) \ {h}
    BY AfterGoingOn
  <2>2. \A v : h \notin Owed(v)
    BY DEF Owed, Steps
  <2>. QED  BY <2>1, <2>2 DEF Load, WorksOf
<1>2. CASE ~FreesSlot(w, h.res)
  <2>1. UNCHANGED <<active_proof_count, sharded, jobs>>
    BY <1>2 DEF CompleteApp, bookVars
  <2>. QED  BY <1>0, <1>1, <2>1, BooksKept
<1>3. CASE FreesSlot(w, h.res)
  <2>1. /\ active_proof_count' = [active_proof_count EXCEPT ![w] = OneLess(@)]
        /\ sharded' = [sharded EXCEPT ![w] = FALSE] /\ UNCHANGED jobs
    BY <1>3 DEF CompleteApp
  <2>2. w \in StarkWorkers /\ w \in Workers /\ h.res.segment \in Owned(w)
        /\ h.res.segment \notin completed_segments[w]
    BY StarkWorkersAreWorkers DEF CalmInv, ShardsInv, SegmentsOwned
  <2>3. sharded[w] /\ Marker(w) = 1
    BY <2>2 DEF CalmInv, ShardsInv, Marker
  <2>4. ASSUME NEW v \in Workers PROVE BookOf(v)'
    <3>0. BookOf(v)
      BY DEF Books
    <3>1. \A step \in Steps : Cardinality(LoadOf(v, step)') = Cardinality(LoadOf(v, step))
      BY <1>0, <1>1, LoadChange
    <3>2. CASE v = w
      <4>1. Len(jobs[v]) \in Nat /\ active_proof_count[v] = Len(jobs[v]) + 1
        BY <2>3, <3>0, <3>2 DEF BookOf
      <4>2. active_proof_count'[v] = active_proof_count[v] - 1 /\ ~sharded'[v]
        BY <1>0, <2>1, <2>2, <3>2, <4>1 DEF OneLess
      <4>3. Marker(v)' = 0
        BY <4>2 DEF Marker
      <4>4. active_proof_count'[v] = Len(jobs'[v]) + Marker(v)'
        BY <2>1, <4>1, <4>2, <4>3
      <4>. QED  BY <2>1, <3>0, <3>1, <4>4 DEF BookOf, OfStep, Steps
    <3>3. CASE v # w
      <4>1. active_proof_count'[v] = active_proof_count[v] /\ sharded'[v] = sharded[v] /\ jobs'[v] = jobs[v]
        BY <1>0, <2>1, <3>3
      <4>. QED  BY <1>0, <3>0, <3>1, <4>1, BookKept
    <3>. QED  BY <3>2, <3>3
  <2>. QED  BY <2>1, <2>4 DEF Books, Workers
<1>. QED  BY <1>2, <1>3

\* The steps of proof_result past the ProofState lock.
LEMMA BooksAtHandlerStep ==
    ASSUME IInv, CalmInv, OnceInv, UnderWay, Books, NEW h \in handlers, HandlerStep(h)
    PROVE  UnderWay' /\ Books'
<1>. DEFINE onward == {"drain", "complete", "dequeue", "try", "follow"}
<1>0. /\ h.pc \in {"segments", "drain", "complete", "dequeue", "try", "follow"}
      /\ AfterSegments(h) = "complete" /\ entry /\ ~DrainOver
  BY DEF UnderWay, AfterSegments, DrainOver
<1>1. h.pc \in {"segments", "drain"} => h.res.kind = "ExecuteE2"
  BY DEF CalmInv, KindsInv
<1>2. UNCHANGED <<running, canceler, watchdog>>
  BY DEF HandlerStep, HandlerSegments, HandlerDrain, HandlerComplete, HandlerDequeue, workerVars, taskVars,
         HandlerSealed, HandlerFinalize, HandlerTry, HandlerRemove, HandlerFollowUp
<1>3. ASSUME NEW pc \in onward, GoesOn(h, pc), pc = "complete" => h.res.kind = "ExecuteE2",
             UNCHANGED <<proofVars, entry>>
      PROVE  UnderWay'
  BY <1>2, <1>3, AfterGoingOn DEF proofVars, treeVars
<1>4. ASSUME NEW pc \in onward, GoesOn(h, pc), pc = "complete" => h.res.kind = "ExecuteE2",
             h.pc # "complete" \/ h.res.kind \notin Steps,
             \/ \E work \in Queued \cup Todos : Assign(work)
             \/ UNCHANGED <<active_proof_count, sharded, jobs, sends>>
      PROVE  Books'
  <2>1. h.pc \notin {"complete", "late"} \/ h.res.kind \notin Steps
    BY <1>0, <1>4
  <2>2. pc # "late"
    OBVIOUS
  <2>. QED  BY <1>2, <1>4, <2>1, <2>2, BooksAtPlacing
<1>5. ASSUME TryDequeueWork
      PROVE  /\ \/ \E work \in Queued \cup Todos : Assign(work)
                \/ UNCHANGED <<active_proof_count, sharded, jobs, sends>>
             /\ UNCHANGED entry
  BY <1>5 DEF TryDequeueWork, NoWorker, Assign, Queued, schedulerVars, bookVars
<1>6. CASE HandlerSegments(h)
  <2>. DEFINE pc == IF DoneWithShard(h.res.count) # {} THEN "drain" ELSE AfterSegments(h)
  <2>1. SetNumSegments(h.res.count) /\ Goto(h, pc) /\ h.pc = "segments" /\ UNCHANGED proofVars
    BY <1>0, <1>6 DEF HandlerSegments
  <2>2. pc \in {"drain", "complete"} /\ pc \in onward /\ pc # "late"
    BY <1>0
  <2>. HIDE DEF pc
  <2>3. GoesOn(h, pc)
    BY <2>1, HandlerGoesOnAt
  <2>4. Books'
    BY <1>2, <2>1, <2>2, <2>3, BooksAtSegments
  <2>5. UNCHANGED entry
    BY <2>1 DEF SetNumSegments
  <2>. QED  BY <1>1, <1>3, <2>1, <2>2, <2>3, <2>4, <2>5
<1>7. CASE HandlerDrain(h)
  <2>. DEFINE pc == IF sends' # sends THEN "drain" ELSE AfterSegments(h)
  <2>1. TryDequeueWork /\ Goto(h, pc) /\ h.pc = "drain" /\ UNCHANGED proofVars
    BY <1>7 DEF HandlerDrain
  <2>2. pc \in onward
    BY <1>0
  <2>. HIDE DEF pc
  <2>3. GoesOn(h, pc)
    BY <2>1, HandlerGoesOnAt
  <2>. QED  BY <1>1, <1>3, <1>4, <1>5, <2>1, <2>2, <2>3
<1>8. CASE HandlerDequeue(h)
  <2>1. TryDequeueWork /\ Goto(h, "try") /\ h.pc = "dequeue" /\ UNCHANGED proofVars
    BY <1>8 DEF HandlerDequeue
  <2>2. GoesOn(h, "try") /\ "try" \in onward
    BY <2>1, HandlerGoesOnAt
  <2>. QED  BY <1>3, <1>4, <1>5, <2>1, <2>2
<1>9. CASE HandlerComplete(h)
  <2>. DEFINE pc == IF h.pc = "complete" /\ FreesSlot(h.worker, h.res) THEN "dequeue" ELSE "try"
  <2>1. /\ h.pc \in {"complete", "late"} /\ Goto(h, pc) /\ UNCHANGED proofVars
        /\ ApplyCompletion(h.worker, h.res)
    BY <1>0, <1>9 DEF HandlerComplete
  <2>2. pc \in {"dequeue", "try"} /\ pc \in onward
    OBVIOUS
  <2>. HIDE DEF pc
  <2>3. GoesOn(h, pc)
    BY <2>1, HandlerGoesOnAt
  <2>4. UNCHANGED <<entry, sends>>
    BY <2>1 DEF ApplyCompletion
  <2>5. UnderWay'
    BY <1>3, <2>1, <2>2, <2>3, <2>4
  <2>6. CASE h.res.kind = "App"
    <3>1. CompleteApp(h.worker, h.res)
      BY <2>1, <2>6 DEF ApplyCompletion
    <3>. QED  BY <1>2, <2>1, <2>2, <2>3, <2>4, <2>5, <2>6, <3>1, BooksAtAppCompletion
  <2>7. CASE h.res.kind = "ExecuteE2"
    <3>1. UNCHANGED <<active_proof_count, sharded, jobs>> /\ h.res.kind \notin Steps
      BY <2>1, <2>7 DEF ApplyCompletion, bookVars, Steps
    <3>. QED  BY <1>4, <2>2, <2>3, <2>4, <2>5, <3>1
  <2>8. CASE h.res.kind \in Steps
    <3>1. CompleteTree(h.worker, h.res)
      BY <2>1, <2>8 DEF ApplyCompletion, Steps
    <3>2. h.work.step = h.res.kind
      BY <2>8 DEF UnderWay, IsAnswer
    <3>. QED  BY <1>2, <2>1, <2>2, <2>3, <2>4, <2>5, <2>8, <3>1, <3>2, BooksAtTreeCompletion
  <2>. QED  BY <2>6, <2>7, <2>8 DEF CalmInv, KindsInv
<1>10. CASE HandlerFollowUp(h)
  <2>1. h.pc = "follow" /\ UNCHANGED proofVars
    BY <1>10 DEF HandlerFollowUp
  <2>2. PICK work \in h.todo : EnqueueOrAssign(work) /\ FollowUp(h, h.todo \ {work})
    BY <1>10 DEF HandlerFollowUp
  <2>3. GoesOn(h, "follow") /\ "follow" \in onward
    BY <2>2, HandlerGoesOnAt
  <2>4. work \in Todos
    BY DEF Todos
  <2>5. /\ \/ \E x \in Queued \cup Todos : Assign(x)
           \/ UNCHANGED <<active_proof_count, sharded, jobs, sends>>
        /\ UNCHANGED entry
    BY <2>2, <2>4 DEF EnqueueOrAssign, Assign, NoWorker, schedulerVars, bookVars
  <2>. QED  BY <1>3, <1>4, <2>1, <2>3, <2>5
<1>11. CASE HandlerTry(h)
  <2>1. h.pc = "try" /\ UNCHANGED <<proofVars, schedulerVars>> /\ FollowUp(h, h.todo)
    BY <1>0, <1>11 DEF HandlerTry
  <2>2. GoesOn(h, "follow") /\ "follow" \in onward
    BY <2>1, HandlerGoesOnAt
  <2>. QED  BY <1>3, <1>4, <2>1, <2>2 DEF schedulerVars, bookVars
<1>12. ~HandlerSealed(h) /\ ~HandlerFinalize(h) /\ ~HandlerRemove(h)
  BY <1>0 DEF HandlerSealed, HandlerFinalize, HandlerRemove
<1>. QED  BY <1>6, <1>7, <1>8, <1>9, <1>10, <1>11, <1>12 DEF HandlerStep

\* A request that becomes a job stays behind its entry.
LEMMA BooksAtSendStep ==
    ASSUME IInv, CalmInv, OnceInv, UnderWay, Books, Calm, NEW s \in sends, SendStep(s)
    PROVE  UnderWay' /\ Books'
<1>0. s.pc = "send" /\ DOMAIN s = {"worker", "work", "tries", "pc"} /\ PlacesFinite
  BY DEF CalmInv, RequestsInv, IInv, TypeOK, OnceInv
<1>1. SendAttempt(s)
  BY <1>0 DEF SendStep, SendRelease, SendFail, SendTry, SendRemove
<1>2. /\ running' = running \cup {Job(s)} /\ sends' = sends \ {s}
      /\ UNCHANGED <<proofVars, sendFrame, handlers, taskVars>>
  BY <1>0, <1>1 DEF SendAttempt, Fault, Calm
<1>. DEFINE j == Job(s)
<1>3. j.worker = s.worker /\ j.work = s.work /\ DOMAIN j = {"worker", "work", "copy"}
  BY DEF Job
<1>4. running' = running \cup {j}
  BY <1>2
<1>. HIDE DEF j
<1>5. UnderWay'
  <2>1. UNCHANGED <<treeVars, status, entry, canceler, watchdog, handlers>>
    BY <1>2 DEF proofVars, treeVars, sendFrame, taskVars
  <2>2. \A f : IsAnswer(f)' <=> IsAnswer(f)
    BY <2>1 DEF IsAnswer, treeVars
  <2>. QED  BY <2>1, <2>2 DEF UnderWay, Steps
<1>6. UNCHANGED <<active_proof_count, sharded, jobs>>
  BY <1>2 DEF sendFrame, bookVars
<1>7. s \notin running /\ s \notin handlers /\ j \notin sends /\ j \notin handlers
  BY <1>0, <1>3, KindsOfLoad
<1>8. j \notin running
  <2>1. Key(s.work) \in SendKeys
    BY DEF SendKeys
  <2>2. j \in running => Key(s.work) \in RunKeys
    BY <1>3 DEF RunKeys
  <2>. QED  BY <2>1, <2>2 DEF OnceInv, PlacesApart
<1>9. ASSUME NEW w PROVE Owed(w)' = Owed(w)
  BY <1>2 DEF Owed, Steps
<1>10. ASSUME NEW w \in Workers PROVE BookOf(w)'
  <2>1. \A step \in Steps : Cardinality(LoadOf(w, step)') = Cardinality(LoadOf(w, step))
    <3>1. CASE w = s.worker
      <4>1. s \in Load(w) /\ j \notin Load(w)
        BY <1>0, <1>7, <1>8, <3>1 DEF Load, WorksOf, Owed
      <4>2. WorksOf(w)' = (WorksOf(w) \ {s}) \cup {j}
        BY <1>0, <1>2, <1>3, <1>4, <1>7, <3>1 DEF WorksOf
      <4>3. s \notin Owed(w)
        BY <1>7 DEF Owed
      <4>4. Load(w)' = (Load(w) \ {s}) \cup {j}
        BY <1>9, <4>2, <4>3 DEF Load
      <4>5. j.work.step = s.work.step
        BY <1>3
      <4>. QED  BY <1>0, <4>1, <4>4, <4>5, LoadChange
    <3>2. CASE w # s.worker
      <4>1. WorksOf(w)' = WorksOf(w)
        BY <1>2, <1>3, <1>4, <3>2 DEF WorksOf
      <4>2. Load(w)' = Load(w)
        BY <1>9, <4>1 DEF Load
      <4>. QED  BY <1>0, <4>2, LoadChange
    <3>. QED  BY <3>1, <3>2
  <2>2. BookOf(w)
    BY DEF Books
  <2>. QED  BY <1>0, <1>6, <2>1, <2>2, BookKept
<1>11. Books'
  BY <1>6, <1>10 DEF Books, Workers
<1>. QED  BY <1>5, <1>11

\* A new call of proof_result for r, of worker w about job.
NewCall(w, job, r) ==
    \E c : /\ c.worker = w /\ c.work = job /\ c.res = r /\ ~c.sealed
           /\ c.pc = IF r.kind = "ExecuteE2" THEN "segments" ELSE "complete"
           /\ DOMAIN c = {"worker", "work", "copy", "res", "sealed", "pc", "todo"}
           /\ handlers' = handlers \cup {c}

\* A result that does not end the proof leads to one, and the proof goes on.
LEMMA ArrivalGoesOn ==
    ASSUME IInv, KnownInv, UnderWay, ~IsReadyForFinalization, ~IsReadyForFinalization',
           NEW w, NEW job, NEW copy, NEW r, ProofResult(w, job, copy, r), r.ok, ~Rejected(r),
           \/ r = E2Result(NumSegments, TRUE)
           \/ \E seg \in 0..(NumSegments - 1) : r = AppResult(seg, TRUE)
           \/ \E x \in Works : r = TreeResult(x, TRUE) /\ x.step \in Steps /\ Safe
    PROVE  /\ status' = "InProgress" /\ UNCHANGED <<schedulerVars, taskVars>>
           /\ \A f : IsAnswer(f) => IsAnswer(f)'
           /\ NewCall(w, job, r)
<1>1. ~IsSealedForResults
  BY DEF UnderWay, IsSealedForResults
<1>2. HandleProofResult(r)
  BY DEF ProofResult
<1>3. \/ r = ErrorResult
      \/ \E ok \in BOOLEAN : r = E2Result(NumSegments, ok)
      \/ \E seg \in 0..(NumSegments - 1) : r = AppResult(seg, TRUE)
      \/ \E x \in Works : r = TreeResult(x, TRUE) /\ x.step \in Steps /\ Safe
  OBVIOUS
<1>4. TreeGrew /\ status' = "InProgress"
  BY <1>1, <1>2, <1>3, ResultGrows
<1>5. ~IsSealedForResults'
  BY <1>4 DEF IsSealedForResults
<1>. DEFINE pc == IF r.kind = "ExecuteE2" THEN "segments"
                  ELSE IF IsSealedForResults' THEN "sealed" ELSE "complete"
            c == [worker |-> w, work |-> job, copy |-> copy, res |-> r,
                  sealed |-> IsSealedForResults', pc |-> pc, todo |-> Requests(r)]
<1>6. handlers' = handlers \cup {c} /\ UNCHANGED <<schedulerVars, taskVars>>
  BY <1>1 DEF ProofResult
<1>7. pc = IF r.kind = "ExecuteE2" THEN "segments" ELSE "complete"
  BY <1>5
<1>. HIDE DEF pc
<1>8. /\ c.worker = w /\ c.work = job /\ c.res = r /\ c.pc = pc
      /\ DOMAIN c = {"worker", "work", "copy", "res", "sealed", "pc", "todo"}
  OBVIOUS
<1>9. ~c.sealed
  BY <1>5
<1>. HIDE DEF c
<1>10. ASSUME NEW f, IsAnswer(f) PROVE IsAnswer(f)'
  <2>1. f.work.step = f.res.kind /\ f.work.layer \in Nat /\ f.work.start \in Nat
    BY <1>10 DEF IsAnswer
  <2>2. CASE f.res.kind = "LeafProve" /\ \E p \in leaf_proofs : p.start = f.work.start
    <3>1. -1 \in Tree!Levels /\ Tree!Has(-1, f.work.start)
      BY <2>2 DEF Tree!Levels, Tree!Has
    <3>2. Tree!Has(-1, f.work.start)'
      BY <1>4, <2>1, <3>1 DEF TreeGrew
    <3>3. \E p \in leaf_proofs' : p.start = f.work.start
      BY <3>2 DEF Tree!Has
    <3>. QED  BY <2>1, <2>2, <3>3 DEF IsAnswer
  <2>3. CASE /\ f.res.kind = "InternalProve"
             /\ \E p \in internal_proofs : p.layer = f.work.layer /\ p.start = f.work.start
    <3>1. f.work.layer \in Tree!Levels /\ Tree!Has(f.work.layer, f.work.start)
      BY <2>1, <2>3 DEF Tree!Levels, Tree!Has
    <3>2. Tree!Has(f.work.layer, f.work.start)'
      BY <1>4, <2>1, <3>1 DEF TreeGrew
    <3>3. \E p \in internal_proofs' : p.layer = f.work.layer /\ p.start = f.work.start
      BY <2>1, <3>2 DEF Tree!Has
    <3>. QED  BY <2>1, <2>3, <3>3 DEF IsAnswer
  <2>. QED  BY <1>10, <2>2, <2>3 DEF IsAnswer
<1>11. NewCall(w, job, r)
  BY <1>6, <1>7, <1>8, <1>9 DEF NewCall
<1>. QED  BY <1>4, <1>6, <1>10, <1>11

\* The calls under way and a new one.
LEMMA OneMoreCall ==
    ASSUME UnderWay, status' = "InProgress", UNCHANGED <<schedulerVars, taskVars>>,
           \A f : IsAnswer(f) => IsAnswer(f)',
           NEW c, handlers' = handlers \cup {c}, ~c.sealed, c.pc \in {"segments", "complete"},
           c.res.kind \in Steps => IsAnswer(c)'
    PROVE  UnderWay'
<1>1. UNCHANGED <<entry, canceler, watchdog>>
  BY DEF schedulerVars, taskVars
<1>2. ASSUME NEW f \in handlers'
      PROVE  /\ f.pc \in {"segments", "drain", "complete", "dequeue", "try", "follow"}
             /\ ~f.sealed
             /\ f.res.kind \in Steps => IsAnswer(f)'
  <2>1. CASE f = c
    BY <2>1
  <2>2. CASE f \in handlers
    BY <2>2 DEF UnderWay
  <2>. QED  BY <2>1, <2>2
<1>. QED  BY <1>1, <1>2 DEF UnderWay, Steps

\* A segment, or the number of segments, is not work of the tree.
LEMMA BooksAtShardResult ==
    ASSUME IInv, KnownInv, OnceInv, UnderWay, Books, ~IsReadyForFinalization, ~IsReadyForFinalization',
           NEW w, NEW r, ProofResult(w, ShardJob, 0, r), running' = running,
           \/ r = E2Result(NumSegments, TRUE)
           \/ \E seg \in 0..(NumSegments - 1) : r = AppResult(seg, TRUE)
    PROVE  UnderWay' /\ Books'
<1>1. r.ok /\ r.kind \in {"ExecuteE2", "App"} /\ ~Rejected(r)
  BY DEF E2Result, AppResult, Rejected
<1>2. /\ status' = "InProgress" /\ UNCHANGED <<schedulerVars, taskVars>>
      /\ \A f : IsAnswer(f) => IsAnswer(f)'
      /\ NewCall(w, ShardJob, r)
  BY <1>1, ArrivalGoesOn
<1>3. PICK c : /\ c.res = r /\ ~c.sealed
               /\ c.pc = IF r.kind = "ExecuteE2" THEN "segments" ELSE "complete"
               /\ handlers' = handlers \cup {c}
  BY <1>2 DEF NewCall
<1>4. c.res.kind \notin Steps /\ c.pc \in {"segments", "complete"}
  BY <1>1, <1>3 DEF Steps
<1>5. UnderWay'
  BY <1>2, <1>3, <1>4, OneMoreCall
<1>6. UNCHANGED <<active_proof_count, sharded, jobs, sends>>
  BY <1>2 DEF schedulerVars, bookVars
<1>7. ASSUME NEW v \in Workers PROVE Load(v)' = Load(v)
  <2>1. Owed(v)' = Owed(v)
    BY <1>3, <1>4 DEF Owed, Steps
  <2>2. WorksOf(v)' = WorksOf(v)
    BY <1>6 DEF WorksOf
  <2>. QED  BY <2>1, <2>2 DEF Load
<1>8. Books'
  BY <1>6, <1>7, BooksKept DEF OnceInv
<1>. QED  BY <1>5, <1>8

\* The result of a request that runs is stored, unless it is the final artifact.
LEMMA AnswerArrives ==
    ASSUME IInv, KnownInv, OnceInv, UnderWay, ~IsReadyForFinalization, ~IsReadyForFinalization',
           NEW job \in running, HandleProofResult(TreeResult(job.work, TRUE)),
           NEW c, c.work = job.work, c.res = TreeResult(job.work, TRUE)
    PROVE  IsAnswer(c)' /\ ~Rejected(TreeResult(job.work, TRUE))
<1>. USE ManagerAssumption
<1>. DEFINE x == job.work
            r == TreeResult(x, TRUE)
<1>0. r.ok = TRUE /\ r.kind = x.step /\ r.work = x /\ x \in Works /\ x.step \in Steps
  BY WorksOfState DEF TreeResult, IInv, TypeOK
<1>1. num_segments = NumSegments /\ NumSegments # None
  BY DEF IInv, TypeOK, SegmentsFirst, Safe, UnderWay, None
<1>2. c.work = x /\ c.res = r
  OBVIOUS
<1>3. ~IsSealedForResults /\ HandleProofResult(r)
  BY DEF UnderWay, IsSealedForResults
<1>4. ~Rejected(r)
  BY <1>0, <1>1 DEF Rejected, LacksEvmHandoff, InternalOf, KnownInv, FlagsInv
<1>5. /\ x.step # "EvmProve" => /\ x.layer \in Nat
                                /\ x.start \in 0..(NumSegments - 1)
                                /\ x.end \in 0..(NumSegments - 1)
      /\ x.step = "EvmProve" => AsSlot(x) = EvmRequest /\ AsSlot(x) \in Known
  BY <1>0, WorkIsSlot
<1>. HIDE DEF x, r
<1>6. CASE x.step = "EvmProve"
  <2>1. ProofType = "Evm"
    BY <1>5, <1>6 DEF KnownInv, SlotsInv
  <2>2. evm_proof' = TRUE
    BY <1>0, <1>3, <1>6, <2>1 DEF HandleProofResult, HandleHalo2Result
  <2>. QED  BY <2>1, <2>2 DEF IsReadyForFinalization
<1>7. CASE x.step = "LeafProve"
  <2>1. HandleLeafResult(LeafOf(x))
    BY <1>0, <1>3, <1>7 DEF HandleProofResult
  <2>2. LeafOf(x) \in leaf_proofs'
    BY <1>1, <1>5, <1>7, <2>1 DEF HandleLeafResult, OutOfBounds, LeafOf
  <2>3. LeafOf(x).start = x.start
    BY DEF LeafOf
  <2>4. \E p \in leaf_proofs' : p.start = x.start
    BY <2>2, <2>3
  <2>5. /\ c.work.step = c.res.kind /\ c.work.layer \in Nat /\ c.work.start \in Nat
        /\ c.res.kind = "LeafProve"
    <3>1. r.kind = x.step
      BY <1>0
    <3>2. x.layer \in Nat /\ x.start \in Nat
      BY <1>5, <1>7
    <3>. QED  BY <1>2, <1>7, <3>1, <3>2
  <2>6. IsAnswer(c)'
    BY <1>2, <2>4, <2>5 DEF IsAnswer
  <2>. QED  BY <1>4, <2>6 DEF r, x
<1>8. CASE x.step = "InternalProve"
  <2>1. HandleInternalResult(InternalOf(x))
    BY <1>0, <1>3, <1>8 DEF HandleProofResult
  <2>2. InternalOf(x) \in internal_proofs'
    BY <1>1, <1>5, <1>8, <2>1 DEF HandleInternalResult, OutOfBounds, InternalOf
  <2>3. InternalOf(x).start = x.start /\ InternalOf(x).layer = x.layer
    BY DEF InternalOf
  <2>4. \E p \in internal_proofs' : p.layer = x.layer /\ p.start = x.start
    BY <2>2, <2>3
  <2>5. /\ c.work.step = c.res.kind /\ c.work.layer \in Nat /\ c.work.start \in Nat
        /\ c.res.kind = "InternalProve"
    <3>1. r.kind = x.step
      BY <1>0
    <3>2. x.layer \in Nat /\ x.start \in Nat
      BY <1>5, <1>8
    <3>. QED  BY <1>2, <1>8, <3>1, <3>2
  <2>6. IsAnswer(c)'
    BY <1>2, <2>4, <2>5 DEF IsAnswer
  <2>. QED  BY <1>4, <2>6 DEF r, x
<1>. QED  BY <1>0, <1>6, <1>7, <1>8 DEF Steps

\* No call answers a request that still runs.
LEMMA RunningIsUnanswered ==
    ASSUME IInv, KnownInv, OnceInv, NEW job \in running, NEW c \in handlers,
           c.work = job.work, IsAnswer(c)
    PROVE  FALSE
<1>. DEFINE x == job.work
<1>0. x \in Works /\ Key(x) \in RunKeys
  BY WorksOfState DEF RunKeys
<1>1. Key(x) \notin StoredKeys
  BY <1>0 DEF OnceInv, PlacesApart
<1>2. \A y \in Stored : Key(y) # Key(x)
  BY <1>1 DEF StoredKeys
<1>3. x.step = c.res.kind
  BY DEF IsAnswer
<1>4. CASE x.step = "LeafProve"
  <2>1. PICK p \in leaf_proofs : p.start = x.start
    BY <1>3, <1>4 DEF IsAnswer
  <2>2. x.layer = 0
    BY <1>0, <1>4, WorkIsSlot
  <2>3. LeafRequest(p.start, p.end) \in Stored
    BY DEF Stored
  <2>4. Key(LeafRequest(p.start, p.end)) = Key(x)
    BY <1>4, <2>1, <2>2 DEF Key, LeafRequest
  <2>. QED  BY <1>2, <2>3, <2>4
<1>5. CASE x.step = "InternalProve"
  <2>1. PICK p \in internal_proofs : p.layer = x.layer /\ p.start = x.start
    BY <1>3, <1>5 DEF IsAnswer
  <2>2. InternalRequest(p.layer, p.start, p.end, FALSE) \in Stored
    BY DEF Stored
  <2>3. Key(InternalRequest(p.layer, p.start, p.end, FALSE)) = Key(x)
    BY <1>5, <2>1 DEF Key, InternalRequest
  <2>. QED  BY <1>2, <2>2, <2>3
<1>. QED  BY <1>3, <1>4, <1>5 DEF IsAnswer

\* A job's result takes the job's place behind its entry.
LEMMA BooksAtPostTree ==
    ASSUME IInv, KnownInv, OnceInv, CalmInv, UnderWay, Books,
           ~IsReadyForFinalization, ~IsReadyForFinalization', NEW job \in running, PostTree(job)
    PROVE  UnderWay' /\ Books'
<1>. DEFINE r == TreeResult(job.work, TRUE)
<1>1. ProofResult(job.worker, job.work, job.copy, r) /\ running' = running \ {job}
  BY DEF PostTree
<1>2. /\ r.ok /\ r.kind = job.work.step /\ job.work \in Works /\ job.work.step \in Steps /\ Safe
      /\ DOMAIN job = {"worker", "work", "copy"} /\ PlacesFinite
  BY WorksOfState DEF TreeResult, IInv, TypeOK, SegmentsFirst, CalmInv, RequestsInv, OnceInv
<1>3. HandleProofResult(r)
  BY <1>1 DEF ProofResult
<1>4. ~Rejected(r)
  <2>. DEFINE d == [work |-> job.work, res |-> r]
  <2>1. d.work = job.work /\ d.res = r
    OBVIOUS
  <2>. HIDE DEF d
  <2>. QED  BY <1>3, <2>1, AnswerArrives
<1>5. \E x \in Works : r = TreeResult(x, TRUE) /\ x.step \in Steps /\ Safe
  BY <1>2
<1>6. /\ status' = "InProgress" /\ UNCHANGED <<schedulerVars, taskVars>>
      /\ \A f : IsAnswer(f) => IsAnswer(f)'
      /\ NewCall(job.worker, job.work, r)
  BY <1>1, <1>2, <1>4, <1>5, ArrivalGoesOn
<1>7. PICK c : /\ c.worker = job.worker /\ c.work = job.work /\ c.res = r /\ ~c.sealed
               /\ c.pc = IF r.kind = "ExecuteE2" THEN "segments" ELSE "complete"
               /\ DOMAIN c = {"worker", "work", "copy", "res", "sealed", "pc", "todo"}
               /\ handlers' = handlers \cup {c}
  BY <1>6 DEF NewCall
<1>8. IsAnswer(c)'
  BY <1>3, <1>7, AnswerArrives
<1>. HIDE DEF r
<1>9. c.pc = "complete" /\ c.res.kind \in Steps
  BY <1>2, <1>7 DEF Steps
<1>10. UnderWay'
  BY <1>6, <1>7, <1>8, <1>9, OneMoreCall
<1>11. UNCHANGED <<active_proof_count, sharded, jobs, sends>>
  BY <1>6 DEF schedulerVars, bookVars
<1>12. c \notin handlers
  <2>1. ASSUME c \in handlers PROVE IsAnswer(c)
    BY <1>9, <2>1 DEF UnderWay
  <2>. QED  BY <1>7, <2>1, RunningIsUnanswered
<1>13. c \notin sends /\ c \notin running /\ job \notin sends /\ job \notin handlers
  BY <1>2, <1>7, KindsOfLoad
<1>14. ASSUME NEW w \in Workers
       PROVE  \A step \in Steps : Cardinality(LoadOf(w, step)') = Cardinality(LoadOf(w, step))
  <2>1. CASE w = job.worker
    <3>1. WorksOf(w)' = WorksOf(w) \ {job}
      BY <1>1, <1>11, <1>13 DEF WorksOf
    <3>2. Owed(w)' = Owed(w) \cup {c}
      BY <1>7, <1>9, <2>1 DEF Owed, Steps
    <3>3. job \in Load(w) /\ c \notin Load(w) /\ job \notin Owed(w)
      BY <1>12, <1>13, <2>1 DEF Load, WorksOf, Owed
    <3>4. c # job
      BY <1>13
    <3>5. Load(w)' = (Load(w) \ {job}) \cup {c}
      BY <3>1, <3>2, <3>3, <3>4 DEF Load
    <3>6. c.work.step = job.work.step
      BY <1>7
    <3>. QED  BY <1>2, <3>3, <3>5, <3>6, LoadChange
  <2>2. CASE w # job.worker
    <3>1. WorksOf(w)' = WorksOf(w)
      BY <1>1, <1>11, <2>2 DEF WorksOf
    <3>2. Owed(w)' = Owed(w)
      BY <1>7, <2>2 DEF Owed, Steps
    <3>3. Load(w)' = Load(w)
      BY <3>1, <3>2 DEF Load
    <3>. QED  BY <1>2, <3>3, LoadChange
  <2>. QED  BY <2>1, <2>2
<1>15. ASSUME NEW w \in Workers PROVE BookOf(w)'
  <2>1. BookOf(w)
    BY DEF Books
  <2>. QED  BY <1>2, <1>11, <1>14, <2>1, BookKept
<1>16. Books'
  BY <1>11, <1>15 DEF Books, Workers
<1>. QED  BY <1>10, <1>16

\* Every step keeps the books until the final artifact is there,
LEMMA BooksAtNext ==
    ASSUME IInv, KnownInv, OnceInv, CalmInv, BooksInv, Undisturbed, [Next]_vars
    PROVE  BooksInv'
<1>. SUFFICES ASSUME ~IsReadyForFinalization' PROVE UnderWay' /\ Books'
  BY DEF BooksInv, Books, Workers
<1>1. ~IsReadyForFinalization /\ UnderWay /\ Books
  BY ReadyKept DEF BooksInv, Books
<1>2. Calm /\ Faults \cap {"lost", "error", "cancel", "timeout"} = {}
  BY DEF Undisturbed, Calm
<1>3. CASE WorkerStep
  <2>1. /\ ~LoseResult /\ \A job : ~PostTreeError(job)
        /\ \A w, queued, e2Queued : ~PostShardError(w, queued, e2Queued)
    BY <1>2 DEF LoseResult, PostTreeError, PostShardError, Fault
  <2>2. ASSUME NEW w \in StarkWorkers, NEW seg \in unsent[w], PostApp(w, seg) PROVE UnderWay' /\ Books'
    <3>1. ProofResult(w, ShardJob, 0, AppResult(seg, TRUE)) /\ running' = running
      BY <2>2 DEF PostApp
    <3>2. seg \in 0..(NumSegments - 1)
      BY DEF IInv, TypeOK
    <3>. QED  BY <1>1, <3>1, <3>2, BooksAtShardResult
  <2>3. ASSUME NEW ok \in BOOLEAN, PostExecuteE2(ok) PROVE UnderWay' /\ Books'
    <3>1. ok = TRUE
      BY <1>2, <2>3 DEF PostExecuteE2, Fault
    <3>2. ProofResult(0, ShardJob, 0, E2Result(NumSegments, TRUE)) /\ running' = running
      BY <2>3, <3>1 DEF PostExecuteE2
    <3>. QED  BY <1>1, <3>2, BooksAtShardResult
  <2>4. ASSUME NEW job \in running, PostTree(job) PROVE UnderWay' /\ Books'
    BY <1>1, <2>4, BooksAtPostTree
  <2>. QED  BY <1>3, <2>1, <2>2, <2>3, <2>4 DEF WorkerStep
<1>4. ASSUME UNCHANGED <<treeVars, status, schedulerVars, handlers, running, canceler, watchdog>>
      PROVE  UnderWay' /\ Books'
  <2>1. UNCHANGED <<entry, active_proof_count, sharded, jobs, sends>>
    BY <1>4 DEF schedulerVars, bookVars
  <2>2. \A f : IsAnswer(f)' <=> IsAnswer(f)
    BY <1>4 DEF IsAnswer, treeVars
  <2>3. UnderWay'
    BY <1>1, <1>4, <2>1, <2>2 DEF UnderWay, Steps
  <2>4. \A w \in Workers : Load(w)' = Load(w)
    BY <1>4, <2>1 DEF Load, WorksOf, Owed, Steps
  <2>5. Books'
    BY <1>1, <2>1, <2>4, BooksKept DEF OnceInv
  <2>. QED  BY <2>3, <2>5
<1>5. CASE StarterStep
  <2>1. starter \in {"dispatch", "done"} /\ \A w \in StarkWorkers : dispatch[w] \in {"sending", "ok"}
    BY DEF CalmInv, StartInv
  <2>2. (\E w \in StarkWorkers : Kickoff(w)) \/ StartJoin
    BY <1>5, <2>1 DEF StarterStep, StartRelease, StartTry, StartRemove
  <2>3. UNCHANGED <<proofVars, schedulerVars, handlers, running, canceler, watchdog>>
    BY <2>1, <2>2 DEF Kickoff, StartJoin, workerVars
  <2>. QED  BY <1>4, <2>3 DEF proofVars, treeVars
<1>6. CASE WatchdogStep \/ CancelRemove \/ MinutePasses \/ CancelProof
  BY <1>1, <1>2, <1>6 DEF WatchdogStep, WatchdogTry, WatchdogTimeout, WatchdogRemove, CancelRemove,
     MinutePasses, CancelProof, UnderWay, DrainOver
<1>7. CASE UNCHANGED vars
  BY <1>4, <1>7 DEF vars, proofVars, treeVars, workerVars, taskVars
<1>. QED  BY <1>1, <1>2, <1>3, <1>5, <1>6, <1>7, BooksAtHandlerStep, BooksAtSendStep DEF Next, ManagerStep

\* and they are right at the start.
LEMMA BooksAtInit == Init => BooksInv
<1>. SUFFICES ASSUME Init PROVE UnderWay /\ DOMAIN jobs = Workers /\ \A w \in Workers : BookOf(w)
  BY DEF BooksInv
<1>1. /\ handlers = {} /\ running = {} /\ sends = {} /\ entry = TRUE
      /\ active_proof_count = [w \in Workers |-> IF RunsStarkProving(w) THEN 1 ELSE 0]
      /\ sharded = [w \in Workers |-> RunsStarkProving(w)]
      /\ jobs = [w \in Workers |-> <<>>]
      /\ status = "InProgress" /\ canceler = "idle" /\ watchdog = "idle"
  BY DEF Init, InitProof, NewProofState
<1>2. UnderWay
  BY <1>1 DEF UnderWay
<1>3. ASSUME NEW w \in Workers PROVE BookOf(w)
  <2>1. jobs[w] = <<>> /\ jobs[w] \in Seq({}) /\ Len(jobs[w]) = 0
    BY <1>1
  <2>2. active_proof_count[w] = Marker(w)
    <3>1. /\ active_proof_count[w] = IF RunsStarkProving(w) THEN 1 ELSE 0
          /\ sharded[w] <=> RunsStarkProving(w)
      BY <1>1
    <3>. QED  BY <3>1 DEF Marker
  <2>3. \A step : OfStep(jobs[w], step) = {} /\ LoadOf(w, step) = {}
    BY <1>1, <2>1 DEF OfStep, LoadOf, Load, WorksOf, Owed
  <2>4. active_proof_count[w] = Len(jobs[w]) + Marker(w)
    BY <2>1, <2>2 DEF Marker
  <2>. QED  BY <2>1, <2>3, <2>4 DEF BookOf
<1>. QED  BY <1>1, <1>2, <1>3

\* As long as nothing fails but the writing of the final artifact, the
\* scheduler's books match the work: until that artifact arrives, there is an
\* entry for each request, job or result not yet accounted for, and no other,
\* and a worker's count is the number of its entries.  What is lost, canceled,
\* late or in error leaves entries behind, hence the hypothesis.
THEOREM BooksMatchWorkHolds ==
    ASSUME Undisturbed
    PROVE  Spec => []BooksMatchWork
<1>1. IInv /\ KnownInv /\ OnceInv /\ CalmInv /\ BooksInv => BooksMatchWork
  <2>. SUFFICES ASSUME IInv, OnceInv, CalmInv, BooksInv, ~IsReadyForFinalization, NEW w \in Workers
                PROVE  /\ active_proof_count[w] = Len(jobs[w]) + (IF sharded[w] THEN 1 ELSE 0)
                       /\ \A step \in Steps :
                             Cardinality({i \in DOMAIN jobs[w] : jobs[w][i].step = step}) =
                               Cardinality({x \in WorksOf(w) : x.work.step = step})
                                 + Cardinality({h \in Unaccounted(w) : h.res.kind = step})
    BY DEF BooksMatchWork
  <2>1. UnderWay /\ BookOf(w) /\ PlacesFinite
    BY DEF BooksInv, OnceInv
  <2>2. active_proof_count[w] = Len(jobs[w]) + (IF sharded[w] THEN 1 ELSE 0)
    BY <2>1 DEF BookOf, Marker
  <2>3. ASSUME NEW step \in Steps
        PROVE  Cardinality({i \in DOMAIN jobs[w] : jobs[w][i].step = step}) =
                 Cardinality({x \in WorksOf(w) : x.work.step = step})
                   + Cardinality({h \in Unaccounted(w) : h.res.kind = step})
    <3>. DEFINE A == {x \in WorksOf(w) : x.work.step = step}
                B == {h \in Unaccounted(w) : h.res.kind = step}
    <3>1. LoadOf(w, step) = A \cup B
      <4>1. \A h \in handlers : h.res.kind \in Steps => h.work.step = h.res.kind /\ h.pc # "late"
        BY <2>1 DEF UnderWay, IsAnswer
      <4>. QED  BY <4>1 DEF LoadOf, Load, Owed, Unaccounted
    <3>2. A \cap B = {}
      <4>1. \A x \in A : x \in sends \/ x \in running
        BY DEF WorksOf
      <4>2. \A x \in B : x \in handlers
        BY DEF Unaccounted
      <4>. QED  BY <4>1, <4>2, KindsOfLoad
    <3>3. IsFiniteSet(LoadOf(w, step))
      <4>1. LoadOf(w, step) \subseteq Load(w)
        BY DEF LoadOf
      <4>. QED  BY <2>1, <4>1, LoadFinite, FS_Subset
    <3>4. Cardinality(OfStep(jobs[w], step)) = Cardinality(LoadOf(w, step))
      BY <2>1 DEF BookOf
    <3>. HIDE DEF A, B
    <3>5. IsFiniteSet(A) /\ IsFiniteSet(B)
      BY <3>1, <3>3, FS_Subset
    <3>6. Cardinality(A \cup B) = Cardinality(A) + Cardinality(B)
      BY <3>2, <3>5, DisjointCount
    <3>. QED  BY <3>1, <3>4, <3>6 DEF A, B, OfStep
  <2>. QED  BY <2>2, <2>3
<1>2. Calm
  BY DEF Calm, Undisturbed
<1>3. Init => BooksInv
  BY BooksAtInit
<1>4. IInv /\ KnownInv /\ OnceInv /\ CalmInv /\ BooksInv /\ [Next]_vars => BooksInv'
  BY BooksAtNext
<1>5. Spec => [](IInv /\ KnownInv /\ OnceInv /\ CalmInv)
  BY <1>2, CalmHolds
<1>. QED  BY <1>1, <1>3, <1>4, <1>5, PTL DEF Spec
=============================================================================
