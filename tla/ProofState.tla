----------------------------- MODULE ProofState -----------------------------
(***************************************************************************)
(* ProofState (crates/edge-manager/src/proof_state/): the results one      *)
(* proof has accumulated, its status, and the follow-up requests each new  *)
(* result makes possible.  The state is guarded by one mutex per proof, so *)
(* handling a result is one atomic step: the action HandleProofResult(r)   *)
(* is its effect on the state, and Requests(r) the requests it returns,    *)
(* both read in the state before the step.                                 *)
(*                                                                         *)
(* Proof bytes are abstracted to their presence.  A leaf proof is the      *)
(* range of segments it covers, an internal proof its layer and range.     *)
(***************************************************************************)
EXTENDS RecursionTree, FiniteSets

CONSTANTS LeafArity,      \* app proofs per leaf proof
          InternalArity,  \* children per internal proof
          ProofType       \* "Stark" or "Evm"

ASSUME ArityAssumption ==
    /\ LeafArity \in Nat \ {0}
    /\ InternalArity \in Nat \ {0, 1}
    /\ ProofType \in {"Stark", "Evm"}

VARIABLES status,           \* ProofStatus
          num_segments,     \* known once ExecuteE2 has arrived
          app_proofs,       \* segments whose app proof has arrived
          leaf_proofs,      \* leaf proofs, as segment ranges
          internal_proofs,  \* internal proofs, by layer and segment range
          evm_proof         \* the Evm artifact has arrived

proofVars == <<status, num_segments, app_proofs, leaf_proofs, internal_proofs,
               evm_proof>>
treeVars == <<num_segments, app_proofs, leaf_proofs, internal_proofs, evm_proof>>

None == -1     \* Option::None of a segment count
Statuses == {"InProgress", "Completed", "Failing", "Failed", "Canceled"}
Steps == {"LeafProve", "InternalProve", "EvmProve"}

\* GeneralProveRequest, with the proof bytes left out.
LeafRequest(first, last) ==
    [step |-> "LeafProve", layer |-> 0, start |-> first, end |-> last, final |-> FALSE]
InternalRequest(layer, first, last, is_final) ==
    [step |-> "InternalProve", layer |-> layer, start |-> first, end |-> last,
     final |-> is_final]
EvmRequest ==
    [step |-> "EvmProve", layer |-> 0, start |-> 0, end |-> 0, final |-> TRUE]

\* ProofResult.  ok is false for a result without proof bytes, and for an
\* ExecuteE2 above the cost limit.  A tree result echoes the request it
\* answers, the final flag included: the worker sets ready_for_evm from it.
ErrorResult == [kind |-> "Error", ok |-> FALSE]
E2Result(n, ok) == [kind |-> "ExecuteE2", ok |-> ok, count |-> n]
AppResult(seg, ok) == [kind |-> "App", ok |-> ok, segment |-> seg]
TreeResult(work, ok) == [kind |-> work.step, ok |-> ok, work |-> work]

NewProofState ==
    /\ status = "InProgress"
    /\ num_segments = None
    /\ app_proofs = {}
    /\ leaf_proofs = {}
    /\ internal_proofs = {}
    /\ evm_proof = FALSE
-----------------------------------------------------------------------------
NumLeafProofs(n) == DivCeil(n, LeafArity)
LayersFor(n) == NumInternalLayers(NumLeafProofs(n), InternalArity)

\* A tree of one natural layer gets a wrapping layer on top.
EffectiveFinalLayer(n) == IF LayersFor(n) < 2 THEN 1 ELSE LayersFor(n) - 1

SlotIdx(p) == SegmentStartToInternalIdx(p.start, p.layer, LeafArity, InternalArity)

FinalInternalProofPresent ==
    /\ num_segments # None
    /\ \E p \in internal_proofs :
          p.layer = EffectiveFinalLayer(num_segments) /\ SlotIdx(p) = 0

IsReadyForFinalization ==
    IF ProofType = "Stark" THEN FinalInternalProofPresent ELSE evm_proof

IsSealedForResults == status # "InProgress" \/ IsReadyForFinalization
-----------------------------------------------------------------------------
\* flush_pending_leaf_batches: only the partial last batch can have been
\* waiting for the segment count.
FlushPendingLeafBatches(n) ==
    LET first == (n \div LeafArity) * LeafArity
        batch == first..(n - 1)
    IN  IF /\ batch # {}
           /\ batch \subseteq app_proofs
           /\ \A p \in leaf_proofs : p.start # first
        THEN {LeafRequest(first, n - 1)}
        ELSE {}

\* trigger_tail_proofs: the partial last group of each layer, when its
\* children were all there before the segment count was.
TailRequests(n, layer) ==
    LET inputs  == IF layer = 0 THEN NumLeafProofs(n)
                   ELSE NumProofsAtInternalLayer(NumLeafProofs(n), layer - 1, InternalArity)
        tail    == inputs % InternalArity
        first   == inputs - tail
        start   == IF layer = 0 THEN first * LeafArity
                   ELSE SegmentStartOfInternalProof(LeafArity, InternalArity,
                                                    layer - 1, first)
        child(i) == IF layer = 0 THEN {p \in leaf_proofs : p.start = i * LeafArity}
                    ELSE {p \in internal_proofs : p.layer = layer - 1 /\ SlotIdx(p) = i}
    IN  IF /\ tail > 0
           /\ \A p \in internal_proofs :
                 ~(p.layer = layer /\ SlotIdx(p) = inputs \div InternalArity)
           /\ \A i \in first..(inputs - 1) : child(i) # {}
        THEN {InternalRequest(layer, start, p.end, layer = EffectiveFinalLayer(n)) :
                 p \in child(inputs - 1)}
        ELSE {}

TriggerTailProofs(n) == UNION {TailRequests(n, layer) : layer \in 0..(LayersFor(n) - 1)}

ExecuteE2Requests(n) ==
    IF num_segments # None \/ n = 0 THEN {}
    ELSE FlushPendingLeafBatches(n) \cup TriggerTailProofs(n)

OutOfBounds(last) == num_segments # None /\ last >= num_segments

\* Mutant: the batch of an app proof is never clipped to the segment count.
FullBatchRequests(seg) ==
    LET first == (seg \div LeafArity) * LeafArity
        batch == first..(first + LeafArity - 1)
    IN  IF ~OutOfBounds(seg) /\ seg \notin app_proofs /\ batch \subseteq app_proofs \cup {seg}
        THEN {LeafRequest(first, first + LeafArity - 1)} ELSE {}

\* Mutant: the batch is asked for one app proof early.
EagerAppRequests(seg) ==
    LET first == (seg \div LeafArity) * LeafArity
        full  == first + LeafArity - 1
        last  == IF num_segments # None /\ num_segments - 1 < full
                 THEN num_segments - 1 ELSE full
    IN  IF /\ ~OutOfBounds(seg)
           /\ seg \notin app_proofs
           /\ first..(last - 1) \subseteq app_proofs \cup {seg}
        THEN {LeafRequest(first, last)}
        ELSE {}

\* handle_app_result: the batch is the whole group, or what the segment count
\* leaves of it.
AppRequests(seg) ==
    LET first == (seg \div LeafArity) * LeafArity
        full  == first + LeafArity - 1
        last  == IF num_segments # None /\ num_segments - 1 < full
                 THEN num_segments - 1 ELSE full
    IN  IF /\ ~OutOfBounds(seg)
           /\ seg \notin app_proofs
           /\ first..last \subseteq app_proofs \cup {seg}
        THEN {LeafRequest(first, last)}
        ELSE {}

\* Mutant: only the last leaf of the group is waited for.
LeafRequestsEager(leaf) ==
    LET known  == leaf_proofs \cup {leaf}
        first  == ((leaf.start \div LeafArity) \div InternalArity) * InternalArity
        full   == first + InternalArity - 1
        last   == IF num_segments # None /\ NumLeafProofs(num_segments) - 1 < full
                  THEN NumLeafProofs(num_segments) - 1 ELSE full
        at(i)  == {p \in known : p.start = i * LeafArity}
    IN  IF \A p \in leaf_proofs : p.start # leaf.start
        THEN {InternalRequest(0, first * LeafArity, p.end, FALSE) : p \in at(last)}
        ELSE {}

\* handle_leaf_result: siblings are a group of InternalArity leaves, clipped to
\* the leaf count once it is known.
LeafRequests(leaf) ==
    LET known  == leaf_proofs \cup {leaf}
        first  == ((leaf.start \div LeafArity) \div InternalArity) * InternalArity
        full   == first + InternalArity - 1
        last   == IF num_segments # None /\ NumLeafProofs(num_segments) - 1 < full
                  THEN NumLeafProofs(num_segments) - 1 ELSE full
        at(i)  == {p \in known : p.start = i * LeafArity}
    IN  IF /\ ~OutOfBounds(leaf.start)
           /\ ~OutOfBounds(leaf.end)
           /\ \A p \in leaf_proofs : p.start # leaf.start
           /\ \A i \in first..last : at(i) # {}
        THEN {InternalRequest(0, first * LeafArity, p.end, FALSE) : p \in at(last)}
        ELSE {}

\* The parent request of a complete group of siblings of p.
ParentRequests(p) ==
    LET known == internal_proofs \cup {p}
        first == (SlotIdx(p) \div InternalArity) * InternalArity
        full  == first + InternalArity - 1
        here  == NumProofsAtInternalLayer(NumLeafProofs(num_segments), p.layer, InternalArity)
        last  == IF num_segments # None /\ here - 1 < full THEN here - 1 ELSE full
        group == {q \in known : q.layer = p.layer /\ SlotIdx(q) \in first..last}
        final == num_segments # None /\ p.layer + 1 = EffectiveFinalLayer(num_segments)
    IN  IF /\ num_segments # None => here > 0
           /\ \A i \in first..last : \E q \in group : SlotIdx(q) = i
        THEN {InternalRequest(p.layer + 1, a.start, b.end, final) :
                 a \in {q \in group : \A o \in group : q.start <= o.start},
                 b \in {q \in group : \A o \in group : q.end >= o.end}}
        ELSE {}

\* The final internal proof of an Evm proof must be the post-merge one; if it
\* is not, the handler bails out with an error after storing the proof.
LacksEvmHandoff(p, is_final) ==
    /\ ProofType = "Evm"
    /\ num_segments # None
    /\ p.layer = EffectiveFinalLayer(num_segments)
    /\ ~is_final

Duplicate(p) == \E q \in internal_proofs : q.layer = p.layer /\ SlotIdx(q) = SlotIdx(p)

\* Mutant: the wrap request is not flagged final.
InternalRequestsUnflagged(p) ==
    IF OutOfBounds(p.start) \/ OutOfBounds(p.end) \/ Duplicate(p) THEN {}
    ELSE IF num_segments # None /\ p.layer = EffectiveFinalLayer(num_segments)
      THEN IF ProofType = "Evm" THEN {EvmRequest} ELSE {}
    ELSE IF num_segments # None /\ LayersFor(num_segments) = 1 /\ p.layer = 0
      THEN {InternalRequest(1, p.start, p.end, FALSE)}
    ELSE ParentRequests(p)

\* Mutant: the EVM step follows the natural last layer, not the effective one.
InternalRequestsEarlyEvm(p) ==
    IF OutOfBounds(p.start) \/ OutOfBounds(p.end) \/ Duplicate(p) THEN {}
    ELSE IF num_segments # None /\ p.layer = LayersFor(num_segments) - 1
      THEN IF ProofType = "Evm" THEN {EvmRequest} ELSE {}
    ELSE ParentRequests(p)

\* handle_internal_result.
InternalRequests(p) ==
    IF OutOfBounds(p.start) \/ OutOfBounds(p.end) \/ Duplicate(p) THEN {}
    ELSE IF num_segments # None /\ p.layer = EffectiveFinalLayer(num_segments)
      THEN IF ProofType = "Evm" THEN {EvmRequest} ELSE {}
    ELSE IF num_segments # None /\ LayersFor(num_segments) = 1 /\ p.layer = 0
      THEN {InternalRequest(1, p.start, p.end, TRUE)}
    ELSE ParentRequests(p)

LeafOf(work) == [start |-> work.start, end |-> work.end]
InternalOf(work) == [layer |-> work.layer, start |-> work.start, end |-> work.end]

\* A result whose handling ends in that error: proof_result answers 500 and
\* goes no further.
Rejected(r) ==
    /\ r.ok
    /\ r.kind = "InternalProve"
    /\ ~OutOfBounds(r.work.start) /\ ~OutOfBounds(r.work.end)
    /\ ~Duplicate(InternalOf(r.work))
    /\ LacksEvmHandoff(InternalOf(r.work), r.work.final)

\* The follow-up requests of a result (handle_proof_result).
Requests(r) ==
    IF ~r.ok \/ Rejected(r) THEN {}
    ELSE CASE r.kind = "ExecuteE2"      -> ExecuteE2Requests(r.count)
           [] r.kind = "App"            -> AppRequests(r.segment)
           [] r.kind = "LeafProve"      -> LeafRequests(LeafOf(r.work))
           [] r.kind = "InternalProve"  -> InternalRequests(InternalOf(r.work))
           [] OTHER                     -> {}
-----------------------------------------------------------------------------
Fail == status' = "Failing" /\ UNCHANGED treeVars

\* Mutant: the index of the last segment is stored for the count.
HandleExecuteE2ResultLastIndex(r) ==
    /\ num_segments' = IF num_segments = None THEN r.count - 1 ELSE num_segments
    /\ UNCHANGED <<status, app_proofs, leaf_proofs, internal_proofs, evm_proof>>

HandleExecuteE2Result(r) ==
    IF num_segments = None /\ r.count = 0
    THEN Fail
    ELSE /\ num_segments' = IF num_segments = None THEN r.count ELSE num_segments
         /\ UNCHANGED <<status, app_proofs, leaf_proofs, internal_proofs, evm_proof>>

HandleAppResult(r) ==
    /\ app_proofs' = IF OutOfBounds(r.segment) THEN app_proofs
                     ELSE app_proofs \cup {r.segment}
    /\ UNCHANGED <<status, num_segments, leaf_proofs, internal_proofs, evm_proof>>

HandleLeafResult(leaf) ==
    /\ leaf_proofs' = IF OutOfBounds(leaf.start) \/ OutOfBounds(leaf.end) THEN leaf_proofs
                      ELSE {p \in leaf_proofs : p.start # leaf.start} \cup {leaf}
    /\ UNCHANGED <<status, num_segments, app_proofs, internal_proofs, evm_proof>>

HandleInternalResult(p) ==
    /\ internal_proofs' =
          IF OutOfBounds(p.start) \/ OutOfBounds(p.end) THEN internal_proofs
          ELSE {q \in internal_proofs : ~(q.layer = p.layer /\ SlotIdx(q) = SlotIdx(p))}
                 \cup {p}
    /\ UNCHANGED <<status, num_segments, app_proofs, leaf_proofs, evm_proof>>

HandleHalo2Result ==
    IF ProofType # "Evm" THEN Fail
    ELSE /\ evm_proof' = TRUE
         /\ UNCHANGED <<status, num_segments, app_proofs, leaf_proofs, internal_proofs>>

\* handle_proof_result_with_envelope_outcome: late results change nothing.
HandleProofResult(r) ==
    IF IsSealedForResults THEN UNCHANGED proofVars
    ELSE IF ~r.ok THEN Fail
    ELSE CASE r.kind = "ExecuteE2"     -> HandleExecuteE2Result(r)
           [] r.kind = "App"           -> HandleAppResult(r)
           [] r.kind = "LeafProve"     -> HandleLeafResult(LeafOf(r.work))
           [] r.kind = "InternalProve" -> HandleInternalResult(InternalOf(r.work))
           [] r.kind = "EvmProve"      -> HandleHalo2Result
-----------------------------------------------------------------------------
\* mark_failing and mark_timed_out: no effect once results are sealed.
MarkFailing ==
    /\ status' = IF IsSealedForResults THEN status ELSE "Failing"
    /\ UNCHANGED treeVars

TransitionFailingToFailed ==
    /\ status' = IF status = "Failing" THEN "Failed" ELSE status
    /\ UNCHANGED treeVars
=============================================================================
