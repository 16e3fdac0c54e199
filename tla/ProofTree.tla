------------------------------ MODULE ProofTree ------------------------------
(***************************************************************************)
(* One ProofState driven by an idealised pool of workers: app results and  *)
(* ExecuteE2 arrive in any order, every request is answered once, in any   *)
(* order.  Scheduling is left out, so trees of several layers can be       *)
(* explored; Manager composes ProofState with the real scheduler on        *)
(* smaller trees.                                                          *)
(***************************************************************************)
EXTENDS ProofState, Bags

CONSTANT SegmentCounts  \* the segment counts an execution may end with

ASSUME TreeAssumption == SegmentCounts \subseteq Nat \ {0}

VARIABLES total,     \* the segment count of this execution
          e2First,   \* no request is answered before ExecuteE2, which is what
                     \* the scheduler ensures (TreeNeedsSegments of Manager);
                     \* ProofState alone does not, so both cases are explored
          unsent,    \* segments whose app result is still to come
          e2Unsent,  \* ExecuteE2 is still to come
          requested, \* requests not answered yet
          asked      \* every request ever returned, as a bag
treeSpecVars == <<proofVars, total, e2First, unsent, e2Unsent, requested, asked>>

Init ==
    /\ NewProofState
    /\ total \in SegmentCounts
    /\ e2First \in BOOLEAN
    /\ unsent = 0..(total - 1)
    /\ e2Unsent = TRUE
    /\ requested = {}
    /\ asked = EmptyBag

\* Deliver result r and hand its follow-up requests to the workers.
Deliver(r, answered) ==
    LET new == IF IsSealedForResults THEN {} ELSE Requests(r)
    IN  /\ HandleProofResult(r)
        /\ requested' = (requested \ answered) \cup new
        /\ asked' = asked (+) SetToBag(new)
        /\ UNCHANGED <<total, e2First>>

PostApp(seg) ==
    /\ Deliver(AppResult(seg, TRUE), {})
    /\ unsent' = unsent \ {seg}
    /\ UNCHANGED e2Unsent

PostExecuteE2 ==
    /\ e2Unsent
    /\ e2Unsent' = FALSE
    /\ Deliver(E2Result(total, TRUE), {})
    /\ UNCHANGED unsent

PostTree(work) ==
    /\ e2First => ~e2Unsent
    /\ Deliver(TreeResult(work, TRUE), {work})
    /\ UNCHANGED <<unsent, e2Unsent>>

Next ==
    \/ \E seg \in unsent : PostApp(seg)
    \/ PostExecuteE2
    \/ \E work \in requested : PostTree(work)

\* Every job of a worker ends and its result is posted (no lost results here).
Spec == Init /\ [][Next]_treeSpecVars /\ WF_treeSpecVars(Next)
-----------------------------------------------------------------------------
Ranges(S) == UNION {p.start..p.end : p \in S}

\* Types: ranges are never empty, and only what was asked for is in flight.
TypeOK ==
    /\ status \in Statuses
    /\ num_segments \in {None} \cup SegmentCounts
    /\ app_proofs \subseteq 0..(total - 1)
    /\ \A p \in leaf_proofs : 0 <= p.start /\ p.start <= p.end
    /\ \A p \in internal_proofs : p.layer \in Nat /\ 0 <= p.start /\ p.start <= p.end
    /\ evm_proof \in BOOLEAN
    /\ requested \subseteq BagToSet(asked)

\* Whatever the arrival order of app proofs, ExecuteE2 and tree proofs, no slot
\* of the tree is requested twice: an app or leaf group completed by its last
\* member, the flush of the partial batch and the tail trigger at ExecuteE2
\* never overlap (result_handler.rs).
EachSlotRequestedOnce ==
    /\ \A work \in BagToSet(asked) : asked[work] = 1
    /\ \A v, w \in BagToSet(asked) :
          v.step = w.step /\ v.layer = w.layer /\ v.start = w.start => v = w

\* Every request in flight can be served: the app proofs of a leaf request have
\* arrived, and the children of an internal request tile exactly its range.
RequestsAreBacked ==
    \A work \in requested :
      CASE work.step = "LeafProve" -> work.start..work.end \subseteq app_proofs
        [] work.step = "InternalProve" ->
             LET below == IF work.layer = 0 THEN leaf_proofs
                          ELSE {p \in internal_proofs : p.layer = work.layer - 1}
                 kids  == {p \in below : p.start \in work.start..work.end}
             IN  /\ kids # {}
                 /\ Ranges(kids) = work.start..work.end
        [] work.step = "EvmProve" -> FinalInternalProofPresent

\* The artifact that completes the proof covers every segment of the
\* execution, and nothing else of the tree is still being asked for.
FinalProofCoversAll ==
    IsReadyForFinalization =>
      /\ app_proofs = 0..(total - 1)
      /\ \E p \in internal_proofs :
            p.layer = EffectiveFinalLayer(total) /\ p.start = 0 /\ p.end = total - 1
      /\ requested = {}

\* is_final_proof marks the one request that produces the final internal proof:
\* the worker decides on it whether to run the merge and the EVM hand-off.  It
\* rests on the scheduler: the flag is wrong for a request made before ExecuteE2.
FinalFlagIsExact ==
    e2First => \A work \in BagToSet(asked) :
      work.step = "InternalProve" =>
        (work.final <=> (work.layer = EffectiveFinalLayer(total)))

\* The tree never runs dry: every execution ends with the final artifact.
BecomesReady == e2First => <>[]IsReadyForFinalization
=============================================================================
