---------------------------- MODULE RecursionTree ----------------------------
(***************************************************************************)
(* The tree arithmetic of the recursion plan                               *)
(* (crates/edge-manager/src/proof_state/recursion.rs).  A proof of         *)
(* num_segments app proofs is folded leaf_arity at a time into leaf        *)
(* proofs, and these internal_arity at a time, layer after layer, into one *)
(* internal proof.  The arities are parameters here as they are in the     *)
(* code.                                                                   *)
(***************************************************************************)
EXTENDS Integers

\* usize::div_ceil, the rounding of every fold.
DivCeil(a, b) == (a + b - 1) \div b

\* Mutant: the layer count rounds a partial group down.
NumInternalLayersFloor(num_leaf_proofs, internal_arity) ==
    LET layers[nodes \in Nat] ==
            IF nodes <= 1 THEN 0 ELSE 1 + layers[nodes \div internal_arity]
    IN  IF num_leaf_proofs <= 1 THEN 1 ELSE layers[num_leaf_proofs]

\* Layers of internal proofs above num_leaf_proofs leaves; a single leaf still
\* gets one.
NumInternalLayers(num_leaf_proofs, internal_arity) ==
    LET layers[nodes \in Nat] ==
            IF nodes <= 1 THEN 0
            ELSE 1 + layers[DivCeil(nodes, internal_arity)]
    IN  IF num_leaf_proofs <= 1 THEN 1 ELSE layers[num_leaf_proofs]

\* Internal proofs at layer_idx.  The loop gives up with 0 as soon as a single
\* node is left to fold, so a layer above the root holds nothing (and 0 stays 0).
NumProofsAtInternalLayer(num_leaf_proofs, layer_idx, internal_arity) ==
    LET ret[k \in Nat] == IF k = 0 THEN num_leaf_proofs
                          ELSE IF ret[k - 1] = 1 THEN 0
                          ELSE DivCeil(ret[k - 1], internal_arity)
    IN  ret[layer_idx + 1]

\* The loop that both directions share: base *= internal_arity, layer_idx times.
Scaled(base, internal_arity, layer_idx) ==
    LET scaled[k \in Nat] == IF k = 0 THEN base ELSE internal_arity * scaled[k - 1]
    IN  scaled[layer_idx]

\* First segment under the internal proof (layer_idx, idx).
SegmentStartOfInternalProof(leaf_arity, internal_arity, layer_idx, idx) ==
    idx * Scaled(internal_arity, internal_arity, layer_idx) * leaf_arity

\* Mutant: the leaf arity is left out of the span of a slot.
SegmentStartToInternalIdxNoLeaf(segment_start, layer_idx, leaf_arity, internal_arity) ==
    segment_start \div Scaled(internal_arity, internal_arity, layer_idx)

\* The inverse: position within layer_idx of the proof that starts there.
SegmentStartToInternalIdx(segment_start, layer_idx, leaf_arity, internal_arity) ==
    segment_start \div Scaled(internal_arity * leaf_arity, internal_arity, layer_idx)
=============================================================================
