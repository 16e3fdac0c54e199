--------------------------- MODULE MCRecursionTree ---------------------------
(***************************************************************************)
(* Checks RecursionTree against the folds it stands for: every pair of     *)
(* arities, leaf counts growing one at a time from 1 to MaxLeaves.         *)
(***************************************************************************)
EXTENDS RecursionTree

CONSTANTS Arities,   \* the arities tried, for leaves and for internal proofs
          MaxLeaves  \* bound on the leaf count

ASSUME AritiesAssumption == Arities \subseteq Nat \ {0, 1}

VARIABLES leaf_arity, internal_arity, leaves
vars == <<leaf_arity, internal_arity, leaves>>

Init == leaf_arity \in Arities /\ internal_arity \in Arities /\ leaves = 1

AddLeaf ==
    /\ leaves < MaxLeaves
    /\ leaves' = leaves + 1
    /\ UNCHANGED <<leaf_arity, internal_arity>>

Spec == Init /\ [][AddLeaf]_vars
-----------------------------------------------------------------------------
Layers == NumInternalLayers(leaves, internal_arity)
NumAt(layer) == NumProofsAtInternalLayer(leaves, layer, internal_arity)
StartOf(layer, idx) ==
    SegmentStartOfInternalProof(leaf_arity, internal_arity, layer, idx)
IdxOf(start, layer) ==
    SegmentStartToInternalIdx(start, layer, leaf_arity, internal_arity)

\* The iterated fold of num_proofs_at_internal_layer_for_leaf_count yields, at
\* each layer of the tree, the closed form ceil(leaves / arity^(layer+1)); the
\* top layer holds exactly the root and the layer above it nothing, which is
\* what makes "layer = num_internal_layers - 1, idx = 0" name the final proof.
FoldIsGeometric ==
    leaves > 1 =>
      /\ \A layer \in 0..(Layers - 1) :
            NumAt(layer) = DivCeil(leaves, Scaled(1, internal_arity, layer + 1))
      /\ NumAt(Layers - 1) = 1
      /\ NumAt(Layers) = 0

\* Result handling goes from a proof's segment_start to its idx and groups
\* siblings by idx / internal_arity, while requests carry segment_start.  Both
\* views agree: the start of a slot maps back to it, every segment below the
\* slot maps to it, and the slot's start maps, one layer up, to its parent.  No
\* segment is left outside the tree: the last one falls into each layer's last slot.
SlotsAndSegmentsAgree ==
    \A layer \in 0..(Layers - 1) :
      /\ \A idx \in 0..(NumAt(layer) - 1) :
           LET start == StartOf(layer, idx)
               next  == StartOf(layer, idx + 1)
           IN  /\ \A seg \in start..(next - 1) : IdxOf(seg, layer) = idx
               /\ IdxOf(start, layer + 1) = idx \div internal_arity
      /\ leaves > 1 => IdxOf(leaves * leaf_arity - 1, layer) = NumAt(layer) - 1
=============================================================================
