--------------------------- MODULE RecursionProofs ---------------------------
(***************************************************************************)
(* Theorems about the tree arithmetic: what MCRecursionTree checks up to a *)
(* bound holds for every arity of at least two and every leaf count.       *)
(***************************************************************************)
EXTENDS MCRecursionTree, RecursionLemmas

Counts ==
    /\ leaf_arity \in Nat \ {0, 1}
    /\ internal_arity \in Nat \ {0, 1}
    /\ leaves \in Nat \ {0}

LEMMA CountsInvariant == Spec => []Counts
<1>1. Init => Counts
  BY AritiesAssumption DEF Init, Counts
<1>2. Counts /\ [AddLeaf]_vars => Counts'
  BY DEF Counts, AddLeaf, vars
<1>. QED  BY <1>1, <1>2, PTL DEF Spec

\* num_proofs_at_internal_layer_for_leaf_count folds geometrically, and agrees
\* with num_internal_layers_for_leaf_count on which layer holds the root alone.
THEOREM FoldIsGeometricHolds == Spec => []FoldIsGeometric
<1>1. ASSUME Counts, leaves > 1 PROVE FoldIsGeometric
  <2>. USE <1>1 DEF Counts
  <2>1. /\ \A k \in 0..(Layers - 1) : NumAt(k) = DivCeil(leaves, Scaled(internal_arity, internal_arity, k))
        /\ NumAt(Layers - 1) = 1
        /\ NumAt(Layers) = 0
    BY LayerCounts DEF Layers, NumAt
  <2>2. \A k \in Nat : Scaled(internal_arity, internal_arity, k) = Scaled(1, internal_arity, k + 1)
    <3>. SUFFICES ASSUME NEW k \in Nat
                  PROVE  Scaled(internal_arity, internal_arity, k) = Scaled(1, internal_arity, k + 1)
      OBVIOUS
    <3>1. Scaled(internal_arity * 1, internal_arity, k) = internal_arity * Scaled(1, internal_arity, k)
      BY ScaledFactor
    <3>2. Scaled(1, internal_arity, k + 1) = internal_arity * Scaled(1, internal_arity, k)
      BY ScaledRecursion
    <3>3. internal_arity * 1 = internal_arity
      OBVIOUS
    <3>. QED  BY <3>1, <3>2, <3>3
  <2>3. \A k \in 0..(Layers - 1) : k \in Nat
    OBVIOUS
  <2>. QED  BY <2>1, <2>2, <2>3 DEF FoldIsGeometric
<1>2. Counts => FoldIsGeometric
  BY <1>1 DEF FoldIsGeometric
<1>. QED  BY <1>2, CountsInvariant, PTL

\* What SlotsAndSegmentsAgree says of one slot: its segments map to it, and its
\* first one, a layer up, to its parent.
LEMMA SlotAgrees ==
    ASSUME Counts, NEW layer \in Nat, NEW idx \in Nat
    PROVE  /\ \A seg \in StartOf(layer, idx)..(StartOf(layer, idx + 1) - 1) :
                 IdxOf(seg, layer) = idx
           /\ IdxOf(StartOf(layer, idx), layer + 1) = idx \div internal_arity
<1>. DEFINE a == internal_arity
            p == Scaled(a, a, layer)
            s == Scaled(a * leaf_arity, a, layer)
<1>0. a \in Nat \ {0, 1} /\ leaf_arity \in Nat \ {0} /\ a * leaf_arity \in Nat \ {0}
  BY DEF Counts
<1>1. p \in Nat \ {0} /\ s \in Nat \ {0} /\ Scaled(a * leaf_arity, a, layer + 1) = a * s
  BY <1>0, ScaledRecursion
<1>2. s = leaf_arity * p
  <2>1. Scaled(leaf_arity * a, a, layer) = leaf_arity * p
    BY <1>0, ScaledFactor
  <2>2. leaf_arity * a = a * leaf_arity
    BY <1>0
  <2>. QED  BY <2>1, <2>2
<1>3. \A i \in Nat : StartOf(layer, i) = i * s
  <2>1. \A i \in Nat : StartOf(layer, i) = i * p * leaf_arity
    BY DEF StartOf, SegmentStartOfInternalProof
  <2>. HIDE DEF p, s, a
  <2>2. \A i \in Nat : i * p * leaf_arity = i * (leaf_arity * p)
    BY <1>0, <1>1
  <2>. QED  BY <1>2, <2>1, <2>2
<1>4. \A seg \in Nat : IdxOf(seg, layer) = seg \div s /\ IdxOf(seg, layer + 1) = seg \div (a * s)
  BY <1>1 DEF IdxOf, SegmentStartToInternalIdx
<1>. HIDE DEF p, s, a
<1>5. ASSUME NEW seg \in (idx * s)..((idx + 1) * s - 1) PROVE seg \in Nat /\ seg \div s = idx
  <2>1. seg \in Nat /\ s * idx <= seg /\ seg < s * idx + s
    BY <1>1, <1>5
  <2>. QED  BY <1>1, <2>1
<1>6. (idx * s) \div (a * s) = idx \div a
  <2>. DEFINE q == idx \div a
  <2>1. q \in Nat /\ a * q <= idx /\ idx < a * q + a
    BY <1>0
  <2>. HIDE DEF q
  <2>2. a * q * s <= idx * s /\ idx * s + s <= (a * q + a) * s
    BY <1>0, <1>1, <2>1
  <2>3. (a * s) * q <= idx * s /\ idx * s < (a * s) * q + a * s /\ a * s \in Nat \ {0} /\ idx * s \in Nat
    BY <1>0, <1>1, <2>1, <2>2
  <2>4. (idx * s) \div (a * s) = q
    BY <2>1, <2>3
  <2>. QED  BY <2>4 DEF q
<1>7. idx * s \in Nat /\ idx + 1 \in Nat
  BY <1>1
<1>. QED  BY <1>3, <1>4, <1>5, <1>6, <1>7 DEF a

\* The segment below the last slot of a layer.
LEMMA LastSegmentInLastSlot ==
    ASSUME Counts, leaves > 1, NEW layer \in 0..(Layers - 1)
    PROVE  IdxOf(leaves * leaf_arity - 1, layer) = NumAt(layer) - 1
<1>. DEFINE a == internal_arity
            p == Scaled(a, a, layer)
            s == Scaled(a * leaf_arity, a, layer)
            c == DivCeil(leaves, p)
<1>0. a \in Nat \ {0, 1} /\ leaf_arity \in Nat \ {0} /\ a * leaf_arity \in Nat \ {0} /\ layer \in Nat
      /\ leaves \in Nat
  BY DEF Counts
<1>1. p \in Nat \ {0} /\ s \in Nat \ {0}
  BY <1>0, ScaledRecursion
<1>2. s = leaf_arity * p
  <2>1. Scaled(leaf_arity * a, a, layer) = leaf_arity * p
    BY <1>0, ScaledFactor
  <2>2. leaf_arity * a = a * leaf_arity
    BY <1>0
  <2>. QED  BY <2>1, <2>2
<1>3. NumAt(layer) = c
  BY <1>0, LayerCounts DEF Layers, NumAt
<1>4. c \in Nat /\ c * p < leaves + p /\ leaves <= c * p
  BY <1>0, <1>1, DivCeilBounds
<1>5. IdxOf(leaves * leaf_arity - 1, layer) = (leaves * leaf_arity - 1) \div s
  BY DEF IdxOf, SegmentStartToInternalIdx
<1>. HIDE DEF a, p, s, c
<1>6. leaves * leaf_arity <= (c * p) * leaf_arity
  BY <1>0, <1>1, <1>4
<1>7. (c * p + 1 - p) * leaf_arity <= leaves * leaf_arity
  <2>1. c * p + 1 - p <= leaves /\ c * p + 1 - p \in Int
    BY <1>0, <1>1, <1>4
  <2>. QED  BY <1>0, <1>1, <1>4, <2>1
<1>8. s * (c - 1) <= leaves * leaf_arity - 1 /\ leaves * leaf_arity - 1 < s * (c - 1) + s
  <2>1. s * (c - 1) = (c * p) * leaf_arity - leaf_arity * p /\ s * (c - 1) + s = (c * p) * leaf_arity
    BY <1>0, <1>1, <1>2, <1>4
  <2>2. (c * p + 1 - p) * leaf_arity = (c * p) * leaf_arity + leaf_arity - leaf_arity * p
    BY <1>0, <1>1, <1>4
  <2>. QED  BY <1>0, <1>1, <1>4, <1>6, <1>7, <2>1, <2>2
<1>9. (leaves * leaf_arity - 1) \div s = c - 1
  <2>1. leaves * leaf_arity - 1 \in Int /\ c - 1 \in Int
    BY <1>0, <1>4
  <2>. QED  BY <1>1, <1>8, <2>1, DivUnique
<1>. QED  BY <1>3, <1>5, <1>9

\* segment_start_of_internal_proof_for_leaf_count and
\* segment_start_to_internal_idx_with_batch are inverse on every layer, and the
\* grouping of siblings by idx / internal_arity is the one of the segments.
THEOREM SlotsAndSegmentsAgreeHolds == Spec => []SlotsAndSegmentsAgree
<1>1. ASSUME Counts PROVE SlotsAndSegmentsAgree
  <2>1. \A layer \in 0..(Layers - 1) : layer \in Nat /\ \A idx \in 0..(NumAt(layer) - 1) : idx \in Nat
    OBVIOUS
  <2>. QED  BY <1>1, <2>1, SlotAgrees, LastSegmentInLastSlot DEF SlotsAndSegmentsAgree
<1>. QED  BY <1>1, CountsInvariant, PTL
=============================================================================
