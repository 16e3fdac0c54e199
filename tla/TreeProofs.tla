----------------------------- MODULE TreeProofs -----------------------------
(***************************************************************************)
(* Theorems about ProofTree, for every pair of arities and every segment   *)
(* count: each slot of the tree is requested once, when its children are   *)
(* there, and the last artifact covers every segment.                      *)
(***************************************************************************)
EXTENDS ProofTree, RecursionLemmas

(* The slots of the tree *)

\* Levels of the tree: segments (-2), leaf proofs (-1), internal layers (0, 1, ...).
Levels == {k \in Int : k >= -2}

\* The number of segments under a slot, and of children of a slot.
Span(k) == IF k = -2 THEN 1
           ELSE IF k = -1 THEN LeafArity
           ELSE Scaled(InternalArity * LeafArity, InternalArity, k)
Fan(k) == IF k = -1 THEN LeafArity ELSE InternalArity

\* A slot at level k starts at s; the last one of a level ends with the execution.
Aligned(k, s) == \E j \in Nat : s = j * Span(k)
EndOf(k, s) == IF s + Span(k) <= total THEN s + Span(k) - 1 ELSE total - 1

LEMMA SpanFacts ==
    ASSUME NEW k \in Levels
    PROVE  /\ Span(k) \in Nat \ {0}
           /\ Fan(k + 1) \in Nat \ {0}
           /\ Span(k + 1) = Fan(k + 1) * Span(k)
<1>. USE ArityAssumption
<1>0. InternalArity * LeafArity \in Nat \ {0}
  OBVIOUS
<1>1. CASE k = -2
  BY <1>1 DEF Span, Fan
<1>2. CASE k = -1
  BY <1>0, <1>2, ScaledRecursion DEF Span, Fan
<1>3. CASE k \in Nat
  <2>. DEFINE b == InternalArity * LeafArity
  <2>1. /\ Scaled(b, InternalArity, k) \in Nat \ {0}
        /\ Scaled(b, InternalArity, k + 1) = InternalArity * Scaled(b, InternalArity, k)
    BY <1>0, <1>3, ScaledRecursion
  <2>2. k # -2 /\ k # -1 /\ k + 1 # -2 /\ k + 1 # -1
    BY <1>3
  <2>3. Span(k) = Scaled(b, InternalArity, k) /\ Span(k + 1) = Scaled(b, InternalArity, k + 1)
        /\ Fan(k + 1) = InternalArity
    BY <2>2 DEF Span, Fan
  <2>. QED  BY <2>1, <2>3
<1>. QED  BY <1>1, <1>2, <1>3 DEF Levels

\* Slots of one level do not overlap.
LEMMA SlotsApart ==
    ASSUME NEW k \in Levels, NEW s, NEW t, Aligned(k, s), Aligned(k, t), s < t
    PROVE  s + Span(k) <= t
<1>1. PICK i \in Nat : s = i * Span(k)
  BY DEF Aligned
<1>2. PICK j \in Nat : t = j * Span(k)
  BY DEF Aligned
<1>. DEFINE p == Span(k)
<1>3. p \in Nat \ {0}
  BY SpanFacts
<1>. HIDE DEF p
<1>4. i * p < j * p
  BY <1>1, <1>2 DEF p
<1>5. i < j
  BY <1>3, <1>4
<1>6. (i + 1) * p <= j * p /\ (i + 1) * p = i * p + p
  BY <1>3, <1>5
<1>7. i * p + p <= j * p
  BY <1>6
<1>. QED  BY <1>1, <1>2, <1>7 DEF p

\* Every number is in a slot.
LEMMA SlotAround ==
    ASSUME NEW k \in Levels, NEW t \in Nat
    PROVE  \E s \in Nat : Aligned(k, s) /\ s <= t /\ t < s + Span(k)
<1>. DEFINE p == Span(k)
            j == t \div p
<1>1. p \in Nat \ {0}
  BY SpanFacts
<1>. HIDE DEF p
<1>2. j \in Nat /\ p * j <= t /\ t < p * j + p
  BY <1>1
<1>. HIDE DEF j
<1>3. j * p \in Nat /\ j * p <= t /\ t < j * p + p
  BY <1>1, <1>2
<1>. QED  BY <1>2, <1>3 DEF Aligned, p

LEMMA AlignedNat ==
    ASSUME NEW k \in Levels, NEW s, Aligned(k, s) PROVE s \in Nat
BY SpanFacts DEF Aligned

\* A slot starts where its first child does.
LEMMA AlignedBelow ==
    ASSUME NEW k \in Levels, NEW s, Aligned(k + 1, s) PROVE Aligned(k, s)
<1>1. PICK j \in Nat : s = j * Span(k + 1)
  BY DEF Aligned
<1>2. Span(k) \in Nat \ {0} /\ Fan(k + 1) \in Nat \ {0} /\ Span(k + 1) = Fan(k + 1) * Span(k)
  BY SpanFacts
<1>3. j * Fan(k + 1) \in Nat
  BY <1>2
<1>4. s = (j * Fan(k + 1)) * Span(k)
  BY <1>1, <1>2
<1>. QED  BY <1>3, <1>4 DEF Aligned

\* The segments of a slot.
LEMMA SlotRange ==
    ASSUME total \in Nat \ {0}, NEW k \in Levels, NEW s \in 0..(total - 1)
    PROVE  /\ EndOf(k, s) \in s..(total - 1)
           /\ \A t \in Int : t \in s..EndOf(k, s) <=> t \in 0..(total - 1) /\ s <= t /\ t < s + Span(k)
<1>1. Span(k) \in Nat \ {0}
  BY SpanFacts
<1>. HIDE DEF Span
<1>. QED  BY <1>1 DEF EndOf

LEMMA EndsMeet ==
    ASSUME total \in Nat \ {0}, NEW k \in Levels, NEW m \in Levels, NEW s \in Nat, NEW t \in Nat,
           \/ s + Span(k) = t + Span(m)
           \/ total <= s + Span(k) /\ total <= t + Span(m)
    PROVE  EndOf(k, s) = EndOf(m, t)
<1>1. Span(k) \in Nat /\ Span(m) \in Nat
  BY SpanFacts
<1>. HIDE DEF Span
<1>. QED  BY <1>1 DEF EndOf

\* The children first..last of a slot: either a whole group, or what is left of
\* the level.  They are all the slots below it, and its last segment is theirs.
LEMMA GroupOfSlot ==
    ASSUME total \in Nat \ {0}, NEW k \in Levels, NEW g \in Nat, NEW last \in Nat,
           g * Fan(k + 1) <= last, last * Span(k) < total,
           \/ last = g * Fan(k + 1) + Fan(k + 1) - 1
           \/ last < g * Fan(k + 1) + Fan(k + 1) - 1 /\ total <= (last + 1) * Span(k),
           NEW S, S = (g * Fan(k + 1)) * Span(k)
    PROVE  /\ Aligned(k + 1, S)
           /\ S \in 0..(total - 1)
           /\ last * Span(k) \in 0..(total - 1)
           /\ EndOf(k + 1, S) = EndOf(k, last * Span(k))
           /\ \A s \in 0..(total - 1) :
                 Aligned(k, s) /\ S <= s /\ s < S + Span(k + 1)
                   => \E i \in (g * Fan(k + 1))..last : s = i * Span(k)
<1>. DEFINE f == Fan(k + 1)
            p == Span(k)
            q == Span(k + 1)
            first == g * f
<1>1. p \in Nat \ {0} /\ f \in Nat \ {0} /\ q = f * p
  BY SpanFacts
<1>2. S = first * p /\ first <= last /\ last * p < total
      /\ \/ last = first + f - 1
         \/ last < first + f - 1 /\ total <= (last + 1) * p
  OBVIOUS
<1>. HIDE DEF f, p, q
<1>3. first \in Nat /\ last * p \in Nat /\ first * p \in Nat /\ first * p <= last * p
  BY <1>1, <1>2
<1>. HIDE DEF first
<1>4. Aligned(k + 1, S)
  <2>1. S = g * q
    BY <1>1, <1>2 DEF first
  <2>. QED  BY <2>1 DEF Aligned, q
<1>5. S \in 0..(total - 1) /\ last * p \in 0..(total - 1)
  BY <1>2, <1>3
<1>6. S + q = (first + f) * p
  BY <1>1, <1>2, <1>3
<1>7. S + q = last * p + p \/ (total <= S + q /\ total <= last * p + p)
  <2>1. last * p + p = (last + 1) * p
    BY <1>1
  <2>2. CASE last = first + f - 1
    <3>1. last + 1 = first + f
      BY <1>1, <1>3, <2>2
    <3>. QED  BY <1>6, <2>1, <3>1
  <2>3. CASE last < first + f - 1 /\ total <= (last + 1) * p
    <3>1. last + 1 <= first + f
      BY <1>1, <1>3, <2>3
    <3>2. (last + 1) * p <= (first + f) * p
      BY <1>1, <1>3, <3>1
    <3>. QED  BY <1>1, <1>3, <1>6, <2>1, <2>3, <3>2
  <2>. QED  BY <1>2, <2>2, <2>3
<1>9. EndOf(k + 1, S) = EndOf(k, last * p)
  <2>1. k + 1 \in Levels /\ S \in Nat /\ last * p \in Nat
    BY <1>2, <1>3 DEF Levels
  <2>2. \/ S + Span(k + 1) = last * p + Span(k)
        \/ total <= S + Span(k + 1) /\ total <= last * p + Span(k)
    BY <1>7 DEF p, q
  <2>. QED  BY <2>1, <2>2, EndsMeet
<1>8. ASSUME NEW s \in 0..(total - 1), Aligned(k, s), S <= s, s < S + q
      PROVE  \E i \in first..last : s = i * p
  <2>1. PICK i \in Nat : s = i * p
    BY <1>8 DEF Aligned, p
  <2>2. first <= i
    <3>1. first * p <= i * p
      BY <1>2, <1>8, <2>1
    <3>. QED  BY <1>1, <1>3, <3>1
  <2>3. i < first + f
    <3>1. i * p < (first + f) * p
      BY <1>6, <1>8, <2>1
    <3>. QED  BY <1>1, <1>3, <3>1
  <2>4. i <= last
    <3>1. CASE last = first + f - 1
      BY <1>1, <1>3, <2>3, <3>1
    <3>2. CASE total <= (last + 1) * p
      <4>1. i * p < (last + 1) * p
        BY <1>1, <1>8, <2>1, <3>2
      <4>2. i < last + 1
        BY <1>1, <4>1
      <4>. QED  BY <4>2
    <3>. QED  BY <1>2, <3>1, <3>2
  <2>. QED  BY <1>3, <2>1, <2>2, <2>4
<1>. QED  BY <1>4, <1>5, <1>8, <1>9 DEF f, p, q, first

\* The indices of recursion.rs name the slots.
LEMMA IndexOfSlot ==
    ASSUME NEW p, p.layer \in Nat, NEW j \in Nat, p.start = j * Span(p.layer)
    PROVE  SlotIdx(p) = j
<1>. DEFINE k == p.layer
            s == Span(k)
<1>1. k \in Levels /\ k # -1 /\ k # -2
  BY DEF Levels
<1>2. s \in Nat \ {0}
  BY <1>1, SpanFacts
<1>3. SlotIdx(p) = p.start \div s
  BY <1>1 DEF SlotIdx, SegmentStartToInternalIdx, Span
<1>4. p.start = j * s
  OBVIOUS
<1>. HIDE DEF s
<1>5. (j * s) \div s = j
  <2>1. j * s \in Int /\ s * j <= j * s /\ j * s < s * j + s
    BY <1>2
  <2>. QED  BY <1>2, <2>1, DivUnique
<1>. QED  BY <1>3, <1>4, <1>5

LEMMA StartOfSlot ==
    ASSUME NEW k \in Nat, NEW i \in Nat
    PROVE  SegmentStartOfInternalProof(LeafArity, InternalArity, k, i) = i * Span(k)
<1>. USE ArityAssumption
<1>. DEFINE c == Scaled(InternalArity, InternalArity, k)
<1>1. Scaled(LeafArity * InternalArity, InternalArity, k) = LeafArity * c
  BY ScaledFactor
<1>2. LeafArity * InternalArity = InternalArity * LeafArity
  OBVIOUS
<1>3. k # -1 /\ k # -2
  OBVIOUS
<1>4. Span(k) = LeafArity * c
  BY <1>1, <1>2, <1>3 DEF Span
<1>5. c \in Nat
  BY ScaledRecursion
<1>6. SegmentStartOfInternalProof(LeafArity, InternalArity, k, i) = i * c * LeafArity
  BY DEF SegmentStartOfInternalProof
<1>. HIDE DEF c
<1>7. i * c * LeafArity = i * (LeafArity * c)
  BY <1>5
<1>. QED  BY <1>4, <1>6, <1>7

\* The number of slots of a level.
NumSlots(n, k) == DivCeil(n, Span(k))

LEMMA SlotCount ==
    ASSUME NEW n \in Nat \ {0}, NEW k \in Levels
    PROVE  /\ NumSlots(n, k) \in Nat \ {0}
           /\ (NumSlots(n, k) - 1) * Span(k) < n
           /\ n <= NumSlots(n, k) * Span(k)
<1>. DEFINE s == Span(k)
            c == DivCeil(n, s)
<1>1. s \in Nat \ {0}
  BY SpanFacts
<1>2. c \in Nat /\ c * s < n + s /\ n <= c * s
  BY <1>1, DivCeilBounds
<1>. HIDE DEF c, s
<1>3. c # 0 /\ (c - 1) * s < n
  BY <1>1, <1>2
<1>. QED  BY <1>2, <1>3 DEF NumSlots, c, s

\* The code's layer counts are those of the slots, as far as the tree goes.
LEMMA LayersOfTree ==
    ASSUME NEW n \in Nat \ {0}
    PROVE  /\ NumLeafProofs(n) = NumSlots(n, -1)
           /\ LayersFor(n) \in Nat \ {0}
           /\ n <= Span(LayersFor(n) - 1)
           /\ LayersFor(n) > 1 =>
                \A k \in 0..(LayersFor(n) - 1) :
                   NumProofsAtInternalLayer(NumLeafProofs(n), k, InternalArity) = NumSlots(n, k)
<1>. USE ArityAssumption
<1>. DEFINE a == InternalArity
            leaves == NumLeafProofs(n)
            L == NumInternalLayers(leaves, a)
<1>1. leaves = NumSlots(n, -1)
  BY DEF NumLeafProofs, NumSlots, Span
<1>2. leaves \in Nat \ {0} /\ n <= leaves * LeafArity
  BY <1>1, SlotCount DEF Levels, Span
<1>3. LayersFor(n) = L /\ L \in Nat \ {0}
  BY <1>2, LayersRecursion DEF LayersFor
<1>4. ASSUME NEW k \in Nat PROVE DivCeil(leaves, Scaled(a, a, k)) = NumSlots(n, k)
  <2>1. Scaled(LeafArity * a, a, k) = LeafArity * Scaled(a, a, k)
    BY ScaledFactor
  <2>2. LeafArity * a = a * LeafArity
    OBVIOUS
  <2>3. k # -1 /\ k # -2
    OBVIOUS
  <2>4. Span(k) = LeafArity * Scaled(a, a, k)
    BY <2>1, <2>2, <2>3 DEF Span
  <2>5. Scaled(a, a, k) \in Nat \ {0}
    BY ScaledRecursion
  <2>6. leaves = DivCeil(n, LeafArity)
    BY DEF NumLeafProofs
  <2>. QED  BY <2>4, <2>5, <2>6, DivCeilNested DEF NumSlots
<1>. HIDE DEF leaves, L
<1>5. leaves <= 1 => L = 1
  BY <1>2, LayersRecursion DEF L
<1>6. leaves > 1 => /\ \A k \in 0..(L - 1) : NumProofsAtInternalLayer(leaves, k, a) = NumSlots(n, k)
                    /\ NumSlots(n, L - 1) = 1
  <2>. SUFFICES ASSUME leaves > 1
                PROVE  /\ \A k \in 0..(L - 1) : NumProofsAtInternalLayer(leaves, k, a) = NumSlots(n, k)
                       /\ NumSlots(n, L - 1) = 1
    OBVIOUS
  <2>1. /\ \A k \in 0..(L - 1) : NumProofsAtInternalLayer(leaves, k, a) = DivCeil(leaves, Scaled(a, a, k))
        /\ NumProofsAtInternalLayer(leaves, L - 1, a) = 1
    BY <1>2, LayerCounts DEF L
  <2>2. \A k \in 0..(L - 1) : NumProofsAtInternalLayer(leaves, k, a) = NumSlots(n, k)
    BY <1>4, <2>1
  <2>3. L - 1 \in 0..(L - 1)
    BY <1>3
  <2>. QED  BY <2>1, <2>2, <2>3
<1>7. n <= Span(L - 1)
  <2>1. L - 1 \in Levels
    BY <1>3 DEF Levels
  <2>2. CASE leaves > 1
    <3>1. NumSlots(n, L - 1) = 1
      BY <1>6, <2>2
    <3>2. n <= 1 * Span(L - 1) /\ Span(L - 1) \in Nat
      BY <2>1, <3>1, SlotCount, SpanFacts
    <3>. QED  BY <3>2
  <2>3. CASE leaves <= 1
    <3>1. L - 1 = 0 /\ leaves = 1
      BY <1>2, <1>5, <2>3
    <3>2. Span(0) = Fan(0) * Span(-1) /\ Fan(0) = a /\ Span(-1) = LeafArity
      <4>1. -1 \in Levels /\ -1 + 1 = 0
        BY DEF Levels
      <4>2. Span(0) = Fan(0) * Span(-1)
        BY <4>1, SpanFacts
      <4>. QED  BY <4>2 DEF Fan, Span
    <3>3. n <= LeafArity
      BY <1>2, <3>1
    <3>4. LeafArity <= a * LeafArity
      OBVIOUS
    <3>. QED  BY <3>1, <3>2, <3>3, <3>4
  <2>. QED  BY <1>2, <2>2, <2>3
<1>8. L > 1 => leaves > 1
  BY <1>2, <1>5
<1>. QED  BY <1>1, <1>3, <1>6, <1>7, <1>8 DEF leaves

\* The final layer spans the whole execution.
LEMMA FinalLayerCovers ==
    ASSUME NEW n \in Nat \ {0}
    PROVE  /\ EffectiveFinalLayer(n) \in Nat \ {0}
           /\ EffectiveFinalLayer(n) >= LayersFor(n) - 1
           /\ n <= Span(EffectiveFinalLayer(n))
<1>. DEFINE L == LayersFor(n)
<1>1. L \in Nat \ {0} /\ n <= Span(L - 1)
  BY LayersOfTree
<1>. HIDE DEF L
<1>2. CASE L >= 2
  <2>1. EffectiveFinalLayer(n) = L - 1
    BY <1>1, <1>2 DEF EffectiveFinalLayer, L
  <2>. QED  BY <1>1, <1>2, <2>1 DEF L
<1>3. CASE L = 1
  <2>1. EffectiveFinalLayer(n) = 1
    BY <1>3 DEF EffectiveFinalLayer, L
  <2>2. Span(1) = Fan(1) * Span(0) /\ Fan(1) \in Nat \ {0} /\ Span(0) \in Nat
    <3>1. 0 \in Levels /\ 0 + 1 = 1
      BY DEF Levels
    <3>. QED  BY <3>1, SpanFacts
  <2>3. n <= Span(0)
    BY <1>1, <1>3
  <2>4. Span(0) <= Fan(1) * Span(0)
    BY <2>2
  <2>5. n <= Span(1)
    BY <2>2, <2>3, <2>4
  <2>. QED  BY <1>3, <2>1, <2>5 DEF L
<1>. QED  BY <1>1, <1>2, <1>3
-----------------------------------------------------------------------------
(* The inductive invariant *)

Asked == BagToSet(asked)
Level(w) == IF w.step = "LeafProve" THEN -1 ELSE w.layer

\* A proof of the slot at level k that starts at s has arrived.
Has(k, s) ==
    \/ k = -2 /\ s \in app_proofs
    \/ k = -1 /\ \E p \in leaf_proofs : p.start = s
    \/ k \in Nat /\ \E p \in internal_proofs : p.layer = k /\ p.start = s

\* A request names a slot of the tree and its segments.
WellFormed(w) ==
    /\ w \in [step : {"LeafProve", "InternalProve"}, layer : 0..EffectiveFinalLayer(total),
              start : 0..(total - 1), end : 0..(total - 1), final : BOOLEAN]
    /\ w.step = "LeafProve" => w.layer = 0
    /\ Aligned(Level(w), w.start)
    /\ w.end = EndOf(Level(w), w.start)

\* The slots under a request, of all lower levels, have their proofs.
Backed(w) ==
    \A m \in (-2)..(Level(w) - 1) : \A s \in w.start..w.end : Aligned(m, s) => Has(m, s)

SameSlot(v, w) == v.step = w.step /\ v.layer = w.layer /\ v.start = w.start

Basics ==
    /\ total \in SegmentCounts
    /\ e2First \in BOOLEAN
    /\ e2Unsent \in BOOLEAN
    /\ status = "InProgress"
    /\ num_segments = IF e2Unsent THEN None ELSE total
    /\ app_proofs \subseteq 0..(total - 1)
    /\ unsent \subseteq (0..(total - 1)) \ app_proofs
    /\ evm_proof \in BOOLEAN
    /\ requested \subseteq Asked
    /\ asked = SetToBag(Asked)

\* What is asked for are slots, each one once; while the segment count is not
\* known, only whole ones.
AskedInv ==
    /\ \A w \in Asked : w = EvmRequest \/ WellFormed(w)
    /\ \A v, w \in Asked : SameSlot(v, w) => v = w
    /\ e2Unsent => \A w \in Asked : WellFormed(w) /\ w.start + Span(Level(w)) <= total
    /\ EvmRequest \in Asked => ProofType = "Evm" /\ FinalInternalProofPresent

BackedInv == \A w \in Asked : w.step # "EvmProve" => Backed(w)

\* What has arrived was asked for, and is not asked for any more.
StoredInv ==
    /\ \A p \in leaf_proofs :
          \E w \in Asked \ requested : w.step = "LeafProve" /\ p = LeafOf(w)
    /\ \A p \in internal_proofs :
          \E w \in Asked \ requested : w.step = "InternalProve" /\ p = InternalOf(w)
    /\ evm_proof => EvmRequest \in Asked \ requested

FlagInv ==
    e2First =>
      /\ e2Unsent => leaf_proofs = {} /\ \A w \in Asked : w.step = "LeafProve"
      /\ \A w \in Asked : w.step = "InternalProve" =>
            (w.final <=> w.layer = EffectiveFinalLayer(total))

TreeInv == Basics /\ AskedInv /\ BackedInv /\ StoredInv /\ FlagInv
-----------------------------------------------------------------------------
(* What the invariant says *)

LEMMA WellFormedFacts ==
    ASSUME TreeInv, NEW w, WellFormed(w)
    PROVE  /\ total \in Nat \ {0}
           /\ EffectiveFinalLayer(total) \in Nat \ {0}
           /\ w.step \in {"LeafProve", "InternalProve"}
           /\ w.layer \in Nat
           /\ w.layer <= EffectiveFinalLayer(total)
           /\ w.start \in 0..(total - 1)
           /\ w.final \in BOOLEAN
           /\ w.start <= w.end /\ w.end \in 0..(total - 1)
           /\ Level(w) \in Levels /\ Level(w) >= -1
           /\ Aligned(Level(w), w.start)
           /\ w.end = EndOf(Level(w), w.start)
           /\ \A t \in Int : t \in w.start..w.end <=>
                 t \in 0..(total - 1) /\ w.start <= t /\ t < w.start + Span(Level(w))
<1>1. total \in Nat \ {0}
  BY TreeAssumption DEF TreeInv, Basics
<1>2. EffectiveFinalLayer(total) \in Nat \ {0}
  BY <1>1, FinalLayerCovers
<1>3. /\ w.step \in {"LeafProve", "InternalProve"} /\ w.layer \in 0..EffectiveFinalLayer(total)
      /\ w.start \in 0..(total - 1) /\ w.end \in 0..(total - 1) /\ w.final \in BOOLEAN
  BY DEF WellFormed
<1>4. w.layer \in Nat /\ w.layer <= EffectiveFinalLayer(total)
  BY <1>2, <1>3
<1>5. Level(w) \in Levels /\ Level(w) >= -1
  BY <1>4 DEF Level, Levels
<1>6. Aligned(Level(w), w.start) /\ w.end = EndOf(Level(w), w.start)
  BY DEF WellFormed
<1>7. w.end \in w.start..(total - 1)
      /\ \A t \in Int : t \in w.start..w.end <=>
                 t \in 0..(total - 1) /\ w.start <= t /\ t < w.start + Span(Level(w))
  BY <1>1, <1>3, <1>5, <1>6, SlotRange
<1>8. w.start <= w.end
  BY <1>1, <1>3, <1>7
<1>. QED  BY <1>1, <1>2, <1>3, <1>4, <1>5, <1>6, <1>7, <1>8

\* Work other than the EVM step names a slot.
LEMMA AskedIsTree ==
    ASSUME TreeInv, NEW w \in Asked
    PROVE  /\ w.step = "EvmProve" <=> w = EvmRequest
           /\ w.step # "EvmProve" <=> WellFormed(w)
<1>1. w = EvmRequest \/ WellFormed(w)
  BY DEF TreeInv, AskedInv
<1>2. w = EvmRequest => w.step = "EvmProve"
  BY DEF EvmRequest
<1>3. WellFormed(w) => w.step \in {"LeafProve", "InternalProve"}
  BY DEF WellFormed
<1>4. "LeafProve" # "EvmProve" /\ "InternalProve" # "EvmProve"
  OBVIOUS
<1>. QED  BY <1>1, <1>2, <1>3, <1>4

\* A proof that is there was asked for, as the slot it is.
LEMMA HasWasAsked ==
    ASSUME TreeInv, NEW k \in Levels, NEW s, Has(k, s), k # -2
    PROVE  \E w \in Asked \ requested : WellFormed(w) /\ Level(w) = k /\ w.start = s
<1>1. CASE k = -1
  <2>1. PICK p \in leaf_proofs : p.start = s
    BY <1>1 DEF Has
  <2>2. PICK w \in Asked \ requested : w.step = "LeafProve" /\ p = LeafOf(w)
    BY DEF TreeInv, StoredInv
  <2>3. WellFormed(w)
    BY <2>2, AskedIsTree
  <2>. QED  BY <1>1, <2>1, <2>2, <2>3 DEF LeafOf, Level
<1>2. CASE k # -1
  <2>1. PICK p \in internal_proofs : p.layer = k /\ p.start = s
    BY <1>2 DEF Has
  <2>2. PICK w \in Asked \ requested : w.step = "InternalProve" /\ p = InternalOf(w)
    BY DEF TreeInv, StoredInv
  <2>3. WellFormed(w)
    BY <2>2, AskedIsTree
  <2>. QED  BY <2>1, <2>2, <2>3 DEF InternalOf, Level
<1>. QED  BY <1>1, <1>2

\* A level and a start name one request.
LEMMA SlotNamesWork ==
    ASSUME TreeInv, NEW v \in Asked, NEW w \in Asked, WellFormed(v), WellFormed(w),
           Level(v) = Level(w), v.start = w.start
    PROVE  v = w
<1>1. v.layer \in Nat /\ w.layer \in Nat /\ v.step \in {"LeafProve", "InternalProve"}
      /\ w.step \in {"LeafProve", "InternalProve"}
  BY WellFormedFacts
<1>2. (v.step = "LeafProve" => v.layer = 0) /\ (w.step = "LeafProve" => w.layer = 0)
  BY DEF WellFormed
<1>3. SameSlot(v, w)
  BY <1>1, <1>2 DEF SameSlot, Level
<1>. QED  BY <1>3 DEF TreeInv, AskedInv

\* What is still asked for has not arrived.
LEMMA RequestedIsOpen ==
    ASSUME TreeInv, NEW w \in requested, WellFormed(w)
    PROVE  ~Has(Level(w), w.start)
<1>1. w \in Asked
  BY DEF TreeInv, Basics
<1>2. Level(w) \in Levels /\ Level(w) # -2
  BY WellFormedFacts
<1>3. ASSUME Has(Level(w), w.start) PROVE FALSE
  <2>1. PICK v \in Asked \ requested : WellFormed(v) /\ Level(v) = Level(w) /\ v.start = w.start
    BY <1>2, <1>3, HasWasAsked
  <2>2. v = w
    BY <1>1, <2>1, SlotNamesWork
  <2>. QED  BY <2>1, <2>2
<1>. QED  BY <1>3

\* Index 0 of the final layer is the slot of all segments.
LEMMA FinalSlot ==
    ASSUME TreeInv, NEW w \in Asked, WellFormed(w), w.layer = EffectiveFinalLayer(total)
    PROVE  w.step = "InternalProve" /\ w.start = 0 /\ w.end = total - 1
<1>1. total \in Nat \ {0} /\ EffectiveFinalLayer(total) \in Nat \ {0}
      /\ total <= Span(EffectiveFinalLayer(total))
  BY WellFormedFacts, FinalLayerCovers
<1>2. w.step = "InternalProve" /\ Level(w) = EffectiveFinalLayer(total)
  BY <1>1, WellFormedFacts DEF WellFormed, Level
<1>3. Level(w) \in Levels /\ Aligned(Level(w), w.start) /\ w.start \in 0..(total - 1)
  BY WellFormedFacts
<1>4. Aligned(Level(w), 0) /\ Span(Level(w)) \in Nat
  <2>1. Span(Level(w)) \in Nat
    BY <1>3, SpanFacts
  <2>2. 0 = 0 * Span(Level(w))
    BY <2>1
  <2>. QED  BY <2>1, <2>2 DEF Aligned
<1>5. w.start = 0
  <2>1. 0 < w.start => 0 + Span(Level(w)) <= w.start
    BY <1>3, <1>4, SlotsApart
  <2>. QED  BY <1>1, <1>2, <1>3, <1>4, <2>1
<1>6. total - 1 \in w.start..w.end
  <2>1. \A t \in Int : t \in w.start..w.end <=>
                 t \in 0..(total - 1) /\ w.start <= t /\ t < w.start + Span(Level(w))
    BY WellFormedFacts
  <2>2. total - 1 \in Int /\ total - 1 \in 0..(total - 1) /\ w.start <= total - 1
        /\ total - 1 < w.start + Span(Level(w))
    BY <1>1, <1>2, <1>4, <1>5
  <2>. QED  BY <2>1, <2>2
<1>7. w.end = total - 1
  <2>1. w.end \in 0..(total - 1)
    BY WellFormedFacts
  <2>. QED  BY <1>1, <1>5, <1>6, <2>1
<1>. QED  BY <1>2, <1>5, <1>7

\* The presence test of the final internal proof finds a proof of all segments.
LEMMA FinalPresent ==
    ASSUME TreeInv, FinalInternalProofPresent
    PROVE  /\ ~e2Unsent
           /\ \E w \in Asked \ requested :
                 /\ WellFormed(w) /\ w.step = "InternalProve" /\ InternalOf(w) \in internal_proofs
                 /\ w.layer = EffectiveFinalLayer(total) /\ w.start = 0 /\ w.end = total - 1
<1>1. num_segments = total /\ ~e2Unsent
  BY DEF TreeInv, Basics, FinalInternalProofPresent
<1>2. PICK p \in internal_proofs : p.layer = EffectiveFinalLayer(total)
  BY <1>1 DEF FinalInternalProofPresent
<1>3. PICK w \in Asked \ requested : w.step = "InternalProve" /\ p = InternalOf(w)
  BY DEF TreeInv, StoredInv
<1>4. WellFormed(w) /\ w.layer = EffectiveFinalLayer(total)
  BY <1>2, <1>3, AskedIsTree DEF InternalOf
<1>. QED  BY <1>1, <1>3, <1>4, FinalSlot

\* Once the final internal proof is there, nothing is left to come but the EVM
\* step: every other slot of the tree was needed for it.
LEMMA FinalIsLast ==
    ASSUME TreeInv, FinalInternalProofPresent PROVE requested \subseteq {EvmRequest}
<1>0. total \in Nat \ {0} /\ requested \subseteq Asked
  BY TreeAssumption DEF TreeInv, Basics
<1>2. PICK w \in Asked \ requested :
                 /\ WellFormed(w) /\ w.step = "InternalProve" /\ InternalOf(w) \in internal_proofs
                 /\ w.layer = EffectiveFinalLayer(total) /\ w.start = 0 /\ w.end = total - 1
  BY FinalPresent
<1>3. Level(w) = EffectiveFinalLayer(total) /\ Level(w) \in Nat \ {0}
  BY <1>2, WellFormedFacts DEF Level
<1>4. \A m \in (-2)..(Level(w) - 1) : \A s \in 0..(total - 1) : Aligned(m, s) => Has(m, s)
  <2>1. Backed(w)
    BY <1>2 DEF TreeInv, BackedInv
  <2>. QED  BY <1>2, <2>1 DEF Backed
<1>5. ASSUME NEW q \in requested, WellFormed(q) PROVE FALSE
  <2>1. /\ Level(q) \in Levels /\ Level(q) >= -1 /\ q.start \in 0..(total - 1)
        /\ Aligned(Level(q), q.start) /\ q.layer <= EffectiveFinalLayer(total) /\ q.layer \in Nat
        /\ q.step \in {"LeafProve", "InternalProve"}
    BY <1>5, WellFormedFacts
  <2>2. ~Has(Level(q), q.start)
    BY <1>5, RequestedIsOpen
  <2>3. CASE Level(q) < Level(w)
    <3>1. Level(q) \in (-2)..(Level(w) - 1)
      BY <1>3, <2>1, <2>3 DEF Levels
    <3>. QED  BY <1>4, <2>1, <2>2, <3>1
  <2>4. CASE Level(q) = Level(w)
    <3>1. q.layer = EffectiveFinalLayer(total)
      BY <1>3, <2>1, <2>4 DEF Level
    <3>2. q.start = 0
      BY <1>0, <1>5, <3>1, FinalSlot
    <3>3. q = w
      BY <1>0, <1>2, <1>5, <2>4, <3>2, SlotNamesWork
    <3>. QED  BY <1>2, <3>3
  <2>5. Level(q) <= Level(w)
    BY <1>3, <2>1 DEF Level
  <2>6. Level(q) < Level(w) \/ Level(q) = Level(w)
    BY <1>3, <2>1, <2>5 DEF Levels
  <2>. QED  BY <2>3, <2>4, <2>6
<1>. QED  BY <1>0, <1>5 DEF TreeInv, AskedInv

\* FinalProofCoversAll follows: the final request was backed on every level.
LEMMA FinalCovers ==
    ASSUME TreeInv PROVE FinalProofCoversAll
<1>. SUFFICES ASSUME IsReadyForFinalization
              PROVE  /\ app_proofs = 0..(total - 1)
                     /\ \E p \in internal_proofs :
                           p.layer = EffectiveFinalLayer(total) /\ p.start = 0 /\ p.end = total - 1
                     /\ requested = {}
  BY DEF FinalProofCoversAll
<1>0. total \in Nat \ {0} /\ app_proofs \subseteq 0..(total - 1) /\ requested \subseteq Asked
  BY TreeAssumption DEF TreeInv, Basics
<1>1. FinalInternalProofPresent
  BY DEF IsReadyForFinalization, TreeInv, StoredInv, AskedInv
<1>2. PICK w \in Asked \ requested :
                 /\ WellFormed(w) /\ w.step = "InternalProve" /\ InternalOf(w) \in internal_proofs
                 /\ w.layer = EffectiveFinalLayer(total) /\ w.start = 0 /\ w.end = total - 1
  BY <1>1, FinalPresent
<1>3. Level(w) = EffectiveFinalLayer(total) /\ Level(w) \in Nat \ {0}
  BY <1>2, WellFormedFacts DEF Level
<1>4. \A m \in (-2)..(Level(w) - 1) : \A s \in 0..(total - 1) : Aligned(m, s) => Has(m, s)
  <2>1. Backed(w)
    BY <1>2 DEF TreeInv, BackedInv
  <2>. QED  BY <1>2, <2>1 DEF Backed
<1>5. ASSUME NEW s \in 0..(total - 1) PROVE s \in app_proofs
  <2>1. -2 \in (-2)..(Level(w) - 1)
    BY <1>3
  <2>2. Aligned(-2, s)
    <3>1. s \in Nat /\ s = s * 1
      BY <1>0
    <3>. QED  BY <3>1 DEF Aligned, Span
  <2>3. Has(-2, s)
    BY <1>4, <2>1, <2>2
  <2>. QED  BY <2>3 DEF Has
<1>6. ASSUME NEW q \in requested PROVE FALSE
  <2>1. CASE q = EvmRequest
    <3>1. EvmRequest \in Asked
      BY <1>0, <2>1
    <3>2. ProofType = "Evm"
      BY <3>1 DEF TreeInv, AskedInv
    <3>3. evm_proof
      BY <3>2 DEF IsReadyForFinalization
    <3>. QED  BY <2>1, <3>3 DEF TreeInv, StoredInv
  <2>. QED  BY <1>1, <2>1, FinalIsLast
<1>7. InternalOf(w).layer = w.layer /\ InternalOf(w).start = w.start /\ InternalOf(w).end = w.end
  BY DEF InternalOf
<1>. QED  BY <1>0, <1>2, <1>5, <1>6, <1>7

\* A sealed proof has nothing left to come.
LEMMA SealedIsDone ==
    ASSUME TreeInv, IsSealedForResults
    PROVE  unsent = {} /\ ~e2Unsent /\ requested = {}
<1>1. IsReadyForFinalization
  BY DEF IsSealedForResults, TreeInv, Basics
<1>2. app_proofs = 0..(total - 1) /\ requested = {}
  BY <1>1, FinalCovers DEF FinalProofCoversAll
<1>3. FinalInternalProofPresent
  BY <1>1 DEF IsReadyForFinalization, TreeInv, StoredInv, AskedInv
<1>4. ~e2Unsent
  BY <1>3, FinalPresent
<1>. QED  BY <1>2, <1>4 DEF TreeInv, Basics

\* RequestsAreBacked follows: the children of a slot tile it.
LEMMA BackedByChildren ==
    ASSUME TreeInv PROVE RequestsAreBacked
<1>. SUFFICES ASSUME NEW w \in requested
              PROVE  CASE w.step = "LeafProve" -> w.start..w.end \subseteq app_proofs
                       [] w.step = "InternalProve" ->
                            LET below == IF w.layer = 0 THEN leaf_proofs
                                         ELSE {p \in internal_proofs : p.layer = w.layer - 1}
                                kids  == {p \in below : p.start \in w.start..w.end}
                            IN  /\ kids # {}
                                /\ Ranges(kids) = w.start..w.end
                       [] w.step = "EvmProve" -> FinalInternalProofPresent
  BY DEF RequestsAreBacked
<1>0. w \in Asked /\ total \in Nat \ {0}
  BY TreeAssumption DEF TreeInv, Basics
<1>1. CASE w.step = "EvmProve"
  <2>1. w = EvmRequest
    BY <1>0, <1>1, AskedIsTree
  <2>. QED  BY <1>0, <1>1, <2>1 DEF TreeInv, AskedInv
<1>2. CASE w.step = "LeafProve"
  <2>1. WellFormed(w) /\ Backed(w) /\ Level(w) = -1
    BY <1>0, <1>2, AskedIsTree DEF TreeInv, BackedInv, Level
  <2>2. w.start \in Nat /\ -2 \in (-2)..(-1 - 1)
    BY <2>1, WellFormedFacts
  <2>3. ASSUME NEW s \in w.start..w.end PROVE s \in app_proofs
    <3>1. s \in Nat /\ s = s * 1
      BY <2>1, <2>2, WellFormedFacts
    <3>2. Aligned(-2, s)
      BY <3>1 DEF Aligned, Span
    <3>3. Has(-2, s)
      BY <2>1, <2>2, <3>2 DEF Backed
    <3>. QED  BY <3>3 DEF Has
  <2>. QED  BY <1>2, <2>3
<1>3. CASE w.step = "InternalProve"
  <2>. DEFINE below == IF w.layer = 0 THEN leaf_proofs
                       ELSE {p \in internal_proofs : p.layer = w.layer - 1}
              kids == {p \in below : p.start \in w.start..w.end}
              k == w.layer - 1
  <2>1. WellFormed(w) /\ Backed(w) /\ Level(w) = w.layer /\ w.layer \in Nat
    BY <1>0, <1>3, AskedIsTree, WellFormedFacts DEF TreeInv, BackedInv, Level
  <2>2. k \in Levels /\ k # -2 /\ k \in (-2)..(Level(w) - 1) /\ k + 1 = w.layer
    BY <2>1 DEF Levels
  <2>3. /\ w.start \in 0..(total - 1) /\ w.start <= w.end /\ w.end \in 0..(total - 1)
        /\ Aligned(k + 1, w.start)
        /\ \A t \in Int : t \in w.start..w.end <=>
                 t \in 0..(total - 1) /\ w.start <= t /\ t < w.start + Span(k + 1)
    BY <2>1, <2>2, WellFormedFacts
  <2>4. Aligned(k, w.start)
    BY <2>2, <2>3, AlignedBelow
  <2>5. \A s \in w.start..w.end : Aligned(k, s) => Has(k, s)
    BY <2>1, <2>2 DEF Backed
  <2>. HIDE DEF k
  <2>6. ASSUME NEW s, Has(k, s) PROVE \E p \in below : p.start = s
    <3>1. CASE w.layer = 0
      BY <2>1, <2>2, <2>6, <3>1 DEF Has
    <3>2. CASE w.layer # 0
      <4>1. k \in Nat /\ k = w.layer - 1
        BY <2>1, <3>2 DEF k
      <4>. QED  BY <2>6, <3>2, <4>1 DEF Has
    <3>. QED  BY <3>1, <3>2
  <2>7. ASSUME NEW p \in below
        PROVE  p.start \in Nat /\ p.start \in 0..(total - 1) /\ Aligned(k, p.start) /\ p.end = EndOf(k, p.start)
    <3>1. CASE w.layer = 0
      <4>1. PICK v \in Asked \ requested : v.step = "LeafProve" /\ p = LeafOf(v)
        BY <2>7, <3>1 DEF TreeInv, StoredInv
      <4>2. WellFormed(v) /\ Level(v) = k
        BY <2>1, <2>2, <3>1, <4>1, AskedIsTree DEF Level
      <4>. QED  BY <4>1, <4>2, WellFormedFacts DEF LeafOf
    <3>2. CASE w.layer # 0
      <4>0. p.layer = k
        BY <2>7, <3>2 DEF k
      <4>1. PICK v \in Asked \ requested : v.step = "InternalProve" /\ p = InternalOf(v)
        BY <2>7, <3>2 DEF TreeInv, StoredInv
      <4>2. WellFormed(v) /\ Level(v) = k
        BY <4>0, <4>1, AskedIsTree DEF Level, InternalOf
      <4>. QED  BY <4>1, <4>2, WellFormedFacts DEF InternalOf
    <3>. QED  BY <3>1, <3>2
  <2>. HIDE DEF below
  <2>8. kids # {}
    <3>1. w.start \in w.start..w.end
      BY <1>0, <2>3
    <3>2. PICK p \in below : p.start = w.start
      BY <2>4, <2>5, <2>6, <3>1
    <3>. QED  BY <3>1, <3>2
  <2>9. ASSUME NEW p \in kids PROVE p.start..p.end \subseteq w.start..w.end
    <3>1. SUFFICES ASSUME NEW t \in p.start..p.end PROVE t \in w.start..w.end
      OBVIOUS
    <3>2. /\ p.start \in 0..(total - 1) /\ Aligned(k, p.start) /\ p.start \in w.start..w.end
          /\ p.end = EndOf(k, p.start) /\ p.start \in Nat
      BY <2>7, <2>9
    <3>3. EndOf(k, p.start) \in p.start..(total - 1)
          /\ \A u \in Int : u \in p.start..EndOf(k, p.start) <=>
               u \in 0..(total - 1) /\ p.start <= u /\ u < p.start + Span(k)
      BY <1>0, <2>2, <3>2, SlotRange
    <3>4. t \in Int
      BY <3>1
    <3>5. t \in 0..(total - 1) /\ p.start <= t /\ t < p.start + Span(k)
      BY <3>1, <3>2, <3>3, <3>4
    <3>6. p.start + Span(k) <= w.start + Span(k + 1)
      <4>1. Aligned(k + 1, w.start + Span(k + 1)) /\ w.start + Span(k + 1) \in Nat
        <5>1. PICK j \in Nat : w.start = j * Span(k + 1)
          BY <2>3 DEF Aligned
        <5>2. k + 1 \in Levels
          BY <2>2 DEF Levels
        <5>3. Span(k + 1) \in Nat
          BY <5>2, SpanFacts
        <5>4. w.start + Span(k + 1) = (j + 1) * Span(k + 1) /\ j + 1 \in Nat
          BY <5>1, <5>3
        <5>. QED  BY <2>3, <5>3, <5>4 DEF Aligned
      <4>2. Aligned(k, w.start + Span(k + 1))
        BY <2>2, <4>1, AlignedBelow
      <4>3. p.start < w.start + Span(k + 1)
        BY <2>3, <3>2
      <4>. QED  BY <2>2, <3>2, <4>2, <4>3, SlotsApart
    <3>7. w.start <= t
      BY <2>3, <3>2, <3>4, <3>5
    <3>8. t < w.start + Span(k + 1)
      <4>1. Span(k) \in Nat /\ Span(k + 1) \in Nat
        <5>1. k + 1 \in Levels
          BY <2>2 DEF Levels
        <5>. QED  BY <2>2, <5>1, SpanFacts
      <4>. QED  BY <2>3, <3>2, <3>4, <3>5, <3>6, <4>1
    <3>. QED  BY <2>3, <3>4, <3>5, <3>7, <3>8
  <2>10. ASSUME NEW t \in w.start..w.end PROVE \E p \in kids : t \in p.start..p.end
    <3>1. t \in Nat /\ t \in 0..(total - 1) /\ w.start <= t
      BY <1>0, <2>3, <2>10
    <3>2. PICK s \in Nat : Aligned(k, s) /\ s <= t /\ t < s + Span(k)
      BY <2>2, <3>1, SlotAround
    <3>3. w.start <= s
      <4>1. s < w.start => s + Span(k) <= w.start
        BY <2>2, <2>4, <3>2, SlotsApart
      <4>2. Span(k) \in Nat
        BY <2>2, SpanFacts
      <4>. QED  BY <2>3, <3>1, <3>2, <4>1, <4>2
    <3>4. s \in w.start..w.end
      BY <2>3, <2>10, <3>1, <3>2, <3>3
    <3>5. PICK p \in below : p.start = s
      BY <2>5, <2>6, <3>2, <3>4
    <3>6. p \in kids /\ p.end = EndOf(k, s) /\ s \in 0..(total - 1)
      BY <2>7, <3>4, <3>5
    <3>7. t \in s..EndOf(k, s)
      BY <1>0, <2>2, <3>1, <3>2, <3>6, SlotRange
    <3>. QED  BY <3>5, <3>6, <3>7
  <2>. HIDE DEF kids
  <2>11. Ranges(kids) = w.start..w.end
    BY <2>9, <2>10 DEF Ranges
  <2>12. kids # {} /\ Ranges(kids) = w.start..w.end
    BY <2>8, <2>11
  <2>. QED  BY <1>3, <2>12 DEF kids, below
<1>. QED  BY <1>0, <1>1, <1>2, <1>3, AskedIsTree, WellFormedFacts
-----------------------------------------------------------------------------
(* Steps *)

\* A new request for a slot, in the state after the result is stored.
NewSlot(w) ==
    /\ WellFormed(w)
    /\ Backed(w)'
    /\ e2Unsent' => w.start + Span(Level(w)) <= total
    /\ \A v \in Asked : ~SameSlot(v, w)
    /\ e2First /\ w.step = "InternalProve" =>
         ~e2Unsent' /\ (w.final <=> w.layer = EffectiveFinalLayer(total))

\* A new request for the EVM step.
NewEvm(w) ==
    /\ w = EvmRequest
    /\ EvmRequest \notin Asked
    /\ ProofType = "Evm"
    /\ FinalInternalProofPresent'
    /\ ~e2Unsent'

\* What a step does apart from its requests: results are only added.
Progress(done) ==
    /\ total' = total /\ e2First' = e2First /\ status' = status
    /\ e2Unsent' \in BOOLEAN /\ (e2Unsent' => e2Unsent)
    /\ num_segments' = IF e2Unsent' THEN None ELSE total
    /\ app_proofs' \subseteq 0..(total - 1)
    /\ unsent' \subseteq (0..(total - 1)) \ app_proofs'
    /\ evm_proof' \in BOOLEAN
    /\ done \subseteq Asked
    /\ \A k \in Levels, s \in Nat : Has(k, s) => Has(k, s)'
    /\ FinalInternalProofPresent => FinalInternalProofPresent'
    /\ \A p \in leaf_proofs' :
          p \in leaf_proofs \/ \E w \in done : w.step = "LeafProve" /\ p = LeafOf(w)
    /\ \A p \in internal_proofs' :
          p \in internal_proofs \/ \E w \in done : w.step = "InternalProve" /\ p = InternalOf(w)
    /\ evm_proof' => evm_proof \/ EvmRequest \in done
    /\ e2First /\ e2Unsent' => leaf_proofs' = {}

LEMMA WellFormedStable ==
    ASSUME total' = total, NEW w PROVE WellFormed(w)' <=> WellFormed(w)
BY DEF WellFormed, EndOf, Level

\* A step that adds results and asks for new slots keeps the invariant.
LEMMA TreeGrows ==
    ASSUME TreeInv, NEW done, NEW new, Progress(done),
           requested' = (requested \ done) \cup new,
           asked' = asked (+) SetToBag(new),
           \A w \in new : NewSlot(w) \/ NewEvm(w),
           \A v, w \in new : SameSlot(v, w) => v = w
    PROVE  TreeInv'
<1>0. total \in Nat \ {0}
  BY TreeAssumption DEF TreeInv, Basics
<1>1. \A w \in new : w \notin Asked
  BY DEF NewSlot, NewEvm, SameSlot
<1>2. Asked' = Asked \cup new /\ asked' = SetToBag(Asked')
  <2>1. asked = SetToBag(Asked) /\ Asked = DOMAIN asked
    BY DEF TreeInv, Basics, Asked, BagToSet
  <2>2. Asked \cap new = {}
    BY <1>1
  <2>. DEFINE A == Asked
  <2>3. SetToBag(A) (+) SetToBag(new) = SetToBag(A \cup new)
    <3>. HIDE DEF A
    <3>. QED  BY <2>2 DEF SetToBag, (+), A
  <2>4. asked' = SetToBag(Asked \cup new)
    BY <2>1, <2>3
  <2>5. Asked' = Asked \cup new
    BY <2>4 DEF Asked, BagToSet, SetToBag
  <2>. QED  BY <2>4, <2>5
<1>3. total' = total /\ e2First' = e2First /\ (e2Unsent' => e2Unsent)
  BY DEF Progress
<1>4. \A w : WellFormed(w)' <=> WellFormed(w)
  BY <1>3, WellFormedStable
<1>5. Basics'
  BY <1>2 DEF TreeInv, Basics, Progress
<1>6. AskedInv'
  <2>1. \A w \in Asked' : w = EvmRequest \/ WellFormed(w)'
    BY <1>2, <1>4 DEF TreeInv, AskedInv, NewSlot, NewEvm
  <2>2. \A v, w \in Asked' : SameSlot(v, w) => v = w
    <3>. SUFFICES ASSUME NEW v \in Asked', NEW w \in Asked', SameSlot(v, w) PROVE v = w
      OBVIOUS
    <3>1. CASE v \in Asked /\ w \in Asked
      BY <3>1 DEF TreeInv, AskedInv
    <3>2. CASE v \in new /\ w \in new
      BY <3>2
    <3>3. ASSUME NEW x \in Asked, NEW y \in new, SameSlot(x, y) \/ SameSlot(y, x) PROVE FALSE
      <4>1. CASE NewSlot(y)
        BY <3>3, <4>1 DEF NewSlot, SameSlot
      <4>2. CASE NewEvm(y)
        <5>1. x.step = "EvmProve"
          BY <3>3, <4>2 DEF NewEvm, SameSlot, EvmRequest
        <5>2. x = EvmRequest
          BY <5>1, AskedIsTree
        <5>. QED  BY <4>2, <5>2 DEF NewEvm
      <4>. QED  BY <4>1, <4>2
    <3>. QED  BY <1>2, <3>1, <3>2, <3>3
  <2>3. e2Unsent' => \A w \in Asked' : WellFormed(w)' /\ w.start + Span(Level(w)) <= total'
    BY <1>2, <1>3, <1>4 DEF TreeInv, AskedInv, NewSlot, NewEvm
  <2>4. EvmRequest \in Asked' => ProofType = "Evm" /\ FinalInternalProofPresent'
    <3>1. CASE EvmRequest \in Asked
      BY <3>1 DEF TreeInv, AskedInv, Progress
    <3>2. CASE EvmRequest \in new
      <4>1. ~NewSlot(EvmRequest)
        BY DEF NewSlot, WellFormed, EvmRequest
      <4>. QED  BY <3>2, <4>1 DEF NewEvm
    <3>. QED  BY <1>2, <3>1, <3>2
  <2>. QED  BY <2>1, <2>2, <2>3, <2>4 DEF AskedInv, SameSlot, Level
<1>7. BackedInv'
  <2>. SUFFICES ASSUME NEW w \in Asked', w.step # "EvmProve" PROVE Backed(w)'
    BY DEF BackedInv
  <2>1. CASE w \in Asked
    <3>1. Backed(w) /\ WellFormed(w)
      BY <2>1, AskedIsTree DEF TreeInv, BackedInv
    <3>2. w.start \in Nat /\ w.end \in Nat /\ Level(w) \in Levels
      BY <3>1, WellFormedFacts
    <3>3. ASSUME NEW m \in (-2)..(Level(w) - 1), NEW s \in w.start..w.end, Aligned(m, s)
          PROVE  Has(m, s)'
      <4>1. m \in Levels /\ s \in Nat
        BY <3>2 DEF Levels
      <4>2. Has(m, s)
        BY <3>1, <3>3 DEF Backed
      <4>. QED  BY <4>1, <4>2 DEF Progress
    <3>. QED  BY <3>3 DEF Backed, Level
  <2>2. CASE w \in new
    <3>1. NewSlot(w)
      BY <2>2 DEF NewEvm, EvmRequest
    <3>. QED  BY <3>1 DEF NewSlot
  <2>. QED  BY <1>2, <2>1, <2>2
<1>8. StoredInv'
  <2>1. \A w : w \in Asked \ requested => w \in Asked' \ requested'
    BY <1>1, <1>2 DEF TreeInv, Basics
  <2>2. \A w \in done : w \in Asked' \ requested'
    BY <1>1, <1>2 DEF Progress
  <2>3. ASSUME NEW p \in leaf_proofs'
        PROVE  \E w \in Asked' \ requested' : w.step = "LeafProve" /\ p = LeafOf(w)
    BY <2>1, <2>2 DEF TreeInv, StoredInv, Progress
  <2>4. ASSUME NEW p \in internal_proofs'
        PROVE  \E w \in Asked' \ requested' : w.step = "InternalProve" /\ p = InternalOf(w)
    BY <2>1, <2>2 DEF TreeInv, StoredInv, Progress
  <2>5. evm_proof' => EvmRequest \in Asked' \ requested'
    BY <2>1, <2>2 DEF TreeInv, StoredInv, Progress
  <2>. QED  BY <2>3, <2>4, <2>5 DEF StoredInv, LeafOf, InternalOf
<1>9. FlagInv'
  <2>. SUFFICES ASSUME e2First
                PROVE  /\ e2Unsent' => leaf_proofs' = {} /\ \A w \in Asked' : w.step = "LeafProve"
                       /\ \A w \in Asked' : w.step = "InternalProve" =>
                             (w.final <=> w.layer = EffectiveFinalLayer(total))
    BY <1>3 DEF FlagInv
  <2>1. ASSUME e2Unsent', NEW w \in Asked' PROVE w.step = "LeafProve"
    <3>1. CASE w \in Asked
      BY <1>3, <2>1, <3>1 DEF TreeInv, FlagInv
    <3>2. CASE w \in new
      <4>1. NewSlot(w)
        BY <2>1, <3>2 DEF NewEvm
      <4>2. w.step \in {"LeafProve", "InternalProve"}
        BY <4>1 DEF NewSlot, WellFormed
      <4>. QED  BY <2>1, <4>1, <4>2 DEF NewSlot
    <3>. QED  BY <1>2, <3>1, <3>2
  <2>2. ASSUME NEW w \in Asked', w.step = "InternalProve"
        PROVE  w.final <=> w.layer = EffectiveFinalLayer(total)
    <3>1. CASE w \in Asked
      BY <2>2, <3>1 DEF TreeInv, FlagInv
    <3>2. CASE w \in new
      <4>1. NewSlot(w)
        BY <2>2, <3>2 DEF NewEvm, EvmRequest
      <4>. QED  BY <2>2, <4>1 DEF NewSlot
    <3>. QED  BY <1>2, <3>1, <3>2
  <2>. QED  BY <2>1, <2>2 DEF Progress
<1>. QED  BY <1>5, <1>6, <1>7, <1>8, <1>9 DEF TreeInv

\* After the step, too, every proof that is there was asked for.
LEMMA HasNextWasAsked ==
    ASSUME TreeInv, NEW done, Progress(done), NEW k \in Levels, NEW s, Has(k, s)', k # -2
    PROVE  \E w \in Asked : WellFormed(w) /\ Level(w) = k /\ w.start = s
<1>0. done \subseteq Asked
  BY DEF Progress
<1>1. CASE k = -1
  <2>1. PICK p \in leaf_proofs' : p.start = s
    BY <1>1 DEF Has
  <2>2. PICK w \in Asked : w.step = "LeafProve" /\ p = LeafOf(w)
    BY <1>0 DEF TreeInv, StoredInv, Progress
  <2>3. WellFormed(w)
    BY <2>2, AskedIsTree
  <2>. QED  BY <1>1, <2>1, <2>2, <2>3 DEF LeafOf, Level
<1>2. CASE k # -1
  <2>1. PICK p \in internal_proofs' : p.layer = k /\ p.start = s
    BY <1>2 DEF Has
  <2>2. PICK w \in Asked : w.step = "InternalProve" /\ p = InternalOf(w)
    BY <1>0 DEF TreeInv, StoredInv, Progress
  <2>3. WellFormed(w)
    BY <2>2, AskedIsTree
  <2>. QED  BY <2>1, <2>2, <2>3 DEF InternalOf, Level
<1>. QED  BY <1>1, <1>2

\* A slot all of whose children are there is backed on every level.
LEMMA ChildrenBack ==
    ASSUME TreeInv, NEW done, Progress(done), NEW k \in Levels, NEW w, WellFormed(w),
           Level(w) = k + 1,
           \A s \in 0..(total - 1) :
              Aligned(k, s) /\ w.start <= s /\ s < w.start + Span(k + 1) => Has(k, s)'
    PROVE  Backed(w)'
<1>1. ASSUME NEW m \in (-2)..(Level(w) - 1), NEW s \in w.start..w.end, Aligned(m, s)
      PROVE  Has(m, s)'
  <2>0. total \in Nat \ {0} /\ w.start \in Nat /\ Aligned(k + 1, w.start)
    BY WellFormedFacts
  <2>1. s \in 0..(total - 1) /\ w.start <= s /\ s < w.start + Span(k + 1) /\ s \in Nat
    <3>1. s \in Int
      OBVIOUS
    <3>2. s \in 0..(total - 1) /\ w.start <= s /\ s < w.start + Span(k + 1)
      BY <1>1, <3>1, WellFormedFacts
    <3>. QED  BY <3>2
  <2>2. m \in Levels /\ m <= k
    BY DEF Levels
  <2>3. CASE m = k
    BY <1>1, <2>1, <2>3
  <2>4. CASE m < k
    <3>1. PICK r \in Nat : Aligned(k, r) /\ r <= s /\ s < r + Span(k)
      BY <2>1, SlotAround
    <3>2. Aligned(k, w.start) /\ Span(k) \in Nat
      BY <2>0, AlignedBelow, SpanFacts
    <3>3. w.start <= r
      <4>1. r < w.start => r + Span(k) <= w.start
        BY <3>1, <3>2, SlotsApart
      <4>. QED  BY <2>0, <2>1, <3>1, <3>2, <4>1
    <3>4. r < w.start + Span(k + 1) /\ r \in 0..(total - 1)
      <4>1. k + 1 \in Levels
        BY DEF Levels
      <4>2. Span(k + 1) \in Nat
        BY <4>1, SpanFacts
      <4>. QED  BY <2>0, <2>1, <3>1, <4>2
    <3>5. Has(k, r)' /\ k # -2
      BY <2>2, <2>4, <3>1, <3>3, <3>4 DEF Levels
    <3>6. PICK v \in Asked : WellFormed(v) /\ Level(v) = k /\ v.start = r
      BY <3>5, HasNextWasAsked
    <3>7. s \in v.start..v.end
      <4>1. s \in Int
        OBVIOUS
      <4>. QED  BY <2>1, <3>1, <3>6, <4>1, WellFormedFacts
    <3>8. m \in (-2)..(Level(v) - 1)
      BY <2>2, <2>4, <3>6 DEF Levels
    <3>9. Backed(v)
      BY <3>6, AskedIsTree DEF TreeInv, BackedInv
    <3>10. Has(m, s)
      BY <1>1, <3>7, <3>8, <3>9 DEF Backed
    <3>. QED  BY <2>1, <2>2, <3>10 DEF Progress
  <2>. QED  BY <2>2, <2>3, <2>4 DEF Levels
<1>. QED  BY <1>1 DEF Backed, Level

\* A slot with a child that has not arrived has not been asked for.
LEMMA FreshByChild ==
    ASSUME TreeInv, NEW k \in Levels, NEW w, WellFormed(w), Level(w) = k + 1,
           NEW s \in 0..(total - 1), Aligned(k, s), w.start <= s, s < w.start + Span(k + 1),
           ~Has(k, s)
    PROVE  \A v \in Asked : ~SameSlot(v, w)
<1>. SUFFICES ASSUME NEW v \in Asked, SameSlot(v, w) PROVE FALSE
  OBVIOUS
<1>1. w.step # "EvmProve"
  BY WellFormedFacts
<1>2. WellFormed(v) /\ Backed(v)
  BY <1>1, AskedIsTree DEF SameSlot, TreeInv, BackedInv
<1>3. Level(v) = k + 1 /\ v.start = w.start
  BY DEF SameSlot, Level
<1>4. s \in v.start..v.end
  <2>1. s \in Int /\ total \in Nat
    BY WellFormedFacts
  <2>. QED  BY <1>2, <1>3, <2>1, WellFormedFacts
<1>5. k \in (-2)..(Level(v) - 1)
  BY <1>3 DEF Levels
<1>. QED  BY <1>2, <1>4, <1>5 DEF Backed

\* Before the segment count is known, a partial slot has not been asked for.
LEMMA FreshByCount ==
    ASSUME TreeInv, e2Unsent, NEW w, WellFormed(w), ~(w.start + Span(Level(w)) <= total)
    PROVE  \A v \in Asked : ~SameSlot(v, w)
<1>. SUFFICES ASSUME NEW v \in Asked, SameSlot(v, w) PROVE FALSE
  OBVIOUS
<1>1. v.start + Span(Level(v)) <= total
  BY DEF TreeInv, AskedInv
<1>2. Level(v) = Level(w) /\ v.start = w.start
  BY DEF SameSlot, Level
<1>. QED  BY <1>1, <1>2

\* A complete group g of level k asks for its parent: last is the last child of
\* the group, cut to the size of the level once that is known.
LEMMA GroupAsks ==
    ASSUME TreeInv, NEW done, Progress(done), NEW k \in Levels, NEW g \in Nat, NEW last \in Nat,
           k <= EffectiveFinalLayer(total),
           ~e2Unsent' => k + 1 <= EffectiveFinalLayer(total),
           g * Fan(k + 1) <= last,
           \/ last = g * Fan(k + 1) + Fan(k + 1) - 1
           \/ /\ ~e2Unsent'
              /\ last < g * Fan(k + 1) + Fan(k + 1) - 1
              /\ last = NumSlots(total, k) - 1,
           \A i \in (g * Fan(k + 1))..last : Has(k, i * Span(k))',
           NEW w \in [step : {"LeafProve", "InternalProve"}, layer : Nat, start : Nat, end : Nat,
                      final : BOOLEAN],
           Level(w) = k + 1, w.step = "LeafProve" => w.layer = 0,
           w.start = (g * Fan(k + 1)) * Span(k), w.end = EndOf(k, last * Span(k))
    PROVE  /\ WellFormed(w)
           /\ Backed(w)'
           /\ e2Unsent' => w.start + Span(Level(w)) <= total
           /\ \A i \in (g * Fan(k + 1))..last :
                 /\ i * Span(k) \in 0..(total - 1)
                 /\ w.start <= i * Span(k) /\ i * Span(k) < w.start + Span(k + 1)
<1>. DEFINE f == Fan(k + 1)
            p == Span(k)
            first == g * f
            EF == EffectiveFinalLayer(total)
<1>0. total \in Nat \ {0} /\ app_proofs' \subseteq 0..(total - 1) /\ (e2Unsent' => e2Unsent)
  BY TreeAssumption DEF TreeInv, Basics, Progress
<1>1. p \in Nat \ {0} /\ f \in Nat \ {0} /\ Span(k + 1) = f * p /\ k + 1 \in Levels
  BY SpanFacts DEF Levels
<1>2. ASSUME NEW s, Has(k, s)'
      PROVE  s \in 0..(total - 1) /\ (e2Unsent' => s + p <= total)
  <2>1. CASE k = -2
    <3>1. s \in app_proofs' /\ p = 1
      BY <1>2, <2>1 DEF Has, Span
    <3>2. s \in 0..(total - 1)
      BY <1>0, <3>1
    <3>. QED  BY <1>0, <3>1, <3>2
  <2>2. CASE k # -2
    <3>1. PICK v \in Asked : WellFormed(v) /\ Level(v) = k /\ v.start = s
      BY <1>2, <2>2, HasNextWasAsked
    <3>2. s \in 0..(total - 1)
      BY <3>1, WellFormedFacts
    <3>3. e2Unsent' => s + p <= total
      BY <1>0, <3>1 DEF TreeInv, AskedInv
    <3>. QED  BY <3>2, <3>3
  <2>. QED  BY <2>1, <2>2
<1>. HIDE DEF p, f
<1>3. first \in Nat /\ first <= last /\ last \in first..last
  BY <1>1 DEF f
<1>4. \A i \in first..last : Has(k, i * p)'
  BY DEF f, p
<1>5. last * p \in 0..(total - 1) /\ (e2Unsent' => last * p + p <= total)
  BY <1>2, <1>3, <1>4
<1>6. \/ last = first + f - 1
      \/ last < first + f - 1 /\ total <= (last + 1) * p
  <2>1. \/ last = first + f - 1
        \/ last < first + f - 1 /\ last = NumSlots(total, k) - 1
    BY DEF f
  <2>2. NumSlots(total, k) \in Nat \ {0} /\ total <= NumSlots(total, k) * p
    BY <1>0, SlotCount DEF p
  <2>3. last = NumSlots(total, k) - 1 => last + 1 = NumSlots(total, k)
    BY <2>2
  <2>. QED  BY <2>1, <2>2, <2>3
<1>7. /\ Aligned(k + 1, w.start)
      /\ w.start \in 0..(total - 1)
      /\ EndOf(k + 1, w.start) = EndOf(k, last * p)
      /\ \A s \in 0..(total - 1) :
            Aligned(k, s) /\ w.start <= s /\ s < w.start + Span(k + 1) => \E i \in first..last : s = i * p
  <2>1. last * p < total /\ w.start = first * p
    BY <1>0, <1>5 DEF f, p
  <2>. QED  BY <1>0, <1>3, <1>6, <2>1, GroupOfSlot DEF f, p
<1>8. w.start = first * p /\ w.start + Span(k + 1) = (first + f) * p /\ first * p \in Nat
      /\ (first + f) * p \in Nat
  BY <1>1, <1>3 DEF f, p
<1>. HIDE DEF first
<1>9. e2Unsent' => w.start + Span(k + 1) <= total
  <2>. SUFFICES ASSUME e2Unsent' PROVE w.start + Span(k + 1) <= total
    OBVIOUS
  <2>1. last + 1 = first + f
    BY <1>1, <1>3 DEF f, first
  <2>2. last * p + p = (last + 1) * p
    BY <1>1
  <2>. QED  BY <1>5, <1>8, <2>1, <2>2
<1>10. w.layer \in 0..EF
  <2>0. EF \in Nat \ {0} /\ total <= Span(EF)
    BY <1>0, FinalLayerCovers
  <2>1. Level(w) <= EF
    <3>1. CASE ~e2Unsent'
      BY <3>1
    <3>2. CASE e2Unsent' /\ k = EF
      <4>1. f = InternalArity /\ f >= 2
        BY <2>0, <3>2, ArityAssumption DEF f, Fan
      <4>2. total <= p
        BY <2>0, <3>2 DEF p
      <4>3. w.start + f * p <= total
        BY <1>1, <1>9, <3>2
      <4>4. f * p >= 2 * p
        BY <1>1, <4>1
      <4>5. w.start \in Nat /\ f * p \in Nat
        BY <1>1, <1>8
      <4>. QED  BY <1>0, <1>1, <4>2, <4>3, <4>4, <4>5
    <3>3. CASE k # EF
      BY <2>0, <3>3 DEF Levels
    <3>. QED  BY <3>1, <3>2, <3>3
  <2>2. w.step = "InternalProve" => w.layer = Level(w)
    BY DEF Level
  <2>. QED  BY <2>0, <2>1, <2>2
<1>11. WellFormed(w)
  <2>1. EndOf(k, last * p) \in 0..(total - 1)
    <3>1. EndOf(k, last * p) \in (last * p)..(total - 1)
      BY <1>0, <1>5, SlotRange
    <3>. QED  BY <1>0, <1>5, <3>1
  <2>2. w.end = EndOf(k + 1, w.start) /\ w.end \in 0..(total - 1)
    BY <1>7, <2>1 DEF p
  <2>3. w \in [step : {"LeafProve", "InternalProve"}, layer : 0..EF, start : 0..(total - 1),
               end : 0..(total - 1), final : BOOLEAN]
    BY <1>7, <1>10, <2>2
  <2>. QED  BY <1>7, <2>2, <2>3 DEF WellFormed
<1>12. Backed(w)'
  BY <1>4, <1>7, <1>11, ChildrenBack
<1>13. ASSUME NEW i \in first..last
       PROVE  i * p \in 0..(total - 1) /\ w.start <= i * p /\ i * p < w.start + Span(k + 1)
  <2>1. i * p \in 0..(total - 1)
    BY <1>2, <1>4
  <2>2. i \in Nat /\ first <= i /\ i < first + f
    <3>1. i \in Nat /\ first <= i /\ i <= last /\ last < first + f
      BY <1>1, <1>3, <1>6
    <3>. QED  BY <1>1, <1>3, <3>1
  <2>3. first * p <= i * p /\ i * p + p <= (first + f) * p
    <3>1. i + 1 <= first + f
      BY <1>1, <1>3, <2>2
    <3>2. (i + 1) * p <= (first + f) * p /\ (i + 1) * p = i * p + p
      BY <1>1, <1>3, <2>2, <3>1
    <3>3. first * p <= i * p
      BY <1>1, <1>3, <2>2
    <3>. QED  BY <3>2, <3>3
  <2>. QED  BY <1>1, <1>8, <2>1, <2>3
<1>. QED  BY <1>9, <1>11, <1>12, <1>13 DEF f, p, first

\* Requests with the same slot are equal if their flags are.
LEMMA SameRequest ==
    ASSUME NEW v, NEW w, WellFormed(v), WellFormed(w), SameSlot(v, w), v.final = w.final
    PROVE  v = w
<1>1. v.end = w.end
  BY DEF WellFormed, SameSlot, Level
<1>. QED  BY <1>1 DEF WellFormed, SameSlot

\* Segments are slots of span one.
LEMMA SegmentSlots ==
    ASSUME total \in Nat \ {0}
    PROVE  /\ -2 \in Levels /\ Span(-2) = 1 /\ Fan(-1) = LeafArity /\ Span(-1) = LeafArity
           /\ NumSlots(total, -2) = total
           /\ \A s \in 0..(total - 1) : Aligned(-2, s) /\ EndOf(-2, s) = s
<1>1. -2 \in Levels /\ Span(-2) = 1 /\ Fan(-1) = LeafArity /\ Span(-1) = LeafArity
  BY DEF Levels, Span, Fan
<1>2. NumSlots(total, -2) = total
  BY <1>1 DEF NumSlots, DivCeil
<1>3. ASSUME NEW s \in 0..(total - 1) PROVE Aligned(-2, s) /\ EndOf(-2, s) = s
  <2>1. s \in Nat /\ s = s * 1
    OBVIOUS
  <2>. QED  BY <1>1, <2>1 DEF Aligned, EndOf
<1>. QED  BY <1>1, <1>2, <1>3

\* handle_app_result, the request: the last app proof of a batch asks for its leaf.
LEMMA AppAsks ==
    ASSUME TreeInv, NEW seg \in (0..(total - 1)) \ app_proofs, Progress({}),
           e2Unsent' = e2Unsent, app_proofs' = app_proofs \cup {seg},
           NEW w \in AppRequests(seg)
    PROVE  NewSlot(w) /\ w.final = FALSE
<1>. DEFINE g == seg \div LeafArity
            first == g * LeafArity
            full == first + LeafArity - 1
            last == IF num_segments # None /\ num_segments - 1 < full
                    THEN num_segments - 1 ELSE full
<1>0. total \in Nat \ {0} /\ seg \in 0..(total - 1) /\ seg \notin app_proofs /\ e2Unsent \in BOOLEAN
      /\ num_segments = (IF e2Unsent THEN None ELSE total)
  BY TreeAssumption DEF TreeInv, Basics
<1>1. w = LeafRequest(first, last) /\ first..last \subseteq app_proofs \cup {seg}
  BY DEF AppRequests
<1>2. g \in Nat /\ first <= seg /\ seg <= full /\ first \in Nat
  <2>1. LeafArity \in Nat \ {0} /\ seg \in Nat
    BY <1>0, ArityAssumption
  <2>2. g \in Nat /\ LeafArity * g <= seg /\ seg < LeafArity * g + LeafArity
    BY <2>1
  <2>. HIDE DEF g
  <2>. QED  BY <2>1, <2>2
<1>. HIDE DEF g
<1>3. LeafArity \in Nat \ {0}
  BY ArityAssumption
<1>. HIDE DEF first
<1>4. last \in Nat /\ seg \in first..last
      /\ (last = full \/ (~e2Unsent /\ last < full /\ last = total - 1))
  <2>1. CASE e2Unsent
    BY <1>0, <1>2, <1>3, <2>1 DEF None
  <2>2. CASE ~e2Unsent
    <3>1. num_segments = total /\ num_segments # None
      BY <1>0, <2>2 DEF None
    <3>. QED  BY <1>0, <1>2, <1>3, <2>2, <3>1
  <2>. QED  BY <2>1, <2>2
<1>. HIDE DEF last
<1>5. \A i \in first..last : i \in app_proofs' /\ i \in 0..(total - 1)
  BY <1>0, <1>1 DEF TreeInv, Basics
<1>6. last \in first..last /\ first \in first..last
  BY <1>2, <1>4
<1>7. /\ w \in [step : {"LeafProve", "InternalProve"}, layer : Nat, start : Nat, end : Nat, final : BOOLEAN]
      /\ w.step = "LeafProve" /\ w.layer = 0 /\ w.start = first /\ w.end = last /\ w.final = FALSE
      /\ Level(w) = -1
  BY <1>1, <1>2, <1>4 DEF LeafRequest, Level
<1>8. -2 \in Levels /\ Span(-2) = 1 /\ Fan(-1) = LeafArity /\ NumSlots(total, -2) = total /\ -2 + 1 = -1
      /\ EndOf(-2, last) = last /\ last * 1 = last /\ first * 1 = first
  BY <1>0, <1>2, <1>4, <1>5, <1>6, SegmentSlots
<1>9. \A i \in first..last : i * Span(-2) = i /\ Has(-2, i * Span(-2))'
  <2>1. \A i \in first..last : i * 1 = i
    BY <1>2, <1>4
  <2>. QED  BY <1>5, <1>8, <2>1 DEF Has
<1>10. EffectiveFinalLayer(total) \in Nat \ {0}
  BY <1>0, FinalLayerCovers
<1>11. /\ WellFormed(w)
       /\ Backed(w)'
       /\ e2Unsent' => w.start + Span(Level(w)) <= total
       /\ \A i \in first..last :
             i * Span(-2) \in 0..(total - 1) /\ w.start <= i * Span(-2) /\ i * Span(-2) < w.start + Span(-1)
  <2>1. /\ -2 <= EffectiveFinalLayer(total) /\ -1 <= EffectiveFinalLayer(total)
    BY <1>10
  <2>2. /\ g * Fan(-1) = first /\ first <= last
        /\ w.start = first * Span(-2) /\ w.end = EndOf(-2, last * Span(-2))
    BY <1>4, <1>7, <1>8, <1>2 DEF first
  <2>3. \/ last = first + Fan(-1) - 1
        \/ ~e2Unsent' /\ last < first + Fan(-1) - 1 /\ last = NumSlots(total, -2) - 1
    BY <1>4, <1>8
  <2>. QED  BY <1>2, <1>4, <1>7, <1>8, <1>9, <2>1, <2>2, <2>3, GroupAsks
<1>12. \A v \in Asked : ~SameSlot(v, w)
  <2>1. Aligned(-2, seg) /\ ~Has(-2, seg) /\ w.start <= seg /\ seg < w.start + Span(-1)
    BY <1>0, <1>4, <1>9, <1>11, SegmentSlots DEF Has
  <2>. QED  BY <1>0, <1>7, <1>8, <1>11, <2>1, FreshByChild
<1>. QED  BY <1>7, <1>11, <1>12 DEF NewSlot

LEMMA AppStep ==
    ASSUME TreeInv, NEW seg \in unsent, PostApp(seg) PROVE TreeInv'
<1>. DEFINE new == AppRequests(seg)
            r == AppResult(seg, TRUE)
<1>0. total \in Nat \ {0} /\ seg \in 0..(total - 1) /\ seg \notin app_proofs /\ e2Unsent \in BOOLEAN
      /\ num_segments = (IF e2Unsent THEN None ELSE total)
  BY TreeAssumption DEF TreeInv, Basics
<1>1. ~IsSealedForResults /\ ~OutOfBounds(seg)
  <2>1. ~IsSealedForResults
    BY SealedIsDone
  <2>. QED  BY <1>0, <2>1 DEF OutOfBounds, None
<1>2. r.kind = "App" /\ r.ok /\ r.segment = seg
  BY DEF AppResult
<1>3. Requests(r) = new
  <2>1. ~Rejected(r)
    BY <1>2 DEF Rejected
  <2>. QED  BY <1>2, <2>1 DEF Requests
<1>4. /\ requested' = (requested \ {}) \cup new /\ asked' = asked (+) SetToBag(new)
      /\ total' = total /\ e2First' = e2First /\ e2Unsent' = e2Unsent /\ unsent' = unsent \ {seg}
  <2>. HIDE DEF new, r
  <2>. QED  BY <1>1, <1>3 DEF PostApp, Deliver, r
<1>5. HandleAppResult(r)
  <2>1. HandleProofResult(r)
    BY DEF PostApp, Deliver
  <2>. HIDE DEF r
  <2>. QED  BY <1>1, <1>2, <2>1 DEF HandleProofResult
<1>6. app_proofs' = app_proofs \cup {seg}
      /\ UNCHANGED <<status, num_segments, leaf_proofs, internal_proofs, evm_proof>>
  BY <1>1, <1>2, <1>5 DEF HandleAppResult
<1>. HIDE DEF new, r
<1>7. Progress({})
  <2>1. \A k \in Levels, s \in Nat : Has(k, s) => Has(k, s)'
    BY <1>6 DEF Has
  <2>2. FinalInternalProofPresent => FinalInternalProofPresent'
    BY <1>6 DEF FinalInternalProofPresent, SlotIdx
  <2>. QED  BY <1>0, <1>4, <1>6, <2>1, <2>2 DEF Progress, TreeInv, Basics, FlagInv
<1>8. \A w \in new : NewSlot(w) /\ w.final = FALSE
  BY <1>0, <1>4, <1>6, <1>7, AppAsks DEF new
<1>9. \A v, w \in new : SameSlot(v, w) => v = w
  BY <1>8, SameRequest DEF NewSlot
<1>. QED  BY <1>4, <1>7, <1>8, <1>9, TreeGrows

\* A stored proof is the slot of a request.
LEMMA StoredLeaf ==
    ASSUME TreeInv, NEW p \in leaf_proofs
    PROVE  p.start \in 0..(total - 1) /\ Aligned(-1, p.start) /\ p.end = EndOf(-1, p.start)
<1>1. PICK v \in Asked \ requested : v.step = "LeafProve" /\ p = LeafOf(v)
  BY DEF TreeInv, StoredInv
<1>2. WellFormed(v) /\ Level(v) = -1
  BY <1>1, AskedIsTree DEF Level
<1>. QED  BY <1>1, <1>2, WellFormedFacts DEF LeafOf

LEMMA InternalSlot ==
    ASSUME TreeInv, NEW v \in Asked, v.step = "InternalProve"
    PROVE  LET p == InternalOf(v)
           IN  /\ p.layer \in Nat /\ p.layer <= EffectiveFinalLayer(total)
               /\ p.start \in 0..(total - 1)
               /\ SlotIdx(p) \in Nat /\ p.start = SlotIdx(p) * Span(p.layer)
               /\ p.end = EndOf(p.layer, p.start)
<1>. DEFINE p == InternalOf(v)
<1>1. WellFormed(v) /\ Level(v) = v.layer
  BY AskedIsTree DEF Level
<1>2. p.layer = v.layer /\ p.start = v.start /\ p.end = v.end
  BY DEF InternalOf
<1>3. /\ p.layer \in Nat /\ p.layer <= EffectiveFinalLayer(total) /\ p.start \in 0..(total - 1)
      /\ Aligned(p.layer, p.start) /\ p.end = EndOf(p.layer, p.start)
  BY <1>1, <1>2, WellFormedFacts
<1>4. PICK j \in Nat : p.start = j * Span(p.layer)
  BY <1>3 DEF Aligned
<1>5. SlotIdx(p) = j
  BY <1>3, <1>4, IndexOfSlot
<1>. QED  BY <1>3, <1>4, <1>5

LEMMA StoredInternal ==
    ASSUME TreeInv, NEW p \in internal_proofs
    PROVE  /\ p.layer \in Nat /\ p.layer <= EffectiveFinalLayer(total)
           /\ p.start \in 0..(total - 1)
           /\ SlotIdx(p) \in Nat /\ p.start = SlotIdx(p) * Span(p.layer)
           /\ p.end = EndOf(p.layer, p.start)
<1>1. PICK v \in Asked \ requested : v.step = "InternalProve" /\ p = InternalOf(v)
  BY DEF TreeInv, StoredInv
<1>. QED  BY <1>1, InternalSlot

\* What ExecuteE2 changes besides the requests.
LEMMA E2Progress ==
    ASSUME TreeInv, PostExecuteE2
    PROVE  /\ e2Unsent /\ ~e2Unsent' /\ Progress({})
           /\ requested' = (requested \ {}) \cup ExecuteE2Requests(total)
           /\ asked' = asked (+) SetToBag(ExecuteE2Requests(total))
           /\ UNCHANGED <<app_proofs, leaf_proofs, internal_proofs>>
<1>. DEFINE new == ExecuteE2Requests(total)
            r == E2Result(total, TRUE)
<1>0. total \in Nat \ {0} /\ e2Unsent /\ num_segments = None
  BY TreeAssumption DEF TreeInv, Basics, PostExecuteE2
<1>1. ~IsSealedForResults
  BY <1>0, SealedIsDone
<1>2. r.kind = "ExecuteE2" /\ r.ok /\ r.count = total
  BY DEF E2Result
<1>3. Requests(r) = new
  <2>1. ~Rejected(r)
    BY <1>2 DEF Rejected
  <2>. QED  BY <1>2, <2>1 DEF Requests
<1>4. /\ requested' = (requested \ {}) \cup new /\ asked' = asked (+) SetToBag(new)
      /\ total' = total /\ e2First' = e2First /\ e2Unsent' = FALSE /\ unsent' = unsent
  <2>. HIDE DEF new, r
  <2>. QED  BY <1>1, <1>3 DEF PostExecuteE2, Deliver, r
<1>5. HandleExecuteE2Result(r)
  <2>1. HandleProofResult(r)
    BY DEF PostExecuteE2, Deliver
  <2>. HIDE DEF r
  <2>. QED  BY <1>1, <1>2, <2>1 DEF HandleProofResult
<1>6. num_segments' = total
      /\ UNCHANGED <<status, app_proofs, leaf_proofs, internal_proofs, evm_proof>>
  BY <1>0, <1>2, <1>5 DEF HandleExecuteE2Result
<1>. HIDE DEF new, r
<1>7. Progress({})
  <2>1. \A k \in Levels, s \in Nat : Has(k, s) => Has(k, s)'
    BY <1>6 DEF Has
  <2>2. ~FinalInternalProofPresent
    BY <1>0 DEF FinalInternalProofPresent
  <2>. QED  BY <1>0, <1>4, <1>6, <2>1, <2>2 DEF Progress, TreeInv, Basics
<1>. QED  BY <1>0, <1>4, <1>6, <1>7 DEF new

\* flush_pending_leaf_batches.
LEMMA FlushAsks ==
    ASSUME TreeInv, Progress({}), e2Unsent, ~e2Unsent',
           UNCHANGED <<app_proofs, leaf_proofs, internal_proofs>>,
           NEW w \in FlushPendingLeafBatches(total)
    PROVE  NewSlot(w) /\ w.final = FALSE /\ w.step = "LeafProve"
<1>. DEFINE g == total \div LeafArity
            first == g * LeafArity
            last == total - 1
<1>0. total \in Nat \ {0} /\ app_proofs \subseteq 0..(total - 1) /\ LeafArity \in Nat \ {0}
  BY TreeAssumption, ArityAssumption DEF TreeInv, Basics
<1>1. e2Unsent /\ ~e2Unsent' /\ Progress({}) /\ UNCHANGED <<app_proofs, leaf_proofs, internal_proofs>>
  OBVIOUS
<1>2. w = LeafRequest(first, last) /\ first..last # {} /\ first..last \subseteq app_proofs
  BY DEF FlushPendingLeafBatches
<1>3. g \in Nat /\ first \in Nat /\ first <= last /\ last < first + LeafArity - 1
  <2>1. g \in Nat /\ LeafArity * g <= total /\ total < LeafArity * g + LeafArity
    BY <1>0
  <2>. HIDE DEF g
  <2>2. first \in Nat /\ first <= total /\ total < first + LeafArity
    BY <1>0, <2>1
  <2>. HIDE DEF first
  <2>. QED  BY <1>0, <1>2, <2>1, <2>2
<1>. HIDE DEF g
<1>4. /\ w \in [step : {"LeafProve", "InternalProve"}, layer : Nat, start : Nat, end : Nat, final : BOOLEAN]
      /\ w.step = "LeafProve" /\ w.layer = 0 /\ w.start = first /\ w.end = last /\ w.final = FALSE
      /\ Level(w) = -1
  BY <1>0, <1>2, <1>3 DEF LeafRequest, Level
<1>. HIDE DEF first
<1>5. -2 \in Levels /\ Span(-2) = 1 /\ Fan(-1) = LeafArity /\ Span(-1) = LeafArity
      /\ NumSlots(total, -2) = total /\ -2 + 1 = -1
      /\ EndOf(-2, last) = last /\ last * 1 = last /\ first * 1 = first
  BY <1>0, <1>3, SegmentSlots
<1>6. \A i \in first..last : Has(-2, i * Span(-2))'
  <2>1. \A i \in first..last : i * 1 = i
    BY <1>0, <1>3
  <2>. QED  BY <1>1, <1>2, <1>5, <2>1 DEF Has
<1>7. WellFormed(w) /\ Backed(w)'
  <2>1. -2 <= EffectiveFinalLayer(total) /\ -1 <= EffectiveFinalLayer(total)
    <3>1. EffectiveFinalLayer(total) \in Nat \ {0}
      BY <1>0, FinalLayerCovers
    <3>. QED  BY <3>1
  <2>2. /\ g * Fan(-1) = first /\ first <= last
        /\ w.start = first * Span(-2) /\ w.end = EndOf(-2, last * Span(-2))
    BY <1>3, <1>4, <1>5 DEF first
  <2>3. last < first + Fan(-1) - 1 /\ last = NumSlots(total, -2) - 1 /\ last \in Nat
    BY <1>0, <1>3, <1>5
  <2>. HIDE DEF last
  <2>4. \/ last = first + Fan(-1) - 1
        \/ ~e2Unsent' /\ last < first + Fan(-1) - 1 /\ last = NumSlots(total, -2) - 1
    BY <1>1, <2>3
  <2>5. g \in Nat /\ last \in Nat
    BY <1>3, <2>3
  <2>. QED  BY <1>1, <1>4, <1>5, <1>6, <2>1, <2>2, <2>4, <2>5, GroupAsks
<1>8. ~(w.start + Span(Level(w)) <= total)
  BY <1>0, <1>3, <1>4, <1>5
<1>9. \A v \in Asked : ~SameSlot(v, w)
  BY <1>1, <1>7, <1>8, FreshByCount
<1>. QED  BY <1>1, <1>4, <1>7, <1>9 DEF NewSlot

\* trigger_tail_proofs, one layer of it.
LEMMA TailAsks ==
    ASSUME TreeInv, PostExecuteE2, NEW layer \in 0..(LayersFor(total) - 1),
           NEW w \in TailRequests(total, layer)
    PROVE  /\ NewSlot(w) /\ w.step = "InternalProve"
           /\ w.final = (w.layer = EffectiveFinalLayer(total))
<1>. DEFINE k == layer - 1
            inputs == IF layer = 0 THEN NumLeafProofs(total)
                      ELSE NumProofsAtInternalLayer(NumLeafProofs(total), layer - 1, InternalArity)
            tail == inputs % InternalArity
            first == inputs - tail
            start == IF layer = 0 THEN first * LeafArity
                     ELSE SegmentStartOfInternalProof(LeafArity, InternalArity, layer - 1, first)
            child(i) == IF layer = 0 THEN {p \in leaf_proofs : p.start = i * LeafArity}
                        ELSE {p \in internal_proofs : p.layer = layer - 1 /\ SlotIdx(p) = i}
            g == inputs \div InternalArity
            last == inputs - 1
            EF == EffectiveFinalLayer(total)
<1>0. total \in Nat \ {0} /\ LeafArity \in Nat \ {0} /\ InternalArity \in Nat \ {0, 1}
  BY TreeAssumption, ArityAssumption DEF TreeInv, Basics
<1>1. e2Unsent /\ ~e2Unsent' /\ Progress({}) /\ UNCHANGED <<app_proofs, leaf_proofs, internal_proofs>>
  BY E2Progress
<1>2. /\ tail > 0
      /\ \A i \in first..(inputs - 1) : child(i) # {}
      /\ \E p \in child(inputs - 1) : w = InternalRequest(layer, start, p.end, layer = EF)
  BY DEF TailRequests
<1>3. LayersFor(total) \in Nat \ {0} /\ EF \in Nat \ {0} /\ EF >= LayersFor(total) - 1
  BY <1>0, LayersOfTree, FinalLayerCovers
<1>4. layer \in Nat /\ layer <= LayersFor(total) - 1 /\ layer <= EF /\ k \in Levels /\ k + 1 = layer /\ k <= EF
  BY <1>3 DEF Levels
<1>5. inputs = NumSlots(total, k)
  <2>1. CASE layer = 0
    <3>1. k = -1
      BY <2>1
    <3>. QED  BY <1>0, <2>1, <3>1, LayersOfTree
  <2>2. CASE layer # 0
    <3>1. k \in 0..(LayersFor(total) - 1) /\ LayersFor(total) > 1
      BY <1>3, <1>4, <2>2
    <3>. QED  BY <1>0, <2>2, <3>1, LayersOfTree
  <2>. QED  BY <2>1, <2>2
<1>6. inputs \in Nat \ {0} /\ total <= inputs * Span(k)
  BY <1>0, <1>4, <1>5, SlotCount
<1>7. Span(k) \in Nat \ {0} /\ Span(k + 1) = Fan(k + 1) * Span(k) /\ Fan(k + 1) = InternalArity
  <2>1. Span(k) \in Nat \ {0} /\ Span(k + 1) = Fan(k + 1) * Span(k)
    BY <1>4, SpanFacts
  <2>2. k + 1 # -1
    BY <1>4
  <2>. QED  BY <2>1, <2>2 DEF Fan
<1>. DEFINE n == inputs
<1>8. n \in Nat /\ g = n \div InternalArity /\ tail = n % InternalArity
  BY <1>6
<1>. HIDE DEF inputs
<1>9. /\ g \in Nat /\ first = g * InternalArity /\ first \in Nat /\ last \in Nat
      /\ first <= last /\ last < first + InternalArity - 1
  <2>1. g \in Nat /\ n = InternalArity * g + tail /\ tail \in 0..(InternalArity - 1)
    BY <1>0, <1>8
  <2>. HIDE DEF g, tail
  <2>2. first = g * InternalArity /\ g * InternalArity \in Nat
    BY <1>0, <1>8, <2>1
  <2>3. first <= last /\ last < first + InternalArity - 1 /\ last \in Nat
    <3>1. first = n - tail /\ last = n - 1 /\ tail > 0
      BY <1>2
    <3>2. tail \in Nat /\ tail <= InternalArity - 1 /\ n - tail \in Nat
      BY <1>0, <2>1, <2>2, <3>1
    <3>. HIDE DEF first, last
    <3>. QED  BY <1>0, <1>6, <1>8, <3>1, <3>2
  <2>. QED  BY <2>1, <2>2, <2>3
<1>. HIDE DEF tail, g
<1>10. start = first * Span(k)
  <2>1. CASE layer = 0
    <3>1. k = -1
      BY <2>1
    <3>. QED  BY <2>1, <3>1 DEF Span
  <2>2. CASE layer # 0
    <3>1. k \in Nat /\ k = layer - 1
      BY <1>4, <2>2
    <3>2. SegmentStartOfInternalProof(LeafArity, InternalArity, k, first) = first * Span(k)
      BY <1>9, <3>1, StartOfSlot
    <3>. QED  BY <2>2, <3>2
  <2>. QED  BY <2>1, <2>2
<1>11. ASSUME NEW i \in Nat, NEW p \in child(i)
       PROVE  Has(k, i * Span(k)) /\ p.end = EndOf(k, i * Span(k)) /\ i * Span(k) \in 0..(total - 1)
  <2>1. CASE layer = 0
    <3>1. k = -1 /\ p \in leaf_proofs /\ p.start = i * LeafArity /\ Span(-1) = LeafArity
      BY <1>11, <2>1 DEF Span
    <3>. QED  BY <3>1, StoredLeaf DEF Has
  <2>2. CASE layer # 0
    <3>1. k \in Nat /\ p \in internal_proofs /\ p.layer = k /\ SlotIdx(p) = i
      BY <1>4, <1>11, <2>2
    <3>. QED  BY <3>1, StoredInternal DEF Has
  <2>. QED  BY <2>1, <2>2
<1>12. \A i \in first..last : Has(k, i * Span(k))'
  <2>. SUFFICES ASSUME NEW i \in first..last PROVE Has(k, i * Span(k))'
    OBVIOUS
  <2>1. i \in Nat /\ child(i) # {}
    <3>1. last = n - 1
      BY DEF last
    <3>. QED  BY <1>2, <1>9
  <2>. HIDE DEF child
  <2>2. Has(k, i * Span(k))
    BY <1>11, <2>1
  <2>. HIDE DEF k
  <2>. QED  BY <1>1, <2>2 DEF Has
<1>13. PICK p \in child(last) : w = InternalRequest(layer, start, p.end, layer = EF)
  BY <1>2
<1>14. p.end = EndOf(k, last * Span(k)) /\ p.end \in Nat
  <2>. HIDE DEF child, k, last
  <2>1. p.end = EndOf(k, last * Span(k)) /\ last * Span(k) \in 0..(total - 1)
    BY <1>9, <1>11
  <2>2. EndOf(k, last * Span(k)) \in (last * Span(k))..(total - 1)
    BY <1>0, <1>4, <2>1, SlotRange
  <2>. QED  BY <1>0, <2>1, <2>2
<1>. HIDE DEF child, last
<1>15. start \in Nat
  <2>. HIDE DEF k, first
  <2>. QED  BY <1>7, <1>9, <1>10
<1>. HIDE DEF start, first, k
<1>16. /\ w \in [step : {"LeafProve", "InternalProve"}, layer : Nat, start : Nat, end : Nat, final : BOOLEAN]
       /\ w.step = "InternalProve" /\ w.layer = layer /\ w.start = start /\ w.end = p.end
       /\ w.final = (layer = EF)
       /\ Level(w) = k + 1
  BY <1>4, <1>13, <1>14, <1>15 DEF InternalRequest, Level
<1>17. WellFormed(w) /\ Backed(w)'
  <2>1. /\ g * Fan(k + 1) = first /\ first <= last
        /\ w.start = first * Span(k) /\ w.end = EndOf(k, last * Span(k))
    BY <1>7, <1>9, <1>10, <1>14, <1>16
  <2>2. last < first + Fan(k + 1) - 1 /\ last = NumSlots(total, k) - 1
    BY <1>5, <1>7, <1>9 DEF last
  <2>3. w.step = "LeafProve" => w.layer = 0
    BY <1>16
  <2>. QED  BY <1>1, <1>4, <1>9, <1>12, <1>16, <2>1, <2>2, <2>3, GroupAsks
<1>18. ~(w.start + Span(Level(w)) <= total)
  <2>. DEFINE q == Span(k)
  <2>1. q \in Nat \ {0} /\ w.start = first * q /\ Span(Level(w)) = InternalArity * q /\ total <= n * q
    BY <1>6, <1>7, <1>10, <1>16
  <2>. HIDE DEF q
  <2>2. n < first + InternalArity
    BY <1>0, <1>8, <1>9 DEF last
  <2>3. n * q < (first + InternalArity) * q /\ (first + InternalArity) * q = first * q + InternalArity * q
    BY <1>0, <1>8, <1>9, <2>1, <2>2
  <2>. QED  BY <1>0, <1>8, <1>9, <2>1, <2>3
<1>19. \A v \in Asked : ~SameSlot(v, w)
  BY <1>1, <1>17, <1>18, FreshByCount
<1>. QED  BY <1>1, <1>16, <1>17, <1>19 DEF NewSlot

\* handle_execute_e2_result.
LEMMA E2Step ==
    ASSUME TreeInv, PostExecuteE2 PROVE TreeInv'
<1>. DEFINE new == ExecuteE2Requests(total)
<1>1. \A w \in new : /\ NewSlot(w)
                     /\ w.final = (w.step = "InternalProve" /\ w.layer = EffectiveFinalLayer(total))
  <2>. SUFFICES ASSUME NEW w \in new
                PROVE  /\ NewSlot(w)
                       /\ w.final = (w.step = "InternalProve" /\ w.layer = EffectiveFinalLayer(total))
    OBVIOUS
  <2>1. \/ w \in FlushPendingLeafBatches(total)
        \/ \E layer \in 0..(LayersFor(total) - 1) : w \in TailRequests(total, layer)
    BY DEF ExecuteE2Requests, TriggerTailProofs
  <2>2. CASE w \in FlushPendingLeafBatches(total)
    <3>1. NewSlot(w) /\ w.final = FALSE /\ w.step = "LeafProve"
      BY <2>2, E2Progress, FlushAsks
    <3>. QED  BY <3>1
  <2>3. CASE \E layer \in 0..(LayersFor(total) - 1) : w \in TailRequests(total, layer)
    <3>1. NewSlot(w) /\ w.step = "InternalProve" /\ w.final = (w.layer = EffectiveFinalLayer(total))
      BY <2>3, TailAsks
    <3>. QED  BY <3>1
  <2>. QED  BY <2>1, <2>2, <2>3
<1>. HIDE DEF new
<1>2. \A v, w \in new : SameSlot(v, w) => v = w
  <2>. SUFFICES ASSUME NEW v \in new, NEW w \in new, SameSlot(v, w) PROVE v = w
    OBVIOUS
  <2>1. v.final = w.final
    BY <1>1 DEF SameSlot
  <2>. QED  BY <1>1, <2>1, SameRequest DEF NewSlot
<1>3. Progress({}) /\ requested' = (requested \ {}) \cup new /\ asked' = asked (+) SetToBag(new)
  BY E2Progress DEF new
<1>. QED  BY <1>1, <1>2, <1>3, TreeGrows

\* What the delivery of a tree result changes besides the results.
LEMMA TreeDelivery ==
    ASSUME TreeInv, NEW work \in requested, PostTree(work)
    PROVE  /\ ~IsSealedForResults
           /\ work \in Asked
           /\ e2First => ~e2Unsent
           /\ requested' = (requested \ {work}) \cup Requests(TreeResult(work, TRUE))
           /\ asked' = asked (+) SetToBag(Requests(TreeResult(work, TRUE)))
           /\ total' = total /\ e2First' = e2First /\ e2Unsent' = e2Unsent /\ unsent' = unsent
           /\ HandleProofResult(TreeResult(work, TRUE))
           /\ TreeResult(work, TRUE) = [kind |-> work.step, ok |-> TRUE, work |-> work]
<1>. DEFINE r == TreeResult(work, TRUE)
            new == Requests(r)
<1>1. ~IsSealedForResults
  BY SealedIsDone
<1>2. r = [kind |-> work.step, ok |-> TRUE, work |-> work]
  BY DEF TreeResult
<1>3. Deliver(r, {work}) /\ (e2First => ~e2Unsent) /\ UNCHANGED <<unsent, e2Unsent>>
  BY DEF PostTree
<1>. HIDE DEF r
<1>4. /\ HandleProofResult(r) /\ requested' = (requested \ {work}) \cup new
      /\ asked' = asked (+) SetToBag(new) /\ UNCHANGED <<total, e2First>>
  BY <1>1, <1>3 DEF Deliver
<1>5. work \in Asked
  BY DEF TreeInv, Basics
<1>. HIDE DEF new
<1>. QED  BY <1>1, <1>2, <1>3, <1>4, <1>5 DEF new, r

\* handle_leaf_result, the requests: the last leaf of a group asks for its parent.
LEMMA LeafAsks ==
    ASSUME TreeInv, NEW work \in requested, work.step = "LeafProve", Progress({work}),
           e2Unsent' = e2Unsent, e2First => ~e2Unsent,
           leaf_proofs' = leaf_proofs \cup {LeafOf(work)},
           NEW w \in LeafRequests(LeafOf(work))
    PROVE  NewSlot(w) /\ w.final = FALSE
<1>. DEFINE leaf == LeafOf(work)
            j == leaf.start \div LeafArity
            g == j \div InternalArity
            first == g * InternalArity
            full == first + InternalArity - 1
            last == IF num_segments # None /\ NumLeafProofs(num_segments) - 1 < full
                    THEN NumLeafProofs(num_segments) - 1 ELSE full
            N == NumSlots(total, -1)
<1>0. /\ total \in Nat \ {0} /\ LeafArity \in Nat \ {0} /\ InternalArity \in Nat \ {0, 1}
      /\ e2Unsent \in BOOLEAN /\ num_segments = (IF e2Unsent THEN None ELSE total)
      /\ work \in Asked
  BY TreeAssumption, ArityAssumption DEF TreeInv, Basics
<1>1. WellFormed(work) /\ Level(work) = -1
  BY <1>0, AskedIsTree DEF Level
<1>2. leaf.start = work.start /\ leaf.end = work.end
  BY DEF LeafOf
<1>3. /\ -1 \in Levels /\ -1 + 1 = 0 /\ Span(-1) = LeafArity /\ Fan(0) = InternalArity
      /\ Span(0) = InternalArity * LeafArity
  <2>1. -1 \in Levels /\ -1 + 1 = 0 /\ Span(-1) = LeafArity /\ Fan(0) = InternalArity
    BY DEF Levels, Span, Fan
  <2>2. Span(-1 + 1) = Fan(-1 + 1) * Span(-1)
    BY <2>1, SpanFacts
  <2>. QED  BY <2>1, <2>2
<1>4. work.start \in 0..(total - 1) /\ Aligned(-1, work.start) /\ work.end = EndOf(-1, work.start)
  BY <1>1, WellFormedFacts
<1>5. j \in Nat /\ work.start = j * LeafArity
  <2>1. PICK i \in Nat : work.start = i * LeafArity
    BY <1>3, <1>4 DEF Aligned
  <2>2. (i * LeafArity) \div LeafArity = i
    <3>1. i * LeafArity \in Int /\ LeafArity * i <= i * LeafArity /\ i * LeafArity < LeafArity * i + LeafArity
      BY <1>0
    <3>. QED  BY <1>0, <3>1, DivUnique
  <2>. QED  BY <1>2, <2>1, <2>2
<1>6. N \in Nat \ {0} /\ total <= N * LeafArity /\ NumLeafProofs(total) = N
  BY <1>0, <1>3, SlotCount, LayersOfTree
<1>7. /\ \A i \in first..last : {p \in leaf_proofs' : p.start = i * LeafArity} # {}
      /\ \E p \in leaf_proofs' : p.start = last * LeafArity
                              /\ w = InternalRequest(0, first * LeafArity, p.end, FALSE)
  BY DEF LeafRequests
<1>. HIDE DEF j, N
<1>8. g \in Nat /\ first \in Nat /\ first <= j /\ j <= full /\ full \in Nat
  <2>1. g \in Nat /\ InternalArity * g <= j /\ j < InternalArity * g + InternalArity
    BY <1>0, <1>5
  <2>. HIDE DEF g
  <2>. QED  BY <1>0, <1>5, <2>1
<1>. HIDE DEF g
<1>9. j < N
  <2>1. j * LeafArity < N * LeafArity
    <3>. DEFINE a == j * LeafArity
                b == N * LeafArity
    <3>1. a \in 0..(total - 1) /\ total <= b /\ b \in Int
      BY <1>0, <1>4, <1>5, <1>6
    <3>. HIDE DEF a, b
    <3>2. a < b
      BY <1>0, <3>1
    <3>. QED  BY <3>2 DEF a, b
  <2>. QED  BY <1>0, <1>5, <1>6, <2>1
<1>10. last \in Nat /\ j \in first..last
       /\ (last = full \/ (~e2Unsent /\ last < full /\ last = N - 1))
  <2>. HIDE DEF first, full
  <2>1. CASE e2Unsent
    BY <1>0, <1>5, <1>8, <2>1 DEF None
  <2>2. CASE ~e2Unsent
    <3>1. num_segments = total /\ num_segments # None /\ NumLeafProofs(num_segments) = N
      BY <1>0, <1>6, <2>2 DEF None
    <3>. QED  BY <1>0, <1>5, <1>6, <1>8, <1>9, <2>2, <3>1
  <2>. QED  BY <1>0, <2>1, <2>2
<1>. HIDE DEF last
<1>11. \A p \in leaf_proofs' : p.end = EndOf(-1, p.start) /\ p.start \in 0..(total - 1)
  <2>1. \A p \in leaf_proofs : p.end = EndOf(-1, p.start) /\ p.start \in 0..(total - 1)
    BY StoredLeaf
  <2>2. leaf.end = EndOf(-1, leaf.start) /\ leaf.start \in 0..(total - 1)
    BY <1>2, <1>4
  <2>. QED  BY <2>1, <2>2
<1>12. \A i \in first..last : Has(-1, i * Span(-1))'
  BY <1>3, <1>7 DEF Has
<1>13. PICK p \in leaf_proofs' : p.start = last * LeafArity
                              /\ w = InternalRequest(0, first * LeafArity, p.end, FALSE)
  BY <1>7
<1>14. p.end = EndOf(-1, last * Span(-1)) /\ p.end \in Nat
  <2>1. p.end = EndOf(-1, p.start) /\ p.start \in 0..(total - 1)
    BY <1>11
  <2>2. EndOf(-1, p.start) \in p.start..(total - 1)
    BY <1>0, <1>3, <2>1, SlotRange
  <2>. QED  BY <1>0, <1>3, <1>13, <2>1, <2>2
<1>15. first * LeafArity \in Nat
  <2>. HIDE DEF first
  <2>. QED  BY <1>0, <1>8
<1>16. /\ w \in [step : {"LeafProve", "InternalProve"}, layer : Nat, start : Nat, end : Nat, final : BOOLEAN]
       /\ w.step = "InternalProve" /\ w.layer = 0 /\ w.start = first * Span(-1) /\ w.end = p.end
       /\ w.final = FALSE
       /\ Level(w) = 0
  BY <1>3, <1>13, <1>14, <1>15 DEF InternalRequest, Level
<1>17. EffectiveFinalLayer(total) \in Nat \ {0}
  BY <1>0, FinalLayerCovers
<1>18. /\ WellFormed(w)
       /\ Backed(w)'
       /\ e2Unsent' => w.start + Span(Level(w)) <= total
       /\ \A i \in first..last :
             i * Span(-1) \in 0..(total - 1) /\ w.start <= i * Span(-1) /\ i * Span(-1) < w.start + Span(0)
  <2>1. -1 <= EffectiveFinalLayer(total) /\ 0 <= EffectiveFinalLayer(total)
    BY <1>17
  <2>2. g * Fan(0) = first /\ first <= last /\ w.end = EndOf(-1, last * Span(-1))
    <3>1. first <= last
      BY <1>8, <1>10, <1>5
    <3>. QED  BY <1>3, <1>14, <1>16, <3>1
  <2>3. \/ last = first + Fan(0) - 1
        \/ ~e2Unsent' /\ last < first + Fan(0) - 1 /\ last = NumSlots(total, -1) - 1
    BY <1>3, <1>10 DEF N
  <2>. HIDE DEF first
  <2>. QED  BY <1>3, <1>8, <1>10, <1>12, <1>16, <2>1, <2>2, <2>3, GroupAsks
<1>19. \A v \in Asked : ~SameSlot(v, w)
  <2>1. ~Has(-1, work.start)
    BY <1>1, RequestedIsOpen
  <2>2. w.start <= work.start /\ work.start < w.start + Span(0)
    BY <1>3, <1>5, <1>10, <1>18
  <2>. QED  BY <1>3, <1>4, <1>16, <1>18, <2>1, <2>2, FreshByChild
<1>. QED  BY <1>16, <1>17, <1>18, <1>19 DEF NewSlot

LEMMA LeafStep ==
    ASSUME TreeInv, NEW work \in requested, work.step = "LeafProve", PostTree(work)
    PROVE  TreeInv'
<1>. DEFINE leaf == LeafOf(work)
            r == TreeResult(work, TRUE)
            new == LeafRequests(leaf)
<1>0. /\ total \in Nat \ {0} /\ num_segments = (IF e2Unsent THEN None ELSE total)
      /\ work \in Asked
  BY TreeAssumption DEF TreeInv, Basics
<1>1. WellFormed(work) /\ Level(work) = -1
  BY <1>0, AskedIsTree DEF Level
<1>2. r.kind = "LeafProve" /\ r.ok /\ r.work = work
  BY DEF TreeResult
<1>3. Requests(r) = new
  <2>1. ~Rejected(r)
    BY <1>2 DEF Rejected
  <2>. QED  BY <1>2, <2>1 DEF Requests
<1>4. /\ requested' = (requested \ {work}) \cup new /\ asked' = asked (+) SetToBag(new)
      /\ total' = total /\ e2First' = e2First /\ e2Unsent' = e2Unsent /\ unsent' = unsent
      /\ (e2First => ~e2Unsent) /\ ~IsSealedForResults /\ HandleProofResult(r)
  BY <1>3, TreeDelivery
<1>5. HandleLeafResult(leaf)
  <2>. HIDE DEF r
  <2>. QED  BY <1>2, <1>4 DEF HandleProofResult
<1>6. leaf.start = work.start /\ leaf.end = work.end
  BY DEF LeafOf
<1>7. ~OutOfBounds(leaf.start) /\ ~OutOfBounds(leaf.end)
  <2>1. work.start \in 0..(total - 1) /\ work.end \in 0..(total - 1)
    BY <1>1, WellFormedFacts
  <2>. QED  BY <1>0, <1>6, <2>1 DEF OutOfBounds, None
<1>8. \A p \in leaf_proofs : p.start # leaf.start
  <2>1. ~Has(-1, work.start)
    BY <1>1, RequestedIsOpen
  <2>. QED  BY <1>6, <2>1 DEF Has
<1>9. leaf_proofs' = leaf_proofs \cup {leaf}
      /\ UNCHANGED <<status, num_segments, app_proofs, internal_proofs, evm_proof>>
  BY <1>5, <1>7, <1>8 DEF HandleLeafResult
<1>. HIDE DEF new, r
<1>10. Progress({work})
  <2>1. \A k \in Levels, s \in Nat : Has(k, s) => Has(k, s)'
    BY <1>9 DEF Has
  <2>2. FinalInternalProofPresent => FinalInternalProofPresent'
    BY <1>9 DEF FinalInternalProofPresent, SlotIdx
  <2>. QED  BY <1>0, <1>4, <1>9, <2>1, <2>2 DEF Progress, TreeInv, Basics
<1>11. \A w \in new : NewSlot(w) /\ w.final = FALSE
  BY <1>4, <1>9, <1>10, LeafAsks DEF new
<1>12. \A v, w \in new : SameSlot(v, w) => v = w
  BY <1>11, SameRequest DEF NewSlot
<1>. QED  BY <1>4, <1>10, <1>11, <1>12, TreeGrows

\* A later slot of a level does not end earlier.
LEMMA EndsOrdered ==
    ASSUME total \in Nat \ {0}, NEW k \in Levels, NEW i \in Nat, NEW j \in Nat, i <= j
    PROVE  /\ i * Span(k) \in Nat /\ j * Span(k) \in Nat /\ i * Span(k) <= j * Span(k)
           /\ EndOf(k, i * Span(k)) <= EndOf(k, j * Span(k))
           /\ EndOf(k, i * Span(k)) \in Int
<1>. DEFINE p == Span(k)
            s == i * p
            t == j * p
<1>1. p \in Nat \ {0}
  BY SpanFacts
<1>2. EndOf(k, s) = (IF s + p <= total THEN s + p - 1 ELSE total - 1)
      /\ EndOf(k, t) = (IF t + p <= total THEN t + p - 1 ELSE total - 1)
  BY DEF EndOf
<1>. HIDE DEF p
<1>3. s \in Nat /\ t \in Nat /\ s <= t
  BY <1>1
<1>. HIDE DEF s, t
<1>4. EndOf(k, s) <= EndOf(k, t) /\ EndOf(k, s) \in Int
  BY <1>1, <1>2, <1>3
<1>. QED  BY <1>3, <1>4 DEF p, s, t

\* After an internal result is stored, the stored proofs are slots still.
LEMMA StoredNext ==
    ASSUME TreeInv, NEW work \in requested, work.step = "InternalProve",
           internal_proofs' = internal_proofs \cup {InternalOf(work)}, NEW q \in internal_proofs'
    PROVE  /\ q.layer \in Nat /\ q.layer <= EffectiveFinalLayer(total)
           /\ q.start \in 0..(total - 1)
           /\ SlotIdx(q) \in Nat /\ q.start = SlotIdx(q) * Span(q.layer)
           /\ q.end = EndOf(q.layer, q.start)
<1>1. work \in Asked
  BY DEF TreeInv, Basics
<1>2. CASE q \in internal_proofs
  BY <1>2, StoredInternal
<1>3. CASE q = InternalOf(work)
  BY <1>1, <1>3, InternalSlot
<1>. QED  BY <1>2, <1>3

\* The final internal proof asks for the EVM step, once.
LEMMA EvmAsks ==
    ASSUME TreeInv, NEW work \in requested, work.step = "InternalProve", Progress({work}),
           e2Unsent' = e2Unsent, ~e2Unsent, ProofType = "Evm",
           internal_proofs' = internal_proofs \cup {InternalOf(work)},
           work.layer = EffectiveFinalLayer(total)
    PROVE  NewEvm(EvmRequest)
<1>. DEFINE p == InternalOf(work)
<1>1. work \in Asked /\ WellFormed(work) /\ Level(work) = work.layer /\ work.start = 0
  <2>1. work \in Asked
    BY DEF TreeInv, Basics
  <2>2. WellFormed(work) /\ Level(work) = work.layer
    BY <2>1, AskedIsTree DEF Level
  <2>. QED  BY <2>1, <2>2, FinalSlot
<1>2. EvmRequest \notin Asked
  <2>. SUFFICES ASSUME EvmRequest \in Asked PROVE FALSE
    OBVIOUS
  <2>1. FinalInternalProofPresent
    BY DEF TreeInv, AskedInv
  <2>2. PICK v \in Asked \ requested :
              WellFormed(v) /\ v.step = "InternalProve" /\ v.layer = EffectiveFinalLayer(total) /\ v.start = 0
    BY <2>1, FinalPresent
  <2>3. Level(v) = v.layer
    BY <2>2 DEF Level
  <2>4. v = work
    BY <1>1, <2>2, <2>3, SlotNamesWork
  <2>. QED  BY <2>2, <2>4
<1>3. FinalInternalProofPresent'
  <2>1. num_segments' = total /\ total' = total /\ total \in Nat \ {0}
    BY TreeAssumption DEF Progress, TreeInv, Basics
  <2>2. p \in internal_proofs' /\ p.layer = EffectiveFinalLayer(total) /\ p.start = 0 /\ p.layer \in Nat
    BY <1>1, WellFormedFacts DEF InternalOf
  <2>3. SlotIdx(p) = 0
    <3>1. p.layer \in Levels
      BY <2>2 DEF Levels
    <3>2. p.start = 0 * Span(p.layer)
      BY <2>2, <3>1, SpanFacts
    <3>. QED  BY <2>2, <3>2, IndexOfSlot
  <2>4. num_segments' # None
    BY <2>1 DEF None
  <2>5. EffectiveFinalLayer(num_segments)' = EffectiveFinalLayer(total)
    BY <2>1 DEF EffectiveFinalLayer, LayersFor, NumLeafProofs
  <2>6. SlotIdx(p)' = SlotIdx(p)
    BY DEF SlotIdx
  <2>. HIDE DEF p
  <2>. QED  BY <2>2, <2>3, <2>4, <2>5 DEF FinalInternalProofPresent, SlotIdx
<1>. QED  BY <1>2, <1>3 DEF NewEvm

\* A tree of one natural layer asks for its wrapping layer.
LEMMA WrapAsks ==
    ASSUME TreeInv, NEW work \in requested, work.step = "InternalProve", Progress({work}),
           e2Unsent' = e2Unsent, ~e2Unsent,
           internal_proofs' = internal_proofs \cup {InternalOf(work)},
           LayersFor(total) = 1, work.layer = 0,
           NEW w \in [step : {"LeafProve", "InternalProve"}, layer : Nat, start : Nat, end : Nat,
                      final : BOOLEAN],
           w.step = "InternalProve", w.layer = 1, w.start = work.start, w.end = work.end,
           w.final = TRUE
    PROVE  /\ NewSlot(w) /\ w.step = "InternalProve" /\ w.layer = 1 /\ w.final = TRUE
           /\ EffectiveFinalLayer(total) = 1
<1>0. total \in Nat \ {0} /\ work \in Asked /\ InternalArity \in Nat \ {0, 1}
  BY TreeAssumption, ArityAssumption DEF TreeInv, Basics
<1>1. WellFormed(work) /\ Level(work) = 0
  BY <1>0, AskedIsTree DEF Level
<1>2. EffectiveFinalLayer(total) = 1
  BY DEF EffectiveFinalLayer
<1>3. 0 \in Levels /\ 0 + 1 = 1 /\ Fan(1) = InternalArity
  BY DEF Levels, Fan
<1>4. Span(0) \in Nat \ {0} /\ total <= Span(0) /\ Span(1) = Fan(1) * Span(0)
  <2>1. Span(0) \in Nat \ {0} /\ Span(0 + 1) = Fan(0 + 1) * Span(0)
    BY <1>3, SpanFacts
  <2>2. total <= Span(LayersFor(total) - 1) /\ LayersFor(total) - 1 = 0
    BY <1>0, LayersOfTree
  <2>. QED  BY <1>3, <2>1, <2>2
<1>5. work.start = 0 /\ work.end = EndOf(0, 0)
  <2>1. work.start \in 0..(total - 1) /\ Aligned(0, work.start) /\ work.end = EndOf(0, work.start)
    BY <1>1, WellFormedFacts
  <2>2. PICK i \in Nat : work.start = i * Span(0)
    BY <2>1 DEF Aligned
  <2>. DEFINE q == Span(0)
  <2>3. i * q < q /\ q \in Nat \ {0} /\ work.start = i * q
    BY <1>0, <1>4, <2>1, <2>2
  <2>. HIDE DEF q
  <2>4. i = 0
    BY <2>3
  <2>5. work.start = 0
    BY <2>3, <2>4
  <2>. QED  BY <2>1, <2>5
<1>6. NumSlots(total, 0) = 1
  <2>. DEFINE N == NumSlots(total, 0)
              q == Span(0)
  <2>1. N \in Nat \ {0} /\ (N - 1) * q < total
    BY <1>0, <1>3, SlotCount
  <2>2. q \in Nat \ {0} /\ total <= q
    BY <1>4
  <2>. HIDE DEF N, q
  <2>3. (N - 1) * q < q /\ N - 1 \in Nat
    BY <1>0, <2>1, <2>2
  <2>4. N - 1 < 1
    BY <2>2, <2>3
  <2>5. N = 1
    BY <2>1, <2>4
  <2>. QED  BY <2>5 DEF N
<1>7. Has(0, 0)' /\ ~Has(0, 0)
  <2>1. InternalOf(work) \in internal_proofs' /\ InternalOf(work).layer = 0 /\ InternalOf(work).start = 0
    BY <1>5 DEF InternalOf
  <2>2. ~Has(0, 0)
    BY <1>1, <1>5, RequestedIsOpen
  <2>. QED  BY <2>1, <2>2 DEF Has
<1>8. EndOf(0, 0) \in Nat /\ Aligned(0, 0) /\ 0 \in 0..(total - 1)
  BY <1>0, <1>1, <1>5, WellFormedFacts
<1>9. /\ w \in [step : {"LeafProve", "InternalProve"}, layer : Nat, start : Nat, end : Nat, final : BOOLEAN]
      /\ w.step = "InternalProve" /\ w.layer = 1 /\ w.start = 0 /\ w.end = EndOf(0, 0) /\ w.final = TRUE
      /\ Level(w) = 0 + 1
  BY <1>3, <1>5, <1>8 DEF Level
<1>10. /\ WellFormed(w)
       /\ Backed(w)'
       /\ e2Unsent' => w.start + Span(Level(w)) <= total
  <2>. DEFINE k == 0
              z == 0
              f == Fan(k + 1)
              q == Span(k)
  <2>1. k \in Levels /\ z \in Nat /\ f \in Nat \ {0, 1} /\ q \in Nat /\ Level(w) = k + 1
    BY <1>0, <1>3, <1>4, <1>9
  <2>2. z * f = z /\ z * q = z
    BY <2>1
  <2>3. z < z + f - 1 /\ z = NumSlots(total, k) - 1 /\ ~e2Unsent'
    BY <1>6, <2>1
  <2>4. k <= EffectiveFinalLayer(total) /\ k + 1 <= EffectiveFinalLayer(total)
    BY <1>2
  <2>5. w.start = z /\ w.end = EndOf(k, z)
    BY <1>9
  <2>6. \A i \in z..z : Has(k, i * q)'
    <3>1. \A i \in z..z : i * q = 0
      BY <2>1
    <3>. QED  BY <1>7, <3>1
  <2>7. w.step = "LeafProve" => w.layer = 0
    BY <1>9
  <2>. HIDE DEF k, z, f, q
  <2>8. /\ z * f <= z /\ (z * f) * q = w.start
        /\ w.end = EndOf(k, z * q) /\ z < (z * f) + f - 1
    BY <2>1, <2>2, <2>3, <2>5
  <2>9. \A i \in (z * f)..z : Has(k, i * q)'
    BY <2>2, <2>6
  <2>. QED  BY <1>9, <2>1, <2>3, <2>4, <2>7, <2>8, <2>9, GroupAsks DEF f, q
<1>11. \A v \in Asked : ~SameSlot(v, w)
  <2>1. Span(0 + 1) \in Nat \ {0}
    <3>1. 1 \in Levels /\ 0 + 1 = 1
      BY DEF Levels
    <3>. QED  BY <3>1, SpanFacts
  <2>2. w.start <= 0 /\ 0 < w.start + Span(0 + 1)
    <3>. DEFINE q == Span(0 + 1)
    <3>1. w.start = 0 /\ q \in Nat \ {0}
      BY <1>9, <2>1
    <3>. HIDE DEF q
    <3>2. w.start <= 0 /\ 0 < w.start + q
      BY <3>1
    <3>. QED  BY <3>2 DEF q
  <2>. QED  BY <1>3, <1>7, <1>8, <1>9, <1>10, <2>2, FreshByChild
<1>. QED  BY <1>2, <1>9, <1>10, <1>11 DEF NewSlot

\* A complete group of an internal layer asks for its parent.
LEMMA ParentAsks ==
    ASSUME TreeInv, NEW work \in requested, work.step = "InternalProve", Progress({work}),
           e2Unsent' = e2Unsent, e2First => ~e2Unsent,
           internal_proofs' = internal_proofs \cup {InternalOf(work)},
           ~e2Unsent => work.layer # EffectiveFinalLayer(total)
                        /\ ~(LayersFor(total) = 1 /\ work.layer = 0),
           NEW w \in ParentRequests(InternalOf(work))
    PROVE  /\ NewSlot(w) /\ w.step = "InternalProve" /\ w.layer = work.layer + 1
           /\ w.final <=> ~e2Unsent /\ work.layer + 1 = EffectiveFinalLayer(total)
<1>. DEFINE p == InternalOf(work)
            k == work.layer
            j == SlotIdx(p)
            g == j \div InternalArity
            first == g * InternalArity
            full == first + InternalArity - 1
            here == NumProofsAtInternalLayer(NumLeafProofs(num_segments), p.layer, InternalArity)
            last == IF num_segments # None /\ here - 1 < full THEN here - 1 ELSE full
            group == {q \in internal_proofs' : q.layer = p.layer /\ SlotIdx(q) \in first..last}
            final == num_segments # None /\ p.layer + 1 = EffectiveFinalLayer(num_segments)
            N == NumSlots(total, k)
            EF == EffectiveFinalLayer(total)
<1>0. /\ total \in Nat \ {0} /\ InternalArity \in Nat \ {0, 1}
      /\ e2Unsent \in BOOLEAN /\ num_segments = (IF e2Unsent THEN None ELSE total)
      /\ work \in Asked
  BY TreeAssumption, ArityAssumption DEF TreeInv, Basics
<1>1. WellFormed(work) /\ Level(work) = k
  BY <1>0, AskedIsTree DEF Level
<1>2. p.layer = k /\ p.start = work.start /\ p.end = work.end /\ p \in internal_proofs'
  BY DEF InternalOf
<1>3. /\ k \in Nat /\ k <= EF /\ EF \in Nat \ {0} /\ k \in Levels /\ k + 1 \in Nat
      /\ work.start \in 0..(total - 1) /\ Aligned(k, work.start) /\ Level(work) = k
  BY <1>1, WellFormedFacts
<1>4. j \in Nat /\ work.start = j * Span(k)
  BY <1>2, StoredNext
<1>5. /\ \A i \in first..last : \E q \in group : SlotIdx(q) = i
      /\ \E a, b \in group :
            /\ \A o \in group : a.start <= o.start
            /\ \A o \in group : b.end >= o.end
            /\ w = InternalRequest(p.layer + 1, a.start, b.end, final)
  BY DEF ParentRequests
<1>6. Span(k) \in Nat \ {0} /\ Fan(k + 1) = InternalArity /\ Span(k + 1) = Fan(k + 1) * Span(k)
  <2>1. Fan(k + 1) = InternalArity
    BY <1>3 DEF Fan
  <2>. QED  BY <1>3, <2>1, SpanFacts
<1>7. N \in Nat \ {0} /\ total <= N * Span(k)
  BY <1>0, <1>3, SlotCount
<1>8. ~e2Unsent => here = N /\ k + 1 <= EF
  <2>. SUFFICES ASSUME ~e2Unsent PROVE here = N /\ k + 1 <= EF
    OBVIOUS
  <2>1. k < EF /\ ~(LayersFor(total) = 1 /\ k = 0)
    BY <1>3
  <2>2. LayersFor(total) \in Nat \ {0}
    BY <1>0, LayersOfTree
  <2>3. LayersFor(total) > 1
    BY <1>3, <2>1, <2>2 DEF EffectiveFinalLayer
  <2>4. EF = LayersFor(total) - 1
    BY <2>2, <2>3 DEF EffectiveFinalLayer
  <2>5. k \in 0..(LayersFor(total) - 1)
    BY <1>3, <2>1, <2>2, <2>4
  <2>6. NumProofsAtInternalLayer(NumLeafProofs(total), k, InternalArity) = N
    BY <1>0, <2>3, <2>5, LayersOfTree
  <2>7. num_segments = total
    BY <1>0
  <2>. QED  BY <1>2, <1>3, <2>1, <2>6, <2>7
<1>9. final <=> ~e2Unsent /\ k + 1 = EF
  BY <1>0, <1>2 DEF None
<1>. HIDE DEF p, j, here, N, final
<1>10. g \in Nat /\ first \in Nat /\ first <= j /\ j <= full /\ full \in Nat
  <2>1. g \in Nat /\ InternalArity * g <= j /\ j < InternalArity * g + InternalArity
    BY <1>0, <1>4
  <2>. HIDE DEF g
  <2>. QED  BY <1>0, <1>4, <2>1
<1>. HIDE DEF g
<1>11. j < N
  <2>. DEFINE q == Span(k)
              a == j * q
              b == N * q
  <2>1. a \in 0..(total - 1) /\ total <= b /\ q \in Nat \ {0}
    BY <1>3, <1>4, <1>6, <1>7
  <2>. HIDE DEF q
  <2>2. b \in Int
    BY <1>7, <2>1
  <2>3. a < b
    <3>. HIDE DEF a, b
    <3>. QED  BY <1>0, <2>1, <2>2
  <2>. QED  BY <1>4, <1>7, <2>1, <2>3
<1>12. last \in Nat /\ j \in first..last
       /\ (last = full \/ (~e2Unsent /\ last < full /\ last = N - 1))
  <2>. HIDE DEF first, full
  <2>1. CASE e2Unsent
    BY <1>0, <1>4, <1>10, <2>1 DEF None
  <2>2. CASE ~e2Unsent
    <3>1. num_segments # None /\ here = N
      BY <1>0, <1>8, <2>2 DEF None
    <3>. QED  BY <1>4, <1>7, <1>10, <1>11, <2>2, <3>1
  <2>. QED  BY <1>0, <2>1, <2>2
<1>13. first <= last
  BY <1>4, <1>10, <1>12
<1>. HIDE DEF last, full
<1>14. \A q \in group : /\ q.layer = k /\ SlotIdx(q) \in first..last /\ SlotIdx(q) \in Nat
                        /\ q.start = SlotIdx(q) * Span(k) /\ q.end = EndOf(k, SlotIdx(q) * Span(k))
                        /\ q \in internal_proofs'
  <2>. SUFFICES ASSUME NEW q \in group
                PROVE  /\ q.layer = k /\ SlotIdx(q) \in first..last /\ SlotIdx(q) \in Nat
                       /\ q.start = SlotIdx(q) * Span(k) /\ q.end = EndOf(k, SlotIdx(q) * Span(k))
                       /\ q \in internal_proofs'
    OBVIOUS
  <2>1. q \in internal_proofs' /\ q.layer = k /\ SlotIdx(q) \in first..last
    BY <1>2
  <2>2. SlotIdx(q) \in Nat /\ q.start = SlotIdx(q) * Span(q.layer) /\ q.end = EndOf(q.layer, q.start)
    BY <2>1, StoredNext
  <2>. QED  BY <2>1, <2>2
<1>. HIDE DEF group
<1>15. \A i \in first..last : Has(k, i * Span(k))'
  <2>. SUFFICES ASSUME NEW i \in first..last PROVE Has(k, i * Span(k))'
    OBVIOUS
  <2>1. PICK q \in group : SlotIdx(q) = i
    BY <1>5
  <2>2. q \in internal_proofs' /\ q.layer = k /\ q.start = i * Span(k)
    BY <1>14, <2>1
  <2>. QED  BY <1>3, <2>2 DEF Has
<1>16. PICK a \in group, b \in group :
             /\ \A o \in group : a.start <= o.start
             /\ \A o \in group : b.end >= o.end
             /\ w = InternalRequest(p.layer + 1, a.start, b.end, final)
  BY <1>5
<1>17. a.start = first * Span(k) /\ a.start \in Nat
  <2>1. PICK q \in group : SlotIdx(q) = first
    <3>1. first \in first..last
      BY <1>10, <1>12, <1>13
    <3>. QED  BY <1>5, <3>1
  <2>2. a.start <= first * Span(k)
    BY <1>14, <1>16, <2>1
  <2>3. a.start = SlotIdx(a) * Span(k) /\ SlotIdx(a) \in Nat /\ first <= SlotIdx(a)
    <3>1. a.start = SlotIdx(a) * Span(k) /\ SlotIdx(a) \in Nat /\ SlotIdx(a) \in first..last
      BY <1>14
    <3>. HIDE DEF first
    <3>. QED  BY <1>10, <1>12, <3>1
  <2>4. /\ first * Span(k) <= SlotIdx(a) * Span(k)
        /\ first * Span(k) \in Nat /\ SlotIdx(a) * Span(k) \in Nat
    BY <1>0, <1>3, <1>10, <2>3, EndsOrdered
  <2>. DEFINE x == first * Span(k)
              y == SlotIdx(a) * Span(k)
  <2>5. x <= y /\ y <= x /\ x \in Nat /\ y \in Nat /\ a.start = y
    BY <2>2, <2>3, <2>4
  <2>. HIDE DEF x, y
  <2>6. a.start = x /\ x \in Nat
    BY <2>5
  <2>. QED  BY <2>6 DEF x
<1>18. b.end = EndOf(k, last * Span(k)) /\ b.end \in Nat
  <2>1. PICK q \in group : SlotIdx(q) = last
    <3>1. last \in first..last
      BY <1>10, <1>12, <1>13
    <3>. QED  BY <1>5, <3>1
  <2>2. b.end >= EndOf(k, last * Span(k))
    <3>1. q.end = EndOf(k, last * Span(k)) /\ b.end >= q.end
      BY <1>14, <1>16, <2>1
    <3>. QED  BY <3>1
  <2>3. b.end = EndOf(k, SlotIdx(b) * Span(k)) /\ SlotIdx(b) \in Nat /\ SlotIdx(b) <= last
    <3>1. b.end = EndOf(k, SlotIdx(b) * Span(k)) /\ SlotIdx(b) \in Nat /\ SlotIdx(b) \in first..last
      BY <1>14
    <3>. HIDE DEF first
    <3>. QED  BY <1>10, <1>12, <3>1
  <2>4. /\ EndOf(k, SlotIdx(b) * Span(k)) <= EndOf(k, last * Span(k))
        /\ EndOf(k, SlotIdx(b) * Span(k)) \in Int
    BY <1>0, <1>3, <1>12, <2>3, EndsOrdered
  <2>5. EndOf(k, last * Span(k)) \in Int
    BY <1>0, <1>3, <1>12, EndsOrdered
  <2>. DEFINE x == EndOf(k, last * Span(k))
              y == EndOf(k, SlotIdx(b) * Span(k))
  <2>6. y >= x /\ y <= x /\ x \in Int /\ y \in Int /\ b.end = y
    BY <2>2, <2>3, <2>4, <2>5
  <2>. HIDE DEF x, y
  <2>7. b.end = x
    BY <2>6
  <2>8. b.end \in Nat
    <3>1. b.start \in 0..(total - 1) /\ b.end = EndOf(b.layer, b.start) /\ b.layer = k
      BY <1>14, StoredNext
    <3>2. EndOf(k, b.start) \in b.start..(total - 1)
      BY <1>0, <1>3, <3>1, SlotRange
    <3>. QED  BY <1>0, <3>1, <3>2
  <2>. QED  BY <2>7, <2>8 DEF x
<1>19. /\ w \in [step : {"LeafProve", "InternalProve"}, layer : Nat, start : Nat, end : Nat, final : BOOLEAN]
       /\ w.step = "InternalProve" /\ w.layer = k + 1 /\ w.start = first * Span(k)
       /\ w.end = EndOf(k, last * Span(k))
       /\ w.final = final
       /\ Level(w) = k + 1
  <2>1. final \in BOOLEAN
    BY DEF final
  <2>2. w = [step |-> "InternalProve", layer |-> p.layer + 1, start |-> a.start, end |-> b.end, final |-> final]
    BY <1>16 DEF InternalRequest
  <2>. HIDE DEF first, k
  <2>. QED  BY <1>2, <1>3, <1>17, <1>18, <2>1, <2>2 DEF Level
<1>20. /\ WellFormed(w)
       /\ Backed(w)'
       /\ e2Unsent' => w.start + Span(Level(w)) <= total
       /\ \A i \in first..last :
             i * Span(k) \in 0..(total - 1) /\ w.start <= i * Span(k) /\ i * Span(k) < w.start + Span(k + 1)
  <2>1. g * Fan(k + 1) = first
    BY <1>6
  <2>2. \/ last = first + Fan(k + 1) - 1
        \/ ~e2Unsent' /\ last < first + Fan(k + 1) - 1 /\ last = NumSlots(total, k) - 1
    BY <1>6, <1>12 DEF N, full
  <2>3. w.step = "LeafProve" => w.layer = 0
    BY <1>19
  <2>. HIDE DEF first, k, EF
  <2>. QED  BY <1>3, <1>8, <1>10, <1>12, <1>13, <1>15, <1>19, <2>1, <2>2, <2>3, GroupAsks DEF EF
<1>21. \A v \in Asked : ~SameSlot(v, w)
  <2>1. ~Has(k, work.start)
    BY <1>1, RequestedIsOpen
  <2>2. w.start <= work.start /\ work.start < w.start + Span(k + 1)
    BY <1>4, <1>12, <1>20
  <2>. HIDE DEF k
  <2>. QED  BY <1>3, <1>19, <1>20, <2>1, <2>2, FreshByChild
<1>22. w.final <=> ~e2Unsent /\ k + 1 = EF
  BY <1>9, <1>19
<1>. QED  BY <1>19, <1>20, <1>21, <1>22 DEF NewSlot

\* handle_internal_result.
LEMMA InternalStep ==
    ASSUME TreeInv, NEW work \in requested, work.step = "InternalProve", PostTree(work)
    PROVE  TreeInv'
<1>. DEFINE p == InternalOf(work)
            r == TreeResult(work, TRUE)
            new == Requests(r)
            EF == EffectiveFinalLayer(total)
<1>0. /\ total \in Nat \ {0} /\ num_segments = (IF e2Unsent THEN None ELSE total)
      /\ work \in Asked /\ e2Unsent \in BOOLEAN
  BY TreeAssumption DEF TreeInv, Basics
<1>1. WellFormed(work) /\ Level(work) = work.layer
  BY <1>0, AskedIsTree DEF Level
<1>2. r.kind = "InternalProve" /\ r.ok /\ r.work = work
  BY DEF TreeResult
<1>3. new \subseteq InternalRequests(p)
  <2>. HIDE DEF r
  <2>1. CASE Rejected(r)
    BY <2>1 DEF Requests
  <2>2. CASE ~Rejected(r)
    BY <1>2, <2>2 DEF Requests
  <2>. QED  BY <2>1, <2>2
<1>4. /\ requested' = (requested \ {work}) \cup new /\ asked' = asked (+) SetToBag(new)
      /\ total' = total /\ e2First' = e2First /\ e2Unsent' = e2Unsent /\ unsent' = unsent
      /\ (e2First => ~e2Unsent) /\ ~IsSealedForResults /\ HandleProofResult(r)
  BY TreeDelivery
<1>5. HandleInternalResult(p)
  <2>. HIDE DEF r
  <2>. QED  BY <1>2, <1>4 DEF HandleProofResult
<1>6. p.layer = work.layer /\ p.start = work.start /\ p.end = work.end
  BY DEF InternalOf
<1>7. ~OutOfBounds(p.start) /\ ~OutOfBounds(p.end)
  <2>1. work.start \in 0..(total - 1) /\ work.end \in 0..(total - 1)
    BY <1>1, WellFormedFacts
  <2>. QED  BY <1>0, <1>6, <2>1 DEF OutOfBounds, None
<1>8. ~Duplicate(p)
  <2>. SUFFICES ASSUME NEW q \in internal_proofs, q.layer = p.layer, SlotIdx(q) = SlotIdx(p)
                PROVE  FALSE
    BY DEF Duplicate
  <2>1. q.layer \in Nat /\ q.start = SlotIdx(q) * Span(q.layer)
    BY StoredInternal
  <2>2. p.start = SlotIdx(p) * Span(p.layer)
    BY <1>0, InternalSlot
  <2>3. q.start = work.start /\ q.layer = work.layer /\ work.layer \in Nat
    BY <1>6, <2>1, <2>2
  <2>4. ~Has(work.layer, work.start)
    BY <1>1, RequestedIsOpen
  <2>. QED  BY <2>3, <2>4 DEF Has
<1>9. internal_proofs' = internal_proofs \cup {p}
      /\ UNCHANGED <<status, num_segments, app_proofs, leaf_proofs, evm_proof>>
  BY <1>5, <1>7, <1>8 DEF HandleInternalResult, Duplicate
<1>. HIDE DEF new, r
<1>10. Progress({work})
  <2>1. \A k \in Levels, s \in Nat : Has(k, s) => Has(k, s)'
    BY <1>9 DEF Has
  <2>2. FinalInternalProofPresent => FinalInternalProofPresent'
    BY <1>9 DEF FinalInternalProofPresent, SlotIdx
  <2>. QED  BY <1>0, <1>4, <1>9, <2>1, <2>2 DEF Progress, TreeInv, Basics, FlagInv
<1>11. ASSUME NEW w \in new
       PROVE  \/ NewEvm(w)
              \/ /\ NewSlot(w) /\ w.step = "InternalProve"
                 /\ w.final \in BOOLEAN
                 /\ w.final <=> ~e2Unsent /\ work.layer + 1 = EF
  <2>1. w \in InternalRequests(p)
    BY <1>3
  <2>2. CASE num_segments # None /\ p.layer = EffectiveFinalLayer(num_segments)
    <3>1. ~e2Unsent /\ num_segments = total /\ work.layer = EF
      BY <1>0, <1>6, <2>2
    <3>2. ProofType = "Evm" /\ w = EvmRequest
      BY <1>7, <1>8, <2>1, <2>2 DEF InternalRequests
    <3>3. NewEvm(EvmRequest)
      BY <1>4, <1>9, <1>10, <3>1, <3>2, EvmAsks
    <3>. QED  BY <3>2, <3>3
  <2>3. CASE /\ ~(num_segments # None /\ p.layer = EffectiveFinalLayer(num_segments))
             /\ num_segments # None /\ LayersFor(num_segments) = 1 /\ p.layer = 0
    <3>1. ~e2Unsent /\ num_segments = total /\ work.layer = 0 /\ LayersFor(total) = 1
      BY <1>0, <1>6, <2>3
    <3>2. w = InternalRequest(1, p.start, p.end, TRUE)
      BY <1>7, <1>8, <2>1, <2>3 DEF InternalRequests
    <3>3. work.start \in Nat /\ work.end \in Nat
      BY <1>0, <1>1, WellFormedFacts
    <3>4. /\ w \in [step : {"LeafProve", "InternalProve"}, layer : Nat, start : Nat, end : Nat,
                    final : BOOLEAN]
          /\ w.step = "InternalProve" /\ w.layer = 1 /\ w.start = work.start /\ w.end = work.end
          /\ w.final = TRUE
      BY <1>6, <3>2, <3>3 DEF InternalRequest
    <3>5. NewSlot(w) /\ EF = 1
      BY <1>4, <1>9, <1>10, <3>1, <3>4, WrapAsks
    <3>. QED  BY <3>1, <3>4, <3>5
  <2>4. CASE /\ ~(num_segments # None /\ p.layer = EffectiveFinalLayer(num_segments))
             /\ ~(num_segments # None /\ LayersFor(num_segments) = 1 /\ p.layer = 0)
    <3>1. w \in ParentRequests(p)
      BY <1>7, <1>8, <2>1, <2>4 DEF InternalRequests
    <3>2. ~e2Unsent => work.layer # EF /\ ~(LayersFor(total) = 1 /\ work.layer = 0)
      BY <1>0, <1>6, <2>4 DEF None
    <3>3. /\ NewSlot(w) /\ w.step = "InternalProve"
          /\ w.final <=> ~e2Unsent /\ work.layer + 1 = EF
      BY <1>4, <1>9, <1>10, <3>1, <3>2, ParentAsks
    <3>4. w.final \in BOOLEAN
      BY <3>3 DEF NewSlot, WellFormed
    <3>. QED  BY <3>3, <3>4
  <2>. QED  BY <2>2, <2>3, <2>4
<1>12. \A v, w \in new : SameSlot(v, w) => v = w
  <2>. SUFFICES ASSUME NEW v \in new, NEW w \in new, SameSlot(v, w) PROVE v = w
    OBVIOUS
  <2>1. \A u \in new : NewEvm(u) => u = EvmRequest /\ u.step = "EvmProve"
    BY DEF NewEvm, EvmRequest
  <2>2. CASE NewEvm(v) \/ NewEvm(w)
    <3>1. v.step = "EvmProve" /\ w.step = "EvmProve"
      BY <2>1, <2>2 DEF SameSlot
    <3>2. NewEvm(v) /\ NewEvm(w)
      BY <1>11, <3>1
    <3>. QED  BY <2>1, <3>2
  <2>3. CASE ~NewEvm(v) /\ ~NewEvm(w)
    <3>1. NewSlot(v) /\ NewSlot(w) /\ v.final = w.final
      BY <1>11, <2>3
    <3>. QED  BY <3>1, SameRequest DEF NewSlot
  <2>. QED  BY <2>2, <2>3
<1>13. \A w \in new : NewSlot(w) \/ NewEvm(w)
  BY <1>11
<1>. QED  BY <1>4, <1>10, <1>12, <1>13, TreeGrows

\* handle_halo2_result.
LEMMA EvmStep ==
    ASSUME TreeInv, NEW work \in requested, work.step = "EvmProve", PostTree(work)
    PROVE  TreeInv'
<1>. DEFINE r == TreeResult(work, TRUE)
            new == Requests(r)
<1>0. /\ total \in Nat \ {0} /\ num_segments = (IF e2Unsent THEN None ELSE total)
      /\ work \in Asked /\ e2Unsent \in BOOLEAN
  BY TreeAssumption DEF TreeInv, Basics
<1>1. work = EvmRequest /\ ProofType = "Evm"
  BY <1>0, AskedIsTree DEF TreeInv, AskedInv
<1>2. r.kind = "EvmProve" /\ r.ok /\ r.work = work
  BY DEF TreeResult
<1>3. new = {}
  <2>. HIDE DEF r
  <2>. QED  BY <1>2 DEF Requests
<1>4. /\ requested' = (requested \ {work}) \cup new /\ asked' = asked (+) SetToBag(new)
      /\ total' = total /\ e2First' = e2First /\ e2Unsent' = e2Unsent /\ unsent' = unsent
      /\ (e2First => ~e2Unsent) /\ ~IsSealedForResults /\ HandleProofResult(r)
  BY TreeDelivery
<1>5. HandleHalo2Result
  <2>. HIDE DEF r
  <2>. QED  BY <1>2, <1>4 DEF HandleProofResult
<1>6. evm_proof' = TRUE
      /\ UNCHANGED <<status, num_segments, app_proofs, leaf_proofs, internal_proofs>>
  BY <1>1, <1>5 DEF HandleHalo2Result
<1>. HIDE DEF new, r
<1>7. Progress({work})
  <2>1. \A k \in Levels, s \in Nat : Has(k, s) => Has(k, s)'
    BY <1>6 DEF Has
  <2>2. FinalInternalProofPresent => FinalInternalProofPresent'
    BY <1>6 DEF FinalInternalProofPresent, SlotIdx
  <2>. QED  BY <1>0, <1>1, <1>4, <1>6, <2>1, <2>2 DEF Progress, TreeInv, Basics, FlagInv
<1>. QED  BY <1>3, <1>4, <1>7, TreeGrows
-----------------------------------------------------------------------------
(* Theorems *)

LEMMA TreeInit ==
    Init => TreeInv
<1>. SUFFICES ASSUME Init PROVE TreeInv
  OBVIOUS
<1>1. /\ status = "InProgress" /\ num_segments = None /\ app_proofs = {} /\ leaf_proofs = {}
      /\ internal_proofs = {} /\ evm_proof = FALSE
      /\ total \in SegmentCounts /\ e2First \in BOOLEAN /\ unsent = 0..(total - 1)
      /\ e2Unsent = TRUE /\ requested = {} /\ asked = EmptyBag
  BY DEF Init, NewProofState
<1>2. Asked = {} /\ asked = SetToBag({})
  BY <1>1 DEF Asked, BagToSet, EmptyBag, SetToBag
<1>3. Basics
  BY <1>1, <1>2 DEF Basics
<1>. QED  BY <1>1, <1>2, <1>3 DEF TreeInv, AskedInv, BackedInv, StoredInv, FlagInv

LEMMA TreeStutter ==
    ASSUME TreeInv, UNCHANGED treeSpecVars PROVE TreeInv'
<1>1. UNCHANGED <<status, num_segments, app_proofs, leaf_proofs, internal_proofs, evm_proof,
                  total, e2First, unsent, e2Unsent, requested, asked>>
  BY DEF treeSpecVars, proofVars
<1>. QED  BY <1>1 DEF TreeInv, Basics, AskedInv, BackedInv, StoredInv, FlagInv, Asked, WellFormed,
                      EndOf, Backed, Has, Level, FinalInternalProofPresent, SlotIdx

LEMMA TreeNext ==
    ASSUME TreeInv, [Next]_treeSpecVars PROVE TreeInv'
<1>1. CASE \E seg \in unsent : PostApp(seg)
  BY <1>1, AppStep
<1>2. CASE PostExecuteE2
  BY <1>2, E2Step
<1>3. ASSUME NEW work \in requested, PostTree(work) PROVE TreeInv'
  <2>1. work \in Asked
    BY DEF TreeInv, Basics
  <2>2. work.step \in {"LeafProve", "InternalProve", "EvmProve"}
    <3>1. work.step # "EvmProve" => WellFormed(work)
      BY <2>1, AskedIsTree
    <3>2. WellFormed(work) => work.step \in {"LeafProve", "InternalProve"}
      BY DEF WellFormed
    <3>. QED  BY <3>1, <3>2
  <2>. QED  BY <1>3, <2>2, LeafStep, InternalStep, EvmStep
<1>4. CASE UNCHANGED treeSpecVars
  BY <1>4, TreeStutter
<1>. QED  BY <1>1, <1>2, <1>3, <1>4 DEF Next

LEMMA TreeInvariant ==
    Spec => []TreeInv
<1>1. Init => TreeInv
  BY TreeInit
<1>2. TreeInv /\ [Next]_treeSpecVars => TreeInv'
  BY TreeNext
<1>. QED  BY <1>1, <1>2, PTL DEF Spec

\* Every reachable ProofState is well typed, and only what was asked for is in
\* flight, for all arities and segment counts.
THEOREM TreeTypesHold ==
    Spec => []TypeOK
<1>1. TreeInv => TypeOK
  <2>. SUFFICES ASSUME TreeInv PROVE TypeOK
    OBVIOUS
  <2>0. total \in Nat \ {0} /\ total \in SegmentCounts
    BY TreeAssumption DEF TreeInv, Basics
  <2>1. \A p \in leaf_proofs : 0 <= p.start /\ p.start <= p.end
    <3>. SUFFICES ASSUME NEW p \in leaf_proofs PROVE 0 <= p.start /\ p.start <= p.end
      OBVIOUS
    <3>1. p.start \in 0..(total - 1) /\ p.end = EndOf(-1, p.start) /\ -1 \in Levels
      BY StoredLeaf DEF Levels
    <3>2. EndOf(-1, p.start) \in p.start..(total - 1)
      BY <2>0, <3>1, SlotRange
    <3>. QED  BY <2>0, <3>1, <3>2
  <2>2. \A p \in internal_proofs : p.layer \in Nat /\ 0 <= p.start /\ p.start <= p.end
    <3>. SUFFICES ASSUME NEW p \in internal_proofs
                  PROVE  p.layer \in Nat /\ 0 <= p.start /\ p.start <= p.end
      OBVIOUS
    <3>1. p.layer \in Nat /\ p.start \in 0..(total - 1) /\ p.end = EndOf(p.layer, p.start)
      BY StoredInternal
    <3>2. EndOf(p.layer, p.start) \in p.start..(total - 1)
      <4>1. p.layer \in Levels
        BY <3>1 DEF Levels
      <4>. QED  BY <2>0, <3>1, <4>1, SlotRange
    <3>. QED  BY <2>0, <3>1, <3>2
  <2>. QED  BY <2>0, <2>1, <2>2 DEF TypeOK, TreeInv, Basics, Statuses, Asked
<1>. QED  BY <1>1, TreeInvariant, PTL

\* In whatever order the results arrive, no slot of the tree is requested twice:
\* the three places of result_handler.rs that ask for a slot never overlap.
THEOREM EachSlotRequestedOnceHolds ==
    Spec => []EachSlotRequestedOnce
<1>1. TreeInv => EachSlotRequestedOnce
  <2>. SUFFICES ASSUME TreeInv PROVE EachSlotRequestedOnce
    OBVIOUS
  <2>1. \A w \in Asked : asked[w] = 1
    <3>. DEFINE A == Asked
    <3>1. asked = SetToBag(A)
      BY DEF TreeInv, Basics
    <3>. HIDE DEF A
    <3>2. \A w \in A : SetToBag(A)[w] = 1
      BY DEF SetToBag
    <3>. QED  BY <3>1, <3>2 DEF A
  <2>2. \A v, w \in Asked : SameSlot(v, w) => v = w
    BY DEF TreeInv, AskedInv
  <2>. QED  BY <2>1, <2>2 DEF EachSlotRequestedOnce, Asked, SameSlot
<1>. QED  BY <1>1, TreeInvariant, PTL

\* The inputs of every request in flight are stored, and they tile its range.
THEOREM RequestsAreBackedHolds ==
    Spec => []RequestsAreBacked
<1>1. TreeInv => RequestsAreBacked
  BY BackedByChildren
<1>. QED  BY <1>1, TreeInvariant, PTL

\* When is_ready_for_finalization answers yes, the final internal proof covers
\* every segment, and no work of the proof is left at a worker.
THEOREM FinalProofCoversAllHolds ==
    Spec => []FinalProofCoversAll
<1>1. TreeInv => FinalProofCoversAll
  BY FinalCovers
<1>. QED  BY <1>1, TreeInvariant, PTL

\* Where the scheduler holds tree work back until ExecuteE2, is_final_proof is
\* set on the requests of the effective final layer and on no other.
THEOREM FinalFlagIsExactHolds ==
    Spec => []FinalFlagIsExact
<1>1. TreeInv => FinalFlagIsExact
  BY DEF TreeInv, FlagInv, FinalFlagIsExact, Asked
<1>. QED  BY <1>1, TreeInvariant, PTL
=============================================================================
