--------------------------- MODULE RecursionLemmas ---------------------------
(***************************************************************************)
(* What the arithmetic of RecursionTree computes, for all arities, layers  *)
(* and counts.  Induction is by a least counterexample in a set of         *)
(* numbers, and the recursive functions exist by a lemma of the same kind. *)
(***************************************************************************)
EXTENDS RecursionTree, WellFoundedInduction, TLAPS

(* Induction and recursion over the naturals *)

\* A non-empty set of naturals has a least element.
LEMMA LeastElement ==
    ASSUME NEW S \in SUBSET Nat, S # {} PROVE \E m \in S : \A k \in S : m <= k
<1>1. PICK m \in S : \A k \in S : ~(<<k, m>> \in OpToRel(<, Nat))
  BY NatLessThanWellFounded, WFMin
<1>2. \A k \in S : ~(k < m)
  BY <1>1 DEF OpToRel
<1>3. \A k \in S : m <= k
  BY <1>2
<1>. QED  BY <1>3

\* Strong induction, over a set instead of a predicate.
LEMMA StrongInduction ==
    ASSUME NEW S, \A n \in Nat : (\A m \in 0..(n - 1) : m \in S) => n \in S
    PROVE  Nat \subseteq S
<1>. DEFINE T == Nat \ S
<1>1. SUFFICES ASSUME T # {} PROVE FALSE
  OBVIOUS
<1>2. PICK n \in T : \A k \in T : n <= k
  BY <1>1, LeastElement
<1>3. \A m \in 0..(n - 1) : m \in S
  BY <1>2
<1>. QED  BY <1>2, <1>3

\* d leads from every number outside of B to a smaller one.
Falls(d, B) == d \in [Nat -> Nat] /\ \A x \in Nat : x \notin B => d[x] < x

\* f is c on B and elsewhere G of the value at d[x].
Recurs(f, V, c, G, B, d) ==
    f \in [Nat -> V] /\ \A x \in Nat : f[x] = IF x \in B THEN c ELSE G[f[d[x]]]

\* A function defined by recursion to smaller arguments exists.
LEMMA RecursionExists ==
    ASSUME NEW V, NEW c \in V, NEW G \in [V -> V], NEW B, NEW d, Falls(d, B)
    PROVE  \E f : Recurs(f, V, c, G, B, d)
<1>. USE DEF Falls
<1>. DEFINE P(g, m) == /\ g \in [0..m -> V]
                       /\ \A x \in 0..m : g[x] = IF x \in B THEN c ELSE G[g[d[x]]]
            S == {m \in Nat : \E g : P(g, m)}
            U == {x \in Nat : \A m, n \in Nat : \A g, h :
                    (P(g, m) /\ P(h, n) /\ x <= m /\ x <= n) => g[x] = h[x]}
<1>1. ASSUME NEW n \in Nat, \A m \in 0..(n - 1) : m \in S PROVE n \in S
  <2>1. CASE n = 0
    <3>. DEFINE g == [x \in 0..0 |-> c]
    <3>0. 0 \in B
      <4>1. 0 \notin B => d[0] < 0 /\ d[0] \in Nat
        OBVIOUS
      <4>. QED  BY <4>1
    <3>1. P(g, 0)
      BY <3>0
    <3>2. \E h : P(h, 0)
      BY <3>1
    <3>. QED  BY <2>1, <3>2
  <2>2. CASE n > 0
    <3>1. n - 1 \in S
      BY <1>1, <2>2
    <3>2. PICK g : P(g, n - 1)
      BY <3>1
    <3>. DEFINE v == IF n \in B THEN c ELSE G[g[d[n]]]
                h == [x \in 0..n |-> IF x < n THEN g[x] ELSE v]
    <3>3. v \in V
      <4>1. n \notin B => d[n] \in 0..(n - 1)
        BY <1>1
      <4>. QED  BY <3>2, <4>1
    <3>4. \A x \in 0..n : x < n => x \in 0..(n - 1)
      OBVIOUS
    <3>5. h \in [0..n -> V]
      BY <3>2, <3>3, <3>4
    <3>6. ASSUME NEW x \in 0..n PROVE h[x] = IF x \in B THEN c ELSE G[h[d[x]]]
      <4>1. CASE x \in B
        BY <3>2, <3>4, <4>1
      <4>2. CASE x \notin B
        <5>1. d[x] \in 0..n /\ d[x] < x /\ d[x] < n
          BY <4>2
        <5>2. h[d[x]] = g[d[x]]
          BY <5>1
        <5>3. h[x] = G[g[d[x]]]
          BY <3>2, <3>4, <4>2
        <5>. QED  BY <4>2, <5>2, <5>3
      <4>. QED  BY <4>1, <4>2
    <3>. HIDE DEF h
    <3>7. P(h, n)
      BY <3>5, <3>6
    <3>8. \E k : P(k, n)
      BY <3>7
    <3>. QED  BY <3>8
  <2>3. n = 0 \/ n > 0
    OBVIOUS
  <2>. HIDE DEF S
  <2>. QED  BY <2>1, <2>2, <2>3
<1>2. \A m \in Nat : \E g : P(g, m)
  <2>. HIDE DEF S
  <2>1. Nat \subseteq S
    BY <1>1, StrongInduction
  <2>. QED  BY <2>1 DEF S
<1>3. ASSUME NEW y \in Nat, \A x \in 0..(y - 1) : x \in U PROVE y \in U
  <2>1. ASSUME NEW m \in Nat, NEW n \in Nat, NEW g, NEW h,
               P(g, m), P(h, n), y <= m, y <= n
        PROVE  g[y] = h[y]
    <3>1. CASE y \in B
      BY <2>1, <3>1
    <3>2. CASE y \notin B
      <4>. HIDE DEF P, U
      <4>1. d[y] \in 0..(y - 1) /\ d[y] <= m /\ d[y] <= n
        <5>1. d[y] \in Nat /\ d[y] < y
          BY <3>2
        <5>. QED  BY <2>1, <5>1
      <4>2. d[y] \in U
        BY <1>3, <4>1
      <4>3. g[d[y]] = h[d[y]]
        BY <2>1, <4>1, <4>2 DEF U
      <4>4. g[y] = G[g[d[y]]] /\ h[y] = G[h[d[y]]]
        BY <2>1, <3>2 DEF P
      <4>. QED  BY <4>3, <4>4
    <3>. QED  BY <3>1, <3>2
  <2>. HIDE DEF P
  <2>2. \A m, n \in Nat : \A g, h :
           (P(g, m) /\ P(h, n) /\ y <= m /\ y <= n) => g[y] = h[y]
    BY <2>1
  <2>. QED  BY <2>2
<1>4. \A x \in Nat : \A m, n \in Nat : \A g, h :
          (P(g, m) /\ P(h, n) /\ x <= m /\ x <= n) => g[x] = h[x]
  <2>. HIDE DEF U, P
  <2>1. Nat \subseteq U
    BY <1>3, StrongInduction
  <2>. QED  BY <2>1 DEF U
<1>. DEFINE A(m) == CHOOSE g : P(g, m)
            f == [m \in Nat |-> A(m)[m]]
<1>5. \A m \in Nat : P(A(m), m)
  BY <1>2
<1>. HIDE DEF A
<1>6. f \in [Nat -> V]
  BY <1>5
<1>7. ASSUME NEW x \in Nat PROVE f[x] = IF x \in B THEN c ELSE G[f[d[x]]]
  <2>1. CASE x \in B
    BY <1>5, <2>1
  <2>2. CASE x \notin B
    <3>1. A(x)[x] = G[A(x)[d[x]]] /\ d[x] \in Nat /\ d[x] <= x
      BY <1>5, <2>2
    <3>2. P(A(x), x) /\ P(A(d[x]), d[x])
      BY <1>5, <3>1
    <3>. HIDE DEF P
    <3>3. A(x)[d[x]] = A(d[x])[d[x]]
      BY <1>4, <3>1, <3>2
    <3>. QED  BY <2>2, <3>1, <3>3
  <2>. QED  BY <2>1, <2>2
<1>. QED  BY <1>6, <1>7 DEF Recurs
-----------------------------------------------------------------------------
(* Rounding *)

\* The quotient is what its bounds say.
LEMMA DivUnique ==
    ASSUME NEW n \in Int, NEW b \in Nat \ {0}, NEW q \in Int, b * q <= n, n < b * q + b
    PROVE  n \div b = q
OBVIOUS

\* DivCeil(n, b) is the number of groups of b that n things need.
LEMMA DivCeilBounds ==
    ASSUME NEW n \in Nat, NEW b \in Nat \ {0}
    PROVE  /\ DivCeil(n, b) \in Nat
           /\ DivCeil(n, b) * b < n + b
           /\ n <= DivCeil(n, b) * b
BY DEF DivCeil

LEMMA DivCeilUnique ==
    ASSUME NEW n \in Nat, NEW b \in Nat \ {0}, NEW c \in Int, c * b < n + b, n <= c * b
    PROVE  DivCeil(n, b) = c
BY DEF DivCeil

\* Rounding up in two stages is rounding up once.
LEMMA DivCeilNested ==
    ASSUME NEW n \in Nat, NEW a \in Nat \ {0}, NEW b \in Nat \ {0}
    PROVE  DivCeil(DivCeil(n, a), b) = DivCeil(n, a * b)
<1>. DEFINE m == DivCeil(n, a)
            c == DivCeil(m, b)
<1>1. m \in Nat /\ m * a < n + a /\ n <= m * a
  BY DivCeilBounds
<1>. HIDE DEF m
<1>2. c \in Nat /\ c * b < m + b /\ m <= c * b
  BY <1>1, DivCeilBounds
<1>. HIDE DEF c
<1>3. a * b \in Nat \ {0} /\ c * b \in Nat /\ c * (a * b) = (c * b) * a
  BY <1>2
<1>4. n <= c * (a * b)
  <2>1. m * a <= (c * b) * a
    BY <1>1, <1>2, <1>3
  <2>. QED  BY <1>1, <1>3, <2>1
<1>5. c * (a * b) < n + a * b
  <2>1. (c * b + 1 - b) * a <= m * a
    <3>1. c * b + 1 - b <= m
      BY <1>1, <1>2
    <3>. QED  BY <1>1, <1>2, <3>1
  <2>2. (c * b + 1 - b) * a = (c * b) * a + a - a * b
    BY <1>2
  <2>. QED  BY <1>1, <1>3, <2>1, <2>2
<1>6. DivCeil(n, a * b) = c
  BY <1>2, <1>3, <1>4, <1>5, DivCeilUnique
<1>. QED  BY <1>6 DEF c, m

\* More than one node shrinks, and to one at least.
LEMMA DivCeilShrinks ==
    ASSUME NEW n \in Nat, NEW b \in Nat \ {0, 1}
    PROVE  /\ n > 1 => DivCeil(n, b) < n
           /\ n > 0 => DivCeil(n, b) > 0
<1>. DEFINE c == DivCeil(n, b)
<1>1. c \in Nat /\ c * b < n + b /\ n <= c * b
  BY DivCeilBounds
<1>. HIDE DEF c
<1>2. n > 0 => c > 0
  BY <1>1
<1>3. ASSUME n > 1, c >= n PROVE FALSE
  <2>1. (c - 1) * b >= (c - 1) * 2
    BY <1>1, <1>3
  <2>2. c * b - b = (c - 1) * b
    BY <1>1
  <2>. QED  BY <1>1, <1>3, <2>1, <2>2
<1>. QED  BY <1>1, <1>2, <1>3 DEF c
-----------------------------------------------------------------------------
(* The recursive functions *)

\* The loop over base multiplies.
LEMMA ScaledRecursion ==
    ASSUME NEW base \in Nat \ {0}, NEW a \in Nat \ {0}
    PROVE  /\ Scaled(base, a, 0) = base
           /\ \A k \in Nat : /\ Scaled(base, a, k) \in Nat \ {0}
                             /\ Scaled(base, a, k + 1) = a * Scaled(base, a, k)
<1>. DEFINE V == Nat \ {0}
            F(f) == [k \in Nat |-> IF k = 0 THEN base ELSE a * f[k - 1]]
            g == CHOOSE f : f = F(f)
            G == [v \in V |-> a * v]
            d == [x \in Nat |-> IF x = 0 THEN 0 ELSE x - 1]
            B == {0}
<1>1. G \in [V -> V] /\ Falls(d, B) /\ base \in V
  BY DEF Falls
<1>2. PICK f : Recurs(f, V, base, G, B, d)
  <2>. HIDE DEF G, d, V, B
  <2>. QED  BY <1>1, RecursionExists
<1>3. f = F(f)
  <2>1. \A x \in Nat : x # 0 => x - 1 \in Nat /\ d[x] = x - 1
    OBVIOUS
  <2>2. \A x \in Nat : f[x] = IF x = 0 THEN base ELSE a * f[x - 1]
    BY <1>2, <2>1 DEF Recurs
  <2>3. f = [x \in Nat |-> f[x]]
    BY <1>2 DEF Recurs
  <2>. QED  BY <2>2, <2>3
<1>. HIDE DEF F
<1>4. g = F(g)
  BY <1>3
<1>. HIDE DEF g
<1>5. \A k \in Nat : g[k] = IF k = 0 THEN base ELSE a * g[k - 1]
  BY <1>4 DEF F
<1>6. \A k \in Nat : Scaled(base, a, k) = g[k]
  BY DEF Scaled, g, F
<1>. DEFINE S == {k \in Nat : g[k] \in Nat \ {0}}
<1>7. ASSUME NEW n \in Nat, \A m \in 0..(n - 1) : m \in S PROVE n \in S
  <2>1. CASE n = 0
    BY <1>5, <2>1
  <2>2. CASE n > 0
    <3>1. n - 1 \in S
      BY <1>7, <2>2
    <3>2. g[n] = a * g[n - 1] /\ g[n - 1] \in Nat \ {0}
      BY <1>5, <2>2, <3>1
    <3>. QED  BY <3>2
  <2>. QED  BY <2>1, <2>2
<1>8. \A k \in Nat : g[k] \in Nat \ {0}
  <2>. HIDE DEF S
  <2>1. Nat \subseteq S
    BY <1>7, StrongInduction
  <2>. QED  BY <2>1 DEF S
<1>9. \A k \in Nat : g[k + 1] = a * g[k]
  <2>. SUFFICES ASSUME NEW k \in Nat PROVE g[k + 1] = a * g[k]
    OBVIOUS
  <2>1. k + 1 \in Nat /\ k + 1 # 0 /\ (k + 1) - 1 = k
    OBVIOUS
  <2>. QED  BY <1>5, <2>1
<1>10. g[0] = base
  BY <1>5
<1>. QED  BY <1>6, <1>8, <1>9, <1>10

\* The counting loop of num_internal_layers_for_leaf_count.
LEMMA LayersRecursion ==
    ASSUME NEW a \in Nat \ {0, 1}
    PROVE  /\ \A n \in Nat : n <= 1 => NumInternalLayers(n, a) = 1
           /\ \A n \in Nat : n > 1 =>
                 NumInternalLayers(n, a) =
                   IF DivCeil(n, a) <= 1 THEN 1 ELSE 1 + NumInternalLayers(DivCeil(n, a), a)
           /\ \A n \in Nat : NumInternalLayers(n, a) \in Nat \ {0}
<1>. DEFINE F(f) == [k \in Nat |-> IF k <= 1 THEN 0 ELSE 1 + f[DivCeil(k, a)]]
            g == CHOOSE f : f = F(f)
            G == [v \in Nat |-> 1 + v]
            d == [x \in Nat |-> DivCeil(x, a)]
            B == {0, 1}
<1>1. G \in [Nat -> Nat] /\ Falls(d, B)
  <2>1. \A x \in Nat : DivCeil(x, a) \in Nat
    BY DivCeilBounds
  <2>2. \A x \in Nat : x \notin B => DivCeil(x, a) < x
    <3>1. \A x \in Nat : x \notin B => x > 1
      OBVIOUS
    <3>. QED  BY <3>1, DivCeilShrinks
  <2>. QED  BY <2>1, <2>2 DEF Falls
<1>2. PICK f : Recurs(f, Nat, 0, G, B, d)
  <2>1. 0 \in Nat
    OBVIOUS
  <2>. HIDE DEF G, d, B
  <2>. QED  BY <1>1, <2>1, RecursionExists
<1>3. f = F(f)
  <2>1. \A x \in Nat : DivCeil(x, a) \in Nat /\ (x \in B <=> x <= 1)
    BY DivCeilBounds
  <2>2. \A x \in Nat : f[x] = IF x <= 1 THEN 0 ELSE 1 + f[DivCeil(x, a)]
    BY <1>2, <2>1 DEF Recurs
  <2>3. f = [x \in Nat |-> f[x]]
    BY <1>2 DEF Recurs
  <2>. QED  BY <2>2, <2>3
<1>. HIDE DEF F
<1>4. g = F(g)
  BY <1>3
<1>. HIDE DEF g
<1>5. \A k \in Nat : g[k] = IF k <= 1 THEN 0 ELSE 1 + g[DivCeil(k, a)]
  BY <1>4 DEF F
<1>6. \A n \in Nat : NumInternalLayers(n, a) = IF n <= 1 THEN 1 ELSE g[n]
  BY DEF NumInternalLayers, g, F
<1>. DEFINE S == {k \in Nat : g[k] \in Nat}
<1>7. ASSUME NEW n \in Nat, \A m \in 0..(n - 1) : m \in S PROVE n \in S
  <2>1. CASE n <= 1
    BY <1>5, <2>1
  <2>2. CASE n > 1
    <3>1. DivCeil(n, a) \in 0..(n - 1)
      <4>1. DivCeil(n, a) \in Nat /\ DivCeil(n, a) < n
        BY <2>2, DivCeilBounds, DivCeilShrinks
      <4>. QED  BY <4>1
    <3>2. g[n] = 1 + g[DivCeil(n, a)] /\ g[DivCeil(n, a)] \in Nat
      BY <1>5, <1>7, <2>2, <3>1
    <3>. QED  BY <3>2
  <2>. QED  BY <2>1, <2>2
<1>8. \A k \in Nat : g[k] \in Nat
  <2>. HIDE DEF S
  <2>1. Nat \subseteq S
    BY <1>7, StrongInduction
  <2>. QED  BY <2>1 DEF S
<1>9. ASSUME NEW n \in Nat, n > 1
      PROVE  g[n] = (IF DivCeil(n, a) <= 1 THEN 1 ELSE 1 + g[DivCeil(n, a)]) /\ g[n] > 0
  <2>1. DivCeil(n, a) \in Nat
    BY DivCeilBounds
  <2>2. g[n] = 1 + g[DivCeil(n, a)] /\ g[DivCeil(n, a)] \in Nat
    BY <1>5, <1>8, <1>9, <2>1
  <2>3. DivCeil(n, a) <= 1 => g[DivCeil(n, a)] = 0
    BY <1>5, <2>1
  <2>. QED  BY <2>2, <2>3
<1>10. ASSUME NEW n \in Nat, n > 1
       PROVE  NumInternalLayers(n, a) =
                 IF DivCeil(n, a) <= 1 THEN 1 ELSE 1 + NumInternalLayers(DivCeil(n, a), a)
  <2>1. DivCeil(n, a) \in Nat
    BY DivCeilBounds
  <2>. QED  BY <1>6, <1>9, <1>10, <2>1
<1>11. \A n \in Nat : NumInternalLayers(n, a) \in Nat \ {0}
  <2>. SUFFICES ASSUME NEW n \in Nat PROVE NumInternalLayers(n, a) \in Nat \ {0}
    OBVIOUS
  <2>1. CASE n <= 1
    BY <1>6, <2>1
  <2>2. CASE n > 1
    <3>1. g[n] \in Nat /\ g[n] > 0
      BY <1>8, <1>9, <2>2
    <3>. QED  BY <1>6, <2>2, <3>1
  <2>. QED  BY <2>1, <2>2
<1>. QED  BY <1>6, <1>10, <1>11

\* The folding loop of num_proofs_at_internal_layer_for_leaf_count.
LEMMA FoldRecursion ==
    ASSUME NEW a \in Nat \ {0, 1}, NEW n \in Nat
    PROVE  /\ NumProofsAtInternalLayer(n, 0, a) = IF n = 1 THEN 0 ELSE DivCeil(n, a)
           /\ \A k \in Nat : /\ NumProofsAtInternalLayer(n, k, a) \in Nat
                             /\ NumProofsAtInternalLayer(n, k + 1, a) =
                                  IF NumProofsAtInternalLayer(n, k, a) = 1 THEN 0
                                  ELSE DivCeil(NumProofsAtInternalLayer(n, k, a), a)
<1>. DEFINE F(f) == [k \in Nat |-> IF k = 0 THEN n
                                   ELSE IF f[k - 1] = 1 THEN 0
                                   ELSE DivCeil(f[k - 1], a)]
            g == CHOOSE f : f = F(f)
            G == [v \in Nat |-> IF v = 1 THEN 0 ELSE DivCeil(v, a)]
            d == [x \in Nat |-> IF x = 0 THEN 0 ELSE x - 1]
            B == {0}
<1>0. \A x \in Nat : DivCeil(x, a) \in Nat
  BY DivCeilBounds
<1>1. G \in [Nat -> Nat] /\ Falls(d, B)
  BY <1>0 DEF Falls
<1>2. PICK f : Recurs(f, Nat, n, G, B, d)
  <2>. HIDE DEF G, d, B
  <2>. QED  BY <1>1, RecursionExists
<1>3. f = F(f)
  <2>1. \A x \in Nat : x # 0 => x - 1 \in Nat /\ d[x] = x - 1 /\ x \notin B
    OBVIOUS
  <2>2. \A x \in Nat : f[x] \in Nat
    BY <1>2 DEF Recurs
  <2>3. \A x \in Nat : x # 0 => f[x] = G[f[x - 1]]
    <3>. HIDE DEF G, d, B
    <3>. QED  BY <1>2, <2>1 DEF Recurs
  <2>4. f[0] = n
    BY <1>2 DEF Recurs
  <2>5. \A x \in Nat : f[x] = IF x = 0 THEN n ELSE IF f[x - 1] = 1 THEN 0 ELSE DivCeil(f[x - 1], a)
    BY <2>1, <2>2, <2>3, <2>4
  <2>6. f = [x \in Nat |-> f[x]]
    BY <1>2 DEF Recurs
  <2>. QED  BY <2>5, <2>6
<1>. HIDE DEF F
<1>4. g = F(g)
  BY <1>3
<1>. HIDE DEF g
<1>5. \A k \in Nat : g[k] = IF k = 0 THEN n ELSE IF g[k - 1] = 1 THEN 0 ELSE DivCeil(g[k - 1], a)
  BY <1>4 DEF F
<1>6. \A k \in Nat : NumProofsAtInternalLayer(n, k, a) = g[k + 1]
  BY DEF NumProofsAtInternalLayer, g, F
<1>. HIDE DEF G, d, B
<1>7. ASSUME NEW k \in Nat PROVE g[k + 1] = IF g[k] = 1 THEN 0 ELSE DivCeil(g[k], a)
  <2>1. k + 1 \in Nat /\ k + 1 # 0 /\ (k + 1) - 1 = k
    OBVIOUS
  <2>. QED  BY <1>5, <2>1
<1>. DEFINE S == {k \in Nat : g[k] \in Nat}
<1>8. ASSUME NEW k \in Nat, \A m \in 0..(k - 1) : m \in S PROVE k \in S
  <2>1. CASE k = 0
    BY <1>5, <2>1
  <2>2. CASE k > 0
    <3>1. k - 1 \in S
      BY <1>8, <2>2
    <3>2. g[k - 1] \in Nat /\ g[k] = IF g[k - 1] = 1 THEN 0 ELSE DivCeil(g[k - 1], a)
      BY <1>5, <2>2, <3>1
    <3>. QED  BY <1>0, <3>2
  <2>. QED  BY <2>1, <2>2
<1>9. \A k \in Nat : g[k] \in Nat
  <2>. HIDE DEF S
  <2>1. Nat \subseteq S
    BY <1>8, StrongInduction
  <2>. QED  BY <2>1 DEF S
<1>10. NumProofsAtInternalLayer(n, 0, a) = IF n = 1 THEN 0 ELSE DivCeil(n, a)
  <2>1. NumProofsAtInternalLayer(n, 0, a) = g[1]
    BY <1>6
  <2>2. g[0] = n
    BY <1>5
  <2>3. g[1] = IF g[0] = 1 THEN 0 ELSE DivCeil(g[0], a)
    BY <1>7
  <2>. QED  BY <2>1, <2>2, <2>3
<1>11. ASSUME NEW k \in Nat
       PROVE  /\ NumProofsAtInternalLayer(n, k, a) \in Nat
              /\ NumProofsAtInternalLayer(n, k + 1, a) =
                    IF NumProofsAtInternalLayer(n, k, a) = 1 THEN 0
                    ELSE DivCeil(NumProofsAtInternalLayer(n, k, a), a)
  <2>1. k + 1 \in Nat
    OBVIOUS
  <2>2. NumProofsAtInternalLayer(n, k, a) = g[k + 1] /\ NumProofsAtInternalLayer(n, k + 1, a) = g[(k + 1) + 1]
    BY <1>6, <2>1
  <2>3. g[(k + 1) + 1] = IF g[k + 1] = 1 THEN 0 ELSE DivCeil(g[k + 1], a)
    BY <1>7, <2>1
  <2>. QED  BY <1>9, <2>1, <2>2, <2>3
<1>. QED  BY <1>10, <1>11
-----------------------------------------------------------------------------
(* Layers *)

\* A factor of the base is a factor of the result.
LEMMA ScaledFactor ==
    ASSUME NEW a \in Nat \ {0}, NEW b \in Nat \ {0}, NEW c \in Nat \ {0}, NEW k \in Nat
    PROVE  Scaled(b * c, a, k) = b * Scaled(c, a, k)
<1>. DEFINE S == {j \in Nat : Scaled(b * c, a, j) = b * Scaled(c, a, j)}
<1>0. b * c \in Nat \ {0}
  OBVIOUS
<1>1. ASSUME NEW n \in Nat, \A m \in 0..(n - 1) : m \in S PROVE n \in S
  <2>1. CASE n = 0
    BY <1>0, <2>1, ScaledRecursion
  <2>2. CASE n > 0
    <3>. DEFINE m == n - 1
                x == Scaled(b * c, a, m)
                y == Scaled(c, a, m)
    <3>1. m \in Nat /\ m + 1 = n /\ m \in S
      BY <1>1, <2>2
    <3>2. x = b * y
      BY <3>1
    <3>3. Scaled(b * c, a, n) = a * x /\ Scaled(c, a, n) = a * y /\ y \in Nat
      BY <1>0, <3>1, ScaledRecursion
    <3>. HIDE DEF x, y
    <3>4. a * (b * y) = b * (a * y)
      BY <3>3
    <3>. QED  BY <3>2, <3>3, <3>4
  <2>. QED  BY <2>1, <2>2
<1>2. Nat \subseteq S
  <2>. HIDE DEF S
  <2>. QED  BY <1>1, StrongInduction
<1>. QED  BY <1>2

\* One node needs one group, whatever its size.
LEMMA OneGroup == ASSUME NEW b \in Nat \ {0} PROVE DivCeil(1, b) = 1
BY DivCeilUnique

\* The layer count is where the geometric fold first reaches a single node.
LEMMA LayersAreLogarithm ==
    ASSUME NEW a \in Nat \ {0, 1}, NEW n \in Nat, n > 1, NEW k \in Nat
    PROVE  DivCeil(n, Scaled(a, a, k)) > 1 <=> k < NumInternalLayers(n, a) - 1
<1>. DEFINE Pow(j) == Scaled(a, a, j)
            L(x) == NumInternalLayers(x, a)
            S == {x \in Nat : x > 1 => \A j \in Nat : DivCeil(x, Pow(j)) > 1 <=> j < L(x) - 1}
<1>1. Pow(0) = a /\ \A j \in Nat : Pow(j) \in Nat \ {0} /\ Pow(j + 1) = a * Pow(j)
  BY ScaledRecursion
<1>2. \A x \in Nat : x > 1 => L(x) = IF DivCeil(x, a) <= 1 THEN 1 ELSE 1 + L(DivCeil(x, a))
  BY LayersRecursion
<1>3. \A x \in Nat : L(x) \in Nat \ {0}
  BY LayersRecursion
<1>. HIDE DEF Pow, L
<1>4. ASSUME NEW x \in Nat, \A m \in 0..(x - 1) : m \in S, x > 1, NEW j \in Nat
      PROVE  DivCeil(x, Pow(j)) > 1 <=> j < L(x) - 1
  <2>. DEFINE m == DivCeil(x, a)
  <2>1. m \in Nat /\ m < x /\ m > 0
    BY <1>4, DivCeilBounds, DivCeilShrinks
  <2>2. \A i \in Nat : DivCeil(x, Pow(i + 1)) = DivCeil(m, Pow(i))
    BY <1>1, DivCeilNested
  <2>3. L(x) = IF m <= 1 THEN 1 ELSE 1 + L(m)
    BY <1>2, <1>4
  <2>4. DivCeil(x, Pow(0)) = m
    BY <1>1
  <2>. HIDE DEF m
  <2>5. CASE m = 1
    <3>1. L(x) = 1
      BY <2>3, <2>5
    <3>2. CASE j = 0
      BY <2>4, <2>5, <3>1, <3>2
    <3>3. CASE j # 0
      <4>1. j - 1 \in Nat /\ (j - 1) + 1 = j
        BY <3>3
      <4>2. DivCeil(x, Pow(j)) = DivCeil(m, Pow(j - 1))
        BY <2>2, <4>1
      <4>3. DivCeil(x, Pow(j)) = 1
        BY <1>1, <2>5, <4>1, <4>2, OneGroup
      <4>. QED  BY <3>1, <4>3
    <3>. QED  BY <3>2, <3>3
  <2>6. CASE m > 1
    <3>1. L(x) = 1 + L(m) /\ L(m) \in Nat \ {0}
      BY <1>3, <2>1, <2>3, <2>6
    <3>2. CASE j = 0
      BY <2>4, <2>6, <3>1, <3>2
    <3>3. CASE j # 0
      <4>1. j - 1 \in Nat /\ (j - 1) + 1 = j
        BY <3>3
      <4>2. DivCeil(x, Pow(j)) = DivCeil(m, Pow(j - 1))
        BY <2>2, <4>1
      <4>3. m \in S
        BY <1>4, <2>1
      <4>4. DivCeil(m, Pow(j - 1)) > 1 <=> j - 1 < L(m) - 1
        BY <2>6, <4>1, <4>3
      <4>. QED  BY <3>1, <4>2, <4>4
    <3>. QED  BY <3>2, <3>3
  <2>. QED  BY <2>1, <2>5, <2>6
<1>5. ASSUME NEW x \in Nat, \A m \in 0..(x - 1) : m \in S PROVE x \in S
  BY <1>4, <1>5
<1>6. Nat \subseteq S
  <2>. HIDE DEF S
  <2>. QED  BY <1>5, StrongInduction
<1>7. DivCeil(n, Pow(k)) > 1 <=> k < L(n) - 1
  BY <1>6
<1>. QED  BY <1>7 DEF Pow, L

\* The fold of num_proofs_at_internal_layer_for_leaf_count in closed form: as
\* far as the tree reaches, layer k holds ceil(n / a^(k+1)) proofs; the top
\* layer holds one, and the layer above it none.
LEMMA LayerCounts ==
    ASSUME NEW a \in Nat \ {0, 1}, NEW n \in Nat, n > 1
    PROVE  /\ \A k \in 0..(NumInternalLayers(n, a) - 1) :
                 NumProofsAtInternalLayer(n, k, a) = DivCeil(n, Scaled(a, a, k))
           /\ NumProofsAtInternalLayer(n, NumInternalLayers(n, a) - 1, a) = 1
           /\ NumProofsAtInternalLayer(n, NumInternalLayers(n, a), a) = 0
<1>. DEFINE L == NumInternalLayers(n, a)
            Pow(k) == Scaled(a, a, k)
            At(k) == NumProofsAtInternalLayer(n, k, a)
            S == {k \in Nat : k <= L - 1 => At(k) = DivCeil(n, Pow(k))}
<1>1. Pow(0) = a /\ \A k \in Nat : Pow(k) \in Nat \ {0} /\ Pow(k + 1) = a * Pow(k)
  BY ScaledRecursion
<1>2. L \in Nat \ {0}
  BY LayersRecursion
<1>3. At(0) = DivCeil(n, a)
  BY FoldRecursion
<1>4. \A k \in Nat : At(k) \in Nat /\ At(k + 1) = IF At(k) = 1 THEN 0 ELSE DivCeil(At(k), a)
  BY FoldRecursion
<1>5. \A k \in Nat : DivCeil(n, Pow(k)) > 1 <=> k < L - 1
  BY LayersAreLogarithm
<1>6. \A k \in Nat : DivCeil(n, Pow(k)) \in Nat /\ DivCeil(n, Pow(k)) > 0
  <2>. SUFFICES ASSUME NEW k \in Nat PROVE DivCeil(n, Pow(k)) \in Nat /\ DivCeil(n, Pow(k)) > 0
    OBVIOUS
  <2>1. DivCeil(n, Pow(k)) \in Nat /\ n <= DivCeil(n, Pow(k)) * Pow(k)
    BY <1>1, DivCeilBounds
  <2>. QED  BY <1>1, <2>1
<1>. HIDE DEF L, Pow, At
<1>7. ASSUME NEW k \in Nat, \A m \in 0..(k - 1) : m \in S PROVE k \in S
  <2>1. CASE k = 0
    BY <1>1, <1>3, <2>1
  <2>2. CASE k > 0 /\ k <= L - 1
    <3>. DEFINE j == k - 1
    <3>1. j \in Nat /\ j + 1 = k /\ j < L - 1 /\ j \in S
      BY <1>2, <1>7, <2>2
    <3>2. At(j) = DivCeil(n, Pow(j)) /\ DivCeil(n, Pow(j)) > 1
      BY <1>2, <1>5, <3>1
    <3>3. At(k) = DivCeil(At(j), a)
      BY <1>4, <3>1, <3>2
    <3>4. DivCeil(DivCeil(n, Pow(j)), a) = DivCeil(n, Pow(j) * a)
      <4>1. Pow(j) \in Nat \ {0} /\ a \in Nat \ {0}
        BY <1>1, <3>1
      <4>. HIDE DEF j
      <4>. QED  BY <4>1, DivCeilNested
    <3>5. Pow(k) = Pow(j) * a
      BY <1>1, <3>1
    <3>. QED  BY <3>2, <3>3, <3>4, <3>5
  <2>. QED  BY <1>2, <2>1, <2>2
<1>8. \A k \in Nat : k <= L - 1 => At(k) = DivCeil(n, Pow(k))
  <2>. HIDE DEF S
  <2>1. Nat \subseteq S
    BY <1>7, StrongInduction
  <2>. QED  BY <2>1 DEF S
<1>9. L - 1 \in Nat /\ (L - 1) + 1 = L
  BY <1>2
<1>10. At(L - 1) = 1
  <2>1. At(L - 1) = DivCeil(n, Pow(L - 1))
    BY <1>2, <1>8, <1>9
  <2>2. ~(DivCeil(n, Pow(L - 1)) > 1)
    BY <1>5, <1>9
  <2>. QED  BY <1>6, <1>9, <2>1, <2>2
<1>11. At(L) = 0
  BY <1>4, <1>9, <1>10
<1>12. \A k \in 0..(L - 1) : At(k) = DivCeil(n, Pow(k))
  BY <1>2, <1>8
<1>. QED  BY <1>10, <1>11, <1>12 DEF L, Pow, At
=============================================================================
