----------------------------- MODULE RulesProofs -----------------------------
(***************************************************************************)
(* Theorems about Rules, for any requests, sources, arrays and limits: a   *)
(* refusal can be put right, a preview foretells the run, a slice shows the*)
(* elements that it names, a range reads what it says, and a correction is *)
(* shown ahead of what it corrects.                                        *)
(***************************************************************************)
EXTENDS Rules, WellFoundedInduction, FiniteSetTheorems, SequenceTheorems, TLAPS

-----------------------------------------------------------------------------
\* Induction and recursion over naturals.

\* Every non-empty set of naturals has a least element.
LEMMA LeastElement ==
  ASSUME NEW S \in SUBSET Nat, S # {}
  PROVE  \E x \in S : \A y \in S : x <= y
<1> DEFINE R == OpToRel(<, Nat)
<1>1. PICK x \in S : \A y \in S : <<y, x>> \notin R
  <2>1. IsWellFoundedOn(R, Nat)
    BY NatLessThanWellFounded
  <2> HIDE DEF R
  <2>2. QED
    BY <2>1, WFMin
<1>2. \A y \in S : ~(y < x)
  BY <1>1 DEF OpToRel
<1>3. QED
  BY <1>2

\* Induction up to m, over a set.
LEMMA InductionTo ==
  ASSUME NEW S, NEW m \in Nat, 0 \in S, \A n \in 0 .. m - 1 : n \in S => n + 1 \in S
  PROVE  \A n \in 0 .. m : n \in S
<1> DEFINE T == {n \in 0 .. m : n \notin S}
<1>1. SUFFICES ASSUME T # {} PROVE FALSE
  OBVIOUS
<1>2. PICK x \in T : \A y \in T : x <= y
  <2>1. T \in SUBSET Nat
    OBVIOUS
  <2> HIDE DEF T
  <2>2. QED
    BY <1>1, <2>1, LeastElement
<1>3. x - 1 \in 0 .. m - 1 /\ x - 1 \in S /\ x - 1 + 1 = x
  BY <1>2
<1>4. QED
  BY <1>2, <1>3

\* Naturals, added and multiplied.
LEMMA SumsOfProducts == \A a, b, c \in Nat : a * b \in Nat /\ a * b + c \in Nat /\ a + b * c \in Nat
<1> TAKE a, b, c \in Nat
<1>1. a * b \in Nat /\ b * c \in Nat
  OBVIOUS
<1>2. QED
  BY <1>1

\* A function of 0 .. n that is given by its value at 0 and by a step from each
\* value to the next one.
Follows(g, x, st, n) == g[0] = x /\ \A k \in 1 .. n : g[k] = st[k][g[k - 1]]

\* There is one.
LEMMA StepsExist ==
  ASSUME NEW V, NEW x \in V, NEW n \in Nat, NEW st \in [1 .. n -> [V -> V]]
  PROVE  \E g \in [0 .. n -> V] : Follows(g, x, st, n)
<1> DEFINE Is(g, m) == g \in [0 .. m -> V] /\ \A k \in 0 .. m : g[k] = IF k = 0 THEN x ELSE st[k][g[k - 1]]
           S == {m \in 0 .. n : \E g : Is(g, m)}
<1>1. 0 \in S
  <2>1. Is([k \in 0 .. 0 |-> x], 0)
    OBVIOUS
  <2> HIDE DEF Is
  <2>2. QED
    BY <2>1
<1>2. ASSUME NEW m \in 0 .. n - 1, m \in S
      PROVE  m + 1 \in S
  <2>1. PICK g : Is(g, m)
    BY <1>2
  <2> DEFINE h == [k \in 0 .. m + 1 |-> IF k = m + 1 THEN st[m + 1][g[m]] ELSE g[k]]
  <2>2. m + 1 \in 1 .. n /\ g[m] \in V /\ st[m + 1][g[m]] \in V
    BY <2>1
  <2>3. h \in [0 .. m + 1 -> V]
    BY <2>1, <2>2
  <2>4. ASSUME NEW k \in 0 .. m + 1
        PROVE  h[k] = IF k = 0 THEN x ELSE st[k][h[k - 1]]
    <3>1. CASE k = m + 1
      <4>1. k # 0 /\ k - 1 = m /\ h[k] = st[k][g[m]] /\ h[m] = g[m]
        BY <3>1
      <4> HIDE DEF h
      <4>2. QED
        BY <4>1
    <3>2. CASE k # m + 1
      <4>1. k \in 0 .. m /\ h[k] = g[k] /\ (k # 0 => k - 1 \in 0 .. m /\ h[k - 1] = g[k - 1])
        BY <3>2
      <4> HIDE DEF h
      <4>2. QED
        BY <2>1, <4>1
    <3>3. QED
      BY <3>1, <3>2
  <2> HIDE DEF h
  <2>5. Is(h, m + 1)
    BY <2>3, <2>4
  <2> HIDE DEF Is
  <2>6. QED
    BY <2>5
<1>3. n \in S
  <2> HIDE DEF S
  <2>1. \A m \in 0 .. n : m \in S
    BY <1>1, <1>2, InductionTo
  <2>2. QED
    BY <2>1
<1>4. PICK g : Is(g, n)
  BY <1>3
<1>5. QED
  BY <1>4 DEF Follows

\* Along a shape, the stride of an axis is that of the next one times its length.
LEMMA BehindDef ==
  ASSUME NEW shape \in Seq(Nat)
  PROVE  /\ Behind(shape) \in [0 .. Len(shape) -> Nat] /\ Behind(shape)[Len(shape)] = 1
         /\ \A k \in 0 .. Len(shape) - 1 : Behind(shape)[k] = Behind(shape)[k + 1] * shape[k + 1]
<1> DEFINE n  == Len(shape)
           F  == CHOOSE f : f = [k \in 0 .. n |-> IF k = 0 THEN 1 ELSE f[k - 1] * shape[n - k + 1]]
           st == [k \in 1 .. n |-> [v \in Nat |-> v * shape[n - k + 1]]]
<1>1. n \in Nat /\ \A k \in 1 .. n : n - k + 1 \in 1 .. n /\ shape[n - k + 1] \in Nat
  BY ElementOfSeq, LenProperties
<1> HIDE DEF n
<1>2. PICK g \in [0 .. n -> Nat] : Follows(g, 1, st, n)
  <2> DEFINE V == Nat
             x == 1
  <2>1. x \in V /\ \A k \in 1 .. n, v \in V : v * shape[n - k + 1] \in V
    BY <1>1, SumsOfProducts
  <2>2. st \in [1 .. n -> [V -> V]]
    BY <2>1
  <2> HIDE DEF st, V, x
  <2>3. \E g \in [0 .. n -> V] : Follows(g, x, st, n)
    BY <1>1, <2>1, <2>2, StepsExist
  <2>4. QED
    BY <2>3 DEF V, x
<1>3. g = [k \in 0 .. n |-> IF k = 0 THEN 1 ELSE g[k - 1] * shape[n - k + 1]]
  <2>1. ASSUME NEW k \in 1 .. n
        PROVE  g[k] = g[k - 1] * shape[n - k + 1]
    <3>1. k - 1 \in 0 .. n /\ g[k - 1] \in Nat
      BY <1>1
    <3>2. QED
      BY <1>2, <3>1 DEF Follows
  <2> HIDE DEF st
  <2>2. g = [k \in 0 .. n |-> g[k]]
    BY <1>2
  <2>3. \A k \in 0 .. n : g[k] = IF k = 0 THEN 1 ELSE g[k - 1] * shape[n - k + 1]
    BY <1>1, <1>2, <2>1 DEF Follows
  <2>4. QED
    BY <2>2, <2>3
<1>4. F = [k \in 0 .. n |-> IF k = 0 THEN 1 ELSE F[k - 1] * shape[n - k + 1]]
  BY <1>3
<1> HIDE DEF F, st
<1>5. F[0] = 1 /\ \A k \in 1 .. n : F[k] = F[k - 1] * shape[n - k + 1]
  <2>1. \A k \in 0 .. n : F[k] = IF k = 0 THEN 1 ELSE F[k - 1] * shape[n - k + 1]
    BY <1>4
  <2>2. 0 \in 0 .. n /\ \A k \in 1 .. n : k \in 0 .. n /\ k # 0
    BY <1>1
  <2>3. QED
    BY <2>1, <2>2
<1>6. F \in [0 .. n -> Nat]
  <2> DEFINE S == {k \in 0 .. n : F[k] \in Nat}
  <2>1. 0 \in S
    BY <1>1, <1>5
  <2>2. ASSUME NEW k \in 0 .. n - 1, k \in S
        PROVE  k + 1 \in S
    <3>1. k + 1 \in 1 .. n /\ k + 1 - 1 = k /\ k + 1 \in 0 .. n /\ F[k] \in Nat
      BY <1>1, <2>2
    <3>2. F[k + 1] = F[k] * shape[n - (k + 1) + 1]
      BY <1>5, <3>1
    <3>3. shape[n - (k + 1) + 1] \in Nat
      BY <1>1, <3>1
    <3>4. F[k] * shape[n - (k + 1) + 1] \in Nat
      BY <3>1, <3>3, SumsOfProducts, Zenon
    <3>5. QED
      BY <3>1, <3>2, <3>4
  <2>3. \A k \in 0 .. n : k \in S
    <3> HIDE DEF S
    <3>1. QED
      BY <1>1, <2>1, <2>2, InductionTo
  <2>4. QED
    BY <1>4, <2>3
<1>7. Behind(shape) = [k \in 0 .. n |-> F[n - k]]
  BY DEF Behind, n, F
<1>8. Behind(shape)[n] = F[0] /\ Behind(shape) \in [0 .. n -> Nat]
  BY <1>1, <1>6, <1>7
<1>9. ASSUME NEW k \in 0 .. n - 1
      PROVE  Behind(shape)[k] = Behind(shape)[k + 1] * shape[k + 1]
  <2>1. n - k \in 1 .. n /\ n - k - 1 = n - (k + 1) /\ n - (n - k) + 1 = k + 1 /\ k \in 0 .. n /\ k + 1 \in 0 .. n
    BY <1>1
  <2>2. Behind(shape)[k] = F[n - k] /\ Behind(shape)[k + 1] = F[n - (k + 1)]
    BY <1>7, <2>1
  <2>3. F[n - k] = F[n - k - 1] * shape[n - (n - k) + 1]
    BY <1>5, <2>1
  <2>4. QED
    BY <2>1, <2>2, <2>3
<1>10. QED
  BY <1>5, <1>8, <1>9 DEF n

\* flat grows index by index, each times the stride of its axis.
LEMMA StartsDef ==
  ASSUME NEW shape \in Seq(Nat), NEW prefix \in Seq(Nat), Len(prefix) <= Len(shape)
  PROVE  /\ Starts(shape, prefix) \in [0 .. Len(prefix) -> Nat] /\ Starts(shape, prefix)[0] = 0
         /\ \A k \in 1 .. Len(prefix) : Starts(shape, prefix)[k] = Starts(shape, prefix)[k - 1] + prefix[k] * Behind(shape)[k]
<1> DEFINE n  == Len(prefix)
           F  == CHOOSE f : f = [k \in 0 .. n |-> IF k = 0 THEN 0 ELSE f[k - 1] + prefix[k] * Behind(shape)[k]]
           st == [k \in 1 .. n |-> [v \in Nat |-> v + prefix[k] * Behind(shape)[k]]]
<1>1. n \in Nat /\ \A k \in 1 .. n : prefix[k] \in Nat /\ Behind(shape)[k] \in Nat
  BY ElementOfSeq, LenProperties, BehindDef
<1> HIDE DEF n
<1>2. PICK g \in [0 .. n -> Nat] : Follows(g, 0, st, n)
  <2> DEFINE V == Nat
             x == 0
  <2>1. x \in V /\ \A k \in 1 .. n, v \in V : v + prefix[k] * Behind(shape)[k] \in V
    BY <1>1, SumsOfProducts
  <2>2. st \in [1 .. n -> [V -> V]]
    BY <2>1
  <2> HIDE DEF st, V, x
  <2>3. \E g \in [0 .. n -> V] : Follows(g, x, st, n)
    BY <1>1, <2>1, <2>2, StepsExist
  <2>4. QED
    BY <2>3 DEF V, x
<1>3. g = [k \in 0 .. n |-> IF k = 0 THEN 0 ELSE g[k - 1] + prefix[k] * Behind(shape)[k]]
  <2>1. ASSUME NEW k \in 1 .. n
        PROVE  g[k] = g[k - 1] + prefix[k] * Behind(shape)[k]
    <3>1. k - 1 \in 0 .. n /\ g[k - 1] \in Nat
      BY <1>1
    <3>2. QED
      BY <1>2, <3>1 DEF Follows
  <2> HIDE DEF st
  <2>2. g = [k \in 0 .. n |-> g[k]]
    BY <1>2
  <2>3. \A k \in 0 .. n : g[k] = IF k = 0 THEN 0 ELSE g[k - 1] + prefix[k] * Behind(shape)[k]
    BY <1>1, <1>2, <2>1 DEF Follows
  <2>4. QED
    BY <2>2, <2>3
<1>4. F = [k \in 0 .. n |-> IF k = 0 THEN 0 ELSE F[k - 1] + prefix[k] * Behind(shape)[k]]
  BY <1>3
<1> HIDE DEF F, st
<1>5. F[0] = 0 /\ \A k \in 1 .. n : F[k] = F[k - 1] + prefix[k] * Behind(shape)[k]
  <2>1. \A k \in 0 .. n : F[k] = IF k = 0 THEN 0 ELSE F[k - 1] + prefix[k] * Behind(shape)[k]
    BY <1>4
  <2>2. 0 \in 0 .. n /\ \A k \in 1 .. n : k \in 0 .. n /\ k # 0
    BY <1>1
  <2>3. QED
    BY <2>1, <2>2
<1>6. F \in [0 .. n -> Nat]
  <2> DEFINE S == {k \in 0 .. n : F[k] \in Nat}
  <2>1. 0 \in S
    BY <1>1, <1>5
  <2>2. ASSUME NEW k \in 0 .. n - 1, k \in S
        PROVE  k + 1 \in S
    <3>1. k + 1 \in 1 .. n /\ k + 1 - 1 = k /\ k + 1 \in 0 .. n /\ F[k] \in Nat
      BY <1>1, <2>2
    <3>2. F[k + 1] = F[k] + prefix[k + 1] * Behind(shape)[k + 1]
      BY <1>5, <3>1
    <3>3. prefix[k + 1] \in Nat /\ Behind(shape)[k + 1] \in Nat
      BY <1>1, <3>1
    <3>4. F[k] + prefix[k + 1] * Behind(shape)[k + 1] \in Nat
      BY <3>1, <3>3, SumsOfProducts, Zenon
    <3>5. QED
      BY <3>1, <3>2, <3>4
  <2>3. \A k \in 0 .. n : k \in S
    <3> HIDE DEF S
    <3>1. QED
      BY <1>1, <2>1, <2>2, InductionTo
  <2>4. QED
    BY <1>4, <2>3
<1>7. Starts(shape, prefix) = F
  BY DEF Starts, n, F
<1>8. QED
  BY <1>5, <1>6, <1>7 DEF n

\* The place of an element, axis by axis.
LEMMA WalkedDef ==
  ASSUME NEW shape \in Seq(Nat), NEW ix \in Seq(Nat), Len(ix) <= Len(shape)
  PROVE  /\ Walked(shape, ix) \in [0 .. Len(ix) -> Nat] /\ Walked(shape, ix)[0] = 0
         /\ \A k \in 1 .. Len(ix) : Walked(shape, ix)[k] = Walked(shape, ix)[k - 1] * shape[k] + ix[k]
<1> DEFINE n  == Len(ix)
           F  == CHOOSE f : f = [k \in 0 .. n |-> IF k = 0 THEN 0 ELSE f[k - 1] * shape[k] + ix[k]]
           st == [k \in 1 .. n |-> [v \in Nat |-> v * shape[k] + ix[k]]]
<1>1. n \in Nat /\ \A k \in 1 .. n : ix[k] \in Nat /\ shape[k] \in Nat
  BY ElementOfSeq, LenProperties
<1> HIDE DEF n
<1>2. PICK g \in [0 .. n -> Nat] : Follows(g, 0, st, n)
  <2> DEFINE V == Nat
             x == 0
  <2>1. x \in V /\ \A k \in 1 .. n, v \in V : v * shape[k] + ix[k] \in V
    BY <1>1, SumsOfProducts
  <2>2. st \in [1 .. n -> [V -> V]]
    BY <2>1
  <2> HIDE DEF st, V, x
  <2>3. \E g \in [0 .. n -> V] : Follows(g, x, st, n)
    BY <1>1, <2>1, <2>2, StepsExist
  <2>4. QED
    BY <2>3 DEF V, x
<1>3. g = [k \in 0 .. n |-> IF k = 0 THEN 0 ELSE g[k - 1] * shape[k] + ix[k]]
  <2>1. ASSUME NEW k \in 1 .. n
        PROVE  g[k] = g[k - 1] * shape[k] + ix[k]
    <3>1. k - 1 \in 0 .. n /\ g[k - 1] \in Nat
      BY <1>1
    <3>2. QED
      BY <1>2, <3>1 DEF Follows
  <2> HIDE DEF st
  <2>2. g = [k \in 0 .. n |-> g[k]]
    BY <1>2
  <2>3. \A k \in 0 .. n : g[k] = IF k = 0 THEN 0 ELSE g[k - 1] * shape[k] + ix[k]
    BY <1>1, <1>2, <2>1 DEF Follows
  <2>4. QED
    BY <2>2, <2>3
<1>4. F = [k \in 0 .. n |-> IF k = 0 THEN 0 ELSE F[k - 1] * shape[k] + ix[k]]
  BY <1>3
<1> HIDE DEF F, st
<1>5. F[0] = 0 /\ \A k \in 1 .. n : F[k] = F[k - 1] * shape[k] + ix[k]
  <2>1. \A k \in 0 .. n : F[k] = IF k = 0 THEN 0 ELSE F[k - 1] * shape[k] + ix[k]
    BY <1>4
  <2>2. 0 \in 0 .. n /\ \A k \in 1 .. n : k \in 0 .. n /\ k # 0
    BY <1>1
  <2>3. QED
    BY <2>1, <2>2
<1>6. F \in [0 .. n -> Nat]
  <2> DEFINE S == {k \in 0 .. n : F[k] \in Nat}
  <2>1. 0 \in S
    BY <1>1, <1>5
  <2>2. ASSUME NEW k \in 0 .. n - 1, k \in S
        PROVE  k + 1 \in S
    <3>1. k + 1 \in 1 .. n /\ k + 1 - 1 = k /\ k + 1 \in 0 .. n /\ F[k] \in Nat
      BY <1>1, <2>2
    <3>2. F[k + 1] = F[k] * shape[k + 1] + ix[k + 1]
      BY <1>5, <3>1
    <3>3. ix[k + 1] \in Nat /\ shape[k + 1] \in Nat
      BY <1>1, <3>1
    <3>4. F[k] * shape[k + 1] + ix[k + 1] \in Nat
      BY <3>1, <3>3, SumsOfProducts, Zenon
    <3>5. QED
      BY <3>1, <3>2, <3>4
  <2>3. \A k \in 0 .. n : k \in S
    <3> HIDE DEF S
    <3>1. QED
      BY <1>1, <2>1, <2>2, InductionTo
  <2>4. QED
    BY <1>4, <2>3
<1>7. Walked(shape, ix) = F
  BY DEF Walked, n, F
<1>8. QED
  BY <1>5, <1>6, <1>7 DEF n

-----------------------------------------------------------------------------
\* Places: what the strides of a shape and the walk of an index come to.

\* The rules of a ring the strides need.
LEMMA Rings == \A w, s, p, b \in Nat : (w * s + p) * b = w * (b * s) + p * b
<1> TAKE w, s, p, b \in Nat
<1>1. (w * s + p) * b = (w * s) * b + p * b
  OBVIOUS
<1>2. (w * s) * b = w * (b * s)
  OBVIOUS
<1>3. QED
  BY <1>1, <1>2

\* An index that begins with those that are fixed.
Begins(ix, prefix) == \A k \in 1 .. Len(prefix) : ix[k] = prefix[k]

\* The indices that are fixed lead to the place where the slice begins.
LEMMA FixedPart ==
  ASSUME NEW shape \in Seq(Nat), NEW prefix \in Seq(Nat), NEW ix \in Seq(Nat),
         Len(prefix) <= Len(ix), Len(ix) = Len(shape),
         Begins(ix, prefix)
  PROVE  Walked(shape, ix)[Len(prefix)] * Behind(shape)[Len(prefix)] = Start(shape, prefix)
<1> DEFINE m == Len(prefix)
           W == Walked(shape, ix)
           B == Behind(shape)
           A == Starts(shape, prefix)
<1>1. m \in Nat /\ Len(ix) \in Nat /\ Len(shape) \in Nat
  BY LenProperties
<1>2. W \in [0 .. Len(ix) -> Nat] /\ W[0] = 0 /\ \A k \in 1 .. Len(ix) : W[k] = W[k - 1] * shape[k] + ix[k]
  BY <1>1, WalkedDef
<1>3. A \in [0 .. m -> Nat] /\ A[0] = 0 /\ \A k \in 1 .. m : A[k] = A[k - 1] + prefix[k] * B[k]
  BY <1>1, StartsDef
<1>4. B \in [0 .. Len(shape) -> Nat] /\ \A k \in 0 .. Len(shape) - 1 : B[k] = B[k + 1] * shape[k + 1]
  BY <1>1, BehindDef
<1>5. (\A k \in 1 .. m : prefix[k] \in Nat) /\ \A k \in 1 .. Len(shape) : shape[k] \in Nat
  BY <1>1, ElementOfSeq
<1>6. m <= Len(ix) /\ m <= Len(shape)
  OBVIOUS
<1> HIDE DEF m, W, B, A
<1>7. /\ W[0] = 0 /\ A[0] = 0
      /\ \A k \in 1 .. m : W[k] = W[k - 1] * shape[k] + ix[k] /\ A[k] = A[k - 1] + prefix[k] * B[k]
      /\ \A k \in 0 .. m - 1 : B[k] = B[k + 1] * shape[k + 1]
  <2>1. (\A k \in 1 .. m : k \in 1 .. Len(ix)) /\ \A k \in 0 .. m - 1 : k \in 0 .. Len(shape) - 1
    BY <1>1, <1>6
  <2>2. QED
    BY <1>2, <1>3, <1>4, <2>1
<1>8. /\ \A k \in 0 .. m : W[k] \in Nat /\ B[k] \in Nat /\ A[k] \in Nat
      /\ \A k \in 1 .. m : shape[k] \in Nat /\ prefix[k] \in Nat
  <2>1. \A k \in 0 .. m : k \in 0 .. Len(ix) /\ k \in 0 .. Len(shape)
    BY <1>1, <1>6
  <2>2. \A k \in 1 .. m : k \in 1 .. Len(shape)
    BY <1>1, <1>6
  <2>3. QED
    BY <1>2, <1>3, <1>4, <1>5, <2>1, <2>2
<1> DEFINE S == {k \in 0 .. m : W[k] * B[k] = A[k]}
<1>9. 0 \in S
  BY <1>1, <1>7, <1>8
<1>10. ASSUME NEW k \in 0 .. m - 1, k \in S
       PROVE  k + 1 \in S
  <2>1. k + 1 \in 1 .. m /\ k + 1 \in 0 .. m /\ k \in 0 .. m /\ k + 1 - 1 = k
    BY <1>1
  <2>2. /\ W[k + 1] = W[k] * shape[k + 1] + prefix[k + 1]
        /\ A[k + 1] = A[k] + prefix[k + 1] * B[k + 1]
        /\ A[k] = W[k] * (B[k + 1] * shape[k + 1])
    <3>1. ix[k + 1] = prefix[k + 1]
      BY <2>1 DEF m, Begins
    <3>2. W[k] * B[k] = A[k] /\ B[k] = B[k + 1] * shape[k + 1]
      BY <1>7, <1>10
    <3>3. W[k + 1] = W[k] * shape[k + 1] + ix[k + 1] /\ A[k + 1] = A[k] + prefix[k + 1] * B[k + 1]
      BY <1>7, <2>1
    <3>4. QED
      BY <3>1, <3>2, <3>3, Zenon
  <2>3. W[k] \in Nat /\ shape[k + 1] \in Nat /\ prefix[k + 1] \in Nat /\ B[k + 1] \in Nat
    BY <1>8, <2>1
  <2>4. (W[k] * shape[k + 1] + prefix[k + 1]) * B[k + 1]
          = W[k] * (B[k + 1] * shape[k + 1]) + prefix[k + 1] * B[k + 1]
    <3> DEFINE w == W[k]
               s == shape[k + 1]
               p == prefix[k + 1]
               b == B[k + 1]
    <3>1. w \in Nat /\ s \in Nat /\ p \in Nat /\ b \in Nat
      BY <2>3
    <3> HIDE DEF w, s, p, b
    <3>2. (w * s + p) * b = w * (b * s) + p * b
      BY <3>1, Rings
    <3>3. QED
      BY <3>2 DEF w, s, p, b
  <2>5. W[k + 1] * B[k + 1] = A[k + 1]
    BY <2>2, <2>4, Zenon
  <2>6. QED
    BY <2>1, <2>5
<1>11. \A k \in 0 .. m : k \in S
  <2> HIDE DEF S
  <2>1. QED
    BY <1>1, <1>9, <1>10, InductionTo
<1>12. QED
  BY <1>1, <1>11 DEF Start, m, W, B, A

\* The place of an element of a point, a line or a heatmap.
LEMMA PlaceOf ==
  ASSUME NEW shape \in Seq(Nat), NEW prefix \in Seq(Nat), NEW ix \in Seq(Nat),
         Len(prefix) <= Len(ix), Len(ix) = Len(shape), Begins(ix, prefix)
  PROVE  /\ Start(shape, prefix) \in Nat
         /\ Len(prefix) = Len(shape)     => Place(shape, ix) = Start(shape, prefix)
         /\ Len(prefix) = Len(shape) - 1 => Place(shape, ix) = Start(shape, prefix) + ix[Len(shape)]
         /\ Len(prefix) = Len(shape) - 2 =>
              Place(shape, ix) = Start(shape, prefix) + ix[Len(shape) - 1] * shape[Len(shape)] + ix[Len(shape)]
<1> DEFINE W == Walked(shape, ix)
           B == Behind(shape)
           n == Len(shape)
<1>1. n \in Nat /\ Len(prefix) \in Nat /\ Place(shape, ix) = W[n]
  BY LenProperties DEF Place
<1>2. /\ \A k \in 1 .. n : W[k] = W[k - 1] * shape[k] + ix[k]
      /\ \A k \in 0 .. n : W[k] \in Nat /\ B[k] \in Nat
      /\ \A k \in 0 .. n - 1 : B[k] = B[k + 1] * shape[k + 1]
      /\ B[n] = 1 /\ \A k \in 1 .. n : shape[k] \in Nat /\ ix[k] \in Nat
  <2>1. W \in [0 .. n -> Nat] /\ \A k \in 1 .. n : W[k] = W[k - 1] * shape[k] + ix[k]
    BY <1>1, WalkedDef
  <2>2. B \in [0 .. n -> Nat] /\ B[n] = 1 /\ \A k \in 0 .. n - 1 : B[k] = B[k + 1] * shape[k + 1]
    BY <1>1, BehindDef
  <2>3. \A k \in 1 .. n : shape[k] \in Nat /\ ix[k] \in Nat
    BY <1>1, ElementOfSeq
  <2> HIDE DEF W, B
  <2>4. QED
    BY <2>1, <2>2, <2>3
<1>3. W[Len(prefix)] * B[Len(prefix)] = Start(shape, prefix)
  BY FixedPart
<1>4. Start(shape, prefix) \in Nat
  BY <1>1, StartsDef DEF Start
<1>5. Len(prefix) <= n
  OBVIOUS
<1> HIDE DEF W, B, n
<1>6. CASE Len(prefix) = n
  BY <1>1, <1>2, <1>3, <1>4, <1>6 DEF n
<1>7. CASE Len(prefix) = n - 1
  <2>1. n \in 1 .. n /\ n - 1 \in 0 .. n /\ n - 1 \in 0 .. n - 1 /\ n - 1 + 1 = n
    BY <1>1, <1>7
  <2>2. W[n] = W[n - 1] * shape[n] + ix[n] /\ B[n - 1] = 1 * shape[n] /\ W[n - 1] \in Nat /\ shape[n] \in Nat
    BY <1>2, <2>1
  <2>3. W[n - 1] * (1 * shape[n]) = W[n - 1] * shape[n]
    BY <2>2
  <2>4. W[n - 1] * shape[n] = Start(shape, prefix)
    BY <1>3, <1>7, <2>2, <2>3
  <2>5. Place(shape, ix) = Start(shape, prefix) + ix[n]
    BY <1>1, <2>2, <2>4
  <2>6. QED
    BY <1>1, <1>4, <1>7, <2>5 DEF n
<1>8. CASE Len(prefix) = n - 2
  <2>1. /\ n \in 1 .. n /\ n - 1 \in 1 .. n /\ n - 1 \in 0 .. n /\ n - 2 \in 0 .. n
        /\ n - 1 \in 0 .. n - 1 /\ n - 2 \in 0 .. n - 1 /\ n - 1 + 1 = n /\ n - 2 + 1 = n - 1 /\ n - 1 - 1 = n - 2
    BY <1>1, <1>8
  <2>2. W[n] = W[n - 1] * shape[n] + ix[n] /\ B[n - 1] = 1 * shape[n]
    BY <1>2, <2>1
  <2>3. W[n - 1] = W[n - 2] * shape[n - 1] + ix[n - 1] /\ B[n - 2] = B[n - 1] * shape[n - 1]
    BY <1>2, <2>1
  <2>4. W[n - 2] \in Nat /\ shape[n] \in Nat /\ shape[n - 1] \in Nat /\ ix[n - 1] \in Nat
    BY <1>2, <2>1
  <2>5. 1 * shape[n] = shape[n]
    BY <2>4
  <2>6. (W[n - 2] * shape[n - 1] + ix[n - 1]) * shape[n]
          = W[n - 2] * (shape[n] * shape[n - 1]) + ix[n - 1] * shape[n]
    <3> DEFINE w == W[n - 2]
               s == shape[n - 1]
               p == ix[n - 1]
               b == shape[n]
    <3>1. w \in Nat /\ s \in Nat /\ p \in Nat /\ b \in Nat
      BY <2>4
    <3> HIDE DEF w, s, p, b
    <3>2. (w * s + p) * b = w * (b * s) + p * b
      BY <3>1, Rings
    <3>3. QED
      BY <3>2 DEF w, s, p, b
  <2>7. W[n - 2] * (shape[n] * shape[n - 1]) = Start(shape, prefix)
    BY <1>3, <1>8, <2>2, <2>3, <2>5, Zenon
  <2>8. Place(shape, ix) = Start(shape, prefix) + ix[n - 1] * shape[n] + ix[n]
    <3>1. Place(shape, ix) = W[n - 1] * shape[n] + ix[n]
      BY <1>1, <2>2, Zenon
    <3>2. W[n - 1] * shape[n] = Start(shape, prefix) + ix[n - 1] * shape[n]
      BY <2>3, <2>6, <2>7, Zenon
    <3>3. QED
      BY <3>1, <3>2, Zenon
  <2>9. Len(prefix) # n /\ Len(prefix) # n - 1
    BY <1>1, <1>8
  <2>10. QED
    BY <1>4, <2>8, <2>9, Zenon DEF n
<1>9. QED
  BY <1>4, <1>6, <1>7, <1>8 DEF n

-----------------------------------------------------------------------------
\* Steps: the least number of elements from one point to the next, and what a
\* line and a heatmap show of them.

\* The quotient of naturals.
LEMMA Quotient ==
  ASSUME NEW a \in Nat, NEW m \in Nat \ {0}
  PROVE  a \div m \in Nat /\ (a \div m) * m <= a /\ a < (a \div m) * m + m
OBVIOUS

\* A product grows with its factors.
LEMMA Products ==
  ASSUME NEW a \in Int, NEW b \in Int, NEW c \in Nat
  PROVE  /\ a <= b => a * c <= b * c
         /\ a * c < b * c => a < b
<1>1. ASSUME a <= b PROVE a * c <= b * c
  <2>1. b - a \in Nat
    BY <1>1
  <2>2. (b - a) * c \in Nat
    BY <2>1
  <2>3. (b - a) * c = b * c - a * c
    OBVIOUS
  <2>4. QED
    BY <2>2, <2>3
<1>2. ASSUME b <= a PROVE b * c <= a * c
  <2>1. a - b \in Nat
    BY <1>2
  <2>2. (a - b) * c \in Nat
    BY <2>1
  <2>3. (a - b) * c = a * c - b * c
    OBVIOUS
  <2>4. QED
    BY <2>2, <2>3
<1>3. QED
  BY <1>1, <1>2

\* The quotient that is rounded up.
LEMMA CeilDef ==
  ASSUME NEW n \in Nat \ {0}, NEW m \in Nat \ {0}
  PROVE  Ceil(n, m) \in Nat \ {0} /\ Ceil(n, m) * m >= n /\ (Ceil(n, m) - 1) * m < n
<1> DEFINE q == (n + m - 1) \div m
<1>1. q \in Nat /\ q * m <= n + m - 1 /\ n + m - 1 < q * m + m
  BY Quotient
<1> HIDE DEF q
<1>2. q # 0
  <2>1. q = 0 => q * m = 0
    OBVIOUS
  <2>2. QED
    BY <1>1, <2>1
<1>3. (q - 1) * m = q * m - m /\ q * m \in Nat
  BY <1>1
<1>4. QED
  BY <1>1, <1>2, <1>3 DEF Ceil, q

\* Steps that are chosen for at most p points give at most p points, and every
\* point is inside.
LEMMA CeilTwice ==
  ASSUME NEW n \in Nat \ {0}, NEW p \in Nat \ {0}
  PROVE  /\ Ceil(n, p) \in Nat \ {0} /\ Ceil(n, Ceil(n, p)) \in Nat \ {0}
         /\ Ceil(n, Ceil(n, p)) <= p
         /\ Ceil(n, Ceil(n, p)) * Ceil(n, p) >= n
         /\ (Ceil(n, Ceil(n, p)) - 1) * Ceil(n, p) < n
         /\ \A i \in 1 .. Ceil(n, Ceil(n, p)) : (i - 1) * Ceil(n, p) \in 0 .. n - 1
<1> DEFINE s == Ceil(n, p)
           q == Ceil(n, s)
<1>1. s \in Nat \ {0} /\ s * p >= n
  BY CeilDef
<1>2. q \in Nat \ {0} /\ q * s >= n /\ (q - 1) * s < n
  BY <1>1, CeilDef
<1> HIDE DEF s, q
<1>3. q <= p
  <2>1. s * p = p * s /\ (q - 1) * s < p * s
    BY <1>1, <1>2
  <2>2. q - 1 < p
    BY <1>1, <1>2, <2>1, Products
  <2>3. QED
    BY <1>2, <2>2
<1>4. ASSUME NEW i \in 1 .. q
      PROVE  (i - 1) * s \in 0 .. n - 1
  <2>1. i - 1 \in Nat /\ i - 1 <= q - 1 /\ q - 1 \in Int
    BY <1>2
  <2>2. (i - 1) * s \in Nat /\ (q - 1) * s \in Int
    BY <1>1, <2>1
  <2>3. (i - 1) * s <= (q - 1) * s
    BY <1>1, <2>1, Products
  <2>4. QED
    BY <1>2, <2>2, <2>3
<1>5. QED
  BY <1>1, <1>2, <1>3, <1>4 DEF s, q

\* A line shows the elements its step names.
LEMMA LineShows ==
  ASSUME NEW start \in Nat, NEW n \in Nat \ {0}, NEW cheap, LinePoints \in Nat \ {0},
         Line(start, n, cheap).shown,
         NEW s, s = Ceil(n, LinePoints)
  PROVE  /\ Line(start, n, cheap).steps = <<1, s>>
         /\ Line(start, n, cheap).rows = <<[j \in 1 .. Ceil(n, s) |-> start + (j - 1) * s]>>
<1>1. s \in Nat \ {0} /\ Ceil(n, s) \in Nat \ {0} /\ \A j \in 1 .. Ceil(n, s) : (j - 1) * s \in 0 .. n - 1
  BY CeilTwice
<1>2. Every(Elems(start, n), s) = [j \in 1 .. Ceil(n, s) |-> start + (j - 1) * s]
  <2>1. Len(Elems(start, n)) = n /\ \A i \in 1 .. n : Elems(start, n)[i] = start + i - 1
    BY DEF Elems
  <2>2. ASSUME NEW j \in 1 .. Ceil(n, s)
        PROVE  Elems(start, n)[(j - 1) * s + 1] = start + (j - 1) * s
    <3> DEFINE x == (j - 1) * s
    <3>1. x \in 0 .. n - 1
      BY <1>1
    <3> HIDE DEF x
    <3>2. x + 1 \in 1 .. n /\ start + (x + 1) - 1 = start + x
      BY <3>1
    <3>3. Elems(start, n)[x + 1] = start + x
      BY <2>1, <3>2
    <3>4. QED
      BY <3>3 DEF x
  <2>3. QED
    BY <2>1, <2>2 DEF Every
<1>3. /\ Line(start, n, cheap).steps = <<1, s>>
      /\ Line(start, n, cheap).rows
           = <<IF s > 1 /\ cheap THEN [j \in 1 .. Ceil(n, s) |-> start + (j - 1) * s]
               ELSE Every(Elems(start, n), s)>>
  BY DEF Line
<1>4. QED
  BY <1>2, <1>3

\* A row of a heatmap, read alone or cut out of all of it.
LEMMA RowOf ==
  ASSUME NEW start \in Nat, NEW r \in Nat \ {0}, NEW c \in Nat \ {0}, NEW i \in 0 .. r - 1
  PROVE  SubSeq(Elems(start, r * c), i * c + 1, (i + 1) * c) = Elems(start + i * c, c)
<1> DEFINE x == i * c
           all == Elems(start, r * c)
<1>1. i \in Nat /\ x \in Nat /\ (i + 1) * c = x + c /\ x + c <= r * c /\ r * c \in Nat
  <2>1. i \in Nat /\ i + 1 <= r /\ i + 1 \in Int
    OBVIOUS
  <2>2. (i + 1) * c <= r * c
    BY <2>1, Products
  <2>3. x \in Nat /\ (i + 1) * c = x + c /\ r * c \in Nat
    BY <2>1
  <2>4. QED
    BY <2>1, <2>2, <2>3
<1> HIDE DEF x
<1>2. SubSeq(all, x + 1, x + c) = [k \in 1 .. c |-> all[x + k]]
  <2> DEFINE N == r * c
             q == SubSeq(all, x + 1, x + c)
  <2>1. N \in Nat /\ x + c <= N
    BY <1>1
  <2> HIDE DEF N
  <2>2. all \in [1 .. N -> Int]
    BY <2>1 DEF Elems, N
  <2>3. \A y \in x + 1 .. x + c : all[y] \in Int
    <3> HIDE DEF all
    <3>1. \A y \in x + 1 .. x + c : y \in 1 .. N
      BY <1>1, <2>1
    <3>2. QED
      BY <2>2, <3>1
  <2> HIDE DEF all
  <2>4. x + 1 \in Int /\ x + c \in Int /\ x + 1 <= x + c
        /\ x + c - (x + 1) + 1 = c /\ \A k \in 1 .. c : x + 1 + k - 1 = x + k
    BY <1>1, <2>1
  <2>5. q \in Seq(Int) /\ Len(q) = c /\ \A k \in 1 .. c : q[k] = all[x + k]
    <3>1. /\ q \in Seq(Int)
          /\ Len(q) = IF x + 1 <= x + c THEN x + c - (x + 1) + 1 ELSE 0
          /\ \A k \in 1 .. x + c - (x + 1) + 1 : q[k] = all[x + 1 + k - 1]
      BY <2>3, <2>4, SubSeqProperties
    <3>2. QED
      BY <2>4, <3>1
  <2> HIDE DEF q
  <2>6. q \in [1 .. c -> Int]
    BY <2>5, LenProperties
  <2>7. q = [k \in 1 .. c |-> all[x + k]]
    BY <2>5, <2>6
  <2>8. QED
    BY <2>7 DEF q
<1>3. \A k \in 1 .. c : all[x + k] = start + x + k - 1
  <2> TAKE k \in 1 .. c
  <2>1. x + k \in 1 .. r * c /\ start + (x + k) - 1 = start + x + k - 1
    BY <1>1
  <2>2. QED
    BY <2>1 DEF Elems
<1>4. QED
  BY <1>1, <1>2, <1>3 DEF Elems, x

\* A heatmap shows, row by row, the elements its steps name.
LEMMA HeatmapShows ==
  ASSUME NEW start \in Nat, NEW r \in Nat \ {0}, NEW c \in Nat \ {0}, NEW cheap, AxisPoints \in Nat \ {0},
         Heatmap(start, r, c, cheap).shown,
         NEW s, s = Ceil(r, AxisPoints), NEW t, t = Ceil(c, AxisPoints)
  PROVE  /\ Heatmap(start, r, c, cheap).steps = <<s, t>>
         /\ Heatmap(start, r, c, cheap).rows
              = [k \in 1 .. Ceil(r, s) |-> [j \in 1 .. Ceil(c, t) |-> start + (k - 1) * s * c + (j - 1) * t]]
<1> DEFINE Row(i) == IF cheap THEN Elems(start + i * c, c)
                     ELSE SubSeq(Elems(start, r * c), i * c + 1, (i + 1) * c)
<1>1. s \in Nat \ {0} /\ \A k \in 1 .. Ceil(r, s) : (k - 1) * s \in 0 .. r - 1
  BY CeilTwice
<1>2. t \in Nat \ {0} /\ Ceil(c, t) \in Nat \ {0} /\ \A j \in 1 .. Ceil(c, t) : (j - 1) * t \in 0 .. c - 1
  BY CeilTwice
<1>3. \A i \in 0 .. r - 1 : Row(i) = Elems(start + i * c, c)
  BY RowOf
<1>4. ASSUME NEW k \in 1 .. Ceil(r, s)
      PROVE  Every(Row((k - 1) * s), t) = [j \in 1 .. Ceil(c, t) |-> start + (k - 1) * s * c + (j - 1) * t]
  <2> DEFINE x == start + (k - 1) * s * c
             row == Row((k - 1) * s)
  <2>1. row = Elems(x, c)
    BY <1>1, <1>3
  <2>2. x \in Int
    <3>1. (k - 1) * s \in Int
      BY <1>1
    <3>2. QED
      BY <3>1
  <2> HIDE DEF x, row
  <2>3. Len(row) = c /\ \A i \in 1 .. c : row[i] = x + i - 1
    BY <2>1 DEF Elems
  <2>4. ASSUME NEW j \in 1 .. Ceil(c, t)
        PROVE  row[(j - 1) * t + 1] = x + (j - 1) * t
    <3> DEFINE y == (j - 1) * t
    <3>1. y \in 0 .. c - 1
      BY <1>2
    <3> HIDE DEF y
    <3>2. y + 1 \in 1 .. c /\ x + (y + 1) - 1 = x + y
      BY <2>2, <3>1
    <3>3. row[y + 1] = x + y
      BY <2>3, <3>2
    <3>4. QED
      BY <3>3 DEF y
  <2>5. Every(row, t) = [j \in 1 .. Ceil(c, t) |-> x + (j - 1) * t]
    BY <2>3, <2>4 DEF Every
  <2>6. QED
    BY <2>5 DEF x, row
<1>5. /\ Heatmap(start, r, c, cheap).steps = <<s, t>>
      /\ Heatmap(start, r, c, cheap).rows = [k \in 1 .. Ceil(r, s) |-> Every(Row((k - 1) * s), t)]
  BY DEF Heatmap
<1>6. QED
  <2> HIDE DEF Row
  <2>1. QED
    BY <1>4, <1>5

\* What is left of a shape: nothing, a line or a heatmap.
LEMMA RestOf ==
  ASSUME NEW shape \in Seq(Nat), NEW prefix \in Seq(Nat), Len(prefix) <= Len(shape)
  PROVE  /\ Rest(shape, prefix) \in Seq(Nat)
         /\ Len(Rest(shape, prefix)) = Len(shape) - Len(prefix)
         /\ \A i \in 1 .. Len(shape) - Len(prefix) : Rest(shape, prefix)[i] = shape[Len(prefix) + i]
<1>1. Len(prefix) \in Nat /\ Len(shape) \in Nat
  BY LenProperties
<1> DEFINE m == Len(prefix)
           n == Len(shape)
<1>2. \A i \in m + 1 .. n : shape[i] \in Nat
  BY <1>1, ElementOfSeq
<1> HIDE DEF m, n
<1>3. /\ SubSeq(shape, m + 1, n) \in Seq(Nat)
      /\ Len(SubSeq(shape, m + 1, n)) = IF m + 1 <= n THEN n - (m + 1) + 1 ELSE 0
      /\ \A i \in 1 .. n - (m + 1) + 1 : SubSeq(shape, m + 1, n)[i] = shape[m + 1 + i - 1]
  BY <1>1, <1>2, SubSeqProperties DEF m, n
<1>4. Rest(shape, prefix) = SubSeq(shape, m + 1, n)
  BY DEF Rest, m, n
<1>5. m \in Nat /\ n \in Nat /\ m <= n
  BY <1>1 DEF m, n
<1>6. /\ n - (m + 1) + 1 = n - m /\ \A i \in 1 .. n - m : m + 1 + i - 1 = m + i
      /\ (IF m + 1 <= n THEN n - (m + 1) + 1 ELSE 0) = n - m
  BY <1>5
<1>7. QED
  BY <1>3, <1>4, <1>6 DEF m, n

\* The place an index leads to, of what is fixed and what is left.
LEMMA IndexOf ==
  ASSUME NEW shape \in Seq(Nat), NEW prefix \in Seq(Nat), NEW t \in Seq(Nat),
         Len(prefix) + Len(t) = Len(shape)
  PROVE  /\ Start(shape, prefix) \in Nat
         /\ Len(t) = 0 => Place(shape, prefix \o t) = Start(shape, prefix)
         /\ Len(t) = 1 => Place(shape, prefix \o t) = Start(shape, prefix) + t[1]
         /\ Len(t) = 2 => Place(shape, prefix \o t) = Start(shape, prefix) + t[1] * shape[Len(shape)] + t[2]
<1> DEFINE ix == prefix \o t
           m  == Len(prefix)
           l  == Len(t)
           n  == Len(shape)
<1>1. m \in Nat /\ l \in Nat /\ n \in Nat /\ m + l = n
  BY LenProperties
<1>2. /\ ix \in Seq(Nat) /\ Len(ix) = m + l
      /\ \A k \in 1 .. m + l : ix[k] = IF k <= m THEN prefix[k] ELSE t[k - m]
  BY ConcatProperties
<1>3. Len(ix) = n /\ m <= Len(ix) /\ Begins(ix, prefix)
  <2>1. \A k \in 1 .. m : k \in 1 .. m + l /\ k <= m
    BY <1>1
  <2> HIDE DEF ix, m, l
  <2>2. QED
    <3>1. \A k \in 1 .. m : ix[k] = prefix[k]
      BY <1>2, <2>1
    <3>2. QED
      BY <1>1, <1>2, <3>1 DEF m, Begins
<1>4. /\ Start(shape, prefix) \in Nat
      /\ m = n     => Place(shape, ix) = Start(shape, prefix)
      /\ m = n - 1 => Place(shape, ix) = Start(shape, prefix) + ix[n]
      /\ m = n - 2 => Place(shape, ix) = Start(shape, prefix) + ix[n - 1] * shape[n] + ix[n]
  <2> HIDE DEF ix
  <2>1. QED
    BY <1>2, <1>3, PlaceOf
<1> HIDE DEF ix, m, l, n
<1>5. l = 1 => m = n - 1 /\ ix[n] = t[1]
  <2>1. l = 1 => m = n - 1 /\ n \in 1 .. m + l /\ ~(n <= m) /\ n - m = 1
    BY <1>1
  <2>2. QED
    BY <1>2, <2>1
<1>6. l = 2 => m = n - 2 /\ ix[n] = t[2] /\ ix[n - 1] = t[1]
  <2>1. l = 2 => /\ m = n - 2 /\ n \in 1 .. m + l /\ ~(n <= m) /\ n - m = 2
                 /\ n - 1 \in 1 .. m + l /\ ~(n - 1 <= m) /\ n - 1 - m = 1
    BY <1>1
  <2>2. QED
    BY <1>2, <2>1
<1>7. l = 0 => m = n
  BY <1>1
<1>8. QED
  BY <1>4, <1>5, <1>6, <1>7, Zenon DEF ix, m, l, n

\* A slice that is shown shows the right elements.
LEMMA SliceRight ==
  ASSUME NEW shape \in Seq(Nat), NEW prefix \in Seq(Nat), NEW cheap, ReadSlice(shape, prefix, cheap).shown
  PROVE  SliceOf(shape, prefix, ReadSlice(shape, prefix, cheap))
<1> DEFINE rest  == Rest(shape, prefix)
           start == Start(shape, prefix)
           ans   == ReadSlice(shape, prefix, cheap)
           n     == Len(shape)
           m     == Len(prefix)
<1>1. LinePoints \in Nat \ {0} /\ AxisPoints \in Nat \ {0}
  BY TensorAssumption
<1>2. Indexable(shape, prefix) /\ \A k \in DOMAIN rest : rest[k] # 0
  BY DEF ReadSlice
<1>3. m \in Nat /\ n \in Nat /\ m <= n /\ n - m <= 2 /\ Len(rest) = n - m /\ n - m \in {0, 1, 2}
  BY <1>2, RestOf, LenProperties DEF Indexable
<1>4. rest \in Seq(Nat) /\ \A i \in 1 .. n - m : rest[i] = shape[m + i] /\ rest[i] \in Nat \ {0}
  <2>1. rest \in Seq(Nat) /\ \A i \in 1 .. n - m : rest[i] = shape[m + i]
    BY <1>3, RestOf
  <2>2. DOMAIN rest = 1 .. n - m /\ \A i \in 1 .. n - m : rest[i] \in Nat
    BY <1>3, <2>1, LenProperties, ElementOfSeq
  <2>3. QED
    BY <1>2, <2>1, <2>2
<1>5. start \in Nat
  BY <1>3, StartsDef DEF Start
<1>6. CASE n - m < 2
  <2> DEFINE len == IF n - m = 0 THEN 1 ELSE rest[1]
             s   == Ceil(len, LinePoints)
             q   == Ceil(len, s)
  <2>1. len \in Nat \ {0}
    BY <1>4, <1>3
  <2>2. ans = Line(start, len, cheap)
    BY <1>2, <1>3, <1>6 DEF ReadSlice
  <2> HIDE DEF len
  <2>3. ans.steps = <<1, s>> /\ ans.rows = <<[j \in 1 .. q |-> start + (j - 1) * s]>>
    BY <1>1, <1>5, <2>1, <2>2, LineShows
  <2>4. /\ s \in Nat \ {0} /\ q \in Nat \ {0} /\ q <= LinePoints /\ q * s >= len /\ (q - 1) * s < len
        /\ \A j \in 1 .. q : (j - 1) * s \in 0 .. len - 1
    BY <1>1, <2>1, CeilTwice
  <2> DEFINE ix(j) == prefix \o (IF n - m = 0 THEN <<>> ELSE <<(j - 1) * s>>)
  <2>5. ASSUME NEW j \in 1 .. q
        PROVE  start + (j - 1) * s = Place(shape, ix(j))
    <3> DEFINE t == IF n - m = 0 THEN <<>> ELSE <<(j - 1) * s>>
    <3>1. (j - 1) * s \in Nat /\ (n - m = 0 => (j - 1) * s = 0)
      BY <2>1, <2>4 DEF len
    <3>2. t \in Seq(Nat) /\ Len(t) = n - m /\ (n - m = 1 => t[1] = (j - 1) * s)
      BY <1>3, <1>6, <3>1
    <3> HIDE DEF t
    <3>3. Len(prefix) + Len(t) = Len(shape)
      BY <1>3, <3>2
    <3>4. Len(t) = 0 => Place(shape, prefix \o t) = start
      BY <3>2, <3>3, IndexOf
    <3>5. Len(t) = 1 => Place(shape, prefix \o t) = start + t[1]
      BY <3>2, <3>3, IndexOf
    <3>6. start + (j - 1) * s = Place(shape, prefix \o t)
      BY <1>3, <1>5, <1>6, <3>1, <3>2, <3>4, <3>5
    <3>7. QED
      BY <3>6 DEF t
  <2> DEFINE row == [j \in 1 .. q |-> start + (j - 1) * s]
  <2>6. Len(row) = q /\ DOMAIN row = 1 .. q /\ \A j \in 1 .. q : row[j] = Place(shape, ix(j))
    BY <2>4, <2>5
  <2> HIDE DEF row, q, s
  <2>7. /\ ans.rows = <<row>> /\ Len(ans.rows) = 1 /\ DOMAIN ans.rows = {1} /\ ans.rows[1] = row
        /\ ans.steps[1] = 1 /\ ans.steps[2] = s
    BY <2>3 DEF row
  <2>8. /\ (IF rest = <<>> THEN 1 ELSE rest[Len(rest)]) = len
        /\ (IF Len(rest) = 2 THEN rest[1] ELSE 1) = 1
    BY <1>3, <1>4, <1>6 DEF len
  <2> HIDE DEF ans, rest
  <2>9. SliceOf(shape, prefix, ans)
    <3>1. \A i \in DOMAIN ans.rows : ans.rows[i] = row
      BY <2>7
    <3>2. Len(ans.rows) * ans.steps[1] >= 1 /\ (Len(ans.rows) - 1) * ans.steps[1] < 1
      BY <2>7
    <3>3. CASE n - m = 0
      <4>1. Len(rest) = 0 /\ \A j \in DOMAIN row : row[j] = Place(shape, prefix \o <<>>)
        BY <1>3, <2>6, <3>3
      <4>2. QED
        BY <2>4, <2>6, <2>7, <2>8, <3>1, <3>2, <4>1 DEF SliceOf, rest
    <3>4. CASE n - m = 1
      <4>1. Len(rest) = 1 /\ \A j \in DOMAIN row : row[j] = Place(shape, prefix \o <<(j - 1) * ans.steps[2]>>)
        BY <1>3, <2>6, <2>7, <3>4
      <4>2. ASSUME NEW i \in DOMAIN ans.rows, NEW j \in DOMAIN ans.rows[i]
            PROVE  ans.rows[i][j]
                     = Place(shape, prefix \o CASE Len(rest) = 0 -> <<>>
                                                [] Len(rest) = 1 -> <<(j - 1) * ans.steps[2]>>
                                                [] Len(rest) = 2 -> <<(i - 1) * ans.steps[1], (j - 1) * ans.steps[2]>>)
        <5>1. ans.rows[i][j] = Place(shape, prefix \o <<(j - 1) * ans.steps[2]>>)
          BY <3>1, <4>1
        <5>2. (CASE Len(rest) = 0 -> <<>>
                 [] Len(rest) = 1 -> <<(j - 1) * ans.steps[2]>>
                 [] Len(rest) = 2 -> <<(i - 1) * ans.steps[1], (j - 1) * ans.steps[2]>>)
              = <<(j - 1) * ans.steps[2]>>
          BY <4>1
        <5>3. QED
          BY <5>1, <5>2
      <4>3. \A i \in DOMAIN ans.rows : /\ Len(ans.rows[i]) * ans.steps[2] >= len
                                      /\ (Len(ans.rows[i]) - 1) * ans.steps[2] < len
                                      /\ Len(ans.rows[i]) <= LinePoints
        BY <2>4, <2>6, <2>7, <3>1
      <4>4. Len(rest) # 2
        BY <4>1
      <4>5. QED
        BY <2>8, <3>2, <4>2, <4>3, <4>4 DEF SliceOf, rest
    <3>5. QED
      BY <1>3, <1>6, <3>3, <3>4
  <2>10. QED
    BY <2>9 DEF ans
<1>7. CASE n - m = 2
  <2> DEFINE r  == rest[1]
             c  == rest[2]
             s  == Ceil(r, AxisPoints)
             t  == Ceil(c, AxisPoints)
             qr == Ceil(r, s)
             qc == Ceil(c, t)
  <2>1. r \in Nat \ {0} /\ c \in Nat \ {0} /\ c = shape[n]
    <3>1. 1 \in 1 .. n - m /\ 2 \in 1 .. n - m /\ m + 2 = n
      BY <1>3, <1>7
    <3>2. QED
      BY <1>4, <3>1
  <2>2. ans = Heatmap(start, r, c, cheap)
    BY <1>2, <1>3, <1>7 DEF ReadSlice
  <2> HIDE DEF r, c
  <2>3. ans.steps = <<s, t>>
        /\ ans.rows = [k \in 1 .. qr |-> [j \in 1 .. qc |-> start + (k - 1) * s * c + (j - 1) * t]]
    BY <1>1, <1>5, <2>1, <2>2, HeatmapShows
  <2>4. /\ s \in Nat \ {0} /\ qr \in Nat \ {0} /\ qr <= AxisPoints /\ qr * s >= r /\ (qr - 1) * s < r
        /\ \A k \in 1 .. qr : (k - 1) * s \in 0 .. r - 1
    BY <1>1, <2>1, CeilTwice
  <2>5. /\ t \in Nat \ {0} /\ qc \in Nat \ {0} /\ qc <= AxisPoints /\ qc * t >= c /\ (qc - 1) * t < c
        /\ \A j \in 1 .. qc : (j - 1) * t \in 0 .. c - 1
    BY <1>1, <2>1, CeilTwice
  <2> HIDE DEF s, t, qr, qc
  <2>6. ASSUME NEW k \in 1 .. qr, NEW j \in 1 .. qc
        PROVE  start + (k - 1) * s * c + (j - 1) * t = Place(shape, prefix \o <<(k - 1) * s, (j - 1) * t>>)
    <3> DEFINE x == (k - 1) * s
               y == (j - 1) * t
               u == <<x, y>>
    <3>1. x \in Nat /\ y \in Nat
      BY <2>4, <2>5
    <3> HIDE DEF x, y
    <3>2. u \in Seq(Nat) /\ Len(u) = 2 /\ u[1] = x /\ u[2] = y
      BY <3>1
    <3> HIDE DEF u
    <3>3. Len(prefix) + Len(u) = Len(shape)
      BY <1>3, <1>7, <3>2
    <3>4. Place(shape, prefix \o u) = start + u[1] * shape[Len(shape)] + u[2]
      BY <3>2, <3>3, IndexOf
    <3>5. QED
      BY <2>1, <3>2, <3>4 DEF x, y, u
  <2>7. /\ Len(ans.rows) = qr /\ DOMAIN ans.rows = 1 .. qr /\ ans.steps[1] = s /\ ans.steps[2] = t
        /\ \A k \in 1 .. qr : ans.rows[k] = [j \in 1 .. qc |-> start + (k - 1) * s * c + (j - 1) * t]
    BY <2>3, <2>4
  <2>8. \A k \in 1 .. qr : /\ Len(ans.rows[k]) = qc /\ DOMAIN ans.rows[k] = 1 .. qc
                            /\ \A j \in 1 .. qc : ans.rows[k][j] = start + (k - 1) * s * c + (j - 1) * t
    <3> DEFINE e(k, j) == start + (k - 1) * s * c + (j - 1) * t
    <3>1. \A k \in 1 .. qr : ans.rows[k] = [j \in 1 .. qc |-> e(k, j)]
      BY <2>7
    <3> HIDE DEF e
    <3>2. \A k \in 1 .. qr : /\ Len(ans.rows[k]) = qc /\ DOMAIN ans.rows[k] = 1 .. qc
                              /\ \A j \in 1 .. qc : ans.rows[k][j] = e(k, j)
      <4>1. qc \in Nat
        BY <2>5
      <4> TAKE k \in 1 .. qr
      <4> DEFINE row == [j \in 1 .. qc |-> e(k, j)]
      <4>2. Len(row) = qc /\ DOMAIN row = 1 .. qc /\ \A j \in 1 .. qc : row[j] = e(k, j)
        BY <4>1
      <4> HIDE DEF row
      <4>3. ans.rows[k] = row
        BY <3>1 DEF row
      <4>4. QED
        BY <4>2, <4>3
    <3>3. QED
      BY <3>2 DEF e
  <2>9. Len(rest) = 2 /\ rest[1] = r /\ (IF rest = <<>> THEN 1 ELSE rest[Len(rest)]) = c
    <3>1. Len(rest) = 2
      BY <1>3, <1>7
    <3> HIDE DEF rest
    <3>2. rest # <<>>
      <4>1. rest = <<>> => Len(rest) = Len(<<>>)
        OBVIOUS
      <4>2. Len(<<>>) = 0
        OBVIOUS
      <4>3. QED
        BY <3>1, <4>1, <4>2
    <3>3. QED
      BY <3>1, <3>2 DEF r, c
  <2> HIDE DEF ans, rest
  <2>10. ASSUME NEW i \in DOMAIN ans.rows, NEW j \in DOMAIN ans.rows[i]
         PROVE  ans.rows[i][j]
                  = Place(shape, prefix \o CASE Len(rest) = 0 -> <<>>
                                             [] Len(rest) = 1 -> <<(j - 1) * ans.steps[2]>>
                                             [] Len(rest) = 2 -> <<(i - 1) * ans.steps[1], (j - 1) * ans.steps[2]>>)
    <3>1. i \in 1 .. qr /\ j \in 1 .. qc
      BY <2>7, <2>8
    <3>2. ans.rows[i][j] = Place(shape, prefix \o <<(i - 1) * s, (j - 1) * t>>)
      BY <2>6, <2>8, <3>1
    <3>3. (CASE Len(rest) = 0 -> <<>>
             [] Len(rest) = 1 -> <<(j - 1) * ans.steps[2]>>
             [] Len(rest) = 2 -> <<(i - 1) * ans.steps[1], (j - 1) * ans.steps[2]>>) = <<(i - 1) * s, (j - 1) * t>>
      BY <2>7, <2>9
    <3>4. QED
      BY <3>2, <3>3
  <2>11. \A i \in DOMAIN ans.rows : /\ Len(ans.rows[i]) * ans.steps[2] >= c
                                    /\ (Len(ans.rows[i]) - 1) * ans.steps[2] < c
                                    /\ Len(ans.rows[i]) <= AxisPoints
    BY <2>5, <2>7, <2>8
  <2>12. /\ Len(ans.rows) * ans.steps[1] >= r /\ (Len(ans.rows) - 1) * ans.steps[1] < r
         /\ Len(ans.rows) <= AxisPoints
    BY <2>4, <2>7
  <2>13. SliceOf(shape, prefix, ans)
    BY <2>9, <2>10, <2>11, <2>12 DEF SliceOf, rest
  <2>14. QED
    BY <2>13 DEF ans
<1>8. QED
  BY <1>3, <1>6, <1>7

-----------------------------------------------------------------------------
\* Ranges: the blocks that are read lie apart, and inside the array.

\* The blocks of a sample are as many as there should be, and far enough apart.
LEMMA Strides ==
  ASSUME NEW n \in Nat, NEW item \in ItemSizes, n * item > ExactBytes,
         NEW s, s = Stride(n, BlockElems)
  PROVE  /\ s \in Nat \ {0} /\ BlockElems <= s /\ (Blocks - 1) * s <= n - BlockElems
         /\ (n - BlockElems) \div s = Blocks - 1
<1> DEFINE e == BlockElems
           b == Blocks - 1
           r == n - e
<1>1. /\ e \in Nat \ {0} /\ b \in Nat \ {0} /\ b <= e /\ Blocks \in Nat /\ item \in Nat \ {0}
      /\ ExactBytes \in Nat /\ ExactBytes >= item * Blocks * e
  BY TensorAssumption
<1> HIDE DEF e, b
<1>2. n > Blocks * e
  <2>1. item * Blocks * e = (Blocks * e) * item /\ Blocks * e \in Nat /\ (Blocks * e) * item \in Nat /\ n * item \in Nat
    BY <1>1
  <2>2. (Blocks * e) * item < n * item
    BY <1>1, <2>1
  <2>3. QED
    BY <1>1, <2>1, <2>2, Products
<1>3. Blocks * e = b * e + e /\ b * e \in Nat
  BY <1>1 DEF b
<1>4. r \in Nat /\ e * b <= r
  BY <1>1, <1>2, <1>3 DEF r
<1> HIDE DEF r
<1>5. s \in Nat /\ s * b <= r /\ r < s * b + b
  <2>1. s = r \div b
    BY DEF Stride, r, b, e
  <2>2. QED
    BY <1>1, <1>4, <2>1, Quotient
<1>6. e <= s
  <2>1. (s + 1) * b = s * b + b /\ e * b \in Nat /\ s * b \in Nat
    BY <1>1, <1>5
  <2>2. e * b < (s + 1) * b
    BY <1>1, <1>4, <1>5, <2>1
  <2>3. e < s + 1
    BY <1>1, <1>5, <2>2, Products
  <2>4. QED
    BY <1>1, <1>5, <2>3
<1>7. s \in Nat \ {0} /\ b * s <= r
  <2>1. s * b = b * s
    BY <1>1, <1>5
  <2>2. QED
    BY <1>1, <1>5, <1>6, <2>1
<1> DEFINE q == r \div s
<1>8. q \in Nat /\ q * s <= r /\ r < q * s + s
  BY <1>4, <1>7, Quotient
<1> HIDE DEF q
<1>9. q < b + 1
  <2>1. (b + 1) * s = b * s + s /\ s * b = b * s /\ q * s \in Nat /\ b * s \in Nat
    BY <1>1, <1>5, <1>8
  <2>2. q * s < (b + 1) * s
    BY <1>1, <1>4, <1>5, <1>6, <1>8, <2>1
  <2>3. QED
    BY <1>1, <1>5, <1>8, <2>2, Products
<1>10. b < q + 1
  <2>1. (q + 1) * s = q * s + s /\ q * s \in Nat /\ b * s \in Nat
    BY <1>1, <1>5, <1>8
  <2>2. b * s < (q + 1) * s
    BY <1>4, <1>5, <1>7, <1>8, <2>1
  <2>3. QED
    BY <1>1, <1>5, <1>8, <2>2, Products
<1>11. q = b
  BY <1>1, <1>8, <1>9, <1>10
<1>12. QED
  BY <1>6, <1>7, <1>11 DEF q, r, b, e

\* The elements of the first blocks of a sample.
Read(k, s) == UNION {x .. x + BlockElems - 1 : x \in {i * s : i \in 0 .. k}}

\* Blocks that are far enough apart share no element.
LEMMA ReadOf ==
  ASSUME NEW b \in Nat, NEW s \in Nat, BlockElems \in Nat \ {0}, BlockElems <= s
  PROVE  Read(b, s) \subseteq 0 .. b * s + BlockElems - 1 /\ Cardinality(Read(b, s)) = (b + 1) * BlockElems
<1> DEFINE e == BlockElems
           Block(k) == k * s .. k * s + e - 1
           S == {k \in 0 .. b : /\ Read(k, s) \subseteq 0 .. k * s + e - 1
                                /\ IsFiniteSet(Read(k, s)) /\ Cardinality(Read(k, s)) = (k + 1) * e}
<1>1. e \in Nat \ {0} /\ e <= s
  OBVIOUS
<1>2. ASSUME NEW k \in Nat
      PROVE  k * s \in Nat /\ IsFiniteSet(Block(k)) /\ Cardinality(Block(k)) = e
  <2> DEFINE y == k * s
  <2>1. y \in Nat
    OBVIOUS
  <2> HIDE DEF y, e
  <2> DEFINE z == y + e - 1
  <2>2. y \in Int /\ z \in Int /\ ~(y > z) /\ z - y + 1 = e
    BY <1>1, <2>1
  <2> HIDE DEF z
  <2>3. IsFiniteSet(y .. z) /\ Cardinality(y .. z) = e
    BY <2>2, FS_Interval
  <2>4. QED
    BY <2>1, <2>3 DEF y, z
<1> HIDE DEF e
<1>3. 0 \in S
  <2>1. Read(0, s) = Block(0)
    <3>1. {i * s : i \in 0 .. 0} = {0 * s}
      OBVIOUS
    <3>2. QED
      BY <3>1 DEF Read, e
  <2>2. 0 * s = 0 /\ (0 + 1) * e = e
    BY <1>1
  <2>3. IsFiniteSet(Read(0, s)) /\ Cardinality(Read(0, s)) = e
    BY <1>2, <2>1
  <2>4. Read(0, s) \subseteq 0 .. 0 * s + e - 1
    BY <2>1, <2>2
  <2>5. QED
    BY <2>2, <2>3, <2>4
<1>4. ASSUME NEW k \in 0 .. b - 1, k \in S
      PROVE  k + 1 \in S
  <2>1. k \in Nat /\ k + 1 \in Nat /\ k + 1 \in 0 .. b /\ k * s \in Nat /\ (k + 1) * s \in Nat
    BY <1>2
  <2>2. (k + 1) * s = k * s + s /\ (k + 1 + 1) * e = (k + 1) * e + e /\ (k + 1) * e \in Nat
    BY <1>1, <2>1
  <2>3. Read(k + 1, s) = Read(k, s) \cup Block(k + 1)
    <3>1. {i * s : i \in 0 .. k + 1} = {i * s : i \in 0 .. k} \cup {(k + 1) * s}
      <4>1. 0 .. k + 1 = (0 .. k) \cup {k + 1}
        BY <2>1
      <4>2. QED
        BY <4>1
    <3>2. QED
      BY <3>1 DEF Read, e
  <2> DEFINE R == Read(k, s)
             T == Block(k + 1)
  <2>4. R \subseteq 0 .. k * s + e - 1 /\ IsFiniteSet(R) /\ Cardinality(R) = (k + 1) * e
    BY <1>4
  <2>5. IsFiniteSet(T) /\ Cardinality(T) = e
    BY <1>2, <2>1
  <2>6. T \subseteq k * s + e .. (k + 1) * s + e - 1
    BY <1>1, <2>1, <2>2
  <2>7. R \cap T = {} /\ R \cup T \subseteq 0 .. (k + 1) * s + e - 1
    <3> HIDE DEF R, T
    <3>1. \A y \in R : y \in Int /\ y < k * s + e /\ y >= 0
      BY <1>1, <2>1, <2>4
    <3>2. \A y \in T : y \in Int /\ y >= k * s + e /\ y <= (k + 1) * s + e - 1
      BY <1>1, <2>1, <2>6
    <3>3. QED
      BY <1>1, <2>1, <2>2, <3>1, <3>2
  <2>8. IsFiniteSet(R \cup T) /\ Cardinality(R \cup T) = (k + 1 + 1) * e
    <3> HIDE DEF R, T
    <3>1. IsFiniteSet(R \cup T) /\ Cardinality(R \cup T) = Cardinality(R) + Cardinality(T) - Cardinality(R \cap T)
      BY <2>4, <2>5, FS_Union
    <3>2. Cardinality(R \cap T) = 0
      BY <2>7, FS_EmptySet
    <3>3. QED
      BY <1>1, <2>2, <2>4, <2>5, <3>1, <3>2
  <2> HIDE DEF R, T
  <2>9. QED
    BY <2>1, <2>3, <2>7, <2>8 DEF R, T
<1>5. \A k \in 0 .. b : k \in S
  <2> HIDE DEF S
  <2>1. QED
    BY <1>3, <1>4, InductionTo
<1>6. b \in S
  BY <1>5
<1>7. QED
  BY <1>6 DEF e

\* A range is exact or reads the share of the array that it says.
LEMMA RangeRight ==
  ASSUME NEW n \in Nat, NEW item \in ItemSizes
  PROVE  RangeOf(n, ReadRange(n, item))
<1> DEFINE ans == ReadRange(n, item)
<1>1. CASE n * item <= ExactBytes
  <2>1. ans = [exact |-> TRUE, read |-> 0 .. n - 1]
    BY <1>1 DEF ReadRange
  <2>2. Cardinality(0 .. n - 1) = n
    <3>1. n - 1 \in Int /\ (IF 0 > n - 1 THEN 0 ELSE n - 1 - 0 + 1) = n
      OBVIOUS
    <3>2. QED
      BY <3>1, FS_Interval
  <2>3. n > 0 => 0 \in 0 .. n - 1
    OBVIOUS
  <2>4. QED
    BY <2>1, <2>2, <2>3 DEF RangeOf
<1>2. CASE ~(n * item <= ExactBytes)
  <2> DEFINE s == Stride(n, BlockElems)
             b == Blocks - 1
             e == BlockElems
  <2>1. e \in Nat \ {0} /\ b \in Nat /\ Blocks \in Nat /\ item \in Nat /\ ExactBytes \in Nat
    BY TensorAssumption
  <2>2. n * item > ExactBytes
    <3>1. n * item \in Nat
      BY <2>1
    <3>2. QED
      BY <1>2, <2>1, <3>1
  <2>3. s \in Nat \ {0} /\ e <= s /\ b * s <= n - e /\ (n - e) \div s = b
    BY <2>2, Strides
  <2>4. ans = [exact |-> FALSE, share |-> Blocks * e, read |-> Read(b, s)]
    <3>1. Sampled(n) = {k * s : k \in 0 .. b}
      BY <2>3 DEF Sampled
    <3>2. QED
      BY <1>2, <3>1 DEF ReadRange, Read
  <2>5. Read(b, s) \subseteq 0 .. b * s + e - 1 /\ Cardinality(Read(b, s)) = (b + 1) * e
    BY <2>1, <2>3, ReadOf
  <2>6. 0 \in Read(b, s)
    <3>1. 0 \in {i * s : i \in 0 .. b} /\ 0 \in 0 .. 0 + e - 1
      <4>1. 0 * s = 0 /\ 0 \in 0 .. b
        BY <2>1, <2>3
      <4>2. QED
        BY <2>1, <4>1
    <3>2. QED
      BY <3>1 DEF Read
  <2> HIDE DEF s
  <2>7. 0 .. b * s + e - 1 \subseteq 0 .. n - 1
    <3>1. b * s \in Nat
      BY <2>1, <2>3
    <3>2. QED
      BY <2>1, <2>3, <3>1
  <2>8. (b + 1) * e = Blocks * e
    BY <2>1
  <2> HIDE DEF ans, b, e
  <2>9. QED
    BY <2>4, <2>5, <2>6, <2>7, <2>8 DEF RangeOf, ans
<1>3. QED
  BY <1>1, <1>2

-----------------------------------------------------------------------------
\* Snapshots: what is captured, and what a preview tells of it.

\* A run captures finitely many files, and none in the place of its own lock.
LEMMA CollectedOf ==
  ASSUME NEW s, IsFiniteSet(s.files),
         NEW P, P = {Path(f) : f \in Collected(s)}
  PROVE  /\ Lock \notin P /\ IsFiniteSet(Collected(s)) /\ Cardinality(Collected(s)) \in Nat
         /\ Cardinality(P \cup {Lock}) \in Nat /\ Cardinality(P \cup {Lock}) <= Cardinality(Collected(s)) + 1
<1> DEFINE F == Collected(s)
           g == [f \in F |-> Path(f)]
<1>1. \A f \in F : f.place # "always"
  BY DEF Collected, GitKeeps, WalkKeeps
<1>2. Lock \notin P
  BY <1>1 DEF Path, Lock
<1>3. IsFiniteSet(F) /\ Cardinality(F) \in Nat
  <2>1. F \subseteq s.files
    BY DEF Collected
  <2> HIDE DEF F
  <2>2. QED
    BY <2>1, FS_Subset, FS_CardinalityType
<1>4. g \in Surjection(F, P)
  BY DEF Surjection
<1> HIDE DEF F, g
<1>5. IsFiniteSet(P) /\ Cardinality(P) <= Cardinality(F) /\ Cardinality(P) \in Nat
  BY <1>3, <1>4, FS_Surjection, FS_CardinalityType
<1>6. IsFiniteSet(P \cup {Lock}) /\ Cardinality(P \cup {Lock}) = Cardinality(P) + 1
  BY <1>2, <1>5, FS_AddElement
<1>7. QED
  BY <1>2, <1>3, <1>5, <1>6 DEF F

\* A preview foretells the run that follows it.
LEMMA PreviewRight ==
  ASSUME NEW s, s.git \in BOOLEAN, IsFiniteSet(s.files), NEW prior
  PROVE  CaptureForetold(s, prior)
<1> DEFINE F == Collected(s)
           P == {Path(f) : f \in F}
           refused == ~RootOK(s) \/ TooLarge(s)
<1>1. /\ Lock \notin P /\ Cardinality(F) \in Nat
      /\ Cardinality(P \cup {Lock}) \in Nat /\ Cardinality(P \cup {Lock}) <= Cardinality(F) + 1
  BY CollectedOf
<1>2. ConfirmFiles \in Nat
  BY CaptureAssumption
<1>3. Needs(s) \in BOOLEAN
  BY DEF Needs
<1>4. SUFFICES ASSUME NEW told, told = Preview(s, prior),
                      NEW confirm \in BOOLEAN,
                      NEW run, run = Capturing(s, "env", confirm)
               PROVE  /\ run.stored <=> ~told.refused /\ (told.needs => confirm)
                      /\ ~run.stored => run.ask = (~told.refused /\ told.needs /\ ~confirm)
                      /\ run.stored =>
                           /\ run.tree[Lock] = "env"
                           /\ LET same == {p \in DOMAIN prior : /\ p \in DOMAIN run.tree
                                                                /\ p \notin told.delta.modified}
                              IN /\ \A p \in same \ {Lock} : run.tree[p] = prior[p]
                                 /\ \A p \in told.delta.modified : run.tree[p] # prior[p]
                                 /\ DOMAIN run.tree = (DOMAIN prior \ told.delta.removed)
                                                         \cup told.delta.added \cup {Lock}
                           /\ ~confirm => /\ s.git /\ ~(Bytes(Collected(s)) > ConfirmBytes)
                                          /\ Cardinality(DOMAIN run.tree) <= ConfirmFiles + 1
                           /\ {Lock} \cap told.delta.added = {}
  BY DEF CaptureForetold
<1>5. CASE refused
  <2>1. told = [refused |-> TRUE]
    BY <1>4, <1>5, Zenon DEF Preview
  <2>2. run = [stored |-> FALSE, ask |-> FALSE]
    BY <1>4, <1>5 DEF Capturing
  <2>3. told.refused = TRUE /\ run.stored = FALSE /\ run.ask = FALSE
    BY <2>1, <2>2
  <2>4. QED
    BY <2>3, Zenon
<1>6. CASE ~refused /\ Needs(s) /\ ~confirm
  <2>1. /\ told = [refused |-> FALSE, needs |-> Needs(s), delta |-> Delta(s, prior)]
        /\ run = [stored |-> FALSE, ask |-> TRUE]
    BY <1>4, <1>6, Zenon DEF Preview, Capturing
  <2>2. told.refused = FALSE /\ told.needs = TRUE /\ run.stored = FALSE /\ run.ask = TRUE
    BY <1>3, <1>6, <2>1
  <2>3. QED
    BY <1>6, <2>2, Zenon
<1>7. CASE ~refused /\ ~(Needs(s) /\ ~confirm)
  <2> DEFINE t == Tree(F, "env")
             d == Delta(s, prior)
             now(p) == (CHOOSE f \in F : Path(f) = p).content
  <2>1. /\ told = [refused |-> FALSE, needs |-> Needs(s), delta |-> d]
        /\ run = [stored |-> TRUE, tree |-> t]
    BY <1>4, <1>7, Zenon DEF Preview, Capturing
  <2>2. /\ told.refused = FALSE /\ told.needs = Needs(s) /\ told.delta = d
        /\ run.stored = TRUE /\ run.tree = t
    <3> HIDE DEF d, t
    <3>1. QED
      BY <2>1
  <2>3. /\ DOMAIN t = P \cup {Lock} /\ t[Lock] = "env"
        /\ \A p \in P : t[p] = now(p)
    <3>1. t = [p \in P \cup {Lock} |-> IF p = Lock THEN "env" ELSE now(p)]
      BY Zenon DEF Tree
    <3> HIDE DEF t, P, now
    <3>2. QED
      BY <1>1, <3>1
  <2>4. /\ d.added = P \ (DOMAIN prior \ {Lock}) /\ d.removed = (DOMAIN prior \ {Lock}) \ P
        /\ d.modified = {p \in P \cap (DOMAIN prior \ {Lock}) : now(p) # prior[p]}
    <3> DEFINE held == [p \in P |-> now(p)]
               kept == DOMAIN prior \ {Lock}
    <3>1. d = [added |-> DOMAIN held \ kept, removed |-> kept \ DOMAIN held,
               modified |-> {p \in DOMAIN held \cap kept : held[p] # prior[p]}]
      BY Zenon DEF Delta
    <3>2. DOMAIN held = P /\ \A p \in P : held[p] = now(p)
      <4> HIDE DEF P, now
      <4>1. QED
        OBVIOUS
    <3> HIDE DEF d, held, P, now
    <3>3. QED
      BY <3>1, <3>2
  <2> HIDE DEF t, d, F, P, now
  <2>5. \A p \in d.modified : t[p] # prior[p]
    BY <2>3, <2>4
  <2>6. \A p \in {q \in DOMAIN prior : q \in DOMAIN t /\ q \notin d.modified} \ {Lock} : t[p] = prior[p]
    BY <2>3, <2>4
  <2>7. DOMAIN t = (DOMAIN prior \ d.removed) \cup d.added \cup {Lock}
    BY <1>1, <2>3, <2>4
  <2>8. {Lock} \cap d.added = {}
    BY <1>1, <2>4
  <2>9. ~confirm => s.git /\ ~(Bytes(F) > ConfirmBytes) /\ ~(Cardinality(F) > ConfirmFiles)
    BY <1>7 DEF Needs, F
  <2>10. ~confirm => Cardinality(DOMAIN t) <= ConfirmFiles + 1
    BY <1>1, <1>2, <2>3, <2>9
  <2>11. /\ run.stored <=> ~told.refused /\ (told.needs => confirm)
         /\ run.stored = TRUE
    BY <1>3, <1>7, <2>2, Zenon
  <2>12. \A p \in {q \in DOMAIN prior : q \in DOMAIN run.tree /\ q \notin told.delta.modified} \ {Lock} :
            run.tree[p] = prior[p]
    BY <2>2, <2>6, Zenon
  <2>13. \A p \in told.delta.modified : run.tree[p] # prior[p]
    BY <2>2, <2>5, Zenon
  <2>14. /\ DOMAIN run.tree = (DOMAIN prior \ told.delta.removed) \cup told.delta.added \cup {Lock}
         /\ {Lock} \cap told.delta.added = {} /\ run.tree[Lock] = "env"
    BY <2>2, <2>3, <2>7, <2>8, Zenon
  <2>15. ~confirm => /\ s.git /\ ~(Bytes(Collected(s)) > ConfirmBytes)
                     /\ Cardinality(DOMAIN run.tree) <= ConfirmFiles + 1
    BY <2>2, <2>9, <2>10, Zenon DEF F
  <2>16. QED
    BY <2>11, <2>12, <2>13, <2>14, <2>15, Zenon
<1>8. QED
  BY <1>5, <1>6, <1>7

-----------------------------------------------------------------------------
\* The contract: what a refusal names, and a request with that put right.

\* The fields that a refusal can name, those of the run and those of its
\* compute reference.
RunFields == {"title", "purpose", "hypothesis", "parameters"}
AllFields == RunFields \cup {"compute", "extra", "identity", "url"}

\* A refusal names such fields, and those of the run only when one is wrong.
LEMMA NamedOf ==
  ASSUME NEW r \in Request
  PROVE  /\ Refusal(r) \subseteq AllFields
         /\ StartNamed(r) # {} => Refusal(r) = StartNamed(r) /\ StartNamed(r) \subseteq RunFields
         /\ StartNamed(r) = {} /\ r.shape = "none" => Refusal(r) = {}
         /\ StartNamed(r) = {} /\ r.shape = "list" => Refusal(r) = {"compute"}
         /\ StartNamed(r) = {} /\ r.shape = "map"  => Refusal(r) = ComputeNamed(r.compute)
<1>1. StartNamed(r) \subseteq RunFields
  BY DEF StartNamed, RunFields
<1>2. ComputeNamed(r.compute) \subseteq AllFields
  BY DEF ComputeNamed, AllFields
<1>3. r.shape \in {"none", "list", "map"}
  BY DEF Request
<1>4. CASE StartNamed(r) # {}
  BY <1>1, <1>4 DEF Refusal, AllFields
<1>5. CASE StartNamed(r) = {}
  BY <1>2, <1>3, <1>5 DEF Refusal, AllFields
<1>6. QED
  BY <1>4, <1>5

\* A repaired request is one again: what was named is right, the rest as it was.
LEMMA RepairedOf ==
  ASSUME NEW r \in Request, NEW named \in SUBSET AllFields, NEW q, q = Repaired(r, named)
  PROVE  /\ q \in Request
         /\ \A f \in RunFields : q[f] = IF f \in named THEN Good[f] ELSE r[f]
         /\ q.shape = IF "compute" \in named THEN "none" ELSE r.shape
         /\ "compute" \notin named =>
              /\ q.compute.extra = (r.compute.extra /\ "extra" \notin named)
              /\ q.compute.url = IF "url" \in named THEN "link" ELSE r.compute.url
              /\ q.compute.job_id = IF "identity" \in named THEN "given" ELSE r.compute.job_id
              /\ q.compute.system = r.compute.system
<1> DEFINE c == r.compute
           fixed == [g \in DOMAIN c |->
                       CASE g = "extra"  -> c.extra /\ g \notin named
                         [] g = "url"    -> IF g \in named THEN "link" ELSE c.url
                         [] g = "job_id" -> IF "identity" \in named THEN "given" ELSE c.job_id
                         [] OTHER        -> c[g]]
<1>1. c \in Compute /\ DOMAIN r = RunFields \cup {"shape", "compute"}
  BY DEF Request, RunFields
<1>2. DOMAIN c = {"system", "job_id", "note", "url", "extra"}
  BY <1>1 DEF Compute
<1>3. /\ fixed.extra = (c.extra /\ "extra" \notin named)
      /\ fixed.url = IF "url" \in named THEN "link" ELSE c.url
      /\ fixed.job_id = IF "identity" \in named THEN "given" ELSE c.job_id
      /\ fixed.system = c.system /\ fixed.note = c.note
      /\ DOMAIN fixed = DOMAIN c
  BY <1>2
<1>4. fixed \in Compute
  <2>1. fixed = [system |-> fixed.system, job_id |-> fixed.job_id, note |-> fixed.note,
                 url |-> fixed.url, extra |-> fixed.extra]
    BY <1>2
  <2> HIDE DEF fixed
  <2>2. /\ c.system \in Field /\ c.job_id \in Field /\ c.note \in Field /\ c.url \in Url
        /\ c.extra \in BOOLEAN
    BY <1>1 DEF Compute
  <2>3. /\ fixed.system \in Field /\ fixed.job_id \in Field /\ fixed.note \in Field
        /\ fixed.url \in Url /\ fixed.extra \in BOOLEAN
    BY <1>3, <2>2 DEF Field, Url
  <2>4. QED
    BY <2>1, <2>3 DEF Compute
<1>5. q = [f \in DOMAIN r |->
             IF f \in named THEN IF f = "compute" THEN r[f] ELSE Good[f]
             ELSE IF f = "shape" /\ "compute" \in named THEN "none"
             ELSE IF f = "compute" THEN fixed ELSE r[f]]
  BY Zenon DEF Repaired
<1> HIDE DEF fixed, c
<1>6. "shape" \notin named
  BY DEF AllFields, RunFields
<1>7. /\ DOMAIN q = DOMAIN r
      /\ \A f \in RunFields : q[f] = IF f \in named THEN Good[f] ELSE r[f]
      /\ q.shape = IF "compute" \in named THEN "none" ELSE r.shape
      /\ q.compute = IF "compute" \in named THEN c ELSE fixed
  BY <1>1, <1>5, <1>6 DEF RunFields, c
<1>8. q \in Request
  <2>1. q = [title |-> q.title, purpose |-> q.purpose, hypothesis |-> q.hypothesis,
             parameters |-> q.parameters, shape |-> q.shape, compute |-> q.compute]
    BY <1>1, <1>5 DEF RunFields
  <2>2. /\ r.title \in Text /\ r.purpose \in Text /\ r.hypothesis \in Hypothesis
        /\ r.parameters \in {"none", "list", "map"} /\ r.shape \in {"none", "list", "map"}
    BY DEF Request
  <2>3. /\ Good["title"] \in Text /\ Good["purpose"] \in Text /\ Good["hypothesis"] \in Hypothesis
        /\ Good["parameters"] \in {"none", "list", "map"}
    BY DEF Good, Text, Hypothesis
  <2>4. /\ q.title \in Text /\ q.purpose \in Text /\ q.hypothesis \in Hypothesis
        /\ q.parameters \in {"none", "list", "map"} /\ q.shape \in {"none", "list", "map"}
        /\ q.compute \in Compute
    BY <1>1, <1>4, <1>7, <2>2, <2>3 DEF RunFields
  <2>5. QED
    BY <2>1, <2>4 DEF Request
<1>9. QED
  BY <1>3, <1>7, <1>8 DEF c

\* A run that is accepted can have its reference put right in one round.
LEMMA OneRound ==
  ASSUME NEW r \in Request, StartNamed(r) = {}
  PROVE  Refusal(Repaired(r, Refusal(r))) = {}
<1> DEFINE q == Repaired(r, Refusal(r))
           named == Refusal(r)
<1>1. named \in SUBSET AllFields /\ named \cap RunFields = {}
  <2>1. r.shape \in {"none", "list", "map"}
    BY DEF Request
  <2>2. QED
    BY <2>1, NamedOf DEF ComputeNamed, AllFields, RunFields
<1>2. /\ q \in Request
      /\ \A f \in RunFields : q[f] = r[f]
      /\ q.shape = IF "compute" \in named THEN "none" ELSE r.shape
      /\ "compute" \notin named =>
           /\ q.compute.extra = (r.compute.extra /\ "extra" \notin named)
           /\ q.compute.url = IF "url" \in named THEN "link" ELSE r.compute.url
           /\ q.compute.job_id = IF "identity" \in named THEN "given" ELSE r.compute.job_id
           /\ q.compute.system = r.compute.system
  <2> HIDE DEF q
  <2>1. q = Repaired(r, named)
    BY DEF q
  <2> HIDE DEF named
  <2>2. QED
    BY <1>1, <2>1, RepairedOf
<1> HIDE DEF q
<1>3. StartNamed(q) = {}
  BY <1>2 DEF StartNamed, RunFields
<1>4. CASE r.shape = "none"
  <2>1. "compute" \notin named
    BY <1>4, NamedOf
  <2>2. Refusal(q) = {}
    <3> HIDE DEF named
    <3>1. QED
      BY <1>2, <1>3, <1>4, <2>1, NamedOf
  <2>3. QED
    BY <2>2 DEF q
<1>5. CASE r.shape = "list"
  <2>1. "compute" \in named
    BY <1>5, NamedOf
  <2>2. Refusal(q) = {}
    <3> HIDE DEF named
    <3>1. QED
      BY <1>2, <1>3, <1>5, <2>1, NamedOf
  <2>3. QED
    BY <2>2 DEF q
<1>6. CASE r.shape = "map"
  <2>1. named = ComputeNamed(r.compute) /\ "compute" \notin named
    <3>1. named = ComputeNamed(r.compute)
      BY <1>6, NamedOf
    <3>2. "compute" \notin ComputeNamed(r.compute)
      BY DEF ComputeNamed
    <3>3. QED
      BY <3>1, <3>2, Zenon
  <2>2. Refusal(q) = ComputeNamed(q.compute)
    BY <1>2, <1>3, <1>6, <2>1, NamedOf
  <2>3. r.compute.extra \in BOOLEAN /\ r.compute.url \in Url
    BY DEF Request, Compute
  <2> HIDE DEF named
  <2>4. ~q.compute.extra
    BY <1>2, <2>1, <2>3 DEF ComputeNamed
  <2>5. q.compute.url \notin {"no scheme", "no link"}
    BY <1>2, <2>1, <2>3 DEF ComputeNamed
  <2>6. \/ q.compute.system = "given" \/ q.compute.job_id = "given"
        \/ q.compute.url \notin {"absent", "blank"}
    BY <1>2, <2>1, <2>3 DEF ComputeNamed
  <2>7. ComputeNamed(q.compute) = {}
    BY <2>4, <2>5, <2>6 DEF ComputeNamed
  <2>8. QED
    BY <2>2, <2>7 DEF q
<1>7. QED
  BY <1>4, <1>5, <1>6 DEF Request

\* What is named is wrong: a caller that puts the rest right is refused again.
LEMMA NothingRight ==
  ASSUME NEW r \in Request, NEW f \in Refusal(r)
  PROVE  Refusal(Repaired(r, Refusal(r) \ {f})) # {}
<1> DEFINE named == Refusal(r) \ {f}
           q == Repaired(r, named)
<1>1. named \in SUBSET AllFields
  BY NamedOf
<1>2. /\ q \in Request
      /\ \A g \in RunFields : q[g] = IF g \in named THEN Good[g] ELSE r[g]
      /\ q.shape = IF "compute" \in named THEN "none" ELSE r.shape
      /\ "compute" \notin named =>
           /\ q.compute.extra = (r.compute.extra /\ "extra" \notin named)
           /\ q.compute.url = IF "url" \in named THEN "link" ELSE r.compute.url
           /\ q.compute.job_id = IF "identity" \in named THEN "given" ELSE r.compute.job_id
           /\ q.compute.system = r.compute.system
  <2> HIDE DEF q
  <2>1. q = Repaired(r, named)
    BY DEF q
  <2> HIDE DEF named
  <2>2. QED
    BY <1>1, <2>1, RepairedOf
<1> HIDE DEF q
<1>3. SUFFICES StartNamed(q) = {} => Refusal(q) # {}
  BY <1>2, NamedOf DEF q
<1>4. CASE StartNamed(r) # {}
  <2>1. f \in StartNamed(r) /\ f \in RunFields /\ q[f] = r[f]
    BY <1>2, <1>4, NamedOf
  <2>2. f \in StartNamed(q)
    BY <2>1 DEF StartNamed
  <2>3. QED
    BY <2>2
<1>5. CASE StartNamed(r) = {} /\ r.shape = "list"
  <2>1. Refusal(r) = {"compute"}
    BY <1>5, NamedOf
  <2>2. q.shape = "list"
    BY <1>2, <1>5, <2>1
  <2>3. QED
    BY <1>2, <2>2, NamedOf
<1>6. CASE StartNamed(r) = {} /\ r.shape = "map"
  <2>1. Refusal(r) = ComputeNamed(r.compute) /\ "compute" \notin named
    <3>1. Refusal(r) = ComputeNamed(r.compute)
      BY <1>6, NamedOf
    <3>2. "compute" \notin ComputeNamed(r.compute)
      BY DEF ComputeNamed
    <3>3. QED
      BY <3>1, <3>2, Zenon
  <2>2. StartNamed(q) = {} => Refusal(q) = ComputeNamed(q.compute)
    BY <1>2, <1>6, <2>1, NamedOf
  <2>3. r.compute.extra \in BOOLEAN /\ f \in ComputeNamed(r.compute) /\ f \notin named
    BY <2>1 DEF Request, Compute
  <2>4. f \in {"extra", "identity", "url"}
    BY <2>3 DEF ComputeNamed
  <2>5. f = "identity" => "url" \notin named
    BY <2>1, <2>3 DEF ComputeNamed
  <2> HIDE DEF named
  <2>6. f \in ComputeNamed(q.compute)
    BY <1>2, <2>1, <2>3, <2>4, <2>5 DEF ComputeNamed
  <2>7. QED
    BY <2>2, <2>6
<1>7. QED
  <2>1. r.shape = "none" /\ StartNamed(r) = {} => Refusal(r) = {}
    BY NamedOf
  <2>2. r.shape \in {"none", "list", "map"}
    BY DEF Request
  <2>3. QED
    BY <1>4, <1>5, <1>6, <2>1, <2>2

\* A caller that puts right what a refusal names is refused at most once more.
LEMMA RepairsRight ==
  ASSUME NEW r \in Request
  PROVE  Repairs(r)
<1> DEFINE once == Repaired(r, Refusal(r))
<1>1. \A f \in Refusal(r) : Refusal(Repaired(r, Refusal(r) \ {f})) # {}
  BY NothingRight
<1>2. CASE StartNamed(r) = {}
  BY <1>1, <1>2, OneRound DEF Repairs
<1>3. CASE StartNamed(r) # {}
  <2>1. Refusal(r) = StartNamed(r) /\ Refusal(r) \in SUBSET AllFields
    BY <1>3, NamedOf
  <2>2. once \in Request /\ \A f \in RunFields : once[f] = IF f \in Refusal(r) THEN Good[f] ELSE r[f]
    BY <2>1, RepairedOf
  <2> HIDE DEF once
  <2>3. StartNamed(once) = {}
    BY <2>1, <2>2 DEF StartNamed, RunFields, Good
  <2>4. Refusal(Repaired(once, Refusal(once))) = {}
    BY <2>2, <2>3, OneRound
  <2>5. QED
    BY <1>1, <1>3, <2>4, Zenon DEF Repairs, once
<1>4. QED
  BY <1>2, <1>3

-----------------------------------------------------------------------------
\* The theorems: what was asked came from the constants, and is answered right.

\* Nothing, or one question, with its parameters from the constants.
Asked == \/ asked = None
         \/ asked \in [what : {"start"}, r : Requests]
         \/ asked \in [what : {"capture"}, s : Sources, p : Priors]
         \/ asked \in [what : {"query"}, q : Queries]
         \/ asked \in [what : {"slice"}, sh : Shapes, p : Indices, cheap : BOOLEAN]
         \/ asked \in [what : {"range"}, n : Lengths, b : ItemSizes]

\* What is asked comes from the constants.
LEMMA AskedAlways == Spec => []Asked
<1>1. Init => Asked
  BY DEF Init, Asked
<1>2. Asked /\ [Next]_asked => Asked'
  <2> SUFFICES ASSUME Asked, [Next]_asked PROVE Asked'
    OBVIOUS
  <2>1. CASE Contracts
    BY <2>1 DEF Contracts, Asked
  <2>2. CASE Captures
    BY <2>2 DEF Captures, Asked
  <2>3. CASE Asks
    BY <2>3 DEF Asks, Asked
  <2>4. CASE Slices
    BY <2>4 DEF Slices, Asked
  <2>5. CASE Ranges
    BY <2>5 DEF Ranges, Asked
  <2>6. CASE UNCHANGED asked
    BY <2>6, Zenon DEF Asked
  <2>7. QED
    BY <2>1, <2>2, <2>3, <2>4, <2>5, <2>6 DEF Next
<1>3. QED
  BY <1>1, <1>2, PTL DEF Spec

\* Whatever a caller sends to run_start, a refusal names only what is wrong,
\* and two rounds put everything right (validate_start, validate_compute).
THEOREM RefusalsAlwaysRepair == Spec => []RefusalsRepair
<1>1. Asked => RefusalsRepair
  <2> SUFFICES ASSUME Asked, asked.what = "start" PROVE Repairs(asked.r)
    BY DEF RefusalsRepair
  <2>1. asked.r \in Requests
    BY DEF Asked, None
  <2>2. QED
    BY <2>1, RulesAssumption, RepairsRight
<1>2. QED
  BY <1>1, AskedAlways, PTL

\* Whatever lies in a source directory and in the tree of the last run, what
\* snapshot_preview tells is what run_start then does.
THEOREM PreviewAlwaysHolds == Spec => []PreviewHolds
<1>1. Asked => PreviewHolds
  <2> SUFFICES ASSUME Asked, asked.what = "capture" PROVE CaptureForetold(asked.s, asked.p)
    BY DEF PreviewHolds
  <2>1. asked.s \in Sources
    BY DEF Asked, None
  <2>2. QED
    BY <2>1, RulesAssumption, PreviewRight
<1>2. QED
  BY <1>1, AskedAlways, PTL

\* For arrays of any number of axes and any sizes: read_slice shows the elements
\* that its steps name, over cheap seeks or not, and the blocks of tensor_range
\* lie in the array and do not overlap.
THEOREM ArraysAlwaysRight == Spec => []ArraysRight
<1>1. Asked => ArraysRight
  <2> SUFFICES ASSUME Asked PROVE ArraysRight
    OBVIOUS
  <2>1. ASSUME asked.what = "slice", ReadSlice(asked.sh, asked.p, asked.cheap).shown
        PROVE  SliceOf(asked.sh, asked.p, ReadSlice(asked.sh, asked.p, asked.cheap))
    <3>1. asked.sh \in Shapes /\ asked.p \in Indices
      BY <2>1 DEF Asked, None
    <3>2. QED
      BY <2>1, <3>1, RulesAssumption, SliceRight
  <2>2. ASSUME asked.what = "range"
        PROVE  RangeOf(asked.n, ReadRange(asked.n, asked.b))
    <3>1. asked.n \in Lengths /\ asked.b \in ItemSizes
      BY <2>2 DEF Asked, None
    <3>2. QED
      BY <3>1, RulesAssumption, RangeRight
  <2>3. QED
    BY <2>1, <2>2 DEF ArraysRight
<1>2. QED
  BY <1>1, AskedAlways, PTL

-----------------------------------------------------------------------------
\* Corrections in a ranking.

\* Scores that are an increment of what is shown apart are shown apart.
LEMMA RoundedApart ==
  ASSUME NEW a \in Nat, NEW b \in Nat, Unit \in Nat, Unit \div 4000 \in Nat \ {0},
         25 * a + Unit \div 4000 <= 25 * b
  PROVE  Rounded(a) < Rounded(b)
<1> DEFINE u == Unit \div 4000
           h == Unit \div 8000
           x == a * 25 + h
           y == b * 25 + h
<1>1. h \in Nat
  BY Unit \in Nat, 8000 \in Nat \ {0}, Quotient
<1>2. u \in Nat \ {0} /\ x \in Nat /\ y \in Nat /\ x + u <= y
  BY <1>1
<1>3. Rounded(a) = x \div u /\ Rounded(b) = y \div u
  BY ONLY TRUE DEF Rounded
<1> HIDE DEF u, h, x, y
<1>4. /\ x \div u \in Nat /\ (x \div u) * u <= x
      /\ y \div u \in Nat /\ y < (y \div u) * u + u
  BY <1>2, Quotient
<1>5. (x \div u) * u < (y \div u) * u
  <2>1. (x \div u) * u \in Nat /\ (y \div u) * u \in Nat
    BY <1>2, <1>4
  <2>2. QED
    BY <1>2, <1>4, <2>1
<1>6. x \div u < y \div u
  BY <1>2, <1>4, <1>5, Products
<1>7. QED
  BY <1>3, <1>6

\* Old beliefs are not served ahead of new ones: a match among the first 340 of
\* a ranking, superseded, refuted or a duplicate, is shown with less than the
\* least that what corrects it is shown with as its neighbour, rounding or no
\* (NEIGHBOR_DAMP, DOWNRANK and the rounding of hybrid_search).
THEOREM CorrectionOutranks ==
  ASSUME Unit \in Nat \ {0}, NEW score \in Nat, score >= Unit \div (RRF_K + 340),
         NEW types \in SUBSET Corrections, types # {}
  PROVE  Rounded(Downranked(score, types)) < Rounded(Damped(score))
<1> DEFINE k == score \div 20
<1>1. k \in Nat /\ k * 20 <= score /\ score < k * 20 + 20
  OBVIOUS
<1>2. /\ Downranked(score, types) \in Nat
      /\ Downranked(score, types) <= k * 10 + 10
      /\ Damped(score) = k * 11
  <2>1. CASE types \cap {"supersedes", "refutes"} # {}
    <3>1. Downranked(score, types) = k * 7
      BY <2>1, Zenon DEF Downranked
    <3>2. QED
      BY <1>1, <3>1 DEF Damped
  <2>2. CASE types \cap {"supersedes", "refutes"} = {}
    <3>1. types = {"duplicate-of"}
      BY <2>2 DEF Corrections
    <3>2. Downranked(score, types) = score \div 2
      BY <2>2, <3>1, Zenon DEF Downranked
    <3>3. QED
      BY <1>1, <3>2 DEF Damped
  <2>3. QED
    BY <2>1, <2>2
<1>3. Unit % 24000 = 0 /\ Unit % 24400 = 0
  <2>1. Unit % (400 * (60 + 0)) = 0 /\ Unit % (400 * (60 + 1)) = 0
    BY RetrievalAssumption
  <2>2. QED
    BY <2>1
<1>4. PICK m \in Nat : Unit = 1464000 * m /\ m # 0
  <2>1. PICK a \in Nat, b \in Nat : Unit = 24000 * a /\ Unit = 24400 * b
    <3>1. Unit = 24000 * (Unit \div 24000) /\ Unit = 24400 * (Unit \div 24400)
      BY <1>3
    <3>2. Unit \div 24000 \in Nat /\ Unit \div 24400 \in Nat
      OBVIOUS
    <3>3. QED
      BY <3>1, <3>2
  <2>2. a - b \in Nat /\ Unit = 1464000 * (a - b) /\ a - b # 0
    BY <2>1
  <2>3. QED
    BY <2>2
<1>5. Unit \div 4000 = 366 * m /\ Unit \div (RRF_K + 340) = 3660 * m
  BY <1>4 DEF RRF_K
<1> HIDE DEF k
<1>6. 25 * Downranked(score, types) + Unit \div 4000 <= 25 * Damped(score)
  <2>1. k * 20 + 20 > 3660 * m
    BY <1>1, <1>5
  <2>2. QED
    BY <1>1, <1>2, <1>4, <1>5, <2>1
<1>7. QED
  BY <1>1, <1>2, <1>4, <1>5, <1>6, RoundedApart
==============================================================================
