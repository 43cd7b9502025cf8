----------------------------- MODULE DataLemmas -----------------------------
(***************************************************************************)
(* Induction and recursion over data.                                      *)
(***************************************************************************)
EXTENDS Integers, FiniteSets, Sequences, Functions, FiniteSetTheorems, WellFoundedInduction, TLAPS

LEMMA LeastNat ==
    ASSUME NEW T, T \subseteq Nat, T # {}
    PROVE  \E n \in T : \A m \in T : n <= m
<1>1. PICK n \in T : \A m \in T : ~(<<m, n>> \in OpToRel(<, Nat))
  BY WFMin, NatLessThanWellFounded, Zenon
<1>2. \A m \in T : ~(m < n)
  BY <1>1 DEF OpToRel
<1>3. QED
  BY <1>2

LEMMA UpTo ==
    ASSUME NEW n \in Nat, NEW T, 0 \in T, \A i \in 0 .. n : i \in T /\ i < n => i + 1 \in T
    PROVE  0 .. n \subseteq T
<1> SUFFICES ASSUME (0 .. n) \ T # {} PROVE FALSE
  OBVIOUS
<1>1. PICK i \in (0 .. n) \ T : \A j \in (0 .. n) \ T : i <= j
  <2>1. (0 .. n) \ T \subseteq Nat
    OBVIOUS
  <2>2. QED
    BY <2>1, LeastNat, Zenon
<1>2. i # 0 /\ i - 1 \in 0 .. n /\ i - 1 < n
  BY <1>1
<1>3. i - 1 \in T
  BY <1>1, <1>2
<1>4. QED
  BY <1>1, <1>2, <1>3

(* A function that starts at base and takes the given steps. *)
Steps(f, S, n, base, step) ==
    /\ f \in [0 .. n -> S] /\ f[0] = base
    /\ \A i \in 1 .. n : f[i] = step[<<i, f[i - 1]>>]

LEMMA Recursion ==
    ASSUME NEW S, NEW n \in Nat, NEW base \in S, NEW step \in [(1 .. n) \X S -> S]
    PROVE  \E f : Steps(f, S, n, base, step)
<1> DEFINE Runs(k) == {f \in [0 .. k -> S] :
                         f[0] = base /\ \A i \in 1 .. k : f[i] = step[<<i, f[i - 1]>>]}
           T == {k \in 0 .. n : Runs(k) # {}}
<1>1. 0 \in T
  <2>1. [i \in 0 .. 0 |-> base] \in Runs(0)
    OBVIOUS
  <2>2. QED
    BY <2>1
<1>2. ASSUME NEW k \in 0 .. n, k \in T, k < n
      PROVE  k + 1 \in T
  <2>1. PICK f \in Runs(k) : TRUE
    BY <1>2
  <2> DEFINE g == [i \in 0 .. k + 1 |-> IF i = k + 1 THEN step[<<k + 1, f[k]>>] ELSE f[i]]
  <2>2. f[k] \in S /\ \A i \in 0 .. k : f[i] \in S
    BY <2>1
  <2>3. step[<<k + 1, f[k]>>] \in S
    <3>1. <<k + 1, f[k]>> \in (1 .. n) \X S
      BY <2>2, <1>2
    <3>2. QED
      BY <3>1
  <2>4. g \in [0 .. k + 1 -> S]
    BY <2>2, <2>3
  <2>5. g[0] = base
    BY <2>1
  <2>6. ASSUME NEW i \in 1 .. k + 1
        PROVE  g[i] = step[<<i, g[i - 1]>>]
    <3>1. CASE i = k + 1
      <4>1. g[i] = step[<<k + 1, f[k]>>] /\ g[i - 1] = f[k]
        BY <3>1
      <4>2. QED
        BY <4>1, <3>1
    <3>2. CASE i # k + 1
      <4>1. g[i] = f[i] /\ g[i - 1] = f[i - 1] /\ i \in 1 .. k
        BY <3>2
      <4>2. QED
        BY <4>1, <2>1
    <3>3. QED
      BY <3>1, <3>2
  <2>7. g \in Runs(k + 1)
    BY <2>4, <2>5, <2>6
  <2>8. k + 1 \in 0 .. n /\ Runs(k + 1) # {}
    <3> HIDE DEF g, Runs
    <3>1. QED
      BY <2>7, <1>2
  <2>9. QED
    BY <2>8
<1>3. 0 .. n \subseteq T
  <2> HIDE DEF T
  <2>1. \A k \in 0 .. n : k \in T /\ k < n => k + 1 \in T
    BY <1>2
  <2>2. QED
    BY <1>1, <2>1, UpTo, Zenon
<1>4. PICK f \in Runs(n) : TRUE
  BY <1>3
<1>5. QED
  BY <1>4 DEF Steps

(* What takes the steps wherever it is of the right kind takes them all. *)
LEMMA Unrolled ==
    ASSUME NEW S, NEW n \in Nat, NEW base \in S, NEW step \in [(1 .. n) \X S -> S], NEW g,
           g = [i \in 0 .. n |-> g[i]], g[0] = base,
           \A i \in 1 .. n : g[i - 1] \in S => g[i] = step[<<i, g[i - 1]>>]
    PROVE  Steps(g, S, n, base, step)
<1> DEFINE T == {i \in 0 .. n : g[i] \in S}
<1>1. 0 \in T
  OBVIOUS
<1>2. ASSUME NEW i \in 0 .. n, i \in T, i < n
      PROVE  i + 1 \in T
  <2>1. i + 1 \in 1 .. n /\ (i + 1) - 1 = i /\ g[i] \in S
    BY <1>2
  <2>2. g[i + 1] = step[<<i + 1, g[i]>>]
    BY <2>1
  <2>3. <<i + 1, g[i]>> \in (1 .. n) \X S
    BY <2>1
  <2>4. QED
    BY <2>1, <2>2, <2>3
<1>3. 0 .. n \subseteq T
  <2> HIDE DEF T
  <2>1. QED
    BY <1>1, <1>2, UpTo
<1>4. g \in [0 .. n -> S]
  BY <1>3
<1>5. ASSUME NEW i \in 1 .. n PROVE g[i] = step[<<i, g[i - 1]>>]
  <2>1. i - 1 \in 0 .. n
    OBVIOUS
  <2>2. QED
    BY <1>4, <2>1
<1>6. QED
  BY <1>4, <1>5 DEF Steps

LEMMA Greatest ==
    ASSUME NEW n \in Nat, NEW T, T \subseteq 0 .. n, T # {}
    PROVE  \E m \in T : \A k \in T : k <= m
<1> DEFINE D == {n - k : k \in T}
<1>1. D \subseteq Nat /\ D # {}
  <2>1. \A k \in T : n - k \in Nat
    OBVIOUS
  <2>2. PICK k \in T : TRUE
    OBVIOUS
  <2>3. n - k \in D
    OBVIOUS
  <2>4. QED
    BY <2>1, <2>3
<1>2. PICK d \in D : \A e \in D : d <= e
  <2> HIDE DEF D
  <2>1. QED
    BY <1>1, LeastNat
<1>3. PICK m \in T : d = n - m
  BY <1>2
<1>4. ASSUME NEW k \in T PROVE k <= m
  <2>1. n - k \in D /\ k \in 0 .. n /\ m \in 0 .. n
    BY <1>3
  <2>2. n - m <= n - k
    BY <2>1, <1>2, <1>3
  <2>3. QED
    BY <2>1, <2>2
<1>5. QED
  BY <1>3, <1>4

-----------------------------------------------------------------------------
(* How many of the numbers up to n are in T. *)
LEMMA CountTo ==
    ASSUME NEW n \in Nat, NEW T
    PROVE  /\ IsFiniteSet((1 .. n) \intersect T) /\ Cardinality((1 .. n) \intersect T) \in Nat
           /\ Cardinality((1 .. 0) \intersect T) = 0
           /\ Cardinality((1 .. n + 1) \intersect T)
                = Cardinality((1 .. n) \intersect T) + IF n + 1 \in T THEN 1 ELSE 0
<1> DEFINE A == (1 .. n) \intersect T
<1>1. IsFiniteSet(A) /\ Cardinality(A) \in Nat
  <2>1. IsFiniteSet(1 .. n)
    BY FS_Interval
  <2>2. IsFiniteSet(A)
    BY <2>1, FS_Subset
  <2>3. QED
    BY <2>2, FS_CardinalityType
<1>2. (1 .. 0) \intersect T = {}
  OBVIOUS
<1>3. n + 1 \notin A
  OBVIOUS
<1>4. CASE n + 1 \in T
  <2>1. (1 .. n + 1) \intersect T = A \union {n + 1}
    BY <1>4
  <2>2. Cardinality(A \union {n + 1}) = Cardinality(A) + 1
    BY <1>1, <1>3, FS_AddElement
  <2>3. QED
    BY <1>1, <1>2, <1>4, <2>1, <2>2, FS_EmptySet
<1>5. CASE n + 1 \notin T
  <2>1. (1 .. n + 1) \intersect T = A
    BY <1>5
  <2>2. QED
    BY <1>1, <1>2, <1>5, <2>1, FS_EmptySet
<1>6. QED
  BY <1>4, <1>5
=============================================================================
