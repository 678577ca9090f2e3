------------------------- MODULE AutoMigrationProofs -------------------------
EXTENDS AutoMigration, TLAPS, FiniteSetTheorems, WellFoundedInduction

-----------------------------------------------------------------------------
(* Induction, over the turns of a loop and over sets of clusters. *)

(* A set of naturals has a least element. *)
LEMMA LeastNumber ==
  ASSUME NEW T \in SUBSET Nat, T # {}
  PROVE  \E m \in T : \A n \in T : m <= n
<1>1. PICK m \in T : \A n \in T : ~(<<n, m>> \in OpToRel(<, Nat))
  BY NatLessThanWellFounded, WFMin
<1>2. \A n \in T : ~(n < m)
  BY <1>1 DEF OpToRel
<1> QED BY <1>2

(* What holds before a loop and survives each of its turns holds after all of them. *)
LEMMA LoopInduction ==
  ASSUME NEW n \in Nat, NEW P, 0 \in P,
         \A i \in 1 .. n : i - 1 \in P => i \in P
  PROVE  \A i \in 0 .. n : i \in P
<1> DEFINE Bad == {i \in 0 .. n : i \notin P}
<1> SUFFICES ASSUME Bad # {} PROVE FALSE
  OBVIOUS
<1>1. Bad \in SUBSET Nat
  OBVIOUS
<1>2. PICK m \in Bad : \A k \in Bad : m <= k
  BY <1>1, LeastNumber
<1>3. m \in 1 .. n /\ m - 1 \in 0 .. n
  BY <1>2
<1>4. m - 1 \in P
  BY <1>2, <1>3
<1> QED BY <1>2, <1>3, <1>4

(* g is what a loop of n turns computes in the set S. *)
Computes(g, n, S, base, turn) ==
  /\ g \in [0 .. n -> S] /\ g[0] = base
  /\ \A i \in 1 .. n : g[i] = turn[i][g[i - 1]]

(* A loop whose turns are functions on a set has a result, and stays in the set. *)
LEMMA LoopExists ==
  ASSUME NEW n \in Nat, NEW S, NEW base \in S, NEW turn \in [1 .. n -> [S -> S]]
  PROVE  \E g : Computes(g, n, S, base, turn)
<1> DEFINE Done(g, i) == g[0] = base /\ \A j \in 1 .. i : g[j] = turn[j][g[j - 1]]
           P == {i \in 0 .. n : \E g \in [0 .. i -> S] : Done(g, i)}
<1>1. 0 \in P
  <2> DEFINE g == [j \in 0 .. 0 |-> base]
  <2>1. g \in [0 .. 0 -> S] /\ Done(g, 0)
    OBVIOUS
  <2>2. 0 \in 0 .. n
    OBVIOUS
  <2> HIDE DEF g, Done
  <2> QED BY <2>1, <2>2
<1>2. ASSUME NEW i \in 1 .. n, i - 1 \in P PROVE i \in P
  <2>1. PICK g \in [0 .. i - 1 -> S] : Done(g, i - 1)
    BY <1>2
  <2> DEFINE h == [j \in 0 .. i |-> IF j < i THEN g[j] ELSE turn[i][g[i - 1]]]
  <2>2. i - 1 \in 0 .. i - 1 /\ g[i - 1] \in S
    OBVIOUS
  <2>3. turn[i][g[i - 1]] \in S
    BY <2>2
  <2>4. h \in [0 .. i -> S]
    <3>1. ASSUME NEW j \in 0 .. i PROVE h[j] \in S
      BY <2>3
    <3> QED BY <3>1
  <2>5. h[0] = base
    BY <2>1
  <2>6. ASSUME NEW j \in 1 .. i PROVE h[j] = turn[j][h[j - 1]]
    <3>1. CASE j < i
      <4>1. j \in 1 .. i - 1 /\ j \in 0 .. i /\ j - 1 \in 0 .. i /\ j - 1 < i
        BY <3>1
      <4> QED BY <2>1, <3>1, <4>1
    <3>2. CASE j = i
      <4>1. i \in 0 .. i /\ i - 1 \in 0 .. i /\ i - 1 < i
        OBVIOUS
      <4>2. h[i] = turn[i][g[i - 1]] /\ h[i - 1] = g[i - 1]
        BY <4>1
      <4> QED BY <3>2, <4>2
    <3> QED BY <3>1, <3>2
  <2>7. Done(h, i)
    BY <2>5, <2>6
  <2>8. i \in 0 .. n
    OBVIOUS
  <2> QED BY <2>4, <2>7, <2>8
<1>3. n \in P
  <2> HIDE DEF P
  <2>1. \A i \in 0 .. n : i \in P
    BY <1>1, <1>2, LoopInduction
  <2> QED BY <2>1
<1>4. PICK g \in [0 .. n -> S] : Done(g, n)
  BY <1>3
<1> QED BY <1>4 DEF Computes

(* What holds of no cluster, and of one more cluster whenever it holds of some, holds of
   all of them. *)
LEMMA SetInduction ==
  ASSUME NEW T \in SUBSET Cluster, NEW P, {} \in P,
         \A U \in SUBSET T : \A x \in T \ U : U \in P => U \cup {x} \in P
  PROVE  T \in P
<1> DEFINE Left == {Cardinality(T \ U) : U \in {V \in SUBSET T : V \in P}}
<1>0. IsFiniteSet(T)
  BY PlannerAssumption, FS_Subset
<1>1. \A U \in SUBSET T : IsFiniteSet(T \ U) /\ Cardinality(T \ U) \in Nat
  <2> TAKE U \in SUBSET T
  <2>1. T \ U \in SUBSET T
    OBVIOUS
  <2> QED BY <1>0, <2>1, FS_Subset, FS_CardinalityType
<1>2. Left \in SUBSET Nat /\ Left # {}
  BY <1>1
<1>3. PICK m \in Left : \A k \in Left : m <= k
  BY <1>2, LeastNumber
<1>4. PICK U \in SUBSET T : U \in P /\ m = Cardinality(T \ U)
  BY <1>3
<1>5. CASE T \ U = {}
  <2>1. U = T
    BY <1>5
  <2> QED BY <1>4, <2>1
<1>6. CASE T \ U # {}
  <2>1. PICK x \in T \ U : TRUE
    BY <1>6
  <2>2. U \cup {x} \in P /\ U \cup {x} \in SUBSET T
    BY <1>4, <2>1
  <2>3. T \ (U \cup {x}) = (T \ U) \ {x}
    OBVIOUS
  <2>4. Cardinality(T \ (U \cup {x})) = m - 1
    <3>1. IsFiniteSet(T \ U)
      BY <1>1
    <3>2. Cardinality((T \ U) \ {x}) = Cardinality(T \ U) - 1
      BY <2>1, <3>1, FS_RemoveElement
    <3> QED BY <1>4, <2>3, <3>2
  <2>5. m - 1 \in Left
    BY <2>2, <2>4
  <2>6. m \in Nat
    BY <1>2, <1>3
  <2> HIDE DEF Left
  <2>7. m <= m - 1
    BY <1>3, <2>5
  <2> QED BY <2>6, <2>7
<1> QED BY <1>5, <1>6

-----------------------------------------------------------------------------
(* Sums over clusters. *)

(* SumOf is what its loop says it is: the loop has a result. *)
LEMMA SumUnfold ==
  ASSUME NEW f, NEW T \in SUBSET Cluster
  PROVE  SumOf(f, T) = IF T = {} THEN 0
                       ELSE f[CHOOSE c \in T : TRUE] + SumOf(f, T \ {CHOOSE c \in T : TRUE})
<1> DEFINE Any(V) == CHOOSE c \in V : TRUE
           Value(h, V) == IF V = {} THEN 0 ELSE f[Any(V)] + h[V \ {Any(V)}]
           Is(h) == h = [V \in SUBSET Cluster |-> Value(h, V)]
           n == Cardinality(Cluster)
           UpTo(h, i) == \A V \in SUBSET Cluster : Cardinality(V) <= i => h[V] = Value(h, V)
           P == {i \in 0 .. n : \E h : h = [V \in SUBSET Cluster |-> h[V]] /\ UpTo(h, i)}
<1>0. \A V \in SUBSET Cluster : IsFiniteSet(V) /\ Cardinality(V) \in 0 .. n /\ (Cardinality(V) = 0 <=> V = {})
  BY PlannerAssumption, FS_Subset, FS_CardinalityType, FS_EmptySet
<1>1. n \in Nat
  BY PlannerAssumption, FS_CardinalityType
<1>2. \A V \in SUBSET Cluster : V # {} =>
         /\ V \ {Any(V)} \in SUBSET Cluster
         /\ Cardinality(V \ {Any(V)}) = Cardinality(V) - 1
  <2> SUFFICES ASSUME NEW V \in SUBSET Cluster, V # {}
               PROVE  V \ {Any(V)} \in SUBSET Cluster /\ Cardinality(V \ {Any(V)}) = Cardinality(V) - 1
    OBVIOUS
  <2>1. Any(V) \in V
    OBVIOUS
  <2> HIDE DEF Any
  <2>2. IsFiniteSet(V)
    BY <1>0
  <2> QED BY <2>1, <2>2, FS_RemoveElement
<1> HIDE DEF Any, n
<1>3. \E h : Is(h)
  <2>1. 0 \in P
    <3> DEFINE h == [V \in SUBSET Cluster |-> 0]
    <3>1. h = [V \in SUBSET Cluster |-> h[V]]
      OBVIOUS
    <3>2. UpTo(h, 0)
      <4> SUFFICES ASSUME NEW V \in SUBSET Cluster, Cardinality(V) <= 0 PROVE h[V] = Value(h, V)
        OBVIOUS
      <4>1. V = {}
        BY <1>0
      <4> QED BY <4>1
    <3>3. 0 \in 0 .. n
      BY <1>1
    <3> HIDE DEF h, UpTo
    <3> QED BY <3>1, <3>2, <3>3
  <2>2. ASSUME NEW i \in 1 .. n, i - 1 \in P PROVE i \in P
    <3>1. PICK h : h = [V \in SUBSET Cluster |-> h[V]] /\ UpTo(h, i - 1)
      BY <2>2
    <3> DEFINE k == [V \in SUBSET Cluster |-> IF Cardinality(V) <= i - 1 THEN h[V] ELSE Value(h, V)]
    <3>2. k = [V \in SUBSET Cluster |-> k[V]]
      OBVIOUS
    <3>3. UpTo(k, i)
      <4> SUFFICES ASSUME NEW V \in SUBSET Cluster, Cardinality(V) <= i PROVE k[V] = Value(k, V)
        OBVIOUS
      <4>1. k[V] = Value(h, V)
        <5>1. CASE Cardinality(V) <= i - 1
          <6>1. k[V] = h[V]
            BY <5>1
          <6>2. h[V] = Value(h, V)
            BY <3>1, <5>1
          <6> QED BY <6>1, <6>2
        <5>2. CASE ~(Cardinality(V) <= i - 1)
          BY <5>2
        <5> QED BY <5>1, <5>2
      <4>2. CASE V = {}
        BY <4>1, <4>2
      <4>3. CASE V # {}
        <5> DEFINE W == V \ {Any(V)}
        <5>1. W \in SUBSET Cluster /\ Cardinality(W) = Cardinality(V) - 1
          BY <1>2, <4>3
        <5>2. Cardinality(V) \in Int /\ i \in Int
          BY <1>0
        <5>3. Cardinality(W) <= i - 1
          BY <5>1, <5>2
        <5> HIDE DEF W
        <5>4. k[W] = h[W]
          BY <5>1, <5>3
        <5> QED BY <4>1, <4>3, <5>4 DEF W
      <4> QED BY <4>2, <4>3
    <3>4. i \in 0 .. n
      BY <1>1
    <3> HIDE DEF k, UpTo
    <3> QED BY <3>2, <3>3, <3>4
  <2>3. n \in P
    <3> HIDE DEF P
    <3>1. \A i \in 0 .. n : i \in P
      BY <1>1, <2>1, <2>2, LoopInduction
    <3> QED BY <1>1, <3>1
  <2>4. PICK h : h = [V \in SUBSET Cluster |-> h[V]] /\ UpTo(h, n)
    BY <2>3
  <2>5. \A V \in SUBSET Cluster : h[V] = Value(h, V)
    <3> TAKE V \in SUBSET Cluster
    <3>1. Cardinality(V) <= n
      BY <1>0, <1>1
    <3> QED BY <2>4, <3>1
  <2> HIDE DEF Value
  <2>6. [V \in SUBSET Cluster |-> h[V]] = [V \in SUBSET Cluster |-> Value(h, V)]
    BY <2>5
  <2> QED BY <2>4, <2>6
<1> DEFINE sum == CHOOSE h : Is(h)
<1>4. Is(sum)
  <2> HIDE DEF Is
  <2> QED BY <1>3
<1>5. \A V \in SUBSET Cluster : SumOf(f, V) = sum[V]
  BY DEF SumOf, Any
<1> HIDE DEF sum
<1>6. sum[T] = Value(sum, T)
  BY <1>4
<1>7. CASE T = {}
  BY <1>5, <1>6, <1>7
<1>8. CASE T # {}
  <2>1. T \ {Any(T)} \in SUBSET Cluster
    BY <1>2, <1>8
  <2>2. SumOf(f, T) = f[Any(T)] + SumOf(f, T \ {Any(T)})
    BY <1>5, <1>6, <1>8, <2>1
  <2> QED BY <1>8, <2>2 DEF Any
<1> QED BY <1>7, <1>8

(* A sum of integers is an integer, and any of the clusters may be counted first. *)
LEMMA SumPick ==
  ASSUME NEW f, NEW S \in SUBSET Cluster, \A c \in S : f[c] \in Int
  PROVE  /\ SumOf(f, S) \in Int
         /\ \A x \in S : SumOf(f, S) = f[x] + SumOf(f, S \ {x})
<1> DEFINE n == Cardinality(S)
           Good(V) == SumOf(f, V) \in Int /\ \A x \in V : SumOf(f, V) = f[x] + SumOf(f, V \ {x})
           P == {i \in 0 .. n : \A V \in SUBSET S : Cardinality(V) <= i => Good(V)}
           Any(V) == CHOOSE c \in V : TRUE
<1>0. \A V \in SUBSET S : IsFiniteSet(V) /\ Cardinality(V) \in 0 .. n /\ (Cardinality(V) = 0 <=> V = {})
  <2>1. IsFiniteSet(S)
    BY PlannerAssumption, FS_Subset
  <2> QED BY <2>1, FS_Subset, FS_CardinalityType, FS_EmptySet
<1>1. n \in Nat
  BY <1>0
<1>2. \A V \in SUBSET S : \A x \in V : V \ {x} \in SUBSET S /\ Cardinality(V \ {x}) = Cardinality(V) - 1
  BY <1>0, FS_RemoveElement
<1>3. \A V \in SUBSET S : V # {} => Any(V) \in V /\ SumOf(f, V) = f[Any(V)] + SumOf(f, V \ {Any(V)})
  BY SumUnfold
<1> HIDE DEF Any, n
<1>4. 0 \in P
  <2>1. ASSUME NEW V \in SUBSET S, Cardinality(V) <= 0 PROVE Good(V)
    <3>1. V = {}
      BY <1>0, <2>1
    <3>2. SumOf(f, V) = 0
      BY <3>1, SumUnfold
    <3> QED BY <3>1, <3>2
  <2> QED BY <1>1, <2>1
<1>5. ASSUME NEW i \in 1 .. n, i - 1 \in P PROVE i \in P
  <2>1. ASSUME NEW V \in SUBSET S, Cardinality(V) <= i PROVE Good(V)
    <3>1. CASE V = {}
      <4>1. SumOf(f, V) = 0
        BY <3>1, SumUnfold
      <4> QED BY <3>1, <4>1
    <3>2. CASE V # {}
      <4> DEFINE a == Any(V)
      <4>1. a \in V /\ SumOf(f, V) = f[a] + SumOf(f, V \ {a})
        BY <1>3, <3>2
      <4> HIDE DEF a
      <4>2. \A x \in V : V \ {x} \in SUBSET S /\ Cardinality(V \ {x}) <= i - 1
        BY <1>0, <1>2, <2>1
      <4>3. \A x \in V : Good(V \ {x})
        BY <1>5, <4>2
      <4>4. f[a] \in Int /\ SumOf(f, V \ {a}) \in Int
        BY <4>1, <4>3
      <4>5. ASSUME NEW x \in V PROVE SumOf(f, V) = f[x] + SumOf(f, V \ {x})
        <5>1. CASE x = a
          BY <4>1, <5>1
        <5>2. CASE x # a
          <6>1. x \in V \ {a} /\ a \in V \ {x} /\ (V \ {a}) \ {x} = (V \ {x}) \ {a}
            BY <4>1, <5>2
          <6>2. SumOf(f, V \ {a}) = f[x] + SumOf(f, (V \ {a}) \ {x})
            BY <4>1, <4>3, <6>1
          <6>3. SumOf(f, V \ {x}) = f[a] + SumOf(f, (V \ {x}) \ {a})
            BY <4>3, <6>1
          <6> DEFINE rest == SumOf(f, (V \ {a}) \ {x})
          <6>4. rest \in Int
            <7>1. V \ {a} \in SUBSET S /\ (V \ {a}) \ {x} \in SUBSET S
              OBVIOUS
            <7>2. Cardinality((V \ {a}) \ {x}) <= i - 1
              <8>1. Cardinality((V \ {a}) \ {x}) = Cardinality(V \ {a}) - 1
                BY <1>2, <6>1, <7>1
              <8>2. Cardinality(V \ {a}) \in Int /\ Cardinality(V \ {a}) <= i - 1
                BY <1>0, <4>1, <4>2, <7>1
              <8> QED BY <8>1, <8>2
            <7> QED BY <1>5, <7>1, <7>2
          <6>5. f[x] \in Int
            OBVIOUS
          <6>6. SumOf(f, V) = f[a] + (f[x] + rest) /\ SumOf(f, V \ {x}) = f[a] + rest
            BY <4>1, <6>1, <6>2, <6>3
          <6> HIDE DEF rest
          <6> QED BY <4>4, <6>4, <6>5, <6>6
        <5> QED BY <5>1, <5>2
      <4>6. SumOf(f, V) \in Int
        BY <4>1, <4>4
      <4> QED BY <4>5, <4>6
    <3> QED BY <3>1, <3>2
  <2>2. i \in 0 .. n
    BY <1>1
  <2> HIDE DEF Good
  <2> QED BY <2>1, <2>2
<1>6. n \in P
  <2> HIDE DEF P
  <2>1. \A i \in 0 .. n : i \in P
    BY <1>1, <1>4, <1>5, LoopInduction
  <2> QED BY <1>1, <2>1
<1>7. S \in SUBSET S /\ Cardinality(S) <= n
  BY <1>1 DEF n
<1>8. Good(S)
  BY <1>6, <1>7
<1> QED BY <1>8

(* One more cluster adds its value. *)
LEMMA SumAdd ==
  ASSUME NEW f, NEW U \in SUBSET Cluster, NEW x \in Cluster, x \notin U,
         \A c \in U \cup {x} : f[c] \in Int
  PROVE  SumOf(f, U \cup {x}) = f[x] + SumOf(f, U) /\ SumOf(f, U) \in Int
<1>1. U \cup {x} \in SUBSET Cluster /\ (U \cup {x}) \ {x} = U
  OBVIOUS
<1>2. SumOf(f, U \cup {x}) = f[x] + SumOf(f, (U \cup {x}) \ {x})
  BY <1>1, SumPick
<1> QED BY <1>1, <1>2, SumPick

(* Sums compare as their terms do. *)
LEMMA SumOrder ==
  ASSUME NEW f, NEW g, NEW T \in SUBSET Cluster,
         \A c \in T : f[c] \in Int /\ g[c] \in Int /\ f[c] <= g[c]
  PROVE  SumOf(f, T) <= SumOf(g, T)
<1> DEFINE P == {U \in SUBSET T : SumOf(f, U) <= SumOf(g, U)}
<1>1. {} \in P
  <2>1. SumOf(f, {}) = 0 /\ SumOf(g, {}) = 0
    BY SumUnfold
  <2> QED BY <2>1
<1>2. ASSUME NEW U \in SUBSET T, NEW x \in T \ U, U \in P PROVE U \cup {x} \in P
  <2>1. SumOf(f, U \cup {x}) = f[x] + SumOf(f, U) /\ SumOf(f, U) \in Int
    BY SumAdd
  <2>2. SumOf(g, U \cup {x}) = g[x] + SumOf(g, U) /\ SumOf(g, U) \in Int
    BY SumAdd
  <2>3. SumOf(f, U) <= SumOf(g, U) /\ f[x] <= g[x] /\ f[x] \in Int /\ g[x] \in Int
    BY <1>2
  <2> QED BY <2>1, <2>2, <2>3
<1> HIDE DEF P
<1>3. T \in P
  BY <1>1, <1>2, SetInduction
<1> QED BY <1>3 DEF P

(* Sums of the same terms are the same. *)
LEMMA SumSame ==
  ASSUME NEW f, NEW g, NEW T \in SUBSET Cluster, \A c \in T : f[c] \in Int /\ g[c] = f[c]
  PROVE  SumOf(f, T) = SumOf(g, T)
<1>1. SumOf(f, T) <= SumOf(g, T) /\ SumOf(g, T) <= SumOf(f, T)
  BY SumOrder
<1>2. SumOf(f, T) \in Int /\ SumOf(g, T) \in Int
  BY SumPick
<1> QED BY <1>1, <1>2

(* An assignment changes a sum by what it changes the entry. *)
LEMMA SumExcept ==
  ASSUME NEW f \in [Cluster -> Int], NEW x \in Cluster, NEW v \in Int
  PROVE  SumOf([f EXCEPT ![x] = v], Cluster) = SumOf(f, Cluster) - f[x] + v
<1> DEFINE g == [f EXCEPT ![x] = v]
           Rest == Cluster \ {x}
<1>1. SumOf(f, Cluster) = f[x] + SumOf(f, Rest) /\ SumOf(f, Rest) \in Int
  BY SumPick
<1>2. g \in [Cluster -> Int] /\ g[x] = v /\ \A c \in Rest : g[c] = f[c]
  OBVIOUS
<1> HIDE DEF g
<1>3. SumOf(g, Cluster) = g[x] + SumOf(g, Rest)
  BY <1>2, SumPick
<1>4. SumOf(f, Rest) = SumOf(g, Rest)
  BY <1>2, SumSame
<1>5. f[x] \in Int
  OBVIOUS
<1>6. SumOf(g, Cluster) = SumOf(f, Cluster) - f[x] + v
  BY <1>1, <1>2, <1>3, <1>4, <1>5
<1> QED BY <1>6 DEF g

LEMMA SumZero ==
  SumOf(Zero, Cluster) = 0
<1> DEFINE P == {U \in SUBSET Cluster : SumOf(Zero, U) = 0}
<1>1. {} \in P
  BY SumUnfold
<1>2. ASSUME NEW U \in SUBSET Cluster, NEW x \in Cluster \ U, U \in P PROVE U \cup {x} \in P
  <2>1. \A c \in Cluster : Zero[c] = 0
    BY DEF Zero
  <2>2. SumOf(Zero, U \cup {x}) = Zero[x] + SumOf(Zero, U)
    BY <2>1, SumAdd
  <2> QED BY <1>2, <2>1, <2>2
<1> HIDE DEF P
<1>3. Cluster \in P
  BY <1>1, <1>2, SetInduction
<1> QED BY <1>3 DEF P

(* Where f exceeds g only on S, and there by at most h, the sums differ by at most the sum
   of h over S. *)
LEMMA SumExcess ==
  ASSUME NEW f \in [Cluster -> Int], NEW g \in [Cluster -> Int], NEW S \in SUBSET Cluster, NEW h,
         \A c \in S : h[c] \in Int /\ f[c] - g[c] <= h[c],
         \A c \in Cluster \ S : f[c] <= g[c]
  PROVE  SumOf(f, Cluster) - SumOf(g, Cluster) <= SumOf(h, S)
<1> DEFINE P == {U \in SUBSET Cluster : SumOf(f, U) - SumOf(g, U) <= SumOf(h, U \cap S)}
<1>1. {} \in P
  <2>1. {} \cap S = {}
    OBVIOUS
  <2>2. SumOf(f, {}) = 0 /\ SumOf(g, {}) = 0 /\ SumOf(h, {}) = 0
    BY SumUnfold
  <2> QED BY <2>1, <2>2
<1>2. ASSUME NEW U \in SUBSET Cluster, NEW x \in Cluster \ U, U \in P PROVE U \cup {x} \in P
  <2>1. SumOf(f, U \cup {x}) = f[x] + SumOf(f, U) /\ SumOf(f, U) \in Int
    BY SumAdd
  <2>2. SumOf(g, U \cup {x}) = g[x] + SumOf(g, U) /\ SumOf(g, U) \in Int
    BY SumAdd
  <2>3. SumOf(f, U) - SumOf(g, U) <= SumOf(h, U \cap S) /\ SumOf(h, U \cap S) \in Int
    BY <1>2, SumPick
  <2>4. f[x] \in Int /\ g[x] \in Int
    OBVIOUS
  <2>5. CASE x \in S
    <3>1. (U \cup {x}) \cap S = (U \cap S) \cup {x}
      BY <2>5
    <3>2. SumOf(h, (U \cap S) \cup {x}) = h[x] + SumOf(h, U \cap S)
      BY <2>5, SumAdd
    <3>3. f[x] - g[x] <= h[x] /\ h[x] \in Int
      BY <2>5
    <3>4. SumOf(f, U \cup {x}) - SumOf(g, U \cup {x}) <= SumOf(h, (U \cap S) \cup {x})
      BY <2>1, <2>2, <2>3, <2>4, <3>2, <3>3
    <3> QED BY <3>1, <3>4
  <2>6. CASE x \notin S
    <3>1. (U \cup {x}) \cap S = U \cap S
      BY <2>6
    <3>2. f[x] <= g[x]
      BY <2>6
    <3>3. SumOf(f, U \cup {x}) - SumOf(g, U \cup {x}) <= SumOf(h, U \cap S)
      BY <2>1, <2>2, <2>3, <2>4, <3>2
    <3> QED BY <3>1, <3>3
  <2> QED BY <2>5, <2>6
<1> HIDE DEF P
<1>3. Cluster \in P
  BY <1>1, <1>2, SetInduction
<1>4. Cluster \cap S = S
  OBVIOUS
<1> QED BY <1>3, <1>4 DEF P

(* Inequalities add up. *)
LEMMA SumLinear ==
  ASSUME NEW f, NEW g, NEW T \in SUBSET Cluster, NEW a \in Int, NEW b \in Int, NEW d \in Int,
         \A c \in T : f[c] \in Int /\ g[c] \in Int /\ a * f[c] <= b * g[c] + d
  PROVE  a * SumOf(f, T) <= b * SumOf(g, T) + d * Cardinality(T)
<1> DEFINE P == {U \in SUBSET T : a * SumOf(f, U) <= b * SumOf(g, U) + d * Cardinality(U)}
<1>1. {} \in P
  <2>1. SumOf(f, {}) = 0 /\ SumOf(g, {}) = 0
    BY SumUnfold
  <2>2. Cardinality({}) = 0
    BY FS_EmptySet
  <2> QED BY <2>1, <2>2
<1>2. ASSUME NEW U \in SUBSET T, NEW x \in T \ U, U \in P PROVE U \cup {x} \in P
  <2>1. SumOf(f, U \cup {x}) = f[x] + SumOf(f, U) /\ SumOf(f, U) \in Int
    BY SumAdd
  <2>2. SumOf(g, U \cup {x}) = g[x] + SumOf(g, U) /\ SumOf(g, U) \in Int
    BY SumAdd
  <2>3. f[x] \in Int /\ g[x] \in Int /\ a * f[x] <= b * g[x] + d
    OBVIOUS
  <2>4. IsFiniteSet(U)
    BY PlannerAssumption, FS_Subset
  <2>5. Cardinality(U \cup {x}) = Cardinality(U) + 1 /\ Cardinality(U) \in Nat
    BY <2>4, FS_AddElement, FS_CardinalityType
  <2>6. a * SumOf(f, U) <= b * SumOf(g, U) + d * Cardinality(U)
    BY <1>2
  <2> DEFINE F == SumOf(f, U)
             G == SumOf(g, U)
             k == Cardinality(U)
             v == f[x]
             w == g[x]
  <2>7. F \in Int /\ G \in Int /\ k \in Int /\ v \in Int /\ w \in Int
        /\ a * F <= b * G + d * k /\ a * v <= b * w + d
    BY <2>1, <2>2, <2>3, <2>5, <2>6
  <2>8. a * (v + F) <= b * (w + G) + d * (k + 1)
    <3> HIDE DEF F, G, k, v, w
    <3>1. a * (v + F) = a * v + a * F /\ b * (w + G) = b * w + b * G /\ d * (k + 1) = d * k + d
      BY <2>7
    <3>2. a * v \in Int /\ a * F \in Int /\ b * w \in Int /\ b * G \in Int /\ d * k \in Int
      BY <2>7
    <3> QED BY <2>7, <3>1, <3>2
  <2> QED BY <2>1, <2>2, <2>5, <2>8
<1> HIDE DEF P
<1>3. T \in P
  BY <1>1, <1>2, SetInduction
<1> QED BY <1>3 DEF P

(* The sum of the sums. *)
LEMMA SumPlus ==
  ASSUME NEW f, NEW g, NEW h, NEW T \in SUBSET Cluster,
         \A c \in T : f[c] \in Int /\ g[c] \in Int /\ h[c] = f[c] + g[c]
  PROVE  SumOf(h, T) = SumOf(f, T) + SumOf(g, T)
<1> DEFINE P == {U \in SUBSET T : SumOf(h, U) = SumOf(f, U) + SumOf(g, U)}
<1>1. {} \in P
  <2>1. SumOf(f, {}) = 0 /\ SumOf(g, {}) = 0 /\ SumOf(h, {}) = 0
    BY SumUnfold
  <2> QED BY <2>1
<1>2. ASSUME NEW U \in SUBSET T, NEW x \in T \ U, U \in P PROVE U \cup {x} \in P
  <2>0. \A c \in T : h[c] \in Int
    OBVIOUS
  <2>1. SumOf(f, U \cup {x}) = f[x] + SumOf(f, U) /\ SumOf(f, U) \in Int
    BY SumAdd
  <2>2. SumOf(g, U \cup {x}) = g[x] + SumOf(g, U) /\ SumOf(g, U) \in Int
    BY SumAdd
  <2>3. SumOf(h, U \cup {x}) = h[x] + SumOf(h, U)
    BY <2>0, SumAdd
  <2>4. SumOf(h, U) = SumOf(f, U) + SumOf(g, U) /\ h[x] = f[x] + g[x] /\ f[x] \in Int /\ g[x] \in Int
    BY <1>2
  <2> QED BY <2>1, <2>2, <2>3, <2>4
<1> HIDE DEF P
<1>3. T \in P
  BY <1>1, <1>2, SetInduction
<1> QED BY <1>3 DEF P

(* Terms that compare and have the same sum are the same. *)
LEMMA SumSqueeze ==
  ASSUME NEW f, NEW g, NEW T \in SUBSET Cluster,
         \A c \in T : f[c] \in Int /\ g[c] \in Int /\ f[c] <= g[c], SumOf(f, T) = SumOf(g, T)
  PROVE  \A c \in T : f[c] = g[c]
<1> TAKE c \in T
<1>1. SumOf(f, T) = f[c] + SumOf(f, T \ {c}) /\ SumOf(g, T) = g[c] + SumOf(g, T \ {c})
  BY SumPick
<1>2. SumOf(f, T \ {c}) <= SumOf(g, T \ {c})
  BY SumOrder
<1>3. SumOf(f, T \ {c}) \in Int /\ SumOf(g, T \ {c}) \in Int
  BY SumPick
<1>4. f[c] \in Int /\ g[c] \in Int /\ f[c] <= g[c]
  OBVIOUS
<1> DEFINE F == SumOf(f, T \ {c})
           G == SumOf(g, T \ {c})
<1>5. f[c] + F = g[c] + G
  BY <1>1
<1> HIDE DEF F, G
<1>6. F \in Int /\ G \in Int /\ F <= G
  BY <1>2, <1>3 DEF F, G
<1> QED BY <1>4, <1>5, <1>6

(* A sum of naturals is a natural, and none of them is greater. *)
LEMMA SumNat ==
  ASSUME NEW f, NEW T \in SUBSET Cluster, \A c \in T : f[c] \in Nat
  PROVE  SumOf(f, T) \in Nat /\ \A c \in T : f[c] <= SumOf(f, T)
<1>1. \A V \in SUBSET T : SumOf(f, V) \in Nat
  <2> TAKE V \in SUBSET T
  <2>1. SumOf(f, V) \in Int
    BY SumPick
  <2>2. IsFiniteSet(V)
    BY PlannerAssumption, FS_Subset
  <2>3. Cardinality(V) \in Int
    BY <2>2, FS_CardinalityType
  <2>4. \A c \in V : f[c] \in Int /\ (-1) * f[c] <= 0 * f[c] + 0
    OBVIOUS
  <2>5. (-1) * SumOf(f, V) <= 0 * SumOf(f, V) + 0 * Cardinality(V)
    <3>1. -1 \in Int /\ 0 \in Int /\ V \in SUBSET Cluster
      OBVIOUS
    <3> QED BY <2>4, <3>1, SumLinear
  <2> QED BY <2>1, <2>3, <2>5
<1>2. ASSUME NEW c \in T PROVE f[c] <= SumOf(f, T)
  <2>1. SumOf(f, T) = f[c] + SumOf(f, T \ {c})
    BY SumPick
  <2>2. SumOf(f, T \ {c}) \in Nat /\ f[c] \in Nat
    BY <1>1
  <2> QED BY <2>1, <2>2
<1> QED BY <1>1, <1>2

-----------------------------------------------------------------------------
(* The order of the spreading planner. *)

(* A set of clusters has one that no other cluster of the set comes before. *)
LEMMA FirstPreference ==
  ASSUME NEW prefs, DOMAIN prefs \in SUBSET Cluster,
         \A c \in DOMAIN prefs : prefs[c].weight \in Int,
         NEW V \in SUBSET DOMAIN prefs, V # {}
  PROVE  \E m \in V : \A d \in V : ~Before(prefs, d, m)
<1> DEFINE Ahead(c) == {d \in V : Before(prefs, d, c)}
           Counts == {Cardinality(Ahead(c)) : c \in V}
<1>0. \A c \in V : Hash[c] \in Int /\ prefs[c].weight \in Int
  BY PlannerAssumption
<1>1. \A U \in SUBSET V : IsFiniteSet(U) /\ Cardinality(U) \in Nat
  <2>1. IsFiniteSet(V)
    BY PlannerAssumption, FS_Subset
  <2> QED BY <2>1, FS_Subset, FS_CardinalityType
<1>2. Counts \in SUBSET Nat /\ Counts # {}
  BY <1>1
<1>3. PICK k \in Counts : \A l \in Counts : k <= l
  BY <1>2, LeastNumber
<1>4. PICK m \in V : k = Cardinality(Ahead(m))
  BY <1>3
<1>5. ASSUME NEW d \in V, Before(prefs, d, m) PROVE FALSE
  <2>1. Ahead(d) \in SUBSET Ahead(m) /\ d \in Ahead(m) /\ d \notin Ahead(d)
    BY <1>0, <1>5 DEF Before
  <2>2. Ahead(d) # Ahead(m) /\ Ahead(m) \in SUBSET V /\ Ahead(d) \in SUBSET V
    BY <2>1
  <2>3. Cardinality(Ahead(d)) \in Counts
    OBVIOUS
  <2> HIDE DEF Ahead, Counts
  <2>4. Cardinality(Ahead(d)) <= Cardinality(Ahead(m)) /\ Cardinality(Ahead(d)) # Cardinality(Ahead(m))
    BY <1>1, <2>1, <2>2, FS_Subset
  <2>5. Cardinality(Ahead(m)) <= Cardinality(Ahead(d))
    BY <1>3, <1>4, <2>3
  <2>6. Cardinality(Ahead(m)) \in Nat /\ Cardinality(Ahead(d)) \in Nat
    BY <1>1, <2>2
  <2> QED BY <2>4, <2>5, <2>6
<1> QED BY <1>5

(* The clusters can be sorted: getNamedPreferences lists each of them once. *)
LEMMA NamedPreferences ==
  ASSUME NEW prefs, DOMAIN prefs \in SUBSET Cluster,
         \A c \in DOMAIN prefs : prefs[c].weight \in Int
  PROVE  /\ getNamedPreferences(prefs) \in Seq(Cluster)
         /\ IsOrder(getNamedPreferences(prefs))
         /\ Len(getNamedPreferences(prefs)) = Cardinality(DOMAIN prefs)
         /\ Cardinality(DOMAIN prefs) \in Nat
         /\ {getNamedPreferences(prefs)[i] : i \in 1 .. Cardinality(DOMAIN prefs)} = DOMAIN prefs
<1> DEFINE D == DOMAIN prefs
           n == Cardinality(D)
           Sorted(V, s) == \A i, j \in DOMAIN s : i < j => s[i] # s[j] /\ ~Before(prefs, s[j], s[i])
           Lists(V, s) == s \in [1 .. Cardinality(V) -> V] /\ Sorted(V, s)
           P == {k \in 0 .. n : \A V \in SUBSET D : Cardinality(V) = k => \E s : Lists(V, s)}
<1>0. IsFiniteSet(D) /\ \A V \in SUBSET D : IsFiniteSet(V) /\ Cardinality(V) \in Nat
  <2>1. IsFiniteSet(D)
    BY PlannerAssumption, FS_Subset
  <2> QED BY <2>1, FS_Subset, FS_CardinalityType
<1>1. n \in Nat
  BY <1>0
<1>2. 0 \in P
  <2>1. ASSUME NEW V \in SUBSET D, Cardinality(V) = 0 PROVE \E s : Lists(V, s)
    <3> DEFINE s == [i \in 1 .. 0 |-> {}]
    <3>1. 1 .. Cardinality(V) = 1 .. 0 /\ 1 .. 0 = {}
      BY <2>1
    <3>2. s \in [1 .. Cardinality(V) -> V] /\ DOMAIN s = {}
      BY <3>1
    <3>3. Lists(V, s)
      BY <3>2
    <3> QED BY <3>3
  <2> QED BY <1>1, <2>1
<1>3. ASSUME NEW k \in 1 .. n, k - 1 \in P PROVE k \in P
  <2>1. ASSUME NEW V \in SUBSET D, Cardinality(V) = k PROVE \E s : Lists(V, s)
    <3>1. V # {}
      BY <1>0, <2>1, FS_EmptySet
    <3>2. PICK m \in V : \A d \in V : ~Before(prefs, d, m)
      BY <3>1, FirstPreference
    <3> DEFINE R == V \ {m}
    <3>3. R \in SUBSET D /\ Cardinality(R) = k - 1
      <4>1. IsFiniteSet(V)
        BY <1>0
      <4> QED BY <2>1, <3>2, <4>1, FS_RemoveElement
    <3>4. PICK t : Lists(R, t)
      BY <1>3, <3>3
    <3>5. t \in [1 .. k - 1 -> R] /\ DOMAIN t = 1 .. k - 1
      BY <3>3, <3>4
    <3> DEFINE s == [i \in 1 .. k |-> IF i = 1 THEN m ELSE t[i - 1]]
    <3>6. \A i \in 2 .. k : i - 1 \in 1 .. k - 1 /\ s[i] = t[i - 1] /\ s[i] \in R
      BY <3>5
    <3>7. s[1] = m /\ 1 \in 1 .. k
      OBVIOUS
    <3>8. s \in [1 .. k -> V] /\ DOMAIN s = 1 .. k
      <4>1. ASSUME NEW i \in 1 .. k PROVE s[i] \in V
        <5>1. CASE i = 1
          BY <5>1
        <5>2. CASE i # 1
          <6>1. i \in 2 .. k
            BY <5>2
          <6> QED BY <3>6, <6>1
        <5> QED BY <5>1, <5>2
      <4> QED BY <4>1
    <3> HIDE DEF s
    <3>9. ASSUME NEW i \in 1 .. k, NEW j \in 1 .. k, i < j
          PROVE  s[i] # s[j] /\ ~Before(prefs, s[j], s[i])
      <4>1. j \in 2 .. k
        BY <3>9
      <4>2. CASE i = 1
        BY <3>2, <3>6, <3>7, <4>1, <4>2
      <4>3. CASE i # 1
        <5>1. i \in 2 .. k /\ i - 1 < j - 1
          BY <3>9, <4>3
        <5>2. s[i] = t[i - 1] /\ s[j] = t[j - 1] /\ i - 1 \in DOMAIN t /\ j - 1 \in DOMAIN t
          BY <3>5, <3>6, <4>1, <5>1
        <5> QED BY <3>4, <5>1, <5>2
      <4> QED BY <4>2, <4>3
    <3>10. Lists(V, s)
      BY <2>1, <3>8, <3>9
    <3> QED BY <3>10
  <2>2. k \in 0 .. n
    BY <1>1
  <2> HIDE DEF Lists
  <2> QED BY <2>1, <2>2
<1>4. n \in P
  <2> HIDE DEF P
  <2>1. \A i \in 0 .. n : i \in P
    BY <1>1, <1>2, <1>3, LoopInduction
  <2> QED BY <1>1, <2>1
<1> DEFINE order == getNamedPreferences(prefs)
<1>5. order \in [1 .. n -> D] /\ Sorted(D, order)
  <2>1. \E s \in [1 .. n -> D] : Sorted(D, s)
    BY <1>4
  <2>2. order = CHOOSE s \in [1 .. n -> D] : Sorted(D, s)
    BY DEF getNamedPreferences
  <2> HIDE DEF order, n, D, Sorted
  <2> QED BY <2>1, <2>2
<1> HIDE DEF order
<1>6. \A i, j \in 1 .. n : order[i] = order[j] => i = j
  BY <1>1, <1>5
<1>7. order \in Injection(1 .. n, D)
  BY <1>5, <1>6 DEF Injection, IsInjective
<1>8. Cardinality(1 .. n) = n
  BY <1>1, FS_Interval
<1>9. order \in Surjection(1 .. n, D)
  BY <1>0, <1>7, <1>8, FS_Injection
<1>10. {order[i] : i \in 1 .. n} = D
  <2>1. \A i \in 1 .. n : order[i] \in D
    BY <1>5
  <2>2. \A d \in D : \E i \in 1 .. n : order[i] = d
    BY <1>9, Zenon DEF Surjection
  <2> HIDE DEF n, D
  <2> QED BY <2>1, <2>2
<1>11. order \in Seq(D) /\ Len(order) = n
  BY <1>1, <1>5
<1>12. order \in Seq(Cluster)
  BY <1>1, <1>5
<1>13. IsOrder(order)
  BY <1>5, <1>6 DEF IsOrder
<1> QED BY <1>1, <1>10, <1>11, <1>12, <1>13 DEF order

-----------------------------------------------------------------------------
(* The minima. *)

Counts == [Cluster -> Int]

Capacities == [Cluster -> Limit]

Draft == [plan : Counts, overflow : Counts, remaining : Int]

(* Preferences as the planners pass them on: scaling up may leave a maximum below zero. *)
Sane(prefs) ==
  /\ DOMAIN prefs \in SUBSET Cluster
  /\ \A c \in DOMAIN prefs : prefs[c].min \in Nat /\ prefs[c].max \in Int \cup {Absent}

LEMMA CutIs ==
  ASSUME NEW n \in Int, NEW l \in Int \cup {Absent}
  PROVE  /\ Cut(n, l) \in Int
         /\ Cut(n, l) <= n
         /\ (l # Absent => l \in Int /\ Cut(n, l) <= l)
         /\ (Cut(n, l) = n \/ (l # Absent /\ Cut(n, l) = l))
<1>1. CASE l = Absent
  BY <1>1 DEF Cut
<1>2. CASE l \in Int
  BY <1>2, PlannerAssumption DEF Cut, Least2
<1> QED BY <1>1, <1>2

(* What the turn of a cluster in the loop over the minima does: it gets some replicas and
   some are turned away. *)
MinTurn(st, c, prefs, next, got, turned) ==
  /\ next = [plan      |-> [st.plan EXCEPT ![c] = got],
             overflow  |-> [st.overflow EXCEPT ![c] = turned],
             remaining |-> st.remaining - got]
  /\ got <= st.remaining /\ turned >= 0
  /\ (st.remaining >= 0 => got >= 0)
  /\ (prefs[c].min = 0 => got <= 0)
  /\ (prefs[c].min = 0 /\ st.remaining >= 0 => got = 0 /\ turned = 0)

LEMMA AssignMinIs ==
  ASSUME NEW prefs, Sane(prefs), NEW est \in Capacities, NEW lim \in Capacities,
         NEW st \in Draft, NEW c \in DOMAIN prefs
  PROVE  \E got, turned \in Int :
           MinTurn(st, c, prefs, AssignMin(st, c, prefs, est, lim), got, turned)
<1> DEFINE first  == Least2(prefs[c].min, st.remaining)
           wanted == Cut(first, lim[c])
           got    == Cut(wanted, est[c])
<1>1. c \in Cluster /\ prefs[c].min \in Nat /\ st.remaining \in Int
  BY DEF Sane, Draft
<1>2. lim[c] \in Int \cup {Absent} /\ (lim[c] # Absent => lim[c] \in Nat)
  BY <1>1 DEF Capacities, Limit
<1>3. est[c] \in Int \cup {Absent} /\ (est[c] # Absent => est[c] \in Nat)
  BY <1>1 DEF Capacities, Limit
<1>4. /\ first \in Int /\ first <= st.remaining /\ first <= prefs[c].min
      /\ (st.remaining >= 0 => first >= 0)
  BY <1>1 DEF Least2
<1> HIDE DEF first
<1>5. /\ wanted \in Int /\ wanted <= first
      /\ (wanted = first \/ (lim[c] # Absent /\ wanted = lim[c]))
  BY <1>2, <1>4, CutIs
<1> HIDE DEF wanted
<1>6. /\ got \in Int /\ got <= wanted
      /\ (got = wanted \/ (est[c] # Absent /\ got = est[c]))
  BY <1>3, <1>5, CutIs
<1>7. AssignMin(st, c, prefs, est, lim) =
        [plan      |-> [st.plan EXCEPT ![c] = got],
         overflow  |-> [st.overflow EXCEPT ![c] = wanted - got],
         remaining |-> st.remaining - got]
  BY DEF AssignMin, first, wanted
<1> HIDE DEF got
<1>8. wanted - got \in Int /\ wanted - got >= 0 /\ got <= st.remaining
  BY <1>1, <1>4, <1>5, <1>6
<1>9. st.remaining >= 0 => wanted >= 0 /\ got >= 0
  BY <1>1, <1>2, <1>3, <1>4, <1>5, <1>6
<1>10. prefs[c].min = 0 => got <= 0 /\ wanted <= 0
  BY <1>1, <1>4, <1>5, <1>6
<1>11. prefs[c].min = 0 /\ st.remaining >= 0 => got = 0 /\ wanted - got = 0
  BY <1>5, <1>6, <1>9, <1>10
<1> QED BY <1>6, <1>7, <1>8, <1>9, <1>10, <1>11 DEF MinTurn

(* The drafts after each turn of the loop over the minima. *)
MinTurns(after, order, prefs, est, lim, count) ==
  /\ after \in [0 .. Len(order) -> Draft]
  /\ after[0] = EmptyPlan(count)
  /\ \A i \in 1 .. Len(order) :
       after[i] = IF order[i] \notin DOMAIN prefs THEN after[i - 1]
                  ELSE AssignMin(after[i - 1], order[i], prefs, est, lim)
  /\ AssignMins(order, prefs, est, lim, count) = after[Len(order)]

(* AssignMins is the result of its loop. *)
LEMMA AssignMinsLoop ==
  ASSUME NEW order \in Seq(Cluster), NEW prefs, Sane(prefs),
         NEW est \in Capacities, NEW lim \in Capacities, NEW count \in Int
  PROVE  \E after : MinTurns(after, order, prefs, est, lim, count)
<1> DEFINE n == Len(order)
           Step(x, i) == IF order[i] \notin DOMAIN prefs THEN x
                         ELSE AssignMin(x, order[i], prefs, est, lim)
           Is(g) == g = [i \in 0 .. n |-> IF i = 0 THEN EmptyPlan(count)
                                          ELSE IF order[i] \notin DOMAIN prefs THEN g[i - 1]
                                          ELSE AssignMin(g[i - 1], order[i], prefs, est, lim)]
           turn == [i \in 1 .. n |-> [x \in Draft |-> Step(x, i)]]
           after == CHOOSE g : Is(g)
<1>0. n \in Nat
  OBVIOUS
<1>1. EmptyPlan(count) \in Draft
  BY DEF EmptyPlan, Draft, Counts, Zero
<1>2. ASSUME NEW i \in 1 .. n, NEW x \in Draft PROVE Step(x, i) \in Draft
  <2>1. CASE order[i] \notin DOMAIN prefs
    BY <2>1
  <2>2. CASE order[i] \in DOMAIN prefs
    <3>1. PICK got, turned \in Int :
              MinTurn(x, order[i], prefs, AssignMin(x, order[i], prefs, est, lim), got, turned)
      BY <2>2, AssignMinIs
    <3>2. AssignMin(x, order[i], prefs, est, lim) =
            [plan      |-> [x.plan EXCEPT ![order[i]] = got],
             overflow  |-> [x.overflow EXCEPT ![order[i]] = turned],
             remaining |-> x.remaining - got]
      BY <3>1 DEF MinTurn
    <3>3. [x.plan EXCEPT ![order[i]] = got] \in Counts
          /\ [x.overflow EXCEPT ![order[i]] = turned] \in Counts /\ x.remaining - got \in Int
      BY DEF Draft, Counts
    <3> QED BY <2>2, <3>2, <3>3 DEF Draft
  <2> QED BY <2>1, <2>2
<1>3. turn \in [1 .. n -> [Draft -> Draft]]
  <2> HIDE DEF Step, n
  <2> QED BY <1>2
<1>4. PICK g \in [0 .. n -> Draft] :
         g[0] = EmptyPlan(count) /\ \A i \in 1 .. n : g[i] = turn[i][g[i - 1]]
  <2> HIDE DEF turn, n
  <2>1. \E g : Computes(g, n, Draft, EmptyPlan(count), turn)
    BY <1>0, <1>1, <1>3, LoopExists
  <2> QED BY <2>1 DEF Computes
<1>5. \A i \in 1 .. n : i - 1 \in 0 .. n /\ g[i] = Step(g[i - 1], i)
  <2> TAKE i \in 1 .. n
  <2>1. i - 1 \in 0 .. n
    OBVIOUS
  <2>2. g[i - 1] \in Draft
    BY <2>1
  <2>3. turn[i][g[i - 1]] = Step(g[i - 1], i)
    BY <2>2
  <2> QED BY <1>4, <2>1, <2>3
<1>6. Is(g)
  <2>1. ASSUME NEW i \in 0 .. n
        PROVE  g[i] = IF i = 0 THEN EmptyPlan(count) ELSE Step(g[i - 1], i)
    <3>1. CASE i = 0
      BY <1>4, <3>1
    <3>2. CASE i # 0
      <4>1. i \in 1 .. n
        BY <3>2
      <4> QED BY <1>5, <3>2, <4>1
    <3> QED BY <3>1, <3>2
  <2>2. g = [i \in 0 .. n |-> g[i]]
    OBVIOUS
  <2> HIDE DEF n
  <2> QED BY <2>1, <2>2
<1>7. Is(after)
  <2> HIDE DEF Is
  <2> QED BY <1>6
<1>8. AssignMins(order, prefs, est, lim, count) = after[n]
  BY DEF AssignMins
<1> HIDE DEF after
<1>9. after[0] = EmptyPlan(count) /\ \A i \in 1 .. n : after[i] = Step(after[i - 1], i)
  <2>1. \A i \in 0 .. n : after[i] = IF i = 0 THEN EmptyPlan(count) ELSE Step(after[i - 1], i)
    BY <1>7
  <2>2. 0 \in 0 .. n /\ \A i \in 1 .. n : i \in 0 .. n /\ i # 0
    OBVIOUS
  <2> HIDE DEF n, Step
  <2> QED BY <2>1, <2>2
<1>10. \A i \in 0 .. n : after[i] \in Draft
  <2> DEFINE P == {i \in 0 .. n : after[i] \in Draft}
  <2>1. 0 \in P
    BY <1>0, <1>1, <1>9
  <2>2. \A i \in 1 .. n : i - 1 \in P => i \in P
    <3> SUFFICES ASSUME NEW i \in 1 .. n, i - 1 \in P PROVE i \in P
      OBVIOUS
    <3>1. i \in 0 .. n
      OBVIOUS
    <3> HIDE DEF Step, n
    <3>2. Step(after[i - 1], i) \in Draft
      BY <1>2
    <3> QED BY <1>9, <3>1, <3>2
  <2> HIDE DEF P, n
  <2>3. \A i \in 0 .. n : i \in P
    BY <1>0, <2>1, <2>2, LoopInduction
  <2> QED BY <2>3 DEF P
<1>11. after = [i \in 0 .. n |-> after[i]]
  BY <1>7
<1>12. after \in [0 .. n -> Draft]
  BY <1>10, <1>11
<1> QED BY <1>8, <1>9, <1>12 DEF MinTurns

(* After the minima: nothing is lost, nothing is negative, and a cluster without a minimum
   has got nothing. *)
Minned(st, prefs, count) ==
  /\ st \in Draft
  /\ SumOf(st.plan, Cluster) + st.remaining = count
  /\ \A c \in Cluster \ DOMAIN prefs : st.plan[c] = 0 /\ st.overflow[c] = 0
  /\ (count >= 0 => st.remaining >= 0 /\ \A c \in Cluster : st.plan[c] >= 0 /\ st.overflow[c] >= 0)
  /\ \A c \in DOMAIN prefs : prefs[c].min = 0 => st.plan[c] <= 0
  /\ (count >= 0 => \A c \in DOMAIN prefs : prefs[c].min = 0 => st.plan[c] = 0 /\ st.overflow[c] = 0)

LEMMA AssignMinsMinned ==
  ASSUME NEW order \in Seq(Cluster), IsOrder(order), NEW prefs, Sane(prefs),
         NEW est \in Capacities, NEW lim \in Capacities, NEW count \in Int
  PROVE  Minned(AssignMins(order, prefs, est, lim, count), prefs, count)
<1> DEFINE n == Len(order)
           Untouched(st, i) == \A j \in i + 1 .. n : st.plan[order[j]] = 0 /\ st.overflow[order[j]] = 0
<1>1. PICK after \in [0 .. n -> Draft] :
         /\ after[0] = EmptyPlan(count)
         /\ \A i \in 1 .. n :
              after[i] = IF order[i] \notin DOMAIN prefs THEN after[i - 1]
                         ELSE AssignMin(after[i - 1], order[i], prefs, est, lim)
         /\ AssignMins(order, prefs, est, lim, count) = after[n]
  <2>1. \E after : MinTurns(after, order, prefs, est, lim, count)
    BY AssignMinsLoop
  <2> QED BY <2>1 DEF MinTurns
<1> DEFINE P == {i \in 0 .. n : Minned(after[i], prefs, count) /\ Untouched(after[i], i)}
<1>0. n \in Nat /\ 0 \in 0 .. n /\ \A j \in 1 .. n : order[j] \in Cluster
  OBVIOUS
<1>2. 0 \in P
  <2>1. after[0] \in Draft
    BY <1>0
  <2>2. after[0].plan = Zero /\ after[0].overflow = Zero /\ after[0].remaining = count
    BY <1>1 DEF EmptyPlan
  <2>3. \A c \in Cluster : Zero[c] = 0
    BY DEF Zero
  <2>4. SumOf(after[0].plan, Cluster) + after[0].remaining = count
    BY <2>2, SumZero
  <2>5. DOMAIN prefs \in SUBSET Cluster
    BY DEF Sane
  <2>6. Minned(after[0], prefs, count)
    BY <2>1, <2>2, <2>3, <2>4, <2>5 DEF Minned
  <2>7. Untouched(after[0], 0)
    BY <1>0, <2>2, <2>3
  <2> QED BY <1>0, <2>6, <2>7
<1>3. ASSUME NEW i \in 1 .. n, i - 1 \in P PROVE i \in P
  <2> DEFINE st == after[i - 1]
             nx == after[i]
             c == order[i]
  <2>1. st \in Draft /\ Minned(st, prefs, count) /\ Untouched(st, i - 1) /\ i \in 0 .. n /\ c \in Cluster
    BY <1>0, <1>3
  <2>2. \A j \in i + 1 .. n : j \in i - 1 + 1 .. n /\ order[j] # c
    BY DEF IsOrder
  <2>3. st.plan[c] = 0 /\ st.overflow[c] = 0
    BY <2>1
  <2>4. CASE c \notin DOMAIN prefs
    <3>1. nx = st
      BY <1>1, <2>4
    <3>2. Untouched(nx, i)
      BY <2>1, <2>2, <3>1
    <3> QED BY <2>1, <3>1, <3>2
  <2>5. CASE c \in DOMAIN prefs
    <3>1. nx = AssignMin(st, c, prefs, est, lim)
      BY <1>1, <2>5
    <3>2. nx \in Draft
      BY <2>1
    <3> HIDE DEF st, nx, c
    <3>3. PICK got, turned \in Int : MinTurn(st, c, prefs, nx, got, turned)
      BY <2>1, <2>5, <3>1, AssignMinIs
    <3>4. st.plan \in Counts /\ st.overflow \in Counts /\ st.remaining \in Int
      BY <2>1 DEF Draft
    <3>5. /\ nx.plan = [st.plan EXCEPT ![c] = got]
          /\ nx.overflow = [st.overflow EXCEPT ![c] = turned]
          /\ nx.remaining = st.remaining - got
      BY <3>3 DEF MinTurn
    <3>6. \A d \in Cluster : /\ nx.plan[d] = IF d = c THEN got ELSE st.plan[d]
                             /\ nx.overflow[d] = IF d = c THEN turned ELSE st.overflow[d]
      BY <2>1, <3>4, <3>5 DEF Counts
    <3>7. SumOf(nx.plan, Cluster) = SumOf(st.plan, Cluster) - st.plan[c] + got
      <4> DEFINE before == st.plan
      <4>1. before \in [Cluster -> Int] /\ c \in Cluster /\ got \in Int
        BY <2>1, <3>4 DEF Counts
      <4> HIDE DEF before
      <4>2. SumOf([before EXCEPT ![c] = got], Cluster) = SumOf(before, Cluster) - before[c] + got
        BY <4>1, SumExcept
      <4> QED BY <3>5, <4>2 DEF before
    <3>8. SumOf(st.plan, Cluster) \in Int
      BY <3>4, SumPick DEF Counts
    <3>9. SumOf(nx.plan, Cluster) + nx.remaining = count
      BY <2>1, <2>3, <3>4, <3>5, <3>7, <3>8 DEF Minned
    <3>10. \A d \in Cluster \ DOMAIN prefs : nx.plan[d] = 0 /\ nx.overflow[d] = 0
      BY <2>1, <2>5, <3>6 DEF Minned
    <3>11. count >= 0 => nx.remaining >= 0 /\ \A d \in Cluster : nx.plan[d] >= 0 /\ nx.overflow[d] >= 0
      <4> SUFFICES ASSUME count >= 0
                   PROVE  nx.remaining >= 0 /\ \A d \in Cluster : nx.plan[d] >= 0 /\ nx.overflow[d] >= 0
        OBVIOUS
      <4>1. st.remaining >= 0 /\ \A d \in Cluster : st.plan[d] >= 0 /\ st.overflow[d] >= 0
        BY <2>1 DEF Minned
      <4>2. got >= 0 /\ turned >= 0 /\ got <= st.remaining
        BY <3>3, <4>1 DEF MinTurn
      <4> QED BY <3>4, <3>5, <3>6, <4>1, <4>2
    <3>12. \A d \in DOMAIN prefs : prefs[d].min = 0 => nx.plan[d] <= 0
      <4> SUFFICES ASSUME NEW d \in DOMAIN prefs, prefs[d].min = 0 PROVE nx.plan[d] <= 0
        OBVIOUS
      <4>1. d \in Cluster /\ st.plan[d] <= 0
        BY <2>1 DEF Minned, Sane
      <4>2. d = c => got <= 0
        BY <3>3 DEF MinTurn
      <4> QED BY <3>6, <4>1, <4>2
    <3>13. count >= 0 => \A d \in DOMAIN prefs : prefs[d].min = 0 => nx.plan[d] = 0 /\ nx.overflow[d] = 0
      <4> SUFFICES ASSUME count >= 0, NEW d \in DOMAIN prefs, prefs[d].min = 0
                   PROVE  nx.plan[d] = 0 /\ nx.overflow[d] = 0
        OBVIOUS
      <4>1. d \in Cluster /\ st.plan[d] = 0 /\ st.overflow[d] = 0 /\ st.remaining >= 0
        BY <2>1 DEF Minned, Sane
      <4>2. d = c => got = 0 /\ turned = 0
        BY <3>3, <4>1 DEF MinTurn
      <4> QED BY <3>6, <4>1, <4>2
    <3>14. Minned(nx, prefs, count)
      BY <3>2, <3>9, <3>10, <3>11, <3>12, <3>13 DEF Minned
    <3>15. Untouched(nx, i)
      <4> SUFFICES ASSUME NEW j \in i + 1 .. n PROVE nx.plan[order[j]] = 0 /\ nx.overflow[order[j]] = 0
        OBVIOUS
      <4>1. order[j] # c /\ j \in 1 .. n /\ j \in i - 1 + 1 .. n
        BY <2>2
      <4>2. order[j] \in Cluster
        BY <1>0, <4>1
      <4>3. st.plan[order[j]] = 0 /\ st.overflow[order[j]] = 0
        BY <2>1, <4>1
      <4> QED BY <3>6, <4>1, <4>2, <4>3
    <3> QED BY <2>1, <3>14, <3>15 DEF nx
  <2> QED BY <2>4, <2>5
<1>4. \A i \in 0 .. n : i \in P
  <2> HIDE DEF P, n
  <2> QED BY <1>0, <1>2, <1>3, LoopInduction
<1>5. n \in P
  <2>1. n \in 0 .. n
    BY <1>0
  <2> HIDE DEF P
  <2> QED BY <1>4, <2>1
<1> QED BY <1>1, <1>5

-----------------------------------------------------------------------------
(* The shares. *)

(* A draft with the clusters that have room left. *)
Round == [plan : Counts, overflow : Counts, remaining : Int, open : SUBSET Cluster, modified : BOOLEAN]

Weighted(prefs) ==
  /\ Sane(prefs)
  /\ \A c \in DOMAIN prefs : prefs[c].weight \in Nat

(* One of its bounds keeps the cluster from getting more. *)
Full(c, n, prefs, est, lim) ==
  \/ prefs[c].max # Absent /\ n = prefs[c].max
  \/ lim[c] # Absent /\ n = lim[c]
  \/ est[c] # Absent /\ n = est[c]

(* What the turn of a cluster in a pass does: of the extra replicas it should have, it gets
   some, and some are turned away. *)
ShareTurn(st, c, prefs, est, lim, due, weightSum, next, extra, got, turned) ==
  /\ next = [plan      |-> [st.plan EXCEPT ![c] = got],
             overflow  |-> [st.overflow EXCEPT ![c] = st.overflow[c] + turned],
             remaining |-> st.remaining - (got - st.plan[c]),
             open      |-> IF got = st.plan[c] + extra THEN st.open ELSE st.open \ {c},
             modified  |-> st.modified \/ got > st.plan[c]]
  /\ turned >= 0 /\ got + turned <= st.plan[c] + extra
  /\ extra <= st.remaining
  /\ (st.remaining >= 0 => extra >= 0)
  /\ (prefs[c].max # Absent => got + turned <= prefs[c].max)
  /\ (lim[c] # Absent => got + turned <= lim[c])
  /\ (est[c] # Absent => got <= est[c])
  /\ (turned > 0 => est[c] # Absent /\ got = est[c])
  /\ (got = st.plan[c] + extra \/ Full(c, got, prefs, est, lim))
  /\ (extra = st.remaining \/ weightSum * extra >= due * prefs[c].weight)
  /\ weightSum * extra <= due * prefs[c].weight + weightSum - 1

(* Rounding up. *)
LEMMA RoundedUp ==
  ASSUME NEW a \in Nat, NEW b \in Nat, b > 0, NEW q, q = (a + b - 1) \div b
  PROVE  q \in Int /\ q >= 0 /\ b * q >= a /\ b * q <= a + b - 1
<1>1. q \in Int /\ b * q >= a /\ b * q <= a + b - 1
  OBVIOUS
<1>2. q >= 0
  OBVIOUS
<1> QED BY <1>1, <1>2

LEMMA ShareIs ==
  ASSUME NEW prefs, Weighted(prefs), NEW est \in Capacities, NEW lim \in Capacities,
         NEW st \in Round, NEW c \in DOMAIN prefs,
         NEW due \in Nat, NEW weightSum \in Nat, weightSum > 0
  PROVE  \E extra, got, turned \in Int :
           ShareTurn(st, c, prefs, est, lim, due, weightSum,
                     Share(st, c, prefs, est, lim, due, weightSum), extra, got, turned)
<1> DEFINE w      == prefs[c].weight
           start  == st.plan[c]
           share  == (due * w + weightSum - 1) \div weightSum
           extra  == Least2(share, st.remaining)
           atMax  == Cut(start + extra, prefs[c].max)
           capped == Cut(atMax, lim[c])
           got    == Cut(capped, est[c])
<1>1. c \in Cluster /\ w \in Nat /\ st.remaining \in Int /\ start \in Int
      /\ prefs[c].max \in Int \cup {Absent}
  BY DEF Weighted, Sane, Round, Counts
<1>2. lim[c] \in Int \cup {Absent} /\ est[c] \in Int \cup {Absent}
  BY <1>1 DEF Capacities, Limit
<1>3. due * w \in Nat
  BY <1>1
<1>4. share \in Int /\ share >= 0 /\ weightSum * share >= due * w
      /\ weightSum * share <= due * w + weightSum - 1
  <2> DEFINE a == due * w
  <2>1. a \in Nat /\ share = (a + weightSum - 1) \div weightSum
    BY <1>3
  <2> HIDE DEF a, share
  <2>2. share \in Int /\ share >= 0 /\ weightSum * share >= a /\ weightSum * share <= a + weightSum - 1
    BY <2>1, RoundedUp
  <2> QED BY <2>2 DEF a
<1>5. Share(st, c, prefs, est, lim, due, weightSum) =
        [plan      |-> [st.plan EXCEPT ![c] = got],
         overflow  |-> [st.overflow EXCEPT ![c] = @ + (capped - got)],
         remaining |-> st.remaining - (got - start),
         open      |-> IF got = start + extra THEN st.open ELSE st.open \ {c},
         modified  |-> st.modified \/ got > start]
  BY DEF Share
<1> HIDE DEF w, share, start
<1>6. extra \in Int /\ extra <= st.remaining /\ extra <= share
      /\ (extra = st.remaining \/ extra = share)
  BY <1>1, <1>4 DEF Least2
<1> HIDE DEF extra
<1>7. st.remaining >= 0 => extra >= 0
  BY <1>4, <1>6
<1>8. extra = st.remaining \/ weightSum * extra >= due * w
  BY <1>4, <1>6
<1>9. weightSum * extra <= due * w + weightSum - 1
  <2>1. weightSum * extra <= weightSum * share
    BY <1>4, <1>6
  <2>2. weightSum * extra \in Int /\ weightSum * share \in Int
    BY <1>4, <1>6
  <2> QED BY <1>3, <1>4, <2>1, <2>2
<1>10. start + extra \in Int
  BY <1>1, <1>6
<1>11. /\ atMax \in Int /\ atMax <= start + extra
       /\ (prefs[c].max # Absent => prefs[c].max \in Int /\ atMax <= prefs[c].max)
       /\ (atMax = start + extra \/ (prefs[c].max # Absent /\ atMax = prefs[c].max))
  BY <1>1, <1>10, CutIs
<1> HIDE DEF atMax
<1>12. /\ capped \in Int /\ capped <= atMax
       /\ (lim[c] # Absent => lim[c] \in Int /\ capped <= lim[c])
       /\ (capped = atMax \/ (lim[c] # Absent /\ capped = lim[c]))
  BY <1>2, <1>11, CutIs
<1> HIDE DEF capped
<1>13. /\ got \in Int /\ got <= capped /\ (est[c] # Absent => got <= est[c])
       /\ (got = capped \/ (est[c] # Absent /\ got = est[c]))
  BY <1>2, <1>12, CutIs
<1> HIDE DEF got
<1> DEFINE turned == capped - got
<1>14. turned \in Int /\ turned >= 0 /\ got + turned = capped
       /\ (turned > 0 => est[c] # Absent /\ got = est[c])
  BY <1>12, <1>13
<1>15. got = start + extra \/ Full(c, got, prefs, est, lim)
  BY <1>11, <1>12, <1>13 DEF Full
<1>16. capped <= start + extra
       /\ (prefs[c].max # Absent => capped <= prefs[c].max)
       /\ (lim[c] # Absent => capped <= lim[c])
  BY <1>10, <1>11, <1>12
<1>17. Share(st, c, prefs, est, lim, due, weightSum) =
        [plan      |-> [st.plan EXCEPT ![c] = got],
         overflow  |-> [st.overflow EXCEPT ![c] = st.overflow[c] + turned],
         remaining |-> st.remaining - (got - start),
         open      |-> IF got = start + extra THEN st.open ELSE st.open \ {c},
         modified  |-> st.modified \/ got > start]
  BY <1>5
<1> HIDE DEF turned
<1>18. ShareTurn(st, c, prefs, est, lim, due, weightSum,
                 Share(st, c, prefs, est, lim, due, weightSum), extra, got, turned)
  BY <1>6, <1>7, <1>8, <1>9, <1>13, <1>14, <1>15, <1>16, <1>17 DEF ShareTurn, start, w
<1> QED BY <1>6, <1>13, <1>14, <1>18

(* A turn leads from a round to a round. *)
LEMMA ShareRound ==
  ASSUME NEW prefs, Weighted(prefs), NEW est \in Capacities, NEW lim \in Capacities,
         NEW st \in Round, NEW c \in DOMAIN prefs,
         NEW due \in Nat, NEW weightSum \in Nat, weightSum > 0
  PROVE  Share(st, c, prefs, est, lim, due, weightSum) \in Round
<1> DEFINE nx == Share(st, c, prefs, est, lim, due, weightSum)
<1>1. PICK extra, got, turned \in Int :
        ShareTurn(st, c, prefs, est, lim, due, weightSum, nx, extra, got, turned)
  BY ShareIs
<1>2. nx = [plan      |-> [st.plan EXCEPT ![c] = got],
            overflow  |-> [st.overflow EXCEPT ![c] = st.overflow[c] + turned],
            remaining |-> st.remaining - (got - st.plan[c]),
            open      |-> IF got = st.plan[c] + extra THEN st.open ELSE st.open \ {c},
            modified  |-> st.modified \/ got > st.plan[c]]
  BY <1>1 DEF ShareTurn
<1>3. c \in Cluster /\ st.plan \in Counts /\ st.overflow \in Counts /\ st.remaining \in Int
      /\ st.open \in SUBSET Cluster
  BY DEF Weighted, Sane, Round
<1>4. [st.plan EXCEPT ![c] = got] \in Counts
  BY <1>3 DEF Counts
<1>5. [st.overflow EXCEPT ![c] = st.overflow[c] + turned] \in Counts
  BY <1>3 DEF Counts
<1>6. st.remaining - (got - st.plan[c]) \in Int
  BY <1>3 DEF Counts
<1>7. (IF got = st.plan[c] + extra THEN st.open ELSE st.open \ {c}) \in SUBSET Cluster
  BY <1>3
<1>8. (st.modified \/ got > st.plan[c]) \in BOOLEAN
  OBVIOUS
<1> HIDE DEF nx
<1>9. nx \in Round
  BY <1>2, <1>4, <1>5, <1>6, <1>7, <1>8 DEF Round
<1> QED BY <1>9 DEF nx

(* The rounds after each turn of a pass. *)
PassTurns(after, st, order, prefs, est, lim, weightSum) ==
  /\ after \in [0 .. Len(order) -> Round]
  /\ after[0] = [st EXCEPT !.modified = FALSE]
  /\ \A i \in 1 .. Len(order) :
       after[i] = IF order[i] \notin st.open THEN after[i - 1]
                  ELSE Share(after[i - 1], order[i], prefs, est, lim, st.remaining, weightSum)
  /\ Pass(st, order, prefs, est, lim, weightSum) = after[Len(order)]

(* Pass is the result of its loop. *)
LEMMA PassLoop ==
  ASSUME NEW order \in Seq(Cluster), NEW prefs, Weighted(prefs),
         NEW est \in Capacities, NEW lim \in Capacities,
         NEW st \in Round, st.open \subseteq DOMAIN prefs, st.remaining \in Nat,
         NEW weightSum \in Nat, weightSum > 0
  PROVE  \E after : PassTurns(after, st, order, prefs, est, lim, weightSum)
<1> DEFINE n == Len(order)
           Step(x, i) == IF order[i] \notin st.open THEN x
                         ELSE Share(x, order[i], prefs, est, lim, st.remaining, weightSum)
           Is(g) == g = [i \in 0 .. n |-> IF i = 0 THEN [st EXCEPT !.modified = FALSE]
                                          ELSE IF order[i] \notin st.open THEN g[i - 1]
                                          ELSE Share(g[i - 1], order[i], prefs, est, lim, st.remaining, weightSum)]
           turn == [i \in 1 .. n |-> [x \in Round |-> Step(x, i)]]
           after == CHOOSE g : Is(g)
<1>0. n \in Nat
  OBVIOUS
<1>1. [st EXCEPT !.modified = FALSE] \in Round
  BY DEF Round
<1>2. ASSUME NEW i \in 1 .. n, NEW x \in Round PROVE Step(x, i) \in Round
  <2>1. CASE order[i] \notin st.open
    BY <2>1
  <2>2. CASE order[i] \in st.open
    <3>1. order[i] \in DOMAIN prefs
      BY <2>2
    <3>2. Share(x, order[i], prefs, est, lim, st.remaining, weightSum) \in Round
      BY <3>1, ShareRound
    <3> QED BY <2>2, <3>2
  <2> QED BY <2>1, <2>2
<1>3. turn \in [1 .. n -> [Round -> Round]]
  <2> HIDE DEF Step, n
  <2> QED BY <1>2
<1>4. PICK g \in [0 .. n -> Round] :
         g[0] = [st EXCEPT !.modified = FALSE] /\ \A i \in 1 .. n : g[i] = turn[i][g[i - 1]]
  <2> DEFINE base == [st EXCEPT !.modified = FALSE]
  <2>0. base \in Round
    BY <1>1
  <2> HIDE DEF turn, n, base
  <2>1. \E g : Computes(g, n, Round, base, turn)
    BY <1>0, <2>0, <1>3, LoopExists
  <2> QED BY <2>1 DEF Computes, base
<1>5. \A i \in 1 .. n : i - 1 \in 0 .. n /\ g[i] = Step(g[i - 1], i)
  <2> TAKE i \in 1 .. n
  <2>1. i - 1 \in 0 .. n
    OBVIOUS
  <2>2. g[i - 1] \in Round
    BY <2>1
  <2>3. turn[i][g[i - 1]] = Step(g[i - 1], i)
    <3> HIDE DEF Step
    <3> QED BY <2>2
  <2> QED BY <1>4, <2>1, <2>3
<1>6. Is(g)
  <2>1. ASSUME NEW i \in 0 .. n
        PROVE  g[i] = IF i = 0 THEN [st EXCEPT !.modified = FALSE] ELSE Step(g[i - 1], i)
    <3>1. CASE i = 0
      BY <1>4, <3>1
    <3>2. CASE i # 0
      <4>1. i \in 1 .. n
        BY <3>2
      <4> HIDE DEF Step
      <4> QED BY <1>5, <3>2, <4>1
    <3> QED BY <3>1, <3>2
  <2>2. g = [i \in 0 .. n |-> g[i]]
    OBVIOUS
  <2> HIDE DEF n
  <2> QED BY <2>1, <2>2
<1>7. Is(after)
  <2> HIDE DEF Is
  <2> QED BY <1>6
<1>8. Pass(st, order, prefs, est, lim, weightSum) = after[n]
  BY DEF Pass
<1> HIDE DEF after
<1>9. after[0] = [st EXCEPT !.modified = FALSE] /\ \A i \in 1 .. n : after[i] = Step(after[i - 1], i)
  <2>1. \A i \in 0 .. n : after[i] = IF i = 0 THEN [st EXCEPT !.modified = FALSE] ELSE Step(after[i - 1], i)
    BY <1>7
  <2>2. 0 \in 0 .. n /\ \A i \in 1 .. n : i \in 0 .. n /\ i # 0
    OBVIOUS
  <2> HIDE DEF n, Step
  <2> QED BY <2>1, <2>2
<1>10. \A i \in 0 .. n : after[i] \in Round
  <2> DEFINE P == {i \in 0 .. n : after[i] \in Round}
  <2>1. 0 \in P
    BY <1>0, <1>1, <1>9
  <2>2. \A i \in 1 .. n : i - 1 \in P => i \in P
    <3> SUFFICES ASSUME NEW i \in 1 .. n, i - 1 \in P PROVE i \in P
      OBVIOUS
    <3>1. i \in 0 .. n
      OBVIOUS
    <3> HIDE DEF Step, n
    <3>2. Step(after[i - 1], i) \in Round
      BY <1>2
    <3> QED BY <1>9, <3>1, <3>2
  <2> HIDE DEF P, n
  <2>3. \A i \in 0 .. n : i \in P
    BY <1>0, <2>1, <2>2, LoopInduction
  <2> QED BY <2>3 DEF P
<1>11. after = [i \in 0 .. n |-> after[i]]
  BY <1>7
<1>12. after \in [0 .. n -> Round]
  BY <1>10, <1>11
<1> QED BY <1>8, <1>9, <1>12 DEF PassTurns

(* A cluster without a minimum stays within its bounds, its overflow included; only its
   estimated capacity makes it overflow, and then it has no further turn. *)
Within(st, c, prefs, est, lim) ==
  /\ (c \in st.open => st.overflow[c] = 0)
  /\ (st.overflow[c] > 0 => est[c] # Absent /\ st.plan[c] = est[c])
  /\ (prefs[c].max # Absent /\ prefs[c].max >= 0 => st.plan[c] + st.overflow[c] <= prefs[c].max)
  /\ (lim[c] # Absent => st.plan[c] + st.overflow[c] <= lim[c])
  /\ (est[c] # Absent => st.plan[c] <= est[c])

(* A round on the way: nothing is lost, nothing is negative but for a maximum below zero, and
   the clusters without a further turn are full. *)
Filled(st, prefs, est, lim, count) ==
  /\ st \in Round /\ st.open \subseteq DOMAIN prefs
  /\ st.remaining >= 0
  /\ SumOf(st.plan, Cluster) + st.remaining = count
  /\ \A c \in Cluster \ DOMAIN prefs : st.plan[c] = 0 /\ st.overflow[c] = 0
  /\ \A c \in DOMAIN prefs :
       st.overflow[c] >= 0 /\ (st.plan[c] >= 0 \/ (prefs[c].max # Absent /\ st.plan[c] >= prefs[c].max))
  /\ \A c \in st.open : st.plan[c] >= 0
  /\ \A c \in DOMAIN prefs : prefs[c].min = 0 => Within(st, c, prefs, est, lim)
  /\ \A c \in DOMAIN prefs \ st.open : Full(c, st.plan[c], prefs, est, lim)

LEMMA TurnFilled ==
  ASSUME NEW prefs, Weighted(prefs), NEW est \in Capacities, NEW lim \in Capacities,
         NEW count \in Int, NEW st, Filled(st, prefs, est, lim, count), NEW c \in st.open,
         NEW due, NEW weightSum, NEW nx \in Round, NEW extra \in Int, NEW got \in Int, NEW turned \in Int,
         ShareTurn(st, c, prefs, est, lim, due, weightSum, nx, extra, got, turned)
  PROVE  Filled(nx, prefs, est, lim, count)
<1>1. /\ st \in Round /\ st.open \subseteq DOMAIN prefs /\ st.remaining >= 0
      /\ SumOf(st.plan, Cluster) + st.remaining = count /\ st.plan[c] >= 0
  BY DEF Filled
<1>2. /\ DOMAIN prefs \in SUBSET Cluster /\ c \in DOMAIN prefs /\ c \in Cluster
      /\ prefs[c].max \in Int \cup {Absent}
  BY <1>1 DEF Weighted, Sane
<1>3. st.plan \in Counts /\ st.overflow \in Counts /\ st.remaining \in Int /\ st.plan[c] \in Int
      /\ st.overflow[c] \in Int
  BY <1>1, <1>2 DEF Round, Counts
<1>4. /\ nx.plan = [st.plan EXCEPT ![c] = got]
      /\ nx.overflow = [st.overflow EXCEPT ![c] = st.overflow[c] + turned]
      /\ nx.remaining = st.remaining - (got - st.plan[c])
      /\ nx.open = IF got = st.plan[c] + extra THEN st.open ELSE st.open \ {c}
  BY DEF ShareTurn
<1>5. \A d \in Cluster : /\ nx.plan[d] = IF d = c THEN got ELSE st.plan[d]
                         /\ nx.overflow[d] = IF d = c THEN st.overflow[c] + turned ELSE st.overflow[d]
  BY <1>2, <1>3, <1>4 DEF Counts
<1>6. nx.open \subseteq st.open /\ nx.open \subseteq DOMAIN prefs /\ st.open \ {c} \subseteq nx.open
      /\ (c \in nx.open <=> got = st.plan[c] + extra)
  BY <1>1, <1>4
<1>7. /\ turned >= 0 /\ got + turned <= st.plan[c] + extra /\ extra <= st.remaining /\ extra >= 0
      /\ (prefs[c].max # Absent => got + turned <= prefs[c].max)
      /\ (lim[c] # Absent => got + turned <= lim[c])
      /\ (est[c] # Absent => got <= est[c])
      /\ (turned > 0 => est[c] # Absent /\ got = est[c])
      /\ (got = st.plan[c] + extra \/ Full(c, got, prefs, est, lim))
  BY <1>1 DEF ShareTurn
<1>8. nx.remaining >= 0
  BY <1>3, <1>4, <1>7
<1>9. SumOf(nx.plan, Cluster) + nx.remaining = count
  <2>1. SumOf(nx.plan, Cluster) = SumOf(st.plan, Cluster) - st.plan[c] + got
    BY <1>2, <1>3, <1>4, SumExcept DEF Counts
  <2>2. SumOf(st.plan, Cluster) \in Int
    BY <1>3, SumPick DEF Counts
  <2> QED BY <1>1, <1>3, <1>4, <2>1, <2>2
<1>10. \A d \in Cluster \ DOMAIN prefs : nx.plan[d] = 0 /\ nx.overflow[d] = 0
  BY <1>2, <1>5 DEF Filled
<1>11. got >= 0 \/ (prefs[c].max # Absent /\ got >= prefs[c].max)
  <2>1. (lim[c] # Absent => lim[c] >= 0) /\ (est[c] # Absent => est[c] >= 0)
    BY <1>2 DEF Capacities, Limit
  <2>2. CASE got = st.plan[c] + extra
    BY <1>1, <1>3, <1>7, <2>2
  <2>3. CASE Full(c, got, prefs, est, lim)
    BY <1>2, <2>1, <2>3, PlannerAssumption DEF Full
  <2> QED BY <1>7, <2>2, <2>3
<1>12. \A d \in DOMAIN prefs :
         nx.overflow[d] >= 0 /\ (nx.plan[d] >= 0 \/ (prefs[d].max # Absent /\ nx.plan[d] >= prefs[d].max))
  <2> TAKE d \in DOMAIN prefs
  <2>1. d \in Cluster /\ st.overflow[d] >= 0 /\ st.overflow[c] >= 0
        /\ (st.plan[d] >= 0 \/ (prefs[d].max # Absent /\ st.plan[d] >= prefs[d].max))
    BY <1>2 DEF Filled
  <2>2. CASE d = c
    BY <1>3, <1>5, <1>7, <1>11, <2>1, <2>2
  <2>3. CASE d # c
    BY <1>5, <2>1, <2>3
  <2> QED BY <2>2, <2>3
<1>13. \A d \in nx.open : nx.plan[d] >= 0
  <2> TAKE d \in nx.open
  <2>1. d \in st.open /\ d \in Cluster
    BY <1>2, <1>6
  <2>2. CASE d = c
    BY <1>1, <1>3, <1>5, <1>6, <1>7, <2>1, <2>2
  <2>3. CASE d # c
    BY <1>5, <2>1, <2>3 DEF Filled
  <2> QED BY <2>2, <2>3
<1>14. \A d \in DOMAIN prefs : prefs[d].min = 0 => Within(nx, d, prefs, est, lim)
  <2> SUFFICES ASSUME NEW d \in DOMAIN prefs, prefs[d].min = 0 PROVE Within(nx, d, prefs, est, lim)
    OBVIOUS
  <2>1. d \in Cluster /\ Within(st, d, prefs, est, lim)
    BY <1>2 DEF Filled
  <2>2. CASE d = c
    <3>1. st.overflow[c] = 0
      BY <2>1, <2>2 DEF Within
    <3>2. nx.plan[c] = got /\ nx.overflow[c] = turned
      BY <1>2, <1>5, <3>1
    <3>3. c \in nx.open => nx.overflow[c] = 0
      BY <1>3, <1>6, <1>7, <3>2
    <3> QED BY <1>7, <2>2, <3>2, <3>3 DEF Within
  <2>3. CASE d # c
    <3>1. nx.plan[d] = st.plan[d] /\ nx.overflow[d] = st.overflow[d]
      BY <1>5, <2>1, <2>3
    <3>2. d \in nx.open => d \in st.open
      BY <1>6
    <3> QED BY <2>1, <3>1, <3>2 DEF Within
  <2> QED BY <2>2, <2>3
<1>15. \A d \in DOMAIN prefs \ nx.open : Full(d, nx.plan[d], prefs, est, lim)
  <2> TAKE d \in DOMAIN prefs \ nx.open
  <2>1. d \in Cluster
    BY <1>2
  <2>2. CASE d = c
    BY <1>5, <1>6, <1>7, <2>1, <2>2
  <2>3. CASE d # c
    <3>1. d \notin st.open /\ nx.plan[d] = st.plan[d]
      BY <1>5, <1>6, <2>1, <2>3
    <3> QED BY <3>1 DEF Filled
  <2> QED BY <2>2, <2>3
<1> QED BY <1>6, <1>8, <1>9, <1>10, <1>12, <1>13, <1>14, <1>15 DEF Filled

(* A pass is a sequence of turns, each in a round that is on the way, of a cluster that is not
   full. *)
IsTurn(st, c, prefs, est, lim, due, weightSum, nx) ==
  /\ c \in st.open
  /\ \E extra, got, turned \in Int :
       ShareTurn(st, c, prefs, est, lim, due, weightSum, nx, extra, got, turned)

PassRun(after, st, order, prefs, est, lim, count, weightSum) ==
  /\ after[0] = [st EXCEPT !.modified = FALSE]
  /\ \A i \in 0 .. Len(order) : Filled(after[i], prefs, est, lim, count)
  /\ \A i \in 1 .. Len(order) :
       \/ order[i] \notin st.open /\ after[i] = after[i - 1]
       \/ order[i] \in st.open /\ IsTurn(after[i - 1], order[i], prefs, est, lim, st.remaining, weightSum, after[i])
  /\ Pass(st, order, prefs, est, lim, weightSum) = after[Len(order)]

LEMMA PassRuns ==
  ASSUME NEW order \in Seq(Cluster), IsOrder(order), NEW prefs, Weighted(prefs),
         NEW est \in Capacities, NEW lim \in Capacities, NEW count \in Int,
         NEW st, Filled(st, prefs, est, lim, count), NEW weightSum \in Nat, weightSum > 0
  PROVE  \E after : PassRun(after, st, order, prefs, est, lim, count, weightSum)
<1> DEFINE n == Len(order)
           Waiting(x, i) == \A j \in i + 1 .. n : order[j] \in st.open => order[j] \in x.open
<1>0. st \in Round /\ st.open \subseteq DOMAIN prefs /\ st.remaining \in Nat
  BY DEF Filled, Round
<1>1. PICK after : PassTurns(after, st, order, prefs, est, lim, weightSum)
  <2>1. \E after : PassTurns(after, st, order, prefs, est, lim, weightSum)
    BY <1>0, PassLoop
  <2> QED BY <2>1
<1>2. /\ after \in [0 .. n -> Round] /\ after[0] = [st EXCEPT !.modified = FALSE]
      /\ \A i \in 1 .. n :
           after[i] = IF order[i] \notin st.open THEN after[i - 1]
                      ELSE Share(after[i - 1], order[i], prefs, est, lim, st.remaining, weightSum)
      /\ Pass(st, order, prefs, est, lim, weightSum) = after[n]
  BY <1>1 DEF PassTurns
<1>3. n \in Nat /\ \A j \in 1 .. n : order[j] \in Cluster
  OBVIOUS
<1> DEFINE P == {i \in 0 .. n : Filled(after[i], prefs, est, lim, count) /\ Waiting(after[i], i)}
<1>4. 0 \in P
  <2>1. /\ after[0].plan = st.plan /\ after[0].overflow = st.overflow
        /\ after[0].remaining = st.remaining /\ after[0].open = st.open
    BY <1>0, <1>2 DEF Round
  <2>2. after[0] \in Round
    <3>1. 0 \in 0 .. n
      BY <1>3
    <3> QED BY <1>2, <3>1
  <2>3. \A c \in DOMAIN prefs : prefs[c].min = 0 => Within(after[0], c, prefs, est, lim)
    BY <2>1 DEF Filled, Within
  <2>4. Filled(after[0], prefs, est, lim, count)
    BY <2>1, <2>2, <2>3 DEF Filled
  <2>5. Waiting(after[0], 0)
    BY <2>1
  <2> QED BY <1>3, <2>4, <2>5
<1>5. ASSUME NEW i \in 1 .. n, i - 1 \in P, order[i] \in st.open
      PROVE  /\ IsTurn(after[i - 1], order[i], prefs, est, lim, st.remaining, weightSum, after[i])
             /\ i \in P
  <2> DEFINE x == after[i - 1]
             nx == after[i]
             c == order[i]
  <2>1. Filled(x, prefs, est, lim, count) /\ Waiting(x, i - 1) /\ x \in Round /\ nx \in Round /\ i \in 0 .. n
    BY <1>2, <1>5
  <2>2. c \in x.open /\ c \in DOMAIN prefs
    BY <1>0, <1>5, <2>1
  <2>3. nx = Share(x, c, prefs, est, lim, st.remaining, weightSum)
    BY <1>2, <1>5
  <2>4. \A j \in i + 1 .. n : j \in i - 1 + 1 .. n /\ order[j] # c
    BY DEF IsOrder
  <2> HIDE DEF x, nx, c
  <2>5. PICK extra, got, turned \in Int :
          ShareTurn(x, c, prefs, est, lim, st.remaining, weightSum, nx, extra, got, turned)
    BY <1>0, <2>1, <2>2, <2>3, ShareIs
  <2>6. IsTurn(x, c, prefs, est, lim, st.remaining, weightSum, nx)
    BY <2>2, <2>5 DEF IsTurn
  <2>7. Filled(nx, prefs, est, lim, count)
    BY <2>1, <2>2, <2>5, TurnFilled
  <2>8. x.open \ {c} \subseteq nx.open
    BY <2>5 DEF ShareTurn
  <2>9. Waiting(nx, i)
    BY <2>1, <2>4, <2>8
  <2> QED BY <2>1, <2>6, <2>7, <2>9 DEF x, nx, c
<1>6. ASSUME NEW i \in 1 .. n, i - 1 \in P, order[i] \notin st.open
      PROVE  after[i] = after[i - 1] /\ i \in P
  <2>1. after[i] = after[i - 1]
    BY <1>2, <1>6
  <2>2. \A j \in i + 1 .. n : j \in i - 1 + 1 .. n
    OBVIOUS
  <2>3. Waiting(after[i], i)
    BY <1>6, <2>1, <2>2
  <2> QED BY <1>6, <2>1, <2>3
<1>7. \A i \in 0 .. n : i \in P
  <2>1. \A i \in 1 .. n : i - 1 \in P => i \in P
    BY <1>5, <1>6
  <2> HIDE DEF P, n
  <2> QED BY <1>3, <1>4, <2>1, LoopInduction
<1>8. \A i \in 1 .. n :
       \/ order[i] \notin st.open /\ after[i] = after[i - 1]
       \/ order[i] \in st.open /\ IsTurn(after[i - 1], order[i], prefs, est, lim, st.remaining, weightSum, after[i])
  <2> TAKE i \in 1 .. n
  <2>1. i - 1 \in 0 .. n
    OBVIOUS
  <2>2. i - 1 \in P
    BY <1>7, <2>1
  <2> HIDE DEF P
  <2> QED BY <1>5, <1>6, <2>2
<1>9. \A i \in 0 .. n : Filled(after[i], prefs, est, lim, count)
  BY <1>7
<1>10. PassRun(after, st, order, prefs, est, lim, count, weightSum)
  BY <1>2, <1>8, <1>9 DEF PassRun
<1> QED BY <1>10

LEMMA WeightSumIs ==
  ASSUME NEW prefs, Weighted(prefs), NEW T \in SUBSET DOMAIN prefs
  PROVE  /\ WeightSum(prefs, T) \in Nat
         /\ \A c \in T : prefs[c].weight <= WeightSum(prefs, T)
         /\ \A c \in DOMAIN prefs \ T :
              WeightSum(prefs, T \cup {c}) = prefs[c].weight + WeightSum(prefs, T)
<1> DEFINE f == [c \in DOMAIN prefs |-> prefs[c].weight]
<1>1. \A c \in DOMAIN prefs : f[c] = prefs[c].weight /\ f[c] \in Nat /\ c \in Cluster
  BY DEF Weighted, Sane
<1>2. \A S : WeightSum(prefs, S) = SumOf(f, S)
  BY DEF WeightSum
<1> HIDE DEF f
<1>3. \A S \in SUBSET DOMAIN prefs : S \in SUBSET Cluster
  BY <1>1
<1>4. \A S \in SUBSET DOMAIN prefs : SumOf(f, S) \in Nat /\ \A c \in S : f[c] <= SumOf(f, S)
  BY <1>1, <1>3, SumNat
<1>5. \A c \in T : prefs[c].weight <= WeightSum(prefs, T)
  BY <1>1, <1>2, <1>4
<1>6. \A c \in DOMAIN prefs \ T : WeightSum(prefs, T \cup {c}) = prefs[c].weight + WeightSum(prefs, T)
  <2> TAKE c \in DOMAIN prefs \ T
  <2>1. c \in Cluster /\ T \in SUBSET Cluster /\ \A d \in T \cup {c} : f[d] \in Int
    BY <1>1
  <2>2. SumOf(f, T \cup {c}) = f[c] + SumOf(f, T)
    BY <2>1, SumAdd
  <2> QED BY <1>1, <1>2, <2>2
<1> QED BY <1>2, <1>4, <1>5, <1>6

LEMMA PassFilled ==
  ASSUME NEW order \in Seq(Cluster), IsOrder(order), NEW prefs, Weighted(prefs),
         NEW est \in Capacities, NEW lim \in Capacities, NEW count \in Int,
         NEW st, Filled(st, prefs, est, lim, count), NEW weightSum \in Nat, weightSum > 0
  PROVE  Filled(Pass(st, order, prefs, est, lim, weightSum), prefs, est, lim, count)
<1>1. PICK after : PassRun(after, st, order, prefs, est, lim, count, weightSum)
  <2>1. \E after : PassRun(after, st, order, prefs, est, lim, count, weightSum)
    BY PassRuns
  <2> QED BY <2>1
<1>2. Len(order) \in 0 .. Len(order)
  OBVIOUS
<1> QED BY <1>1, <1>2 DEF PassRun

(* The clusters that had a turn in the first i turns of a pass. *)
Done(st, order, i) == {c \in st.open : \E j \in 1 .. i : order[j] = c}

LEMMA DoneIs ==
  ASSUME NEW st, NEW order \in Seq(Cluster), IsOrder(order)
  PROVE  /\ Done(st, order, 0) = {}
         /\ \A i \in 1 .. Len(order) :
              /\ (order[i] \notin st.open => Done(st, order, i) = Done(st, order, i - 1))
              /\ (order[i] \in st.open => /\ Done(st, order, i) = Done(st, order, i - 1) \cup {order[i]}
                                          /\ order[i] \notin Done(st, order, i - 1))
<1>1. Done(st, order, 0) = {}
  BY DEF Done
<1>2. ASSUME NEW i \in 1 .. Len(order)
      PROVE  /\ (order[i] \notin st.open => Done(st, order, i) = Done(st, order, i - 1))
             /\ (order[i] \in st.open => /\ Done(st, order, i) = Done(st, order, i - 1) \cup {order[i]}
                                         /\ order[i] \notin Done(st, order, i - 1))
  <2>1. \A c : (\E j \in 1 .. i : order[j] = c) <=> (\E j \in 1 .. i - 1 : order[j] = c) \/ order[i] = c
    <3> TAKE c
    <3>1. 1 .. i = (1 .. i - 1) \cup {i}
      OBVIOUS
    <3> QED BY <3>1
  <2>2. \A j \in 1 .. i - 1 : order[j] # order[i]
    BY DEF IsOrder
  <2>3. ASSUME order[i] \notin st.open PROVE Done(st, order, i) = Done(st, order, i - 1)
    BY <2>1, <2>3 DEF Done
  <2>4. ASSUME order[i] \in st.open PROVE Done(st, order, i) = Done(st, order, i - 1) \cup {order[i]}
    BY <2>1, <2>4 DEF Done
  <2>5. order[i] \notin Done(st, order, i - 1)
    BY <2>2 DEF Done
  <2> QED BY <2>3, <2>4, <2>5
<1> QED BY <1>1, <1>2

(* What a pass has achieved when a set of clusters had their turns: if no cluster was cut, the
   replicas are gone or have been given away at least in proportion to the weights; if no
   cluster grew, all of them were cut. *)
Advanced(x, st, prefs, weightSum, done) ==
  /\ x.open \subseteq st.open
  /\ (x.open = st.open => x.remaining = 0 \/
        (st.remaining - x.remaining) * weightSum >= st.remaining * WeightSum(prefs, done))
  /\ (~x.modified => x.remaining >= st.remaining /\ x.open \cap done = {})

LEMMA InProportion ==
  ASSUME NEW due \in Nat, NEW w1 \in Nat, NEW w2 \in Nat, NEW W \in Nat, NEW r \in Int, NEW e \in Int,
         (due - r) * W >= due * w1, W * e >= due * w2
  PROVE  (due - (r - e)) * W >= due * (w2 + w1)
  OBVIOUS

LEMMA TurnAdvances ==
  ASSUME NEW prefs, Weighted(prefs), NEW est, NEW lim,
         NEW st \in Round, st.open \subseteq DOMAIN prefs, st.remaining > 0,
         \A c \in st.open : prefs[c].weight > 0,
         NEW weightSum \in Nat, NEW done \in SUBSET st.open, NEW c \in st.open \ done,
         NEW x \in Round, x.remaining >= 0, NEW nx \in Round,
         IsTurn(x, c, prefs, est, lim, st.remaining, weightSum, nx),
         Advanced(x, st, prefs, weightSum, done)
  PROVE  Advanced(nx, st, prefs, weightSum, done \cup {c})
<1>1. PICK extra, got, turned \in Int :
        ShareTurn(x, c, prefs, est, lim, st.remaining, weightSum, nx, extra, got, turned)
  BY DEF IsTurn
<1> DEFINE w == prefs[c].weight
           due == st.remaining
           start == x.plan[c]
<1>2. c \in Cluster /\ w \in Nat /\ w > 0 /\ due \in Nat /\ start \in Int /\ x.remaining \in Int
  BY DEF Weighted, Sane, Round, Counts
<1>3. /\ nx.remaining = x.remaining - (got - start)
      /\ nx.open = IF got = start + extra THEN x.open ELSE x.open \ {c}
      /\ extra <= x.remaining /\ extra >= 0
      /\ (extra = x.remaining \/ weightSum * extra >= due * w)
  BY <1>1 DEF ShareTurn
<1>4. nx.modified <=> x.modified \/ got > start
  <2>1. nx.modified = (x.modified \/ got > start)
    BY <1>1 DEF ShareTurn
  <2>2. nx.modified \in BOOLEAN
    BY DEF Round
  <2> QED BY <2>1, <2>2
<1>5. WeightSum(prefs, done \cup {c}) = w + WeightSum(prefs, done) /\ WeightSum(prefs, done) \in Nat
  BY WeightSumIs
<1>6. c \in x.open
  BY DEF IsTurn
<1> HIDE DEF w, due, start
<1>7. nx.open \subseteq x.open /\ x.open \subseteq st.open
  BY <1>3 DEF Advanced
<1>8. ASSUME nx.open = st.open
      PROVE  nx.remaining = 0 \/ (due - nx.remaining) * weightSum >= due * WeightSum(prefs, done \cup {c})
  <2>1. x.open = st.open /\ got = start + extra
    BY <1>3, <1>7, <1>8
  <2>2. nx.remaining = x.remaining - extra
    BY <1>2, <1>3, <2>1
  <2>3. CASE extra = x.remaining
    BY <1>2, <2>2, <2>3
  <2>4. CASE extra # x.remaining
    <3>1. x.remaining # 0
      BY <1>2, <1>3, <2>4
    <3>2. (due - x.remaining) * weightSum >= due * WeightSum(prefs, done)
      BY <2>1, <3>1 DEF Advanced, due
    <3>3. weightSum * extra >= due * w
      BY <1>3, <2>4
    <3>4. (due - (x.remaining - extra)) * weightSum >= due * (w + WeightSum(prefs, done))
      BY <1>2, <1>5, <3>2, <3>3, InProportion
    <3> QED BY <1>5, <2>2, <3>4
  <2> QED BY <2>3, <2>4
<1>9. ASSUME ~nx.modified
      PROVE  nx.remaining >= due /\ nx.open \cap (done \cup {c}) = {}
  <2>1. ~x.modified /\ got <= start
    BY <1>2, <1>4, <1>9
  <2>2. x.remaining >= due /\ x.open \cap done = {}
    BY <2>1 DEF Advanced, due
  <2>3. nx.remaining >= due
    BY <1>2, <1>3, <2>1, <2>2
  <2>4. got # start + extra
    <3> SUFFICES ASSUME got = start + extra PROVE FALSE
      OBVIOUS
    <3>1. extra = 0
      BY <1>2, <1>3, <2>1
    <3>2. due > 0
      BY DEF due
    <3>3. x.remaining # 0
      BY <1>2, <2>2, <3>2
    <3>4. 0 >= due * w
      BY <1>2, <1>3, <3>1, <3>3
    <3> QED BY <1>2, <3>2, <3>4
  <2> QED BY <1>3, <2>2, <2>3, <2>4
<1> QED BY <1>7, <1>8, <1>9 DEF Advanced, due

(* A pass places everything or fills a cluster: when it fills none every cluster got its share,
   and when it does not let any cluster grow it has filled them all. *)
LEMMA PassProgress ==
  ASSUME NEW order \in Seq(Cluster), IsOrder(order), NEW prefs, Weighted(prefs),
         NEW est \in Capacities, NEW lim \in Capacities, NEW count \in Int,
         NEW st, Filled(st, prefs, est, lim, count), st.remaining > 0,
         \A c \in st.open : prefs[c].weight > 0 /\ \E j \in 1 .. Len(order) : order[j] = c,
         NEW weightSum \in Nat, weightSum = WeightSum(prefs, st.open), weightSum > 0,
         NEW nx, nx = Pass(st, order, prefs, est, lim, weightSum)
  PROVE  /\ nx.open \subseteq st.open
         /\ nx.remaining = 0 \/ (nx.open # st.open /\ (nx.modified \/ nx.open = {}))
<1> DEFINE n == Len(order)
           D(i) == Done(st, order, i)
<1>1. PICK after : PassRun(after, st, order, prefs, est, lim, count, weightSum)
  <2>1. \E after : PassRun(after, st, order, prefs, est, lim, count, weightSum)
    BY PassRuns
  <2> QED BY <2>1
<1>2. st \in Round /\ st.open \subseteq DOMAIN prefs /\ st.remaining \in Nat
  BY DEF Filled, Round
<1>3. n \in Nat
  OBVIOUS
<1> DEFINE P == {i \in 0 .. n : Advanced(after[i], st, prefs, weightSum, D(i))}
<1>4. 0 \in P
  <2>1. after[0].remaining = st.remaining /\ after[0].open = st.open
    BY <1>1, <1>2 DEF PassRun, Round
  <2>2. D(0) = {}
    BY DoneIs
  <2>3. WeightSum(prefs, {}) = 0
    <3>1. {} \in SUBSET Cluster
      OBVIOUS
    <3> QED BY <3>1, SumUnfold DEF WeightSum
  <2>4. (st.remaining - st.remaining) * weightSum >= st.remaining * 0
    BY <1>2
  <2>5. st.remaining >= st.remaining
    BY <1>2
  <2> HIDE DEF D
  <2>6. Advanced(after[0], st, prefs, weightSum, D(0))
    BY <2>1, <2>2, <2>3, <2>4, <2>5 DEF Advanced
  <2>7. 0 \in 0 .. n
    BY <1>3
  <2> QED BY <2>6, <2>7
<1>5. ASSUME NEW i \in 1 .. n, i - 1 \in P PROVE i \in P
  <2> DEFINE c == order[i]
  <2>1. Advanced(after[i - 1], st, prefs, weightSum, D(i - 1)) /\ i \in 0 .. n /\ i - 1 \in 0 .. n
    BY <1>5
  <2>2. Filled(after[i - 1], prefs, est, lim, count) /\ Filled(after[i], prefs, est, lim, count)
    BY <1>1, <2>1 DEF PassRun
  <2>3. CASE c \notin st.open
    <3>1. after[i] = after[i - 1]
      BY <1>1, <2>3 DEF PassRun
    <3>2. D(i) = D(i - 1)
      BY <2>3, DoneIs
    <3> HIDE DEF D
    <3> QED BY <2>1, <3>1, <3>2
  <2>4. CASE c \in st.open
    <3>1. IsTurn(after[i - 1], c, prefs, est, lim, st.remaining, weightSum, after[i])
      BY <1>1, <2>4 DEF PassRun
    <3>2. D(i) = D(i - 1) \cup {c} /\ c \notin D(i - 1)
      BY <2>4, DoneIs
    <3>3. D(i - 1) \in SUBSET st.open
      BY DEF Done
    <3>4. after[i - 1] \in Round /\ after[i] \in Round /\ after[i - 1].remaining >= 0
      BY <2>2 DEF Filled
    <3> HIDE DEF D, c, P
    <3>5. c \in st.open \ D(i - 1)
      BY <2>4, <3>2
    <3>6. Advanced(after[i], st, prefs, weightSum, D(i - 1) \cup {c})
      BY <1>2, <2>1, <3>1, <3>3, <3>4, <3>5, TurnAdvances
    <3>7. Advanced(after[i], st, prefs, weightSum, D(i))
      BY <3>2, <3>6
    <3> QED BY <2>1, <3>7 DEF P
  <2> QED BY <2>3, <2>4
<1>6. n \in P
  <2>1. n \in 0 .. n
    BY <1>3
  <2> HIDE DEF P, n
  <2> QED BY <1>3, <1>4, <1>5, <2>1, LoopInduction
<1>7. D(n) = st.open
  BY DEF Done
<1>8. nx = after[n] /\ Filled(nx, prefs, est, lim, count)
  <2>1. n \in 0 .. n
    BY <1>3
  <2> QED BY <1>1, <2>1 DEF PassRun
<1>9. nx.remaining \in Int /\ nx.remaining >= 0
  BY <1>8 DEF Filled, Round
<1>10. Advanced(nx, st, prefs, weightSum, st.open)
  BY <1>6, <1>7, <1>8
<1>11. nx.open = st.open => nx.remaining = 0
  <2> SUFFICES ASSUME nx.open = st.open, nx.remaining # 0 PROVE FALSE
    OBVIOUS
  <2>1. (st.remaining - nx.remaining) * weightSum >= st.remaining * weightSum
    BY <1>10 DEF Advanced
  <2>2. nx.remaining * weightSum > 0
    BY <1>9
  <2>3. (st.remaining - nx.remaining) * weightSum = st.remaining * weightSum - nx.remaining * weightSum
    BY <1>2, <1>9
  <2>4. st.remaining * weightSum \in Int /\ nx.remaining * weightSum \in Int
    BY <1>2, <1>9
  <2> QED BY <2>1, <2>2, <2>3, <2>4
<1>12. nx.open \subseteq st.open /\ (~nx.modified => nx.open = {})
  BY <1>10 DEF Advanced
<1> QED BY <1>11, <1>12

-----------------------------------------------------------------------------
(* The passes. *)

(* The round that the first pass begins with. *)
Opened(st, prefs) ==
  [plan |-> st.plan, overflow |-> st.overflow, remaining |-> st.remaining,
   open |-> DOMAIN prefs, modified |-> TRUE]

LEMMA OpenedFilled ==
  ASSUME NEW prefs, Sane(prefs), NEW est \in Capacities, NEW lim \in Capacities,
         NEW count \in Nat, NEW st, Minned(st, prefs, count)
  PROVE  Filled(Opened(st, prefs), prefs, est, lim, count)
<1> DEFINE x == Opened(st, prefs)
<1>1. DOMAIN prefs \in SUBSET Cluster
  BY DEF Sane
<1>2. st.plan \in Counts /\ st.overflow \in Counts /\ st.remaining \in Int
  BY DEF Minned, Draft
<1>3. /\ x.plan = st.plan /\ x.overflow = st.overflow /\ x.remaining = st.remaining
      /\ x.open = DOMAIN prefs
  BY DEF Opened
<1>4. x \in Round
  BY <1>1, <1>2 DEF Opened, Round
<1>5. count >= 0
  OBVIOUS
<1>6. /\ st.remaining >= 0 /\ SumOf(st.plan, Cluster) + st.remaining = count
      /\ \A c \in Cluster : st.plan[c] >= 0 /\ st.overflow[c] >= 0
      /\ \A c \in Cluster \ DOMAIN prefs : st.plan[c] = 0 /\ st.overflow[c] = 0
      /\ \A c \in DOMAIN prefs : prefs[c].min = 0 => st.plan[c] = 0 /\ st.overflow[c] = 0
  BY <1>5 DEF Minned
<1> HIDE DEF x
<1>7. \A c \in DOMAIN prefs : prefs[c].min = 0 => Within(x, c, prefs, est, lim)
  <2> SUFFICES ASSUME NEW c \in DOMAIN prefs, prefs[c].min = 0 PROVE Within(x, c, prefs, est, lim)
    OBVIOUS
  <2>1. x.plan[c] = 0 /\ x.overflow[c] = 0
    BY <1>3, <1>6
  <2>2. (lim[c] # Absent => lim[c] >= 0) /\ (est[c] # Absent => est[c] >= 0)
    BY <1>1 DEF Capacities, Limit
  <2> QED BY <2>1, <2>2 DEF Within
<1>8. \A c \in DOMAIN prefs \ x.open : Full(c, x.plan[c], prefs, est, lim)
  BY <1>3
<1>9. \A c \in DOMAIN prefs : x.overflow[c] >= 0 /\ x.plan[c] >= 0
  BY <1>1, <1>3, <1>6
<1>10. Filled(x, prefs, est, lim, count)
  BY <1>3, <1>4, <1>6, <1>7, <1>8, <1>9 DEF Filled
<1> QED BY <1>10 DEF x

LEMMA DistributeOnceFilled ==
  ASSUME NEW order \in Seq(Cluster), IsOrder(order), NEW prefs, Weighted(prefs),
         NEW est \in Capacities, NEW lim \in Capacities, NEW count \in Int,
         NEW st, Filled(st, prefs, est, lim, count)
  PROVE  Filled(DistributeOnce(st, order, prefs, est, lim), prefs, est, lim, count)
<1> DEFINE W == WeightSum(prefs, st.open)
<1>1. st.open \in SUBSET DOMAIN prefs
  BY DEF Filled
<1>2. W \in Nat
  BY <1>1, WeightSumIs
<1>3. CASE st.modified /\ st.remaining > 0 /\ W > 0
  <2>1. DistributeOnce(st, order, prefs, est, lim) = Pass(st, order, prefs, est, lim, W)
    BY <1>3 DEF DistributeOnce
  <2> HIDE DEF W
  <2>2. Filled(Pass(st, order, prefs, est, lim, W), prefs, est, lim, count)
    BY <1>2, <1>3, PassFilled
  <2> QED BY <2>1, <2>2
<1>4. CASE ~(st.modified /\ st.remaining > 0 /\ W > 0)
  BY <1>4 DEF DistributeOnce
<1> QED BY <1>3, <1>4

(* The rounds after each pass. *)
Passes(after, st, order, prefs, est, lim, count) ==
  /\ \A i \in 0 .. Len(order) : Filled(after[i], prefs, est, lim, count)
  /\ after[0] = Opened(st, prefs)
  /\ \A i \in 1 .. Len(order) : after[i] = DistributeOnce(after[i - 1], order, prefs, est, lim)
  /\ Distribute(st, order, prefs, est, lim) = after[Len(order)]

(* Distribute is the result of its loop. *)
LEMMA DistributeLoop ==
  ASSUME NEW order \in Seq(Cluster), IsOrder(order), NEW prefs, Weighted(prefs),
         NEW est \in Capacities, NEW lim \in Capacities, NEW count \in Nat,
         NEW st, Minned(st, prefs, count)
  PROVE  \E after : Passes(after, st, order, prefs, est, lim, count)
<1> DEFINE n == Len(order)
           S == {x \in Round : Filled(x, prefs, est, lim, count)}
           base == Opened(st, prefs)
           Step(x) == DistributeOnce(x, order, prefs, est, lim)
           Is(g) == g = [i \in 0 .. n |-> IF i = 0 THEN base ELSE Step(g[i - 1])]
           turn == [i \in 1 .. n |-> [x \in S |-> Step(x)]]
           after == CHOOSE g : Is(g)
<1>0. n \in Nat
  OBVIOUS
<1>1. base \in S
  <2>1. Filled(base, prefs, est, lim, count)
    BY OpenedFilled DEF Weighted
  <2> QED BY <2>1 DEF Filled
<1>2. ASSUME NEW x \in S PROVE Step(x) \in S
  <2>1. Filled(Step(x), prefs, est, lim, count)
    BY DistributeOnceFilled
  <2> QED BY <2>1 DEF Filled
<1>3. Distribute(st, order, prefs, est, lim) = after[n]
  BY DEF Distribute, Opened
<1> HIDE DEF Step, S, base, n
<1>4. turn \in [1 .. n -> [S -> S]]
  BY <1>2
<1>5. PICK g \in [0 .. n -> S] : g[0] = base /\ \A i \in 1 .. n : g[i] = turn[i][g[i - 1]]
  <2> HIDE DEF turn
  <2>1. \E g : Computes(g, n, S, base, turn)
    BY <1>0, <1>1, <1>4, LoopExists
  <2> QED BY <2>1 DEF Computes
<1>6. \A i \in 1 .. n : i - 1 \in 0 .. n /\ g[i] = Step(g[i - 1])
  <2> TAKE i \in 1 .. n
  <2>1. i - 1 \in 0 .. n
    BY <1>0
  <2>2. g[i - 1] \in S
    BY <2>1
  <2> QED BY <1>5, <2>1, <2>2
<1>7. Is(g)
  <2>1. ASSUME NEW i \in 0 .. n PROVE g[i] = IF i = 0 THEN base ELSE Step(g[i - 1])
    <3>1. CASE i = 0
      BY <1>5, <3>1
    <3>2. CASE i # 0
      <4>1. i \in 1 .. n
        BY <1>0, <3>2
      <4> QED BY <1>6, <3>2, <4>1
    <3> QED BY <3>1, <3>2
  <2>2. g = [i \in 0 .. n |-> g[i]]
    OBVIOUS
  <2> QED BY <2>1, <2>2
<1>8. Is(after)
  <2> HIDE DEF Is
  <2> QED BY <1>7
<1> HIDE DEF after
<1>9. \A i \in 0 .. n : after[i] = IF i = 0 THEN base ELSE Step(after[i - 1])
  BY <1>8
<1>10. after[0] = base /\ \A i \in 1 .. n : after[i] = Step(after[i - 1])
  <2>1. 0 \in 0 .. n /\ \A i \in 1 .. n : i \in 0 .. n /\ i # 0
    BY <1>0
  <2> QED BY <1>9, <2>1
<1>11. \A i \in 0 .. n : after[i] \in S
  <2> DEFINE P == {i \in 0 .. n : after[i] \in S}
  <2>1. 0 \in P
    BY <1>0, <1>1, <1>10
  <2>2. \A i \in 1 .. n : i - 1 \in P => i \in P
    <3> SUFFICES ASSUME NEW i \in 1 .. n, i - 1 \in P PROVE i \in P
      OBVIOUS
    <3>1. i \in 0 .. n
      BY <1>0
    <3> QED BY <1>2, <1>10, <3>1
  <2> HIDE DEF P
  <2>3. \A i \in 0 .. n : i \in P
    BY <1>0, <2>1, <2>2, LoopInduction
  <2> QED BY <2>3 DEF P
<1>12. \A i \in 0 .. n : Filled(after[i], prefs, est, lim, count)
  BY <1>11 DEF S
<1>13. Passes(after, st, order, prefs, est, lim, count)
  BY <1>3, <1>10, <1>12 DEF Passes, Step, base, n
<1> QED BY <1>13

(* As many passes as clusters are enough: when replicas remain, every cluster is full. *)
LEMMA Distributed ==
  ASSUME NEW order \in Seq(Cluster), IsOrder(order), NEW prefs, Weighted(prefs),
         Len(order) = Cardinality(DOMAIN prefs),
         \A c \in DOMAIN prefs : \E j \in 1 .. Len(order) : order[j] = c,
         NEW est \in Capacities, NEW lim \in Capacities, NEW count \in Nat,
         NEW st, Minned(st, prefs, count),
         NEW x, x = Distribute(st, order, prefs, est, lim)
  PROVE  /\ Filled(x, prefs, est, lim, count)
         /\ ((\A c \in DOMAIN prefs : prefs[c].weight > 0) => x.remaining = 0 \/ x.open = {})
<1> DEFINE n == Len(order)
<1>1. PICK after : Passes(after, st, order, prefs, est, lim, count)
  <2>1. \E after : Passes(after, st, order, prefs, est, lim, count)
    BY DistributeLoop
  <2> QED BY <2>1
<1>0. n \in Nat /\ 0 \in 0 .. n /\ n \in 0 .. n
  OBVIOUS
<1>2. Filled(x, prefs, est, lim, count) /\ x = after[n]
  BY <1>0, <1>1 DEF Passes
<1>3. ASSUME \A c \in DOMAIN prefs : prefs[c].weight > 0 PROVE x.remaining = 0 \/ x.open = {}
  <2> DEFINE Near(y, i) == \/ y.remaining = 0
                           \/ Cardinality(y.open) <= n - i /\ (y.modified \/ y.open = {})
             P == {i \in 0 .. n : Near(after[i], i)}
  <2>0. IsFiniteSet(DOMAIN prefs) /\ DOMAIN prefs \in SUBSET Cluster
    BY PlannerAssumption, FS_Subset DEF Weighted, Sane
  <2>1. \A T \in SUBSET DOMAIN prefs : IsFiniteSet(T) /\ Cardinality(T) \in Nat /\ (Cardinality(T) = 0 <=> T = {})
    BY <2>0, FS_Subset, FS_CardinalityType, FS_EmptySet
  <2>2. 0 \in P
    <3>1. after[0].open = DOMAIN prefs /\ after[0].modified
      BY <1>1 DEF Passes, Opened
    <3>2. Cardinality(after[0].open) <= n - 0
      BY <1>0, <3>1
    <3> QED BY <1>0, <3>1, <3>2
  <2>3. ASSUME NEW i \in 1 .. n, i - 1 \in P PROVE i \in P
    <3> DEFINE y == after[i - 1]
               nx == after[i]
               W == WeightSum(prefs, y.open)
    <3>1. i \in 0 .. n /\ i - 1 \in 0 .. n /\ Near(y, i - 1)
      BY <2>3
    <3>2. Filled(y, prefs, est, lim, count) /\ nx = DistributeOnce(y, order, prefs, est, lim)
      BY <1>1, <3>1 DEF Passes
    <3>3. y.open \in SUBSET DOMAIN prefs /\ y.remaining \in Int /\ y.remaining >= 0
      BY <3>2 DEF Filled, Round
    <3>4. W \in Nat /\ (y.open # {} => W > 0)
      <4>1. W \in Nat /\ \A c \in y.open : prefs[c].weight <= W
        BY <3>3, WeightSumIs
      <4>2. \A c \in y.open : prefs[c].weight > 0 /\ prefs[c].weight \in Nat
        BY <1>3, <3>3 DEF Weighted
      <4> HIDE DEF W
      <4> QED BY <4>1, <4>2
    <3> HIDE DEF y, nx
    <3>5. CASE y.remaining = 0
      <4>1. nx = y
        BY <3>2, <3>5 DEF DistributeOnce
      <4> QED BY <3>1, <3>5, <4>1 DEF nx
    <3>6. CASE y.open = {}
      <4>1. W = 0
        BY <3>6, SumUnfold DEF WeightSum
      <4>2. nx = y
        BY <3>2, <4>1 DEF DistributeOnce
      <4>3. Cardinality(nx.open) <= n - i
        BY <1>0, <2>1, <3>3, <3>6, <4>2
      <4> QED BY <3>1, <3>6, <4>2, <4>3 DEF nx
    <3>7. CASE y.remaining # 0 /\ y.open # {}
      <4>1. y.modified /\ Cardinality(y.open) <= n - (i - 1)
        BY <3>1, <3>7
      <4>2. y.remaining > 0 /\ W > 0
        BY <3>3, <3>4, <3>7
      <4>3. nx = Pass(y, order, prefs, est, lim, W)
        BY <3>2, <4>1, <4>2 DEF DistributeOnce
      <4>4. \A c \in y.open : prefs[c].weight > 0 /\ \E j \in 1 .. Len(order) : order[j] = c
        BY <1>3, <3>3
      <4>5. nx.open \subseteq y.open /\ (nx.remaining = 0 \/ (nx.open # y.open /\ (nx.modified \/ nx.open = {})))
        BY <3>2, <3>4, <4>2, <4>3, <4>4, PassProgress
      <4>6. nx.open # y.open => Cardinality(nx.open) < Cardinality(y.open)
        <5>1. nx.open \in SUBSET y.open /\ IsFiniteSet(y.open)
          BY <2>1, <3>3, <4>5
        <5>2. Cardinality(nx.open) \in Nat /\ Cardinality(y.open) \in Nat
          BY <2>1, <3>3, <4>5
        <5> QED BY <5>1, <5>2, FS_Subset
      <4>7. Cardinality(nx.open) \in Nat /\ Cardinality(y.open) \in Nat
        BY <2>1, <3>3, <4>5
      <4>8. Near(nx, i)
        BY <1>0, <4>1, <4>5, <4>6, <4>7
      <4> QED BY <3>1, <4>8 DEF nx
    <3> QED BY <3>5, <3>6, <3>7
  <2>4. n \in P
    <3> HIDE DEF P, n
    <3> QED BY <1>0, <2>2, <2>3, LoopInduction
  <2>5. Near(x, n)
    BY <1>2, <2>4
  <2>6. x.open \in SUBSET DOMAIN prefs
    BY <1>2 DEF Filled
  <2>7. Cardinality(x.open) \in Nat /\ (Cardinality(x.open) = 0 <=> x.open = {})
    BY <2>1, <2>6
  <2> QED BY <1>0, <2>5, <2>7
<1> QED BY <1>2, <1>3

(* No more replicas than the weights in total: no cluster gets more than its weight, and
   everything is placed in one pass. *)
LEMMA ShareWithinWeight ==
  ASSUME NEW W \in Nat, NEW due \in Nat, NEW w \in Nat, NEW q \in Int, due <= W, W > 0,
         W * q <= due * w + W - 1
  PROVE  q <= w
  OBVIOUS

(* Preferences by excess, as scaling has them: no maximum is below the weight. *)
ByExcess(prefs) ==
  \A c \in DOMAIN prefs :
    /\ prefs[c].min = 0 /\ prefs[c].weight > 0
    /\ (prefs[c].max # Absent => prefs[c].max \in Int /\ prefs[c].weight <= prefs[c].max)

LEMMA PassByExcess ==
  ASSUME NEW order \in Seq(Cluster), IsOrder(order), NEW prefs, Weighted(prefs), ByExcess(prefs),
         \A c \in DOMAIN prefs : \E j \in 1 .. Len(order) : order[j] = c,
         NEW count \in Nat, NEW st, Filled(st, prefs, NoLimit, NoLimit, count),
         st.open = DOMAIN prefs, st.remaining > 0, \A c \in DOMAIN prefs : st.plan[c] = 0,
         NEW weightSum \in Nat, weightSum = WeightSum(prefs, st.open), weightSum > 0,
         st.remaining <= weightSum,
         NEW nx, nx = Pass(st, order, prefs, NoLimit, NoLimit, weightSum)
  PROVE  nx.remaining = 0 /\ \A c \in DOMAIN prefs : nx.plan[c] <= prefs[c].weight
<1> DEFINE n == Len(order)
           D(i) == Done(st, order, i)
           Kept(x, i) == /\ x.open = st.open
                         /\ \A c \in DOMAIN prefs : x.plan[c] <= prefs[c].weight
                         /\ \A c \in DOMAIN prefs \ D(i) : x.plan[c] = 0
<1>turns. \A i \in 1 .. Len(order) :
         /\ (order[i] \notin st.open => Done(st, order, i) = Done(st, order, i - 1))
         /\ (order[i] \in st.open => /\ Done(st, order, i) = Done(st, order, i - 1) \cup {order[i]}
                                     /\ order[i] \notin Done(st, order, i - 1))
  BY DoneIs
<1>0. NoLimit \in Capacities /\ \A c \in Cluster : NoLimit[c] = Absent
  BY DEF NoLimit, Capacities, Limit
<1>1. PICK after : PassRun(after, st, order, prefs, NoLimit, NoLimit, count, weightSum)
  <2>1. \E after : PassRun(after, st, order, prefs, NoLimit, NoLimit, count, weightSum)
    BY <1>0, PassRuns
  <2> QED BY <2>1
<1>2. st \in Round /\ st.remaining \in Nat /\ DOMAIN prefs \in SUBSET Cluster
      /\ \A c \in DOMAIN prefs : prefs[c].weight \in Nat
  BY DEF Filled, Round, Weighted, Sane
<1>3. n \in Nat /\ 0 \in 0 .. n /\ n \in 0 .. n
  OBVIOUS
<1> DEFINE P == {i \in 0 .. n : Kept(after[i], i)}
<1>4. 0 \in P
  <2>1. after[0].plan = st.plan /\ after[0].open = st.open
    BY <1>1, <1>2 DEF PassRun, Round
  <2> HIDE DEF D
  <2>2. Kept(after[0], 0)
    BY <1>2, <2>1
  <2> QED BY <1>3, <2>2
<1>5. ASSUME NEW i \in 1 .. n, i - 1 \in P PROVE i \in P
  <2> DEFINE c == order[i]
             x == after[i - 1]
             nxt == after[i]
  <2>1. Kept(x, i - 1) /\ i \in 0 .. n /\ i - 1 \in 0 .. n
    BY <1>5
  <2>2. Filled(x, prefs, NoLimit, NoLimit, count) /\ Filled(nxt, prefs, NoLimit, NoLimit, count)
    BY <1>1, <2>1 DEF PassRun
  <2>3. CASE c \notin st.open
    <3>1. nxt = x
      BY <1>1, <2>3 DEF PassRun
    <3>2. D(i) = D(i - 1)
      BY <1>turns, <2>3
    <3> HIDE DEF D
    <3>3. Kept(nxt, i)
      BY <2>1, <3>1, <3>2
    <3> QED BY <2>1, <3>3
  <2>4. CASE c \in st.open
    <3>1. IsTurn(x, c, prefs, NoLimit, NoLimit, st.remaining, weightSum, nxt)
      BY <1>1, <2>4 DEF PassRun
    <3>2. D(i) = D(i - 1) \cup {c} /\ c \notin D(i - 1)
      BY <1>turns, <2>4
    <3> HIDE DEF D, c, x, nxt, P
    <3>3. PICK extra, got, turned \in Int :
            ShareTurn(x, c, prefs, NoLimit, NoLimit, st.remaining, weightSum, nxt, extra, got, turned)
      BY <3>1 DEF IsTurn
    <3>4. c \in DOMAIN prefs /\ c \in Cluster /\ prefs[c].weight \in Nat
      BY <1>2, <2>4
    <3>5. x.plan[c] = 0
      BY <2>1, <3>2, <3>4
    <3>6. x.plan \in Counts
      BY <2>2 DEF Filled, Round
    <3>7. /\ nxt.plan = [x.plan EXCEPT ![c] = got]
          /\ nxt.open = IF got = x.plan[c] + extra THEN x.open ELSE x.open \ {c}
          /\ got + turned <= x.plan[c] + extra /\ turned >= 0
          /\ (got = x.plan[c] + extra \/ Full(c, got, prefs, NoLimit, NoLimit))
          /\ weightSum * extra <= st.remaining * prefs[c].weight + weightSum - 1
      BY <3>3 DEF ShareTurn
    <3>8. extra <= prefs[c].weight
      BY <1>2, <3>4, <3>7, ShareWithinWeight
    <3>9. got = extra
      <4>1. CASE got = x.plan[c] + extra
        BY <3>5, <4>1
      <4>2. CASE Full(c, got, prefs, NoLimit, NoLimit)
        <5>1. prefs[c].max # Absent /\ got = prefs[c].max
          BY <1>0, <3>4, <4>2 DEF Full
        <5>2. prefs[c].max \in Int /\ prefs[c].weight <= prefs[c].max
          BY <3>4, <5>1 DEF ByExcess
        <5>3. got + turned <= x.plan[c] + extra /\ turned >= 0
          BY <3>7
        <5>4. got <= extra
          BY <3>5, <5>3
        <5>5. extra <= got
          BY <3>4, <3>8, <5>1, <5>2
        <5> QED BY <5>4, <5>5
      <4> QED BY <3>7, <4>1, <4>2
    <3>10. nxt.open = st.open
      BY <2>1, <3>5, <3>7, <3>9
    <3>11. \A d \in Cluster : nxt.plan[d] = IF d = c THEN got ELSE x.plan[d]
      BY <3>4, <3>6, <3>7 DEF Counts
    <3>12. \A d \in DOMAIN prefs : nxt.plan[d] <= prefs[d].weight
      BY <1>2, <2>1, <3>8, <3>9, <3>11
    <3>13. \A d \in DOMAIN prefs \ D(i) : nxt.plan[d] = 0
      BY <1>2, <2>1, <3>2, <3>11
    <3>14. Kept(nxt, i)
      BY <3>10, <3>12, <3>13
    <3> QED BY <2>1, <3>14 DEF P, nxt
  <2> QED BY <2>3, <2>4
<1>6. n \in P
  <2> HIDE DEF P, n
  <2> QED BY <1>3, <1>4, <1>5, LoopInduction
<1>7. nx = after[n]
  BY <1>1 DEF PassRun
<1>8. nx.open = st.open /\ \A c \in DOMAIN prefs : nx.plan[c] <= prefs[c].weight
  BY <1>6, <1>7
<1>9. \A c \in st.open : prefs[c].weight > 0 /\ \E j \in 1 .. Len(order) : order[j] = c
  BY DEF ByExcess
<1>10. nx.remaining = 0 \/ nx.open # st.open
  BY <1>0, <1>9, PassProgress
<1> QED BY <1>8, <1>10

LEMMA DistributedByExcess ==
  ASSUME NEW order \in Seq(Cluster), IsOrder(order), NEW prefs, Weighted(prefs), ByExcess(prefs),
         \A c \in DOMAIN prefs : \E j \in 1 .. Len(order) : order[j] = c,
         NEW count \in Nat, count <= WeightSum(prefs, DOMAIN prefs), NEW st, Minned(st, prefs, count),
         NEW x, x = Distribute(st, order, prefs, NoLimit, NoLimit)
  PROVE  x.remaining = 0 /\ \A c \in DOMAIN prefs : x.plan[c] <= prefs[c].weight
<1> DEFINE n == Len(order)
           Small(y) == \A c \in DOMAIN prefs : y.plan[c] <= prefs[c].weight
<1>1. NoLimit \in Capacities
  BY DEF NoLimit, Capacities, Limit
<1>2. PICK after : Passes(after, st, order, prefs, NoLimit, NoLimit, count)
  <2>1. \E after : Passes(after, st, order, prefs, NoLimit, NoLimit, count)
    BY <1>1, DistributeLoop
  <2> QED BY <2>1
<1>3. n \in Nat /\ 0 \in 0 .. n /\ n \in 0 .. n
  OBVIOUS
<1> DEFINE P == {i \in 0 .. n : Small(after[i]) /\ (after[i].remaining = 0 \/ i = 0)}
<1>4. /\ after[0].plan = st.plan /\ after[0].open = DOMAIN prefs /\ after[0].modified
      /\ after[0].remaining = st.remaining /\ Filled(after[0], prefs, NoLimit, NoLimit, count)
  BY <1>2, <1>3 DEF Passes, Opened
<1>5. DOMAIN prefs \in SUBSET Cluster /\ \A c \in DOMAIN prefs : prefs[c].weight \in Nat /\ prefs[c].min = 0
  BY DEF Weighted, Sane, ByExcess
<1>6. \A c \in DOMAIN prefs : after[0].plan[c] = 0
  <2>1. count >= 0
    OBVIOUS
  <2> QED BY <1>4, <1>5, <2>1 DEF Minned
<1>7. 0 \in P
  BY <1>3, <1>5, <1>6
<1>8. st.remaining \in Int /\ st.remaining >= 0 /\ st.remaining <= count
  <2>1. st.plan \in Counts /\ st.remaining \in Int
    BY DEF Minned, Draft
  <2>2. \A c \in Cluster : st.plan[c] = 0
    <3>1. \A c \in Cluster \ DOMAIN prefs : st.plan[c] = 0
      BY DEF Minned
    <3> QED BY <1>4, <1>6, <3>1
  <2>3. st.plan = Zero
    BY <2>1, <2>2 DEF Zero, Counts
  <2>4. SumOf(st.plan, Cluster) = 0
    BY <2>3, SumZero
  <2>5. SumOf(st.plan, Cluster) + st.remaining = count
    BY DEF Minned
  <2> QED BY <2>1, <2>4, <2>5
<1>9. ASSUME NEW i \in 1 .. n, i - 1 \in P PROVE i \in P
  <2> DEFINE y == after[i - 1]
             nx == after[i]
             W == WeightSum(prefs, y.open)
  <2>1. i \in 0 .. n /\ i - 1 \in 0 .. n /\ Small(y) /\ (y.remaining = 0 \/ i - 1 = 0)
    BY <1>9
  <2>2. nx = DistributeOnce(y, order, prefs, NoLimit, NoLimit)
    BY <1>2 DEF Passes
  <2>3. CASE y.remaining = 0
    <3>1. nx = y
      BY <2>2, <2>3 DEF DistributeOnce
    <3> QED BY <2>1, <2>3, <3>1
  <2>4. CASE y.remaining # 0
    <3>1. i - 1 = 0
      BY <2>1, <2>4
    <3>2. y = after[0]
      BY <3>1
    <3>3. W = WeightSum(prefs, DOMAIN prefs) /\ W \in Nat
      BY <1>4, <3>2, WeightSumIs
    <3> HIDE DEF y, nx, W
    <3>4. y.remaining > 0 /\ y.remaining <= W /\ W > 0
      BY <1>4, <1>8, <2>4, <3>2, <3>3
    <3>5. nx = Pass(y, order, prefs, NoLimit, NoLimit, W)
      BY <1>4, <2>2, <3>2, <3>4 DEF DistributeOnce, W
    <3>6. y.open = DOMAIN prefs /\ W = WeightSum(prefs, y.open) /\ Filled(y, prefs, NoLimit, NoLimit, count)
          /\ \A c \in DOMAIN prefs : y.plan[c] = 0
      BY <1>4, <1>6, <3>2 DEF W
    <3>7. nx.remaining = 0 /\ Small(nx)
      BY <3>3, <3>4, <3>5, <3>6, PassByExcess
    <3> QED BY <2>1, <3>7 DEF nx
  <2> QED BY <2>3, <2>4
<1>10. n \in P
  <2> HIDE DEF P, n
  <2> QED BY <1>3, <1>7, <1>9, LoopInduction
<1>11. x = after[n]
  BY <1>2 DEF Passes
<1>12. n = 0 => st.remaining = 0
  <2>1. n = 0 => DOMAIN prefs = {}
    OBVIOUS
  <2>2. WeightSum(prefs, {}) = 0
    BY SumUnfold DEF WeightSum
  <2> QED BY <1>8, <2>1, <2>2
<1>13. x.remaining = 0
  BY <1>4, <1>10, <1>11, <1>12
<1> QED BY <1>10, <1>11, <1>13

(* The preferences of the dynamic weights when no cluster keeps a weight. *)
Unweighted(prefs) ==
  /\ Sane(prefs)
  /\ \A c \in DOMAIN prefs : prefs[c].weight \in Int /\ prefs[c].weight < 0

(* Then there is no pass. *)
LEMMA DistributeNothing ==
  ASSUME NEW order \in Seq(Cluster), NEW prefs, Unweighted(prefs), NEW est, NEW lim, NEW st
  PROVE  Distribute(st, order, prefs, est, lim) = Opened(st, prefs)
<1> DEFINE n == Len(order)
           base == Opened(st, prefs)
           Step(x) == DistributeOnce(x, order, prefs, est, lim)
           Is(g) == g = [i \in 0 .. n |-> IF i = 0 THEN base ELSE Step(g[i - 1])]
           after == CHOOSE g : Is(g)
<1>0. n \in Nat
  OBVIOUS
<1>1. WeightSum(prefs, DOMAIN prefs) \in Int /\ WeightSum(prefs, DOMAIN prefs) <= 0
  <2> DEFINE f == [c \in DOMAIN prefs |-> prefs[c].weight]
  <2>1. DOMAIN prefs \in SUBSET Cluster
    BY DEF Unweighted, Sane
  <2>2. \A c \in DOMAIN prefs : f[c] \in Int /\ 1 * f[c] <= 0 * f[c] + 0
    BY DEF Unweighted
  <2>3. WeightSum(prefs, DOMAIN prefs) = SumOf(f, DOMAIN prefs)
    BY DEF WeightSum
  <2> HIDE DEF f
  <2>4. SumOf(f, DOMAIN prefs) \in Int
    BY <2>1, <2>2, SumPick
  <2>5. Cardinality(DOMAIN prefs) \in Int
    BY <2>1, PlannerAssumption, FS_Subset, FS_CardinalityType
  <2>6. 1 * SumOf(f, DOMAIN prefs) <= 0 * SumOf(f, DOMAIN prefs) + 0 * Cardinality(DOMAIN prefs)
    <3>1. 1 \in Int /\ 0 \in Int
      OBVIOUS
    <3> QED BY <2>1, <2>2, <3>1, SumLinear
  <2> QED BY <2>3, <2>4, <2>5, <2>6
<1>2. Step(base) = base
  <2>1. base.open = DOMAIN prefs
    BY DEF Opened
  <2>2. ~(WeightSum(prefs, base.open) > 0)
    BY <1>1, <2>1
  <2> HIDE DEF base
  <2> QED BY <2>2 DEF DistributeOnce
<1>3. Distribute(st, order, prefs, est, lim) = after[n]
  BY DEF Distribute, Opened
<1> HIDE DEF Step, base, n
<1>4. Is([i \in 0 .. n |-> base])
  <2> DEFINE g == [i \in 0 .. n |-> base]
  <2>1. ASSUME NEW i \in 0 .. n PROVE base = IF i = 0 THEN base ELSE Step(g[i - 1])
    <3>1. CASE i # 0
      <4>1. i - 1 \in 0 .. n
        BY <1>0, <3>1
      <4> QED BY <1>2, <3>1, <4>1
    <3> QED BY <3>1
  <2> HIDE DEF Is
  <2>2. g = [i \in 0 .. n |-> IF i = 0 THEN base ELSE Step(g[i - 1])]
    BY <2>1
  <2> QED BY <2>2 DEF Is
<1>5. Is(after)
  <2> HIDE DEF Is
  <2> QED BY <1>4
<1> HIDE DEF after
<1> DEFINE P == {i \in 0 .. n : after[i] = base}
<1>6. \A i \in 0 .. n : after[i] = IF i = 0 THEN base ELSE Step(after[i - 1])
  BY <1>5
<1>7. 0 \in P
  BY <1>0, <1>6
<1>8. ASSUME NEW i \in 1 .. n, i - 1 \in P PROVE i \in P
  <2>1. i \in 0 .. n /\ i # 0 /\ after[i - 1] = base
    BY <1>0, <1>8
  <2> QED BY <1>2, <1>6, <2>1
<1>9. n \in P
  <2>1. n \in 0 .. n
    BY <1>0
  <2> HIDE DEF P
  <2> QED BY <1>0, <1>7, <1>8, <2>1, LoopInduction
<1> QED BY <1>3, <1>9 DEF base

-----------------------------------------------------------------------------
(* Plans. *)

(* A plan that getDesiredPlan may return. *)
Desired(result, prefs, est, lim, count, keep) ==
  \E st :
    /\ Filled(st, prefs, est, lim, count)
    /\ ((\A c \in DOMAIN prefs : prefs[c].weight > 0) => st.remaining = 0 \/ st.open = {})
    /\ (ByExcess(prefs) /\ est = NoLimit /\ lim = NoLimit /\ count <= WeightSum(prefs, DOMAIN prefs)
          => st.remaining = 0 /\ \A c \in DOMAIN prefs : st.plan[c] <= prefs[c].weight)
    /\ result.plan = st.plan
    /\ result.overflow = IF keep THEN st.overflow ELSE Trimmed(st.overflow, st.remaining)

LEMMA DesiredPlan ==
  ASSUME NEW prefs, Weighted(prefs) \/ Unweighted(prefs),
         NEW est \in Capacities, NEW lim \in Capacities, NEW count \in Nat, NEW keep
  PROVE  Desired(getDesiredPlan(prefs, est, lim, count, keep), prefs, est, lim, count, keep)
<1> DEFINE order == getNamedPreferences(prefs)
           mins == AssignMins(order, prefs, est, lim, count)
           st == Distribute(mins, order, prefs, est, lim)
<1>1. /\ DOMAIN prefs \in SUBSET Cluster /\ Sane(prefs)
      /\ \A c \in DOMAIN prefs : prefs[c].weight \in Int
  BY DEF Weighted, Unweighted, Sane
<1>2. /\ order \in Seq(Cluster) /\ IsOrder(order) /\ Len(order) = Cardinality(DOMAIN prefs)
      /\ {order[i] : i \in 1 .. Len(order)} = DOMAIN prefs
  BY <1>1, NamedPreferences
<1>3. getDesiredPlan(prefs, est, lim, count, keep) =
        [plan |-> st.plan, overflow |-> IF keep THEN st.overflow ELSE Trimmed(st.overflow, st.remaining)]
  BY DEF getDesiredPlan
<1> HIDE DEF order
<1>4. \A c \in DOMAIN prefs : \E j \in 1 .. Len(order) : order[j] = c
  BY <1>2
<1>5. Minned(mins, prefs, count)
  BY <1>1, <1>2, AssignMinsMinned
<1> HIDE DEF mins
<1> DEFINE Wanted == /\ Filled(st, prefs, est, lim, count)
                     /\ ((\A c \in DOMAIN prefs : prefs[c].weight > 0) => st.remaining = 0 \/ st.open = {})
                     /\ (ByExcess(prefs) /\ est = NoLimit /\ lim = NoLimit
                         /\ count <= WeightSum(prefs, DOMAIN prefs)
                           => st.remaining = 0 /\ \A c \in DOMAIN prefs : st.plan[c] <= prefs[c].weight)
<1>6. CASE Weighted(prefs)
  <2>1. /\ Filled(st, prefs, est, lim, count)
        /\ ((\A c \in DOMAIN prefs : prefs[c].weight > 0) => st.remaining = 0 \/ st.open = {})
    BY <1>2, <1>4, <1>5, <1>6, Distributed
  <2>2. ASSUME ByExcess(prefs), est = NoLimit, lim = NoLimit, count <= WeightSum(prefs, DOMAIN prefs)
        PROVE  st.remaining = 0 /\ \A c \in DOMAIN prefs : st.plan[c] <= prefs[c].weight
    BY <1>2, <1>4, <1>5, <1>6, <2>2, DistributedByExcess
  <2> HIDE DEF st
  <2>3. Wanted
    BY <2>1, <2>2
  <2> HIDE DEF Wanted
  <2> QED BY <1>3, <2>3 DEF Desired, Wanted
<1>7. CASE Unweighted(prefs)
  <2>1. st = Opened(mins, prefs)
    BY <1>2, <1>7, DistributeNothing
  <2>2. Filled(st, prefs, est, lim, count) /\ st.open = DOMAIN prefs
    <3>1. Filled(Opened(mins, prefs), prefs, est, lim, count)
      BY <1>1, <1>5, OpenedFilled
    <3>2. Opened(mins, prefs).open = DOMAIN prefs
      BY DEF Opened
    <3> HIDE DEF st
    <3> QED BY <2>1, <3>1, <3>2
  <2> HIDE DEF st
  <2>3. (\A c \in DOMAIN prefs : prefs[c].weight > 0) => DOMAIN prefs = {}
    <3> SUFFICES ASSUME NEW c \in DOMAIN prefs, prefs[c].weight > 0 PROVE FALSE
      OBVIOUS
    <3>1. prefs[c].weight \in Int /\ prefs[c].weight < 0
      BY <1>7 DEF Unweighted
    <3> QED BY <3>1
  <2>4. ByExcess(prefs) => DOMAIN prefs = {}
    BY <2>3 DEF ByExcess
  <2>5. ASSUME DOMAIN prefs = {}, count <= WeightSum(prefs, DOMAIN prefs) PROVE st.remaining = 0
    <3>1. WeightSum(prefs, {}) = 0
      BY SumUnfold DEF WeightSum
    <3>2. SumOf(st.plan, Cluster) = 0
      <4>1. st.plan = Zero
        BY <2>2, <2>5 DEF Filled, Round, Counts, Zero
      <4> QED BY <4>1, SumZero
    <3>3. SumOf(st.plan, Cluster) + st.remaining = count /\ st.remaining \in Int /\ st.remaining >= 0
      BY <2>2 DEF Filled, Round
    <3> QED BY <2>5, <3>1, <3>2, <3>3
  <2>6. Wanted
    BY <2>2, <2>3, <2>4, <2>5
  <2> HIDE DEF Wanted
  <2> QED BY <1>3, <2>6 DEF Desired, Wanted
<1> QED BY <1>6, <1>7

LEMMA TrimmedIs ==
  ASSUME NEW overflow \in Counts, \A c \in Cluster : overflow[c] >= 0, NEW remaining \in Int
  PROVE  /\ Trimmed(overflow, remaining) \in Counts
         /\ \A c \in Cluster : 0 <= Trimmed(overflow, remaining)[c] /\ Trimmed(overflow, remaining)[c] <= overflow[c]
         /\ (remaining <= 0 => \A c \in Cluster : Trimmed(overflow, remaining)[c] = 0)
<1>1. \A c \in Cluster : overflow[c] \in Int
  BY DEF Counts
<1>2. \A c \in Cluster : Trimmed(overflow, remaining)[c] = IF Least2(overflow[c], remaining) > 0
                                                            THEN Least2(overflow[c], remaining) ELSE 0
  BY DEF Trimmed
<1>3. \A c \in Cluster :
        /\ Trimmed(overflow, remaining)[c] \in Int
        /\ 0 <= Trimmed(overflow, remaining)[c] /\ Trimmed(overflow, remaining)[c] <= overflow[c]
        /\ (remaining <= 0 => Trimmed(overflow, remaining)[c] = 0)
  <2> TAKE c \in Cluster
  <2>1. Least2(overflow[c], remaining) \in Int /\ Least2(overflow[c], remaining) <= overflow[c]
        /\ Least2(overflow[c], remaining) <= remaining
    BY <1>1 DEF Least2
  <2> QED BY <1>1, <1>2, <2>1
<1>4. Trimmed(overflow, remaining) = [c \in Cluster |-> Trimmed(overflow, remaining)[c]]
  BY DEF Trimmed
<1>5. Trimmed(overflow, remaining) \in Counts
  BY <1>3, <1>4 DEF Counts
<1> QED BY <1>3, <1>5

(* Scaling down keeps every cluster between nothing and what it has, and above its desired
   count when no more is taken than there is too much; then all of it is taken. *)
LEMMA ScaleDownIs ==
  ASSUME NEW prefs, DOMAIN prefs \in SUBSET Cluster, NEW ok \in [Cluster -> Nat],
         NEW desired \in [Cluster -> Nat], \A c \in Cluster \ DOMAIN prefs : ok[c] <= desired[c],
         NEW count \in Nat, NEW R, R = scaleDown(prefs, ok, desired, count)
  PROVE  /\ R \in Counts
         /\ \A c \in Cluster : 0 <= R[c] /\ R[c] <= ok[c]
         /\ (count <= SumOf(ok, Cluster) - SumOf(desired, Cluster)
               => /\ \A c \in Cluster : R[c] = ok[c] \/ R[c] >= desired[c]
                  /\ SumOf(R, Cluster) = SumOf(ok, Cluster) - count)
<1> DEFINE shrinking == {c \in DOMAIN prefs : desired[c] < ok[c]}
           p == [c \in shrinking |-> [min |-> 0, weight |-> ok[c] - desired[c], max |-> ok[c]]]
           result == getDesiredPlan(p, NoLimit, NoLimit, count, FALSE)
           less == result.plan
<1>1. shrinking \in SUBSET Cluster
  OBVIOUS
<1>2. \A c \in Cluster : ok[c] \in Nat /\ desired[c] \in Nat
  OBVIOUS
<1>3. /\ DOMAIN p = shrinking
      /\ \A c \in shrinking : p[c].min = 0 /\ p[c].weight = ok[c] - desired[c] /\ p[c].max = ok[c]
  OBVIOUS
<1>4. R = [c \in Cluster |-> ok[c] - less[c]]
  BY DEF scaleDown
<1>5. \A c \in shrinking : desired[c] < ok[c]
  OBVIOUS
<1>6. \A c \in Cluster \ shrinking : ok[c] <= desired[c]
  <2> TAKE c \in Cluster \ shrinking
  <2>1. CASE c \in DOMAIN prefs
    BY <1>2, <2>1
  <2>2. CASE c \notin DOMAIN prefs
    BY <2>2
  <2> QED BY <2>1, <2>2
<1> HIDE DEF p, shrinking
<1>7. Weighted(p)
  <2>1. \A c \in shrinking : p[c].min \in Nat /\ p[c].max \in Int /\ p[c].weight \in Nat
    BY <1>1, <1>2, <1>3, <1>5
  <2> QED BY <1>1, <1>3, <2>1 DEF Weighted, Sane
<1>8. ByExcess(p)
  BY <1>1, <1>2, <1>3, <1>5 DEF ByExcess
<1>9. NoLimit \in Capacities
  BY DEF NoLimit, Capacities, Limit
<1>10. Desired(result, p, NoLimit, NoLimit, count, FALSE)
  BY <1>7, <1>9, DesiredPlan
<1> HIDE DEF result
<1>11. PICK st :
    /\ Filled(st, p, NoLimit, NoLimit, count)
    /\ (ByExcess(p) /\ NoLimit = NoLimit /\ NoLimit = NoLimit /\ count <= WeightSum(p, DOMAIN p)
          => st.remaining = 0 /\ \A c \in DOMAIN p : st.plan[c] <= p[c].weight)
    /\ result.plan = st.plan
  BY <1>10 DEF Desired
<1>12. less \in Counts /\ \A c \in Cluster \ shrinking : less[c] = 0
  BY <1>3, <1>11 DEF Filled, Round
<1>13. \A c \in shrinking : 0 <= less[c] /\ less[c] <= ok[c]
  <2> TAKE c \in shrinking
  <2>0. c \in Cluster /\ ok[c] \in Nat /\ p[c].max = ok[c] /\ p[c].min = 0 /\ c \in DOMAIN p
        /\ ok[c] # Absent
    BY <1>1, <1>2, <1>3, PlannerAssumption
  <2>1. st.overflow[c] >= 0 /\ (st.plan[c] >= 0 \/ st.plan[c] >= p[c].max)
    BY <1>11, <2>0 DEF Filled
  <2>2. Within(st, c, p, NoLimit, NoLimit)
    BY <1>11, <2>0 DEF Filled
  <2>3. st.plan[c] + st.overflow[c] <= ok[c]
    BY <2>0, <2>2 DEF Within
  <2>4. st.plan[c] \in Int /\ st.overflow[c] \in Int
    BY <1>11, <2>0 DEF Filled, Round, Counts
  <2> QED BY <1>11, <2>0, <2>1, <2>3, <2>4
<1> HIDE DEF less
<1>14. \A c \in Cluster : R[c] = ok[c] - less[c] /\ less[c] \in Int
  BY <1>4, <1>12 DEF Counts
<1>15. \A c \in Cluster : R[c] \in Int /\ 0 <= R[c] /\ R[c] <= ok[c]
  <2> TAKE c \in Cluster
  <2>1. CASE c \in shrinking
    BY <1>2, <1>13, <1>14, <2>1
  <2>2. CASE c \notin shrinking
    BY <1>2, <1>12, <1>14, <2>2
  <2> QED BY <2>1, <2>2
<1>16. R \in Counts
  BY <1>4, <1>15 DEF Counts
<1>17. ASSUME count <= SumOf(ok, Cluster) - SumOf(desired, Cluster)
       PROVE  /\ \A c \in Cluster : R[c] = ok[c] \/ R[c] >= desired[c]
              /\ SumOf(R, Cluster) = SumOf(ok, Cluster) - count
  <2> DEFINE h == [c \in DOMAIN p |-> p[c].weight]
  <2>1. WeightSum(p, DOMAIN p) = SumOf(h, shrinking)
    BY <1>3 DEF WeightSum
  <2>2. \A c \in shrinking : h[c] \in Int /\ ok[c] - desired[c] <= h[c]
    BY <1>1, <1>2, <1>3
  <2> HIDE DEF h
  <2>3. SumOf(ok, Cluster) - SumOf(desired, Cluster) <= SumOf(h, shrinking)
    <3>1. ok \in [Cluster -> Int] /\ desired \in [Cluster -> Int]
      OBVIOUS
    <3> QED BY <1>1, <1>6, <2>2, <3>1, SumExcess
  <2>4. SumOf(ok, Cluster) \in Int /\ SumOf(desired, Cluster) \in Int /\ SumOf(h, shrinking) \in Int
    BY <1>1, <1>2, <2>2, SumPick
  <2>5. count <= WeightSum(p, DOMAIN p)
    BY <1>17, <2>1, <2>3, <2>4
  <2>6. st.remaining = 0 /\ \A c \in shrinking : less[c] <= ok[c] - desired[c]
    BY <1>3, <1>8, <1>11, <2>5 DEF less
  <2>7. \A c \in Cluster : R[c] = ok[c] \/ R[c] >= desired[c]
    <3> TAKE c \in Cluster
    <3>1. CASE c \in shrinking
      BY <1>2, <1>14, <2>6, <3>1
    <3>2. CASE c \notin shrinking
      BY <1>2, <1>12, <1>14, <3>2
    <3> QED BY <3>1, <3>2
  <2>8. SumOf(R, Cluster) = SumOf(ok, Cluster) - count
    <3>1. SumOf(less, Cluster) = count
      <4>1. SumOf(st.plan, Cluster) + st.remaining = count /\ st.plan = less
        BY <1>11 DEF Filled, less
      <4>2. SumOf(less, Cluster) \in Int
        BY <1>12, SumPick DEF Counts
      <4> QED BY <2>6, <4>1, <4>2
    <3>2. \A c \in Cluster : R[c] \in Int /\ less[c] \in Int /\ ok[c] = R[c] + less[c]
      BY <1>2, <1>14, <1>15
    <3>3. SumOf(ok, Cluster) = SumOf(R, Cluster) + SumOf(less, Cluster)
      BY <3>2, SumPlus
    <3>4. SumOf(R, Cluster) \in Int
      BY <3>2, SumPick
    <3> QED BY <3>1, <3>3, <3>4
  <2> QED BY <2>7, <2>8
<1> QED BY <1>15, <1>16, <1>17

(* Scaling up takes nothing from a cluster but what is above its maximum, and lets only
   clusters below their desired count grow, up to their maximum.  When the desired counts are
   within the maxima and no more is added than is missing, no cluster gets more than it should
   have and everything is added. *)
LEMMA ScaleUpIs ==
  ASSUME NEW prefs, Sane(prefs), NEW ok \in [Cluster -> Nat], NEW desired \in [Cluster -> Nat],
         NEW count \in Nat, NEW R, R = scaleUp(prefs, ok, desired, count)
  PROVE  /\ R \in Counts
         /\ \A c \in Cluster :
              R[c] >= ok[c] \/ (c \in DOMAIN prefs /\ prefs[c].max # Absent /\ R[c] >= prefs[c].max)
         /\ \A c \in Cluster :
              \/ R[c] = ok[c]
              \/ /\ c \in DOMAIN prefs /\ desired[c] > ok[c]
                 /\ (prefs[c].max # Absent /\ prefs[c].max >= ok[c] => R[c] <= prefs[c].max)
         /\ (/\ \A c \in Cluster \ DOMAIN prefs : desired[c] <= ok[c]
             /\ \A c \in DOMAIN prefs : prefs[c].max # Absent => desired[c] <= prefs[c].max
             /\ count <= SumOf(desired, Cluster) - SumOf(ok, Cluster)
             => /\ \A c \in Cluster : R[c] = ok[c] \/ (ok[c] <= R[c] /\ R[c] <= desired[c])
                /\ SumOf(R, Cluster) = SumOf(ok, Cluster) + count)
<1> DEFINE growing == {c \in DOMAIN prefs : desired[c] > ok[c]}
           p == [c \in growing |->
                   [min |-> 0, weight |-> desired[c] - ok[c],
                    max |-> IF prefs[c].max = Absent THEN Absent ELSE prefs[c].max - ok[c]]]
           result == getDesiredPlan(p, NoLimit, NoLimit, count, FALSE)
           extra == result.plan
<1>1. growing \in SUBSET Cluster
  BY DEF Sane
<1>2. \A c \in Cluster : ok[c] \in Nat /\ desired[c] \in Nat
  OBVIOUS
<1>3. /\ DOMAIN p = growing
      /\ \A c \in growing :
           /\ p[c].min = 0 /\ p[c].weight = desired[c] - ok[c]
           /\ p[c].max = IF prefs[c].max = Absent THEN Absent ELSE prefs[c].max - ok[c]
  OBVIOUS
<1>4. R = [c \in Cluster |-> ok[c] + extra[c]]
  BY DEF scaleUp
<1>5. \A c \in growing : c \in DOMAIN prefs /\ desired[c] > ok[c] /\ prefs[c].max \in Int \cup {Absent}
  BY DEF Sane
<1> HIDE DEF p, growing
<1>6. \A c \in growing :
        /\ p[c].min \in Nat /\ p[c].max \in Int \cup {Absent} /\ p[c].weight \in Nat
        /\ (prefs[c].max # Absent <=> p[c].max # Absent)
        /\ (prefs[c].max # Absent => p[c].max = prefs[c].max - ok[c] /\ prefs[c].max \in Int)
  <2> TAKE c \in growing
  <2>1. ok[c] \in Int /\ desired[c] \in Int
    BY <1>1, <1>2
  <2>2. CASE prefs[c].max = Absent
    BY <1>3, <1>5, <2>1, <2>2
  <2>3. CASE prefs[c].max # Absent
    <3>1. prefs[c].max - ok[c] \in Int /\ prefs[c].max \in Int
      BY <1>5, <2>1, <2>3
    <3> QED BY <1>3, <1>5, <2>1, <2>3, <3>1, PlannerAssumption
  <2> QED BY <2>2, <2>3
<1>7. Weighted(p)
  BY <1>1, <1>3, <1>6 DEF Weighted, Sane
<1>8. NoLimit \in Capacities
  BY DEF NoLimit, Capacities, Limit
<1>9. Desired(result, p, NoLimit, NoLimit, count, FALSE)
  BY <1>7, <1>8, DesiredPlan
<1> HIDE DEF result
<1>10. PICK st :
    /\ Filled(st, p, NoLimit, NoLimit, count)
    /\ (ByExcess(p) /\ NoLimit = NoLimit /\ NoLimit = NoLimit /\ count <= WeightSum(p, DOMAIN p)
          => st.remaining = 0 /\ \A c \in DOMAIN p : st.plan[c] <= p[c].weight)
    /\ result.plan = st.plan
  BY <1>9 DEF Desired
<1>11. extra \in Counts /\ \A c \in Cluster \ growing : extra[c] = 0
  BY <1>3, <1>10 DEF Filled, Round
<1>12. \A c \in growing :
         /\ extra[c] >= 0 \/ (prefs[c].max # Absent /\ extra[c] >= prefs[c].max - ok[c])
         /\ (prefs[c].max # Absent /\ prefs[c].max >= ok[c] => extra[c] <= prefs[c].max - ok[c])
  <2> TAKE c \in growing
  <2>0. c \in Cluster /\ c \in DOMAIN p /\ ok[c] \in Nat /\ p[c].min = 0
    BY <1>1, <1>2, <1>3
  <2>1. st.overflow[c] >= 0 /\ (st.plan[c] >= 0 \/ (p[c].max # Absent /\ st.plan[c] >= p[c].max))
    BY <1>10, <2>0 DEF Filled
  <2>2. Within(st, c, p, NoLimit, NoLimit)
    BY <1>10, <2>0 DEF Filled
  <2>3. st.plan[c] \in Int /\ st.overflow[c] \in Int
    BY <1>10, <2>0 DEF Filled, Round, Counts
  <2>4. p[c].max # Absent /\ p[c].max >= 0 => st.plan[c] + st.overflow[c] <= p[c].max
    BY <2>2 DEF Within
  <2>5. extra[c] = st.plan[c]
    BY <1>10
  <2> QED BY <1>6, <2>0, <2>1, <2>3, <2>4, <2>5
<1> HIDE DEF extra
<1>13. \A c \in Cluster : R[c] = ok[c] + extra[c] /\ extra[c] \in Int
  BY <1>4, <1>11 DEF Counts
<1>14. R \in Counts
  BY <1>2, <1>4, <1>13 DEF Counts
<1>15. \A c \in Cluster :
         R[c] >= ok[c] \/ (c \in DOMAIN prefs /\ prefs[c].max # Absent /\ R[c] >= prefs[c].max)
  <2> TAKE c \in Cluster
  <2>1. CASE c \in growing
    <3>1. prefs[c].max # Absent => prefs[c].max \in Int
      BY <1>5, <2>1
    <3> QED BY <1>2, <1>5, <1>12, <1>13, <2>1, <3>1
  <2>2. CASE c \notin growing
    BY <1>2, <1>11, <1>13, <2>2
  <2> QED BY <2>1, <2>2
<1>16. \A c \in Cluster :
         \/ R[c] = ok[c]
         \/ /\ c \in DOMAIN prefs /\ desired[c] > ok[c]
            /\ (prefs[c].max # Absent /\ prefs[c].max >= ok[c] => R[c] <= prefs[c].max)
  <2> TAKE c \in Cluster
  <2>1. CASE c \in growing
    <3>1. prefs[c].max # Absent => prefs[c].max \in Int
      BY <1>5, <2>1
    <3> QED BY <1>2, <1>5, <1>12, <1>13, <2>1, <3>1
  <2>2. CASE c \notin growing
    BY <1>2, <1>11, <1>13, <2>2
  <2> QED BY <2>1, <2>2
<1>17. ASSUME \A c \in Cluster \ DOMAIN prefs : desired[c] <= ok[c],
              \A c \in DOMAIN prefs : prefs[c].max # Absent => desired[c] <= prefs[c].max,
              count <= SumOf(desired, Cluster) - SumOf(ok, Cluster)
       PROVE  /\ \A c \in Cluster : R[c] = ok[c] \/ (ok[c] <= R[c] /\ R[c] <= desired[c])
              /\ SumOf(R, Cluster) = SumOf(ok, Cluster) + count
  <2>0. \A c \in Cluster \ growing : desired[c] <= ok[c]
    <3> TAKE c \in Cluster \ growing
    <3>1. CASE c \in DOMAIN prefs
      BY <1>2, <3>1 DEF growing
    <3> QED BY <1>17, <3>1
  <2> DEFINE h == [c \in DOMAIN p |-> p[c].weight]
  <2>1. WeightSum(p, DOMAIN p) = SumOf(h, growing)
    BY <1>3 DEF WeightSum
  <2>2. \A c \in growing : h[c] \in Int /\ desired[c] - ok[c] <= h[c]
    BY <1>1, <1>2, <1>3
  <2> HIDE DEF h
  <2>3. SumOf(desired, Cluster) - SumOf(ok, Cluster) <= SumOf(h, growing)
    <3>1. ok \in [Cluster -> Int] /\ desired \in [Cluster -> Int]
      OBVIOUS
    <3> QED BY <1>1, <2>0, <2>2, <3>1, SumExcess
  <2>4. SumOf(ok, Cluster) \in Int /\ SumOf(desired, Cluster) \in Int /\ SumOf(h, growing) \in Int
    BY <1>1, <1>2, <2>2, SumPick
  <2>5. count <= WeightSum(p, DOMAIN p)
    BY <1>17, <2>1, <2>3, <2>4
  <2>6. ByExcess(p)
    <3> SUFFICES ASSUME NEW c \in growing
                 PROVE  /\ p[c].min = 0 /\ p[c].weight > 0
                        /\ (p[c].max # Absent => p[c].max \in Int /\ p[c].weight <= p[c].max)
      BY <1>3 DEF ByExcess
    <3>1. ok[c] \in Nat /\ desired[c] \in Nat /\ desired[c] > ok[c] /\ p[c].weight = desired[c] - ok[c]
      BY <1>1, <1>2, <1>3, <1>5
    <3>2. p[c].max # Absent => prefs[c].max \in Int /\ p[c].max = prefs[c].max - ok[c] /\ desired[c] <= prefs[c].max
      BY <1>5, <1>6, <1>17
    <3> QED BY <1>3, <3>1, <3>2
  <2>7. st.remaining = 0 /\ \A c \in growing : extra[c] <= desired[c] - ok[c]
    BY <1>3, <1>10, <2>5, <2>6 DEF extra
  <2>8. \A c \in Cluster : R[c] = ok[c] \/ (ok[c] <= R[c] /\ R[c] <= desired[c])
    <3> TAKE c \in Cluster
    <3>1. CASE c \in growing
      <4>1. prefs[c].max # Absent => prefs[c].max \in Int /\ desired[c] <= prefs[c].max
        BY <1>5, <1>17, <3>1
      <4>2. extra[c] >= 0
        BY <1>2, <1>5, <1>12, <1>13, <3>1, <4>1
      <4> QED BY <1>2, <1>13, <2>7, <3>1, <4>2
    <3>2. CASE c \notin growing
      BY <1>2, <1>11, <1>13, <3>2
    <3> QED BY <3>1, <3>2
  <2>9. SumOf(R, Cluster) = SumOf(ok, Cluster) + count
    <3>1. SumOf(extra, Cluster) = count
      <4>1. SumOf(st.plan, Cluster) + st.remaining = count /\ st.plan = extra
        BY <1>10 DEF Filled, extra
      <4>2. SumOf(extra, Cluster) \in Int
        BY <1>11, SumPick DEF Counts
      <4> QED BY <2>7, <4>1, <4>2
    <3>2. \A c \in Cluster : ok[c] \in Int /\ extra[c] \in Int /\ R[c] = ok[c] + extra[c]
      BY <1>2, <1>13
    <3>3. SumOf(R, Cluster) = SumOf(ok, Cluster) + SumOf(extra, Cluster)
      BY <3>2, SumPlus
    <3> QED BY <3>1, <3>3
  <2> QED BY <2>8, <2>9
<1> QED BY <1>14, <1>15, <1>16, <1>17

(* What fits of what runs. *)
LEMMA FittingIs ==
  ASSUME NEW prefs, DOMAIN prefs \in SUBSET Cluster, NEW current \in [Cluster -> Nat],
         NEW est \in Capacities, NEW lim \in Capacities, NEW ok, ok = Fitting(prefs, current, est, lim)
  PROVE  /\ ok \in [Cluster -> Nat]
         /\ \A c \in Cluster \ DOMAIN prefs : ok[c] = 0
         /\ \A c \in Cluster :
              /\ ok[c] <= current[c]
              /\ (c \in DOMAIN prefs /\ lim[c] # Absent => ok[c] <= lim[c])
              /\ (c \in DOMAIN prefs /\ est[c] # Absent => ok[c] <= est[c])
         /\ \A c \in DOMAIN prefs :
              /\ ok[c] = Cut(Cut(current[c], lim[c]), est[c])
              /\ \/ ok[c] = current[c]
                 \/ lim[c] # Absent /\ ok[c] = lim[c]
                 \/ est[c] # Absent /\ ok[c] = est[c]
<1>1. \A c \in Cluster : ok[c] = IF c \in DOMAIN prefs THEN Cut(Cut(current[c], lim[c]), est[c]) ELSE 0
  BY DEF Fitting
<1>2. \A c \in Cluster : current[c] \in Nat /\ lim[c] \in Limit /\ est[c] \in Limit
  BY DEF Capacities
<1>3. ASSUME NEW c \in DOMAIN prefs
      PROVE  /\ ok[c] \in Nat /\ ok[c] <= current[c]
             /\ (lim[c] # Absent => ok[c] <= lim[c])
             /\ (est[c] # Absent => ok[c] <= est[c])
             /\ \/ ok[c] = current[c]
                \/ lim[c] # Absent /\ ok[c] = lim[c]
                \/ est[c] # Absent /\ ok[c] = est[c]
  <2> DEFINE a == Cut(current[c], lim[c])
             b == Cut(a, est[c])
  <2>1. c \in Cluster /\ current[c] \in Nat
    BY <1>2
  <2>2. lim[c] \in Int \cup {Absent} /\ (lim[c] # Absent => lim[c] \in Nat)
    BY <1>2, <2>1 DEF Limit
  <2>3. est[c] \in Int \cup {Absent} /\ (est[c] # Absent => est[c] \in Nat)
    BY <1>2, <2>1 DEF Limit
  <2>4. ok[c] = b
    BY <1>1, <2>1
  <2>5. /\ a \in Int /\ a <= current[c] /\ (lim[c] # Absent => a <= lim[c])
        /\ (a = current[c] \/ (lim[c] # Absent /\ a = lim[c]))
    <3>1. current[c] \in Int
      BY <2>1
    <3> QED BY <2>2, <3>1, CutIs
  <2> HIDE DEF a
  <2>6. /\ b \in Int /\ b <= a /\ (est[c] # Absent => b <= est[c])
        /\ (b = a \/ (est[c] # Absent /\ b = est[c]))
    BY <2>3, <2>5, CutIs
  <2> HIDE DEF b
  <2>7. b \in Nat
    BY <2>1, <2>2, <2>3, <2>5, <2>6
  <2>8. b <= current[c] /\ (lim[c] # Absent => b <= lim[c])
    BY <2>1, <2>2, <2>5, <2>6
  <2> QED BY <2>4, <2>5, <2>6, <2>7, <2>8
<1>4. \A c \in Cluster \ DOMAIN prefs : ok[c] = 0
  BY <1>1
<1>5. \A c \in Cluster : ok[c] \in Nat /\ ok[c] <= current[c]
  BY <1>2, <1>3, <1>4
<1>6. ok = [c \in Cluster |-> ok[c]]
  BY DEF Fitting
<1>7. ok \in [Cluster -> Nat]
  BY <1>5, <1>6
<1> QED BY <1>1, <1>3, <1>4, <1>5, <1>7

(* Preferences as the scheduler makes them. *)
Capped(prefs) ==
  /\ Sane(prefs)
  /\ \A c \in DOMAIN prefs : prefs[c].max # Absent => prefs[c].max >= 0

Bounded(prefs) ==
  /\ Capped(prefs)
  /\ Weighted(prefs) \/ Unweighted(prefs)

(* Desired counts within the maxima, of the clusters that have preferences. *)
Fair(prefs, desired) ==
  /\ \A c \in Cluster \ DOMAIN prefs : desired[c] = 0
  /\ \A c \in DOMAIN prefs : prefs[c].max # Absent => desired[c] <= prefs[c].max

(* What avoiding disruption makes of what fits and what is desired: a cluster grows only
   towards its desired count, either none shrinks or none grows, and in total there are as many
   replicas as are desired. *)
Rescaled(A, prefs, ok, desired) ==
  /\ A \in [Cluster -> Nat]
  /\ (Fair(prefs, desired) => /\ SumOf(A, Cluster) = SumOf(desired, Cluster)
                              /\ \A c \in Cluster : A[c] <= ok[c] \/ A[c] <= desired[c])
  /\ \A c \in Cluster :
       \/ A[c] <= ok[c]
       \/ /\ c \in DOMAIN prefs /\ desired[c] > ok[c]
          /\ (prefs[c].max # Absent /\ prefs[c].max >= ok[c] => A[c] <= prefs[c].max)
  /\ \/ \A c \in Cluster :
          A[c] >= ok[c] \/ (c \in DOMAIN prefs /\ prefs[c].max # Absent /\ A[c] >= prefs[c].max)
     \/ \A c \in Cluster : A[c] <= ok[c] /\ (A[c] = ok[c] \/ A[c] >= desired[c])

LEMMA AvoidDisruptionIs ==
  ASSUME NEW prefs, Bounded(prefs), NEW ok \in [Cluster -> Nat], NEW desired \in [Cluster -> Nat],
         \A c \in Cluster \ DOMAIN prefs : ok[c] = 0
  PROVE  Rescaled(AvoidDisruption(prefs, ok, desired), prefs, ok, desired)
<1> DEFINE have == SumOf(ok, Cluster)
           want == SumOf(desired, Cluster)
           A == Rescale(prefs, ok, desired, have, want)
<1>1. AvoidDisruption(prefs, ok, desired) = A
  BY DEF AvoidDisruption
<1>2. have \in Int /\ want \in Int
  BY SumPick
<1>3. \A c \in Cluster : ok[c] \in Nat /\ desired[c] \in Nat
  OBVIOUS
<1>4. Sane(prefs) /\ DOMAIN prefs \in SUBSET Cluster
  BY DEF Bounded, Capped, Sane
<1> HIDE DEF have, want
<1>5. CASE have = want
  <2>1. A = ok
    BY <1>5 DEF Rescale
  <2>2. \A c \in Cluster : A[c] <= ok[c] /\ A[c] = ok[c]
    BY <1>3, <2>1
  <2>3. SumOf(A, Cluster) = SumOf(desired, Cluster)
    BY <1>5, <2>1 DEF have, want
  <2> QED BY <1>1, <2>1, <2>2, <2>3 DEF Rescaled
<1>6. CASE have > want
  <2> DEFINE count == have - want
  <2>1. A = scaleDown(prefs, ok, desired, count) /\ count \in Nat
    BY <1>2, <1>6 DEF Rescale
  <2>2. count <= SumOf(ok, Cluster) - SumOf(desired, Cluster)
    BY <1>2 DEF have, want
  <2>3. \A c \in Cluster \ DOMAIN prefs : ok[c] <= desired[c]
    BY <1>3
  <2> HIDE DEF A, count
  <2>4. /\ A \in Counts /\ \A c \in Cluster : 0 <= A[c] /\ A[c] <= ok[c]
        /\ \A c \in Cluster : A[c] = ok[c] \/ A[c] >= desired[c]
        /\ SumOf(A, Cluster) = SumOf(ok, Cluster) - count
    BY <1>4, <2>1, <2>2, <2>3, ScaleDownIs
  <2>5. A \in [Cluster -> Nat]
    BY <2>4 DEF Counts
  <2>6. SumOf(A, Cluster) = SumOf(desired, Cluster)
    BY <1>2, <2>4 DEF count, have, want
  <2> QED BY <1>1, <2>4, <2>5, <2>6 DEF Rescaled
<1>7. CASE have < want
  <2> DEFINE count == want - have
  <2>1. A = scaleUp(prefs, ok, desired, count) /\ count \in Nat
    BY <1>2, <1>7 DEF Rescale
  <2> HIDE DEF A, count
  <2>2. /\ A \in Counts
        /\ \A c \in Cluster :
             A[c] >= ok[c] \/ (c \in DOMAIN prefs /\ prefs[c].max # Absent /\ A[c] >= prefs[c].max)
        /\ \A c \in Cluster :
             \/ A[c] = ok[c]
             \/ /\ c \in DOMAIN prefs /\ desired[c] > ok[c]
                /\ (prefs[c].max # Absent /\ prefs[c].max >= ok[c] => A[c] <= prefs[c].max)
    BY <1>4, <2>1, ScaleUpIs
  <2>6. ASSUME Fair(prefs, desired)
        PROVE  /\ SumOf(A, Cluster) = SumOf(desired, Cluster)
               /\ \A c \in Cluster : A[c] <= ok[c] \/ A[c] <= desired[c]
    <3>1. /\ \A c \in Cluster \ DOMAIN prefs : desired[c] <= ok[c]
          /\ \A c \in DOMAIN prefs : prefs[c].max # Absent => desired[c] <= prefs[c].max
      BY <1>3, <2>6 DEF Fair
    <3>2. count <= SumOf(desired, Cluster) - SumOf(ok, Cluster)
      BY <1>2 DEF count, have, want
    <3>3. /\ \A c \in Cluster : A[c] = ok[c] \/ (ok[c] <= A[c] /\ A[c] <= desired[c])
          /\ SumOf(A, Cluster) = SumOf(ok, Cluster) + count
      BY <1>4, <2>1, <3>1, <3>2, ScaleUpIs
    <3>4. SumOf(A, Cluster) = SumOf(desired, Cluster)
      BY <1>2, <3>3 DEF count, have, want
    <3> QED BY <1>3, <3>3, <3>4
  <2>3. \A c \in Cluster : A[c] \in Nat
    <3> TAKE c \in Cluster
    <3>1. A[c] \in Int
      BY <2>2 DEF Counts
    <3>2. c \in DOMAIN prefs /\ prefs[c].max # Absent => prefs[c].max \in Nat
      BY <1>4 DEF Bounded, Capped, Sane
    <3> QED BY <1>3, <2>2, <3>1, <3>2
  <2>4. A \in [Cluster -> Nat]
    BY <2>2, <2>3 DEF Counts
  <2>5. \A c \in Cluster :
          \/ A[c] <= ok[c]
          \/ /\ c \in DOMAIN prefs /\ desired[c] > ok[c]
             /\ (prefs[c].max # Absent /\ prefs[c].max >= ok[c] => A[c] <= prefs[c].max)
    BY <1>3, <2>2
  <2> QED BY <1>1, <2>2, <2>4, <2>5, <2>6 DEF Rescaled
<1> QED BY <1>2, <1>5, <1>6, <1>7

(* What Plan promises.  No count is negative; a cluster without a minimum whose maximum is what
   it has does not grow, not even by overflow; and when disruption is avoided, either every
   replica that fits and is within the maximum stays, or no cluster grows. *)
Promised(sum, prefs, current, est, lim, avoid, keep) ==
  /\ sum \in [Cluster -> Nat]
  /\ \A c \in DOMAIN prefs :
       prefs[c].min = 0 /\ prefs[c].max # Absent /\ prefs[c].max <= current[c] => sum[c] <= current[c]
  /\ (avoid /\ ~keep /\ (\A c \in DOMAIN prefs : prefs[c].weight > 0) =>
       \/ \A c \in DOMAIN prefs : \/ sum[c] >= Cut(Cut(current[c], lim[c]), est[c])
                                  \/ prefs[c].max # Absent /\ sum[c] >= prefs[c].max
       \/ \A c \in DOMAIN prefs : sum[c] <= current[c])

Summed(R) == [c \in Cluster |-> R.plan[c] + R.overflow[c]]

LEMMA PlanIs ==
  ASSUME NEW prefs, Bounded(prefs), NEW count \in Nat, NEW current \in [Cluster -> Nat],
         NEW est \in Capacities, NEW lim \in Capacities, NEW avoid \in BOOLEAN, NEW keep \in BOOLEAN,
         NEW R, R = Plan(prefs, count, current, est, lim, avoid, keep),
         NEW sum, sum = [c \in Cluster |-> R.plan[c] + R.overflow[c]]
  PROVE  Promised(sum, prefs, current, est, lim, avoid, keep)
<1> DEFINE ok == Fitting(prefs, current, est, lim)
           keeps == Keeps(avoid, keep)
           desired == getDesiredPlan(prefs, est, lim, count, keeps)
           A == AvoidDisruption(prefs, ok, desired.plan)
<1>1. DOMAIN prefs \in SUBSET Cluster /\ (Weighted(prefs) \/ Unweighted(prefs))
      /\ \A c \in DOMAIN prefs : prefs[c].max # Absent => prefs[c].max \in Nat
  BY DEF Bounded, Capped, Sane
<1>2. R.plan = (IF avoid THEN A ELSE desired.plan) /\ R.overflow = desired.overflow
  BY DEF Plan, Replan
<1>3. /\ ok \in [Cluster -> Nat]
      /\ \A c \in Cluster \ DOMAIN prefs : ok[c] = 0
      /\ \A c \in Cluster :
           /\ ok[c] <= current[c]
           /\ (c \in DOMAIN prefs /\ lim[c] # Absent => ok[c] <= lim[c])
           /\ (c \in DOMAIN prefs /\ est[c] # Absent => ok[c] <= est[c])
      /\ \A c \in DOMAIN prefs :
           /\ ok[c] = Cut(Cut(current[c], lim[c]), est[c])
           /\ \/ ok[c] = current[c]
              \/ lim[c] # Absent /\ ok[c] = lim[c]
              \/ est[c] # Absent /\ ok[c] = est[c]
  BY <1>1, FittingIs
<1>4. Desired(desired, prefs, est, lim, count, keeps)
  BY <1>1, DesiredPlan
<1> HIDE DEF ok, desired, keeps
<1>5. PICK st :
    /\ Filled(st, prefs, est, lim, count)
    /\ ((\A c \in DOMAIN prefs : prefs[c].weight > 0) => st.remaining = 0 \/ st.open = {})
    /\ desired.plan = st.plan
    /\ desired.overflow = IF keeps THEN st.overflow ELSE Trimmed(st.overflow, st.remaining)
  BY <1>4 DEF Desired
<1>6. st.plan \in Counts /\ st.overflow \in Counts /\ st.remaining \in Int /\ st.remaining >= 0
  BY <1>5 DEF Filled, Round
<1>7. \A c \in Cluster : st.overflow[c] >= 0
  BY <1>5 DEF Filled
<1>8. \A c \in Cluster : st.plan[c] \in Nat
  <2> TAKE c \in Cluster
  <2>1. st.plan[c] \in Int
    BY <1>6 DEF Counts
  <2>2. CASE c \in DOMAIN prefs
    BY <1>1, <1>5, <2>1, <2>2 DEF Filled
  <2>3. CASE c \notin DOMAIN prefs
    BY <1>5, <2>3 DEF Filled
  <2> QED BY <2>2, <2>3
<1>9. st.plan \in [Cluster -> Nat]
  BY <1>6, <1>8 DEF Counts
<1>10. /\ desired.overflow \in Counts
       /\ \A c \in Cluster : 0 <= desired.overflow[c] /\ desired.overflow[c] <= st.overflow[c]
       /\ (~keeps /\ st.remaining = 0 => \A c \in Cluster : desired.overflow[c] = 0)
  <2>1. CASE keeps
    <3>1. \A c \in Cluster : st.overflow[c] \in Int
      BY <1>6 DEF Counts
    <3> QED BY <1>5, <1>6, <1>7, <2>1, <3>1
  <2>2. CASE ~keeps
    BY <1>5, <1>6, <1>7, <2>2, TrimmedIs
  <2> QED BY <2>1, <2>2
<1>11. Rescaled(A, prefs, ok, st.plan)
  BY <1>3, <1>5, <1>9, AvoidDisruptionIs
<1> HIDE DEF A
<1>12. \A c \in Cluster : /\ A[c] \in Nat /\ desired.overflow[c] \in Nat /\ st.overflow[c] \in Nat
                          /\ ok[c] \in Nat /\ current[c] \in Nat
  BY <1>3, <1>6, <1>7, <1>10, <1>11 DEF Rescaled, Counts
<1>13. \A c \in Cluster : sum[c] = (IF avoid THEN A[c] ELSE st.plan[c]) + desired.overflow[c]
  BY <1>2, <1>5
<1>14. \A c \in Cluster : sum[c] \in Nat
  BY <1>8, <1>12, <1>13
<1>15. sum \in [Cluster -> Nat]
  BY <1>14
<1>16. ASSUME NEW c \in DOMAIN prefs, prefs[c].min = 0, prefs[c].max # Absent, prefs[c].max <= current[c]
       PROVE  sum[c] <= current[c]
  <2>1. c \in Cluster /\ prefs[c].max \in Nat
    BY <1>1, <1>16
  <2>2. Within(st, c, prefs, est, lim)
    BY <1>5, <1>16 DEF Filled
  <2>3. st.plan[c] + st.overflow[c] <= prefs[c].max
    BY <1>16, <2>1, <2>2 DEF Within
  <2>4. st.plan[c] \in Nat /\ desired.overflow[c] \in Nat /\ desired.overflow[c] <= st.overflow[c]
        /\ st.overflow[c] \in Nat /\ A[c] \in Nat /\ ok[c] \in Nat /\ current[c] \in Nat /\ ok[c] <= current[c]
    BY <1>3, <1>8, <1>10, <1>12, <2>1
  <2>5. CASE ~avoid
    BY <1>13, <1>16, <2>1, <2>3, <2>4, <2>5
  <2>6. CASE avoid
    <3>1. sum[c] = A[c] + desired.overflow[c]
      BY <1>13, <2>1, <2>6
    <3>2. A[c] <= ok[c] \/ (st.plan[c] > ok[c] /\ (prefs[c].max >= ok[c] => A[c] <= prefs[c].max))
      BY <1>11, <1>16, <2>1 DEF Rescaled
    <3>3. CASE desired.overflow[c] = 0
      BY <1>16, <2>1, <2>3, <2>4, <3>1, <3>2, <3>3
    <3>4. CASE desired.overflow[c] # 0
      <4>1. st.overflow[c] > 0
        BY <2>4, <3>4
      <4>2. est[c] # Absent /\ st.plan[c] = est[c]
        BY <2>2, <4>1 DEF Within
      <4>3. lim[c] # Absent => st.plan[c] + st.overflow[c] <= lim[c]
        BY <2>2 DEF Within
      <4>4. ok[c] <= st.plan[c]
        BY <1>3, <1>16, <2>1, <4>2
      <4>5. st.plan[c] <= ok[c]
        <5>1. CASE ok[c] = current[c]
          BY <1>16, <2>1, <2>3, <2>4, <5>1
        <5>2. CASE lim[c] # Absent /\ ok[c] = lim[c]
          BY <2>4, <4>3, <5>2
        <5>3. CASE est[c] # Absent /\ ok[c] = est[c]
          BY <2>4, <4>2, <5>3
        <5> QED BY <1>3, <1>16, <5>1, <5>2, <5>3
      <4>6. A[c] <= ok[c]
        BY <2>4, <3>2, <4>5
      <4> QED BY <1>16, <2>1, <2>3, <2>4, <3>1, <4>4, <4>6
    <3> QED BY <3>3, <3>4
  <2> QED BY <2>5, <2>6
<1>17. ASSUME avoid, ~keep, \A c \in DOMAIN prefs : prefs[c].weight > 0
       PROVE  \/ \A c \in DOMAIN prefs : sum[c] >= ok[c] \/ (prefs[c].max # Absent /\ sum[c] >= prefs[c].max)
              \/ \A c \in DOMAIN prefs : sum[c] <= current[c]
  <2>1. ~keeps
    BY <1>17 DEF keeps, Keeps
  <2>2. \A c \in DOMAIN prefs : /\ c \in Cluster /\ sum[c] = A[c] + desired.overflow[c] /\ sum[c] >= A[c]
                                /\ A[c] \in Nat /\ ok[c] \in Nat /\ sum[c] \in Nat /\ current[c] \in Nat
                                /\ (prefs[c].max # Absent => prefs[c].max \in Nat)
    <3> TAKE c \in DOMAIN prefs
    <3>1. c \in Cluster /\ (prefs[c].max # Absent => prefs[c].max \in Nat)
      BY <1>1
    <3>2. sum[c] = A[c] + desired.overflow[c] /\ sum[c] \in Nat
      BY <1>13, <1>14, <1>17, <3>1
    <3>3. A[c] \in Nat /\ ok[c] \in Nat /\ current[c] \in Nat /\ desired.overflow[c] \in Nat
      BY <1>12, <3>1
    <3> QED BY <3>1, <3>2, <3>3
  <2>3. CASE \A c \in Cluster :
               A[c] >= ok[c] \/ (c \in DOMAIN prefs /\ prefs[c].max # Absent /\ A[c] >= prefs[c].max)
    <3>1. \A c \in DOMAIN prefs : sum[c] >= ok[c] \/ (prefs[c].max # Absent /\ sum[c] >= prefs[c].max)
      <4> TAKE c \in DOMAIN prefs
      <4>1. A[c] >= ok[c] \/ (prefs[c].max # Absent /\ A[c] >= prefs[c].max)
        BY <2>2, <2>3
      <4> QED BY <2>2, <4>1
    <3> QED BY <3>1
  <2>4. CASE \A c \in Cluster : A[c] <= ok[c] /\ (A[c] = ok[c] \/ A[c] >= st.plan[c])
    <3>1. CASE st.remaining = 0
      <4>1. \A c \in DOMAIN prefs : desired.overflow[c] = 0 /\ ok[c] <= current[c] /\ A[c] <= ok[c]
        BY <1>3, <1>10, <2>1, <2>2, <2>4, <3>1
      <4>2. \A c \in DOMAIN prefs : sum[c] <= current[c]
        BY <2>2, <4>1
      <4> QED BY <4>2
    <3>2. CASE st.open = {}
      <4>1. \A c \in DOMAIN prefs : sum[c] >= ok[c] \/ (prefs[c].max # Absent /\ sum[c] >= prefs[c].max)
        <5> TAKE c \in DOMAIN prefs
        <5>1. Full(c, st.plan[c], prefs, est, lim)
          BY <1>5, <3>2 DEF Filled
        <5>2. /\ (lim[c] # Absent => ok[c] <= lim[c]) /\ (est[c] # Absent => ok[c] <= est[c])
              /\ (A[c] = ok[c] \/ A[c] >= st.plan[c]) /\ st.plan[c] \in Nat
          BY <1>3, <1>8, <2>2, <2>4
        <5>3. st.plan[c] >= ok[c] \/ (prefs[c].max # Absent /\ st.plan[c] = prefs[c].max)
          BY <5>1, <5>2 DEF Full
        <5> QED BY <2>2, <5>2, <5>3
      <4> QED BY <4>1
    <3> QED BY <1>5, <1>17, <3>1, <3>2
  <2> QED BY <1>11, <2>3, <2>4 DEF Rescaled
<1>18. \A c \in DOMAIN prefs : ok[c] = Cut(Cut(current[c], lim[c]), est[c])
  BY <1>3
<1> HIDE DEF ok, keeps, desired, A
<1> QED BY <1>15, <1>16, <1>17, <1>18 DEF Promised

LEMMA PlanPromised ==
  ASSUME NEW prefs, Bounded(prefs), NEW count \in Nat, NEW current \in [Cluster -> Nat],
         NEW est \in Capacities, NEW lim \in Capacities, NEW avoid \in BOOLEAN, NEW keep \in BOOLEAN
  PROVE  Promised(Summed(Plan(prefs, count, current, est, lim, avoid, keep)),
                  prefs, current, est, lim, avoid, keep)
<1> DEFINE R == Plan(prefs, count, current, est, lim, avoid, keep)
           sum == Summed(R)
<1>1. R = Plan(prefs, count, current, est, lim, avoid, keep) /\ sum = [c \in Cluster |-> R.plan[c] + R.overflow[c]]
  BY DEF Summed
<1>2. Promised(sum, prefs, current, est, lim, avoid, keep)
  <2> HIDE DEF R, sum
  <2> QED BY <1>1, PlanIs, Zenon
<1> QED BY <1>2

(* A placement that has settled: either everything is placed within the estimates, or every
   cluster has as much as its bounds allow, some more where its estimate is the bound, and the
   rest has no room. *)
Placed(sum, count, max, lim, est) ==
  /\ \A c \in Cluster : (max[c] # Absent => sum[c] <= max[c]) /\ (lim[c] # Absent => sum[c] <= lim[c])
  /\ \/ /\ SumOf(sum, Cluster) = count
        /\ \A c \in Cluster : est[c] # Absent => sum[c] <= est[c]
     \/ \E held \in [Cluster -> Nat] :
          /\ SumOf(held, Cluster) < count
          /\ \A c \in Cluster :
               /\ held[c] <= sum[c] /\ (est[c] # Absent => held[c] <= est[c])
               /\ \/ max[c] # Absent /\ held[c] = max[c]
                  \/ lim[c] # Absent /\ held[c] = lim[c]
                  \/ est[c] # Absent /\ held[c] = est[c]
               /\ (held[c] < sum[c] => est[c] # Absent /\ held[c] = est[c])

(* What a run of the planner arranges when no cluster is above its maximum before it. *)
Arranged(sum, prefs, count, max, lim, est) ==
  /\ \A c \in DOMAIN prefs : max[c] # Absent => sum[c] <= max[c]
  /\ (DOMAIN prefs = Cluster => Placed(sum, count, max, lim, est))

LEMMA PlanSettles ==
  ASSUME NEW prefs, Bounded(prefs), NEW count \in Nat, NEW current \in [Cluster -> Nat],
         NEW est \in Capacities, NEW lim \in Capacities, NEW avoid \in BOOLEAN, NEW keep \in BOOLEAN,
         avoid, ~keep,
         \A c \in DOMAIN prefs : /\ prefs[c].min = 0 /\ prefs[c].weight > 0
                                 /\ (prefs[c].max # Absent => current[c] <= prefs[c].max),
         NEW max, \A c \in DOMAIN prefs : max[c] = prefs[c].max,
         NEW R, R = Plan(prefs, count, current, est, lim, avoid, keep),
         NEW sum, \A c \in Cluster : sum[c] = R.plan[c] + R.overflow[c]
  PROVE  Arranged(sum, prefs, count, max, lim, est)
<1> DEFINE ok == Fitting(prefs, current, est, lim)
           keeps == Keeps(avoid, keep)
           desired == getDesiredPlan(prefs, est, lim, count, keeps)
           A == AvoidDisruption(prefs, ok, desired.plan)
<1>1. DOMAIN prefs \in SUBSET Cluster /\ (Weighted(prefs) \/ Unweighted(prefs))
      /\ \A c \in DOMAIN prefs : prefs[c].max # Absent => prefs[c].max \in Nat
  BY DEF Bounded, Capped, Sane
<1>2. R.plan = A /\ R.overflow = desired.overflow
  BY DEF Plan, Replan
<1>3. /\ ok \in [Cluster -> Nat]
      /\ \A c \in Cluster \ DOMAIN prefs : ok[c] = 0
      /\ \A c \in Cluster :
           /\ ok[c] <= current[c]
           /\ (c \in DOMAIN prefs /\ lim[c] # Absent => ok[c] <= lim[c])
           /\ (c \in DOMAIN prefs /\ est[c] # Absent => ok[c] <= est[c])
  BY <1>1, FittingIs
<1>4. Desired(desired, prefs, est, lim, count, keeps)
  BY <1>1, DesiredPlan
<1>keeps. ~keeps
  BY DEF Keeps
<1> HIDE DEF ok, desired, keeps
<1>5. PICK st :
    /\ Filled(st, prefs, est, lim, count)
    /\ (st.remaining = 0 \/ st.open = {})
    /\ desired.plan = st.plan
    /\ desired.overflow = Trimmed(st.overflow, st.remaining)
  BY <1>4, <1>keeps DEF Desired
<1>6. st.plan \in Counts /\ st.overflow \in Counts /\ st.remaining \in Int /\ st.remaining >= 0
      /\ SumOf(st.plan, Cluster) + st.remaining = count
  BY <1>5 DEF Filled, Round
<1>7. \A c \in Cluster : st.overflow[c] >= 0
  BY <1>5 DEF Filled
<1>8. \A c \in Cluster : st.plan[c] \in Nat
  <2> TAKE c \in Cluster
  <2>1. st.plan[c] \in Int
    BY <1>6 DEF Counts
  <2>2. CASE c \in DOMAIN prefs
    BY <1>1, <1>5, <2>1, <2>2 DEF Filled
  <2>3. CASE c \notin DOMAIN prefs
    BY <1>5, <2>3 DEF Filled
  <2> QED BY <2>2, <2>3
<1>9. st.plan \in [Cluster -> Nat]
  BY <1>6, <1>8 DEF Counts
<1>10. /\ desired.overflow \in Counts
       /\ \A c \in Cluster : 0 <= desired.overflow[c] /\ desired.overflow[c] <= st.overflow[c]
       /\ (st.remaining = 0 => \A c \in Cluster : desired.overflow[c] = 0)
  BY <1>5, <1>6, <1>7, TrimmedIs
<1>11. Rescaled(A, prefs, ok, st.plan)
  BY <1>3, <1>5, <1>9, AvoidDisruptionIs
<1> HIDE DEF A
<1>12. \A c \in Cluster : /\ A[c] \in Nat /\ desired.overflow[c] \in Nat /\ st.overflow[c] \in Nat
                          /\ ok[c] \in Nat /\ current[c] \in Nat
  BY <1>3, <1>6, <1>7, <1>10, <1>11 DEF Rescaled, Counts
<1>13. \A c \in Cluster : sum[c] = A[c] + desired.overflow[c] /\ sum[c] \in Nat
  <2>1. \A c \in Cluster : sum[c] = A[c] + desired.overflow[c]
    BY <1>2
  <2>2. \A c \in Cluster : A[c] + desired.overflow[c] \in Nat
    BY <1>12
  <2> QED BY <2>1, <2>2
<1>14. \A c \in DOMAIN prefs :
         /\ c \in Cluster
         /\ (prefs[c].max # Absent => /\ prefs[c].max \in Nat /\ ok[c] <= prefs[c].max
                                      /\ st.plan[c] + st.overflow[c] <= prefs[c].max)
         /\ (lim[c] # Absent => lim[c] \in Nat /\ ok[c] <= lim[c] /\ st.plan[c] + st.overflow[c] <= lim[c])
         /\ (est[c] # Absent => est[c] \in Nat /\ ok[c] <= est[c] /\ st.plan[c] <= est[c])
         /\ (st.overflow[c] > 0 => est[c] # Absent /\ st.plan[c] = est[c])
  <2> TAKE c \in DOMAIN prefs
  <2>1. c \in Cluster /\ ok[c] \in Nat /\ current[c] \in Nat /\ ok[c] <= current[c]
        /\ (prefs[c].max # Absent => prefs[c].max \in Nat)
    BY <1>1, <1>3, <1>12
  <2>2. Within(st, c, prefs, est, lim)
    BY <1>5 DEF Filled
  <2>3. prefs[c].max # Absent => ok[c] <= prefs[c].max
    BY <2>1
  <2>4. (lim[c] # Absent => lim[c] \in Nat) /\ (est[c] # Absent => est[c] \in Nat)
    BY <2>1 DEF Capacities, Limit
  <2> QED BY <1>3, <2>1, <2>2, <2>3, <2>4 DEF Within
<1>15. Fair(prefs, st.plan)
  <2>1. \A c \in Cluster \ DOMAIN prefs : st.plan[c] = 0
    BY <1>5 DEF Filled
  <2>2. \A c \in DOMAIN prefs : prefs[c].max # Absent => st.plan[c] <= prefs[c].max
    <3> TAKE c \in DOMAIN prefs
    <3> QED BY <1>8, <1>12, <1>14
  <2> QED BY <2>1, <2>2 DEF Fair
<1>16. SumOf(A, Cluster) = SumOf(st.plan, Cluster)
       /\ \A c \in Cluster : A[c] <= ok[c] \/ A[c] <= st.plan[c]
  BY <1>11, <1>15 DEF Rescaled
<1>17. \A c \in DOMAIN prefs :
         /\ (prefs[c].max # Absent => A[c] <= prefs[c].max)
         /\ (lim[c] # Absent => A[c] <= lim[c])
         /\ (est[c] # Absent => A[c] <= est[c])
  <2> TAKE c \in DOMAIN prefs
  <2>1. c \in Cluster /\ A[c] \in Nat /\ ok[c] \in Nat /\ st.plan[c] \in Nat /\ st.overflow[c] \in Nat
        /\ (A[c] <= ok[c] \/ A[c] <= st.plan[c])
    BY <1>8, <1>12, <1>14, <1>16
  <2> QED BY <1>14, <2>1
<1>18. CASE st.remaining = 0
  <2>1. \A c \in Cluster : sum[c] = A[c]
    BY <1>10, <1>12, <1>13, <1>18
  <2>2. SumOf(sum, Cluster) = count
    <3>1. \A c \in Cluster : A[c] \in Int
      BY <1>12
    <3>2. SumOf(A, Cluster) = SumOf(sum, Cluster)
      BY <2>1, <3>1, SumSame
    <3>3. SumOf(A, Cluster) \in Int
      BY <3>1, SumPick
    <3> QED BY <1>6, <1>16, <1>18, <3>2, <3>3
  <2>3. \A c \in DOMAIN prefs :
         /\ (max[c] # Absent => sum[c] <= max[c])
         /\ (lim[c] # Absent => sum[c] <= lim[c])
         /\ (est[c] # Absent => sum[c] <= est[c])
    BY <1>14, <1>17, <2>1
  <2> QED BY <2>2, <2>3 DEF Arranged, Placed
<1>19. CASE st.open = {} /\ st.remaining # 0
  <2> DEFINE held == st.plan
  <2>1. \A c \in DOMAIN prefs : Full(c, held[c], prefs, est, lim)
    BY <1>5, <1>19 DEF Filled
  <2>2. \A c \in Cluster : A[c] <= held[c]
    <3> TAKE c \in Cluster
    <3>1. CASE c \in DOMAIN prefs
      <4>1. (prefs[c].max # Absent => A[c] <= prefs[c].max) /\ (lim[c] # Absent => A[c] <= lim[c])
            /\ (est[c] # Absent => A[c] <= est[c])
        BY <1>17, <3>1
      <4> QED BY <2>1, <3>1, <4>1 DEF Full
    <3>2. CASE c \notin DOMAIN prefs
      <4>1. ok[c] = 0 /\ held[c] = 0 /\ A[c] \in Nat
        BY <1>3, <1>5, <1>12, <3>2 DEF Filled
      <4> QED BY <1>16, <4>1
    <3> QED BY <3>1, <3>2
  <2>3. \A c \in Cluster : A[c] = held[c]
    <3>1. \A c \in Cluster : A[c] \in Int /\ held[c] \in Int
      BY <1>8, <1>12
    <3> HIDE DEF held
    <3>2. SumOf(A, Cluster) = SumOf(held, Cluster)
      BY <1>16 DEF held
    <3> QED BY <2>2, <3>1, <3>2, SumSqueeze
  <2>4. SumOf(held, Cluster) < count
    <3>1. SumOf(held, Cluster) \in Int
      BY <1>8, SumPick
    <3> QED BY <1>6, <1>19, <3>1
  <2>5. \A c \in DOMAIN prefs :
         /\ (max[c] # Absent => sum[c] <= max[c]) /\ (lim[c] # Absent => sum[c] <= lim[c])
         /\ held[c] <= sum[c] /\ (est[c] # Absent => held[c] <= est[c])
         /\ \/ max[c] # Absent /\ held[c] = max[c]
            \/ lim[c] # Absent /\ held[c] = lim[c]
            \/ est[c] # Absent /\ held[c] = est[c]
         /\ (held[c] < sum[c] => est[c] # Absent /\ held[c] = est[c])
    <3> TAKE c \in DOMAIN prefs
    <3>1. c \in Cluster /\ max[c] = prefs[c].max
      BY <1>1
    <3>2. /\ sum[c] = held[c] + desired.overflow[c] /\ desired.overflow[c] <= st.overflow[c]
          /\ sum[c] \in Nat /\ held[c] \in Nat /\ desired.overflow[c] \in Nat /\ st.overflow[c] \in Nat
      BY <1>8, <1>10, <1>12, <1>13, <2>3, <3>1
    <3>3. /\ (prefs[c].max # Absent => prefs[c].max \in Nat /\ held[c] + st.overflow[c] <= prefs[c].max)
          /\ (lim[c] # Absent => lim[c] \in Nat /\ held[c] + st.overflow[c] <= lim[c])
          /\ (est[c] # Absent => est[c] \in Nat /\ held[c] <= est[c])
          /\ (st.overflow[c] > 0 => est[c] # Absent /\ held[c] = est[c])
      BY <1>14
    <3>4. Full(c, held[c], prefs, est, lim)
      BY <2>1
    <3> HIDE DEF held
    <3>5. \/ max[c] # Absent /\ held[c] = max[c]
          \/ lim[c] # Absent /\ held[c] = lim[c]
          \/ est[c] # Absent /\ held[c] = est[c]
      BY <3>1, <3>4 DEF Full
    <3>6. (max[c] # Absent => sum[c] <= max[c]) /\ (lim[c] # Absent => sum[c] <= lim[c])
      BY <3>1, <3>2, <3>3
    <3>7. held[c] < sum[c] => st.overflow[c] > 0
      BY <3>2
    <3>8. held[c] <= sum[c]
      BY <3>2
    <3> QED BY <3>3, <3>5, <3>6, <3>7, <3>8
  <2>6. held \in [Cluster -> Nat]
    BY <1>9
  <2> HIDE DEF held
  <2> QED BY <2>4, <2>5, <2>6 DEF Arranged, Placed
<1> QED BY <1>5, <1>18, <1>19

-----------------------------------------------------------------------------
(* Packing. *)

(* What the turn of a cluster in fillPlan does. *)
FillTurn(st, c, prefs, est, lim, next, got, over) ==
  /\ next = [plan      |-> [st.plan EXCEPT ![c] = got],
             overflow  |-> [st.overflow EXCEPT ![c] = over],
             remaining |-> st.remaining - (got - st.plan[c])]
  /\ got <= st.plan[c] + st.remaining
  /\ (prefs[c].max # Absent => got <= prefs[c].max)
  /\ (got = st.plan[c] + st.remaining \/ Full(c, got, prefs, est, lim))
  /\ over >= st.overflow[c]

LEMMA FillIs ==
  ASSUME NEW prefs, Sane(prefs), NEW est \in Capacities, NEW lim \in Capacities,
         NEW st \in Draft, NEW c \in DOMAIN prefs
  PROVE  /\ \E got, over \in Int : FillTurn(st, c, prefs, est, lim, Fill(st, c, prefs, est, lim), got, over)
         /\ Fill(st, c, prefs, est, lim) \in Draft
<1> DEFINE start  == st.plan[c]
           all    == start + st.remaining
           atMax  == Cut(all, prefs[c].max)
           capped == Cut(atMax, lim[c])
           got    == Cut(capped, est[c])
           over   == IF capped - got > st.overflow[c] THEN capped - got ELSE st.overflow[c]
<1>1. /\ c \in Cluster /\ st.plan \in Counts /\ st.overflow \in Counts /\ st.remaining \in Int
      /\ start \in Int /\ st.overflow[c] \in Int /\ prefs[c].max \in Int \cup {Absent}
  BY DEF Sane, Draft, Counts
<1>2. lim[c] \in Int \cup {Absent} /\ est[c] \in Int \cup {Absent}
  BY <1>1 DEF Capacities, Limit
<1>3. Fill(st, c, prefs, est, lim) =
        [plan      |-> [st.plan EXCEPT ![c] = got],
         overflow  |-> [st.overflow EXCEPT ![c] = over],
         remaining |-> st.remaining - (got - start)]
  BY <1>1 DEF Fill, Counts
<1>4. all \in Int
  BY <1>1
<1> HIDE DEF all
<1>5. /\ atMax \in Int /\ atMax <= all
      /\ (prefs[c].max # Absent => prefs[c].max \in Int /\ atMax <= prefs[c].max)
      /\ (atMax = all \/ (prefs[c].max # Absent /\ atMax = prefs[c].max))
  BY <1>1, <1>4, CutIs
<1> HIDE DEF atMax
<1>6. /\ capped \in Int /\ capped <= atMax
      /\ (capped = atMax \/ (lim[c] # Absent /\ capped = lim[c]))
  BY <1>2, <1>5, CutIs
<1> HIDE DEF capped
<1>7. /\ got \in Int /\ got <= capped
      /\ (got = capped \/ (est[c] # Absent /\ got = est[c]))
  BY <1>2, <1>6, CutIs
<1> HIDE DEF got
<1>8. over \in Int /\ over >= st.overflow[c]
  BY <1>1, <1>6, <1>7
<1> HIDE DEF over
<1>9. got = all \/ Full(c, got, prefs, est, lim)
  BY <1>5, <1>6, <1>7 DEF Full
<1>10. got <= all /\ (prefs[c].max # Absent => got <= prefs[c].max)
  BY <1>4, <1>5, <1>6, <1>7
<1>11. FillTurn(st, c, prefs, est, lim, Fill(st, c, prefs, est, lim), got, over)
  BY <1>3, <1>8, <1>9, <1>10 DEF FillTurn, all
<1>12. /\ [st.plan EXCEPT ![c] = got] \in Counts /\ [st.overflow EXCEPT ![c] = over] \in Counts
       /\ st.remaining - (got - start) \in Int
  BY <1>1, <1>7, <1>8 DEF Counts
<1>13. Fill(st, c, prefs, est, lim) \in Draft
  BY <1>3, <1>12 DEF Draft
<1> QED BY <1>7, <1>8, <1>11, <1>13

(* The drafts after each turn of fillPlan. *)
FillTurns(after, order, prefs, est, lim, count) ==
  /\ after \in [0 .. Len(order) -> Draft]
  /\ after[0] = AssignMins(order, prefs, est, lim, count)
  /\ \A i \in 1 .. Len(order) :
       after[i] = IF order[i] \notin DOMAIN prefs THEN after[i - 1]
                  ELSE Fill(after[i - 1], order[i], prefs, est, lim)
  /\ fillPlan(order, prefs, est, lim, count) = after[Len(order)]

(* fillPlan is the result of its loop. *)
LEMMA FillLoop ==
  ASSUME NEW order \in Seq(Cluster), IsOrder(order), NEW prefs, Sane(prefs),
         NEW est \in Capacities, NEW lim \in Capacities, NEW count \in Int
  PROVE  \E after : FillTurns(after, order, prefs, est, lim, count)
<1> DEFINE n == Len(order)
           Step(x, i) == IF order[i] \notin DOMAIN prefs THEN x
                         ELSE Fill(x, order[i], prefs, est, lim)
           Is(g) == g = [i \in 0 .. n |-> IF i = 0 THEN AssignMins(order, prefs, est, lim, count)
                                          ELSE IF order[i] \notin DOMAIN prefs THEN g[i - 1]
                                          ELSE Fill(g[i - 1], order[i], prefs, est, lim)]
           turn == [i \in 1 .. n |-> [x \in Draft |-> Step(x, i)]]
           after == CHOOSE g : Is(g)
<1>0. n \in Nat
  OBVIOUS
<1>1. AssignMins(order, prefs, est, lim, count) \in Draft
  <2>1. Minned(AssignMins(order, prefs, est, lim, count), prefs, count)
    BY AssignMinsMinned
  <2> QED BY <2>1 DEF Minned
<1>2. ASSUME NEW i \in 1 .. n, NEW x \in Draft PROVE Step(x, i) \in Draft
  <2>1. CASE order[i] \notin DOMAIN prefs
    BY <2>1
  <2>2. CASE order[i] \in DOMAIN prefs
    <3>1. Fill(x, order[i], prefs, est, lim) \in Draft
      BY <2>2, FillIs
    <3> QED BY <2>2, <3>1
  <2> QED BY <2>1, <2>2
<1>3. turn \in [1 .. n -> [Draft -> Draft]]
  <2> HIDE DEF Step, n
  <2> QED BY <1>2
<1>4. PICK g \in [0 .. n -> Draft] :
         g[0] = AssignMins(order, prefs, est, lim, count) /\ \A i \in 1 .. n : g[i] = turn[i][g[i - 1]]
  <2> DEFINE base == AssignMins(order, prefs, est, lim, count)
  <2>0. base \in Draft
    BY <1>1
  <2> HIDE DEF turn, n, base
  <2>1. \E g : Computes(g, n, Draft, base, turn)
    BY <1>0, <2>0, <1>3, LoopExists
  <2> QED BY <2>1 DEF Computes, base
<1>5. \A i \in 1 .. n : i - 1 \in 0 .. n /\ g[i] = Step(g[i - 1], i)
  <2> TAKE i \in 1 .. n
  <2>1. i - 1 \in 0 .. n
    OBVIOUS
  <2>2. g[i - 1] \in Draft
    BY <2>1
  <2>3. turn[i][g[i - 1]] = Step(g[i - 1], i)
    <3> HIDE DEF Step
    <3> QED BY <2>2
  <2> QED BY <1>4, <2>1, <2>3
<1>6. Is(g)
  <2>1. ASSUME NEW i \in 0 .. n
        PROVE  g[i] = IF i = 0 THEN AssignMins(order, prefs, est, lim, count) ELSE Step(g[i - 1], i)
    <3>1. CASE i = 0
      BY <1>4, <3>1
    <3>2. CASE i # 0
      <4>1. i \in 1 .. n
        BY <3>2
      <4> HIDE DEF Step
      <4> QED BY <1>5, <3>2, <4>1
    <3> QED BY <3>1, <3>2
  <2>2. g = [i \in 0 .. n |-> g[i]]
    OBVIOUS
  <2> HIDE DEF n
  <2> QED BY <2>1, <2>2
<1>7. Is(after)
  <2> HIDE DEF Is
  <2> QED BY <1>6
<1>8. fillPlan(order, prefs, est, lim, count) = after[n]
  BY DEF fillPlan
<1> HIDE DEF after
<1>9. after[0] = AssignMins(order, prefs, est, lim, count) /\ \A i \in 1 .. n : after[i] = Step(after[i - 1], i)
  <2>1. \A i \in 0 .. n : after[i] = IF i = 0 THEN AssignMins(order, prefs, est, lim, count) ELSE Step(after[i - 1], i)
    BY <1>7
  <2>2. 0 \in 0 .. n /\ \A i \in 1 .. n : i \in 0 .. n /\ i # 0
    OBVIOUS
  <2> HIDE DEF n, Step
  <2> QED BY <2>1, <2>2
<1>10. \A i \in 0 .. n : after[i] \in Draft
  <2> DEFINE P == {i \in 0 .. n : after[i] \in Draft}
  <2>1. 0 \in P
    BY <1>0, <1>1, <1>9
  <2>2. \A i \in 1 .. n : i - 1 \in P => i \in P
    <3> SUFFICES ASSUME NEW i \in 1 .. n, i - 1 \in P PROVE i \in P
      OBVIOUS
    <3>1. i \in 0 .. n
      OBVIOUS
    <3> HIDE DEF Step, n
    <3>2. Step(after[i - 1], i) \in Draft
      BY <1>2
    <3> QED BY <1>9, <3>1, <3>2
  <2> HIDE DEF P, n
  <2>3. \A i \in 0 .. n : i \in P
    BY <1>0, <2>1, <2>2, LoopInduction
  <2> QED BY <2>3 DEF P
<1>11. after = [i \in 0 .. n |-> after[i]]
  BY <1>7
<1>12. after \in [0 .. n -> Draft]
  BY <1>10, <1>11
<1> QED BY <1>8, <1>9, <1>12 DEF FillTurns

(* A draft of fillPlan: a cluster without a minimum stays within its maximum; and when there
   is something to place, nothing is lost and nothing is negative but for a maximum below
   zero. *)
Packed(st, prefs, count) ==
  /\ st \in Draft
  /\ \A c \in DOMAIN prefs :
       prefs[c].min = 0 /\ prefs[c].max # Absent /\ prefs[c].max >= 0 => st.plan[c] <= prefs[c].max
  /\ \A c \in Cluster \ DOMAIN prefs : st.plan[c] = 0
  /\ (count >= 0 =>
       /\ st.remaining >= 0
       /\ SumOf(st.plan, Cluster) + st.remaining = count
       /\ \A c \in Cluster : st.overflow[c] >= 0
       /\ \A c \in DOMAIN prefs :
            st.plan[c] >= 0 \/ (prefs[c].max # Absent /\ st.plan[c] >= prefs[c].max))

LEMMA MinnedPacked ==
  ASSUME NEW prefs, Sane(prefs), NEW count \in Int, NEW st, Minned(st, prefs, count)
  PROVE  Packed(st, prefs, count)
<1>1. /\ DOMAIN prefs \in SUBSET Cluster
      /\ \A c \in DOMAIN prefs : prefs[c].max # Absent => prefs[c].max \in Int
  BY DEF Sane
<1>2. \A c \in Cluster : st.plan[c] \in Int
  BY DEF Minned, Draft, Counts
<1>3. \A c \in DOMAIN prefs :
        prefs[c].min = 0 /\ prefs[c].max # Absent /\ prefs[c].max >= 0 => st.plan[c] <= prefs[c].max
  <2> SUFFICES ASSUME NEW c \in DOMAIN prefs, prefs[c].min = 0, prefs[c].max # Absent, prefs[c].max >= 0
               PROVE  st.plan[c] <= prefs[c].max
    OBVIOUS
  <2>1. st.plan[c] <= 0
    BY DEF Minned
  <2> QED BY <1>1, <1>2, <2>1
<1>4. count >= 0 =>
       /\ st.remaining >= 0
       /\ SumOf(st.plan, Cluster) + st.remaining = count
       /\ \A c \in Cluster : st.overflow[c] >= 0 /\ st.plan[c] >= 0
  BY DEF Minned
<1>5. st \in Draft /\ \A c \in Cluster \ DOMAIN prefs : st.plan[c] = 0
  BY DEF Minned
<1> QED BY <1>1, <1>3, <1>4, <1>5 DEF Packed

LEMMA FillPacked ==
  ASSUME NEW prefs, Sane(prefs), NEW est \in Capacities, NEW lim \in Capacities, NEW count \in Int,
         NEW st, Packed(st, prefs, count), NEW c \in DOMAIN prefs,
         NEW nx, nx = Fill(st, c, prefs, est, lim)
  PROVE  Packed(nx, prefs, count)
<1>1. st \in Draft
  BY DEF Packed
<1>2. PICK got, over \in Int : FillTurn(st, c, prefs, est, lim, nx, got, over)
  BY <1>1, FillIs
<1>3. nx \in Draft
  BY <1>1, FillIs
<1>4. /\ DOMAIN prefs \in SUBSET Cluster /\ c \in Cluster
      /\ \A d \in DOMAIN prefs : prefs[d].max # Absent => prefs[d].max \in Int
  BY DEF Sane
<1>5. st.plan \in Counts /\ st.overflow \in Counts /\ st.remaining \in Int /\ st.plan[c] \in Int
      /\ st.overflow[c] \in Int
  BY <1>1, <1>4 DEF Draft, Counts
<1>6. /\ nx.plan = [st.plan EXCEPT ![c] = got] /\ nx.overflow = [st.overflow EXCEPT ![c] = over]
      /\ nx.remaining = st.remaining - (got - st.plan[c])
      /\ got <= st.plan[c] + st.remaining /\ over >= st.overflow[c]
      /\ (prefs[c].max # Absent => got <= prefs[c].max)
      /\ (got = st.plan[c] + st.remaining \/ Full(c, got, prefs, est, lim))
  BY <1>2 DEF FillTurn
<1>7. \A d \in Cluster : /\ nx.plan[d] = IF d = c THEN got ELSE st.plan[d]
                         /\ nx.overflow[d] = IF d = c THEN over ELSE st.overflow[d]
  BY <1>4, <1>5, <1>6 DEF Counts
<1>8. \A d \in DOMAIN prefs :
        prefs[d].min = 0 /\ prefs[d].max # Absent /\ prefs[d].max >= 0 => nx.plan[d] <= prefs[d].max
  BY <1>4, <1>6, <1>7 DEF Packed
<1>9. \A d \in Cluster \ DOMAIN prefs : nx.plan[d] = 0
  BY <1>7 DEF Packed
<1>10. ASSUME count >= 0
       PROVE  /\ nx.remaining >= 0
              /\ SumOf(nx.plan, Cluster) + nx.remaining = count
              /\ \A d \in Cluster : nx.overflow[d] >= 0
              /\ \A d \in DOMAIN prefs :
                   nx.plan[d] >= 0 \/ (prefs[d].max # Absent /\ nx.plan[d] >= prefs[d].max)
  <2>1. /\ st.remaining >= 0 /\ SumOf(st.plan, Cluster) + st.remaining = count
        /\ \A d \in Cluster : st.overflow[d] >= 0
        /\ \A d \in DOMAIN prefs :
             st.plan[d] >= 0 \/ (prefs[d].max # Absent /\ st.plan[d] >= prefs[d].max)
    BY <1>10 DEF Packed
  <2>2. nx.remaining >= 0
    BY <1>5, <1>6, <2>1
  <2>3. SumOf(nx.plan, Cluster) = SumOf(st.plan, Cluster) - st.plan[c] + got
    BY <1>4, <1>5, <1>6, SumExcept DEF Counts
  <2>4. SumOf(st.plan, Cluster) \in Int
    BY <1>5, SumPick DEF Counts
  <2>5. SumOf(nx.plan, Cluster) + nx.remaining = count
    BY <1>5, <1>6, <2>1, <2>3, <2>4
  <2>6. \A d \in Cluster : nx.overflow[d] >= 0
    <3>1. over >= 0
      BY <1>4, <1>5, <1>6, <2>1
    <3> QED BY <1>7, <2>1, <3>1
  <2>7. got >= 0 \/ (prefs[c].max # Absent /\ got >= prefs[c].max)
    <3>1. (lim[c] # Absent => lim[c] >= 0) /\ (est[c] # Absent => est[c] >= 0)
      BY <1>4 DEF Capacities, Limit
    <3>2. CASE got = st.plan[c] + st.remaining
      <4>1. got >= st.plan[c]
        BY <1>5, <2>1, <3>2
      <4>2. prefs[c].max # Absent => prefs[c].max \in Int
        BY <1>4
      <4> QED BY <1>5, <2>1, <4>1, <4>2
    <3>3. CASE Full(c, got, prefs, est, lim)
      BY <1>4, <3>1, <3>3 DEF Full
    <3> QED BY <1>6, <3>2, <3>3
  <2>8. \A d \in DOMAIN prefs : nx.plan[d] >= 0 \/ (prefs[d].max # Absent /\ nx.plan[d] >= prefs[d].max)
    BY <1>4, <1>7, <2>1, <2>7
  <2> QED BY <2>2, <2>5, <2>6, <2>8
<1> QED BY <1>3, <1>8, <1>9, <1>10 DEF Packed

LEMMA FillPlanPacked ==
  ASSUME NEW order \in Seq(Cluster), IsOrder(order), NEW prefs, Sane(prefs),
         NEW est \in Capacities, NEW lim \in Capacities, NEW count \in Int
  PROVE  Packed(fillPlan(order, prefs, est, lim, count), prefs, count)
<1> DEFINE n == Len(order)
<1>1. PICK after : FillTurns(after, order, prefs, est, lim, count)
  <2>1. \E after : FillTurns(after, order, prefs, est, lim, count)
    BY FillLoop
  <2> QED BY <2>1
<1>2. n \in Nat /\ 0 \in 0 .. n /\ n \in 0 .. n
  OBVIOUS
<1> DEFINE P == {i \in 0 .. n : Packed(after[i], prefs, count)}
<1>3. 0 \in P
  <2>1. Minned(after[0], prefs, count)
    BY <1>1, AssignMinsMinned DEF FillTurns
  <2> QED BY <1>2, <2>1, MinnedPacked
<1>4. ASSUME NEW i \in 1 .. n, i - 1 \in P PROVE i \in P
  <2>1. i \in 0 .. n /\ Packed(after[i - 1], prefs, count)
    BY <1>4
  <2>2. after[i] = IF order[i] \notin DOMAIN prefs THEN after[i - 1]
                   ELSE Fill(after[i - 1], order[i], prefs, est, lim)
    BY <1>1 DEF FillTurns
  <2>3. CASE order[i] \notin DOMAIN prefs
    BY <2>1, <2>2, <2>3
  <2>4. CASE order[i] \in DOMAIN prefs
    <3>1. Packed(after[i], prefs, count)
      BY <2>1, <2>2, <2>4, FillPacked
    <3> QED BY <2>1, <3>1
  <2> QED BY <2>3, <2>4
<1>5. n \in P
  <2> HIDE DEF P, n
  <2> QED BY <1>2, <1>3, <1>4, LoopInduction
<1> QED BY <1>1, <1>5 DEF FillTurns

LEMMA BackwardsIs ==
  ASSUME NEW order \in Seq(Cluster), IsOrder(order)
  PROVE  Backwards(order) \in Seq(Cluster) /\ IsOrder(Backwards(order))
<1> DEFINE n == Len(order)
           b == Backwards(order)
<1>1. n \in Nat
  OBVIOUS
<1>2. \A i \in 1 .. n : n + 1 - i \in 1 .. n
  BY <1>1
<1>3. b = [i \in 1 .. n |-> order[n + 1 - i]]
  BY DEF Backwards
<1>4. \A i \in 1 .. n : b[i] = order[n + 1 - i] /\ b[i] \in Cluster
  BY <1>2, <1>3
<1>5. b \in [1 .. n -> Cluster]
  BY <1>3, <1>4
<1> HIDE DEF b
<1>6. b \in Seq(Cluster)
  BY <1>1, <1>5
<1>7. ASSUME NEW i \in 1 .. n, NEW j \in 1 .. n, b[i] = b[j] PROVE i = j
  <2> DEFINE k == n + 1 - i
             l == n + 1 - j
  <2>1. k \in DOMAIN order /\ l \in DOMAIN order /\ order[k] = order[l]
    BY <1>2, <1>4, <1>7
  <2>2. k \in Int /\ l \in Int
    BY <1>1
  <2>3. k = l
    <3> HIDE DEF k, l
    <3> QED BY <2>1 DEF IsOrder
  <2> QED BY <1>1, <2>3
<1>8. IsOrder(b)
  BY <1>5, <1>7 DEF IsOrder
<1> QED BY <1>6, <1>8 DEF b

LEMMA FillUpIs ==
  ASSUME NEW order \in Seq(Cluster), IsOrder(order), NEW prefs, Capped(prefs),
         NEW ok \in [Cluster -> Nat], NEW desired \in [Cluster -> Nat],
         NEW lim \in Capacities, NEW count \in Nat
  PROVE  fillUp(order, prefs, ok, desired, lim, count) \in [Cluster -> Nat]
<1> DEFINE growing == {c \in DOMAIN prefs : desired[c] > ok[c]}
           p == [c \in growing |->
                   [min |-> prefs[c].min,
                    max |-> IF prefs[c].max = Absent THEN Absent ELSE prefs[c].max - ok[c]]]
           st == fillPlan(order, p, NoLimit, lim, count)
           extra == st.plan
<1>1. growing \in SUBSET Cluster /\ \A c \in growing :
        /\ prefs[c].min \in Nat /\ prefs[c].max \in Int \cup {Absent}
        /\ (prefs[c].max # Absent => prefs[c].max >= 0)
  BY DEF Capped, Sane
<1>2. \A c \in Cluster : ok[c] \in Nat
  OBVIOUS
<1>3. /\ DOMAIN p = growing
      /\ \A c \in growing :
           /\ p[c].min = prefs[c].min
           /\ p[c].max = IF prefs[c].max = Absent THEN Absent ELSE prefs[c].max - ok[c]
  OBVIOUS
<1>4. fillUp(order, prefs, ok, desired, lim, count) = [c \in Cluster |-> ok[c] + extra[c]]
  BY DEF fillUp
<1> HIDE DEF p, growing
<1>5. \A c \in growing :
        /\ p[c].min \in Nat /\ p[c].max \in Int \cup {Absent}
        /\ (p[c].max # Absent => prefs[c].max # Absent /\ p[c].max = prefs[c].max - ok[c])
  <2> TAKE c \in growing
  <2>1. ok[c] \in Int /\ c \in Cluster
    BY <1>1, <1>2
  <2>2. CASE prefs[c].max = Absent
    BY <1>1, <1>3, <2>2
  <2>3. CASE prefs[c].max # Absent
    <3>1. prefs[c].max - ok[c] \in Int
      BY <1>1, <2>1, <2>3
    <3> QED BY <1>1, <1>3, <2>3, <3>1
  <2> QED BY <2>2, <2>3
<1>6. Sane(p)
  BY <1>1, <1>3, <1>5 DEF Sane
<1>7. NoLimit \in Capacities
  BY DEF NoLimit, Capacities, Limit
<1>8. Packed(st, p, count)
  BY <1>6, <1>7, FillPlanPacked
<1> HIDE DEF st
<1>9. extra \in Counts /\ \A c \in Cluster \ growing : extra[c] = 0
  BY <1>3, <1>8 DEF Packed, Draft
<1>10. count >= 0
  OBVIOUS
<1>11. \A c \in growing : extra[c] >= 0 \/ (p[c].max # Absent /\ extra[c] >= p[c].max)
  BY <1>3, <1>8, <1>10 DEF Packed
<1>12. \A c \in Cluster : ok[c] + extra[c] \in Nat
  <2> TAKE c \in Cluster
  <2>1. extra[c] \in Int /\ ok[c] \in Nat
    BY <1>2, <1>9 DEF Counts
  <2>2. CASE c \in growing
    <3>1. extra[c] >= 0 \/ (p[c].max # Absent /\ extra[c] >= p[c].max)
      BY <1>11, <2>2
    <3>2. p[c].max # Absent => p[c].max = prefs[c].max - ok[c] /\ prefs[c].max \in Int /\ prefs[c].max >= 0
      BY <1>1, <1>5, <2>2
    <3> HIDE DEF extra
    <3>3. ASSUME p[c].max # Absent, extra[c] >= p[c].max PROVE ok[c] + extra[c] \in Nat
      <4>1. extra[c] >= prefs[c].max - ok[c] /\ prefs[c].max \in Int /\ prefs[c].max >= 0
        BY <3>2, <3>3
      <4> QED BY <2>1, <4>1
    <3> QED BY <2>1, <3>1, <3>3
  <2>3. CASE c \notin growing
    BY <1>9, <2>1, <2>3
  <2> QED BY <2>2, <2>3
<1> HIDE DEF extra
<1> QED BY <1>4, <1>12

(* Draining never takes more than there is, though the count it is called with may be
   negative. *)
LEMMA DrainDownIs ==
  ASSUME NEW order \in Seq(Cluster), IsOrder(order), NEW prefs, Capped(prefs),
         NEW ok \in [Cluster -> Nat], NEW desired \in [Cluster -> Nat], NEW count \in Int
  PROVE  drainDown(order, prefs, ok, desired, count) \in [Cluster -> Nat]
<1> DEFINE shrinking == {c \in DOMAIN prefs : desired[c] < ok[c]}
           p == [c \in shrinking |-> [min |-> 0, max |-> ok[c]]]
           st == fillPlan(Backwards(order), p, NoLimit, NoLimit, count)
           less == st.plan
<1>1. shrinking \in SUBSET Cluster
  BY DEF Capped, Sane
<1>2. \A c \in Cluster : ok[c] \in Nat
  OBVIOUS
<1>3. DOMAIN p = shrinking /\ \A c \in shrinking : p[c].min = 0 /\ p[c].max = ok[c]
  OBVIOUS
<1>4. drainDown(order, prefs, ok, desired, count) = [c \in Cluster |-> ok[c] - less[c]]
  BY DEF drainDown
<1> HIDE DEF p, shrinking
<1>5. Sane(p)
  BY <1>1, <1>2, <1>3 DEF Sane
<1>6. NoLimit \in Capacities
  BY DEF NoLimit, Capacities, Limit
<1>7. Packed(st, p, count)
  BY <1>5, <1>6, BackwardsIs, FillPlanPacked
<1> HIDE DEF st
<1>8. less \in Counts /\ \A c \in Cluster \ shrinking : less[c] = 0
  BY <1>3, <1>7 DEF Packed, Draft
<1>9. \A c \in shrinking : less[c] <= ok[c]
  <2> TAKE c \in shrinking
  <2>1. c \in DOMAIN p /\ p[c].min = 0 /\ p[c].max = ok[c] /\ ok[c] \in Nat /\ ok[c] # Absent
    BY <1>1, <1>2, <1>3, PlannerAssumption
  <2> QED BY <1>7, <2>1 DEF Packed
<1>10. \A c \in Cluster : ok[c] - less[c] \in Nat
  <2> TAKE c \in Cluster
  <2>1. less[c] \in Int /\ ok[c] \in Nat
    BY <1>2, <1>8 DEF Counts
  <2>2. less[c] <= ok[c]
    <3>1. CASE c \in shrinking
      BY <1>9, <3>1
    <3>2. CASE c \notin shrinking
      BY <1>8, <2>1, <3>2
    <3> QED BY <3>1, <3>2
  <2> HIDE DEF less
  <2> QED BY <2>1, <2>2
<1> HIDE DEF less
<1> QED BY <1>4, <1>10

(* No count of the packing planner is negative. *)
LEMMA BinPackPlanIs ==
  ASSUME NEW order \in Seq(Cluster), IsOrder(order), NEW prefs, Capped(prefs), NEW count \in Nat,
         NEW placed, NEW current \in [Cluster -> Nat],
         NEW est \in Capacities, NEW lim \in Capacities, NEW avoid \in BOOLEAN, NEW keep \in BOOLEAN,
         NEW scheduled \in Capacities,
         NEW R, R = BinPackPlan(order, prefs, count, placed, current, est, lim, avoid, keep, scheduled)
  PROVE  \A c \in Cluster : R.plan[c] + R.overflow[c] \in Nat
<1> DEFINE keeps   == Keeps(avoid, keep)
           desired == fillPlan(order, prefs, est, lim, count)
           ok      == Fitting(prefs, current, est, lim)
           missing == count - SumOf(Running(prefs, lim, scheduled), Cluster)
           have    == SumOf(ok, Cluster)
           want    == SumOf(desired.plan, Cluster)
           A       == Repack(order, prefs, ok, desired.plan, lim, count, have, want)
<1>0. \A c \in Cluster : Zero[c] = 0 /\ current[c] \in Nat
  BY DEF Zero
<1>1. Sane(prefs) /\ DOMAIN prefs \in SUBSET Cluster
      /\ \A c \in DOMAIN prefs : prefs[c].max # Absent => prefs[c].max \in Nat
  BY DEF Capped, Sane
<1>2. Packed(desired, prefs, count)
  BY <1>1, FillPlanPacked
<1>3. ok \in [Cluster -> Nat]
  BY <1>1, FittingIs
<1>4. CASE ~shouldPlan(prefs, placed, current, est, lim, scheduled)
  <2>1. R.plan = current /\ R.overflow = Zero
    BY <1>4 DEF BinPackPlan
  <2> QED BY <1>0, <2>1
<1>5. CASE shouldPlan(prefs, placed, current, est, lim, scheduled) /\ ~keeps /\ missing = 0
  <2> DEFINE running == [c \in Cluster |-> IF scheduled[c] # Absent THEN scheduled[c] ELSE 0]
  <2>1. R.plan = running /\ R.overflow = Zero
    BY <1>5 DEF BinPackPlan
  <2>2. \A c \in Cluster : running[c] \in Nat
    BY DEF Capacities, Limit
  <2> HIDE DEF running
  <2> QED BY <1>0, <2>1, <2>2
<1> HIDE DEF desired, ok
<1>6. count >= 0
  OBVIOUS
<1>7. /\ desired.plan \in Counts /\ desired.overflow \in Counts /\ desired.remaining \in Int
      /\ desired.remaining >= 0 /\ want + desired.remaining = count
      /\ \A c \in Cluster : desired.overflow[c] >= 0 /\ desired.overflow[c] \in Int
  BY <1>2, <1>6 DEF Packed, Draft, Counts
<1>8. \A c \in Cluster : desired.plan[c] \in Nat
  <2> TAKE c \in Cluster
  <2>1. desired.plan[c] \in Int
    BY <1>7 DEF Counts
  <2>2. CASE c \in DOMAIN prefs
    BY <1>1, <1>2, <1>6, <2>1, <2>2 DEF Packed
  <2>3. CASE c \notin DOMAIN prefs
    BY <1>2, <2>3 DEF Packed
  <2> QED BY <2>2, <2>3
<1>9. desired.plan \in [Cluster -> Nat]
  BY <1>7, <1>8 DEF Counts
<1>10. CASE /\ shouldPlan(prefs, placed, current, est, lim, scheduled) /\ ~(~keeps /\ missing = 0)
            /\ ~avoid
  <2>1. R.plan = desired.plan /\ R.overflow = desired.overflow
    BY <1>10 DEF BinPackPlan, desired
  <2> QED BY <1>7, <1>8, <2>1
<1>11. CASE /\ shouldPlan(prefs, placed, current, est, lim, scheduled) /\ ~(~keeps /\ missing = 0)
            /\ avoid
  <2>1. /\ R.plan = A
        /\ R.overflow = IF keeps THEN desired.overflow ELSE Trimmed(desired.overflow, missing)
    BY <1>11 DEF BinPackPlan, desired, ok
  <2>2. have \in Int /\ want \in Int
    <3>1. \A c \in Cluster : ok[c] \in Int /\ desired.plan[c] \in Int
      BY <1>3, <1>8
    <3> QED BY <3>1, SumPick
  <2> HIDE DEF have, want
  <2>3. A \in [Cluster -> Nat]
    <3>1. CASE have = want
      BY <1>3, <3>1 DEF Repack
    <3>2. CASE have > want
      <4> DEFINE k == have - count
      <4>1. A = drainDown(order, prefs, ok, desired.plan, k) /\ k \in Int
        BY <2>2, <3>2 DEF Repack
      <4> HIDE DEF k, A
      <4>2. drainDown(order, prefs, ok, desired.plan, k) \in [Cluster -> Nat]
        BY <1>3, <1>9, <4>1, DrainDownIs
      <4> QED BY <4>1, <4>2
    <3>3. CASE have < want
      <4> DEFINE k == count - have
      <4>1. A = fillUp(order, prefs, ok, desired.plan, lim, k) /\ k \in Nat
        BY <1>7, <2>2, <3>3 DEF Repack
      <4> HIDE DEF k, A
      <4>2. fillUp(order, prefs, ok, desired.plan, lim, k) \in [Cluster -> Nat]
        BY <1>3, <1>9, <4>1, FillUpIs
      <4> QED BY <4>1, <4>2
    <3> QED BY <2>2, <3>1, <3>2, <3>3
  <2>4. missing \in Int
    <3> DEFINE run == Running(prefs, lim, scheduled)
    <3>1. \A c \in Cluster : run[c] \in Int
      <4> TAKE c \in Cluster
      <4>1. run[c] = IF c \in DOMAIN prefs /\ scheduled[c] # Absent THEN Cut(scheduled[c], lim[c]) ELSE 0
        BY DEF Running
      <4>2. (scheduled[c] # Absent => scheduled[c] \in Int) /\ lim[c] \in Int \cup {Absent}
        BY DEF Capacities, Limit
      <4>3. CASE c \in DOMAIN prefs /\ scheduled[c] # Absent
        BY <4>1, <4>2, <4>3, CutIs
      <4> QED BY <4>1, <4>3
    <3> HIDE DEF run
    <3>2. SumOf(run, Cluster) \in Int
      BY <3>1, SumPick
    <3> QED BY <3>2 DEF run
  <2> HIDE DEF missing, A
  <2>5. \A c \in Cluster : R.overflow[c] \in Nat
    <3>1. CASE keeps
      BY <1>7, <2>1, <3>1
    <3>2. CASE ~keeps
      <4>1. /\ Trimmed(desired.overflow, missing) \in Counts
            /\ \A c \in Cluster : 0 <= Trimmed(desired.overflow, missing)[c]
        BY <1>7, <2>4, TrimmedIs
      <4>2. R.overflow = Trimmed(desired.overflow, missing)
        BY <2>1, <3>2
      <4> QED BY <4>1, <4>2 DEF Counts
    <3> QED BY <3>1, <3>2
  <2> QED BY <2>1, <2>3, <2>5
<1> QED BY <1>4, <1>5, <1>10, <1>11

-----------------------------------------------------------------------------
(* Dynamic weights. *)

Resource == [allocatable : Nat, available : Nat]

LEMMA RoundedIs ==
  ASSUME NEW a \in Nat, NEW b \in Nat, b > 0
  PROVE  Rounded(a, b) \in Nat /\ 2 * b * Rounded(a, b) <= 2 * a + b
<1> DEFINE x == 2 * a + b
           y == 2 * b
           q == x \div y
<1>1. x \in Nat /\ y \in Nat /\ y > 0
  OBVIOUS
<1>2. q \in Int /\ y * q <= x /\ q >= 0
  <2> HIDE DEF x, y
  <2>1. q \in Int /\ y * q <= x /\ x < y * q + y
    BY <1>1
  <2>2. q >= 0
    <3> SUFFICES ASSUME q <= -1 PROVE FALSE
      BY <2>1
    <3>1. y * q <= -y
      BY <1>1, <2>1
    <3> HIDE DEF q
    <3>2. y * q \in Int
      BY <1>1, <2>1
    <3> QED BY <1>1, <2>1, <3>1, <3>2
  <2> QED BY <2>1, <2>2
<1>3. Rounded(a, b) = q
  BY DEF Rounded
<1> QED BY <1>2, <1>3

LEMMA CalcWeightLimitIs ==
  ASSUME NEW C \in SUBSET Cluster, status \in [Cluster -> Resource]
  PROVE  \A c \in C : CalcWeightLimit(C)[c] \in Nat
<1> DEFINE f == [c \in C |-> status[c].allocatable]
           all == SumOf(f, C)
<1>1. \A c \in C : f[c] = status[c].allocatable /\ f[c] \in Nat
  BY DEF Resource
<1> HIDE DEF f
<1>2. all \in Nat
  BY <1>1, SumNat
<1> HIDE DEF all
<1> TAKE c \in C
<1>3. CalcWeightLimit(C)[c] = IF all = 0 THEN Rounded(SumWeight, Cardinality(C))
                              ELSE Rounded(status[c].allocatable * SumWeight * 14, all * 10)
  BY DEF CalcWeightLimit, f, all
<1>4. CASE all = 0
  <2>1. Cardinality(C) \in Nat /\ Cardinality(C) > 0
    BY PlannerAssumption, FS_Subset, FS_CardinalityType, FS_EmptySet
  <2>2. SumWeight \in Nat
    BY DEF SumWeight
  <2>3. Rounded(SumWeight, Cardinality(C)) \in Nat
    BY <2>1, <2>2, RoundedIs
  <2> QED BY <1>3, <1>4, <2>3
<1>5. CASE all # 0
  <2> DEFINE x == status[c].allocatable * SumWeight * 14
             y == all * 10
  <2>1. x \in Nat /\ y \in Nat /\ y > 0
    BY <1>1, <1>2, <1>5 DEF SumWeight
  <2> HIDE DEF x, y
  <2>2. Rounded(x, y) \in Nat
    BY <2>1, RoundedIs
  <2> QED BY <1>3, <1>5, <2>2 DEF x, y
<1> QED BY <1>4, <1>5

(* A finite set of clusters has a heaviest one. *)
LEMMA Heaviest ==
  ASSUME NEW C \in SUBSET Cluster, C # {}, NEW f, \A c \in C : f[c] \in Nat
  PROVE  \E m \in C : \A d \in C : f[d] <= f[m]
<1> DEFINE total0 == SumOf(f, C)
           Rest == {total0 - f[c] : c \in C}
<1>1. total0 \in Nat /\ \A c \in C : f[c] <= total0
  BY SumNat
<1> HIDE DEF total0
<1>2. Rest \in SUBSET Nat /\ Rest # {}
  BY <1>1
<1>3. PICK k \in Rest : \A l \in Rest : k <= l
  BY <1>2, LeastNumber
<1>4. PICK m \in C : k = total0 - f[m]
  BY <1>3
<1>5. \A d \in C : f[d] <= f[m]
  <2> TAKE d \in C
  <2>1. total0 - f[d] \in Rest
    OBVIOUS
  <2>2. total0 - f[m] <= total0 - f[d]
    BY <1>3, <1>4, <2>1
  <2> QED BY <1>1, <2>2
<1> QED BY <1>5

(* The rounding errors of few clusters do not exceed the greatest weight. *)
LEMMA FewErrors ==
  ASSUME NEW n \in Nat, n <= 46, NEW s \in Nat, NEW m \in Nat, s <= m * n, 2 * s <= 2000 + n
  PROVE  s <= m + 1000
<1> SUFFICES ASSUME s >= m + 1001 PROVE FALSE
  OBVIOUS
<1>1. m <= 22
  OBVIOUS
<1>2. m * n <= m * 46
  OBVIOUS
<1>3. m * n \in Int
  OBVIOUS
<1> QED BY <1>1, <1>2, <1>3

(* In a federation of at most 46 clusters the dynamic weights are all naturals, or all
   negative when no cluster keeps a weight. *)
LEMMA AvailableToPercentageIs ==
  ASSUME NEW C \in SUBSET Cluster, NEW tie, status \in [Cluster -> Resource], Cardinality(Cluster) <= 46,
         NEW w, w = AvailableToPercentage(C, tie)
  PROVE  \/ \A c \in C : w[c] \in Nat
         \/ \A c \in C : w[c] \in Int /\ w[c] < 0
<1> DEFINE available == [c \in C |-> status[c].available]
           all == SumOf(available, C)
           limit == CalcWeightLimit(C)
           tmp == [c \in C |-> Least2(Rounded(available[c] * SumWeight, all), limit[c])]
           sumTmp == SumOf(tmp, C)
           scaled == [c \in C |-> Rounded(tmp[c] * SumWeight, sumTmp)]
           heaviest == {c \in C : \A d \in C : scaled[d] <= scaled[c]}
           maxCluster == IF tie \in heaviest THEN tie ELSE CHOOSE c \in heaviest : TRUE
           s == SumOf(scaled, C)
<1>1. w = IF all = 0 THEN [c \in C |-> Rounded(SumWeight, Cardinality(C))]
          ELSE IF sumTmp = 0 THEN [c \in C |-> -SumWeight]
          ELSE [scaled EXCEPT ![maxCluster] = @ + SumWeight - s]
  BY DEF AvailableToPercentage
<1>2. \A c \in C : available[c] \in Nat
  BY DEF Resource
<1>3. \A c \in C : limit[c] \in Nat
  BY CalcWeightLimitIs
<1>4. IsFiniteSet(C) /\ Cardinality(C) \in Nat /\ Cardinality(C) <= 46 /\ (C # {} => Cardinality(C) > 0)
  BY PlannerAssumption, FS_Subset, FS_CardinalityType, FS_EmptySet
<1> HIDE DEF available, limit
<1>5. all \in Nat
  BY <1>2, SumNat
<1> HIDE DEF all
<1>6. CASE all = 0
  <2>1. ASSUME NEW c \in C PROVE w[c] \in Nat
    <3>1. w[c] = Rounded(SumWeight, Cardinality(C))
      BY <1>1, <1>6
    <3>2. SumWeight \in Nat
      BY DEF SumWeight
    <3>3. Cardinality(C) \in Nat /\ Cardinality(C) > 0
      BY <1>4
    <3> QED BY <3>1, <3>2, <3>3, RoundedIs
  <2> QED BY <2>1
<1>7. CASE all # 0
  <2>1. \A c \in C : tmp[c] \in Nat
    <3> TAKE c \in C
    <3> DEFINE x == available[c] * SumWeight
               r == Rounded(x, all)
    <3>1. x \in Nat /\ all > 0
      BY <1>2, <1>5, <1>7 DEF SumWeight
    <3> HIDE DEF x
    <3>2. r \in Nat
      BY <1>5, <3>1, RoundedIs
    <3>3. tmp[c] = Least2(r, limit[c])
      BY DEF x
    <3> HIDE DEF r, tmp
    <3> QED BY <1>3, <3>2, <3>3 DEF Least2
  <2> HIDE DEF tmp
  <2>2. sumTmp \in Nat
    BY <2>1, SumNat
  <2> HIDE DEF sumTmp
  <2>3. CASE sumTmp = 0
    <3>1. \A c \in C : w[c] = -1000
      BY <1>1, <1>7, <2>3 DEF SumWeight
    <3> QED BY <3>1
  <2>4. CASE sumTmp # 0
    <3>1. \A c \in C : scaled[c] \in Nat /\ (2 * sumTmp) * scaled[c] <= 2000 * tmp[c] + sumTmp
      <4> TAKE c \in C
      <4> DEFINE x == tmp[c] * SumWeight
      <4>1. x \in Nat /\ sumTmp > 0 /\ 2 * x = 2000 * tmp[c] /\ tmp[c] \in Nat
        BY <2>1, <2>2, <2>4 DEF SumWeight
      <4>2. scaled[c] = Rounded(x, sumTmp)
        OBVIOUS
      <4> HIDE DEF x, scaled
      <4>3. Rounded(x, sumTmp) \in Nat /\ 2 * sumTmp * Rounded(x, sumTmp) <= 2 * x + sumTmp
        <5>1. x \in Nat /\ sumTmp \in Nat /\ sumTmp > 0
          BY <2>2, <4>1
        <5> QED BY <5>1, RoundedIs, Zenon
      <4>4. scaled[c] \in Nat /\ 2 * sumTmp * scaled[c] <= 2 * x + sumTmp
        BY <4>2, <4>3, Zenon
      <4> QED BY <4>1, <4>4
    <3>2. scaled = [c \in C |-> scaled[c]]
      OBVIOUS
    <3> HIDE DEF scaled
    <3>3. s \in Nat
      BY <3>1, SumNat
    <3>4. C # {}
      <4> SUFFICES ASSUME C = {} PROVE FALSE
        OBVIOUS
      <4>1. sumTmp = 0
        BY SumUnfold DEF sumTmp
      <4> QED BY <2>4, <4>1
    <3>5. heaviest # {}
      BY <3>1, <3>4, Heaviest
    <3>6. maxCluster \in heaviest
      BY <3>5
    <3> DEFINE n == Cardinality(C)
               m == scaled[maxCluster]
    <3>7. maxCluster \in C /\ m \in Nat /\ \A d \in C : scaled[d] <= m
      <4> HIDE DEF maxCluster
      <4>1. maxCluster \in C /\ \A d \in C : scaled[d] <= scaled[maxCluster]
        BY <3>6, Zenon
      <4>2. scaled[maxCluster] \in Nat
        BY <3>1, <4>1
      <4> QED BY <4>1, <4>2
    <3> HIDE DEF maxCluster, heaviest, n, m
    <3>8. s <= m * n
      <4> DEFINE one == 1
                 none == 0
      <4>1. \A c \in C : scaled[c] \in Int /\ scaled[c] \in Int /\ one * scaled[c] <= none * scaled[c] + m
        BY <3>1, <3>7
      <4>2. one \in Int /\ none \in Int /\ m \in Int
        BY <3>7
      <4> HIDE DEF one, none
      <4>3. one * SumOf(scaled, C) <= none * SumOf(scaled, C) + m * Cardinality(C)
        BY <4>1, <4>2, SumLinear
      <4>4. one * s <= none * s + m * n
        BY <4>3 DEF n
      <4>5. m * n \in Int /\ n \in Int
        BY <1>4, <3>7 DEF n
      <4> HIDE DEF s
      <4> QED BY <3>3, <4>4, <4>5 DEF one, none
    <3>9. 2 * s <= 2000 + n
      <4> DEFINE a == 2 * sumTmp
                 b == 2000
      <4>1. a \in Int /\ b \in Int /\ sumTmp \in Int
        BY <2>2
      <4>2. \A c \in C : scaled[c] \in Int /\ tmp[c] \in Int /\ a * scaled[c] <= b * tmp[c] + sumTmp
        BY <2>1, <3>1
      <4> HIDE DEF a, b
      <4>3. a * SumOf(scaled, C) <= b * SumOf(tmp, C) + sumTmp * Cardinality(C)
        BY <4>1, <4>2, SumLinear
      <4>4. (2 * sumTmp) * s <= 2000 * sumTmp + sumTmp * n
        BY <4>3 DEF a, b, n, sumTmp
      <4>5. n \in Nat /\ sumTmp > 0
        BY <1>4, <2>2, <2>4 DEF n
      <4> HIDE DEF s
      <4> SUFFICES ASSUME 2 * s >= 2001 + n PROVE FALSE
        BY <3>3, <4>5
      <4>6. sumTmp * (2 * s) >= sumTmp * (2001 + n)
        BY <2>2, <3>3, <4>5
      <4>7. sumTmp * (2 * s) = (2 * sumTmp) * s /\ sumTmp * (2001 + n) = 2001 * sumTmp + sumTmp * n
        BY <2>2, <3>3, <4>5
      <4>8. (2 * sumTmp) * s \in Int /\ sumTmp * n \in Int
        BY <2>2, <3>3, <4>5
      <4> QED BY <2>2, <4>4, <4>5, <4>6, <4>7, <4>8
    <3>10. s <= m + 1000
      BY <1>4, <3>3, <3>7, <3>8, <3>9, FewErrors DEF n
    <3>11. w = [scaled EXCEPT ![maxCluster] = @ + SumWeight - s]
      BY <1>1, <1>7, <2>4
    <3>12. \A c \in C : w[c] = IF c = maxCluster THEN m + 1000 - s ELSE scaled[c]
      BY <3>2, <3>7, <3>11 DEF m, SumWeight
    <3>13. \A c \in C : w[c] \in Nat
      BY <3>1, <3>3, <3>7, <3>10, <3>12
    <3> QED BY <3>13
  <2> QED BY <2>3, <2>4
<1> QED BY <1>6, <1>7, Zenon

-----------------------------------------------------------------------------
(* The placement. *)

(* Weights that follow the resources are used with at most 46 clusters. *)
FewWhenDynamic ==
  (\E s \in Scenarios : s.policy.dynamic) => Cardinality(Cluster) <= 46

(* The invariant that the theorems rest on: besides the types, the policy is that of a scenario,
   and what the resources say is not negative, since no more pods run than fit. *)
Inv ==
  /\ TypeOK
  /\ \E s \in Scenarios : policy = s.policy
  /\ total \in Nat
  /\ capacity \in [Cluster -> Nat]
  /\ info \in [est : Capacities, scheduled : Capacities]
  /\ status \in [Cluster -> Resource]

LEMMA PolicyIs ==
  ASSUME Inv
  PROVE  /\ IsOrder(policy.order) /\ policy.order \in Seq(Cluster)
         /\ policy.weight \in [Cluster -> Nat] /\ policy.min \in [Cluster -> Nat]
         /\ policy.max \in Capacities /\ policy.limit \in Capacities
         /\ policy.avoid \in BOOLEAN /\ policy.keep \in BOOLEAN
<1>1. PICK s \in Scenarios : policy = s.policy
  BY DEF Inv
<1>2. policy \in Policy /\ IsOrder(policy.order)
  BY <1>1, AutoMigrationAssumption
<1> QED BY <1>2 DEF Policy, Capacities

LEMMA PreferencesAre ==
  ASSUME Inv, FewWhenDynamic, NEW tie, NEW prefs, prefs = clusterPreferences(tie)
  PROVE  /\ Bounded(prefs)
         /\ DOMAIN prefs = Eligible
         /\ \A c \in Eligible :
              /\ prefs[c].min = policy.min[c]
              /\ prefs[c].max = IF c \in tainted THEN Cut(plan[c], policy.max[c]) ELSE policy.max[c]
              /\ (~policy.dynamic => prefs[c].weight = policy.weight[c])
<1> DEFINE weight == IF policy.dynamic THEN AvailableToPercentage(Eligible, tie) ELSE policy.weight
<1>1. prefs = [c \in Eligible |->
                 [min    |-> policy.min[c],
                  max    |-> IF c \in tainted THEN Cut(plan[c], policy.max[c]) ELSE policy.max[c],
                  weight |-> weight[c]]]
  BY DEF clusterPreferences
<1>2. Eligible \in SUBSET Cluster
  BY DEF Eligible
<1>3. \/ \A c \in Eligible : weight[c] \in Nat
      \/ \A c \in Eligible : weight[c] \in Int /\ weight[c] < 0
  <2>1. CASE policy.dynamic
    <3>1. Cardinality(Cluster) <= 46
      BY <2>1 DEF FewWhenDynamic, Inv
    <3>2. status \in [Cluster -> Resource]
      BY DEF Inv
    <3>3. weight = AvailableToPercentage(Eligible, tie)
      BY <2>1
    <3> HIDE DEF weight
    <3> QED BY <1>2, <3>1, <3>2, <3>3, AvailableToPercentageIs
  <2>2. CASE ~policy.dynamic
    <3>1. weight = policy.weight
      BY <2>2
    <3> HIDE DEF weight
    <3> QED BY <1>2, <3>1, PolicyIs
  <2> QED BY <2>1, <2>2
<1>4. ~policy.dynamic => weight = policy.weight
  OBVIOUS
<1> HIDE DEF weight
<1>5. DOMAIN prefs = Eligible
  BY <1>1
<1>6. \A c \in Eligible :
         /\ prefs[c].min = policy.min[c]
         /\ prefs[c].max = IF c \in tainted THEN Cut(plan[c], policy.max[c]) ELSE policy.max[c]
         /\ prefs[c].weight = weight[c]
  BY <1>1
<1>7. \A c \in Eligible :
         prefs[c].min \in Nat /\ (prefs[c].max = Absent \/ prefs[c].max \in Nat)
  <2> TAKE c \in Eligible
  <2>1. c \in Cluster /\ policy.min[c] \in Nat /\ (policy.max[c] = Absent \/ policy.max[c] \in Nat)
    BY <1>2, PolicyIs DEF Capacities, Limit
  <2>2. plan[c] \in Nat
    BY <2>1 DEF Inv, TypeOK
  <2>3. Cut(plan[c], policy.max[c]) \in Nat
    BY <2>1, <2>2 DEF Cut, Least2
  <2> QED BY <1>6, <2>1, <2>3
<1>8. Sane(prefs)
  BY <1>2, <1>5, <1>7 DEF Sane
<1>9. Capped(prefs)
  BY <1>5, <1>7, <1>8, PlannerAssumption DEF Capped
<1>10. Weighted(prefs) \/ Unweighted(prefs)
  BY <1>3, <1>5, <1>6, <1>8 DEF Weighted, Unweighted
<1>11. \A c \in Eligible : ~policy.dynamic => prefs[c].weight = policy.weight[c]
  BY <1>4, <1>6
<1> QED BY <1>5, <1>6, <1>9, <1>10, <1>11 DEF Bounded

(* No placement has a negative count. *)
LEMMA ReplicaSchedulingIs ==
  ASSUME Inv, FewWhenDynamic, NEW tie
  PROVE  ReplicaScheduling(tie) \in [Cluster -> Nat]
<1> DEFINE prefs == clusterPreferences(tie)
           placed == {c \in Cluster : plan[c] > 0}
           order == policy.order
           lim == policy.limit
           avoid == policy.avoid
           keep == policy.keep
           packed == BinPackPlan(order, prefs, total, placed, plan, info.est, lim, avoid, keep, info.scheduled)
           spread == Plan(prefs, total, plan, info.est, lim, avoid, keep)
           result == IF policy.binpack THEN packed ELSE spread
<1>1. Bounded(prefs) /\ Capped(prefs)
  BY PreferencesAre DEF Bounded
<1>2. total \in Nat /\ plan \in [Cluster -> Nat] /\ info.est \in Capacities /\ info.scheduled \in Capacities
  BY DEF Inv, TypeOK
<1>3. order \in Seq(Cluster) /\ IsOrder(order) /\ lim \in Capacities /\ avoid \in BOOLEAN /\ keep \in BOOLEAN
  BY PolicyIs
<1>4. ReplicaScheduling(tie) = Replicas(result)
  BY DEF ReplicaScheduling
<1> DEFINE est == info.est
           scheduled == info.scheduled
           placement == plan
           count == total
<1>5. \A c \in Cluster : result.plan[c] + result.overflow[c] \in Nat
  <2>1. CASE policy.binpack
    <3>1. packed = BinPackPlan(order, prefs, count, placed, placement, est, lim, avoid, keep, scheduled)
      OBVIOUS
    <3>2. /\ count \in Nat /\ placement \in [Cluster -> Nat] /\ est \in Capacities /\ scheduled \in Capacities
      BY <1>2
    <3>3. result = packed
      BY <2>1
    <3> HIDE DEF prefs, placed, order, lim, avoid, keep, est, scheduled, placement, count, packed, result
    <3>4. \A c \in Cluster : packed.plan[c] + packed.overflow[c] \in Nat
      BY <1>1, <1>3, <3>1, <3>2, BinPackPlanIs, ZenonT(30)
    <3> QED BY <3>3, <3>4
  <2>2. CASE ~policy.binpack
    <3>1. /\ count \in Nat /\ placement \in [Cluster -> Nat] /\ est \in Capacities
      BY <1>2
    <3>2. result = Plan(prefs, count, placement, est, lim, avoid, keep)
      BY <2>2
    <3> HIDE DEF prefs, lim, avoid, keep, est, placement, count, result
    <3>3. Promised(Summed(result), prefs, placement, est, lim, avoid, keep)
      BY <1>1, <1>3, <3>1, <3>2, PlanPromised, Zenon
    <3>4. Summed(result) \in [Cluster -> Nat]
      BY <3>3 DEF Promised
    <3> QED BY <3>4 DEF Summed
  <2> QED BY <2>1, <2>2
<1> HIDE DEF result
<1> QED BY <1>4, <1>5 DEF Replicas

-----------------------------------------------------------------------------
(* The invariant. *)

LEMMA InvInit ==
  ASSUME Init
  PROVE  Inv
<1>1. PICK s \in Scenarios : policy = s.policy /\ capacity = s.capacity
  BY DEF Init
<1>2. capacity \in [Cluster -> Nat] /\ MaxReplicas \in Nat
  BY <1>1, AutoMigrationAssumption
<1>3. total \in Nat
  BY <1>2 DEF Init
<1>4. Zero \in [Cluster -> Nat] /\ \A c \in Cluster : Zero[c] = 0
  BY DEF Zero
<1>5. NoLimit \in Capacities
  BY DEF NoLimit, Capacities, Limit
<1>6. info = [est |-> NoLimit, scheduled |-> NoLimit]
  BY DEF Init, NoInfo
<1>7. info \in [est : Capacities, scheduled : Capacities] /\ info.est \in [Cluster -> Nat \cup {Absent}]
  BY <1>5, <1>6 DEF Capacities, Limit
<1>8. status \in [Cluster -> Resource]
  BY <1>2 DEF Init, Resource
<1>9. TypeOK
  <2>1. plan = Zero /\ spec = Zero /\ sched = Zero /\ fresh = Zero /\ ripe = Zero /\ tainted = {}
    BY DEF Init
  <2>2. \A c \in Cluster : sched[c] <= capacity[c]
    BY <1>2, <1>4, <2>1
  <2> QED BY <1>4, <1>7, <2>1, <2>2 DEF TypeOK
<1> QED BY <1>1, <1>2, <1>3, <1>7, <1>8, <1>9 DEF Inv

(* What automigration writes: no estimate is negative. *)
LEMMA ObservedIs ==
  ASSUME Inv
  PROVE  Observed \in [est : Capacities, scheduled : Capacities]
<1>1. /\ plan \in [Cluster -> Nat] /\ spec \in [Cluster -> Nat]
      /\ sched \in [Cluster -> Nat] /\ fresh \in [Cluster -> Nat] /\ ripe \in [Cluster -> Nat]
  BY DEF Inv, TypeOK
<1>2. ASSUME NEW c \in Cluster PROVE estimateCapacity(c) \in Limit
  <2>1. Pods(c) \in Nat /\ spec[c] \in Nat /\ ripe[c] \in Nat
    BY <1>1 DEF Pods
  <2> QED BY <2>1 DEF estimateCapacity, Limit
<1>3. [c \in Cluster |-> estimateCapacity(c)] \in Capacities
  BY <1>2 DEF Capacities
<1>4. [c \in Cluster |-> IF Visible(c) THEN sched[c] ELSE Absent] \in Capacities
  BY <1>1 DEF Capacities, Limit
<1> QED BY <1>3, <1>4 DEF Observed

(* The pods of one cluster change, and no more of them run than fit. *)
LEMMA PodsKeepInv ==
  ASSUME Inv, NEW c \in Cluster,
         NEW k \in Nat, NEW x \in Nat, NEW y \in Nat, NEW z \in Nat, x <= k,
         capacity' = [capacity EXCEPT ![c] = k],
         sched' = [sched EXCEPT ![c] = x], fresh' = [fresh EXCEPT ![c] = y], ripe' = [ripe EXCEPT ![c] = z],
         UNCHANGED <<policy, total, plan, info, spec, status, tainted>>
  PROVE  Inv'
<1>1. /\ sched \in [Cluster -> Nat] /\ fresh \in [Cluster -> Nat] /\ ripe \in [Cluster -> Nat]
      /\ capacity \in [Cluster -> Nat] /\ \A d \in Cluster : sched[d] <= capacity[d]
  BY DEF Inv, TypeOK
<1>2. /\ sched' \in [Cluster -> Nat] /\ fresh' \in [Cluster -> Nat] /\ ripe' \in [Cluster -> Nat]
      /\ capacity' \in [Cluster -> Nat]
  BY <1>1
<1>3. \A d \in Cluster : sched'[d] <= capacity'[d]
  BY <1>1
<1>4. TypeOK'
  BY <1>2, <1>3 DEF Inv, TypeOK
<1> QED BY <1>2, <1>4 DEF Inv

LEMMA InvNext ==
  ASSUME Inv, FewWhenDynamic, [Next]_vars
  PROVE  Inv'
<1> USE DEF member
<1>0. /\ plan \in [Cluster -> Nat] /\ spec \in [Cluster -> Nat] /\ capacity \in [Cluster -> Nat]
      /\ sched \in [Cluster -> Nat] /\ fresh \in [Cluster -> Nat] /\ ripe \in [Cluster -> Nat]
      /\ \A c \in Cluster : sched[c] <= capacity[c]
  BY DEF Inv, TypeOK
<1>1. CASE Schedule
  <2>1. PICK tie \in Cluster : plan' = ReplicaScheduling(tie)
    BY <1>1 DEF Schedule
  <2>2. plan' \in [Cluster -> Nat]
    BY <2>1, ReplicaSchedulingIs
  <2> QED BY <1>1, <2>2 DEF Schedule, Inv, TypeOK
<1>2. CASE Migrate
  <2>1. info' \in [est : Capacities, scheduled : Capacities]
    BY <1>2, ObservedIs DEF Migrate
  <2>2. info'.est \in [Cluster -> Nat \cup {Absent}]
    BY <2>1 DEF Capacities, Limit
  <2> QED BY <1>2, <2>1, <2>2 DEF Migrate, Inv, TypeOK
<1>2a. ASSUME NEW c \in Cluster, MigratePartly(c) PROVE Inv'
  <2>1. Observed.est \in Capacities /\ Observed.scheduled \in Capacities
    BY ObservedIs
  <2>2. info' = [est |-> [Observed.est EXCEPT ![c] = Absent],
                 scheduled |-> [Observed.scheduled EXCEPT ![c] = Absent]]
    BY <1>2a DEF MigratePartly
  <2>3. info' \in [est : Capacities, scheduled : Capacities]
    BY <2>1, <2>2 DEF Capacities, Limit
  <2>4. info'.est \in [Cluster -> Nat \cup {Absent}]
    BY <2>3 DEF Capacities, Limit
  <2> QED BY <1>2a, <2>3, <2>4 DEF MigratePartly, Inv, TypeOK
<1>3. ASSUME NEW c \in Cluster, Sync(c) PROVE Inv'
  <2>1. spec' \in [Cluster -> Nat]
    BY <1>0, <1>3 DEF Sync
  <2> QED BY <1>3, <2>1 DEF Sync, Inv, TypeOK
<1>4. ASSUME NEW c \in Cluster, AdjustPods(c) PROVE Inv'
  <2> DEFINE k == capacity[c]
  <2>1. /\ k \in Nat /\ sched[c] \in Nat /\ fresh[c] \in Nat /\ ripe[c] \in Nat /\ spec[c] \in Nat
        /\ sched[c] <= k
    BY <1>0
  <2>2. capacity' = [capacity EXCEPT ![c] = k]
    BY <1>0, <1>4 DEF AdjustPods
  <2>3. UNCHANGED <<policy, total, plan, info, spec, status, tainted>>
    BY <1>4 DEF AdjustPods
  <2>4. CASE Pods(c) < spec[c]
    <3> DEFINE y == fresh[c] + spec[c] - Pods(c)
               x == sched[c]
               z == ripe[c]
    <3>1. y \in Nat
      BY <2>1, <2>4 DEF Pods
    <3>2. fresh' = [fresh EXCEPT ![c] = y] /\ sched' = sched /\ ripe' = ripe
      BY <1>4, <2>4 DEF AdjustPods
    <3>3. sched' = [sched EXCEPT ![c] = x] /\ ripe' = [ripe EXCEPT ![c] = z] /\ x \in Nat /\ z \in Nat /\ x <= k
      BY <1>0, <2>1, <3>2
    <3> HIDE DEF k, x, y, z
    <3> QED BY <2>1, <2>2, <2>3, <3>1, <3>2, <3>3, PodsKeepInv
  <2>5. CASE ~(Pods(c) < spec[c])
    <3> DEFINE x == Least2(sched[c], spec[c])
               z == Least2(ripe[c], spec[c] - x)
               y == spec[c] - x - z
    <3>1. x \in Nat /\ x <= k /\ x <= spec[c]
      BY <2>1 DEF Least2
    <3>2. sched' = [sched EXCEPT ![c] = x]
      BY <1>4, <2>5 DEF AdjustPods
    <3>3. sched'[c] = x
      BY <1>0, <3>2
    <3>4. ripe' = [ripe EXCEPT ![c] = z]
      BY <1>4, <2>5, <3>3 DEF AdjustPods
    <3>5. ripe'[c] = z
      BY <1>0, <3>4
    <3>6. fresh' = [fresh EXCEPT ![c] = y]
      BY <1>4, <2>5, <3>3, <3>5 DEF AdjustPods
    <3> HIDE DEF x
    <3>7. z \in Nat /\ z <= spec[c] - x
      BY <2>1, <3>1 DEF Least2
    <3> HIDE DEF z
    <3>8. y \in Nat
      BY <2>1, <3>1, <3>7
    <3> HIDE DEF k, y
    <3> QED BY <2>1, <2>2, <2>3, <3>1, <3>2, <3>4, <3>6, <3>7, <3>8, PodsKeepInv
  <2> QED BY <2>4, <2>5
<1>5. ASSUME NEW c \in Cluster, RunPods(c) PROVE Inv'
  <2> DEFINE k == capacity[c]
             x == Least2(Pods(c), capacity[c])
             z == ripe[c] - Least2(ripe[c], x - sched[c])
             y == Pods(c) - x - z
  <2>1. /\ k \in Nat /\ sched[c] \in Nat /\ fresh[c] \in Nat /\ ripe[c] \in Nat
        /\ sched[c] <= k /\ Pods(c) = sched[c] + fresh[c] + ripe[c]
    BY <1>0 DEF Pods
  <2>2. capacity' = [capacity EXCEPT ![c] = k]
    BY <1>0, <1>5 DEF RunPods
  <2>3. UNCHANGED <<policy, total, plan, info, spec, status, tainted>>
    BY <1>5 DEF RunPods
  <2>4. x \in Nat /\ x <= k /\ x >= sched[c] /\ x <= Pods(c)
    BY <2>1 DEF Least2
  <2>5. sched' = [sched EXCEPT ![c] = x]
    BY <1>5 DEF RunPods
  <2>6. sched'[c] = x
    BY <1>0, <2>5
  <2>7. ripe' = [ripe EXCEPT ![c] = z]
    BY <1>5, <2>6 DEF RunPods
  <2>8. ripe'[c] = z
    BY <1>0, <2>7
  <2>9. fresh' = [fresh EXCEPT ![c] = y]
    BY <1>5, <2>6, <2>8 DEF RunPods
  <2> HIDE DEF x
  <2>10. z \in Nat /\ z <= Pods(c) - x
    BY <2>1, <2>4 DEF Least2
  <2> HIDE DEF z
  <2>11. y \in Nat
    BY <2>1, <2>4, <2>10
  <2> HIDE DEF k, y
  <2> QED BY <2>1, <2>2, <2>3, <2>4, <2>5, <2>7, <2>9, <2>10, <2>11, PodsKeepInv
<1>6. ASSUME NEW c \in Cluster, Ripen(c) PROVE Inv'
  <2> DEFINE k == capacity[c]
             x == sched[c]
             y == 0
             z == ripe[c] + fresh[c]
  <2>1. k \in Nat /\ x \in Nat /\ y \in Nat /\ z \in Nat /\ x <= k
    BY <1>0
  <2>2. /\ capacity' = [capacity EXCEPT ![c] = k] /\ sched' = [sched EXCEPT ![c] = x]
        /\ fresh' = [fresh EXCEPT ![c] = y] /\ ripe' = [ripe EXCEPT ![c] = z]
    BY <1>0, <1>6 DEF Ripen
  <2>3. UNCHANGED <<policy, total, plan, info, spec, status, tainted>>
    BY <1>6 DEF Ripen
  <2> HIDE DEF k, x, y, z
  <2> QED BY <2>1, <2>2, <2>3, PodsKeepInv
<1>7. ASSUME NEW c \in Cluster, CollectStatus(c) PROVE Inv'
  <2>1. Resources(c) \in Resource
    <3>1. capacity[c] \in Nat /\ capacity[c] - sched[c] \in Nat
      BY <1>0
    <3> QED BY <3>1 DEF Resources, Resource
  <2>2. status' \in [Cluster -> Resource]
    BY <1>7, <2>1 DEF CollectStatus, Inv
  <2> QED BY <1>7, <2>2 DEF CollectStatus, Inv, TypeOK
<1>8. CASE Scale
  <2>1. total' \in Nat
    BY <1>8, AutoMigrationAssumption DEF Scale
  <2> QED BY <1>8, <2>1 DEF Scale, Inv, TypeOK
<1>9. ASSUME NEW c \in Cluster, ChangeCapacity(c) PROVE Inv'
  <2>1. PICK k \in 0..MaxReplicas :
          /\ capacity' = [capacity EXCEPT ![c] = k]
          /\ sched' = [sched EXCEPT ![c] = Least2(@, k)]
          /\ fresh' = [fresh EXCEPT ![c] = @ + sched[c] - sched'[c]]
    BY <1>9 DEF ChangeCapacity
  <2> DEFINE x == Least2(sched[c], k)
             y == fresh[c] + sched[c] - x
             z == ripe[c]
  <2>2. k \in Nat /\ sched[c] \in Nat /\ fresh[c] \in Nat /\ z \in Nat
    BY <1>0, AutoMigrationAssumption
  <2>3. x \in Nat /\ x <= k /\ x <= sched[c]
    BY <2>2 DEF Least2
  <2>4. sched' = [sched EXCEPT ![c] = x]
    BY <2>1
  <2>5. sched'[c] = x
    BY <1>0, <2>4
  <2>6. fresh' = [fresh EXCEPT ![c] = y]
    BY <2>1, <2>5
  <2> HIDE DEF x
  <2>7. y \in Nat
    BY <2>2, <2>3
  <2>8. ripe' = [ripe EXCEPT ![c] = z]
    BY <1>0, <1>9 DEF ChangeCapacity
  <2>9. UNCHANGED <<policy, total, plan, info, spec, status, tainted>>
    BY <1>9 DEF ChangeCapacity
  <2> HIDE DEF y, z
  <2> QED BY <2>1, <2>2, <2>3, <2>4, <2>6, <2>7, <2>8, <2>9, PodsKeepInv
<1>10. ASSUME NEW c \in Cluster, Taint(c) PROVE Inv'
  <2>1. tainted' \subseteq Cluster
    BY <1>10 DEF Taint, Inv, TypeOK
  <2> QED BY <1>10, <2>1 DEF Taint, Inv, TypeOK
<1>11. CASE UNCHANGED vars
  BY <1>11 DEF vars, Inv, TypeOK
<1> QED BY <1>1, <1>2, <1>2a, <1>3, <1>4, <1>5, <1>6, <1>7, <1>8, <1>9, <1>10, <1>11 DEF Next, Controllers

LEMMA InvHolds ==
  ASSUME FewWhenDynamic
  PROVE  Init /\ [][Next]_vars => []Inv
<1>1. Init => Inv
  BY InvInit
<1>2. Inv /\ [Next]_vars => Inv'
  BY InvNext
<1> QED BY <1>1, <1>2, PTL

(* Neither planner ever returns a negative count and automigration no negative estimate, and no
   more pods run than fit, whatever the policy, the capacities and the order of the controllers'
   steps.  With weights that follow the resources this is proved of federations of at most 46
   clusters: with more, AvailableToPercentage may leave its heaviest cluster a negative weight. *)
THEOREM MigrationTypes ==
  ASSUME FewWhenDynamic
  PROVE  Spec => []TypeOK
<1>1. Inv => TypeOK
  BY DEF Inv
<1> QED BY <1>1, InvHolds, PTL DEF Spec

-----------------------------------------------------------------------------
(* What a run of the spreading planner may not do. *)

(* Every policy spreads the replicas by weight. *)
SpreadOnly == \A s \in Scenarios : ~s.policy.binpack

WeightsPositive == \A s \in Scenarios : \A c \in Cluster : s.policy.weight[c] > 0

LEMMA OnlySchedulePlans ==
  ASSUME [Next]_vars
  PROVE  plan' = plan \/ \E tie \in Cluster : plan' = ReplicaScheduling(tie)
<1> USE DEF member
<1>1. CASE Schedule
  BY <1>1 DEF Schedule
<1>2. CASE ~Schedule
  BY <1>2 DEF Next, Controllers, Migrate, MigratePartly, Sync, AdjustPods, RunPods, Ripen, CollectStatus, Scale,
              ChangeCapacity, Taint, vars
<1> QED BY <1>1, <1>2

LEMMA ReplicaSchedulingPromised ==
  ASSUME Inv, FewWhenDynamic, SpreadOnly, NEW tie, NEW new, new = ReplicaScheduling(tie)
  PROVE  \E prefs, sum :
           /\ prefs = clusterPreferences(tie)
           /\ Promised(sum, prefs, plan, info.est, policy.limit, policy.avoid, policy.keep)
           /\ \A c \in Cluster : new[c] = IF c \in Eligible THEN sum[c] ELSE 0
<1> DEFINE prefs == clusterPreferences(tie)
           est == info.est
           lim == policy.limit
           avoid == policy.avoid
           keep == policy.keep
           count == total
           placement == plan
           result == Plan(prefs, count, placement, est, lim, avoid, keep)
           sum == Summed(result)
<1>1. ~policy.binpack
  BY DEF Inv, SpreadOnly
<1>2. Bounded(prefs)
  BY PreferencesAre
<1>3. count \in Nat /\ placement \in [Cluster -> Nat] /\ est \in Capacities
  BY DEF Inv, TypeOK
<1>4. lim \in Capacities /\ avoid \in BOOLEAN /\ keep \in BOOLEAN
  BY PolicyIs
<1>5. new = Replicas(result)
  BY <1>1 DEF ReplicaScheduling
<1>6. Promised(sum, prefs, placement, est, lim, avoid, keep)
  <2> HIDE DEF prefs, est, lim, avoid, keep, count, placement
  <2> QED BY <1>2, <1>3, <1>4, PlanPromised, Zenon
<1>7. \A c \in Cluster : new[c] = IF c \in Eligible THEN sum[c] ELSE 0
  <2> HIDE DEF result
  <2> QED BY <1>5 DEF Replicas, Summed
<1>8. prefs = clusterPreferences(tie) /\ Promised(sum, prefs, plan, info.est, policy.limit, policy.avoid, policy.keep)
  BY <1>6
<1> HIDE DEF prefs, sum
<1> QED BY <1>7, <1>8

(* A run of the spreading planner gives no new replica to a cluster with an untolerated NoSchedule
   taint and no minimum: neither a share nor what overflows.  The packing planner keeps the
   promise only when the annotation describes the present plan, which TLC checks. *)
THEOREM TaintedClustersShrink ==
  ASSUME FewWhenDynamic, SpreadOnly
  PROVE  Spec => TaintedShrinks
<1>1. ASSUME Inv, [Next]_vars, NEW c \in tainted, policy.min[c] = 0 PROVE plan'[c] <= plan[c]
  <2>1. c \in Cluster /\ plan[c] \in Nat
    BY <1>1 DEF Inv, TypeOK
  <2>2. CASE plan' = plan
    BY <2>1, <2>2
  <2>3. ASSUME NEW tie \in Cluster, plan' = ReplicaScheduling(tie) PROVE plan'[c] <= plan[c]
    <3> DEFINE new == ReplicaScheduling(tie)
    <3>1. PICK prefs, sum :
             /\ prefs = clusterPreferences(tie)
             /\ Promised(sum, prefs, plan, info.est, policy.limit, policy.avoid, policy.keep)
             /\ \A d \in Cluster : new[d] = IF d \in Eligible THEN sum[d] ELSE 0
      BY <1>1, ReplicaSchedulingPromised
    <3>2. CASE c \in Eligible
      <4>1. DOMAIN prefs = Eligible /\ prefs[c].min = 0 /\ prefs[c].max = Cut(plan[c], policy.max[c])
        BY <1>1, <3>1, <3>2, PreferencesAre
      <4>2. policy.max[c] = Absent \/ policy.max[c] \in Nat
        BY <1>1, <2>1, PolicyIs DEF Capacities, Limit
      <4>3. prefs[c].max \in Nat /\ prefs[c].max <= plan[c]
        BY <2>1, <4>1, <4>2 DEF Cut, Least2
      <4>4. sum[c] <= plan[c]
        BY <3>1, <3>2, <4>1, <4>3, PlannerAssumption DEF Promised
      <4> QED BY <2>1, <2>3, <3>1, <3>2, <4>4
    <3>3. CASE c \notin Eligible
      BY <2>1, <2>3, <3>1, <3>3
    <3> QED BY <3>2, <3>3
  <2> QED BY <1>1, <2>2, <2>3, OnlySchedulePlans
<1>2. Inv /\ [Next]_vars =>
        [(policy.binpack => Current) => \A c \in tainted : policy.min[c] = 0 => plan'[c] <= plan[c]]_vars
  BY <1>1
<1> QED BY <1>2, InvHolds, PTL DEF Spec, TaintedShrinks

(* With avoidDisruption and positive weights no run of the spreading planner takes a replica that
   fits its cluster from there while another cluster grows. *)
THEOREM NothingMoves ==
  ASSUME FewWhenDynamic, SpreadOnly, WeightsPositive
  PROVE  Spec => NoMove
<1>1. ASSUME Inv, [Next]_vars, policy.avoid, ~policy.keep, ~policy.dynamic, NEW c \in Cluster, NEW d \in Cluster,
             plan'[c] < Cut(Cut(Cut(plan[c], info.est[c]), policy.limit[c]), policy.max[c]),
             plan'[d] > plan[d]
      PROVE  FALSE
  <2>1. plan \in [Cluster -> Nat] /\ plan[c] \in Nat /\ plan[d] \in Nat
    BY <1>1 DEF Inv, TypeOK
  <2>2. PICK tie \in Cluster : plan' = ReplicaScheduling(tie)
    <3>1. plan' # plan
      BY <1>1, <2>1
    <3> QED BY <1>1, <3>1, OnlySchedulePlans
  <2> DEFINE new == ReplicaScheduling(tie)
  <2>3. PICK prefs, sum :
           /\ prefs = clusterPreferences(tie)
           /\ Promised(sum, prefs, plan, info.est, policy.limit, policy.avoid, policy.keep)
           /\ \A e \in Cluster : new[e] = IF e \in Eligible THEN sum[e] ELSE 0
    BY <1>1, ReplicaSchedulingPromised
  <2>4. new \in [Cluster -> Nat] /\ new = plan'
    BY <1>1, <2>2, ReplicaSchedulingIs
  <2> HIDE DEF new
  <2>5. /\ policy.max[c] = Absent \/ policy.max[c] \in Nat
        /\ policy.limit[c] = Absent \/ policy.limit[c] \in Nat
        /\ info.est[c] = Absent \/ info.est[c] \in Nat
    BY <1>1, PolicyIs DEF Capacities, Limit, Inv
  <2>6. new[c] \in Nat /\ new[d] \in Nat
    BY <2>4
  <2>7. c \in Eligible
    <3>1. plan[c] > 0
      BY <1>1, <2>1, <2>4, <2>5, <2>6 DEF Cut, Least2
    <3> QED BY <3>1 DEF Eligible
  <2>8. d \in Eligible
    BY <1>1, <2>1, <2>3, <2>4, <2>6
  <2>9. new[c] = sum[c] /\ new[d] = sum[d]
    BY <2>3, <2>7, <2>8
  <2>10. /\ DOMAIN prefs = Eligible
         /\ prefs[c].max = IF c \in tainted THEN Cut(plan[c], policy.max[c]) ELSE policy.max[c]
         /\ \A e \in Eligible : prefs[e].weight > 0
    <3>1. \A e \in Eligible : prefs[e].weight = policy.weight[e]
      BY <1>1, <2>3, PreferencesAre
    <3>2. \A e \in Cluster : policy.weight[e] > 0
      BY <1>1 DEF Inv, WeightsPositive
    <3>3. \A e \in Eligible : e \in Cluster
      BY DEF Eligible
    <3> QED BY <1>1, <2>3, <2>7, <3>1, <3>2, <3>3, PreferencesAre
  <2>11. \/ \A e \in DOMAIN prefs : \/ sum[e] >= Cut(Cut(plan[e], policy.limit[e]), info.est[e])
                                    \/ prefs[e].max # Absent /\ sum[e] >= prefs[e].max
         \/ \A e \in DOMAIN prefs : sum[e] <= plan[e]
    <3>1. \A e \in DOMAIN prefs : prefs[e].weight > 0
      BY <2>10
    <3> QED BY <1>1, <2>3, <3>1 DEF Promised
  <2>12. \/ sum[c] >= Cut(Cut(plan[c], policy.limit[c]), info.est[c])
         \/ prefs[c].max # Absent /\ sum[c] >= prefs[c].max
         \/ sum[d] <= plan[d]
    BY <2>7, <2>8, <2>10, <2>11
  <2>13. CASE sum[d] <= plan[d]
    BY <1>1, <2>1, <2>4, <2>6, <2>9, <2>13
  <2>14. CASE sum[c] >= Cut(Cut(plan[c], policy.limit[c]), info.est[c])
    BY <1>1, <2>1, <2>4, <2>5, <2>6, <2>9, <2>14 DEF Cut, Least2
  <2>15. CASE prefs[c].max # Absent /\ sum[c] >= prefs[c].max
    <3>1. CASE c \in tainted
      BY <1>1, <2>1, <2>4, <2>5, <2>6, <2>9, <2>10, <2>15, <3>1 DEF Cut, Least2
    <3>2. CASE c \notin tainted
      BY <1>1, <2>1, <2>4, <2>5, <2>6, <2>9, <2>10, <2>15, <3>2 DEF Cut, Least2
    <3> QED BY <3>1, <3>2
  <2> QED BY <2>12, <2>13, <2>14, <2>15
<1>2. Inv /\ [Next]_vars =>
        [policy.avoid /\ ~policy.keep /\ ~policy.dynamic /\ (policy.binpack => Current) =>
          ~ \E c, d \in Cluster :
              /\ plan'[c] < Cut(Cut(Cut(plan[c], info.est[c]), policy.limit[c]), policy.max[c])
              /\ plan'[d] > plan[d]]_vars
  BY <1>1
<1> QED BY <1>2, InvHolds, PTL DEF Spec, NoMove

-----------------------------------------------------------------------------
(* Where the loop of scheduling and automigration settles. *)

(* No policy asks for a minimum. *)
NoMinima == \A s \in Scenarios : \A c \in Cluster : s.policy.min[c] = 0

(* The policy lets replicas that are stuck move, and its weights stay. *)
Moving == policy.avoid /\ ~policy.keep /\ ~policy.dynamic

WithinMax == \A c \in Cluster : policy.max[c] # Absent => plan[c] <= policy.max[c]

(* No cluster is above its maximum, so that what fits of what runs is no more than a plan may
   hold, and the placement is one that the recorded triggers lead to.  The second part speaks of
   the triggers of the last run, which the present ones may have left behind. *)
RoomInv ==
  /\ (Moving => WithinMax)
  /\ (Moving /\ seen.total # Absent /\ seen.tainted = {} =>
        Placed(plan, seen.total, policy.max, policy.limit, seen.info.est))

LEMMA RunSettles ==
  ASSUME Inv, Moving, WithinMax, FewWhenDynamic, SpreadOnly, WeightsPositive, NoMinima,
         NEW tie, NEW new, new = ReplicaScheduling(tie)
  PROVE  /\ \A c \in Cluster : policy.max[c] # Absent => new[c] <= policy.max[c]
         /\ (tainted = {} => Placed(new, total, policy.max, policy.limit, info.est))
<1> DEFINE prefs == clusterPreferences(tie)
           est == info.est
           lim == policy.limit
           avoid == policy.avoid
           keep == policy.keep
           count == total
           placement == plan
           top == [c \in Cluster |-> IF c \in tainted THEN Cut(plan[c], policy.max[c]) ELSE policy.max[c]]
           result == Plan(prefs, count, placement, est, lim, avoid, keep)
           sum == Summed(result)
<1>1. ~policy.binpack
  BY DEF Inv, SpreadOnly
<1>2. Bounded(prefs) /\ DOMAIN prefs = Eligible /\ Eligible \subseteq Cluster
  <2>1. Eligible \subseteq Cluster
    BY DEF Eligible
  <2> QED BY <2>1, PreferencesAre
<1>3. count \in Nat /\ placement \in [Cluster -> Nat] /\ est \in Capacities
  BY DEF Inv, TypeOK
<1>4. lim \in Capacities /\ avoid \in BOOLEAN /\ keep \in BOOLEAN /\ avoid /\ ~keep
  BY PolicyIs DEF Moving
<1>5. new = Replicas(result)
  BY <1>1 DEF ReplicaScheduling
<1>6. \A c \in Cluster : new[c] = IF c \in Eligible THEN sum[c] ELSE 0
  <2> HIDE DEF result
  <2> QED BY <1>5 DEF Replicas, Summed
<1>7. \A c \in Cluster : /\ plan[c] \in Nat /\ (policy.max[c] = Absent \/ policy.max[c] \in Nat)
                         /\ (policy.max[c] # Absent => plan[c] <= policy.max[c])
                         /\ policy.min[c] = 0 /\ policy.weight[c] > 0
  <2>1. \A c \in Cluster : policy.min[c] = 0 /\ policy.weight[c] > 0
    BY DEF Inv, NoMinima, WeightsPositive
  <2> QED BY <2>1, PolicyIs DEF Inv, TypeOK, WithinMax, Capacities, Limit
<1>8. \A c \in DOMAIN prefs : top[c] = prefs[c].max
  BY <1>2, PreferencesAre
<1>9. \A c \in DOMAIN prefs : /\ prefs[c].min = 0 /\ prefs[c].weight > 0
                              /\ (prefs[c].max # Absent => placement[c] <= prefs[c].max)
  <2> TAKE c \in DOMAIN prefs
  <2>1. c \in Eligible /\ c \in Cluster
    BY <1>2
  <2>2. /\ prefs[c].min = policy.min[c] /\ prefs[c].weight = policy.weight[c]
        /\ prefs[c].max = IF c \in tainted THEN Cut(plan[c], policy.max[c]) ELSE policy.max[c]
    BY <2>1, PreferencesAre DEF Moving
  <2>3. Cut(plan[c], policy.max[c]) >= plan[c]
    BY <1>7, <2>1 DEF Cut, Least2
  <2> HIDE DEF prefs
  <2> QED BY <1>7, <2>1, <2>2, <2>3
<1>10. \A c \in Cluster : policy.max[c] # Absent => top[c] # Absent /\ top[c] \in Nat /\ top[c] <= policy.max[c]
  <2> TAKE c \in Cluster
  <2>1. policy.max[c] # Absent => Cut(plan[c], policy.max[c]) \in Nat /\ Cut(plan[c], policy.max[c]) <= policy.max[c]
    BY <1>7 DEF Cut, Least2
  <2>2. top[c] = IF c \in tainted THEN Cut(plan[c], policy.max[c]) ELSE policy.max[c]
    OBVIOUS
  <2> HIDE DEF top
  <2> QED BY <1>7, <2>1, <2>2, PlannerAssumption
<1>11. Promised(sum, prefs, placement, est, lim, avoid, keep)
  <2> HIDE DEF prefs, est, lim, avoid, keep, count, placement
  <2> QED BY <1>2, <1>3, <1>4, PlanPromised, Zenon
<1>12. sum \in [Cluster -> Nat] /\ \A c \in Cluster : sum[c] = result.plan[c] + result.overflow[c]
  <2> HIDE DEF result, prefs, est, lim, avoid, keep, count, placement
  <2> QED BY <1>11 DEF Promised, Summed
<1> HIDE DEF prefs, est, lim, avoid, keep, count, placement, top, sum
<1>13. result = Plan(prefs, count, placement, est, lim, avoid, keep)
  OBVIOUS
<1> HIDE DEF result
<1>17. ASSUME NEW max, \A c \in DOMAIN prefs : max[c] = prefs[c].max,
              NEW placed, \A c \in Cluster : placed[c] = result.plan[c] + result.overflow[c]
       PROVE  Arranged(placed, prefs, count, max, lim, est)
  <2>1. Bounded(prefs)
    BY <1>2
  <2>2. avoid /\ ~keep /\ avoid \in BOOLEAN /\ keep \in BOOLEAN /\ lim \in Capacities
    BY <1>4
  <2> QED BY <1>3, <1>9, <1>13, <1>17, <2>1, <2>2, PlanSettles, ZenonT(30)
<1>14. Arranged(sum, prefs, count, top, lim, est)
  BY <1>8, <1>12, <1>17
<1>15. \A c \in Cluster : policy.max[c] # Absent => new[c] <= policy.max[c]
  <2> SUFFICES ASSUME NEW c \in Cluster, policy.max[c] # Absent PROVE new[c] <= policy.max[c]
    OBVIOUS
  <2>1. policy.max[c] \in Nat /\ sum[c] \in Nat
    BY <1>7, <1>12
  <2>2. CASE c \in Eligible
    <3>1. top[c] # Absent /\ top[c] \in Nat /\ top[c] <= policy.max[c]
      BY <1>10
    <3>2. sum[c] <= top[c]
      BY <1>2, <1>14, <2>2, <3>1 DEF Arranged
    <3> QED BY <1>6, <2>1, <2>2, <3>1, <3>2
  <2>3. CASE c \notin Eligible
    BY <1>6, <2>1, <2>3
  <2> QED BY <2>2, <2>3
<1>16. ASSUME tainted = {} PROVE Placed(new, total, policy.max, policy.limit, info.est)
  <2>1. Eligible = Cluster
    BY <1>16 DEF Eligible
  <2>2. \A c \in DOMAIN prefs : policy.max[c] = prefs[c].max
    BY <1>2, <1>8, <1>16 DEF top
  <2>3. \A c \in Cluster : new[c] = result.plan[c] + result.overflow[c]
    BY <1>6, <1>12, <2>1
  <2>4. Arranged(new, prefs, count, policy.max, lim, est)
    <3> DEFINE max == policy.max
    <3>1. \A c \in DOMAIN prefs : max[c] = prefs[c].max
      BY <2>2
    <3> HIDE DEF max
    <3>2. Arranged(new, prefs, count, max, lim, est)
      BY <1>17, <2>3, <3>1
    <3> QED BY <3>2 DEF max
  <2>5. Placed(new, count, policy.max, lim, est)
    BY <1>2, <2>1, <2>4 DEF Arranged
  <2> QED BY <2>5 DEF count, lim, est
<1> QED BY <1>15, <1>16

LEMMA RoomInvInit ==
  Init => RoomInv
<1> SUFFICES ASSUME Init PROVE RoomInv
  OBVIOUS
<1>1. seen.total = Absent
  BY DEF Init
<1>2. PICK s \in Scenarios : policy = s.policy
  BY DEF Init
<1>3. policy \in Policy
  BY <1>2, AutoMigrationAssumption
<1>4. \A c \in Cluster : plan[c] = 0 /\ (policy.max[c] # Absent => policy.max[c] >= 0)
  BY <1>3 DEF Init, Zero, Policy, Limit
<1> QED BY <1>1, <1>4 DEF RoomInv, WithinMax

LEMMA RoomInvNext ==
  ASSUME Inv, RoomInv, [Next]_vars, FewWhenDynamic, SpreadOnly, WeightsPositive, NoMinima
  PROVE  RoomInv'
<1> USE DEF member
<1>1. CASE Schedule
  <2>1. PICK tie \in Cluster : plan' = ReplicaScheduling(tie)
    BY <1>1 DEF Schedule
  <2>2. policy' = policy /\ seen' = [total |-> total, info |-> info, tainted |-> tainted]
    BY <1>1 DEF Schedule, Triggers
  <2>3. ASSUME Moving
        PROVE  /\ \A c \in Cluster : policy.max[c] # Absent => plan'[c] <= policy.max[c]
               /\ (tainted = {} => Placed(plan', total, policy.max, policy.limit, info.est))
    <3> DEFINE new == plan'
    <3>1. new = ReplicaScheduling(tie)
      BY <2>1
    <3> HIDE DEF new
    <3>2. /\ \A c \in Cluster : policy.max[c] # Absent => new[c] <= policy.max[c]
          /\ (tainted = {} => Placed(new, total, policy.max, policy.limit, info.est))
      BY <2>3, <3>1, RunSettles DEF RoomInv
    <3> QED BY <3>2 DEF new
  <2>4. (Moving' <=> Moving) /\ seen'.total = total /\ seen'.tainted = tainted /\ seen'.info = info
    BY <2>2 DEF Moving
  <2>5. Moving' => WithinMax'
    BY <2>2, <2>3, <2>4 DEF WithinMax
  <2>6. Moving' /\ seen'.total # Absent /\ seen'.tainted = {} =>
          Placed(plan', seen'.total, policy'.max, policy'.limit, seen'.info.est)
    BY <2>2, <2>3, <2>4
  <2> QED BY <2>5, <2>6 DEF RoomInv
<1>2. CASE ~Schedule
  <2>1. policy' = policy /\ plan' = plan /\ seen' = seen
    BY <1>2 DEF Next, Controllers, Migrate, MigratePartly, Sync, AdjustPods, RunPods, Ripen, CollectStatus, Scale,
                ChangeCapacity, Taint, vars
  <2> QED BY <2>1 DEF RoomInv, Moving, WithinMax
<1> QED BY <1>1, <1>2

(* When nothing is left to do, a cluster runs all it should and has no estimate, or it is full
   and its estimate says so. *)
LEMMA QuietPods ==
  ASSUME Inv, Quiet, NEW c \in Cluster
  PROVE  \/ info.est[c] = Absent /\ sched[c] = plan[c]
         \/ info.est[c] # Absent /\ info.est[c] = sched[c] /\ sched[c] = capacity[c] /\ sched[c] < plan[c]
<1>1. /\ plan[c] \in Nat /\ spec[c] \in Nat /\ sched[c] \in Nat /\ ripe[c] \in Nat
      /\ capacity[c] \in Nat /\ sched[c] <= capacity[c]
  BY DEF Inv, TypeOK
<1>2. spec[c] = plan[c] /\ Pods(c) = spec[c] /\ fresh[c] = 0 /\ (fresh[c] + ripe[c] > 0 => sched[c] >= capacity[c])
  BY DEF Quiet, Propagated, Zero
<1>3. plan[c] = sched[c] + ripe[c]
  BY <1>1, <1>2 DEF Pods
<1>4. info.est[c] = estimateCapacity(c)
  BY DEF Quiet, Observed
<1>5. estimateCapacity(c) =
        IF ~Visible(c) \/ Pods(c) = sched[c] \/ Pods(c) - ripe[c] >= spec[c] THEN Absent
        ELSE IF Pods(c) - ripe[c] < 0 THEN 0 ELSE Pods(c) - ripe[c]
  BY <1>1, <1>2 DEF estimateCapacity
<1>6. CASE ripe[c] = 0
  BY <1>1, <1>2, <1>3, <1>4, <1>5, <1>6
<1>7. CASE ripe[c] > 0
  <2>1. Visible(c)
    BY <1>1, <1>2, <1>3, <1>7 DEF Visible
  <2>2. Pods(c) - ripe[c] = sched[c] /\ Pods(c) # sched[c] /\ ~(Pods(c) - ripe[c] >= spec[c])
    BY <1>1, <1>2, <1>3, <1>7
  <2>3. info.est[c] = sched[c]
    BY <1>1, <1>4, <1>5, <2>1, <2>2
  <2>4. sched[c] = capacity[c] /\ sched[c] < plan[c]
    BY <1>1, <1>2, <1>3, <1>7
  <2> QED BY <1>1, <2>3, <2>4, PlannerAssumption
<1> QED BY <1>1, <1>6, <1>7

LEMMA RoomIs ==
  ASSUME Inv, NEW c \in Cluster
  PROVE  /\ Room(c) \in Nat /\ Room(c) <= capacity[c]
         /\ (policy.max[c] # Absent => policy.max[c] \in Nat /\ Room(c) <= policy.max[c])
         /\ (policy.limit[c] # Absent => policy.limit[c] \in Nat /\ Room(c) <= policy.limit[c])
         /\ \/ Room(c) = capacity[c]
            \/ policy.max[c] # Absent /\ Room(c) = policy.max[c]
            \/ policy.limit[c] # Absent /\ Room(c) = policy.limit[c]
<1>1. capacity[c] \in Nat /\ (policy.max[c] = Absent \/ policy.max[c] \in Nat)
      /\ (policy.limit[c] = Absent \/ policy.limit[c] \in Nat)
  BY PolicyIs DEF Inv, Capacities, Limit
<1> DEFINE top == Cut(capacity[c], policy.max[c])
<1>2. /\ top \in Nat /\ top <= capacity[c] /\ (policy.max[c] # Absent => top <= policy.max[c])
      /\ (top = capacity[c] \/ (policy.max[c] # Absent /\ top = policy.max[c]))
  BY <1>1 DEF Cut, Least2
<1>3. Room(c) = Cut(top, policy.limit[c])
  BY DEF Room
<1> HIDE DEF top
<1>4. /\ Room(c) \in Nat /\ Room(c) <= top /\ (policy.limit[c] # Absent => Room(c) <= policy.limit[c])
      /\ (Room(c) = top \/ (policy.limit[c] # Absent /\ Room(c) = policy.limit[c]))
  BY <1>1, <1>2, <1>3 DEF Cut, Least2
<1> QED BY <1>1, <1>2, <1>4

LEMMA QuietIsSettled ==
  ASSUME Inv, RoomInv, Quiet, Moves
  PROVE  /\ SumOf(sched, Cluster) = Fits
         /\ (Fits = total => SumOf(plan, Cluster) = total)
<1> DEFINE rooms == [c \in Cluster |-> Room(c)]
           est == info.est
           count == total
<1>1. /\ total \in Nat /\ plan \in [Cluster -> Nat] /\ sched \in [Cluster -> Nat]
      /\ capacity \in [Cluster -> Nat] /\ \A c \in Cluster : sched[c] <= capacity[c]
  BY DEF Inv, TypeOK
<1>2. Placed(plan, total, policy.max, policy.limit, est)
  <2>1. seen.total = total /\ seen.tainted = {} /\ seen.info = info
    BY DEF Quiet, Moves, Triggers
  <2>2. Moving /\ seen.total # Absent
    BY <1>1, <2>1, PlannerAssumption DEF Moves, Moving
  <2> QED BY <2>1, <2>2 DEF RoomInv
<1>3. \A c \in Cluster : rooms[c] = Room(c) /\ rooms[c] \in Nat
  BY RoomIs
<1>4. Fits = Least2(total, SumOf(rooms, Cluster))
  BY DEF Fits
<1> HIDE DEF rooms
<1>5. SumOf(rooms, Cluster) \in Int /\ SumOf(sched, Cluster) \in Int /\ SumOf(plan, Cluster) \in Int
  <2>1. \A c \in Cluster : rooms[c] \in Int /\ sched[c] \in Int /\ plan[c] \in Int
    BY <1>1, <1>3
  <2> QED BY <2>1, SumPick
<1>6. CASE SumOf(plan, Cluster) = count /\ \A c \in Cluster : est[c] # Absent => plan[c] <= est[c]
  <2>1. \A c \in Cluster : sched[c] = plan[c]
    <3> TAKE c \in Cluster
    <3>1. \/ est[c] = Absent /\ sched[c] = plan[c]
          \/ est[c] # Absent /\ est[c] = sched[c] /\ sched[c] < plan[c]
      BY QuietPods
    <3>2. sched[c] \in Nat /\ plan[c] \in Nat
      BY <1>1
    <3> QED BY <1>6, <3>1, <3>2
  <2>2. SumOf(sched, Cluster) = SumOf(plan, Cluster)
    <3>1. \A c \in Cluster : sched[c] \in Int /\ plan[c] = sched[c]
      BY <1>1, <2>1
    <3> QED BY <3>1, SumSame
  <2>3. \A c \in Cluster : plan[c] <= rooms[c]
    <3> TAKE c \in Cluster
    <3>1. /\ (policy.max[c] # Absent => plan[c] <= policy.max[c])
          /\ (policy.limit[c] # Absent => plan[c] <= policy.limit[c])
      BY <1>2 DEF Placed
    <3>2. plan[c] <= capacity[c]
      BY <1>1, <2>1
    <3> QED BY <1>3, <3>1, <3>2, RoomIs
  <2>4. SumOf(plan, Cluster) <= SumOf(rooms, Cluster)
    <3>1. \A c \in Cluster : plan[c] \in Int /\ rooms[c] \in Int /\ plan[c] <= rooms[c]
      BY <1>1, <1>3, <2>3
    <3> QED BY <3>1, SumOrder
  <2>5. Fits = total
    BY <1>1, <1>4, <1>5, <1>6, <2>4 DEF Least2
  <2> QED BY <1>6, <2>2, <2>5
<1>7. ASSUME NEW held \in [Cluster -> Nat], SumOf(held, Cluster) < count,
             \A c \in Cluster :
               /\ held[c] <= plan[c] /\ (est[c] # Absent => held[c] <= est[c])
               /\ \/ policy.max[c] # Absent /\ held[c] = policy.max[c]
                  \/ policy.limit[c] # Absent /\ held[c] = policy.limit[c]
                  \/ est[c] # Absent /\ held[c] = est[c]
               /\ (held[c] < plan[c] => est[c] # Absent /\ held[c] = est[c])
      PROVE  /\ SumOf(sched, Cluster) = Fits
             /\ (Fits = total => SumOf(plan, Cluster) = total)
  <2>1. \A c \in Cluster : held[c] = sched[c] /\ rooms[c] = sched[c]
    <3> TAKE c \in Cluster
    <3>1. /\ (policy.max[c] # Absent => policy.max[c] \in Nat /\ plan[c] <= policy.max[c])
          /\ (policy.limit[c] # Absent => policy.limit[c] \in Nat /\ plan[c] <= policy.limit[c])
      BY <1>2, RoomIs DEF Placed
    <3>2. held[c] \in Nat /\ sched[c] \in Nat /\ plan[c] \in Nat /\ capacity[c] \in Nat /\ rooms[c] \in Nat
          /\ sched[c] <= capacity[c]
      BY <1>1, <1>3
    <3>3. CASE est[c] = Absent /\ sched[c] = plan[c]
      <4>1. held[c] = plan[c]
        BY <1>7, <3>2, <3>3
      <4>2. rooms[c] <= plan[c]
        BY <1>3, <1>7, <3>1, <3>3, <4>1, RoomIs
      <4>3. rooms[c] >= plan[c]
        BY <1>3, <3>1, <3>2, <3>3, RoomIs
      <4> QED BY <3>2, <3>3, <4>1, <4>2, <4>3
    <3>4. CASE est[c] # Absent /\ est[c] = sched[c] /\ sched[c] = capacity[c] /\ sched[c] < plan[c]
      <4>1. held[c] = sched[c]
        <5>1. held[c] < plan[c]
          BY <1>7, <3>2, <3>4
        <5> QED BY <1>7, <3>4, <5>1
      <4>2. rooms[c] = capacity[c]
        BY <1>3, <3>1, <3>2, <3>4, RoomIs
      <4> QED BY <3>4, <4>1, <4>2
    <3> QED BY <3>3, <3>4, QuietPods
  <2>2. \A c \in Cluster : sched[c] \in Int
    BY <1>1
  <2>3. SumOf(sched, Cluster) = SumOf(held, Cluster) /\ SumOf(sched, Cluster) = SumOf(rooms, Cluster)
    BY <2>1, <2>2, SumSame
  <2>4. Fits = SumOf(rooms, Cluster) /\ Fits # total
    BY <1>1, <1>4, <1>5, <1>7, <2>3 DEF Least2
  <2> QED BY <2>3, <2>4
<1>8. \/ SumOf(plan, Cluster) = count /\ \A c \in Cluster : est[c] # Absent => plan[c] <= est[c]
      \/ \E held \in [Cluster -> Nat] :
           /\ SumOf(held, Cluster) < count
           /\ \A c \in Cluster :
               /\ held[c] <= plan[c] /\ (est[c] # Absent => held[c] <= est[c])
               /\ \/ policy.max[c] # Absent /\ held[c] = policy.max[c]
                  \/ policy.limit[c] # Absent /\ held[c] = policy.limit[c]
                  \/ est[c] # Absent /\ held[c] = est[c]
               /\ (held[c] < plan[c] => est[c] # Absent /\ held[c] = est[c])
  BY <1>2 DEF Placed
<1> QED BY <1>6, <1>7, <1>8

(* Where the loop of the spreading planner and the automigration controller settles, every replica
   that has room somewhere runs, and once all of them run none is placed beyond the number asked
   for: whatever the capacities, the stale estimates used on the way and the order of the steps.
   The policies have positive weights and no minima: with a minimum the planner lets the same
   replicas overflow twice, and a cluster may end above its maximum. *)
THEOREM AllRoomIsUsed ==
  ASSUME FewWhenDynamic, SpreadOnly, WeightsPositive, NoMinima
  PROVE  Spec => []RoomIsUsed
<1>1. Init => RoomInv
  BY RoomInvInit
<1>2. Inv /\ RoomInv /\ [Next]_vars => RoomInv'
  BY RoomInvNext
<1>3. Inv /\ RoomInv => RoomIsUsed
  BY QuietIsSettled DEF RoomIsUsed
<1> QED BY <1>1, <1>2, <1>3, InvHolds, PTL DEF Spec
=============================================================================
