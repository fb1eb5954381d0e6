--------------------------- MODULE StorefrontProofs ---------------------------
(***************************************************************************)
(* Proofs about Storefront, for any members, orders and catalogue: its     *)
(* types, and that the queries which repeat the same joins agree.          *)
(***************************************************************************)
EXTENDS Storefront, FiniteSetTheorems, WellFoundedInduction, TLAPS

-----------------------------------------------------------------------------
(* Sums over finite sets.  A property of all subsets of a finite set is    *)
(* proved by looking at a least subset that does not have it.              *)
LEMMA LeastSubset ==
  ASSUME NEW S, IsFiniteSet(S), NEW B \in SUBSET SUBSET S, B # {}
  PROVE  \E T \in B : \A U \in SUBSET T : U # T => U \notin B
<1>1. FiniteSubsetsOf(S) = SUBSET S
  BY FS_FiniteSubsetsOfFinite
<1>2. IsWellFoundedOn(StrictSubsetOrdering(S), SUBSET S)
  BY <1>1, FS_StrictSubsetOrderingWellFounded
<1>3. PICK T \in B : \A U \in B : ~(<<U, T>> \in StrictSubsetOrdering(S))
  BY <1>2, WFMin
<1>4. ASSUME NEW U \in SUBSET T, U # T, U \in B PROVE FALSE
  BY <1>3, <1>4 DEF StrictSubsetOrdering
<1> QED
  BY <1>4

Any(s) == CHOOSE x \in s : TRUE
Summing(f, S, g) == [s \in SUBSET S |-> IF s = {} THEN 0 ELSE f[Any(s)] + g[s \ {Any(s)}]]

LEMMA SumUnfolds ==
  ASSUME NEW f, NEW S
  PROVE  SumFunctionOnSet(f, S) = (CHOOSE g : g = Summing(f, S, g))[S]
BY DEF SumFunctionOnSet, FoldFunctionOnSet, MapThenFoldSet, Summing, Any

LEMMA SumExists ==
  ASSUME NEW S, IsFiniteSet(S), NEW f, \A x \in S : f[x] \in Int
  PROVE  \E g : g = Summing(f, S, g)
<1> DEFINE Sums(g, U) == g[U] = IF U = {} THEN 0 ELSE f[Any(U)] + g[U \ {Any(U)}]
           Good(T) == \E g \in [SUBSET S -> Int] :
                        \A U \in SUBSET S : Cardinality(U) <= Cardinality(T) => Sums(g, U)
<1>1. \A U \in SUBSET S : IsFiniteSet(U) /\ Cardinality(U) \in Nat
  BY FS_Subset, FS_CardinalityType
<1>2. \A U \in SUBSET S : Cardinality(U) = 0 <=> U = {}
  BY <1>1, FS_EmptySet
<1>3. \A U \in SUBSET S : U # {} => Any(U) \in U
  BY DEF Any
<1>4. \A U \in SUBSET S : \A x \in U : Cardinality(U \ {x}) = Cardinality(U) - 1
  BY <1>1, FS_RemoveElement
<1>5. Good({})
  <2> DEFINE g == [U \in SUBSET S |-> 0]
  <2>1. g \in [SUBSET S -> Int]
    OBVIOUS
  <2>2. ASSUME NEW U \in SUBSET S, Cardinality(U) <= Cardinality({}) PROVE Sums(g, U)
    <3>1. U = {}
      BY <1>1, <1>2, <2>2
    <3> QED
      BY <3>1
  <2> QED
    BY <2>1, <2>2
<1>6. ASSUME NEW T \in SUBSET S, T # {}, \A U \in SUBSET T : U # T => Good(U) PROVE Good(T)
  <2>1. PICK x \in T : TRUE
    BY <1>6
  <2>2. Good(T \ {x})
    BY <1>6
  <2>3. PICK g \in [SUBSET S -> Int] :
          \A U \in SUBSET S : Cardinality(U) <= Cardinality(T \ {x}) => Sums(g, U)
    BY <2>2
  <2> DEFINE h == [U \in SUBSET S |-> IF U = {} THEN 0 ELSE f[Any(U)] + g[U \ {Any(U)}]]
  <2>4. h \in [SUBSET S -> Int]
    <3> SUFFICES ASSUME NEW U \in SUBSET S, U # {} PROVE f[Any(U)] + g[U \ {Any(U)}] \in Int
      OBVIOUS
    <3>1. Any(U) \in S /\ U \ {Any(U)} \in SUBSET S
      BY <1>3
    <3>2. f[Any(U)] \in Int /\ g[U \ {Any(U)}] \in Int
      BY <3>1
    <3> QED
      BY <3>2
  <2>5. ASSUME NEW U \in SUBSET S, Cardinality(U) <= Cardinality(T) PROVE Sums(h, U)
    <3>1. CASE U = {}
      BY <3>1
    <3>2. CASE U # {}
      <4> DEFINE V == U \ {Any(U)}
      <4>1. V \in SUBSET S /\ Cardinality(V) = Cardinality(U) - 1
        BY <1>3, <1>4, <3>2
      <4>2. Cardinality(T \ {x}) = Cardinality(T) - 1
        BY <1>4
      <4>3. Cardinality(V) <= Cardinality(T \ {x})
        BY <1>1, <2>5, <4>1, <4>2
      <4>4. Sums(g, V)
        BY <2>3, <4>1, <4>3
      <4> HIDE DEF V
      <4>5. h[V] = g[V]
        BY <4>1, <4>4
      <4>6. h[U] = f[Any(U)] + g[V]
        BY <3>2 DEF V
      <4> QED
        BY <3>2, <4>5, <4>6 DEF V
    <3> QED
      BY <3>1, <3>2
  <2> HIDE DEF h, Sums
  <2> QED
    BY <2>4, <2>5
<1> HIDE DEF Good
<1>7. Good(S)
  <2> DEFINE B == {T \in SUBSET S : ~Good(T)}
  <2>1. CASE B = {}
    BY <2>1
  <2>2. CASE B # {}
    <3> B \in SUBSET SUBSET S
      OBVIOUS
    <3>1. PICK T \in B : \A U \in SUBSET T : U # T => U \notin B
      <4> HIDE DEF B
      <4> QED
        BY <2>2, LeastSubset
    <3>2. T \in SUBSET S /\ \A U \in SUBSET T : U # T => Good(U)
      BY <3>1
    <3>3. Good(T)
      BY <1>5, <1>6, <3>2
    <3> QED
      BY <3>1, <3>3
  <2> QED
    BY <2>1, <2>2
<1>8. PICK g \in [SUBSET S -> Int] :
        \A U \in SUBSET S : Cardinality(U) <= Cardinality(S) => Sums(g, U)
  BY <1>7 DEF Good
<1>9. \A U \in SUBSET S : Cardinality(U) <= Cardinality(S)
  BY FS_Subset
<1>10. \A U \in SUBSET S : g[U] = IF U = {} THEN 0 ELSE f[Any(U)] + g[U \ {Any(U)}]
  BY <1>8, <1>9
<1>11. g = Summing(f, S, g)
  BY <1>10 DEF Summing
<1> QED
  BY <1>11

(* The sum over a set takes its elements in any order.                     *)
Additive(f, S, g) ==
  /\ g \in [SUBSET S -> Int] /\ g[{}] = 0
  /\ \A T \in SUBSET S : \A x \in T : g[T] = f[x] + g[T \ {x}]

LEMMA SumIsAdditive ==
  ASSUME NEW S, IsFiniteSet(S), NEW f, \A x \in S : f[x] \in Int
  PROVE  \E g : Additive(f, S, g) /\ SumFunctionOnSet(f, S) = g[S]
<1> DEFINE g == CHOOSE h : h = Summing(f, S, h)
<1>1. g = Summing(f, S, g)
  BY SumExists
<1>2. SumFunctionOnSet(f, S) = g[S]
  BY SumUnfolds
<1> HIDE DEF g
<1>3. DOMAIN g = SUBSET S /\ g = [T \in SUBSET S |-> g[T]]
  BY <1>1 DEF Summing
<1>4. g[{}] = 0 /\ \A T \in SUBSET S : T # {} => g[T] = f[Any(T)] + g[T \ {Any(T)}]
  BY <1>1 DEF Summing
<1>5. \A T \in SUBSET S : T # {} => Any(T) \in T
  BY DEF Any
<1>6. \A T \in SUBSET S : g[T] \in Int
  <2> DEFINE B == {T \in SUBSET S : g[T] \notin Int}
  <2>1. ASSUME B # {} PROVE FALSE
    <3>1. B \in SUBSET SUBSET S
      OBVIOUS
    <3>2. PICK T \in B : \A U \in SUBSET T : U # T => U \notin B
      <4> HIDE DEF B
      <4> QED
        BY <2>1, <3>1, LeastSubset
    <3>2a. g[{}] = 0
      BY <1>4
    <3>2b. T \in SUBSET S /\ g[T] \notin Int
      OBVIOUS
    <3>3. T \in SUBSET S /\ T # {}
      BY <3>2a, <3>2b
    <3>4. Any(T) \in T /\ g[T] = f[Any(T)] + g[T \ {Any(T)}]
      BY <1>4, <1>5, <3>3
    <3>5. T \ {Any(T)} \in SUBSET T /\ T \ {Any(T)} # T
      BY <3>4
    <3>6. g[T \ {Any(T)}] \in Int
      BY <3>2, <3>3, <3>5
    <3> QED
      BY <3>3, <3>4, <3>6
  <2> QED
    BY <2>1
<1>7. \A T \in SUBSET S : \A x \in T : g[T] = f[x] + g[T \ {x}]
  <2> DEFINE Free(T) == \A x \in T : g[T] = f[x] + g[T \ {x}]
             B == {T \in SUBSET S : ~Free(T)}
  <2>1. ASSUME B # {} PROVE FALSE
    <3>1. B \in SUBSET SUBSET S
      OBVIOUS
    <3>2. PICK T \in B : \A U \in SUBSET T : U # T => U \notin B
      <4> HIDE DEF B
      <4> QED
        BY <2>1, <3>1, LeastSubset
    <3>3. T \in SUBSET S /\ ~Free(T)
      OBVIOUS
    <3>3a. \A U \in SUBSET T : U # T => Free(U)
      BY <3>2
    <3> HIDE DEF B
    <3>4. PICK x \in T : g[T] # f[x] + g[T \ {x}]
      BY <3>3
    <3> DEFINE y == Any(T)
    <3>5. y \in T /\ g[T] = f[y] + g[T \ {y}] /\ x # y
      BY <1>4, <1>5, <3>3, <3>4
    <3> HIDE DEF y
    <3>6. Free(T \ {x}) /\ Free(T \ {y})
      <4>1. T \ {x} \in SUBSET T /\ T \ {x} # T /\ T \ {y} \in SUBSET T /\ T \ {y} # T
        BY <3>4, <3>5
      <4> QED
        BY <3>3a, <4>1
    <3>7. g[T \ {x}] = f[y] + g[(T \ {x}) \ {y}] /\ g[T \ {y}] = f[x] + g[(T \ {y}) \ {x}]
      BY <3>4, <3>5, <3>6
    <3>8. (T \ {x}) \ {y} = (T \ {y}) \ {x}
      OBVIOUS
    <3>9. f[x] \in Int /\ f[y] \in Int /\ g[(T \ {y}) \ {x}] \in Int
      <4>1. (T \ {y}) \ {x} \in SUBSET S /\ x \in S /\ y \in S
        BY <3>3, <3>5
      <4> QED
        BY <1>6, <4>1
    <3> DEFINE a == f[x]
               b == f[y]
               r == g[(T \ {y}) \ {x}]
    <3>10. g[T] = b + (a + r) /\ g[T \ {x}] = b + r
      BY <3>5, <3>7, <3>8
    <3>11. a \in Int /\ b \in Int /\ r \in Int
      BY <3>9
    <3>12. g[T] # a + g[T \ {x}]
      BY <3>4
    <3> HIDE DEF a, b, r
    <3>13. b + (a + r) = a + (b + r)
      BY <3>11
    <3> QED
      BY <3>10, <3>12, <3>13
  <2> QED
    BY <2>1
<1> QED
  BY <1>2, <1>3, <1>4, <1>6, <1>7 DEF Additive

LEMMA SumTyped ==
  ASSUME NEW S, IsFiniteSet(S), NEW f, \A x \in S : f[x] \in Int
  PROVE  SumFunctionOnSet(f, S) \in Int
<1>1. PICK g : Additive(f, S, g) /\ SumFunctionOnSet(f, S) = g[S]
  BY SumIsAdditive
<1>2. g \in [SUBSET S -> Int] /\ S \in SUBSET S
  BY <1>1 DEF Additive
<1> QED
  BY <1>1, <1>2

LEMMA SumGrows ==
  ASSUME NEW S, IsFiniteSet(S), NEW f, NEW h,
         \A x \in S : f[x] \in Int /\ h[x] \in Int /\ f[x] <= h[x]
  PROVE  SumFunctionOnSet(f, S) <= SumFunctionOnSet(h, S)
<1>1. PICK g : Additive(f, S, g) /\ SumFunctionOnSet(f, S) = g[S]
  BY SumIsAdditive
<1>2. PICK k : Additive(h, S, k) /\ SumFunctionOnSet(h, S) = k[S]
  BY SumIsAdditive
<1> DEFINE B == {T \in SUBSET S : ~(g[T] <= k[T])}
<1>3. ASSUME B # {} PROVE FALSE
  <2>1. B \in SUBSET SUBSET S
    OBVIOUS
  <2>2. PICK T \in B : \A U \in SUBSET T : U # T => U \notin B
    <3> HIDE DEF B
    <3> QED
      BY <1>3, <2>1, LeastSubset
  <2>3. T \in SUBSET S /\ ~(g[T] <= k[T])
    OBVIOUS
  <2>3a. g[{}] = 0 /\ k[{}] = 0
    BY <1>1, <1>2 DEF Additive
  <2>3c. \A U \in SUBSET T : U # T => g[U] <= k[U]
    BY <2>2
  <2> HIDE DEF B
  <2>3b. g[{}] <= k[{}]
    BY <2>3a
  <2>4. T # {}
    BY <2>3, <2>3b
  <2>5. PICK x \in T : TRUE
    BY <2>4
  <2>6. g[T] = f[x] + g[T \ {x}] /\ k[T] = h[x] + k[T \ {x}]
    BY <1>1, <1>2, <2>3 DEF Additive
  <2>7. T \ {x} \in SUBSET T /\ T \ {x} # T /\ T \ {x} \in SUBSET S /\ x \in S
    BY <2>3
  <2>8. g[T \ {x}] <= k[T \ {x}]
    BY <2>3c, <2>7
  <2>9. g[T \ {x}] \in Int /\ k[T \ {x}] \in Int /\ f[x] \in Int /\ h[x] \in Int /\ f[x] <= h[x]
    BY <1>1, <1>2, <2>7 DEF Additive
  <2> QED
    BY <2>3, <2>6, <2>8, <2>9
<1> QED
  BY <1>1, <1>2, <1>3

(* A part of a sum of natural numbers is no larger than the whole.         *)
LEMMA SumOfPart ==
  ASSUME NEW S, IsFiniteSet(S), NEW T \in SUBSET S, NEW f, \A x \in S : f[x] \in Nat
  PROVE  SumFunctionOnSet(f, T) <= SumFunctionOnSet(f, S)
<1>1. IsFiniteSet(T) /\ (\A x \in S : f[x] \in Int) /\ (\A x \in T : f[x] \in Int)
  BY FS_Subset
<1>2. PICK g : Additive(f, S, g) /\ SumFunctionOnSet(f, S) = g[S]
  BY <1>1, SumIsAdditive
<1>3. PICK k : Additive(f, T, k) /\ SumFunctionOnSet(f, T) = k[T]
  BY <1>1, SumIsAdditive
<1> DEFINE B == {U \in SUBSET S : ~(k[U \cap T] <= g[U])}
<1>4. ASSUME B # {} PROVE FALSE
  <2>1. B \in SUBSET SUBSET S
    OBVIOUS
  <2>2. PICK U \in B : \A V \in SUBSET U : V # U => V \notin B
    <3> HIDE DEF B
    <3> QED
      BY <1>4, <2>1, LeastSubset
  <2>3. U \in SUBSET S /\ ~(k[U \cap T] <= g[U])
    OBVIOUS
  <2>4. \A V \in SUBSET U : V # U => k[V \cap T] <= g[V]
    BY <2>2
  <2> HIDE DEF B
  <2>5. U # {}
    <3>1. k[{}] = 0 /\ g[{}] = 0
      BY <1>2, <1>3 DEF Additive
    <3>2. k[{}] <= g[{}]
      BY <3>1
    <3>3. {} \cap T = {}
      OBVIOUS
    <3> QED
      BY <2>3, <3>2, <3>3
  <2>6. PICK x \in U : TRUE
    BY <2>5
  <2> DEFINE V == U \ {x}
  <2>7. V \in SUBSET U /\ V # U /\ V \in SUBSET S /\ x \in S
    BY <2>3
  <2>8. k[V \cap T] <= g[V]
    BY <2>4, <2>7
  <2>9. g[U] = f[x] + g[V] /\ g[V] \in Int /\ f[x] \in Nat
    BY <1>2, <2>3, <2>7 DEF Additive
  <2>10. k[V \cap T] \in Int
    <3>1. V \cap T \in SUBSET T
      OBVIOUS
    <3> QED
      BY <1>3, <3>1 DEF Additive
  <2>11. k[U \cap T] = IF x \in T THEN f[x] + k[V \cap T] ELSE k[V \cap T]
    <3>1. CASE x \in T
      <4>1. x \in U \cap T /\ U \cap T \in SUBSET T /\ V \cap T = (U \cap T) \ {x}
        BY <3>1
      <4> HIDE DEF V
      <4>2. k[U \cap T] = f[x] + k[(U \cap T) \ {x}]
        BY <1>3, <4>1 DEF Additive
      <4> QED
        BY <3>1, <4>1, <4>2
    <3>2. CASE x \notin T
      <4>1. V \cap T = U \cap T
        BY <3>2
      <4> HIDE DEF V
      <4> QED
        BY <3>2, <4>1
    <3> QED
      BY <3>1, <3>2
  <2> HIDE DEF V
  <2> QED
    BY <2>3, <2>8, <2>9, <2>10, <2>11
<1>5. S \notin B /\ S \cap T = T
  BY <1>4
<1>6. k[S \cap T] <= g[S]
  BY <1>5
<1> QED
  BY <1>2, <1>3, <1>5, <1>6

LEMMA SumAdds ==
  ASSUME NEW S, IsFiniteSet(S), NEW f, NEW h, NEW e,
         \A x \in S : f[x] \in Int /\ h[x] \in Int /\ e[x] = f[x] + h[x]
  PROVE  SumFunctionOnSet(e, S) = SumFunctionOnSet(f, S) + SumFunctionOnSet(h, S)
<1>1. PICK g : Additive(f, S, g) /\ SumFunctionOnSet(f, S) = g[S]
  BY SumIsAdditive
<1>2. PICK k : Additive(h, S, k) /\ SumFunctionOnSet(h, S) = k[S]
  BY SumIsAdditive
<1>3. \A x \in S : e[x] \in Int
  OBVIOUS
<1>4. PICK q : Additive(e, S, q) /\ SumFunctionOnSet(e, S) = q[S]
  BY <1>3, SumIsAdditive
<1> DEFINE B == {T \in SUBSET S : q[T] # g[T] + k[T]}
<1>5. ASSUME B # {} PROVE FALSE
  <2>1. B \in SUBSET SUBSET S
    OBVIOUS
  <2>2. PICK T \in B : \A U \in SUBSET T : U # T => U \notin B
    <3> HIDE DEF B
    <3> QED
      BY <1>5, <2>1, LeastSubset
  <2>3. T \in SUBSET S /\ q[T] # g[T] + k[T]
    OBVIOUS
  <2>3a. g[{}] = 0 /\ k[{}] = 0 /\ q[{}] = 0
    BY <1>1, <1>2, <1>4 DEF Additive
  <2>3b. q[{}] = g[{}] + k[{}]
    BY <2>3a
  <2>4. T # {}
    BY <2>3, <2>3b
  <2>5. PICK x \in T : TRUE
    BY <2>4
  <2>6. g[T] = f[x] + g[T \ {x}] /\ k[T] = h[x] + k[T \ {x}] /\ q[T] = e[x] + q[T \ {x}]
    BY <1>1, <1>2, <1>4, <2>3 DEF Additive
  <2>7. T \ {x} \in SUBSET T /\ T \ {x} # T /\ T \ {x} \in SUBSET S /\ x \in S
    BY <2>3
  <2>8. q[T \ {x}] = g[T \ {x}] + k[T \ {x}]
    BY <2>2, <2>7
  <2>9. g[T \ {x}] \in Int /\ k[T \ {x}] \in Int /\ f[x] \in Int /\ h[x] \in Int
        /\ e[x] = f[x] + h[x]
    BY <1>1, <1>2, <2>7 DEF Additive
  <2> QED
    BY <2>3, <2>6, <2>8, <2>9
<1> QED
  BY <1>1, <1>2, <1>4, <1>5

AllOf(F, S) == UNION {F[x] : x \in S}

(* The sum of the sizes of disjoint sets is the size of their union.       *)
LEMMA SumOfSizes ==
  ASSUME NEW S, IsFiniteSet(S), NEW f, NEW F,
         \A x \in S : IsFiniteSet(F[x]) /\ f[x] = Cardinality(F[x]),
         \A x, y \in S : x # y => F[x] \cap F[y] = {}
  PROVE  IsFiniteSet(AllOf(F, S)) /\ SumFunctionOnSet(f, S) = Cardinality(AllOf(F, S))
<1>1. \A x \in S : f[x] \in Int
  BY FS_CardinalityType
<1>2. PICK g : Additive(f, S, g) /\ SumFunctionOnSet(f, S) = g[S]
  BY <1>1, SumIsAdditive
<1> DEFINE All(T) == AllOf(F, T)
           Sized(T) == IsFiniteSet(All(T)) /\ g[T] = Cardinality(All(T))
           B == {T \in SUBSET S : ~Sized(T)}
<1>3. ASSUME B # {} PROVE FALSE
  <2>1. B \in SUBSET SUBSET S
    OBVIOUS
  <2>2. PICK T \in B : \A U \in SUBSET T : U # T => U \notin B
    <3> HIDE DEF B
    <3> QED
      BY <1>3, <2>1, LeastSubset
  <2>3. T \in SUBSET S /\ ~Sized(T)
    OBVIOUS
  <2>4. CASE T = {}
    <3>1. All(T) = {}
      BY <2>4 DEF AllOf
    <3>2. IsFiniteSet({}) /\ Cardinality({}) = 0
      BY FS_EmptySet
    <3> QED
      BY <1>2, <2>3, <2>4, <3>1, <3>2 DEF Additive
  <2>5. CASE T # {}
    <3>1. PICK x \in T : TRUE
      BY <2>5
    <3>2. g[T] = f[x] + g[T \ {x}]
      BY <1>2, <2>3 DEF Additive
    <3>3. T \ {x} \in SUBSET T /\ T \ {x} # T /\ T \ {x} \in SUBSET S /\ x \in S
      BY <2>3
    <3>4. Sized(T \ {x})
      BY <2>2, <3>3
    <3>5. All(T) = F[x] \cup All(T \ {x}) /\ F[x] \cap All(T \ {x}) = {}
      BY <2>3 DEF AllOf
    <3>6. IsFiniteSet(F[x]) /\ IsFiniteSet(All(T \ {x}))
      BY <3>3, <3>4
    <3> DEFINE P == F[x]
               Q == All(T \ {x})
    <3> HIDE DEF P, Q, All
    <3>7. /\ IsFiniteSet(P \cup Q)
          /\ Cardinality(P \cup Q) =
               Cardinality(P) + Cardinality(Q) - Cardinality(P \cap Q)
      BY <3>6, FS_Union DEF P, Q
    <3>8. P \cap Q = {} /\ Cardinality({}) = 0 /\ Cardinality(P) \in Nat /\ Cardinality(Q) \in Nat
      BY <3>5, <3>6, FS_EmptySet, FS_CardinalityType DEF P, Q
    <3>8a. All(T) = P \cup Q /\ Cardinality(P \cap Q) = 0
      BY <3>5, <3>8 DEF P, Q
    <3>8b. Cardinality(P) + Cardinality(Q) - Cardinality(P \cap Q) = Cardinality(P) + Cardinality(Q)
      BY <3>8, <3>8a
    <3>9. IsFiniteSet(All(T)) /\ Cardinality(All(T)) = Cardinality(P) + Cardinality(Q)
      BY <3>7, <3>8a, <3>8b
    <3>10. f[x] = Cardinality(P) /\ g[T \ {x}] = Cardinality(Q)
      BY <3>3, <3>4 DEF P, Q
    <3> QED
      BY <2>3, <3>2, <3>9, <3>10
  <2> QED
    BY <2>4, <2>5
<1> QED
  BY <1>2, <1>3

-----------------------------------------------------------------------------
(* Types.                                                                  *)

(* What a purchase writes.                                                 *)
Bought(o, m, deal) ==
  [member |-> m, status |-> "UNPAID", discounts |-> deal.discounts,
   fee |-> deal.fee, transfers |-> 0]

LEMMA PurchaseWrites ==
  ASSUME OrdersTypeOK, NEW o \in OrderIds, NEW m \in Members, NEW cart \in SUBSET LineIds,
         Purchase(o, m, cart)
  PROVE  /\ orders[o] = NULL
         /\ \E deal \in Deal :
              /\ Bought(o, m, deal) \in OrderLog
              /\ orders' = [orders EXCEPT ![o] = Bought(o, m, deal)]
              /\ \A k \in deal.discounts \cap Coupons : WalletOf[k] = m
         /\ \E choice \in [cart -> shelf] : lines' = [l \in LineIds |->
              IF l \notin cart THEN lines[l] ELSE
                [order |-> o, product |-> choice[l].product, deliveredAt |-> NULL,
                 startedAt |-> choice[l].startedAt, endedAt |-> choice[l].endedAt]]
<1>1. PICK choice \in [cart -> shelf] : \E deal \in UNION {DealsOf[choice[l].product] : l \in cart} :
        /\ \A k \in deal.discounts \cap Coupons :
             WalletOf[k] = m /\ \A q \in Placed : k \notin orders[q].discounts
        /\ orders' = [orders EXCEPT ![o] =
             [member |-> m, status |-> "UNPAID", discounts |-> deal.discounts,
              fee |-> deal.fee, transfers |-> 0]]
        /\ lines' = [i \in LineIds |->
             IF i \notin cart THEN lines[i] ELSE
               [order |-> o, product |-> choice[i].product, deliveredAt |-> NULL,
                startedAt |-> choice[i].startedAt, endedAt |-> choice[i].endedAt]]
  BY DEF Purchase
<1>2. PICK deal \in UNION {DealsOf[choice[l].product] : l \in cart} :
        /\ \A k \in deal.discounts \cap Coupons : WalletOf[k] = m
        /\ orders' = [orders EXCEPT ![o] = Bought(o, m, deal)]
        /\ lines' = [i \in LineIds |->
             IF i \notin cart THEN lines[i] ELSE
               [order |-> o, product |-> choice[i].product, deliveredAt |-> NULL,
                startedAt |-> choice[i].startedAt, endedAt |-> choice[i].endedAt]]
  BY <1>1, Zenon DEF Bought
<1>3. PICK l \in cart : deal \in DealsOf[choice[l].product]
  OBVIOUS
<1>4. deal \in Deal
  <2>1. choice[l] \in Offer
    BY OrdersAssumption DEF OrdersTypeOK
  <2>2. choice[l].product \in Products
    BY <2>1 DEF Offer
  <2>3. DealsOf[choice[l].product] \subseteq Deal
    BY <2>2, OrdersAssumption
  <2> QED
    BY <1>3, <2>3
<1>5. Bought(o, m, deal) \in OrderLog
  BY <1>4, OrdersAssumption DEF Bought, Deal, OrderLog, Statuses
<1> QED
  BY <1>2, <1>4, <1>5 DEF Purchase

LEMMA OrdersKeepTypes ==
  ASSUME OrdersTypeOK, OrdersNext
  PROVE  OrdersTypeOK'
<1> USE DEF OrdersTypeOK
<1>1. ASSUME NEW o \in OrderIds, NEW m \in Members, NEW cart \in SUBSET LineIds,
             Purchase(o, m, cart)
      PROVE OrdersTypeOK'
  <2>1. orders' \in [OrderIds -> OrderLog \cup {NULL}]
    BY <1>1, PurchaseWrites
  <2>2. lines' \in [LineIds -> OrderProduct \cup {NULL}]
    <3>1. PICK choice \in [cart -> shelf] : lines' = [l \in LineIds |->
            IF l \notin cart THEN lines[l] ELSE
              [order |-> o, product |-> choice[l].product, deliveredAt |-> NULL,
               startedAt |-> choice[l].startedAt, endedAt |-> choice[l].endedAt]]
      BY <1>1, PurchaseWrites
    <3>2. \A l \in cart : choice[l] \in Offer
      BY OrdersAssumption
    <3> QED
      BY <3>1, <3>2 DEF OrderProduct, Offer, Moment
  <2> QED
    BY <1>1, <2>1, <2>2 DEF Purchase
<1>2. ASSUME NEW o \in OrderIds, Pay(o) \/ Refund(o) PROVE OrdersTypeOK'
  <2>1. o \in Placed /\ orders[o] \in OrderLog
    BY <1>2 DEF Pay, Refund, Placed
  <2>2. orders' \in [OrderIds -> OrderLog \cup {NULL}]
    <3>1. PICK s \in Statuses : orders' = [orders EXCEPT ![o].status = s]
      BY <1>2 DEF Pay, Refund, Statuses
    <3>2. [orders[o] EXCEPT !.status = s] \in OrderLog
      BY <2>1 DEF OrderLog
    <3> QED
      BY <3>1, <3>2
  <2>3. \A l \in Sold : lines[l] \in OrderProduct
    BY DEF Sold
  <2>4. ASSUME NEW t \in Moment,
               lines' = [l \in LineIds |->
                 IF l \in Sold /\ lines[l].order = o
                   THEN [lines[l] EXCEPT !.deliveredAt = t] ELSE lines[l]]
        PROVE lines' \in [LineIds -> OrderProduct \cup {NULL}]
    BY <2>3, <2>4 DEF OrderProduct
  <2>5. lines' \in [LineIds -> OrderProduct \cup {NULL}]
    BY <1>2, <2>4 DEF Pay, Refund, Moment
  <2> QED
    BY <1>2, <2>2, <2>5 DEF Pay, Refund
<1>3. ASSUME NEW o \in OrderIds, NEW m \in Members, TransferReceivedOrder(o, m)
      PROVE OrdersTypeOK'
  <2>1. o \in Placed /\ orders[o] \in OrderLog /\ orders[o].transfers < MaxTransfers
    BY <1>3 DEF TransferReceivedOrder, Placed
  <2> DEFINE row == [orders[o] EXCEPT !.member = m, !.transfers = orders[o].transfers + 1]
  <2>2. row \in OrderLog
    <3>1. orders[o].transfers \in 0 .. MaxTransfers
      BY <2>1 DEF OrderLog
    <3>2. orders[o].transfers + 1 \in 0 .. MaxTransfers
      BY <2>1, <3>1, OrdersAssumption
    <3> QED
      BY <2>1, <3>2 DEF OrderLog
  <2>3. orders' = [orders EXCEPT ![o] = row]
    BY <1>3 DEF TransferReceivedOrder
  <2> HIDE DEF row
  <2> QED
    BY <1>3, <2>2, <2>3 DEF TransferReceivedOrder
<1>4. CASE Tick
  BY <1>4, OrdersAssumption DEF Tick, Time
<1> QED
  BY <1>1, <1>2, <1>3, <1>4 DEF OrdersNext

(* A call writes a row of its types: nothing it reads or sends is beyond   *)
(* 0 .. 100.                                                               *)
LEMMA UpsertedTyped ==
  ASSUME NEW c, c.sent \in 0 .. 100 \cup {NoRow}, c.last \in 0 .. 100 \cup {NoRow},
         c.read \in ProgramContentProgress \cup {NoRow}
  PROVE  Upserted(c) \in ProgramContentProgress
<1>1. CASE c.read = NoRow
  BY <1>1 DEF Upserted, ProgramContentProgress
<1>2. CASE c.read # NoRow
  <2>1. c.read.progress \in 0 .. 100 /\ c.read.last \in 0 .. 100
    BY <1>2 DEF ProgramContentProgress
  <2>2. CASE c.sent = NoRow
    BY <1>2, <2>1, <2>2 DEF Upserted, ProgramContentProgress
  <2>3. CASE c.sent # NoRow
    BY <1>2, <2>1, <2>3 DEF Upserted, ProgramContentProgress
  <2> QED
    BY <2>2, <2>3
<1> QED
  BY <1>1, <1>2

LEMMA ProgressKeepsTypes ==
  ASSUME ProgressTypeOK, ProgressNext
  PROVE  ProgressTypeOK'
<1> USE DEF ProgressTypeOK
<1> DEFINE Rows == Viewers \X Clips
           Tracked == [row: Rows, sent: Reports \cup {NoRow}, last: Positions \cup {NoRow},
                       read: ProgramContentProgress \cup {NoRow}, stale: BOOLEAN]
<1>1. ASSUME NEW k \in Calls, NEW r \in Rows, NEW sent \in Reports \cup {NoRow},
             NEW last \in Positions \cup {NoRow}, TrackRead(k, r, sent, last)
      PROVE ProgressTypeOK'
  BY <1>1 DEF TrackRead
<1>2. ASSUME NEW k \in Calls, TrackWrite(k) PROVE ProgressTypeOK'
  <2>1. call[k] \in Tracked
    BY <1>2 DEF TrackWrite
  <2>2. Upserted(call[k]) \in ProgramContentProgress
    <3>1. /\ call[k].sent \in 0 .. 100 \cup {NoRow} /\ call[k].last \in 0 .. 100 \cup {NoRow}
          /\ call[k].read \in ProgramContentProgress \cup {NoRow}
      BY <2>1, ProgressAssumption
    <3> QED
      BY <3>1, UpsertedTyped
  <2>3. progress' \in [Rows -> ProgramContentProgress \cup {NoRow}]
    <3>1. progress' = [progress EXCEPT ![call[k].row] = Upserted(call[k])]
      BY <1>2 DEF TrackWrite
    <3> QED
      BY <2>2, <3>1
  <2>4. call' \in [Calls -> Tracked \cup {NoRow}]
    <3>1. call' = [q \in Calls |->
            IF q = k THEN NoRow
            ELSE IF call[q] # NoRow /\ call[q].row = call[k].row
              THEN [call[q] EXCEPT !.stale = TRUE] ELSE call[q]]
      BY <1>2 DEF TrackWrite
    <3>2. ASSUME NEW q \in Calls, call[q] # NoRow PROVE [call[q] EXCEPT !.stale = TRUE] \in Tracked
      <4>1. call[q] \in Tracked
        BY <3>2
      <4> QED
        BY <4>1
    <3> QED
      BY <3>1, <3>2
  <2>5. raced' \subseteq Rows
    BY <1>2, <2>1 DEF TrackWrite
  <2> QED
    BY <2>3, <2>4, <2>5
<1>3. ASSUME NEW k \in Calls, TrackFail(k) PROVE ProgressTypeOK'
  BY <1>3 DEF TrackFail
<1>4. \A body \in Bodies : body[1] \in Reports \cup {NoRow} /\ body[2] \in Positions \cup {NoRow}
  BY ProgressAssumption
<1> QED
  BY <1>1, <1>2, <1>3, <1>4 DEF ProgressNext

LEMMA CatalogueKeepsTypes ==
  ASSUME TypeOK, CatalogueStep
  PROVE  ProgramsTypeOK'
<1> USE DEF TypeOK, ProgramsTypeOK, OrdersTypeOK
<1>1. ASSUME NEW c \in ContentChanges, PublishContent(c) PROVE ProgramsTypeOK'
  BY <1>1 DEF PublishContent, Moment
<1>2. ASSUME NEW p \in ProgramChanges, ReleaseProgram(p) PROVE ProgramsTypeOK'
  BY <1>2, StorefrontAssumption DEF ReleaseProgram
<1>3. ASSUME NEW delivery \in TempoChanges, DeliverTempo(delivery[1], delivery[2])
      PROVE ProgramsTypeOK'
  BY <1>3, StorefrontAssumption DEF DeliverTempo, Moment
<1> QED
  BY <1>1, <1>2, <1>3 DEF CatalogueStep

LEMMA InitTyped == Init => TypeOK
<1> SUFFICES ASSUME Init PROVE TypeOK
  OBVIOUS
<1>1. OrdersTypeOK
  BY OrdersAssumption DEF Init, OrdersInit, OrdersTypeOK, Time
<1>2. ProgramsTypeOK
  BY OrdersAssumption DEF Init, ProgramsInit, ProgramsTypeOK, Moment, Time
<1>3. ActivitiesTypeOK /\ ProgressTypeOK
  BY DEF Init, ActivitiesInit, ActivitiesTypeOK, ProgressInit, ProgressTypeOK
<1>4. focus \in {"orders", "progress"}
  BY StorefrontAssumption DEF Init
<1> QED
  BY <1>1, <1>2, <1>3, <1>4 DEF TypeOK

LEMMA NextTyped == TypeOK /\ [Next]_vars => TypeOK'
<1> SUFFICES ASSUME TypeOK, [Next]_vars PROVE TypeOK'
  OBVIOUS
<1>1. CASE OrdersStep
  <2>1. OrdersTypeOK'
    BY <1>1, OrdersKeepTypes DEF OrdersStep, TypeOK
  <2> QED
    BY <1>1, <2>1 DEF OrdersStep, TypeOK, ProgramsTypeOK, ActivitiesTypeOK, ProgressTypeOK,
                      programVars, progressVars
<1>2. CASE CatalogueStep
  <2>1. ProgramsTypeOK'
    BY <1>2, CatalogueKeepsTypes
  <2> QED
    BY <1>2, <2>1 DEF CatalogueStep, TypeOK, OrdersTypeOK, ActivitiesTypeOK, ProgressTypeOK,
                      orderVars, progressVars
<1>3. CASE DoorStep
  <2>1. PICK l \in LineIds, s \in Sessions : attendance' = attendance \cup {<<l, s>>}
    BY <1>3 DEF DoorStep, Attend
  <2>2. ActivitiesTypeOK'
    BY <2>1 DEF TypeOK, ActivitiesTypeOK
  <2> QED
    BY <1>3, <2>2 DEF DoorStep, TypeOK, OrdersTypeOK, ProgramsTypeOK, ProgressTypeOK,
                      orderVars, programVars, progressVars
<1>4. CASE ProgressStep
  <2>1. ProgressTypeOK'
    BY <1>4, ProgressKeepsTypes DEF ProgressStep, TypeOK
  <2> QED
    BY <1>4, <2>1 DEF ProgressStep, TypeOK, OrdersTypeOK, ProgramsTypeOK, ActivitiesTypeOK,
                      orderVars, programVars
<1>5. CASE UNCHANGED vars
  BY <1>5 DEF vars, TypeOK, OrdersTypeOK, ProgramsTypeOK, ActivitiesTypeOK, ProgressTypeOK,
              orderVars, programVars, progressVars
<1> QED
  BY <1>1, <1>2, <1>3, <1>4, <1>5 DEF Next

(* The state of the storefront keeps its types: no order is transferred    *)
(* beyond the bound, and no progress leaves 0 .. 100.                      *)
THEOREM StorefrontTyped == Spec => []TypeOK
BY InitTyped, NextTyped, PTL DEF Spec

-----------------------------------------------------------------------------
(* Coupons.  An order that was never transferred still belongs to the      *)
(* member whose coupon it spent.                                           *)
Spender ==
  \A o \in Placed : orders[o].transfers = 0 =>
    \A k \in orders[o].discounts \cap Coupons : orders[o].member = WalletOf[k]

LEMMA SpenderKept == TypeOK /\ Spender /\ [Next]_vars => Spender'
<1> SUFFICES ASSUME TypeOK, Spender, [Next]_vars PROVE Spender'
  OBVIOUS
<1>1. orders \in [OrderIds -> OrderLog \cup {NULL}]
  BY DEF TypeOK, OrdersTypeOK
<1>2. CASE orders' = orders
  BY <1>2 DEF Spender, Placed
<1>3. ASSUME NEW o \in OrderIds, NEW m \in Members, NEW cart \in SUBSET LineIds,
             Purchase(o, m, cart)
      PROVE Spender'
  <2>1. PICK deal \in Deal :
          /\ orders' = [orders EXCEPT ![o] = Bought(o, m, deal)]
          /\ \A k \in deal.discounts \cap Coupons : WalletOf[k] = m
    BY <1>3, PurchaseWrites DEF TypeOK
  <2>2. \A k \in orders'[o].discounts \cap Coupons : orders'[o].member = WalletOf[k]
    BY <1>1, <2>1 DEF Bought
  <2>3. ASSUME NEW q \in Placed', q # o PROVE q \in Placed /\ orders'[q] = orders[q]
    BY <1>1, <2>1, <2>3 DEF Placed
  <2> QED
    BY <2>2, <2>3 DEF Spender
<1>4. ASSUME NEW o \in OrderIds, Pay(o) \/ Refund(o) PROVE Spender'
  <2>1. PICK s \in Statuses : orders' = [orders EXCEPT ![o].status = s]
    BY <1>4 DEF Pay, Refund, Statuses
  <2>2. o \in Placed /\ orders[o] \in OrderLog
    BY <1>1, <1>4 DEF Pay, Refund, Placed
  <2>3. ASSUME NEW q \in Placed'
        PROVE /\ q \in Placed /\ orders'[q].discounts = orders[q].discounts
              /\ orders'[q].member = orders[q].member
              /\ orders'[q].transfers = orders[q].transfers
    <3>1. CASE q = o
      BY <1>1, <2>1, <2>2, <3>1 DEF OrderLog
    <3>2. CASE q # o
      BY <1>1, <2>1, <3>2 DEF Placed
    <3> QED
      BY <3>1, <3>2
  <2> QED
    BY <2>3 DEF Spender
<1>5. ASSUME NEW o \in OrderIds, NEW m \in Members, TransferReceivedOrder(o, m)
      PROVE Spender'
  <2>1. o \in Placed /\ orders[o] \in OrderLog /\ orders[o].transfers \in Nat
    BY <1>1, <1>5 DEF TransferReceivedOrder, Placed, OrderLog
  <2>2. orders' = [orders EXCEPT ![o] =
                     [orders[o] EXCEPT !.member = m, !.transfers = orders[o].transfers + 1]]
    BY <1>5 DEF TransferReceivedOrder
  <2>3. orders'[o].transfers = orders[o].transfers + 1
    BY <1>1, <2>1, <2>2 DEF OrderLog
  <2>4. orders'[o].transfers # 0
    BY <2>1, <2>3
  <2>5. ASSUME NEW q \in Placed', q # o PROVE q \in Placed /\ orders'[q] = orders[q]
    BY <1>1, <2>2, <2>5 DEF Placed
  <2> QED
    BY <2>4, <2>5 DEF Spender
<1>6. CASE Tick
  BY <1>2, <1>6 DEF Tick
<1>7. CASE UNCHANGED orderVars
  BY <1>2, <1>7 DEF orderVars
<1> QED
  BY <1>3, <1>4, <1>5, <1>6, <1>7
     DEF Next, OrdersStep, OrdersNext, CatalogueStep, DoorStep, ProgressStep, vars, orderVars

(* A coupon spent in a successful order is shown as used, to the member    *)
(* who spent it, unless the order was transferred.                         *)
THEOREM SpentCouponsShown == Spec => []SpentCouponShown
<1>1. Init => Spender
  BY DEF Init, OrdersInit, Spender, Placed
<1>2. TypeOK /\ Spender => SpentCouponShown
  <2> SUFFICES ASSUME TypeOK, Spender, NEW o \in Placed, orders[o].status = "SUCCESS",
                      NEW k \in orders[o].discounts \cap Coupons, orders[o].transfers = 0
               PROVE CouponUsed(k)
    <3>1. \A o \in Placed : TypeOK => orders[o].transfers \in Nat
      BY DEF Placed, TypeOK, OrdersTypeOK, OrderLog
    <3> QED
      BY <3>1 DEF SpentCouponShown
  <2> QED
    BY DEF Spender, CouponUsed
<1> QED
  BY <1>1, <1>2, InitTyped, NextTyped, SpenderKept, PTL DEF Spec

-----------------------------------------------------------------------------
(* What a member owns.                                                     *)
LEMMA LineTargets ==
  ASSUME TypeOK, NEW L \in SUBSET Sold
  PROVE  /\ PlansOf(L) \subseteq PlanIds
         /\ Targets(L, "Card") \subseteq Cards
         /\ PlansOfCards(L) \subseteq PlanIds
         /\ Targets(L, "ProgramPackagePlan") \subseteq PackagePlanIds
<1>1. \A l \in L : lines[l].product \in Products
  BY DEF TypeOK, OrdersTypeOK, Sold, OrderProduct
<1>2. \A type : Targets(L, type) \subseteq TargetsOf(type)
  BY <1>1 DEF Targets, TargetsOf
<1>3. Targets(L, "Card") \subseteq Cards
  BY <1>2, CatalogueAssumption
<1>4. PlansOfCards(L) \subseteq PlanIds
  BY <1>3, CatalogueAssumption DEF PlansOfCards
<1> QED
  BY <1>2, <1>3, <1>4, CatalogueAssumption DEF PlansOf

(* The lines of a query are those of one line at a time.                   *)
LEMMA LineByLine ==
  ASSUME NEW L, NEW l \in L
  PROVE  /\ \A type : Targets({l}, type) \subseteq Targets(L, type)
         /\ PlansOf({l}) \subseteq PlansOf(L)
         /\ PlansOfCards({l}) \subseteq PlansOfCards(L)
<1>1. \A type : Targets({l}, type) \subseteq Targets(L, type)
  BY DEF Targets
<1> QED
  BY <1>1 DEF PlansOf, PlansOfCards

LEMMA MySold ==
  ASSUME NEW m PROVE MyLines(m) \subseteq Sold /\ ActiveOf(MyLines(m)) \subseteq Sold
BY DEF MyLines, ActiveOf

(* A plan gives contents of its program only.                              *)
LEMMA InPlanOfProgram ==
  ASSUME NEW l, NEW pl \in PlanIds, NEW c, InPlan(l, pl, c)
  PROVE  ProgramOf[c] = Plans[pl].program
BY PlanContentsAssumption DEF InPlan

LEMMA ListAgrees == TypeOK => ListAgreesWithContent
<1> SUFFICES ASSUME TypeOK, NEW m \in Members, NEW p \in ProgramIds, NEW c \in ContentsOf(p)
             PROVE c \in GetEnrolledProgramContentsByProgramId(m, p)
                     <=> GetEnrolledProgramContentById(m, p, c)
  BY DEF ListAgreesWithContent
<1> DEFINE L == MyLines(m)
<1>1. c \in Contents /\ ProgramOf[c] = p
  BY DEF ContentsOf
<1>2. \A l \in ActiveOf(L) : PlansOf({l}) \subseteq PlanIds /\ PlansOfCards({l}) \subseteq PlanIds
  BY MySold, LineTargets
<1> HIDE DEF L
<1>3. c \in ContentsByProgramEnrollment(L, p) <=> ContentByProgramEnrollment(L, p, c)
  BY <1>1 DEF ContentsByProgramEnrollment, ContentByProgramEnrollment
<1>4. c \in ContentsByProgramRole(m, p) <=> ContentByProgramRole(m, p, c)
  BY <1>1 DEF ContentsByProgramRole, ContentByProgramRole
<1>5. c \in ContentsByProgramRoleAndPermission(m, p) <=> ContentByProgramRoleAndPermission(m, p, c)
  BY <1>1 DEF ContentsByProgramRoleAndPermission, ContentByProgramRoleAndPermission
<1>6. c \in ContentsByPlanSubscribedFromNowOrAll(L, p)
        <=> ContentByPlanSubscribedFromNowOrAll(L, c)
  BY <1>1, <1>2, InPlanOfProgram
     DEF ContentsByPlanSubscribedFromNowOrAll, ContentByPlanSubscribedFromNowOrAll
<1>7. c \in ContentsByPlanEnrollment(L, p) <=> ContentByPlanEnrollment(L, c)
  BY <1>1 DEF ContentsByPlanEnrollment, ContentByPlanEnrollment
<1>8. c \in ContentsByPackageEnrollment(m, L, p) <=> ContentByPackageEnrollment(m, L, p, c)
  BY <1>1 DEF ContentsByPackageEnrollment, ContentByPackageEnrollment
<1>9. c \in ContentsByMembershipCardEnrollment(L) <=> ContentByMembership(L, c)
  BY <1>1 DEF ContentsByMembershipCardEnrollment, ContentByMembership, ContentsOf
<1> QED
  BY <1>3, <1>4, <1>5, <1>6, <1>7, <1>8, <1>9
     DEF GetEnrolledProgramContentsByProgramId, GetEnrolledProgramContentById, ContentBought, L

(* The seven queries for the list of contents and the seven for one        *)
(* content agree, whatever is sold, published, handed out and to whom.     *)
THEOREM ListsAgreeWithContents == Spec => []ListAgreesWithContent
BY StorefrontTyped, ListAgrees, PTL

(* Whoever is given a content by one of the queries may open its program,  *)
(* or assists in it.                                                       *)
LEMMA ContentOpensProgram ==
  ASSUME TypeOK, NEW m \in Members, NEW p \in ProgramIds, NEW c \in ContentsOf(p),
         GetEnrolledProgramContentById(m, p, c)
  PROVE  GetProgramByMemberId(m, p) \/ HasRole(p, m, {"assistant"})
<1> DEFINE L == MyLines(m)
<1>1. ProgramOf[c] = p
  BY DEF ContentsOf
<1>2. \A l \in ActiveOf(L) :
        /\ PlansOf({l}) \subseteq PlanIds /\ PlansOf({l}) \subseteq PlansOf(ActiveOf(L))
        /\ PlansOfCards({l}) \subseteq PlanIds
        /\ PlansOfCards({l}) \subseteq PlansOfCards(ActiveOf(L))
  BY MySold, LineTargets, LineByLine
<1> HIDE DEF L
<1>3. CASE ContentBought(m, L, p, c)
  <2>1. ContentByProgramEnrollment(L, p, c) => GetProgramByProgramEnrollment(L, p)
    BY DEF ContentByProgramEnrollment, GetProgramByProgramEnrollment
  <2>2. ContentByPlanSubscribedFromNowOrAll(L, c) => GetProgramByProgramPlanEnrollment(L, p)
    BY <1>1, <1>2, InPlanOfProgram
       DEF ContentByPlanSubscribedFromNowOrAll, GetProgramByProgramPlanEnrollment
  <2>3. ContentByPlanEnrollment(L, c) => GetProgramByProgramPlanEnrollment(L, p)
    BY <1>1 DEF ContentByPlanEnrollment, GetProgramByProgramPlanEnrollment
  <2>4. ContentByPackageEnrollment(m, L, p, c) => GetProgramByProgramPackageEnrollment(m, L, p)
    BY DEF ContentByPackageEnrollment, GetProgramByProgramPackageEnrollment
  <2>5. ContentByMembership(L, c) => GetProgramByMembershipCardEnrollment(L, p)
    BY <1>1, <1>2, InPlanOfProgram DEF ContentByMembership, GetProgramByMembershipCardEnrollment
  <2> QED
    BY <1>3, <2>1, <2>2, <2>3, <2>4, <2>5 DEF ContentBought, ProgramBought, GetProgramByMemberId, L
<1>4. CASE ContentByProgramRole(m, p, c) \/ ContentByProgramRoleAndPermission(m, p, c)
  BY <1>4 DEF ContentByProgramRole, ContentByProgramRoleAndPermission, GetProgramByMemberId
<1> QED
  BY <1>3, <1>4 DEF GetEnrolledProgramContentById, L

(* What is listed under a program opens there, as does the program, but    *)
(* for an app owner's list and an assistant's programs.                    *)
THEOREM ListedContentsOpen == Spec => []ListedContentOpens
<1>1. TypeOK => ListedContentOpens
  <2> SUFFICES ASSUME TypeOK, NEW m \in Members \ (staff.owners \ staff.admins),
                      NEW p \in ProgramIds, NEW c \in ListContents(m, p), ProgramOf[c] = p
               PROVE OpenContent(m, p, c) /\ (OpenProgram(m, p) \/ HasRole(p, m, {"assistant"}))
    BY DEF ListedContentOpens
  <2>1. CASE m \in staff.admins
    BY <2>1 DEF OpenContent, OpenProgram
  <2>2. CASE m \notin staff.admins
    <3>1. c \in GetEnrolledProgramContentsByProgramId(m, p)
      BY <2>2 DEF ListContents
    <3>2. c \in Contents
      BY <3>1 DEF GetEnrolledProgramContentsByProgramId, ContentsByProgramEnrollment,
           ContentsByProgramRole, ContentsByProgramRoleAndPermission,
           ContentsByPlanSubscribedFromNowOrAll, ContentsByPlanEnrollment,
           ContentsByPackageEnrollment, ContentsByMembershipCardEnrollment, ContentsOf
    <3>3. c \in ContentsOf(p)
      BY <3>2 DEF ContentsOf
    <3>4. GetEnrolledProgramContentById(m, p, c)
      BY <3>1, <3>3, ListAgrees DEF ListAgreesWithContent
    <3>5. OpenContent(m, p, c)
      <4>1. m # NULL
        BY OrdersAssumption
      <4> QED
        BY <3>4, <4>1 DEF OpenContent
    <3> QED
      BY <3>3, <3>4, <3>5, ContentOpensProgram DEF OpenProgram
  <2> QED
    BY <2>1, <2>2
<1> QED
  BY <1>1, StorefrontTyped, PTL

-----------------------------------------------------------------------------
(* Time.                                                                   *)
LEMMA OnlyTickMovesTime ==
  ASSUME TypeOK, [Next]_vars, now' > now
  PROVE  Tick /\ UNCHANGED programVars
<1>1. now \in Nat
  BY DEF TypeOK, OrdersTypeOK, Time
<1>2. now' # now
  BY <1>1
<1>3. ~UNCHANGED vars /\ ~CatalogueStep /\ ~DoorStep /\ ~ProgressStep
  BY <1>2 DEF vars, orderVars, CatalogueStep, DoorStep, ProgressStep
<1>4. OrdersNext /\ UNCHANGED programVars
  BY <1>3 DEF Next, OrdersStep
<1> QED
  BY <1>2, <1>4 DEF OrdersNext, Purchase, Pay, Refund, TransferReceivedOrder

(* A line that time takes away, and whose term did not end this very       *)
(* instant, has lapsed.                                                    *)
LEMMA TakenByTime ==
  ASSUME TypeOK, Tick, NEW l \in Sold, Active(l), ~Active(l)',
         lines[l].endedAt # now', orders[lines[l].order].status = "SUCCESS"
  PROVE  Lapsed(l)'
<1>1. now \in Nat /\ now' \in Nat /\ now' > now /\ UNCHANGED <<orders, lines>>
  BY OrdersAssumption DEF TypeOK, OrdersTypeOK, Time, Tick
<1>2. lines[l] \in OrderProduct
  BY DEF Sold, TypeOK, OrdersTypeOK
<1>3. /\ lines[l].deliveredAt \in Nat \cup {NULL} /\ lines[l].startedAt \in Nat \cup {NULL}
      /\ lines[l].endedAt \in Nat \cup {NULL}
  BY <1>2, OrdersAssumption DEF OrderProduct, Moment, Time
<1>4. Delivered(l)'
  BY <1>1, <1>3 DEF Active, Delivered
<1>5. lines[l].startedAt = NULL \/ lines[l].startedAt <= now'
  BY <1>1, <1>3 DEF Active, OnTerm
<1>6. lines[l].endedAt # NULL /\ ~(lines[l].endedAt > now')
  BY <1>1, <1>4, <1>5 DEF Active, OnTerm
<1>7. lines[l].endedAt < now'
  BY <1>1, <1>3, <1>6
<1> QED
  BY <1>1, <1>6, <1>7 DEF Lapsed

(* When time alone takes a plan, a card or a package from a member, the    *)
(* pages of what has expired show it.                                      *)
THEOREM LapsedListed == Spec => LapsedIsListed
<1> DEFINE Step ==
      now' > now =>
       \A m \in Members : \A l \in MyLines(m) :
         /\ Active(l) /\ ~Active(l)' /\ lines[l].endedAt # now'
         /\ orders[lines[l].order].status = "SUCCESS"
         => /\ \A p \in GetOwnedProgramsFromProgramPlan({l})
                     \cup GetOwnedProgramsFromMembershipCardEnrollment({l}) :
                 Staffed(p) => p \in GetExpiredProgramByMemberId(m)'
            /\ PackagesOf({l}) \subseteq GetExpiredProgramPackages(m)'
<1>1. TypeOK /\ [Next]_vars => Step
  <2> SUFFICES ASSUME TypeOK, [Next]_vars, now' > now, NEW m \in Members,
                      NEW l \in MyLines(m), Active(l), ~Active(l)',
                      lines[l].endedAt # now', orders[lines[l].order].status = "SUCCESS"
               PROVE /\ \A p \in GetOwnedProgramsFromProgramPlan({l})
                              \cup GetOwnedProgramsFromMembershipCardEnrollment({l}) :
                          Staffed(p) => p \in GetExpiredProgramByMemberId(m)'
                     /\ PackagesOf({l}) \subseteq GetExpiredProgramPackages(m)'
    OBVIOUS
  <2>1. Tick /\ UNCHANGED <<orders, lines, staff>>
    BY OnlyTickMovesTime DEF Tick, programVars
  <2>2. l \in Sold
    BY DEF MyLines
  <2>3. l \in LapsedOf(MyLines(m))'
    <3>1. Lapsed(l)'
      BY <2>1, <2>2, TakenByTime
    <3>2. l \in MyLines(m)'
      BY <2>1 DEF MyLines, Sold
    <3> QED
      BY <3>1, <3>2 DEF LapsedOf
  <2>4. /\ PlansOf({l}) \subseteq PlansOf(LapsedOf(MyLines(m)))'
        /\ PlansOfCards({l}) \subseteq PlansOfCards(LapsedOf(MyLines(m)))'
        /\ \A type : Targets({l}, type) \subseteq Targets(LapsedOf(MyLines(m)), type)'
    BY <2>1, <2>3 DEF PlansOf, PlansOfCards, Targets
  <2>5. ASSUME NEW p \in GetOwnedProgramsFromProgramPlan({l})
                         \cup GetOwnedProgramsFromMembershipCardEnrollment({l}), Staffed(p)
        PROVE p \in GetExpiredProgramByMemberId(m)'
    <3>1. ActiveOf({l}) \subseteq {l}
      BY DEF ActiveOf
    <3>2. PlansOf(ActiveOf({l})) \subseteq PlansOf({l})
          /\ PlansOfCards(ActiveOf({l})) \subseteq PlansOfCards({l})
      BY <3>1 DEF PlansOf, PlansOfCards, Targets
    <3>3. PICK pl \in PlansOf({l}) \cup PlansOfCards({l}) : p = Plans[pl].program
      BY <3>2 DEF GetOwnedProgramsFromProgramPlan, GetOwnedProgramsFromMembershipCardEnrollment
    <3>4. Staffed(p)'
      BY <2>1, <2>5 DEF Staffed, HasRole
    <3> QED
      BY <2>4, <3>3, <3>4 DEF GetExpiredProgramByMemberId, GetExpiredProgramsByProgramPlan,
                             GetExpiredProgramsByMembershipCard
  <2>6. PackagesOf({l}) \subseteq GetExpiredProgramPackages(m)'
    BY <2>4 DEF PackagesOf, GetExpiredProgramPackages
  <2> QED
    BY <2>5, <2>6
<1>2. Spec => [][Step]_<<orderVars, programVars>>
  <2>1. TypeOK /\ [Next]_vars => [Step]_<<orderVars, programVars>>
    BY <1>1
  <2> HIDE DEF Step
  <2> QED
    BY <2>1, InitTyped, NextTyped, PTL DEF Spec
<1> QED
  BY <1>2 DEF LapsedIsListed

-----------------------------------------------------------------------------
(* Transfers.                                                              *)

(* The lines of the order go to the new member, and no others move.        *)
LEMMA TransferMovesLines ==
  ASSUME TypeOK, NEW o \in OrderIds, NEW to \in Members, TransferReceivedOrder(o, to),
         NEW m \in Members
  PROVE  MyLines(m)' = (MyLines(m) \ LinesOf(o)) \cup (IF m = to THEN LinesOf(o) ELSE {})
<1>1. /\ UNCHANGED lines /\ o \in Placed
      /\ orders' = [orders EXCEPT ![o] =
                      [orders[o] EXCEPT !.member = to, !.transfers = orders[o].transfers + 1]]
  BY DEF TransferReceivedOrder
<1>2. orders \in [OrderIds -> OrderLog \cup {NULL}] /\ orders[o] \in OrderLog
  BY <1>1 DEF TypeOK, OrdersTypeOK, Placed
<1>3. orders'[o].member = to /\ \A q \in OrderIds \ {o} : orders'[q] = orders[q]
  BY <1>1, <1>2 DEF OrderLog
<1>4. \A l \in Sold : lines[l].order \in OrderIds
  BY DEF Sold, TypeOK, OrdersTypeOK, OrderProduct
<1>5. Sold' = Sold
  BY <1>1 DEF Sold
<1>6. ASSUME NEW l \in Sold
      PROVE orders'[lines[l].order].member = m
              <=> IF lines[l].order = o THEN m = to ELSE orders[lines[l].order].member = m
  BY <1>3, <1>4
<1> QED
  BY <1>1, <1>5, <1>6 DEF MyLines, LinesOf

(* What a member has bought after a step that moved orders only.           *)
LEMMA BoughtAfter ==
  ASSUME UNCHANGED <<now, lines, programVars>>, NEW m, NEW p, NEW c, NEW L,
         MyLines(m)' = L
  PROVE  ContentBought(m, MyLines(m), p, c)' <=> ContentBought(m, L, p, c)
<1> USE DEF programVars
<1>1. ActiveOf(MyLines(m))' = ActiveOf(L)
  BY DEF ActiveOf, Active, Delivered, OnTerm
<1>2. ContentByProgramEnrollment(MyLines(m), p, c)' <=> ContentByProgramEnrollment(L, p, c)
  BY <1>1 DEF ContentByProgramEnrollment, Targets, Published
<1>3. ContentByPlanSubscribedFromNowOrAll(MyLines(m), c)'
        <=> ContentByPlanSubscribedFromNowOrAll(L, c)
  BY <1>1 DEF ContentByPlanSubscribedFromNowOrAll, PlansOf, Targets, InPlan, Published
<1>4. ContentByPlanEnrollment(MyLines(m), c)' <=> ContentByPlanEnrollment(L, c)
  BY <1>1 DEF ContentByPlanEnrollment, PlansOf, Targets
<1>5. ContentByPackageEnrollment(m, MyLines(m), p, c)' <=> ContentByPackageEnrollment(m, L, p, c)
  BY <1>1 DEF ContentByPackageEnrollment, Targets, InPackage
<1>6. ContentByMembership(MyLines(m), c)' <=> ContentByMembership(L, c)
  BY <1>1 DEF ContentByMembership, PlansOfCards, Targets, InPlan, Published
<1> QED
  BY <1>2, <1>3, <1>4, <1>5, <1>6 DEF ContentBought

(* Of two members the second, whose lines include those of the first, gets *)
(* all that does not come from tempo deliveries.                           *)
LEMMA BoughtTogether ==
  ASSUME NEW from, NEW to, NEW p, NEW c, NEW K, NEW L, K \subseteq L,
         ContentBought(from, NotTempo(K), p, c)
  PROVE  ContentBought(to, L, p, c)
<1> DEFINE N == NotTempo(K)
<1>1. ActiveOf(N) \subseteq ActiveOf(L)
  BY DEF NotTempo, ActiveOf
<1>2. \A type : Targets(ActiveOf(N), type) \subseteq Targets(ActiveOf(L), type)
  BY <1>1 DEF Targets
<1>3. \A plan \in Targets(ActiveOf(N), "ProgramPackagePlan") : ~PackagePlans[plan].tempo
  BY DEF Targets, ActiveOf, NotTempo
<1> HIDE DEF N
<1>4. ContentByProgramEnrollment(N, p, c) => ContentByProgramEnrollment(L, p, c)
  BY <1>2 DEF ContentByProgramEnrollment
<1>5. ContentByPlanSubscribedFromNowOrAll(N, c) => ContentByPlanSubscribedFromNowOrAll(L, c)
  BY <1>1 DEF ContentByPlanSubscribedFromNowOrAll
<1>6. ContentByPlanEnrollment(N, c) => ContentByPlanEnrollment(L, c)
  BY <1>2 DEF ContentByPlanEnrollment, PlansOf
<1>7. ContentByPackageEnrollment(from, N, p, c) => ContentByPackageEnrollment(to, L, p, c)
  BY <1>2, <1>3 DEF ContentByPackageEnrollment, InPackage
<1>8. ContentByMembership(N, c) => ContentByMembership(L, c)
  BY <1>1 DEF ContentByMembership
<1> QED
  BY <1>4, <1>5, <1>6, <1>7, <1>8 DEF ContentBought, N

(* Nothing else counts as a transfer.                                      *)
LEMMA OnlyTransfersTransfer ==
  ASSUME TypeOK, [Next]_vars, NEW o \in Placed,
         orders'[o].transfers > orders[o].transfers
  PROVE  TransferReceivedOrder(o, orders'[o].member) /\ UNCHANGED programVars
         /\ orders'[o].member \in Members
<1>1. orders \in [OrderIds -> OrderLog \cup {NULL}] /\ o \in OrderIds /\ orders[o] \in OrderLog
  <2>1. orders \in [OrderIds -> OrderLog \cup {NULL}]
    BY DEF TypeOK, OrdersTypeOK
  <2>2. o \in OrderIds /\ orders[o] # NULL
    BY DEF Placed
  <2> QED
    BY <2>1, <2>2
<1>2. orders[o].transfers \in Nat
  BY <1>1 DEF OrderLog
<1>3. orders'[o].transfers # orders[o].transfers
  BY <1>2
<1>4. ~UNCHANGED orders
  BY <1>3
<1>5. OrdersNext /\ UNCHANGED programVars
  BY <1>4 DEF Next, OrdersStep, CatalogueStep, DoorStep, ProgressStep, vars, orderVars
<1>6. ~\E q \in OrderIds : Pay(q) \/ Refund(q)
  <2> SUFFICES ASSUME NEW q \in OrderIds, Pay(q) \/ Refund(q) PROVE FALSE
    OBVIOUS
  <2>1. PICK s : orders' = [orders EXCEPT ![q].status = s]
    BY DEF Pay, Refund
  <2> QED
    BY <1>1, <1>3, <2>1 DEF OrderLog
<1>7. ~\E q \in OrderIds, m \in Members, cart \in (SUBSET LineIds) \ {{}} :
           Purchase(q, m, cart)
  <2> SUFFICES ASSUME NEW q \in OrderIds, NEW m, NEW cart, Purchase(q, m, cart)
               PROVE FALSE
    OBVIOUS
  <2>1. q # o
    BY DEF Purchase, Placed
  <2>2. orders'[o] = orders[o]
    BY <1>1, <2>1 DEF Purchase
  <2> QED
    BY <1>3, <2>2
<1>8. PICK q \in OrderIds, m \in Members : TransferReceivedOrder(q, m)
  BY <1>4, <1>5, <1>6, <1>7 DEF OrdersNext, Tick
<1>9. q = o /\ orders'[o].member = m
  BY <1>1, <1>3, <1>8 DEF TransferReceivedOrder, OrderLog
<1> QED
  BY <1>5, <1>8, <1>9

(* A transfer gives the new member all that the order gives, but for the   *)
(* deliveries of a tempo plan, and leaves the old one what their other     *)
(* orders give.                                                            *)
THEOREM TransfersMoveAccess == Spec => TransferMovesAccess
<1> DEFINE Step ==
      \A o \in Placed : orders'[o].transfers > orders[o].transfers =>
       \A from \in {orders[o].member}, to \in Members, c \in Contents :
         orders'[o].member = to =>
            /\ ContentBought(from, NotTempo(LinesOf(o)), ProgramOf[c], c) =>
                 GetEnrolledProgramContentById(to, ProgramOf[c], c)'
            /\ /\ from # to
               /\ ContentBought(from, MyLines(from), ProgramOf[c], c)'
               => ContentBought(from, MyLines(from) \ LinesOf(o), ProgramOf[c], c)
            /\ Targets(ActiveOf(LinesOf(o)), "PodcastPlan")
                 \subseteq GetOwnedPodcastPlan(to)'
<1>1. TypeOK /\ [Next]_vars => Step
  <2> SUFFICES ASSUME TypeOK, [Next]_vars, NEW o \in Placed,
                      orders'[o].transfers > orders[o].transfers,
                      NEW from \in {orders[o].member}, NEW to \in Members, NEW c \in Contents,
                      orders'[o].member = to
               PROVE /\ ContentBought(from, NotTempo(LinesOf(o)), ProgramOf[c], c) =>
                          GetEnrolledProgramContentById(to, ProgramOf[c], c)'
                     /\ /\ from # to
                        /\ ContentBought(from, MyLines(from), ProgramOf[c], c)'
                        => ContentBought(from, MyLines(from) \ LinesOf(o), ProgramOf[c], c)
                     /\ Targets(ActiveOf(LinesOf(o)), "PodcastPlan")
                          \subseteq GetOwnedPodcastPlan(to)'
    OBVIOUS
  <2>1. TransferReceivedOrder(o, to) /\ UNCHANGED <<now, lines, programVars>>
    BY OnlyTransfersTransfer DEF TransferReceivedOrder
  <2>2. o \in OrderIds /\ from \in Members
    BY DEF Placed, TypeOK, OrdersTypeOK, OrderLog
  <2> DEFINE given == (MyLines(to) \ LinesOf(o)) \cup LinesOf(o)
  <2>3. MyLines(to)' = given
    BY <2>1, <2>2, TransferMovesLines
  <2> HIDE DEF given
  <2>4. LinesOf(o) \subseteq given
    BY DEF given
  <2>5. ASSUME ContentBought(from, NotTempo(LinesOf(o)), ProgramOf[c], c)
        PROVE GetEnrolledProgramContentById(to, ProgramOf[c], c)'
    <3>1. ContentBought(to, given, ProgramOf[c], c)
      BY <2>4, <2>5, BoughtTogether
    <3>2. ContentBought(to, MyLines(to), ProgramOf[c], c)'
      BY <2>1, <2>3, <3>1, BoughtAfter
    <3> QED
      BY <3>2 DEF GetEnrolledProgramContentById
  <2>6. ASSUME from # to, ContentBought(from, MyLines(from), ProgramOf[c], c)'
        PROVE ContentBought(from, MyLines(from) \ LinesOf(o), ProgramOf[c], c)
    <3>1. MyLines(from)' = MyLines(from) \ LinesOf(o)
      BY <2>1, <2>2, <2>6, TransferMovesLines
    <3> QED
      BY <2>1, <2>6, <3>1, BoughtAfter
  <2>7. Targets(ActiveOf(LinesOf(o)), "PodcastPlan") \subseteq GetOwnedPodcastPlan(to)'
    <3>1. ActiveOf(MyLines(to))' = ActiveOf(given)
      BY <2>1, <2>3 DEF ActiveOf, Active, Delivered, OnTerm
    <3>2. ActiveOf(LinesOf(o)) \subseteq ActiveOf(given)
      BY <2>4 DEF ActiveOf
    <3> QED
      BY <2>1, <3>1, <3>2 DEF GetOwnedPodcastPlan, Targets
  <2> QED
    BY <2>5, <2>6, <2>7
<1>2. Spec => [][Step]_<<orderVars, programVars>>
  <2>1. TypeOK /\ [Next]_vars => [Step]_<<orderVars, programVars>>
    BY <1>1
  <2> HIDE DEF Step
  <2> QED
    BY <2>1, InitTyped, NextTyped, PTL DEF Spec
<1> QED
  BY <1>2 DEF TransferMovesAccess

-----------------------------------------------------------------------------
(* The pages of owned programs, packages and podcasts.                     *)

(* The page of owned programs and the queries that open one agree.         *)
LEMMA OwnedProgramsOpen ==
  ASSUME TypeOK, NEW m \in Members
  PROVE  /\ \A p \in GetProgramsByMemberId(m) \ GetProgramsWithRoleIsAssistant(m) :
              GetProgramByMemberId(m, p)
         /\ \A p \in ProgramIds \ GetProgramsByMemberId(m) :
              /\ ~GetProgramByProgramPlanEnrollment(MyLines(m), p)
              /\ ~GetProgramByProgramEnrollment(MyLines(m), p)
              /\ GetProgramByMembershipCardEnrollment(MyLines(m), p) => ~Staffed(p)
<1> DEFINE L == MyLines(m)
<1>1. \A p : p \in GetOwnedProgramsDirectly(L) <=> GetProgramByProgramEnrollment(L, p)
  BY DEF GetOwnedProgramsDirectly, GetProgramByProgramEnrollment
<1>2. \A p : p \in GetOwnedProgramsFromProgramPlan(L) <=> GetProgramByProgramPlanEnrollment(L, p)
  BY DEF GetOwnedProgramsFromProgramPlan, GetProgramByProgramPlanEnrollment
<1>3. \A p : p \in GetOwnedProgramsFromMembershipCardEnrollment(L)
               <=> GetProgramByMembershipCardEnrollment(L, p) /\ Staffed(p)
  BY DEF GetOwnedProgramsFromMembershipCardEnrollment, GetProgramByMembershipCardEnrollment
<1> HIDE DEF L
<1> QED
  BY <1>1, <1>2, <1>3 DEF GetProgramsByMemberId, GetProgramByMemberId, ProgramBought, L

(* The released programs a package's page shows are those of one plan that *)
(* the member owns: what it drops is what the query on the program drops.  *)
LEMMA PackagePagesOpen ==
  ASSUME NEW m, NEW k, NEW plan \in PackageRows(m, k), NEW p \in PackagePage(m, k, plan)
  PROVE  GetProgramByProgramPackageEnrollment(m, MyLines(m), p)
BY DEF PackageRows, PackagePage, GetProgramByProgramPackageEnrollment, InPackage

(* A plan that was sold shows its own creator: the union over all types of *)
(* products finds no other row under its target.                           *)
LEMMA PlanOwnerShown ==
  ASSUME TypeOK, NEW exported \in SUBSET Products, NEW product \in exported,
         product.type = "PodcastPlan", NEW shown, shown.target = product.target
  PROVE  OwnersShown(shown, exported) = {CreatorOf[product]}
<1>1. OwnersOf(product) = {CreatorOf[product]}
  BY DEF OwnersOf
<1>2. \A o : o \in GetProductOwnerByProducts(exported) /\ o.productId = product.target
               <=> o = [productId |-> product.target, owner |-> CreatorOf[product]]
  <2>1. \A q \in exported : q.target = product.target => q = product
    BY TargetsAssumption
  <2> QED
    BY <1>1, <2>1 DEF GetProductOwnerByProducts
<1>3. {o.owner : o \in {row \in GetProductOwnerByProducts(exported) :
                          row.productId = shown.target}} = {CreatorOf[product]}
  <2>1. {row \in GetProductOwnerByProducts(exported) : row.productId = shown.target}
          = {[productId |-> product.target, owner |-> CreatorOf[product]]}
    BY <1>2
  <2>2. [productId |-> product.target, owner |-> CreatorOf[product]].owner = CreatorOf[product]
    OBVIOUS
  <2> QED
    BY <2>1, <2>2, Zenon
<1> QED
  BY <1>3 DEF OwnersShown

LEMMA PodcastsTold == TypeOK => OwnedPodcastsTold
<1> SUFFICES ASSUME TypeOK PROVE OwnedPodcastsTold
  OBVIOUS
<1> DEFINE credited == {lines[l].product : l \in Sold}
           promised(plan) ==
             UNION {HostedBy(n) : n \in OwnersShown([type |-> "PodcastPlan", target |-> plan], credited)}
<1>1. \A l \in Sold : lines[l].product \in Products
  BY DEF TypeOK, OrdersTypeOK, Sold, OrderProduct
<1>2. credited \in SUBSET Products
  BY <1>1
<1>3. ASSUME NEW l \in Sold, lines[l].product.type = "PodcastPlan"
      PROVE promised(lines[l].product.target) = HostedBy(CreatorOf[lines[l].product])
  <2>1. OwnersShown([type |-> "PodcastPlan", target |-> lines[l].product.target], credited)
          = {CreatorOf[lines[l].product]}
    BY <1>2, <1>3, PlanOwnerShown
  <2> QED
    BY <2>1
<1>4. ASSUME NEW m \in Members
      PROVE LET owned == GetOwnedPodcasts(m)
                plans == GetOwnedPodcastPlan(m) IN
            /\ UNION {promised(plan) : plan \in plans} \subseteq owned
            /\ owned \ {NULL} \subseteq
                 PublicPodcasts \cup {lines[l].product.target : l \in ActiveOf(MyLines(m))}
                   \cup UNION {promised(plan) : plan \in plans}
            /\ NULL \in owned <=> \E plan \in plans : promised(plan) = {}
  <2> DEFINE L == {k \in ActiveOf(MyLines(m)) : lines[k].product.type = "PodcastPlan"}
             hosted(l) == HostedBy(CreatorOf[lines[l].product])
  <2>1. L \subseteq Sold /\ ActiveOf(MyLines(m)) \subseteq Sold
    BY MySold
  <2>2. \A l \in L : promised(lines[l].product.target) = hosted(l)
    BY <1>3, <2>1
  <2>3. GetOwnedPodcastPlan(m) = {lines[l].product.target : l \in L}
    BY DEF GetOwnedPodcastPlan, Targets
  <2>4. \A c : c \in GetOwnedPodcastsFromPodcastPlan(m) <=>
          \E l \in L : c \in hosted(l) \/ (hosted(l) = {} /\ c = NULL)
    BY DEF GetOwnedPodcastsFromPodcastPlan
  <2>5. \A n : NULL \notin HostedBy(n)
    BY PodcastsAssumption DEF HostedBy
  <2>6. NULL \notin GetOwnedPodcastsDirectly(m)
    <3>1. GetOwnedPodcastsDirectly(m) \subseteq TargetsOf("PodcastProgram")
      BY <1>1, <2>1 DEF GetOwnedPodcastsDirectly, Targets, TargetsOf
    <3> QED
      BY <3>1, PodcastsAssumption
  <2>7. NULL \notin PublicPodcasts
    BY PodcastsAssumption DEF PublicPodcasts
  <2>8. GetOwnedPodcastsDirectly(m) \subseteq {lines[l].product.target : l \in ActiveOf(MyLines(m))}
    BY DEF GetOwnedPodcastsDirectly, Targets
  <2>9. \A c : c \in UNION {promised(plan) : plan \in GetOwnedPodcastPlan(m)}
                 <=> \E l \in L : c \in hosted(l)
    <3> HIDE DEF promised, hosted, L
    <3> QED
      BY <2>2, <2>3
  <2>10. (\E plan \in GetOwnedPodcastPlan(m) : promised(plan) = {}) <=> \E l \in L : hosted(l) = {}
    <3> HIDE DEF promised, hosted, L
    <3> QED
      BY <2>2, <2>3
  <2>11. \A c : c \in GetOwnedPodcasts(m) <=> \/ c \in GetOwnedPodcastsDirectly(m)
                                             \/ c \in GetOwnedPodcastsFromPodcastPlan(m)
                                             \/ c \in PublicPodcasts
    BY DEF GetOwnedPodcasts
  <2>12. \A l : NULL \notin hosted(l)
    BY <2>5
  <2> HIDE DEF promised, hosted, L
  <2>13. UNION {promised(plan) : plan \in GetOwnedPodcastPlan(m)} \subseteq GetOwnedPodcasts(m)
    BY <2>4, <2>9, <2>11
  <2>14. GetOwnedPodcasts(m) \ {NULL} \subseteq
           PublicPodcasts \cup {lines[l].product.target : l \in ActiveOf(MyLines(m))}
             \cup UNION {promised(plan) : plan \in GetOwnedPodcastPlan(m)}
    BY <2>4, <2>8, <2>9, <2>11
  <2>15. NULL \in GetOwnedPodcasts(m) <=> \E plan \in GetOwnedPodcastPlan(m) : promised(plan) = {}
    BY <2>4, <2>6, <2>7, <2>10, <2>11, <2>12
  <2> QED
    BY <2>13, <2>14, <2>15
<1> QED
  BY <1>4 DEF OwnedPodcastsTold

(* What the pages of a member show as owned opens, and what opens is shown *)
(* there, but for the exceptions the property names.                       *)
THEOREM OwnedPagesOpened == Spec => []OwnedPagesOpen
<1>1. TypeOK => ProgramPagesOpen
  BY OwnedProgramsOpen, PackagePagesOpen DEF ProgramPagesOpen
<1>2. TypeOK => OwnedPagesOpen
  BY <1>1, PodcastsTold DEF OwnedPagesOpen
<1> QED
  BY <1>2, StorefrontTyped, PTL

-----------------------------------------------------------------------------
(* Progress.  A call that nobody overtook has read what its row still      *)
(* holds.                                                                  *)
ReadsFresh ==
  \A k \in Calls :
    call[k] # NoRow /\ ~call[k].stale => call[k].read = progress[call[k].row]

LEMMA QuotientGrows ==
  ASSUME NEW a \in Int, NEW b \in Int, NEW n \in Nat \ {0}, a <= b
  PROVE  a \div n <= b \div n
<1> DEFINE p == a \div n
           q == b \div n
           r == a % n
           s == b % n
<1>1. a = n * p + r /\ b = n * q + s /\ 0 <= r /\ r < n /\ 0 <= s /\ s < n
  OBVIOUS
<1>2. p \in Int /\ q \in Int /\ r \in Int /\ s \in Int
  OBVIOUS
<1> HIDE DEF p, q, r, s
<1>3. ASSUME ~(p <= q) PROVE FALSE
  <2>1. p - (q + 1) \in Nat
    BY <1>2, <1>3
  <2> DEFINE d == p - (q + 1)
  <2>2. n * d \in Nat /\ p = q + 1 + d
    BY <1>2, <2>1
  <2>3. n * p = n * q + n + n * d
    BY <1>2, <2>1, <2>2
  <2> HIDE DEF d
  <2>4. n * p \in Int /\ n * q \in Int
    BY <1>2
  <2> QED
    BY <1>1, <1>2, <2>2, <2>3, <2>4
<1>4. p <= q
  BY <1>2, <1>3
<1> QED
  BY <1>4 DEF p, q

LEMMA ReadsStayFresh ==
  ASSUME ProgressTypeOK, ReadsFresh, ProgressNext
  PROVE  ReadsFresh'
<1> USE DEF ProgressTypeOK
<1> DEFINE Rows == Viewers \X Clips
<1>1. ASSUME NEW k \in Calls, NEW r \in Rows, NEW sent \in Reports \cup {NoRow},
             NEW last \in Positions \cup {NoRow}, TrackRead(k, r, sent, last)
      PROVE ReadsFresh'
  BY <1>1 DEF TrackRead, ReadsFresh
<1>2. ASSUME NEW k \in Calls, TrackWrite(k) PROVE ReadsFresh'
  <2> DEFINE r == call[k].row
  <2>1. /\ progress' = [progress EXCEPT ![r] = Upserted(call[k])]
        /\ call' = [q \in Calls |->
             IF q = k THEN NoRow
             ELSE IF call[q] # NoRow /\ call[q].row = r
               THEN [call[q] EXCEPT !.stale = TRUE] ELSE call[q]]
    BY <1>2 DEF TrackWrite
  <2> SUFFICES ASSUME NEW q \in Calls, call'[q] # NoRow, ~call'[q].stale
               PROVE  call'[q].read = progress'[call'[q].row]
    BY DEF ReadsFresh
  <2>2. q # k
    BY <2>1
  <2>3. ASSUME call[q] # NoRow PROVE call[q].row # r
    <3>1. ASSUME call[q].row = r PROVE FALSE
      <4>1. call'[q] = [call[q] EXCEPT !.stale = TRUE]
        BY <2>1, <2>2, <2>3, <3>1
      <4>2. "stale" \in DOMAIN call[q]
        BY <2>3
      <4> QED
        BY <4>1, <4>2
    <3> QED
      BY <3>1
  <2>4. call'[q] = call[q]
    BY <2>1, <2>2, <2>3
  <2>5. call[q].row \in Rows
    BY <2>4
  <2>6. progress'[call[q].row] = progress[call[q].row]
    BY <2>1, <2>3, <2>4, <2>5
  <2> QED
    BY <2>4, <2>6 DEF ReadsFresh
<1>3. ASSUME NEW k \in Calls, TrackFail(k) PROVE ReadsFresh'
  BY <1>3 DEF TrackFail, ReadsFresh
<1>4. \A body \in Bodies : body[1] \in Reports \cup {NoRow} /\ body[2] \in Positions \cup {NoRow}
  BY ProgressAssumption
<1> QED
  BY <1>1, <1>2, <1>3, <1>4 DEF ProgressNext

(* A write of a call that nobody overtook does not lower its row.          *)
LEMMA WritesFreshRaise ==
  ASSUME ProgressTypeOK, ReadsFresh, ProgressNext,
         NEW r \in Viewers \X Clips, progress[r] # NoRow
  PROVE  /\ progress'[r] # NoRow
         /\ progress'[r].progress < progress[r].progress => r \in raced'
<1> USE DEF ProgressTypeOK
<1>0. progress[r] \in ProgramContentProgress /\ progress[r].progress \in 0 .. 100
  BY DEF ProgramContentProgress
<1>1. ASSUME progress'[r] = progress[r]
      PROVE /\ progress'[r] # NoRow
            /\ progress'[r].progress < progress[r].progress => r \in raced'
  BY <1>0, <1>1
<1>2. ASSUME NEW k \in Calls, TrackWrite(k), call[k].row = r
      PROVE /\ progress'[r] # NoRow
            /\ progress'[r].progress < progress[r].progress => r \in raced'
  <2>1. progress'[r] = Upserted(call[k])
    BY <1>2 DEF TrackWrite
  <2>2. /\ call[k].sent \in 0 .. 100 \cup {NoRow} /\ call[k].last \in 0 .. 100 \cup {NoRow}
        /\ call[k].read \in ProgramContentProgress \cup {NoRow}
        /\ call[k] # NoRow
    BY <1>2, ProgressAssumption DEF TrackWrite
  <2>3. Upserted(call[k]) \in ProgramContentProgress
    BY <2>2, UpsertedTyped
  <2>4. progress'[r] # NoRow
    BY <2>1, <2>3, ProgressAssumption
  <2>5. CASE call[k].stale
    <3>1. r \in raced'
      BY <1>2, <2>5 DEF TrackWrite
    <3> QED
      BY <2>4, <3>1
  <2>6. CASE ~call[k].stale
    <3>1. call[k].read = progress[r]
      BY <1>2, <2>2, <2>6 DEF ReadsFresh
    <3> DEFINE old == progress[r].progress
    <3>2. call[k].read # NoRow /\ call[k].read.progress = old /\ old \in 0 .. 100
      BY <1>0, <3>1
    <3>3. CASE call[k].sent = NoRow
      <4>1. Upserted(call[k]).progress = old
        BY <3>2, <3>3 DEF Upserted
      <4> QED
        BY <2>1, <2>4, <3>2, <4>1
    <3>4. CASE call[k].sent # NoRow
      <4>1. Upserted(call[k]).progress = IF old > call[k].sent THEN old ELSE call[k].sent
        BY <3>2, <3>4 DEF Upserted
      <4>2. call[k].sent \in 0 .. 100
        BY <2>2, <3>4
      <4>3. ~(Upserted(call[k]).progress < old)
        BY <3>2, <4>1, <4>2
      <4> QED
        BY <2>1, <2>4, <4>3
    <3> QED
      BY <3>3, <3>4
  <2> QED
    BY <2>5, <2>6
<1>3. \/ progress'[r] = progress[r]
      \/ \E k \in Calls : TrackWrite(k) /\ call[k].row = r
  BY DEF ProgressNext, TrackRead, TrackWrite, TrackFail
<1> QED
  BY <1>1, <1>2, <1>3

(* The view rate grows with the progress of the contents.                  *)
LEMMA ViewRateRises ==
  ASSUME ProgressTypeOK, ProgressTypeOK', NEW m \in Viewers,
         \A c \in Clips : ContentProgress(m, c) <= ContentProgress(m, c)'
  PROVE  ~(ViewRate(m)' < ViewRate(m))
<1> DEFINE f == [c \in Clips |-> ContentProgress(m, c)]
           h == [c \in Clips |-> ContentProgress(m, c)']
           n == Cardinality(Clips)
<1>1. \A c \in Clips : ContentProgress(m, c) \in Int
  BY ProgressAssumption DEF ProgressTypeOK, ContentProgress, ProgramContentProgress
<1>2. \A c \in Clips : ContentProgress(m, c)' \in Int
  BY ProgressAssumption DEF ProgressTypeOK, ContentProgress, ProgramContentProgress
<1>3. IsFiniteSet(Clips) /\ n \in Nat \ {0}
  BY ProgressAssumption, FS_CardinalityType, FS_EmptySet
<1>4. \A c \in Clips : f[c] \in Int /\ h[c] \in Int /\ f[c] <= h[c]
  BY <1>1, <1>2
<1>5. ViewRate(m) = SumFunctionOnSet(f, Clips) \div n
  BY DEF ViewRate
<1>6. ViewRate(m)' = SumFunctionOnSet(h, Clips) \div n
  BY DEF ViewRate
<1> HIDE DEF f, h, n
<1>7. SumFunctionOnSet(f, Clips) \in Int /\ SumFunctionOnSet(h, Clips) \in Int
  BY <1>3, <1>4, SumTyped
<1>8. SumFunctionOnSet(f, Clips) <= SumFunctionOnSet(h, Clips)
  BY <1>3, <1>4, SumGrows
<1> DEFINE a == SumFunctionOnSet(f, Clips)
           b == SumFunctionOnSet(h, Clips)
<1> HIDE DEF a, b
<1>9. a \in Int /\ b \in Int /\ a <= b /\ n \in Nat \ {0}
  BY <1>3, <1>7, <1>8 DEF a, b
<1>10. a \div n <= b \div n
  BY <1>9, QuotientGrows
<1>11. a \div n \in Int /\ b \div n \in Int
  BY <1>9
<1> QED
  BY <1>5, <1>6, <1>10, <1>11 DEF a, b

RowsNeverDropAlone ==
  \A m \in Viewers :
    /\ \A c \in Clips :
         progress[<<m, c>>] # NoRow =>
           /\ progress'[<<m, c>>] # NoRow
           /\ progress'[<<m, c>>].progress < progress[<<m, c>>].progress =>
                <<m, c>> \in raced'
    /\ ViewRate(m)' < ViewRate(m) => \E c \in Clips : <<m, c>> \in raced'

LEMMA StepsDropRaced ==
  ASSUME ProgressTypeOK, ProgressTypeOK', ReadsFresh, ProgressNext
  PROVE  RowsNeverDropAlone
<1> SUFFICES ASSUME NEW m \in Viewers
             PROVE  /\ \A c \in Clips :
                         progress[<<m, c>>] # NoRow =>
                           /\ progress'[<<m, c>>] # NoRow
                           /\ progress'[<<m, c>>].progress < progress[<<m, c>>].progress =>
                                <<m, c>> \in raced'
                    /\ ViewRate(m)' < ViewRate(m) => \E c \in Clips : <<m, c>> \in raced'
  BY DEF RowsNeverDropAlone
<1>1. ASSUME NEW c \in Clips, progress[<<m, c>>] # NoRow
      PROVE /\ progress'[<<m, c>>] # NoRow
            /\ progress'[<<m, c>>].progress < progress[<<m, c>>].progress => <<m, c>> \in raced'
  <2>1. <<m, c>> \in Viewers \X Clips
    OBVIOUS
  <2> QED
    BY <1>1, <2>1, WritesFreshRaise
<1>2. ASSUME \A c \in Clips : <<m, c>> \notin raced' PROVE ~(ViewRate(m)' < ViewRate(m))
  <2>1. ASSUME NEW c \in Clips PROVE ContentProgress(m, c) <= ContentProgress(m, c)'
    <3>1. <<m, c>> \in Viewers \X Clips
      OBVIOUS
    <3>2. /\ progress[<<m, c>>] # NoRow => progress[<<m, c>>].progress \in 0 .. 100
          /\ progress'[<<m, c>>] # NoRow => progress'[<<m, c>>].progress \in 0 .. 100
      BY <3>1 DEF ProgressTypeOK, ProgramContentProgress
    <3>3. progress[<<m, c>>] # NoRow =>
            /\ progress'[<<m, c>>] # NoRow
            /\ ~(progress'[<<m, c>>].progress < progress[<<m, c>>].progress)
      BY <1>1, <1>2
    <3>0. CASE GradeOf[<<m, c>>] # NoRow
      <4>1. ContentProgress(m, c) = GradeOf[<<m, c>>] /\ ContentProgress(m, c)' = GradeOf[<<m, c>>]
        BY <3>0 DEF ContentProgress
      <4>2. GradeOf[<<m, c>>] \in 0 .. 100
        BY <3>0, <3>1, ProgressAssumption
      <4> QED
        BY <4>1, <4>2
    <3> SUFFICES ASSUME GradeOf[<<m, c>>] = NoRow
                 PROVE  ContentProgress(m, c) <= ContentProgress(m, c)'
      BY <3>0
    <3>4. ContentProgress(m, c)' =
            IF progress'[<<m, c>>] = NoRow THEN 0 ELSE progress'[<<m, c>>].progress
      BY DEF ContentProgress
    <3>5. ContentProgress(m, c) =
            IF progress[<<m, c>>] = NoRow THEN 0 ELSE progress[<<m, c>>].progress
      BY DEF ContentProgress
    <3> DEFINE old == progress[<<m, c>>].progress
               new == progress'[<<m, c>>].progress
    <3>6. CASE progress[<<m, c>>] = NoRow
      <4>1. ContentProgress(m, c) = 0
        BY <3>5, <3>6
      <4>2. ContentProgress(m, c)' \in 0 .. 100
        BY <3>2, <3>4
      <4> QED
        BY <4>1, <4>2
    <3>7. CASE progress[<<m, c>>] # NoRow
      <4>1. ContentProgress(m, c) = old /\ ContentProgress(m, c)' = new
        BY <3>3, <3>4, <3>5, <3>7
      <4>2. old \in 0 .. 100 /\ new \in 0 .. 100 /\ ~(new < old)
        BY <3>2, <3>3, <3>7
      <4> HIDE DEF old, new
      <4>3. old <= new
        BY <4>2
      <4> QED
        BY <4>1, <4>3
    <3> QED
      BY <3>6, <3>7
  <2> QED
    BY <2>1, ViewRateRises
<1> QED
  BY <1>1, <1>2

(* Progress.tla, ProgressNeverDropsAlone: for any members, contents and    *)
(* calls in flight, a row and the view rate go down only by a call that    *)
(* another overtook (trackProgramContentProgress).                         *)
THEOREM ProgressDropsRaced == Spec => ProgressNeverDropsAlone
<1>1. Init => ReadsFresh
  BY DEF Init, ProgressInit, ReadsFresh
<1>2. TypeOK /\ ReadsFresh /\ [Next]_vars => ReadsFresh'
  <2> SUFFICES ASSUME TypeOK, ReadsFresh, [Next]_vars PROVE ReadsFresh'
    OBVIOUS
  <2>1. CASE ProgressStep
    BY <2>1, ReadsStayFresh DEF ProgressStep, TypeOK
  <2>2. CASE UNCHANGED progressVars
    BY <2>2 DEF progressVars, ReadsFresh
  <2> QED
    BY <2>1, <2>2 DEF Next, OrdersStep, CatalogueStep, DoorStep, vars
<1>3. TypeOK /\ TypeOK' /\ ReadsFresh /\ [Next]_vars => [RowsNeverDropAlone]_progressVars
  <2> SUFFICES ASSUME TypeOK, TypeOK', ReadsFresh, [Next]_vars
               PROVE  [RowsNeverDropAlone]_progressVars
    OBVIOUS
  <2>1. CASE ProgressStep
    BY <2>1, StepsDropRaced DEF ProgressStep, TypeOK
  <2>2. CASE UNCHANGED progressVars
    BY <2>2
  <2> QED
    BY <2>1, <2>2 DEF Next, OrdersStep, CatalogueStep, DoorStep, vars
<1> QED
  BY <1>1, <1>2, <1>3, StorefrontTyped, PTL
     DEF Spec, ProgressNeverDropsAlone, RowsNeverDropAlone

-----------------------------------------------------------------------------
(* Exports.  A line in the table belongs to an order in the table.         *)
LinesPlaced == \A l \in Sold : lines[l].order \in Placed

LEMMA LinesStayPlaced ==
  ASSUME OrdersTypeOK, LinesPlaced, OrdersNext
  PROVE  LinesPlaced'
<1> USE DEF OrdersTypeOK
<1>0. \A l \in Sold : lines[l] \in OrderProduct /\ lines[l].order \in OrderIds
                      /\ orders[lines[l].order] # NULL
  BY DEF Sold, OrderProduct, LinesPlaced, Placed
<1>1. ASSUME NEW o \in OrderIds, NEW m \in Members, NEW cart \in SUBSET LineIds,
             Purchase(o, m, cart)
      PROVE LinesPlaced'
  <2>1. PICK row \in OrderLog : orders' = [orders EXCEPT ![o] = row]
    BY <1>1, PurchaseWrites
  <2>2. orders' = [orders EXCEPT ![o] = row] /\ orders[o] = NULL
    BY <1>1, <2>1 DEF Purchase
  <2>3. row # NULL
    BY <2>1, OrdersAssumption
  <2>4. PICK choice \in [cart -> shelf] : lines' = [l \in LineIds |->
            IF l \notin cart THEN lines[l] ELSE
              [order |-> o, product |-> choice[l].product, deliveredAt |-> NULL,
               startedAt |-> choice[l].startedAt, endedAt |-> choice[l].endedAt]]
    BY <1>1, PurchaseWrites
  <2> SUFFICES ASSUME NEW l \in LineIds, lines'[l] # NULL
               PROVE  lines'[l].order \in OrderIds /\ orders'[lines'[l].order] # NULL
    BY DEF LinesPlaced, Sold, Placed
  <2>5. CASE l \in cart
    BY <2>2, <2>3, <2>4, <2>5
  <2>6. CASE l \notin cart
    <3>1. lines'[l] = lines[l] /\ l \in Sold
      BY <2>4, <2>6 DEF Sold
    <3> QED
      BY <1>0, <2>2, <3>1
  <2> QED
    BY <2>5, <2>6
<1>2. ASSUME \A q \in OrderIds : orders[q] # NULL => orders'[q] # NULL,
             \A l \in LineIds : lines'[l] # NULL =>
               lines[l] # NULL /\ lines'[l].order = lines[l].order
      PROVE LinesPlaced'
  BY <1>0, <1>2 DEF LinesPlaced, Sold, Placed
<1>3. ASSUME NEW o \in OrderIds, Pay(o) \/ Refund(o) PROVE LinesPlaced'
  <2>1. PICK s \in Statuses : orders' = [orders EXCEPT ![o].status = s]
    BY <1>3 DEF Pay, Refund, Statuses
  <2>2. orders[o] \in OrderLog
    BY <1>3 DEF Pay, Refund, Placed
  <2>3. [orders[o] EXCEPT !.status = s] \in OrderLog
    BY <2>2 DEF OrderLog
  <2>4. \A q \in OrderIds : orders[q] # NULL => orders'[q] # NULL
    <3>1. [orders[o] EXCEPT !.status = s] # NULL
      BY <2>3, OrdersAssumption
    <3> QED
      BY <2>1, <3>1
  <2>5. \A l \in LineIds : lines'[l] # NULL =>
          lines[l] # NULL /\ lines'[l].order = lines[l].order
    <3>1. \A l \in Sold : \A t \in Moment : [lines[l] EXCEPT !.deliveredAt = t].order = lines[l].order
      BY <1>0 DEF OrderProduct
    <3>2. \/ UNCHANGED lines
          \/ \E t \in Moment : lines' = [l \in LineIds |->
               IF l \in Sold /\ lines[l].order = o
                 THEN [lines[l] EXCEPT !.deliveredAt = t] ELSE lines[l]]
      BY <1>3 DEF Pay, Refund, Moment
    <3> QED
      BY <3>1, <3>2 DEF Sold
  <2> QED
    BY <1>2, <2>4, <2>5
<1>4. ASSUME NEW o \in OrderIds, NEW m \in Members, TransferReceivedOrder(o, m)
      PROVE LinesPlaced'
  <2>1. orders' \in [OrderIds -> OrderLog \cup {NULL}]
    BY <1>4, OrdersKeepTypes DEF OrdersNext
  <2> DEFINE row == [orders[o] EXCEPT !.member = m, !.transfers = orders[o].transfers + 1]
  <2>2. orders[o] \in OrderLog /\ orders[o].transfers < MaxTransfers
    BY <1>4 DEF TransferReceivedOrder, Placed
  <2>3. orders' = [orders EXCEPT ![o] = row]
    BY <1>4 DEF TransferReceivedOrder
  <2>4. row \in OrderLog
    <3>1. orders[o].transfers + 1 \in 0 .. MaxTransfers
      BY <2>2, OrdersAssumption DEF OrderLog
    <3> QED
      BY <2>2, <3>1 DEF OrderLog
  <2> HIDE DEF row
  <2>5. \A q \in OrderIds : orders[q] # NULL => orders'[q] # NULL
    BY <2>3, <2>4, OrdersAssumption
  <2>6. lines' = lines
    BY <1>4 DEF TransferReceivedOrder
  <2> QED
    BY <1>2, <2>5, <2>6
<1>5. CASE Tick
  <2>1. orders' = orders /\ lines' = lines
    BY <1>5 DEF Tick
  <2> QED
    BY <1>2, <2>1
<1> QED
  BY <1>1, <1>3, <1>4, <1>5 DEF OrdersNext

Exported(c) == {q \in Placed : OfStatus(q, c) /\ SomeLine(q, c) /\ SomeDiscount(q, c)}

LEMMA RowsAre ==
  ASSUME NEW c
  PROVE  ExportOrderLogs(c) = {Row(o, c) : o \in Exported(c)}
BY DEF ExportOrderLogs, Exported

LEMMA LinesAgree ==
  ASSUME LinesPlaced, NEW c
  PROVE  UNION {row.lines : row \in ExportOrderLogs(c)} = ExportOrderProducts(c)
<1> DEFINE rows == ExportOrderLogs(c)
<1>1. rows = {Row(o, c) : o \in Exported(c)}
  BY RowsAre
<1>2. ASSUME NEW l \in ExportOrderProducts(c) PROVE l \in UNION {row.lines : row \in rows}
  <2> DEFINE o == lines[l].order
  <2>1. l \in Sold /\ o \in Placed /\ OfProducts(l, c) /\ OfStatus(o, c) /\ SomeDiscount(o, c)
    BY <1>2 DEF ExportOrderProducts, LinesPlaced
  <2>2. l \in LinesShown(o, c)
    BY <2>1 DEF LinesOf, LinesShown
  <2>3. o \in Exported(c)
    BY <2>1, <2>2 DEF Exported, SomeLine
  <2>4. Row(o, c) \in rows /\ l \in Row(o, c).lines
    BY <1>1, <2>2, <2>3 DEF Row
  <2> QED
    BY <2>4
<1>3. ASSUME NEW o \in Exported(c), NEW l \in Row(o, c).lines PROVE l \in ExportOrderProducts(c)
  <2>1. l \in Sold /\ lines[l].order = o /\ OfProducts(l, c)
    BY <1>3 DEF Row, LinesShown, LinesOf
  <2>2. OfStatus(o, c) /\ SomeDiscount(o, c)
    BY DEF Exported
  <2> QED
    BY <2>1, <2>2 DEF ExportOrderProducts
<1> QED
  BY <1>1, <1>2, <1>3

LEMMA DiscountsTyped ==
  ASSUME OrdersTypeOK, NEW o \in Placed
  PROVE  orders[o].discounts \subseteq Discounts /\ orders[o].fee \in Nat
BY DEF OrdersTypeOK, Placed, OrderLog

LEMMA DiscountsAgree ==
  ASSUME OrdersTypeOK, NEW c
  PROVE  UNION {{row.order} \X row.discounts : row \in ExportOrderLogs(c)}
           = ExportOrderDiscounts(c)
<1> DEFINE rows == ExportOrderLogs(c)
<1>1. rows = {Row(o, c) : o \in Exported(c)}
  BY RowsAre
<1>2. \A o : Row(o, c).order = o /\ Row(o, c).discounts = DiscountsShown(o, c)
  BY DEF Row
<1>3. ASSUME NEW d \in ExportOrderDiscounts(c)
      PROVE  \E row \in rows : d \in {row.order} \X row.discounts
  <2>1. PICK o \in Placed, k \in Discounts : d = <<o, k>>
    BY <1>3 DEF ExportOrderDiscounts
  <2>2. k \in DiscountsShown(o, c) /\ OfStatus(o, c) /\ SomeLine(o, c)
    BY <1>3, <2>1 DEF ExportOrderDiscounts, DiscountsShown
  <2>3. o \in Exported(c)
    BY <2>2 DEF Exported, SomeDiscount
  <2>4. d \in {o} \X DiscountsShown(o, c)
    BY <2>1, <2>2
  <2> QED
    BY <1>1, <1>2, <2>3, <2>4
<1>4. ASSUME NEW o \in Exported(c), NEW k \in DiscountsShown(o, c)
      PROVE  <<o, k>> \in ExportOrderDiscounts(c)
  <2>1. o \in Placed /\ OfStatus(o, c) /\ SomeLine(o, c)
    BY DEF Exported
  <2>2. k \in orders[o].discounts /\ OfTarget(k, c) /\ k \in Discounts
    BY <2>1, DiscountsTyped DEF DiscountsShown
  <2> QED
    BY <2>1, <2>2 DEF ExportOrderDiscounts
<1>5. ASSUME NEW row \in rows, NEW d \in {row.order} \X row.discounts
      PROVE  d \in ExportOrderDiscounts(c)
  <2>1. PICK o \in Exported(c) : row = Row(o, c)
    BY <1>1
  <2>2. PICK k \in DiscountsShown(o, c) : d = <<o, k>>
    BY <1>2, <2>1
  <2> QED
    BY <1>4, <2>2
<1> HIDE DEF rows
<1> QED
  BY <1>3, <1>5 DEF rows

(* What the other two exports hold of an exported order.                   *)
LEMMA ShownElsewhere ==
  ASSUME OrdersTypeOK, NEW c, NEW o \in Exported(c)
  PROVE  /\ {l \in ExportOrderProducts(c) : lines[l].order = o} = LinesShown(o, c)
         /\ {k \in Discounts : <<o, k>> \in ExportOrderDiscounts(c)} = DiscountsShown(o, c)
<1>1. o \in Placed /\ OfStatus(o, c) /\ SomeLine(o, c) /\ SomeDiscount(o, c)
  BY DEF Exported
<1>2. {l \in ExportOrderProducts(c) : lines[l].order = o} = LinesShown(o, c)
  BY <1>1 DEF ExportOrderProducts, LinesShown, LinesOf
<1>3. orders[o].discounts \subseteq Discounts
  BY <1>1, DiscountsTyped
<1>4. \A k \in Discounts : <<o, k>> \in ExportOrderDiscounts(c) <=> k \in DiscountsShown(o, c)
  BY <1>1 DEF ExportOrderDiscounts, DiscountsShown
<1>5. DiscountsShown(o, c) \subseteq Discounts
  BY <1>3 DEF DiscountsShown
<1> QED
  BY <1>2, <1>4, <1>5

LEMMA PayableFalls ==
  ASSUME NEW gross \in Int, NEW more \in Int, NEW less \in Int, NEW fee \in Int, less <= more
  PROVE  Payable(gross, less, fee) >= Payable(gross, more, fee)
BY DEF Payable

(* Discounts that are not shown only raise the total.                      *)
LEMMA HiddenDiscountsRaise ==
  ASSUME OrdersTypeOK, NEW c, NEW o \in Placed
  PROVE  LET gross == PricesOf(LinesShown(o, c))
         IN Payable(gross, ReductionsOf(DiscountsShown(o, c)), orders[o].fee)
              >= Payable(gross, ReductionsOf(orders[o].discounts), orders[o].fee)
<1> DEFINE L == LinesShown(o, c)
           f == [l \in L |-> PriceOf[lines[l].product]]
           all == orders[o].discounts
           some == DiscountsShown(o, c)
<1>1. L \subseteq LineIds /\ IsFiniteSet(L)
  <2>1. L \subseteq LineIds
    BY DEF LinesShown, LinesOf, Sold
  <2> QED
    BY <2>1, OrdersAssumption, FS_Subset
<1>2. \A l \in L : f[l] \in Int
  <2> SUFFICES ASSUME NEW l \in L PROVE PriceOf[lines[l].product] \in Int
    OBVIOUS
  <2>1. lines[l] \in OrderProduct
    BY DEF LinesShown, LinesOf, Sold, OrdersTypeOK
  <2> QED
    BY <2>1, OrdersAssumption DEF OrderProduct
<1>3. PricesOf(L) \in Int
  <2>1. PricesOf(L) = SumFunctionOnSet(f, L)
    BY DEF PricesOf
  <2> HIDE DEF L, f
  <2> QED
    BY <1>1, <1>2, <2>1, SumTyped
<1>4. all \subseteq Discounts /\ orders[o].fee \in Nat
  BY DiscountsTyped
<1>5. IsFiniteSet(all) /\ IsFiniteSet(some) /\ some \in SUBSET all
  <2>1. some \in SUBSET all
    BY DEF DiscountsShown
  <2> HIDE DEF all, some
  <2> QED
    BY <1>4, <2>1, OrdersAssumption, FS_Subset
<1>6. \A k \in all : ReductionOf[k] \in Nat
  BY <1>4, OrdersAssumption
<1> HIDE DEF L, all, some
<1>7. ReductionsOf(some) <= ReductionsOf(all)
  BY <1>5, <1>6, SumOfPart DEF ReductionsOf
<1>8. ReductionsOf(some) \in Int /\ ReductionsOf(all) \in Int
  <2>1. \A k \in all : ReductionOf[k] \in Int
    BY <1>6
  <2>2. \A k \in some : ReductionOf[k] \in Int
    BY <1>5, <2>1
  <2> QED
    BY <1>5, <2>1, <2>2, SumTyped DEF ReductionsOf
<1>9. Payable(PricesOf(L), ReductionsOf(some), orders[o].fee)
        >= Payable(PricesOf(L), ReductionsOf(all), orders[o].fee)
  BY <1>3, <1>4, <1>7, <1>8, PayableFalls
<1> QED
  BY <1>9 DEF L, all, some

(* An export by discounts holds orders with one of them.                   *)
LEMMA AskedForIsShown ==
  ASSUME NEW c \in ExportConditions, NEW o \in Exported(c), OrdersTypeOK,
         c.coupons \notin {NULL, {}}
  PROVE  \E k \in c.coupons : <<o, k>> \in ExportOrderDiscounts(c)
<1>1. DiscountTargets(c) = c.coupons
  BY DEF DiscountTargets
<1>2. SomeDiscount(o, c)
  BY DEF Exported
<1>3. DiscountsShown(o, c) # {}
  BY <1>1, <1>2 DEF SomeDiscount
<1>4. PICK k \in DiscountsShown(o, c) : TRUE
  BY <1>3
<1>5. k \in c.coupons
  BY <1>1, <1>4 DEF DiscountsShown, OfTarget
<1>6. <<o, k>> \in ExportOrderDiscounts(c)
  BY <1>4, ShownElsewhere
<1> QED
  BY <1>5, <1>6

LEMMA ExportsAgree == OrdersTypeOK /\ LinesPlaced => OrderExportsAgree
<1> SUFFICES ASSUME OrdersTypeOK, LinesPlaced, NEW c \in ExportConditions
             PROVE  /\ UNION {row.lines : row \in ExportOrderLogs(c)} = ExportOrderProducts(c)
                    /\ UNION {{row.order} \X row.discounts : row \in ExportOrderLogs(c)}
                         = ExportOrderDiscounts(c)
                    /\ \A row \in ExportOrderLogs(c) :
                         LET o == row.order
                             total == OrderLogTotalPrice(row)
                             gross == PricesOf({l \in ExportOrderProducts(c) : lines[l].order = o})
                             cut == ReductionsOf({k \in Discounts : <<o, k>> \in ExportOrderDiscounts(c)})
                         IN /\ total = Payable(gross, cut, orders[o].fee)
                            /\ c.coupons \notin {NULL, {}} =>
                                 \E k \in c.coupons : <<o, k>> \in ExportOrderDiscounts(c)
                            /\ c.productIds = NULL =>
                                 total >= Payable(gross, ReductionsOf(orders[o].discounts),
                                                  orders[o].fee)
  BY DEF OrderExportsAgree
<1>1. ASSUME NEW o \in Exported(c)
      PROVE  LET total == OrderLogTotalPrice(Row(o, c))
                 gross == PricesOf({l \in ExportOrderProducts(c) : lines[l].order = o})
                 cut == ReductionsOf({k \in Discounts : <<o, k>> \in ExportOrderDiscounts(c)})
             IN /\ total = Payable(gross, cut, orders[o].fee)
                /\ c.coupons \notin {NULL, {}} =>
                     \E k \in c.coupons : <<o, k>> \in ExportOrderDiscounts(c)
                /\ c.productIds = NULL =>
                     total >= Payable(gross, ReductionsOf(orders[o].discounts), orders[o].fee)
  <2>1. o \in Placed
    BY DEF Exported
  <2>2. /\ Row(o, c).lines = LinesShown(o, c) /\ Row(o, c).discounts = DiscountsShown(o, c)
        /\ Row(o, c).fee = orders[o].fee
    BY DEF Row
  <2>3. OrderLogTotalPrice(Row(o, c)) =
          Payable(PricesOf(LinesShown(o, c)), ReductionsOf(DiscountsShown(o, c)), orders[o].fee)
    BY <2>2 DEF OrderLogTotalPrice
  <2> QED
    BY <2>1, <2>3, ShownElsewhere, HiddenDiscountsRaise, AskedForIsShown
<1>2. ASSUME NEW row \in ExportOrderLogs(c)
      PROVE  \E o \in Exported(c) : row = Row(o, c) /\ row.order = o
  BY RowsAre DEF Row
<1> QED
  BY <1>1, <1>2, LinesAgree, DiscountsAgree

(* Orders.tla, OrderExportsAgree: for any orders with any number of        *)
(* discounts, and any condition, the three exports hold the same lines and *)
(* discounts, the totals of the order export are what the other two add up *)
(* to with the shipping fee, and the discounts a condition hides only      *)
(* raise them (order.service.ts).                                          *)
THEOREM OrderExportsAgreed == Spec => []OrderExportsAgree
<1>1. Init => LinesPlaced
  BY DEF Init, OrdersInit, LinesPlaced, Sold
<1>2. TypeOK /\ LinesPlaced /\ [Next]_vars => LinesPlaced'
  <2> SUFFICES ASSUME TypeOK, LinesPlaced, [Next]_vars PROVE LinesPlaced'
    OBVIOUS
  <2>1. CASE OrdersStep
    BY <2>1, LinesStayPlaced DEF OrdersStep, TypeOK
  <2>2. CASE UNCHANGED orderVars
    BY <2>2 DEF orderVars, LinesPlaced, Sold, Placed
  <2> QED
    BY <2>1, <2>2 DEF Next, CatalogueStep, DoorStep, ProgressStep, vars
<1>3. TypeOK /\ LinesPlaced => OrderExportsAgree
  BY ExportsAgree DEF TypeOK
<1> QED
  BY <1>1, <1>2, <1>3, StorefrontTyped, PTL DEF Spec

-----------------------------------------------------------------------------
(* Attendance: the rows of activity_enrollment and how many there are.     *)
Seat(l, st) ==
  [line |-> l, ticket |-> st.ticket, seat |-> st.type,
   member |-> orders[lines[l].order].member,
   attended |-> <<l, st.session>> \in attendance]

LEMMA SeatedAre ==
  ASSUME NEW st
  PROVE  Seated(st) = {Seat(l, st) : l \in Enrolled(st.ticket)}
BY DEF Seated, Seat

LEMMA EnrolledFinite ==
  ASSUME NEW t
  PROVE  /\ Enrolled(t) \subseteq LineIds /\ IsFiniteSet(Enrolled(t))
         /\ Participants(t) = Cardinality(Enrolled(t)) /\ Participants(t) \in Nat
<1>1. Enrolled(t) \subseteq LineIds
  BY DEF Enrolled, Sold
<1>2. IsFiniteSet(Enrolled(t))
  BY <1>1, OrdersAssumption, FS_Subset
<1> QED
  BY <1>1, <1>2, FS_CardinalityType DEF Participants

LEMMA SeatedSize ==
  ASSUME NEW st
  PROVE  IsFiniteSet(Seated(st)) /\ Cardinality(Seated(st)) = Participants(st.ticket)
<1> DEFINE S == Enrolled(st.ticket)
           T == Seated(st)
           f == [l \in S |-> Seat(l, st)]
<1>1. \A l \in S : f[l] = Seat(l, st) /\ f[l].line = l
  BY DEF Seat
<1>2. T = {Seat(l, st) : l \in S}
  BY SeatedAre
<1> HIDE DEF f, T, S
<1>3. f \in [S -> T]
  BY <1>1, <1>2 DEF f
<1>4. \A t \in T : \E l \in S : f[l] = t
  BY <1>1, <1>2
<1>5. \A a, b \in S : f[a] = f[b] => a = b
  BY <1>1
<1>6. f \in Bijection(S, T)
  <2>1. f \in Injection(S, T)
    BY <1>3, <1>5 DEF Injection, IsInjective
  <2>2. f \in Surjection(S, T)
    BY <1>3, <1>4 DEF Surjection
  <2> QED
    BY <2>1, <2>2 DEF Bijection
<1>7. IsFiniteSet(S) /\ Participants(st.ticket) = Cardinality(S)
  BY EnrolledFinite DEF S
<1>8. \A U, V, g : IsFiniteSet(U) /\ g \in Bijection(U, V) =>
        IsFiniteSet(V) /\ Cardinality(V) = Cardinality(U)
  BY FS_Bijection DEF ExistsBijection
<1> QED
  BY <1>6, <1>7, <1>8 DEF T

LEMMA SeatsFinite == IsFiniteSet(SessionTickets) /\ SessionTickets \subseteq SessionTicket
<1> DEFINE Kinds == {"online", "offline"}
           triple == [st \in SessionTickets |-> <<st.session, st.ticket, st.type>>]
           T == (Sessions \X Tickets) \X Kinds
           to == [x \in T |-> [session |-> x[1][1], ticket |-> x[1][2], type |-> x[2]]]
<1>1. IsFiniteSet(Sessions) /\ IsFiniteSet(Tickets) /\ IsFiniteSet(Kinds)
  <2>1. IsFiniteSet({"online"}) /\ IsFiniteSet({"offline"})
    BY FS_Singleton
  <2>2. {"online"} \cup {"offline"} = Kinds
    OBVIOUS
  <2>3. IsFiniteSet({"online"} \cup {"offline"})
    BY <2>1, FS_Union
  <2> QED
    BY <2>2, <2>3, ActivitiesAssumption
<1>2. IsFiniteSet(Sessions \X Tickets)
  BY <1>1, FS_Product
<1>3. IsFiniteSet(T)
  BY <1>1, <1>2, FS_Product
<1>4. to \in Surjection(T, SessionTicket)
  <2>1. to \in [T -> SessionTicket]
    BY DEF SessionTicket
  <2>2. ASSUME NEW st \in SessionTicket PROVE \E x \in T : to[x] = st
    <3>1. st = [session |-> st.session, ticket |-> st.ticket, type |-> st.type]
      BY DEF SessionTicket
    <3>2. <<<<st.session, st.ticket>>, st.type>> \in T
      BY DEF SessionTicket
    <3>3. to[<<<<st.session, st.ticket>>, st.type>>] = st
      BY <3>1, <3>2
    <3> QED
      BY <3>2, <3>3
  <2> HIDE DEF to, T
  <2> QED
    BY <2>1, <2>2 DEF Surjection
<1>5. IsFiniteSet(SessionTicket)
  <2> HIDE DEF to, T
  <2> QED
    BY <1>3, <1>4, FS_Surjection
<1> QED
  BY <1>5, ActivitiesAssumption, FS_Subset

LEMMA SeatOfRow ==
  ASSUME NEW st, NEW r \in Seated(st)
  PROVE  r.ticket = st.ticket /\ r.seat = st.type /\ r.line \in Enrolled(st.ticket)
<1>1. PICK l \in Enrolled(st.ticket) : r = Seat(l, st)
  BY SeatedAre
<1> QED
  BY <1>1 DEF Seat

LEMMA SeatsDisjoint ==
  ASSUME NEW s, NEW a \in SeatsOf(s), NEW b \in SeatsOf(s), a # b
  PROVE  Seated(a) \cap Seated(b) = {}
<1>1. a \in SessionTicket /\ b \in SessionTicket /\ a.session = s /\ b.session = s
  BY SeatsFinite DEF SeatsOf
<1>2. a.ticket # b.ticket \/ a.type # b.type
  BY <1>1 DEF SessionTicket
<1>3. \A r \in Seated(a) : r.ticket = a.ticket /\ r.seat = a.type
  BY SeatOfRow
<1>4. \A r \in Seated(b) : r.ticket = b.ticket /\ r.seat = b.type
  BY SeatOfRow
<1> QED
  BY <1>2, <1>3, <1>4

LEMMA SeatsCounted ==
  ASSUME NEW s, NEW Q \in SUBSET SeatsOf(s)
  PROVE  /\ IsFiniteSet(UNION {Seated(st) : st \in Q})
         /\ SumFunctionOnSet([st \in SessionTickets |-> Participants(st.ticket)], Q)
              = Cardinality(UNION {Seated(st) : st \in Q})
<1> DEFINE f == [st \in SessionTickets |-> Participants(st.ticket)]
           F == [st \in Q |-> Seated(st)]
<1>1. Q \subseteq SessionTickets /\ IsFiniteSet(Q)
  <2>1. Q \subseteq SessionTickets
    BY DEF SeatsOf
  <2> QED
    BY <2>1, SeatsFinite, FS_Subset
<1>2. \A x \in Q : IsFiniteSet(F[x]) /\ f[x] = Cardinality(F[x])
  BY <1>1, SeatedSize
<1>3. \A x, y \in Q : x # y => F[x] \cap F[y] = {}
  BY SeatsDisjoint
<1>4. UNION {Seated(st) : st \in Q} = AllOf(F, Q)
  BY DEF AllOf
<1>5. IsFiniteSet(AllOf(F, Q)) /\ SumFunctionOnSet(f, Q) = Cardinality(AllOf(F, Q))
  <2> HIDE DEF f, F
  <2> QED
    BY <1>1, <1>2, <1>3, SumOfSizes
<1> QED
  BY <1>4, <1>5

(* The seats of a session are online or offline, and the two counts are    *)
(* those of its enrollments.                                               *)
LEMMA SessionCounted ==
  ASSUME NEW s
  PROVE  /\ SessionCount(s, "online") \in Int /\ SessionCount(s, "offline") \in Int
         /\ Cardinality(ActivityEnrollment(s))
              = SessionCount(s, "online") + SessionCount(s, "offline")
<1> DEFINE A == {st \in SeatsOf(s) : st.type = "online"}
           B == {st \in SeatsOf(s) : st.type = "offline"}
           P == UNION {Seated(st) : st \in A}
           Q == UNION {Seated(st) : st \in B}
<1>1. A \in SUBSET SeatsOf(s) /\ B \in SUBSET SeatsOf(s)
  OBVIOUS
<1>2. IsFiniteSet(P) /\ SessionCount(s, "online") = Cardinality(P)
  <2> HIDE DEF P, A
  <2> QED
    BY <1>1, SeatsCounted DEF SessionCount, P, A
<1>3. IsFiniteSet(Q) /\ SessionCount(s, "offline") = Cardinality(Q)
  <2> HIDE DEF Q, B
  <2> QED
    BY <1>1, SeatsCounted DEF SessionCount, Q, B
<1>4. A \cup B = SeatsOf(s)
  BY SeatsFinite DEF SeatsOf, SessionTicket
<1>5. ActivityEnrollment(s) = P \cup Q
  BY <1>4 DEF ActivityEnrollment
<1>6. P \cap Q = {}
  <2>1. \A r \in P : r.seat = "online"
    BY SeatOfRow
  <2>2. \A r \in Q : r.seat = "offline"
    BY SeatOfRow
  <2> QED
    BY <2>1, <2>2
<1> HIDE DEF P, Q
<1>7. Cardinality(P) \in Nat /\ Cardinality(Q) \in Nat
  BY <1>2, <1>3, FS_CardinalityType
<1>8. Cardinality(P \cup Q) = Cardinality(P) + Cardinality(Q) - Cardinality(P \cap Q)
  BY <1>2, <1>3, FS_Union
<1>9. Cardinality(P \cap Q) = 0
  BY <1>6, FS_EmptySet
<1>10. Cardinality(P \cup Q) = Cardinality(P) + Cardinality(Q)
  BY <1>7, <1>8, <1>9
<1> QED
  BY <1>2, <1>3, <1>5, <1>7, <1>10

LEMMA ActivityCounted ==
  ASSUME NEW a
  PROVE  CollectionCount(a, "online") + CollectionCount(a, "offline")
           = SumFunctionOnSet([s \in Sessions |-> Cardinality(ActivityEnrollment(s))], HeldBy(a))
<1> DEFINE S == HeldBy(a)
           f == [s \in Sessions |-> SessionCount(s, "online")]
           h == [s \in Sessions |-> SessionCount(s, "offline")]
           e == [s \in Sessions |-> Cardinality(ActivityEnrollment(s))]
<1>1. S \subseteq Sessions /\ IsFiniteSet(S)
  <2>1. S \subseteq Sessions
    BY DEF HeldBy
  <2> QED
    BY <2>1, ActivitiesAssumption, FS_Subset
<1>2. \A s \in S : f[s] \in Int /\ h[s] \in Int /\ e[s] = f[s] + h[s]
  BY <1>1, SessionCounted
<1>3. CollectionCount(a, "online") = SumFunctionOnSet(f, S)
  BY DEF CollectionCount
<1>4. CollectionCount(a, "offline") = SumFunctionOnSet(h, S)
  BY DEF CollectionCount
<1> HIDE DEF f, h, S
<1>5. SumFunctionOnSet(e, S) = SumFunctionOnSet(f, S) + SumFunctionOnSet(h, S)
  <2> HIDE DEF e
  <2> QED
    BY <1>1, <1>2, SumAdds
<1> QED
  BY <1>3, <1>4, <1>5 DEF S

(* The lines of a ticket in the list of a session are those of the ticket. *)
LEMMA LinesListed ==
  ASSUME NEW t \in Tickets, NEW s \in SessionsOf(t)
  PROVE  {r.line : r \in {q \in ActivityEnrollment(s) : q.ticket = t}} = Enrolled(t)
<1>1. PICK st \in SessionTickets : st.ticket = t /\ st.session = s
  BY DEF SessionsOf
<1>2. ASSUME NEW l \in Enrolled(t)
      PROVE l \in {r.line : r \in {q \in ActivityEnrollment(s) : q.ticket = t}}
  <2>1. Seat(l, st) \in Seated(st)
    BY <1>1, SeatedAre
  <2>2. st \in SeatsOf(s)
    BY <1>1 DEF SeatsOf
  <2>3. Seat(l, st) \in ActivityEnrollment(s)
    BY <2>1, <2>2 DEF ActivityEnrollment
  <2>4. Seat(l, st).ticket = t /\ Seat(l, st).line = l
    BY <1>1 DEF Seat
  <2> QED
    BY <2>3, <2>4
<1>3. ASSUME NEW r \in ActivityEnrollment(s), r.ticket = t PROVE r.line \in Enrolled(t)
  <2>1. PICK x \in SeatsOf(s) : r \in Seated(x)
    BY DEF ActivityEnrollment
  <2>2. r.ticket = x.ticket /\ r.line \in Enrolled(x.ticket)
    BY <2>1, SeatOfRow
  <2> QED
    BY <1>3, <2>2
<1> QED
  BY <1>2, <1>3

LEMMA RowsOfEnrollment ==
  ASSUME NEW s, NEW r \in ActivityEnrollment(s)
  PROVE  /\ r.line \in Enrolled(r.ticket)
         /\ r.member = orders[lines[r.line].order].member
         /\ r.attended = (<<r.line, s>> \in attendance)
<1>1. PICK x \in SeatsOf(s) : r \in Seated(x)
  BY DEF ActivityEnrollment
<1>2. PICK l \in Enrolled(x.ticket) : r = Seat(l, x)
  BY <1>1, SeatedAre
<1>3. x.session = s
  BY DEF SeatsOf
<1>4. r.line = l /\ r.ticket = x.ticket
  BY <1>2 DEF Seat
<1>5. r.member = orders[lines[l].order].member
  BY <1>2 DEF Seat
<1>6. r.attended = (<<l, x.session>> \in attendance)
  BY <1>2 DEF Seat
<1> QED
  BY <1>3, <1>4, <1>5, <1>6

(* Who attended holds a ticket to the session: the attendance names a line *)
(* of the ticket, and a line keeps its product.                            *)
HeldThere(l, s) ==
  \E t \in Tickets :
    /\ l \in Sold /\ lines[l].product = [type |-> "ActivityTicket", target |-> t]
    /\ s \in SessionsOf(t)

AttendedHeld == \A l \in LineIds, s \in Sessions : <<l, s>> \in attendance => HeldThere(l, s)

LEMMA ProductsKept ==
  ASSUME OrdersTypeOK, OrdersNext
  PROVE  \A l \in Sold : l \in Sold' /\ lines'[l].product = lines[l].product
<1> USE DEF OrdersTypeOK
<1>1. ASSUME NEW o \in OrderIds, NEW m \in Members, NEW cart \in SUBSET LineIds,
             Purchase(o, m, cart)
      PROVE \A l \in Sold : lines'[l] = lines[l]
  BY <1>1 DEF Purchase, Sold
<1>2. ASSUME NEW o \in OrderIds, Pay(o) \/ Refund(o)
      PROVE \A l \in Sold : lines'[l] # NULL /\ lines'[l].product = lines[l].product
  <2>1. \A l \in Sold : lines[l] \in OrderProduct
    BY DEF Sold
  <2>2. \A l \in Sold : \A t \in Moment :
          /\ [lines[l] EXCEPT !.deliveredAt = t] \in OrderProduct
          /\ [lines[l] EXCEPT !.deliveredAt = t].product = lines[l].product
    BY <2>1 DEF OrderProduct
  <2>3. \/ UNCHANGED lines
        \/ \E t \in Moment : lines' = [l \in LineIds |->
             IF l \in Sold /\ lines[l].order = o
               THEN [lines[l] EXCEPT !.deliveredAt = t] ELSE lines[l]]
    BY <1>2 DEF Pay, Refund, Moment
  <2>4. \A l \in Sold : l \in LineIds /\ lines[l] # NULL
    BY DEF Sold
  <2>5. CASE UNCHANGED lines
    BY <2>4, <2>5
  <2>6. ASSUME NEW t \in Moment,
               lines' = [l \in LineIds |->
                 IF l \in Sold /\ lines[l].order = o
                   THEN [lines[l] EXCEPT !.deliveredAt = t] ELSE lines[l]],
               NEW l \in Sold
        PROVE  lines'[l] # NULL /\ lines'[l].product = lines[l].product
    <3>1. [lines[l] EXCEPT !.deliveredAt = t] # NULL
      BY <2>2, OrdersAssumption
    <3>2. lines'[l] \in {lines[l], [lines[l] EXCEPT !.deliveredAt = t]}
      BY <2>4, <2>6
    <3> QED
      BY <2>2, <2>4, <3>1, <3>2
  <2> QED
    BY <2>3, <2>5, <2>6
<1>3. ASSUME lines' = lines PROVE \A l \in Sold : lines'[l] = lines[l]
  BY <1>3
<1>4. ASSUME \A l \in Sold : lines'[l] # NULL /\ lines'[l].product = lines[l].product
      PROVE  \A l \in Sold : l \in Sold' /\ lines'[l].product = lines[l].product
  BY <1>4 DEF Sold
<1>5. \/ \A l \in Sold : lines'[l] = lines[l]
      \/ \A l \in Sold : lines'[l] # NULL /\ lines'[l].product = lines[l].product
  BY <1>1, <1>2, <1>3 DEF OrdersNext, TransferReceivedOrder, Tick
<1> QED
  BY <1>4, <1>5 DEF Sold

LEMMA AttendedStayHeld ==
  ASSUME TypeOK, AttendedHeld, [Next]_vars
  PROVE  AttendedHeld'
<1>1. ASSUME attendance' = attendance,
             \A l \in Sold : l \in Sold' /\ lines'[l].product = lines[l].product
      PROVE  AttendedHeld'
  BY <1>1 DEF AttendedHeld, HeldThere
<1>2. ASSUME lines' = lines PROVE \A l \in Sold : l \in Sold' /\ lines'[l].product = lines[l].product
  BY <1>2 DEF Sold
<1>3. CASE OrdersStep
  BY <1>1, <1>3, ProductsKept DEF OrdersStep, TypeOK
<1>4. CASE DoorStep
  <2>1. PICK l \in LineIds, s \in Sessions : Attend(l, s)
    BY <1>4 DEF DoorStep
  <2>2. HeldThere(l, s) /\ attendance' = attendance \cup {<<l, s>>}
    BY <2>1 DEF Attend, HeldThere, Enrolled
  <2>3. lines' = lines
    BY <1>4 DEF DoorStep, orderVars
  <2> QED
    BY <2>2, <2>3 DEF AttendedHeld, HeldThere, Sold
<1>5. CASE UNCHANGED <<lines, attendance>>
  BY <1>1, <1>2, <1>5
<1> QED
  BY <1>3, <1>4, <1>5 DEF Next, CatalogueStep, ProgressStep, vars, orderVars

(* What the pages tell of one row of the list of participants.             *)
LEMMA RowTold ==
  ASSUME TypeOK, AttendedHeld, NEW t \in Tickets, NEW s \in SessionsOf(t),
         NEW r \in ActivityEnrollment(s), r.ticket = t
  PROVE  /\ r.attended /\ TicketLines(r.member, t) = {r.line} =>
              \A l \in TicketLines(r.member, t) : GetActivityTicketEnrollment(l, s)
         /\ GetActivityTicketEnrollment(r.line, s) =>
              \E x \in SessionsOf(t) : \E q \in ActivityEnrollment(x) :
                q.line = r.line /\ q.attended
         /\ Enrolled(t) = {r.line} => FetchSessions(t, s) = {r.attended}
<1> DEFINE k == r.line
<1>0. s \in Sessions
  BY SeatsFinite DEF SessionsOf, SessionTicket
<1>1. k \in Enrolled(t) /\ k \in LineIds
  BY RowsOfEnrollment, EnrolledFinite
<1>2. r.attended = (<<k, s>> \in attendance)
  BY RowsOfEnrollment
<1>3. ASSUME r.attended, TicketLines(r.member, t) = {k},
             NEW l \in TicketLines(r.member, t)
      PROVE  GetActivityTicketEnrollment(l, s)
  <2>1. <<k, s>> \in attendance
    BY <1>2, <1>3, Zenon
  <2>2. l = k
    BY <1>3
  <2> QED
    BY <1>0, <2>1, <2>2 DEF GetActivityTicketEnrollment
<1>4. ASSUME GetActivityTicketEnrollment(k, s)
      PROVE  \E x \in SessionsOf(t) : \E q \in ActivityEnrollment(x) : q.line = k /\ q.attended
  <2>1. PICK x \in Sessions : <<k, x>> \in attendance
    BY <1>4 DEF GetActivityTicketEnrollment
  <2>2. PICK u \in Tickets : /\ lines[k].product = [type |-> "ActivityTicket", target |-> u]
                             /\ x \in SessionsOf(u)
    BY <1>1, <2>1 DEF AttendedHeld, HeldThere
  <2>3. lines[k].product = [type |-> "ActivityTicket", target |-> t]
    BY <1>1 DEF Enrolled
  <2>4. u = t
    <3>1. [type |-> "ActivityTicket", target |-> u].target = u
      OBVIOUS
    <3>2. [type |-> "ActivityTicket", target |-> t].target = t
      OBVIOUS
    <3> QED
      BY <2>2, <2>3, <3>1, <3>2
  <2>5. PICK st \in SessionTickets : st.ticket = t /\ st.session = x
    BY <2>2, <2>4 DEF SessionsOf
  <2> DEFINE q == Seat(k, st)
  <2>6. q \in ActivityEnrollment(x)
    BY <1>1, <2>5, SeatedAre DEF ActivityEnrollment, SeatsOf
  <2>7. q.line = k
    BY DEF Seat
  <2>8. q.attended = (<<k, x>> \in attendance)
    BY <2>6, <2>7, RowsOfEnrollment
  <2> HIDE DEF q
  <2>9. q.attended
    BY <2>1, <2>8, Zenon
  <2> QED
    BY <2>2, <2>4, <2>6, <2>7, <2>9
<1>5. ASSUME Enrolled(t) = {k} PROVE FetchSessions(t, s) = {r.attended}
  <2> DEFINE rows == {q \in ActivityEnrollment(s) : q.ticket = t}
  <2>1. r \in rows
    OBVIOUS
  <2>2. ASSUME NEW q \in rows PROVE q.attended = r.attended
    <3>1. q.line \in Enrolled(t) /\ q.attended = (<<q.line, s>> \in attendance)
      BY RowsOfEnrollment
    <3>2. q.line = k
      BY <1>5, <3>1
    <3> QED
      BY <1>2, <3>1, <3>2, Zenon
  <2>3. FetchSessions(t, s) = IF rows = {} THEN {NULL} ELSE {q.attended : q \in rows}
    BY DEF FetchSessions
  <2> HIDE DEF rows
  <2>4. {q.attended : q \in rows} = {r.attended}
    BY <2>1, <2>2, Zenon
  <2>5. rows # {}
    BY <2>1
  <2> QED
    BY <2>3, <2>4, <2>5
<1> QED
  BY <1>3, <1>4, <1>5

LEMMA AttendanceIsTold == TypeOK /\ AttendedHeld => AttendanceTold
<1> SUFFICES ASSUME TypeOK, AttendedHeld PROVE AttendanceTold
  OBVIOUS
<1>1. ASSUME NEW t \in Tickets, NEW s \in SessionsOf(t)
      PROVE Cardinality({r.line : r \in {q \in ActivityEnrollment(s) : q.ticket = t}})
              = Participants(t)
  BY <1>1, LinesListed, EnrolledFinite
<1>2. ASSUME NEW t \in Tickets, NEW s \in SessionsOf(t), NEW r \in ActivityEnrollment(s),
             r.ticket = t
      PROVE  /\ r.attended /\ TicketLines(r.member, t) = {r.line} =>
                  \A l \in TicketLines(r.member, t) : GetActivityTicketEnrollment(l, s)
             /\ GetActivityTicketEnrollment(r.line, s) =>
                  \E x \in SessionsOf(t) : \E q \in ActivityEnrollment(x) :
                    q.line = r.line /\ q.attended
             /\ Enrolled(t) = {r.line} => FetchSessions(t, s) = {r.attended}
  BY <1>2, RowTold
<1> QED
  BY <1>1, <1>2, ActivityCounted DEF AttendanceTold

(* Activities.tla, AttendanceTold: for any tickets, sessions and lines,    *)
(* the pages of an activity and of a ticket agree with the list of         *)
(* participants, and the counts with its rows (activity.infra.ts).         *)
THEOREM AttendanceIsToldAlways == Spec => []AttendanceTold
<1>1. Init => AttendedHeld
  BY DEF Init, ActivitiesInit, AttendedHeld
<1>2. TypeOK /\ AttendedHeld /\ [Next]_vars => AttendedHeld'
  BY AttendedStayHeld
<1> QED
  BY <1>1, <1>2, AttendanceIsTold, StorefrontTyped, PTL DEF Spec

=============================================================================
