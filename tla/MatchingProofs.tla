--------------------------- MODULE MatchingProofs ---------------------------
(***************************************************************************)
(* Theorems about MatchingService, for any numbers of orders, users and    *)
(* books.  IInv is inductive; its parts are proved action by action.       *)
(***************************************************************************)
EXTENDS MatchingService, FiniteSetTheorems, WellFoundedInduction, TLAPS

USE DEF Quantities, Sides, OrderInput, CriticalPcs, EndPcs, Book, NoOrders

LEMMA CardinalityType == Cardinality(Orders) \in Nat
BY ConstantsAssumption, FS_CardinalityType

-----------------------------------------------------------------------------
(* Induction, for properties given as sets, and finite sums *)

\* A nonempty set of numbers has a least element: the form of induction that
\* needs no operator parameter.
LEMMA Least ==
    ASSUME NEW T, T \subseteq Nat, T # {}
    PROVE  \E x \in T : \A y \in T : x <= y
<1>1. IsWellFoundedOn(OpToRel(<, Nat), Nat)
  BY NatLessThanWellFounded
<1>2. PICK x \in T : \A y \in T : ~ (<<y, x>> \in OpToRel(<, Nat))
  BY <1>1, WFMin
<1>3. \A y \in T : ~ (y < x)
  BY <1>2 DEF OpToRel
<1> QED
  BY <1>3

\* Induction over the numbers, for a property given as a set.
LEMMA NatSetInduction ==
    ASSUME NEW Q, 0 \in Q, \A k \in Nat : k \in Q => k + 1 \in Q
    PROVE  Nat \subseteq Q
<1> SUFFICES ASSUME Nat \ Q # {} PROVE FALSE
  OBVIOUS
<1>1. PICK k \in Nat \ Q : \A j \in Nat \ Q : k <= j
  BY Least
<1>2. k - 1 \in Nat /\ ~ (k <= k - 1)
  BY <1>1
<1>3. k - 1 \in Q
  BY <1>1, <1>2
<1>4. (k - 1) + 1 \in Q
  BY <1>2, <1>3
<1> QED
  BY <1>1, <1>4

\* Taking an element out of a set of k + 1 elements.
LEMMA TakeOne ==
    ASSUME NEW T, IsFiniteSet(T), NEW k \in Nat, Cardinality(T) = k + 1
    PROVE  T # {} /\ \A x \in T : Cardinality(T \ {x}) = k
<1>1. T # {}
  <2>1. k + 1 # 0
    OBVIOUS
  <2> QED
    BY <2>1, FS_EmptySet
<1>2. ASSUME NEW x \in T PROVE Cardinality(T \ {x}) = k
  <2>1. Cardinality(T \ {x}) = (k + 1) - 1
    BY FS_RemoveElement
  <2> QED
    BY <2>1
<1> QED
  BY <1>1, <1>2

\* Induction over the subsets of a finite set.
LEMMA SubsetInduction ==
    ASSUME NEW S, IsFiniteSet(S), NEW Q, {} \in Q,
           \A T \in SUBSET S : \A x \in S \ T : T \in Q => T \cup {x} \in Q
    PROVE  S \in Q
<1> DEFINE A == {k \in Nat : \A T \in SUBSET S : Cardinality(T) = k => T \in Q}
<1>0. \A T \in SUBSET S : IsFiniteSet(T) /\ Cardinality(T) \in Nat
  BY FS_Subset, FS_CardinalityType
<1>1. 0 \in A
  BY <1>0, FS_EmptySet
<1>2. ASSUME NEW k \in Nat, k \in A PROVE k + 1 \in A
  <2> SUFFICES ASSUME NEW T \in SUBSET S, Cardinality(T) = k + 1 PROVE T \in Q
    OBVIOUS
  <2>1. T # {} /\ \A x \in T : Cardinality(T \ {x}) = k
    BY <1>0, TakeOne
  <2>2. PICK x \in T : TRUE
    BY <2>1
  <2>3. Cardinality(T \ {x}) = k
    BY <2>1
  <2>4. T \ {x} \in Q
    BY <2>3, <1>2
  <2>5. (T \ {x}) \cup {x} \in Q
    BY <2>2, <2>4
  <2>6. (T \ {x}) \cup {x} = T
    BY <2>2
  <2> QED
    BY <2>5, <2>6
<1>3. Nat \subseteq A
  <2> HIDE DEF A
  <2> QED
    BY <1>1, <1>2, NatSetInduction
<1> QED
  BY <1>0, <1>3

\* What SumFunctionOnSet unfolds to.
Pick(T) == CHOOSE x \in T : TRUE
Sums(f, S, g) ==
    g = [T \in SUBSET S |-> IF T = {} THEN 0 ELSE f[Pick(T)] + g[T \ {Pick(T)}]]

LEMMA SumDef ==
    ASSUME NEW S, NEW f
    PROVE  SumFunctionOnSet(f, S) = (CHOOSE g : Sums(f, S, g))[S]
BY DEF SumFunctionOnSet, FoldFunctionOnSet, MapThenFoldSet, Sums, Pick

LEMMA SumsExist ==
    ASSUME NEW S, IsFiniteSet(S), NEW f, \A x \in S : f[x] \in Int
    PROVE  \E g \in [SUBSET S -> Int] : Sums(f, S, g)
<1> DEFINE Small(k) == {T \in SUBSET S : Cardinality(T) <= k}
           Step(g, T) == IF T = {} THEN 0 ELSE f[Pick(T)] + g[T \ {Pick(T)}]
           A == {k \in Nat : \E g \in [Small(k) -> Int] : \A T \in Small(k) : g[T] = Step(g, T)}
<1>0. \A T \in SUBSET S : IsFiniteSet(T) /\ Cardinality(T) \in Nat /\ Cardinality(T) <= Cardinality(S)
  BY FS_Subset, FS_CardinalityType
<1>1. 0 \in A
  <2>1. \A T \in Small(0) : T = {}
    BY <1>0, FS_EmptySet
  <2> DEFINE g == [T \in Small(0) |-> 0]
  <2>2. g \in [Small(0) -> Int] /\ \A T \in Small(0) : g[T] = Step(g, T)
    BY <2>1
  <2> QED
    BY <2>2
<1>2. ASSUME NEW k \in Nat, k \in A PROVE k + 1 \in A
  <2>1. PICK g \in [Small(k) -> Int] : \A T \in Small(k) : g[T] = Step(g, T)
    BY <1>2
  <2>2. ASSUME NEW T \in Small(k + 1), T # {}
        PROVE  Pick(T) \in T /\ f[Pick(T)] \in Int /\ T \ {Pick(T)} \in Small(k)
    <3>1. Pick(T) \in T
      BY <2>2 DEF Pick
    <3>2. Cardinality(T \ {Pick(T)}) = Cardinality(T) - 1
      BY <1>0, <3>1, FS_RemoveElement
    <3> QED
      BY <3>1, <3>2, <1>0
  <2> DEFINE h == [T \in Small(k + 1) |-> Step(g, T)]
  <2>3. Small(k) \subseteq Small(k + 1)
    BY <1>0
  <2>4. \A T \in Small(k + 1) : Step(g, T) \in Int
    BY <2>2
  <2>5. h \in [Small(k + 1) -> Int] /\ \A T \in Small(k) : h[T] = g[T]
    BY <2>1, <2>3, <2>4
  <2>6. ASSUME NEW T \in Small(k + 1) PROVE h[T] = Step(h, T)
    <3>1. h[T] = Step(g, T)
      OBVIOUS
    <3> HIDE DEF h, Small
    <3> QED
      BY <3>1, <2>2, <2>5
  <2> HIDE DEF h, Small, Step
  <2>7. k + 1 \in Nat
    OBVIOUS
  <2> QED
    BY <2>5, <2>6, <2>7
<1>3. Nat \subseteq A
  <2> HIDE DEF A
  <2> QED
    BY <1>1, <1>2, NatSetInduction
<1>4. Cardinality(S) \in A /\ Small(Cardinality(S)) = SUBSET S
  BY <1>0, <1>3
<1>5. PICK g \in [SUBSET S -> Int] : \A T \in SUBSET S : g[T] = Step(g, T)
  BY <1>4
<1> QED
  BY <1>5 DEF Sums

\* The recursion has one solution.
LEMMA SumsAgree ==
    ASSUME NEW S, IsFiniteSet(S), NEW R \in SUBSET S, NEW f, NEW g, NEW h,
           Sums(f, S, g), Sums(f, R, h)
    PROVE  \A T \in SUBSET R : g[T] = h[T]
<1> DEFINE A == {k \in Nat : \A T \in SUBSET R : Cardinality(T) = k => g[T] = h[T]}
<1>0. \A T \in SUBSET R : IsFiniteSet(T) /\ Cardinality(T) \in Nat
  BY FS_Subset, FS_CardinalityType
<1>a. ASSUME NEW T \in SUBSET R
      PROVE  /\ g[T] = IF T = {} THEN 0 ELSE f[Pick(T)] + g[T \ {Pick(T)}]
             /\ h[T] = IF T = {} THEN 0 ELSE f[Pick(T)] + h[T \ {Pick(T)}]
  BY DEF Sums
<1>1. 0 \in A
  BY <1>0, <1>a, FS_EmptySet
<1>2. ASSUME NEW k \in Nat, k \in A PROVE k + 1 \in A
  <2> SUFFICES ASSUME NEW T \in SUBSET R, Cardinality(T) = k + 1 PROVE g[T] = h[T]
    OBVIOUS
  <2>1. T # {} /\ \A x \in T : Cardinality(T \ {x}) = k
    BY <1>0, TakeOne
  <2>2. Pick(T) \in T
    BY <2>1 DEF Pick
  <2>3. Cardinality(T \ {Pick(T)}) = k
    BY <2>1, <2>2
  <2>4. g[T \ {Pick(T)}] = h[T \ {Pick(T)}]
    BY <2>3, <1>2
  <2> QED
    BY <2>1, <2>4, <1>a
<1>3. Nat \subseteq A
  <2> HIDE DEF A
  <2> QED
    BY <1>1, <1>2, NatSetInduction
<1> QED
  BY <1>0, <1>3

\* The two equations of a sum.
LEMMA SumEquations ==
    ASSUME NEW S, IsFiniteSet(S), NEW f, \A x \in S : f[x] \in Int
    PROVE  /\ SumFunctionOnSet(f, S) \in Int
           /\ S = {} => SumFunctionOnSet(f, S) = 0
           /\ S # {} => SumFunctionOnSet(f, S) = f[Pick(S)] + SumFunctionOnSet(f, S \ {Pick(S)})
<1>1. PICK g \in [SUBSET S -> Int] : Sums(f, S, g)
  BY SumsExist
<1>2. ASSUME NEW R \in SUBSET S PROVE SumFunctionOnSet(f, R) = g[R]
  <2>1. IsFiniteSet(R)
    BY FS_Subset
  <2>2. \E h : Sums(f, R, h)
    BY <2>1, SumsExist
  <2> DEFINE h == CHOOSE h : Sums(f, R, h)
  <2>3. Sums(f, R, h)
    BY <2>2
  <2>4. SumFunctionOnSet(f, R) = h[R]
    BY SumDef
  <2> HIDE DEF h
  <2>5. \A T \in SUBSET R : g[T] = h[T]
    BY <1>1, <2>3, SumsAgree
  <2> QED
    BY <2>4, <2>5
<1>3. g[S] = IF S = {} THEN 0 ELSE f[Pick(S)] + g[S \ {Pick(S)}]
  BY <1>1 DEF Sums
<1>4. SumFunctionOnSet(f, S) = g[S] /\ SumFunctionOnSet(f, S \ {Pick(S)}) = g[S \ {Pick(S)}]
  BY <1>2
<1> QED
  BY <1>1, <1>3, <1>4

\* A sum is one summand and the sum of the others, whichever is taken first.
LEMMA SumRemove ==
    ASSUME NEW S, IsFiniteSet(S), NEW f, \A x \in S : f[x] \in Int, NEW x \in S
    PROVE  SumFunctionOnSet(f, S) = f[x] + SumFunctionOnSet(f, S \ {x})
<1> DEFINE Eq(T, y) == SumFunctionOnSet(f, T) = f[y] + SumFunctionOnSet(f, T \ {y})
           A == {k \in Nat : \A T \in SUBSET S : Cardinality(T) = k => \A y \in T : Eq(T, y)}
<1>0. \A T \in SUBSET S : IsFiniteSet(T) /\ Cardinality(T) \in Nat
  BY FS_Subset, FS_CardinalityType
<1>a. \A T \in SUBSET S : SumFunctionOnSet(f, T) \in Int
  BY <1>0, SumEquations
<1>1. 0 \in A
  BY <1>0, FS_EmptySet
<1>2. ASSUME NEW k \in Nat, k \in A PROVE k + 1 \in A
  <2> SUFFICES ASSUME NEW T \in SUBSET S, Cardinality(T) = k + 1, NEW y \in T PROVE Eq(T, y)
    OBVIOUS
  <2> DEFINE c == Pick(T)
  <2>1. c \in T /\ Eq(T, c)
    BY <1>0, SumEquations DEF Pick
  <2> HIDE DEF c
  <2>2. CASE y = c
    BY <2>1, <2>2
  <2>3. CASE y # c
    <3>1. Cardinality(T \ {c}) = k /\ Cardinality(T \ {y}) = k
      BY <1>0, <2>1, TakeOne
    <3>2. Eq(T \ {c}, y) /\ Eq(T \ {y}, c)
      BY <3>1, <2>1, <2>3, <1>2
    <3> DEFINE n == SumFunctionOnSet(f, T \ {c, y})
    <3>3. (T \ {c}) \ {y} = T \ {c, y} /\ (T \ {y}) \ {c} = T \ {c, y}
      OBVIOUS
    <3>4. f[c] \in Int /\ f[y] \in Int /\ n \in Int
      BY <1>a, <2>1
    <3>5. /\ SumFunctionOnSet(f, T \ {c}) = f[y] + n
          /\ SumFunctionOnSet(f, T \ {y}) = f[c] + n
      BY <3>2, <3>3
    <3> HIDE DEF n
    <3> QED
      BY <2>1, <3>4, <3>5
  <2> QED
    BY <2>2, <2>3
<1>3. Nat \subseteq A
  <2> HIDE DEF A
  <2> QED
    BY <1>1, <1>2, NatSetInduction
<1>4. Cardinality(S) \in A
  BY <1>0, <1>3
<1> QED
  BY <1>4

LEMMA SumInsert ==
    ASSUME NEW T, IsFiniteSet(T), NEW f, NEW x, x \notin T, \A y \in T \cup {x} : f[y] \in Int
    PROVE  SumFunctionOnSet(f, T \cup {x}) = f[x] + SumFunctionOnSet(f, T)
<1>1. IsFiniteSet(T \cup {x}) /\ (T \cup {x}) \ {x} = T
  BY FS_AddElement
<1> QED
  BY <1>1, SumRemove

\* Sums add up pointwise.
LEMMA SumPlus ==
    ASSUME NEW S, IsFiniteSet(S), NEW f, NEW g, NEW h,
           \A x \in S : f[x] \in Int /\ g[x] \in Int /\ h[x] = f[x] + g[x]
    PROVE  SumFunctionOnSet(h, S) = SumFunctionOnSet(f, S) + SumFunctionOnSet(g, S)
<1> DEFINE Eq(T) == SumFunctionOnSet(h, T) = SumFunctionOnSet(f, T) + SumFunctionOnSet(g, T)
           Q == {T \in SUBSET S : Eq(T)}
<1>0. \A T \in SUBSET S : IsFiniteSet(T)
  BY FS_Subset
<1>a. \A x \in S : h[x] \in Int
  OBVIOUS
<1>b. ASSUME NEW T \in SUBSET S
      PROVE  SumFunctionOnSet(f, T) \in Int /\ SumFunctionOnSet(g, T) \in Int
  BY <1>0, SumEquations
<1>1. {} \in Q
  <2>1. /\ SumFunctionOnSet(f, {}) = 0 /\ SumFunctionOnSet(g, {}) = 0
        /\ SumFunctionOnSet(h, {}) = 0
    BY <1>0, SumEquations
  <2> QED
    BY <2>1
<1>2. ASSUME NEW T \in SUBSET S, NEW x \in S \ T, T \in Q PROVE T \cup {x} \in Q
  <2>1. /\ SumFunctionOnSet(f, T \cup {x}) = f[x] + SumFunctionOnSet(f, T)
        /\ SumFunctionOnSet(g, T \cup {x}) = g[x] + SumFunctionOnSet(g, T)
        /\ SumFunctionOnSet(h, T \cup {x}) = h[x] + SumFunctionOnSet(h, T)
    BY <1>0, <1>a, SumInsert
  <2>2. Eq(T \cup {x})
    BY <2>1, <1>2, <1>b
  <2> QED
    BY <2>2
<1>3. S \in Q
  <2> HIDE DEF Q
  <2> QED
    BY <1>1, <1>2, SubsetInduction
<1> QED
  BY <1>3

LEMMA SumZero ==
    ASSUME NEW S, IsFiniteSet(S), NEW f, \A x \in S : f[x] = 0
    PROVE  SumFunctionOnSet(f, S) = 0
<1> DEFINE n == SumFunctionOnSet(f, S)
<1>1. \A x \in S : f[x] \in Int /\ f[x] = f[x] + f[x]
  OBVIOUS
<1>2. n \in Int
  BY <1>1, SumEquations
<1>3. n = n + n
  BY <1>1, SumPlus
<1> HIDE DEF n
<1>4. n = 0
  BY <1>2, <1>3
<1> QED
  BY <1>4 DEF n

\* Only the summands matter.
LEMMA SumSame ==
    ASSUME NEW S, IsFiniteSet(S), NEW f, NEW g, \A x \in S : f[x] \in Int /\ g[x] = f[x]
    PROVE  SumFunctionOnSet(g, S) = SumFunctionOnSet(f, S)
<1> DEFINE z == [x \in S |-> 0]
<1>1. SumFunctionOnSet(z, S) = 0 /\ SumFunctionOnSet(f, S) \in Int
  BY SumZero, SumEquations
<1>2. \A x \in S : f[x] \in Int /\ z[x] \in Int /\ g[x] = f[x] + z[x]
  OBVIOUS
<1> HIDE DEF z
<1>3. SumFunctionOnSet(g, S) = SumFunctionOnSet(f, S) + SumFunctionOnSet(z, S)
  BY <1>2, SumPlus
<1> QED
  BY <1>1, <1>3

\* Changing one summand by d changes the sum by d.
LEMMA SumChange ==
    ASSUME NEW S, IsFiniteSet(S), NEW f, NEW g, NEW x \in S, NEW d \in Int,
           \A y \in S : f[y] \in Int, g[x] = f[x] + d, \A y \in S \ {x} : g[y] = f[y]
    PROVE  SumFunctionOnSet(g, S) = SumFunctionOnSet(f, S) + d
<1>1. IsFiniteSet(S \ {x}) /\ \A y \in S : g[y] \in Int
  BY FS_RemoveElement
<1>2. SumFunctionOnSet(g, S \ {x}) = SumFunctionOnSet(f, S \ {x})
  BY <1>1, SumSame
<1>3. /\ SumFunctionOnSet(f, S) = f[x] + SumFunctionOnSet(f, S \ {x})
      /\ SumFunctionOnSet(g, S) = g[x] + SumFunctionOnSet(g, S \ {x})
  BY <1>1, SumRemove
<1>4. SumFunctionOnSet(f, S \ {x}) \in Int
  BY <1>1, SumEquations
<1> QED
  BY <1>2, <1>3, <1>4

\* A sum over two disjoint sets.
LEMMA SumUnion ==
    ASSUME NEW S, IsFiniteSet(S), NEW R, IsFiniteSet(R), R \cap S = {},
           NEW f, \A x \in R \cup S : f[x] \in Int
    PROVE  SumFunctionOnSet(f, R \cup S) = SumFunctionOnSet(f, R) + SumFunctionOnSet(f, S)
<1> DEFINE Eq(T) == SumFunctionOnSet(f, R \cup T) = SumFunctionOnSet(f, R) + SumFunctionOnSet(f, T)
           Q == {T \in SUBSET S : Eq(T)}
<1>0. \A T \in SUBSET S : IsFiniteSet(T) /\ IsFiniteSet(R \cup T)
  BY FS_Subset, FS_Union
<1>b. /\ SumFunctionOnSet(f, R) \in Int
      /\ \A T \in SUBSET S : SumFunctionOnSet(f, T) \in Int
  BY <1>0, SumEquations
<1>1. {} \in Q
  <2>1. SumFunctionOnSet(f, {}) = 0 /\ R \cup {} = R
    BY <1>0, SumEquations
  <2> QED
    BY <2>1, <1>b
<1>2. ASSUME NEW T \in SUBSET S, NEW x \in S \ T, T \in Q PROVE T \cup {x} \in Q
  <2>1. SumFunctionOnSet(f, T \cup {x}) = f[x] + SumFunctionOnSet(f, T)
    BY <1>0, SumInsert
  <2>2. SumFunctionOnSet(f, (R \cup T) \cup {x}) = f[x] + SumFunctionOnSet(f, R \cup T)
    BY <1>0, SumInsert
  <2>3. (R \cup T) \cup {x} = R \cup (T \cup {x})
    OBVIOUS
  <2>4. f[x] \in Int /\ SumFunctionOnSet(f, T) \in Int
    BY <1>b
  <2>5. Eq(T \cup {x})
    BY <2>1, <2>2, <2>3, <2>4, <1>2, <1>b
  <2> QED
    BY <2>5
<1>3. S \in Q
  <2> HIDE DEF Q
  <2> QED
    BY <1>1, <1>2, SubsetInduction
<1> QED
  BY <1>3

\* The sum over the pairs with first component a.
PairsWith(a, S) == {a} \X S

LEMMA SumPairs ==
    ASSUME NEW S, IsFiniteSet(S), NEW a, NEW f, NEW g,
           \A x \in S : f[x] \in Int /\ g[<<a, x>>] = f[x]
    PROVE  SumFunctionOnSet(g, PairsWith(a, S)) = SumFunctionOnSet(f, S)
<1> DEFINE Eq(T) == SumFunctionOnSet(g, {a} \X T) = SumFunctionOnSet(f, T)
           Q == {T \in SUBSET S : Eq(T)}
<1> USE DEF PairsWith
<1>0. \A T \in SUBSET S : IsFiniteSet(T) /\ IsFiniteSet({a} \X T)
  BY FS_Subset, FS_Product, FS_Singleton
<1>a. \A T \in SUBSET S : \A p \in {a} \X T : g[p] \in Int
  OBVIOUS
<1>1. {} \in Q
  <2>1. SumFunctionOnSet(f, {}) = 0 /\ SumFunctionOnSet(g, {}) = 0 /\ {a} \X {} = {}
    BY <1>0, SumEquations
  <2> QED
    BY <2>1
<1>2. ASSUME NEW T \in SUBSET S, NEW x \in S \ T, T \in Q PROVE T \cup {x} \in Q
  <2>1. SumFunctionOnSet(f, T \cup {x}) = f[x] + SumFunctionOnSet(f, T)
    BY <1>0, SumInsert
  <2>2. {a} \X (T \cup {x}) = ({a} \X T) \cup {<<a, x>>} /\ <<a, x>> \notin {a} \X T
    OBVIOUS
  <2>3. \A p \in ({a} \X T) \cup {<<a, x>>} : g[p] \in Int
    OBVIOUS
  <2>4. SumFunctionOnSet(g, ({a} \X T) \cup {<<a, x>>}) = g[<<a, x>>] + SumFunctionOnSet(g, {a} \X T)
    BY <2>2, <2>3, <1>0, SumInsert
  <2>5. Eq(T \cup {x})
    BY <2>1, <2>2, <2>4, <1>2
  <2> QED
    BY <2>5
<1>3. S \in Q
  <2> HIDE DEF Q
  <2> QED
    BY <1>1, <1>2, SubsetInduction
<1> QED
  BY <1>0, <1>3

\* A sum may be taken group by group.
LEMMA SumGroups ==
    ASSUME NEW S, IsFiniteSet(S), NEW U, IsFiniteSet(U), NEW f, NEW k,
           \A x \in S : f[x] \in Int /\ k[x] \in U, NEW g, NEW C,
           \A u \in U : C[u] = {x \in S : k[x] = u} /\ g[u] = SumFunctionOnSet(f, C[u])
    PROVE  SumFunctionOnSet(g, U) = SumFunctionOnSet(f, S)
<1> DEFINE Group(T) == [u \in U |-> SumFunctionOnSet(f, {x \in T : k[x] = u})]
           Eq(T) == SumFunctionOnSet(Group(T), U) = SumFunctionOnSet(f, T)
           Q == {T \in SUBSET S : Eq(T)}
<1>0. \A T \in SUBSET S : IsFiniteSet(T)
  BY FS_Subset
<1>a. ASSUME NEW T \in SUBSET S PROVE \A u \in U : Group(T)[u] \in Int
  <2> TAKE u \in U
  <2>1. {x \in T : k[x] = u} \in SUBSET S
    OBVIOUS
  <2> QED
    BY <2>1, <1>0, SumEquations
<1>1. {} \in Q
  <2>1. SumFunctionOnSet(f, {}) = 0 /\ \A u \in U : {x \in {} : k[x] = u} = {}
    BY <1>0, SumEquations
  <2>2. \A u \in U : Group({})[u] = 0
    BY <2>1
  <2>3. SumFunctionOnSet(Group({}), U) = 0
    BY <2>2, SumZero
  <2> QED
    BY <2>1, <2>3
<1>2. ASSUME NEW T \in SUBSET S, NEW x \in S \ T, T \in Q PROVE T \cup {x} \in Q
  <2>1. SumFunctionOnSet(f, T \cup {x}) = f[x] + SumFunctionOnSet(f, T)
    BY <1>0, SumInsert
  <2>2. Group(T \cup {x})[k[x]] = Group(T)[k[x]] + f[x]
    <3> DEFINE R == {y \in T : k[y] = k[x]}
    <3>1. {y \in T \cup {x} : k[y] = k[x]} = R \cup {x} /\ x \notin R /\ R \in SUBSET S
      OBVIOUS
    <3>2. Group(T \cup {x})[k[x]] = SumFunctionOnSet(f, R \cup {x})
      BY <3>1
    <3>3. Group(T)[k[x]] = SumFunctionOnSet(f, R) /\ SumFunctionOnSet(f, R) \in Int
      BY <1>a
    <3> HIDE DEF R, Group
    <3>4. SumFunctionOnSet(f, R \cup {x}) = f[x] + SumFunctionOnSet(f, R)
      BY <3>1, <1>0, SumInsert
    <3> QED
      BY <3>2, <3>3, <3>4
  <2>3. ASSUME NEW u \in U \ {k[x]} PROVE Group(T \cup {x})[u] = Group(T)[u]
    <3>1. {y \in T \cup {x} : k[y] = u} = {y \in T : k[y] = u}
      OBVIOUS
    <3> QED
      BY <3>1
  <2> HIDE DEF Group
  <2>4. SumFunctionOnSet(Group(T \cup {x}), U) = SumFunctionOnSet(Group(T), U) + f[x]
    <3> DEFINE v == k[x]
               d == f[x]
               before == Group(T)
               after == Group(T \cup {x})
    <3>1. /\ v \in U /\ d \in Int /\ \A u \in U : before[u] \in Int
          /\ after[v] = before[v] + d /\ \A u \in U \ {v} : after[u] = before[u]
      BY <2>2, <2>3, <1>a
    <3> HIDE DEF v, d, before, after
    <3>2. SumFunctionOnSet(after, U) = SumFunctionOnSet(before, U) + d
      BY <3>1, SumChange
    <3> QED
      BY <3>2 DEF d, before, after
  <2>5. SumFunctionOnSet(Group(T), U) \in Int
    BY <1>a, SumEquations
  <2>6. Eq(T \cup {x})
    BY <2>1, <2>4, <2>5, <1>2
  <2> QED
    BY <2>6
<1>3. S \in Q
  <2> HIDE DEF Q
  <2> QED
    BY <1>1, <1>2, SubsetInduction
<1>4. SumFunctionOnSet(g, U) = SumFunctionOnSet(Group(S), U)
  <2>1. \A u \in U : Group(S)[u] \in Int /\ g[u] = Group(S)[u]
    BY <1>a
  <2> HIDE DEF Group
  <2> QED
    BY <2>1, SumSame
<1> QED
  BY <1>3, <1>4

-----------------------------------------------------------------------------
(* Initial states *)

LEMMA InitIInv == Init => IInv
BY ConstantsAssumption
   DEF Init, IInv, TypeOK, HeadHolds, DownIsIdle, RowsFollowCalls, LocalsInv, BookInv,
       BookAgreesWithDb, NoOverfill, LegalInv, TradesAreLegal, Row, DbOpen,
       Open, Busy

-----------------------------------------------------------------------------
(* Types *)

\* What hydrateBook loads has the types of a book.
LEMMA HydratedType ==
    ASSUME TypeOK, NEW b \in Books
    PROVE  /\ HydratedRest(b) \in [Orders -> 0..MaxQuantity]
           /\ \A f \in HydratedPlaces(b) : f \in [Orders -> Nat]
<1>1. HydratedRest(b) \in [Orders -> 0..MaxQuantity]
  <2>1. ASSUME NEW o \in Orders, DbRemaining(o) > 0
        PROVE  DbRemaining(o) \in 0..MaxQuantity
    <3>1. input[o].quantity \in 0..MaxQuantity /\ filled[o] \in Nat
      BY ConstantsAssumption DEF TypeOK
    <3> QED
      BY <2>1, <3>1, ConstantsAssumption DEF DbRemaining
  <2>2. 0 \in 0..MaxQuantity
    BY ConstantsAssumption
  <2> QED
    BY <2>1, <2>2 DEF HydratedRest, Hydrated
<1>2. \A f \in HydratedPlaces(b) : f \in [Orders -> Nat]
  BY CardinalityType DEF HydratedPlaces
<1> QED
  BY <1>1, <1>2

LEMMA LoadType ==
    ASSUME TypeOK, NEW b \in Books, Load(b)
    PROVE  /\ loaded' \in [Books -> BOOLEAN]
           /\ rest' \in [Books -> [Orders -> 0..MaxQuantity]]
           /\ place' \in [Books -> [Orders -> Nat]]
           /\ stamp' \in [Books -> Nat \ {0}]
<1>1. loaded' \in [Books -> BOOLEAN] /\ stamp' \in [Books -> Nat \ {0}]
  BY CardinalityType DEF Load, TypeOK
<1>2. rest' \in [Books -> [Orders -> 0..MaxQuantity]]
  <2>1. HydratedRest(b) \in [Orders -> 0..MaxQuantity]
    BY HydratedType
  <2> QED
    BY <2>1 DEF Load, TypeOK
<1>3. place' \in [Books -> [Orders -> Nat]]
  <2>1. PICK f \in HydratedPlaces(b) : place' = [place EXCEPT ![b] = f]
    BY DEF Load
  <2>2. f \in [Orders -> Nat]
    BY HydratedType
  <2> QED
    BY <2>1, <2>2 DEF TypeOK
<1> QED
  BY <1>1, <1>2, <1>3

LEMMA InvalidateType ==
    ASSUME TypeOK, NEW b \in Books, Invalidate(b)
    PROVE  /\ loaded' \in [Books -> BOOLEAN]
           /\ rest' \in [Books -> [Orders -> 0..MaxQuantity]]
           /\ place' \in [Books -> [Orders -> Nat]]
           /\ stamp' \in [Books -> Nat \ {0}]
BY ConstantsAssumption DEF Invalidate, TypeOK

LEMMA FinishType ==
    ASSUME TypeOK, HeadHolds, NEW r \in Orders, NEW l \in EndPcs,
           pc[r] \in CriticalPcs, Finish(r, l)
    PROVE  /\ pc' \in [Orders -> {"idle", "queued"} \cup CriticalPcs \cup EndPcs]
           /\ queue' \in [Books -> Seq(Orders)]
           /\ left' \in [Orders -> 0..MaxQuantity]
           /\ trades' \in [Orders -> [Orders -> 0..MaxQuantity]]
<1>1. queue[Book(r)] \in Seq(Orders) /\ queue[Book(r)] # <<>>
  BY DEF TypeOK, HeadHolds
<1>2. Tail(queue[Book(r)]) \in Seq(Orders)
  BY <1>1
<1>3. queue' \in [Books -> Seq(Orders)]
  BY <1>2 DEF TypeOK, Finish, Release
<1>4. pc' \in [Orders -> {"idle", "queued"} \cup CriticalPcs \cup EndPcs]
  BY DEF TypeOK, Finish, Goto
<1>5. /\ left' \in [Orders -> 0..MaxQuantity]
      /\ trades' \in [Orders -> [Orders -> 0..MaxQuantity]]
  BY ConstantsAssumption DEF TypeOK, Finish
<1> QED
  BY <1>3, <1>4, <1>5

\* calculatePositionDeltas and collateralDeltaMap yield integers.
LEMMA GainType ==
    ASSUME NEW r \in Orders, NEW u \in Users, NEW w, \A m \in Orders : w[m] \in Int
    PROVE  Gain(r, u, w) \in Int
<1> DEFINE made == {m \in Orders : input[m].user = u}
           n == SumFunctionOnSet(w, Orders)
           k == SumFunctionOnSet(w, made)
<1>1. IsFiniteSet(Orders) /\ IsFiniteSet(made)
  BY ConstantsAssumption, FS_Subset
<1>2. n \in Int /\ k \in Int
  BY <1>1, SumEquations
<1> HIDE DEF n, k
<1>3. Gain(r, u, w) = (IF input[r].side = "BUY" THEN 1 ELSE -1)
                         * ((IF input[r].user = u THEN n ELSE 0) - k)
  BY DEF Gain, n, k
<1> QED
  BY <1>2, <1>3

LEMMA DeltaType ==
    ASSUME TypeOK, NEW r \in Orders
    PROVE  /\ \A m \in Orders : trades[r][m] \in Int /\ trades[r][m] * input[m].price \in Int
           /\ \A u \in Users : SharesDelta(r, u) \in Int /\ CollateralDelta(r, u) \in Int
<1>1. ASSUME NEW m \in Orders PROVE trades[r][m] \in Int /\ input[m].price \in Int
  <2>1. trades[r] \in [Orders -> 0..MaxQuantity] /\ input[m].price \in Prices
    BY DEF TypeOK
  <2>2. trades[r][m] \in 0..MaxQuantity
    BY <2>1
  <2>3. input[m].price \in Nat
    BY <2>1, ConstantsAssumption
  <2> QED
    BY <2>2, <2>3
<1>2. ASSUME NEW m \in Orders PROVE trades[r][m] * input[m].price \in Int
  BY <1>1
<1> DEFINE w == [m \in Orders |-> trades[r][m] * input[m].price]
<1>3. \A m \in Orders : w[m] \in Int
  BY <1>2
<1> HIDE DEF w
<1>4. \A u \in Users : Gain(r, u, trades[r]) \in Int /\ Gain(r, u, w) \in Int
  BY <1>1, <1>3, GainType
<1> QED
  BY <1>1, <1>2, <1>4 DEF SharesDelta, CollateralDelta, w

\* Every step keeps the types.
LEMMA TypeStep == IInv /\ [Next]_vars => TypeOK'
<1> SUFFICES ASSUME IInv, [Next]_vars PROVE TypeOK'
  OBVIOUS
<1> USE DEF vars, procVars, bookVars, positionVars, dbVars, redisVars
<1>a. TypeOK /\ HeadHolds
  BY DEF IInv
<1>b. ASSUME NEW r \in Orders PROVE Book(r) \in Books
  BY <1>a DEF TypeOK
<1>1. ASSUME NEW r \in Orders, Submit(r) PROVE TypeOK'
  <2>1. queue' \in [Books -> Seq(Orders)]
    BY <1>1, <1>a, <1>b DEF Submit, TypeOK
  <2> QED
    BY <1>1, <1>a, <2>1 DEF Submit, Goto, TypeOK
<1>2. ASSUME NEW r \in Orders, Begin(r) PROVE TypeOK'
  BY <1>2, <1>a DEF Begin, Goto, TypeOK
<1>3. ASSUME NEW r \in Orders, Hydrate(r) PROVE TypeOK'
  BY <1>3, <1>a, <1>b, LoadType DEF Hydrate, Goto, TypeOK
<1>4. ASSUME NEW r \in Orders,
             HydrateFail(r) \/ RejectSelfTrade(r) \/ AuditFail(r)
      PROVE  TypeOK'
  <2>1. pc[r] \in CriticalPcs /\ \E l \in EndPcs : Finish(r, l)
    BY <1>4 DEF HydrateFail, RejectSelfTrade, AuditFail
  <2> QED
    BY <1>4, <2>1, <1>a, FinishType DEF HydrateFail, RejectSelfTrade, AuditFail, TypeOK
<1>5. ASSUME NEW r \in Orders, StartMatch(r) PROVE TypeOK'
  <2>1. input[r].quantity \in 0..MaxQuantity
    BY <1>a, ConstantsAssumption DEF TypeOK
  <2> QED
    BY <1>5, <1>a, <2>1 DEF StartMatch, Goto, TypeOK
<1>6. ASSUME NEW r \in Orders, Fill(r) PROVE TypeOK'
  <2>1. PICK m \in Orders :
           LET q == MinQty(left[r], rest[Book(r)][m])
           IN  /\ trades' = [trades EXCEPT ![r][m] = q]
               /\ rest' = [rest EXCEPT ![Book(r)][m] = @ - q]
               /\ place' = [place EXCEPT ![Book(r)][m] =
                                IF q = rest[Book(r)][m] THEN 0 ELSE @]
               /\ left' = [left EXCEPT ![r] = @ - q]
    BY <1>6 DEF Fill, execute, updateOrderQuantity, removeOrder
  <2>2. /\ left[r] \in 0..MaxQuantity
        /\ rest[Book(r)][m] \in 0..MaxQuantity
        /\ place[Book(r)][m] \in Nat
    BY <1>a, <1>b DEF TypeOK
  <2> DEFINE q == MinQty(left[r], rest[Book(r)][m])
  <2>5. /\ q \in 0..MaxQuantity
        /\ left[r] - q \in 0..MaxQuantity
        /\ rest[Book(r)][m] - q \in 0..MaxQuantity
    BY <2>2, ConstantsAssumption DEF MinQty
  <2> HIDE DEF q
  <2>3. /\ trades' \in [Orders -> [Orders -> 0..MaxQuantity]]
        /\ rest' \in [Books -> [Orders -> 0..MaxQuantity]]
        /\ left' \in [Orders -> 0..MaxQuantity]
    BY <1>a, <1>b, <2>1, <2>5 DEF TypeOK, q
  <2>4. place' \in [Books -> [Orders -> Nat]]
    BY <1>a, <1>b, <2>1, <2>2 DEF TypeOK
  <2> QED
    BY <1>6, <1>a, <2>3, <2>4 DEF Fill, TypeOK
<1>7. ASSUME NEW r \in Orders, EndMatch(r) PROVE TypeOK'
  BY <1>7, <1>a DEF EndMatch, Goto, TradesOf, TypeOK
<1>8. ASSUME NEW r \in Orders, TxCommit(r) PROVE TypeOK'
  <2>1. filled' \in [Orders -> Nat]
    <3>1. input[r].quantity - left[r] \in Nat
      <4>1. input[r].quantity \in 1..MaxQuantity /\ left[r] \in 0..MaxQuantity
        BY <1>a DEF TypeOK
      <4>2. left[r] <= input[r].quantity
        BY DEF IInv, LocalsInv
      <4> QED
        BY <4>1, <4>2, ConstantsAssumption
    <3>2. ASSUME NEW o \in Orders PROVE filled[o] + trades[r][o] \in Nat
      <4>1. filled[o] \in Nat /\ trades[r] \in [Orders -> 0..MaxQuantity]
        BY <1>a DEF TypeOK
      <4>2. trades[r][o] \in 0..MaxQuantity
        BY <4>1
      <4> QED
        BY <4>1, <4>2, ConstantsAssumption
    <3> QED
      BY <1>8, <3>1, <3>2 DEF TxCommit, FilledAfter
  <2>2. status' \in [Orders -> {"none", "OPEN", "PARTIALLY_FILLED", "FILLED"}]
    BY <1>8, <1>a DEF TxCommit, StatusFor, TypeOK
  <2>3. clock' \in Nat /\ createdAt' \in [Orders -> Nat]
    <3>1. clock' \in Nat /\ createdAt' = [createdAt EXCEPT ![r] = clock']
      BY <1>8, <1>a DEF TxCommit, TypeOK
    <3> QED
      BY <3>1, <1>a DEF TypeOK
  <2>4. dbTrades' \in [Orders -> [Orders -> 0..MaxQuantity]]
    BY <1>8, <1>a DEF TxCommit, TypeOK
  <2>5. shares' \in [Users -> [Books -> Int]] /\ collateral' \in [Users -> Int]
    <3>1. ASSUME NEW u \in Users PROVE SharesDelta(r, u) \in Int /\ CollateralDelta(r, u) \in Int
      BY <1>a, DeltaType
    <3>2. ASSUME NEW u \in Users PROVE collateral[u] + CollateralDelta(r, u) \in Int
      BY <3>1, <1>a DEF TypeOK
    <3>3. ASSUME NEW u \in Users
          PROVE  [shares[u] EXCEPT ![Book(r)] = @ + SharesDelta(r, u)] \in [Books -> Int]
      <4>1. shares[u] \in [Books -> Int]
        BY <1>a DEF TypeOK
      <4> QED
        BY <4>1, <3>1, <1>b
    <3> QED
      BY <1>8, <3>2, <3>3 DEF TxCommit
  <2>6. /\ pc' \in [Orders -> {"idle", "queued"} \cup CriticalPcs \cup EndPcs]
        /\ UNCHANGED <<up, input, queue, left, trades, crashes, bookVars, redisVars>>
    BY <1>8, <1>a DEF TxCommit, Goto, TypeOK
  <2>7. /\ opened' \in [Users -> {"none", "whole", "clipped"}]
        /\ onChain' \in [Users -> [Books -> Int]] /\ indexed' \in Nat
    BY <1>8, <1>a DEF TxCommit, TypeOK
  <2> QED
    BY <1>a, <2>1, <2>2, <2>3, <2>4, <2>5, <2>6, <2>7 DEF TypeOK
<1>9. ASSUME NEW r \in Orders, TxAbort(r) \/ AckLost(r) PROVE TypeOK'
  BY <1>9, <1>a, <1>b, FinishType, InvalidateType DEF TxAbort, AckLost, TypeOK
<1>10. ASSUME NEW r \in Orders, AddRemaining(r) PROVE TypeOK'
  <2>1. left[r] \in 0..MaxQuantity /\ stamp[Book(r)] \in Nat \ {0}
    BY <1>a, <1>b DEF TypeOK
  <2>2. /\ rest' \in [Books -> [Orders -> 0..MaxQuantity]]
        /\ place' \in [Books -> [Orders -> Nat]]
        /\ stamp' \in [Books -> Nat \ {0}]
    <3>1. CASE left[r] > 0
      <4>1. rest' = [rest EXCEPT ![Book(r)][r] = left[r]]
        BY <1>10, <3>1 DEF AddRemaining
      <4>2. place' = [place EXCEPT ![Book(r)][r] = stamp[Book(r)]]
        BY <1>10, <3>1 DEF AddRemaining
      <4>3. stamp' = [stamp EXCEPT ![Book(r)] = @ + 1]
        BY <1>10, <3>1 DEF AddRemaining
      <4>4. rest' \in [Books -> [Orders -> 0..MaxQuantity]]
        BY <4>1, <2>1, <1>a, <1>b DEF TypeOK
      <4>5. place' \in [Books -> [Orders -> Nat]]
        BY <4>2, <2>1, <1>a, <1>b DEF TypeOK
      <4>6. stamp[Book(r)] + 1 \in Nat \ {0}
        BY <2>1
      <4>7. stamp' \in [Books -> Nat \ {0}]
        BY <4>3, <4>6, <1>a, <1>b DEF TypeOK
      <4> QED
        BY <4>4, <4>5, <4>7
    <3>2. CASE ~ (left[r] > 0)
      BY <1>10, <3>2, <1>a DEF AddRemaining, TypeOK
    <3> QED
      BY <3>1, <3>2
  <2> QED
    BY <1>10, <1>a, <2>2 DEF AddRemaining, Goto, TypeOK
<1>11. ASSUME NEW r \in Orders, AuditOk(r) PROVE TypeOK'
  BY <1>11, <1>a, FinishType DEF AuditOk, TradesOf, TypeOK
<1>12. ASSUME NEW t \in Orders \X Orders, EnqueueOk(t) \/ EnqueueFail(t) PROVE TypeOK'
  <2>1. unsent' \subseteq unsent /\ jobs' \subseteq jobs \cup {t}
    BY <1>12 DEF EnqueueOk, EnqueueFail
  <2>2. /\ UNCHANGED <<up, pc, input, queue, left, trades, crashes>>
        /\ UNCHANGED bookVars /\ UNCHANGED dbVars /\ UNCHANGED audit
    BY <1>12 DEF EnqueueOk, EnqueueFail, procVars
  <2> QED
    BY <1>a, <2>1, <2>2 DEF TypeOK
<1>index. ASSUME NEW u \in Users, NEW v \in Users, NEW b \in Books, NEW q \in Quantities,
                 IndexTrade(u, v, b, q)
          PROVE  TypeOK'
  <2>1. q \in Int /\ indexed + 1 \in Nat
    BY <1>a, ConstantsAssumption DEF Quantities, TypeOK
  <2>2. ASSUME NEW w \in Users, NEW x \in Int
        PROVE  /\ [shares[w] EXCEPT ![b] = @ + x] \in [Books -> Int]
               /\ [onChain[w] EXCEPT ![b] = @ + x] \in [Books -> Int]
    <3>1. shares[w] \in [Books -> Int] /\ onChain[w] \in [Books -> Int]
      BY <1>a DEF TypeOK
    <3> QED
      BY <3>1
  <2> DEFINE gain == [w \in Users |-> IF w = u THEN q ELSE IF w = v THEN - q ELSE 0]
             x(w) == IF w = v /\ opened[v] = "none" THEN 0 ELSE gain[w]
  <2>5. \A w \in Users : gain[w] \in Int /\ x(w) \in Int
    BY <2>1
  <2>6. /\ onChain' = [w \in Users |-> [onChain[w] EXCEPT ![b] = @ + gain[w]]]
        /\ shares' = [w \in Users |-> [shares[w] EXCEPT ![b] = @ + x(w)]]
        /\ indexed' \in Nat
    BY <1>index, <2>1 DEF IndexTrade
  <2> HIDE DEF gain, x
  <2>7. shares' \in [Users -> [Books -> Int]] /\ onChain' \in [Users -> [Books -> Int]]
    BY <2>2, <2>5, <2>6
  <2>3. opened' \in [Users -> {"none", "whole", "clipped"}]
    BY <1>index, <1>a DEF IndexTrade, TypeOK
  <2>4. UNCHANGED <<status, filled, createdAt, clock, dbTrades, collateral,
                    procVars, bookVars, redisVars>>
    BY <1>index DEF IndexTrade
  <2> QED
    BY <1>a, <2>3, <2>4, <2>6, <2>7 DEF TypeOK
<1>13. CASE Crash
  <2>1. pc' \in [Orders -> {"idle", "queued"} \cup CriticalPcs \cup EndPcs]
    BY <1>13, <1>a DEF Crash, TypeOK
  <2>2. /\ rest' \in [Books -> [Orders -> 0..MaxQuantity]]
        /\ place' \in [Books -> [Orders -> Nat]]
        /\ stamp' \in [Books -> Nat \ {0}]
        /\ left' \in [Orders -> 0..MaxQuantity]
        /\ trades' \in [Orders -> [Orders -> 0..MaxQuantity]]
    BY <1>13, ConstantsAssumption DEF Crash
  <2>3. queue' \in [Books -> Seq(Orders)] /\ loaded' \in [Books -> BOOLEAN]
    BY <1>13 DEF Crash
  <2>4. crashes' \in Nat
    BY <1>13, <1>a DEF Crash, TypeOK
  <2>6. up' \in BOOLEAN /\ unsent' \subseteq Orders \X Orders
    BY <1>13 DEF Crash
  <2>5. /\ input' \in [Orders -> OrderInput]
        /\ status' \in [Orders -> {"none", "OPEN", "PARTIALLY_FILLED", "FILLED"}]
        /\ filled' \in [Orders -> Nat]
        /\ createdAt' \in [Orders -> Nat]
        /\ clock' \in Nat
        /\ dbTrades' \in [Orders -> [Orders -> 0..MaxQuantity]]
        /\ shares' \in [Users -> [Books -> Int]] /\ collateral' \in [Users -> Int]
        /\ opened' \in [Users -> {"none", "whole", "clipped"}]
        /\ onChain' \in [Users -> [Books -> Int]] /\ indexed' \in Nat
        /\ audit' \subseteq Orders \X Orders
        /\ jobs' \subseteq Orders \X Orders
    BY <1>13, <1>a DEF Crash, TypeOK
  <2> QED
    BY <2>1, <2>2, <2>3, <2>4, <2>5, <2>6 DEF TypeOK
<1>14. CASE BootWarm
  <2>1. rest' \in [Books -> [Orders -> 0..MaxQuantity]]
    BY <1>14, <1>a, HydratedType DEF BootWarm
  <2>2. place' \in [Books -> [Orders -> Nat]]
    BY <1>14, <1>a, HydratedType DEF BootWarm
  <2> QED
    <3>1. stamp' \in [Books -> Nat \ {0}] /\ loaded' \in [Books -> BOOLEAN]
      BY <1>14, CardinalityType DEF BootWarm
    <3> QED
      BY <1>14, <1>a, <2>1, <2>2, <3>1 DEF BootWarm, TypeOK
<1>15. CASE BootCold
  BY <1>15, <1>a DEF BootCold, TypeOK
<1>16. CASE UNCHANGED vars
  BY <1>16, <1>a DEF TypeOK
<1> QED
  BY <1>1, <1>2, <1>3, <1>4, <1>5, <1>6, <1>7, <1>8, <1>9, <1>10, <1>11, <1>12,
     <1>13, <1>14, <1>15, <1>16, <1>index DEF Next, CallStep, Quiescent

-----------------------------------------------------------------------------
(* The mutex *)

\* A call that settles hands the mutex on; no other call was inside.
LEMMA FinishHead ==
    ASSUME TypeOK, HeadHolds, NEW r \in Orders, NEW l \in EndPcs,
           pc[r] \in CriticalPcs, Finish(r, l), input' = input
    PROVE  HeadHolds'
<1> SUFFICES ASSUME NEW s \in Orders, pc'[s] \in CriticalPcs
             PROVE  queue'[Book(s)] # <<>> /\ Head(queue'[Book(s)]) = s
  BY DEF HeadHolds
<1>1. s # r /\ pc[s] \in CriticalPcs
  BY DEF TypeOK, Finish, Goto
<1>2. Book(s) # Book(r)
  BY <1>1 DEF HeadHolds
<1>3. queue'[Book(s)] = queue[Book(s)]
  BY <1>2 DEF TypeOK, Finish, Release
<1> QED
  BY <1>1, <1>3 DEF HeadHolds

\* The call inside the mutex is always the head of its queue.
LEMMA HeadStep == IInv /\ [Next]_vars => HeadHolds'
<1> SUFFICES ASSUME IInv, [Next]_vars PROVE HeadHolds'
  OBVIOUS
<1> USE DEF vars, procVars
<1>a. TypeOK /\ HeadHolds
  BY DEF IInv
<1>1. ASSUME NEW r \in Orders, Submit(r) PROVE HeadHolds'
  <2> SUFFICES ASSUME NEW s \in Orders, pc'[s] \in CriticalPcs
               PROVE  queue'[Book(s)] # <<>> /\ Head(queue'[Book(s)]) = s
    BY <1>1 DEF HeadHolds, Submit
  <2>1. queue[Book(s)] # <<>> /\ Head(queue[Book(s)]) = s
    BY <1>1, <1>a DEF Submit, Goto, TypeOK, HeadHolds
  <2>2. /\ queue[Book(s)] \in Seq(Orders)
        /\ queue'[Book(s)] \in {queue[Book(s)], Append(queue[Book(s)], r)}
    BY <1>1, <1>a DEF Submit, TypeOK
  <2> QED
    BY <2>1, <2>2
<1>2. ASSUME NEW r \in Orders,
             HydrateFail(r) \/ RejectSelfTrade(r) \/ AuditFail(r) \/ AuditOk(r)
                \/ TxAbort(r) \/ AckLost(r)
      PROVE  HeadHolds'
  <2>1. /\ pc[r] \in CriticalPcs /\ input' = input
        /\ \E l \in EndPcs : Finish(r, l)
    BY <1>2 DEF HydrateFail, RejectSelfTrade, AuditFail, AuditOk, TxAbort, AckLost
  <2> QED
    BY <2>1, <1>a, FinishHead
<1>3. ASSUME NEW r \in Orders,
             Begin(r) \/ Hydrate(r) \/ StartMatch(r) \/ Fill(r) \/ EndMatch(r)
                \/ TxCommit(r) \/ AddRemaining(r)
      PROVE  HeadHolds'
  <2>0. input' = input /\ queue' = queue
    BY <1>3 DEF Begin, Hydrate, StartMatch, Fill, EndMatch, TxCommit, AddRemaining
  <2>b. \/ pc[r] \in CriticalPcs
        \/ Head(queue[Book(r)]) = r /\ queue[Book(r)] # <<>>
    <3>1. CASE Begin(r)
      BY <3>1 DEF Begin
    <3>2. CASE ~ Begin(r)
      BY <1>3, <3>2 DEF Hydrate, StartMatch, Fill, EndMatch, TxCommit, AddRemaining
    <3> QED
      BY <3>1, <3>2
  <2>c. pc' = pc \/ \E l \in CriticalPcs : pc' = [pc EXCEPT ![r] = l]
    BY <1>3 DEF Begin, Hydrate, StartMatch, Fill, EndMatch, TxCommit, AddRemaining, Goto
  <2> SUFFICES ASSUME NEW s \in Orders, pc'[s] \in CriticalPcs
               PROVE  queue[Book(s)] # <<>> /\ Head(queue[Book(s)]) = s
    BY <2>0 DEF HeadHolds
  <2>2. s = r \/ pc[s] \in CriticalPcs
    BY <2>c, <1>a DEF TypeOK
  <2> QED
    BY <2>b, <2>2, <1>a DEF HeadHolds
<1>4. CASE Crash
  BY <1>4, <1>a DEF Crash, TypeOK, HeadHolds
<1>5. CASE UNCHANGED <<pc, input, queue>>
  BY <1>5, <1>a DEF HeadHolds
<1> QED
  BY <1>1, <1>2, <1>3, <1>4, <1>5
     DEF Next, CallStep, EnqueueOk, EnqueueFail, IndexTrade, BootWarm, BootCold, Quiescent

-----------------------------------------------------------------------------
(* Rows and locals *)

BeforeCommit == {"idle", "queued", "hydrate", "check", "match", "tx"}
AfterCommit == {"committed", "audit"}

\* Only TxCommit writes rows; no other step moves a call across its commit.
LEMMA OnlyTxCommitWrites ==
    ASSUME IInv, [Next]_vars, \A r \in Orders : ~ TxCommit(r)
    PROVE  /\ status' = status /\ filled' = filled /\ dbTrades' = dbTrades
           /\ createdAt' = createdAt /\ clock' = clock
           /\ collateral' = collateral
           /\ input' = input
           /\ \A s \in Orders : \/ pc'[s] = pc[s] \/ pc'[s] \in EndPcs
                                \/ pc[s] \in BeforeCommit /\ pc'[s] \in BeforeCommit
                                \/ pc[s] \in AfterCommit /\ pc'[s] \in AfterCommit
<1> USE DEF BeforeCommit, AfterCommit
<1>a. TypeOK
  BY DEF IInv
<1>1. ASSUME NEW r \in Orders, Submit(r) \/ CallStep(r), ~ TxCommit(r)
      PROVE  /\ UNCHANGED <<dbVars, input>>
             /\ \/ pc' = pc
                \/ \E l \in EndPcs : pc' = [pc EXCEPT ![r] = l]
                \/ pc[r] \in BeforeCommit /\ \E l \in BeforeCommit : pc' = [pc EXCEPT ![r] = l]
                \/ pc[r] \in AfterCommit /\ \E l \in AfterCommit : pc' = [pc EXCEPT ![r] = l]
  BY <1>1 DEF CallStep, Submit, Begin, Hydrate, HydrateFail, RejectSelfTrade, StartMatch,
              Fill, EndMatch, TxAbort, AckLost, AddRemaining, AuditOk, AuditFail,
              Finish, Goto
<1>2. CASE \E r \in Orders : Submit(r) \/ CallStep(r)
  <2>1. PICK r \in Orders : Submit(r) \/ CallStep(r)
    BY <1>2
  <2>2. /\ UNCHANGED <<dbVars, input>>
        /\ \/ pc' = pc
           \/ \E l \in EndPcs : pc' = [pc EXCEPT ![r] = l]
           \/ pc[r] \in BeforeCommit /\ \E l \in BeforeCommit : pc' = [pc EXCEPT ![r] = l]
           \/ pc[r] \in AfterCommit /\ \E l \in AfterCommit : pc' = [pc EXCEPT ![r] = l]
    BY <1>1, <2>1
  <2>3. DOMAIN pc = Orders
    BY <1>a DEF TypeOK
  <2> HIDE DEF BeforeCommit, AfterCommit, EndPcs
  <2> QED
    BY <2>2, <2>3 DEF dbVars, positionVars
<1>3. CASE Crash
  BY <1>3, <1>a DEF Crash, dbVars, positionVars, TypeOK
<1>4. CASE UNCHANGED <<status, filled, createdAt, clock, dbTrades, collateral, input, pc>>
  BY <1>4
<1> QED
  BY <1>2, <1>3, <1>4
     DEF Next, EnqueueOk, EnqueueFail, IndexTrade, BootWarm, BootCold, Quiescent, vars,
         procVars, dbVars, positionVars

LEMMA RowStep == IInv /\ [Next]_vars => RowsFollowCalls'
<1> SUFFICES ASSUME IInv, [Next]_vars PROVE RowsFollowCalls'
  OBVIOUS
<1>a. TypeOK /\ RowsFollowCalls
  BY DEF IInv
<1>1. CASE \A r \in Orders : ~ TxCommit(r)
  BY <1>1, <1>a, OnlyTxCommitWrites DEF BeforeCommit, AfterCommit, RowsFollowCalls, Row, TypeOK
<1>2. ASSUME NEW r \in Orders, TxCommit(r) PROVE RowsFollowCalls'
  <2> SUFFICES ASSUME NEW s \in Orders
               PROVE  /\ pc'[s] \in BeforeCommit => status'[s] = "none"
                      /\ pc'[s] \in AfterCommit => status'[s] # "none"
                      /\ status'[s] = "none" => filled'[s] = 0
    BY DEF RowsFollowCalls, Row, BeforeCommit, AfterCommit
  <2>1. CASE s = r
    BY <1>2, <1>a, <2>1 DEF TxCommit, Goto, TypeOK, StatusFor, BeforeCommit
  <2>2. CASE s # r /\ trades[r][s] > 0
    <3>1. pc'[s] = pc[s] /\ status[s] # "none" /\ status'[s] # "none"
      BY <1>2, <1>a, <2>2 DEF TxCommit, MakersExist, Goto, TypeOK, StatusFor
    <3> QED
      BY <3>1, <1>a DEF RowsFollowCalls, Row, BeforeCommit, AfterCommit
  <2>3. CASE s # r /\ ~ (trades[r][s] > 0)
    <3>0. trades[r][s] \in 0..MaxQuantity /\ filled[s] \in Nat
      BY <1>a DEF TypeOK
    <3>1. trades[r][s] = 0
      BY <2>3, <3>0, ConstantsAssumption
    <3>2. filled'[s] = filled[s]
      BY <1>2, <2>3, <3>0, <3>1 DEF TxCommit, FilledAfter
    <3>3. pc'[s] = pc[s] /\ status'[s] = status[s]
      BY <1>2, <1>a, <2>3 DEF TxCommit, Goto, TypeOK
    <3> QED
      BY <3>2, <3>3, <1>a DEF RowsFollowCalls, Row, BeforeCommit, AfterCommit
  <2> QED
    BY <2>1, <2>2, <2>3
<1> QED
  BY <1>1, <1>2

\* Locals are bounded and reset, and a matching call has a loaded book.
LEMMA LocalsStep == IInv /\ [Next]_vars => LocalsInv'
<1> SUFFICES ASSUME IInv, [Next]_vars, NEW s \in Orders
             PROVE  /\ left'[s] <= input'[s].quantity
                    /\ pc'[s] \in {"idle", "queued", "hydrate", "check"} =>
                          \A m \in Orders : trades'[s][m] = 0
                    /\ pc'[s] \in {"check", "match", "tx", "committed", "audit"} =>
                          loaded'[input'[s].book]
  BY DEF LocalsInv
<1> DEFINE Goal == /\ left'[s] <= input'[s].quantity
                   /\ pc'[s] \in {"idle", "queued", "hydrate", "check"} =>
                          \A m \in Orders : trades'[s][m] = 0
                   /\ pc'[s] \in {"check", "match", "tx", "committed", "audit"} =>
                          loaded'[input'[s].book]
<1>a. TypeOK /\ HeadHolds /\ LocalsInv
  BY DEF IInv
<1>b. /\ input[s].book \in Books /\ input[s].quantity \in 1..MaxQuantity
      /\ left[s] \in 0..MaxQuantity /\ left[s] <= input[s].quantity
  BY <1>a DEF TypeOK, LocalsInv
<1>1. ASSUME NEW r \in Orders,
             Submit(r) \/ Begin(r) \/ EndMatch(r) \/ TxCommit(r) \/ AddRemaining(r)
      PROVE  Goal
  <2>1. UNCHANGED <<input, left, trades, loaded>>
    BY <1>1 DEF Submit, Begin, EndMatch, TxCommit, AddRemaining, bookVars
  <2>2. PICK l \in {"queued", "hydrate", "check", "tx", "committed", "audit"} :
           /\ pc' = [pc EXCEPT ![r] = l]
           /\ \/ pc[r] \in {"idle", "queued"} /\ l \in {"queued", "hydrate"}
              \/ pc[r] = "queued" /\ l = "check" /\ loaded[Book(r)]
              \/ /\ pc[r] \in {"match", "tx", "committed"}
                 /\ l \in {"tx", "committed", "audit"}
    BY <1>1 DEF Submit, Begin, EndMatch, TxCommit, AddRemaining, Goto
  <2>3. CASE s = r
    BY <2>1, <2>2, <2>3, <1>a DEF LocalsInv, TypeOK
  <2>4. CASE s # r
    BY <2>1, <2>2, <2>4, <1>a DEF LocalsInv, TypeOK
  <2> QED
    BY <2>3, <2>4
<1>2. ASSUME NEW r \in Orders, Hydrate(r) PROVE Goal
  <2>1. UNCHANGED <<input, left, trades>> /\ loaded' = [loaded EXCEPT ![Book(r)] = TRUE]
    BY <1>2 DEF Hydrate, Load
  <2>2. pc[r] = "hydrate" /\ pc' = [pc EXCEPT ![r] = "check"]
    BY <1>2 DEF Hydrate, Goto
  <2> QED
    BY <2>1, <2>2, <1>a, <1>b DEF LocalsInv, TypeOK
<1>3. ASSUME NEW r \in Orders, NEW l \in EndPcs, Finish(r, l), input' = input,
             pc[r] \in CriticalPcs, loaded' = loaded \/ Invalidate(Book(r))
      PROVE  Goal
  <2>1. CASE s = r
    BY <1>3, <1>a, <1>b, <2>1 DEF Finish, Goto, TypeOK
  <2>2. CASE s # r
    <3>1. pc'[s] = pc[s] /\ left'[s] = left[s] /\ trades'[s] = trades[s]
      BY <1>3, <1>a, <2>2 DEF Finish, Goto, TypeOK
    <3>2. pc[s] \in CriticalPcs => loaded'[input[s].book] = loaded[input[s].book]
      BY <1>3, <1>a, <1>b, <2>2 DEF HeadHolds, Invalidate, TypeOK
    <3> QED
      BY <1>3, <1>a, <3>1, <3>2 DEF LocalsInv
  <2> QED
    BY <2>1, <2>2
<1>4. ASSUME NEW r \in Orders,
             HydrateFail(r) \/ RejectSelfTrade(r) \/ AuditFail(r) \/ AuditOk(r)
                \/ TxAbort(r) \/ AckLost(r)
      PROVE  Goal
  <2>1. /\ pc[r] \in CriticalPcs /\ input' = input
        /\ loaded' = loaded \/ Invalidate(Book(r))
        /\ \E l \in EndPcs : Finish(r, l)
    BY <1>4 DEF HydrateFail, RejectSelfTrade, AuditFail, AuditOk, TxAbort, AckLost, bookVars
  <2> QED
    BY <2>1, <1>3
<1>5. ASSUME NEW r \in Orders, StartMatch(r) PROVE Goal
  <2>1. /\ UNCHANGED <<input, trades, loaded>> /\ left' = [left EXCEPT ![r] = input[r].quantity]
        /\ pc[r] = "check" /\ pc' = [pc EXCEPT ![r] = "match"]
    BY <1>5 DEF StartMatch, Goto, bookVars
  <2>2. left'[s] \in {left[s], input[s].quantity}
    BY <2>1, <1>a DEF TypeOK
  <2>3. left'[s] <= input[s].quantity
    BY <2>2, <1>b, ConstantsAssumption
  <2>4. pc'[s] = pc[s] \/ (s = r /\ pc'[s] = "match")
    BY <2>1, <1>a DEF TypeOK
  <2> QED
    BY <2>1, <2>3, <2>4, <1>a DEF LocalsInv
<1>6. ASSUME NEW r \in Orders, Fill(r) PROVE Goal
  <2>1. PICK m \in Orders :
           /\ trades' = [trades EXCEPT ![r][m] = MinQty(left[r], rest[Book(r)][m])]
           /\ left' = [left EXCEPT ![r] = @ - MinQty(left[r], rest[Book(r)][m])]
    BY <1>6 DEF Fill
  <2>2. UNCHANGED <<input, pc, loaded>> /\ pc[r] = "match"
    BY <1>6 DEF Fill
  <2>3. MinQty(left[r], rest[Book(r)][m]) \in Nat
    BY <1>a, ConstantsAssumption DEF MinQty, TypeOK
  <2>6. \/ left'[s] = left[s]
        \/ s = r /\ left'[s] = left[s] - MinQty(left[r], rest[Book(r)][m])
    BY <2>1, <1>a DEF TypeOK
  <2>4. left'[s] <= left[s] /\ left'[s] \in Int
    BY <2>6, <2>3, <1>b, ConstantsAssumption
  <2>5. s # r => trades'[s] = trades[s]
    BY <2>1, <1>a DEF TypeOK
  <2> QED
    BY <2>2, <2>4, <2>5, <1>a, <1>b, ConstantsAssumption DEF LocalsInv
<1>7. CASE Crash
  BY <1>7, <1>a, <1>b DEF Crash, LocalsInv, TypeOK
<1>8. CASE BootWarm
  <2>1. UNCHANGED <<pc, input, left, trades>> /\ loaded' = [b \in Books |-> TRUE]
    BY <1>8 DEF BootWarm
  <2> QED
    BY <2>1, <1>a, <1>b DEF LocalsInv
<1>9. CASE UNCHANGED <<pc, input, loaded, left, trades>>
  BY <1>9, <1>a DEF LocalsInv
<1> QED
  BY <1>1, <1>2, <1>4, <1>5, <1>6, <1>7, <1>8, <1>9
     DEF Next, CallStep, EnqueueOk, EnqueueFail, IndexTrade, BootCold, Quiescent, vars, procVars, bookVars

LEMMA DownStep == IInv /\ [Next]_vars => DownIsIdle'
<1> SUFFICES ASSUME IInv, [Next]_vars PROVE DownIsIdle'
  OBVIOUS
<1>a. TypeOK /\ DownIsIdle
  BY DEF IInv
<1>1. ASSUME NEW r \in Orders, Submit(r) \/ CallStep(r) PROVE up /\ up'
  <2>1. up' = up
    BY <1>1 DEF CallStep, Submit, Begin, Hydrate, HydrateFail, RejectSelfTrade, StartMatch,
                Fill, EndMatch, TxCommit, TxAbort, AckLost, AddRemaining, AuditOk, AuditFail
  <2>2. up \/ pc[r] \in CriticalPcs \cup {"queued"}
    BY <1>1 DEF CallStep, Submit, Begin, Hydrate, HydrateFail, RejectSelfTrade, StartMatch,
                Fill, EndMatch, TxCommit, TxAbort, AckLost, AddRemaining, AuditOk, AuditFail
  <2> QED
    BY <2>1, <2>2, <1>a DEF DownIsIdle
<1>2. CASE \E r \in Orders : Submit(r) \/ CallStep(r)
  BY <1>1, <1>2 DEF DownIsIdle
<1>3. CASE Crash
  BY <1>3, <1>a DEF Crash, DownIsIdle
<1>4. CASE BootWarm \/ BootCold
  BY <1>4 DEF BootWarm, BootCold, DownIsIdle
<1>5. CASE UNCHANGED <<up, pc>>
  BY <1>5, <1>a DEF DownIsIdle
<1> QED
  BY <1>2, <1>3, <1>4, <1>5
     DEF Next, EnqueueOk, EnqueueFail, IndexTrade, Quiescent, vars, procVars

-----------------------------------------------------------------------------
(* The book and the database *)

\* An open row has something left, so hydrateBook's filter drops nothing.
LEMMA HydratedIsOpen ==
    ASSUME TypeOK, NoOverfill, NEW b \in Books, NEW o \in Orders
    PROVE  HydratedRest(b)[o] = DbOpen(b, o)
<1>1. /\ filled[o] \in Nat /\ input[o].quantity \in 1..MaxQuantity
      /\ status[o] \in {"none", "OPEN", "PARTIALLY_FILLED", "FILLED"}
  BY DEF TypeOK
<1>2. Open(o) => DbRemaining(o) > 0
  BY <1>1, ConstantsAssumption DEF NoOverfill, Row, Open, DbRemaining, StatusFor
<1> QED
  BY <1>2 DEF HydratedRest, Hydrated, DbOpen

\* What a commit does to the open quantities: the taker's remainder appears
\* and each maker loses its trade.
LEMMA CommitOpen ==
    ASSUME IInv, NEW r \in Orders, TxCommit(r)
    PROVE  /\ NoOverfill'
           /\ DbOpen(Book(r), r)' = left[r]
           /\ \A o \in Orders \ {r} :
                 DbOpen(Book(r), o)' = DbOpen(Book(r), o) - trades[r][o]
           /\ \A b \in Books \ {Book(r)}, o \in Orders : DbOpen(b, o)' = DbOpen(b, o)
<1>a. /\ TypeOK /\ NoOverfill /\ RowsFollowCalls /\ BookInv /\ LocalsInv
      /\ input' = input /\ Book(r) \in Books
  BY DEF IInv, TypeOK, TxCommit
<1>b. ASSUME NEW o \in Orders
      PROVE  /\ filled[o] \in Nat /\ trades[r][o] \in Nat /\ left[o] \in Nat
             /\ input[o].quantity \in Nat \ {0}
             /\ rest[Book(r)][o] \in Nat
  <2>1. /\ trades[r] \in [Orders -> 0..MaxQuantity]
        /\ rest[Book(r)] \in [Orders -> 0..MaxQuantity]
    BY <1>a DEF TypeOK
  <2>2. trades[r][o] \in 0..MaxQuantity /\ rest[Book(r)][o] \in 0..MaxQuantity
    BY <2>1
  <2>3. /\ filled[o] \in Nat /\ left[o] \in 0..MaxQuantity
        /\ input[o].quantity \in 1..MaxQuantity
    BY <1>a DEF TypeOK
  <2> QED
    BY <2>2, <2>3, ConstantsAssumption
<1>1. /\ filled'[r] = input[r].quantity - left[r]
      /\ status'[r] = StatusFor(filled'[r], input[r].quantity)
  BY <1>a DEF TxCommit, FilledAfter, TypeOK
<1>2. left[r] <= input[r].quantity
  BY <1>a DEF LocalsInv
<1>3. DbOpen(Book(r), r)' = left[r]
  BY <1>1, <1>2, <1>a, <1>b DEF DbOpen, Open, DbRemaining, StatusFor
<1>4. ASSUME NEW o \in Orders, o # r, trades[r][o] = 0
      PROVE  filled'[o] = filled[o] /\ status'[o] = status[o]
  <2>1. filled[o] \in Nat
    BY <1>b
  <2>2. filled'[o] = filled[o]
    BY <1>4, <2>1 DEF TxCommit, FilledAfter
  <2>3. status'[o] = status[o]
    BY <1>4 DEF TxCommit
  <2> QED
    BY <2>2, <2>3
<1>5. ASSUME NEW o \in Orders, o # r, trades[r][o] > 0
      PROVE  /\ Book(o) = Book(r) /\ Open(o)
             /\ filled'[o] = filled[o] + trades[r][o]
             /\ filled'[o] <= input[o].quantity
             /\ status'[o] = StatusFor(filled'[o], input[o].quantity)
  <2>1. rest[Book(r)][o] + trades[r][o] = DbOpen(Book(r), o)
    BY <1>a DEF BookInv, TxCommit
  <2>2. DbOpen(Book(r), o) # 0 /\ trades[r][o] <= DbOpen(Book(r), o)
    BY <2>1, <1>5, <1>b
  <2>3. /\ Book(o) = Book(r) /\ Open(o)
        /\ trades[r][o] <= input[o].quantity - filled[o]
    BY <2>2 DEF DbOpen, DbRemaining
  <2>4. /\ filled'[o] = filled[o] + trades[r][o]
        /\ status'[o] = StatusFor(filled'[o], input[o].quantity)
    BY <1>5, <1>a DEF TxCommit, FilledAfter
  <2> QED
    BY <2>3, <2>4, <1>b
<1>6. ASSUME NEW o \in Orders, o # r
      PROVE  DbOpen(Book(r), o)' = DbOpen(Book(r), o) - trades[r][o]
  <2>1. CASE trades[r][o] = 0
    <3>1. DbOpen(Book(r), o) \in Int
      BY <1>b DEF DbOpen, DbRemaining
    <3> QED
      BY <1>6, <2>1, <1>4, <1>a, <3>1 DEF DbOpen, Open, DbRemaining
  <2>2. CASE trades[r][o] > 0
    BY <1>6, <2>2, <1>5, <1>a, <1>b DEF DbOpen, Open, DbRemaining, StatusFor
  <2> QED
    BY <2>1, <2>2, <1>b
<1>7. ASSUME NEW b \in Books, b # Book(r), NEW o \in Orders
      PROVE  DbOpen(b, o)' = DbOpen(b, o)
  <2>1. CASE o = r
    BY <2>1, <1>7, <1>a DEF DbOpen
  <2>2. CASE o # r /\ trades[r][o] = 0
    BY <2>2, <1>4, <1>a DEF DbOpen, Open, DbRemaining
  <2>3. CASE o # r /\ trades[r][o] > 0
    BY <2>3, <1>5, <1>7, <1>a DEF DbOpen
  <2> QED
    BY <2>1, <2>2, <2>3, <1>b
<1>8. NoOverfill'
  <2> SUFFICES ASSUME NEW o \in Orders, status'[o] # "none"
               PROVE  /\ filled'[o] <= input[o].quantity
                      /\ status'[o] = StatusFor(filled'[o], input[o].quantity)
    BY <1>a DEF NoOverfill, Row, StatusFor
  <2>1. CASE o = r
    BY <2>1, <1>1, <1>2, <1>b
  <2>2. CASE o # r /\ trades[r][o] = 0
    BY <2>2, <1>4, <1>a DEF NoOverfill, Row
  <2>3. CASE o # r /\ trades[r][o] > 0
    BY <2>3, <1>5
  <2> QED
    BY <2>1, <2>2, <2>3, <1>b
<1> QED
  BY <1>3, <1>6, <1>7, <1>8

\* The parts of BookInv and BookAgreesWithDb for one call and for one book.
BookInvOf(s) ==
    /\ pc[s] \in {"match", "tx"} =>
          \A o \in Orders :
              rest[Book(s)][o] + trades[s][o] = DbOpen(Book(s), o)
    /\ pc[s] = "match" /\ left[s] > 0 =>
          \A o \in Orders : trades[s][o] > 0 => rest[Book(s)][o] = 0
    /\ pc[s] = "committed" =>
          /\ rest[Book(s)][s] = 0
          /\ left[s] = DbOpen(Book(s), s)
          /\ \A o \in Orders \ {s} : rest[Book(s)][o] = DbOpen(Book(s), o)

AgreesOf(b) ==
    loaded[b] /\ ~ Busy(b) => \A o \in Orders : rest[b][o] = DbOpen(b, o)

LEMMA BookParts ==
    /\ BookInv <=> \A s \in Orders : BookInvOf(s)
    /\ BookAgreesWithDb <=> \A b \in Books : AgreesOf(b)
BY DEF BookInv, BookInvOf, BookAgreesWithDb, AgreesOf

\* A step of a call inside the mutex leaves the calls and the books of the
\* other mutexes alone.
LEMMA OtherBooks ==
    ASSUME IInv, NEW r \in Orders, pc[r] \in CriticalPcs, input' = input,
           \A s \in Orders \ {r} :
               pc'[s] = pc[s] /\ left'[s] = left[s] /\ trades'[s] = trades[s],
           \A b \in Books \ {Book(r)} :
               /\ rest'[b] = rest[b] /\ loaded'[b] = loaded[b]
               /\ \A o \in Orders : DbOpen(b, o)' = DbOpen(b, o)
    PROVE  /\ \A s \in Orders \ {r} : BookInvOf(s)'
           /\ \A s \in Orders \ {r} : pc'[s] \in CriticalPcs => Book(s) # Book(r)
           /\ \A b \in Books \ {Book(r)} : AgreesOf(b)'
<1>a. TypeOK /\ HeadHolds /\ BookInv /\ BookAgreesWithDb
  BY DEF IInv
<1>b. ASSUME NEW s \in Orders PROVE Book(s) \in Books
  BY <1>a DEF TypeOK
<1>1. ASSUME NEW s \in Orders \ {r}, pc'[s] \in CriticalPcs PROVE Book(s) # Book(r)
  BY <1>1, <1>a DEF HeadHolds
<1>2. ASSUME NEW s \in Orders \ {r} PROVE BookInvOf(s)'
  <2>1. CASE pc'[s] \notin CriticalPcs
    BY <2>1 DEF BookInvOf
  <2>2. CASE pc'[s] \in CriticalPcs
    <3>1. Book(s) # Book(r) /\ BookInvOf(s)
      BY <1>1, <2>2, <1>a, BookParts
    <3>2. /\ pc'[s] = pc[s] /\ left'[s] = left[s] /\ trades'[s] = trades[s]
          /\ rest'[Book(s)] = rest[Book(s)]
          /\ \A o \in Orders : DbOpen(Book(s), o)' = DbOpen(Book(s), o)
      BY <3>1, <1>b
    <3> QED
      BY <3>1, <3>2 DEF BookInvOf
  <2> QED
    BY <2>1, <2>2
<1>3. ASSUME NEW b \in Books \ {Book(r)} PROVE AgreesOf(b)'
  <2>1. Busy(b)' = Busy(b)
    BY DEF Busy
  <2> QED
    BY <2>1, <1>a, BookParts DEF AgreesOf
<1> QED
  BY <1>1, <1>2, <1>3

\* Steps that change no row keep what is open.
LEMMA OpenUnchanged ==
    ASSUME status' = status, filled' = filled, input' = input
    PROVE  \A b \in Books, o \in Orders : DbOpen(b, o)' = DbOpen(b, o)
BY DEF DbOpen, Open, DbRemaining

\* A call that ends outside match, tx and committed, or that drops the book.
LEMMA FinishBook ==
    ASSUME IInv, NEW r \in Orders, NEW l \in EndPcs, Finish(r, l), UNCHANGED dbVars,
           input' = input,
           \/ pc[r] \in {"hydrate", "check", "audit"} /\ UNCHANGED bookVars
           \/ pc[r] \in CriticalPcs /\ Invalidate(Book(r))
    PROVE  BookInv' /\ BookAgreesWithDb'
<1>a. /\ TypeOK /\ BookAgreesWithDb /\ HeadHolds /\ pc[r] \in CriticalPcs
      /\ Book(r) \in Books
  BY DEF IInv, TypeOK
<1>b. \A b \in Books, o \in Orders : DbOpen(b, o)' = DbOpen(b, o)
  BY OpenUnchanged DEF dbVars
<1>1. \A s \in Orders \ {r} :
          pc'[s] = pc[s] /\ left'[s] = left[s] /\ trades'[s] = trades[s]
  BY <1>a DEF Finish, Goto, TypeOK
<1>2. \A b \in Books \ {Book(r)} : rest'[b] = rest[b] /\ loaded'[b] = loaded[b]
  BY <1>a DEF Invalidate, bookVars, TypeOK
<1>3. /\ \A s \in Orders \ {r} : BookInvOf(s)'
      /\ \A b \in Books \ {Book(r)} : AgreesOf(b)'
  BY <1>1, <1>2, <1>a, <1>b, OtherBooks
<1>4. pc'[r] \in EndPcs
  BY <1>a DEF Finish, Goto, TypeOK
<1>5. BookInvOf(r)'
  BY <1>4 DEF BookInvOf
<1>6. AgreesOf(Book(r))'
  <2>1. CASE Invalidate(Book(r))
    <3>1. ~ loaded'[Book(r)]
      BY <2>1, <1>a DEF Invalidate, TypeOK
    <3> QED
      BY <3>1 DEF AgreesOf
  <2>2. CASE pc[r] \in {"hydrate", "check", "audit"} /\ UNCHANGED bookVars
    <3>1. Busy(Book(r)) => Busy(Book(r))'
      BY <1>1, <2>2 DEF Busy
    <3>2. AgreesOf(Book(r))
      BY <1>a, BookParts
    <3>3. ASSUME NEW o \in Orders PROVE DbOpen(Book(r), o)' = DbOpen(Book(r), o)
      BY <1>a, <1>b
    <3> QED
      BY <3>1, <3>2, <3>3, <2>2 DEF AgreesOf, bookVars
  <2> QED
    BY <2>1, <2>2
<1>7. (\A s \in Orders : BookInvOf(s)') /\ (\A b \in Books : AgreesOf(b)')
  BY <1>3, <1>5, <1>6
<1> QED
  BY <1>7 DEF BookInv, BookInvOf, BookAgreesWithDb, AgreesOf

\* While call r is inside its mutex nobody else makes its book busy.
LEMMA NotBusy ==
    ASSUME HeadHolds, NEW r \in Orders, pc[r] \in {"hydrate", "check", "audit"}
    PROVE  ~ Busy(Book(r))
BY DEF HeadHolds, Busy

\* StartMatch, Fill and AddRemaining: the steps that work on the book.
LEMMA StartMatchBook ==
    ASSUME IInv, NEW r \in Orders, StartMatch(r)
    PROVE  BookInvOf(r)'
<1>a. TypeOK /\ BookAgreesWithDb /\ HeadHolds /\ LocalsInv /\ Book(r) \in Books
  BY DEF IInv, TypeOK
<1>1. /\ pc[r] = "check" /\ pc'[r] = "match"
      /\ UNCHANGED <<input, status, filled, rest, trades>>
  BY <1>a DEF StartMatch, Goto, TypeOK, bookVars, dbVars
<1>2. \A o \in Orders : rest[Book(r)][o] = DbOpen(Book(r), o)
  BY <1>1, <1>a, NotBusy DEF LocalsInv, BookAgreesWithDb
<1>3. \A o \in Orders : trades[r][o] = 0
  BY <1>1, <1>a DEF LocalsInv
<1>4. \A o \in Orders : rest[Book(r)][o] \in Int
  <2>1. rest[Book(r)] \in [Orders -> 0..MaxQuantity]
    BY <1>a DEF TypeOK
  <2> QED
    BY <2>1, ConstantsAssumption
<1>5. \A o \in Orders : DbOpen(Book(r), o)' = DbOpen(Book(r), o)
  BY <1>1, <1>a, OpenUnchanged
<1> QED
  BY <1>1, <1>2, <1>3, <1>4, <1>5 DEF BookInvOf

LEMMA FillBook ==
    ASSUME IInv, NEW r \in Orders, Fill(r)
    PROVE  /\ BookInvOf(r)'
           /\ \A b \in Books \ {Book(r)} : rest'[b] = rest[b]
           /\ \A s \in Orders \ {r} : left'[s] = left[s] /\ trades'[s] = trades[s]
<1>a. TypeOK /\ Book(r) \in Books /\ BookInvOf(r)
  BY BookParts DEF IInv, TypeOK
<1>0. /\ pc[r] = "match" /\ left[r] > 0
      /\ UNCHANGED <<pc, input, status, filled>>
  BY DEF Fill, dbVars
<1>1. PICK m \in Orders :
         LET q == MinQty(left[r], rest[Book(r)][m])
         IN  /\ BestFor(r, m)
             /\ trades' = [trades EXCEPT ![r][m] = q]
             /\ rest' = [rest EXCEPT ![Book(r)][m] = @ - q]
             /\ left' = [left EXCEPT ![r] = @ - q]
  BY DEF Fill, execute, updateOrderQuantity, removeOrder
<1> DEFINE q == MinQty(left[r], rest[Book(r)][m])
<1>2. /\ rest[Book(r)] \in [Orders -> 0..MaxQuantity]
      /\ trades[r] \in [Orders -> 0..MaxQuantity]
      /\ left[r] \in 0..MaxQuantity
  BY <1>a DEF TypeOK
<1>3. ASSUME NEW o \in Orders
      PROVE  rest[Book(r)][o] \in Nat /\ trades[r][o] \in Nat /\ left[r] \in Nat
  BY <1>2, ConstantsAssumption
<1>4. q \in Nat /\ q <= left[r] /\ (q = left[r] \/ q = rest[Book(r)][m])
  BY <1>3 DEF MinQty
<1>5. rest[Book(r)][m] > 0 /\ trades[r][m] = 0
  BY <1>0, <1>1, <1>a, <1>3 DEF BestFor, Resting, BookInvOf
<1> HIDE DEF q
<1>6. /\ trades' = [trades EXCEPT ![r][m] = q]
      /\ rest' = [rest EXCEPT ![Book(r)][m] = @ - q]
      /\ left' = [left EXCEPT ![r] = @ - q]
  BY <1>1 DEF q
<1>7. /\ rest'[Book(r)][m] = rest[Book(r)][m] - q
      /\ trades'[r][m] = q
      /\ left'[r] = left[r] - q
  BY <1>6, <1>a DEF TypeOK
<1>8. ASSUME NEW o \in Orders, o # m
      PROVE  rest'[Book(r)][o] = rest[Book(r)][o] /\ trades'[r][o] = trades[r][o]
  BY <1>6, <1>8, <1>a DEF TypeOK
<1>9. \A o \in Orders : DbOpen(Book(r), o)' = DbOpen(Book(r), o)
  BY <1>0, <1>a, OpenUnchanged
<1>10. ASSUME NEW o \in Orders
       PROVE  rest'[Book(r)][o] + trades'[r][o] = DbOpen(Book(r), o)
  <2>1. rest[Book(r)][o] + trades[r][o] = DbOpen(Book(r), o)
    BY <1>0, <1>a DEF BookInvOf
  <2> QED
    BY <2>1, <1>3, <1>4, <1>5, <1>7, <1>8
<1>11. ASSUME NEW o \in Orders, left'[r] > 0, trades'[r][o] > 0
       PROVE  rest'[Book(r)][o] = 0
  <2>1. CASE o = m
    BY <2>1, <1>11, <1>3, <1>4, <1>7
  <2>2. CASE o # m
    BY <2>2, <1>0, <1>11, <1>8, <1>a DEF BookInvOf
  <2> QED
    BY <2>1, <2>2
<1>12. BookInvOf(r)'
  BY <1>0, <1>9, <1>10, <1>11 DEF BookInvOf
<1>13. \A b \in Books \ {Book(r)} : rest'[b] = rest[b]
  BY <1>6, <1>a DEF TypeOK
<1>14. \A s \in Orders \ {r} : left'[s] = left[s] /\ trades'[s] = trades[s]
  BY <1>6, <1>a DEF TypeOK
<1> QED
  BY <1>12, <1>13, <1>14

LEMMA AddRemainingBook ==
    ASSUME IInv, NEW r \in Orders, AddRemaining(r)
    PROVE  /\ \A o \in Orders : rest'[Book(r)][o] = DbOpen(Book(r), o)'
           /\ \A b \in Books \ {Book(r)} : rest'[b] = rest[b]
<1>a. TypeOK /\ Book(r) \in Books /\ BookInvOf(r)
  BY BookParts DEF IInv, TypeOK
<1>0. pc[r] = "committed" /\ UNCHANGED <<input, status, filled>>
  BY DEF AddRemaining, dbVars
<1>1. \/ left[r] > 0 /\ rest' = [rest EXCEPT ![Book(r)][r] = left[r]]
      \/ left[r] = 0 /\ rest' = rest
  <2>1. left[r] \in 0..MaxQuantity
    BY <1>a DEF TypeOK
  <2> QED
    BY <2>1, ConstantsAssumption DEF AddRemaining
<1>2. \A o \in Orders : DbOpen(Book(r), o)' = DbOpen(Book(r), o)
  BY <1>0, <1>a, OpenUnchanged
<1>3. rest'[Book(r)][r] = left[r]
  BY <1>0, <1>1, <1>a DEF TypeOK, BookInvOf
<1>4. ASSUME NEW o \in Orders \ {r} PROVE rest'[Book(r)][o] = rest[Book(r)][o]
  <2>1. rest'[Book(r)] = [rest[Book(r)] EXCEPT ![r] = left[r]] \/ rest' = rest
    BY <1>1, <1>a DEF TypeOK
  <2>2. rest[Book(r)] \in [Orders -> 0..MaxQuantity]
    BY <1>a DEF TypeOK
  <2> QED
    BY <2>1, <2>2
<1>5. ASSUME NEW b \in Books \ {Book(r)} PROVE rest'[b] = rest[b]
  BY <1>1, <1>a DEF TypeOK
<1> QED
  BY <1>0, <1>2, <1>3, <1>4, <1>5, <1>a DEF BookInvOf

LEMMA TxCommitBook ==
    ASSUME IInv, NEW r \in Orders, TxCommit(r)
    PROVE  BookInvOf(r)'
<1>a. TypeOK /\ Book(r) \in Books /\ BookInvOf(r) /\ RowsFollowCalls
  BY BookParts DEF IInv, TypeOK
<1>0. /\ pc[r] = "tx" /\ pc'[r] = "committed"
      /\ UNCHANGED <<input, rest, trades, left>>
  BY <1>a DEF TxCommit, Goto, TypeOK, bookVars
<1>1. ASSUME NEW o \in Orders
      PROVE  /\ rest[Book(r)][o] \in Nat /\ trades[r][o] \in Nat
             /\ rest[Book(r)][o] + trades[r][o] = DbOpen(Book(r), o)
  <2>1. /\ rest[Book(r)] \in [Orders -> 0..MaxQuantity]
        /\ trades[r] \in [Orders -> 0..MaxQuantity]
    BY <1>a DEF TypeOK
  <2>2. rest[Book(r)][o] \in 0..MaxQuantity /\ trades[r][o] \in 0..MaxQuantity
    BY <2>1
  <2> QED
    BY <2>2, <1>0, <1>a, ConstantsAssumption DEF BookInvOf
<1>2. DbOpen(Book(r), r) = 0
  BY <1>0, <1>a DEF RowsFollowCalls, Row, DbOpen, Open
<1>3. rest[Book(r)][r] = 0
  <2>1. /\ rest[Book(r)][r] \in Nat /\ trades[r][r] \in Nat
        /\ rest[Book(r)][r] + trades[r][r] = 0
    BY <1>1, <1>2
  <2> QED
    BY <2>1
<1>4. /\ DbOpen(Book(r), r)' = left[r]
      /\ \A o \in Orders \ {r} : DbOpen(Book(r), o)' = DbOpen(Book(r), o) - trades[r][o]
  BY CommitOpen
<1>5. ASSUME NEW o \in Orders \ {r} PROVE DbOpen(Book(r), o)' = rest[Book(r)][o]
  BY <1>1, <1>4
<1> QED
  BY <1>0, <1>3, <1>4, <1>5 DEF BookInvOf

\* Between match and addOrder the book differs from Postgres by exactly what
\* the call has traded, and otherwise by nothing.
LEMMA BookStep == IInv /\ [Next]_vars => BookInv' /\ BookAgreesWithDb'
<1> SUFFICES ASSUME IInv, [Next]_vars PROVE BookInv' /\ BookAgreesWithDb'
  OBVIOUS
<1>a. /\ TypeOK /\ HeadHolds /\ DownIsIdle /\ NoOverfill /\ BookInv /\ BookAgreesWithDb
      /\ \A r \in Orders : Book(r) \in Books
  BY DEF IInv, TypeOK
<1>b. ASSUME \A s \in Orders : BookInvOf(s)', \A b \in Books : AgreesOf(b)'
      PROVE  BookInv' /\ BookAgreesWithDb'
  BY <1>b DEF BookInv, BookInvOf, BookAgreesWithDb, AgreesOf
\* A step inside the mutex after which the book of r is busy or agrees.
<1>c. ASSUME NEW r \in Orders, pc[r] \in CriticalPcs, input' = input,
             \A s \in Orders \ {r} :
                 pc'[s] = pc[s] /\ left'[s] = left[s] /\ trades'[s] = trades[s],
             \A b \in Books \ {Book(r)} :
                 /\ rest'[b] = rest[b] /\ loaded'[b] = loaded[b]
                 /\ \A o \in Orders : DbOpen(b, o)' = DbOpen(b, o),
             BookInvOf(r)',
             \/ pc'[r] \in {"match", "tx", "committed"}
             \/ \A o \in Orders : rest'[Book(r)][o] = DbOpen(Book(r), o)'
      PROVE  BookInv' /\ BookAgreesWithDb'
  <2>1. /\ \A s \in Orders \ {r} : BookInvOf(s)'
        /\ \A b \in Books \ {Book(r)} : AgreesOf(b)'
    BY <1>c, OtherBooks
  <2>2. AgreesOf(Book(r))'
    BY <1>c DEF AgreesOf, Busy
  <2> QED
    BY <2>1, <2>2, <1>b, <1>c
<1>1. ASSUME NEW r \in Orders, Submit(r) \/ Begin(r) \/ EndMatch(r)
      PROVE  BookInv' /\ BookAgreesWithDb'
  <2>1. UNCHANGED <<input, status, filled, rest, loaded, left, trades>>
    BY <1>1 DEF Submit, Begin, EndMatch, bookVars, dbVars
  <2>2. PICK l \in {"queued", "check", "hydrate", "tx"} :
           /\ pc' = [pc EXCEPT ![r] = l]
           /\ \/ pc[r] \in {"idle", "queued"} /\ l \in {"queued", "check", "hydrate"}
              \/ pc[r] = "match" /\ l = "tx"
    BY <1>1 DEF Submit, Begin, EndMatch, Goto
  <2>3. ASSUME NEW s \in Orders
        PROVE  /\ pc'[s] \in {"match", "tx"} <=> pc[s] \in {"match", "tx"}
               /\ pc'[s] = "match" => pc[s] = "match"
               /\ pc'[s] = "committed" <=> pc[s] = "committed"
    BY <2>2, <1>a DEF TypeOK
  <2>4. \A b \in Books, o \in Orders : DbOpen(b, o)' = DbOpen(b, o)
    BY <2>1, OpenUnchanged
  <2>5. ASSUME NEW s \in Orders PROVE BookInvOf(s)'
    <3>1. BookInvOf(s) /\ Book(s) \in Books
      BY <1>a, BookParts
    <3> QED
      BY <3>1, <2>1, <2>3, <2>4 DEF BookInvOf
  <2>6. ASSUME NEW b \in Books PROVE AgreesOf(b)'
    <3>1. Busy(b)' <=> Busy(b)
      BY <2>1, <2>3 DEF Busy
    <3>2. AgreesOf(b)
      BY <1>a, BookParts
    <3> QED
      BY <3>1, <3>2, <2>1, <2>4 DEF AgreesOf
  <2> QED
    BY <2>5, <2>6, <1>b
<1>2. ASSUME NEW r \in Orders, Hydrate(r) PROVE BookInv' /\ BookAgreesWithDb'
  <2>1. /\ pc[r] = "hydrate" /\ pc' = [pc EXCEPT ![r] = "check"]
        /\ UNCHANGED <<input, left, trades, status, filled>>
        /\ rest' = [rest EXCEPT ![Book(r)] = HydratedRest(Book(r))]
        /\ loaded' = [loaded EXCEPT ![Book(r)] = TRUE]
    BY <1>2 DEF Hydrate, Load, Goto, dbVars
  <2>2. pc'[r] = "check" /\ \A s \in Orders \ {r} : pc'[s] = pc[s]
    BY <2>1, <1>a DEF TypeOK
  <2>3. \A b \in Books \ {Book(r)} : rest'[b] = rest[b] /\ loaded'[b] = loaded[b]
    BY <2>1, <1>a DEF TypeOK
  <2>4. \A b \in Books, o \in Orders : DbOpen(b, o)' = DbOpen(b, o)
    BY <2>1, OpenUnchanged
  <2>5. rest'[Book(r)] = HydratedRest(Book(r))
    BY <2>1, <1>a DEF TypeOK
  <2>6. ASSUME NEW o \in Orders PROVE rest'[Book(r)][o] = DbOpen(Book(r), o)'
    <3>1. HydratedRest(Book(r))[o] = DbOpen(Book(r), o)
      BY <1>a, HydratedIsOpen
    <3>2. DbOpen(Book(r), o)' = DbOpen(Book(r), o)
      BY <2>1, <2>4, <1>a
    <3> QED
      BY <3>1, <3>2, <2>5
  <2>7. BookInvOf(r)'
    BY <2>2 DEF BookInvOf
  <2> QED
    BY <2>1, <2>2, <2>3, <2>4, <2>6, <2>7, <1>c
<1>3. ASSUME NEW r \in Orders,
             HydrateFail(r) \/ RejectSelfTrade(r) \/ AuditFail(r) \/ AuditOk(r)
                \/ TxAbort(r) \/ AckLost(r)
      PROVE  BookInv' /\ BookAgreesWithDb'
  <2>1. /\ UNCHANGED dbVars /\ input' = input /\ \E l \in EndPcs : Finish(r, l)
        /\ \/ pc[r] \in {"hydrate", "check", "audit"} /\ UNCHANGED bookVars
           \/ pc[r] \in CriticalPcs /\ Invalidate(Book(r))
    BY <1>3 DEF HydrateFail, RejectSelfTrade, AuditFail, AuditOk, TxAbort, AckLost
  <2> QED
    BY <2>1, FinishBook
<1>4. ASSUME NEW r \in Orders, StartMatch(r) PROVE BookInv' /\ BookAgreesWithDb'
  <2>1. /\ pc[r] = "check" /\ pc' = [pc EXCEPT ![r] = "match"]
        /\ left' = [left EXCEPT ![r] = input[r].quantity]
        /\ UNCHANGED <<input, trades, status, filled, rest, loaded>>
    BY <1>4 DEF StartMatch, Goto, bookVars, dbVars
  <2>2. /\ pc'[r] = "match"
        /\ \A s \in Orders \ {r} : pc'[s] = pc[s] /\ left'[s] = left[s]
    BY <2>1, <1>a DEF TypeOK
  <2>3. \A b \in Books, o \in Orders : DbOpen(b, o)' = DbOpen(b, o)
    BY <2>1, OpenUnchanged
  <2>4. BookInvOf(r)'
    BY <1>4, StartMatchBook
  <2> QED
    BY <2>1, <2>2, <2>3, <2>4, <1>c
<1>5. ASSUME NEW r \in Orders, Fill(r) PROVE BookInv' /\ BookAgreesWithDb'
  <2>1. pc[r] = "match" /\ UNCHANGED <<pc, input, status, filled, loaded>>
    BY <1>5 DEF Fill, dbVars
  <2>2. \A b \in Books, o \in Orders : DbOpen(b, o)' = DbOpen(b, o)
    BY <2>1, OpenUnchanged
  <2>3. /\ BookInvOf(r)'
        /\ \A b \in Books \ {Book(r)} : rest'[b] = rest[b]
        /\ \A s \in Orders \ {r} : left'[s] = left[s] /\ trades'[s] = trades[s]
    BY <1>5, FillBook
  <2> QED
    BY <2>1, <2>2, <2>3, <1>c
<1>6. ASSUME NEW r \in Orders, TxCommit(r) PROVE BookInv' /\ BookAgreesWithDb'
  <2>1. /\ pc[r] = "tx" /\ pc' = [pc EXCEPT ![r] = "committed"]
        /\ UNCHANGED <<input, left, trades, rest, loaded>>
    BY <1>6 DEF TxCommit, Goto, bookVars
  <2>2. pc'[r] = "committed" /\ \A s \in Orders \ {r} : pc'[s] = pc[s]
    BY <2>1, <1>a DEF TypeOK
  <2>3. \A b \in Books \ {Book(r)}, o \in Orders : DbOpen(b, o)' = DbOpen(b, o)
    BY <1>6, CommitOpen
  <2>4. BookInvOf(r)'
    BY <1>6, TxCommitBook
  <2> QED
    BY <2>1, <2>2, <2>3, <2>4, <1>c
<1>7. ASSUME NEW r \in Orders, AddRemaining(r) PROVE BookInv' /\ BookAgreesWithDb'
  <2>1. /\ pc[r] = "committed" /\ pc' = [pc EXCEPT ![r] = "audit"]
        /\ UNCHANGED <<input, left, trades, loaded, status, filled>>
    BY <1>7 DEF AddRemaining, Goto, dbVars
  <2>2. pc'[r] = "audit" /\ \A s \in Orders \ {r} : pc'[s] = pc[s]
    BY <2>1, <1>a DEF TypeOK
  <2>3. \A b \in Books, o \in Orders : DbOpen(b, o)' = DbOpen(b, o)
    BY <2>1, OpenUnchanged
  <2>4. BookInvOf(r)'
    BY <2>2 DEF BookInvOf
  <2> QED
    BY <2>1, <2>2, <2>3, <2>4, <1>7, <1>c, AddRemainingBook
<1>8. CASE Crash
  <2>1. /\ \A s \in Orders : pc'[s] \in EndPcs \cup {"idle"}
        /\ \A b \in Books : ~ loaded'[b]
    BY <1>8 DEF Crash
  <2>2. \A s \in Orders : BookInvOf(s)'
    BY <2>1 DEF BookInvOf
  <2>3. \A b \in Books : AgreesOf(b)'
    BY <2>1 DEF AgreesOf
  <2> QED
    BY <2>2, <2>3, <1>b
<1>9. CASE BootWarm
  <2>1. /\ UNCHANGED <<pc, input, status, filled>>
        /\ \A b \in Books : rest'[b] = HydratedRest(b)
        /\ \A s \in Orders : pc'[s] \in EndPcs \cup {"idle"}
    BY <1>9, <1>a DEF BootWarm, dbVars, DownIsIdle
  <2>2. \A s \in Orders : BookInvOf(s)'
    BY <2>1 DEF BookInvOf
  <2>3. ASSUME NEW b \in Books PROVE AgreesOf(b)'
    <3>1. ASSUME NEW o \in Orders PROVE rest'[b][o] = DbOpen(b, o)'
      BY <2>1, <1>a, HydratedIsOpen, OpenUnchanged
    <3> QED
      BY <3>1 DEF AgreesOf
  <2> QED
    BY <2>2, <2>3, <1>b
<1>10. CASE UNCHANGED <<pc, input, queue, left, trades, loaded, rest, status, filled>>
  BY <1>10, <1>a
     DEF BookInv, BookAgreesWithDb, Busy, DbOpen, Open, DbRemaining
<1> QED
  BY <1>1, <1>2, <1>3, <1>4, <1>5, <1>6, <1>7, <1>8, <1>9, <1>10
     DEF Next, CallStep, EnqueueOk, EnqueueFail, IndexTrade, BootCold, Quiescent, vars,
         procVars, bookVars, dbVars

\* Only a commit touches rows, and it never fills beyond the quantity.
LEMMA OverfillStep == IInv /\ [Next]_vars => NoOverfill'
<1> SUFFICES ASSUME IInv, [Next]_vars PROVE NoOverfill'
  OBVIOUS
<1>1. CASE \E r \in Orders : TxCommit(r)
  BY <1>1, CommitOpen
<1>2. CASE \A r \in Orders : ~ TxCommit(r)
  <2>1. UNCHANGED <<status, filled, input>> /\ NoOverfill
    BY <1>2, OnlyTxCommitWrites DEF IInv
  <2> QED
    BY <2>1 DEF NoOverfill, Row, StatusFor
<1> QED
  BY <1>1, <1>2

-----------------------------------------------------------------------------
(* Legal trades *)

\* A call that is in match or tx after a step has just started, traded or
\* stopped, or was not disturbed by the step.
LEMMA MatchingFrame ==
    ASSUME IInv, [Next]_vars, NEW s \in Orders, pc'[s] \in {"match", "tx"}
    PROVE  /\ input' = input
           /\ \/ StartMatch(s) \/ Fill(s) \/ EndMatch(s)
              \/ /\ pc'[s] = pc[s] /\ left'[s] = left[s] /\ trades'[s] = trades[s]
                 /\ rest'[Book(s)] = rest[Book(s)]
<1>a. /\ TypeOK /\ HeadHolds /\ DownIsIdle
      /\ \A r \in Orders : Book(r) \in Books
  BY DEF IInv, TypeOK
<1> DEFINE Goal == /\ input' = input
                   /\ \/ StartMatch(s) \/ Fill(s) \/ EndMatch(s)
                      \/ /\ pc'[s] = pc[s] /\ left'[s] = left[s] /\ trades'[s] = trades[s]
                         /\ rest'[Book(s)] = rest[Book(s)]
<1>1. ASSUME NEW r \in Orders, Submit(r) \/ CallStep(r) PROVE input' = input
  BY <1>1 DEF CallStep, Submit, Begin, Hydrate, HydrateFail, RejectSelfTrade, StartMatch,
              Fill, EndMatch, TxCommit, TxAbort, AckLost, AddRemaining, AuditOk, AuditFail
<1>2. CASE Submit(s) \/ CallStep(s)
  <2>1. CASE StartMatch(s) \/ Fill(s) \/ EndMatch(s)
    BY <2>1, <1>1 DEF CallStep
  <2>3. CASE Submit(s) \/ Begin(s) \/ Hydrate(s) \/ TxCommit(s) \/ AddRemaining(s)
    <3>1. \E l \in {"queued", "check", "hydrate", "committed", "audit"} :
             pc' = [pc EXCEPT ![s] = l]
      BY <2>3 DEF Submit, Begin, Hydrate, TxCommit, AddRemaining, Goto
    <3> QED
      BY <3>1, <1>a DEF TypeOK
  <2>4. CASE HydrateFail(s) \/ RejectSelfTrade(s) \/ AuditFail(s) \/ AuditOk(s)
                \/ TxAbort(s) \/ AckLost(s)
    <3>1. \E l \in EndPcs : pc' = [pc EXCEPT ![s] = l]
      BY <2>4 DEF HydrateFail, RejectSelfTrade, AuditFail, AuditOk, TxAbort, AckLost,
                  Finish, Goto
    <3> QED
      BY <3>1, <1>a DEF TypeOK
  <2> QED
    BY <1>2, <2>1, <2>3, <2>4 DEF CallStep
<1>3. ASSUME NEW r \in Orders, r # s, Submit(r) \/ CallStep(r) PROVE Goal
  <2>1. pc'[s] = pc[s]
    <3>1. pc' = pc \/ \E l : pc' = [pc EXCEPT ![r] = l]
      BY <1>3 DEF CallStep, Submit, Begin, Hydrate, HydrateFail, RejectSelfTrade,
                  StartMatch, Fill, EndMatch, TxCommit, TxAbort, AckLost, AddRemaining,
                  AuditOk, AuditFail, Finish, Goto
    <3> QED
      BY <3>1, <1>3, <1>a DEF TypeOK
  <2>2. pc[r] \in CriticalPcs => Book(r) # Book(s)
    BY <2>1, <1>3, <1>a DEF HeadHolds
  <2>3. CASE Fill(r)
    <3>1. pc[r] \in CriticalPcs
      BY <2>3 DEF Fill
    <3> QED
      BY <2>1, <2>2, <2>3, <3>1, <1>1, <1>3, <1>a, FillBook
  <2>4. CASE AddRemaining(r)
    <3>1. pc[r] \in CriticalPcs /\ trades' = trades /\ left' = left
      BY <2>4 DEF AddRemaining
    <3>2. rest'[Book(s)] = rest[Book(s)]
      BY <2>2, <2>4, <3>1, <1>a, AddRemainingBook
    <3> QED
      BY <2>1, <3>1, <3>2, <1>1, <1>3
  <2>5. CASE Hydrate(r)
    <3>1. /\ pc[r] \in CriticalPcs /\ trades' = trades /\ left' = left
          /\ rest' = [rest EXCEPT ![Book(r)] = HydratedRest(Book(r))]
      BY <2>5 DEF Hydrate, Load
    <3>2. rest'[Book(s)] = rest[Book(s)]
      BY <2>2, <3>1, <1>a DEF TypeOK
    <3> QED
      BY <2>1, <3>1, <3>2, <1>1, <1>3
  <2>6. CASE TxAbort(r) \/ AckLost(r)
    <3>1. /\ pc[r] \in CriticalPcs
          /\ trades' = [trades EXCEPT ![r] = NoOrders] /\ left' = [left EXCEPT ![r] = 0]
          /\ rest' = [rest EXCEPT ![Book(r)] = NoOrders]
      BY <2>6 DEF TxAbort, AckLost, Finish, Invalidate
    <3>2. rest'[Book(s)] = rest[Book(s)] /\ trades'[s] = trades[s] /\ left'[s] = left[s]
      BY <2>2, <3>1, <1>3, <1>a DEF TypeOK
    <3> QED
      BY <2>1, <3>1, <3>2, <1>1, <1>3
  <2>7. CASE Submit(r) \/ Begin(r) \/ StartMatch(r) \/ EndMatch(r) \/ TxCommit(r)
               \/ HydrateFail(r) \/ RejectSelfTrade(r) \/ AuditFail(r) \/ AuditOk(r)
    <3>1. /\ rest' = rest
          /\ trades' = trades \/ trades' = [trades EXCEPT ![r] = NoOrders]
          /\ left' = left \/ \E n : left' = [left EXCEPT ![r] = n]
      BY <2>7 DEF Submit, Begin, StartMatch, EndMatch, TxCommit, HydrateFail,
                  RejectSelfTrade, AuditFail, AuditOk, Finish, bookVars
    <3>2. trades'[s] = trades[s] /\ left'[s] = left[s]
      BY <3>1, <1>3, <1>a DEF TypeOK
    <3> QED
      BY <2>1, <3>1, <3>2, <1>1, <1>3
  <2> QED
    BY <1>3, <2>3, <2>4, <2>5, <2>6, <2>7 DEF CallStep
<1>4. CASE Crash
  BY <1>4, <1>a DEF Crash
<1>5. CASE BootWarm
  BY <1>5, <1>a DEF BootWarm, DownIsIdle
<1>6. CASE UNCHANGED <<pc, input, left, trades, rest>>
  BY <1>6
<1>7. CASE \E r \in Orders : Submit(r) \/ CallStep(r)
  BY <1>1, <1>2, <1>3, <1>7
<1> QED
  BY <1>4, <1>5, <1>6, <1>7
     DEF Next, EnqueueOk, EnqueueFail, IndexTrade, BootCold, Quiescent, vars, procVars, bookVars

\* An order resting in a loaded book belongs to that book.
LEMMA RestingBelongs ==
    ASSUME IInv, NEW r \in Orders, pc[r] = "match", NEW o \in Orders, rest[Book(r)][o] > 0
    PROVE  Book(o) = Book(r)
<1>1. rest[Book(r)] \in [Orders -> 0..MaxQuantity] /\ trades[r] \in [Orders -> 0..MaxQuantity]
  BY DEF IInv, TypeOK
<1>2. rest[Book(r)][o] \in Nat /\ trades[r][o] \in Nat
  BY <1>1, ConstantsAssumption
<1>3. rest[Book(r)][o] + trades[r][o] = DbOpen(Book(r), o)
  BY DEF IInv, BookInv
<1>4. DbOpen(Book(r), o) # 0
  BY <1>2, <1>3
<1> QED
  BY <1>4 DEF DbOpen

\* The trades of a call are legal from the moment they are made.
LEMMA LegalStep == IInv /\ [Next]_vars => LegalInv'
<1> SUFFICES ASSUME IInv, [Next]_vars, NEW s \in Orders, NEW o \in Orders,
                    pc'[s] \in {"match", "tx"}
             PROVE  /\ trades'[s][o] > 0 => Legal(s, o)'
                    /\ rest'[Book(s)'][o] > 0 /\ Opposite(s, o)' =>
                          input'[o].user # input'[s].user
  BY DEF LegalInv
<1>a. TypeOK /\ LegalInv /\ LocalsInv /\ Book(s) \in Books
  BY DEF IInv, TypeOK
<1>b. /\ input' = input
      /\ Legal(s, o)' = Legal(s, o) /\ Opposite(s, o)' = Opposite(s, o)
  BY MatchingFrame DEF Legal, Opposite, canMatch
<1>1. CASE StartMatch(s)
  <2>1. /\ pc[s] = "check" /\ UNCHANGED <<trades, rest>>
        /\ \A x \in Orders : rest[Book(s)][x] > 0 /\ Opposite(s, x)
                                => input[x].user # input[s].user
    BY <1>1 DEF StartMatch, HasOppositeResting, Resting, bookVars
  <2>2. trades[s][o] = 0
    BY <2>1, <1>a DEF LocalsInv
  <2> QED
    BY <2>1, <2>2, <1>b
<1>2. CASE Fill(s)
  <2>1. PICK m \in Orders :
           LET q == MinQty(left[s], rest[Book(s)][m])
           IN  /\ BestFor(s, m) /\ canMatch(s, m)
               /\ trades' = [trades EXCEPT ![s][m] = q]
               /\ rest' = [rest EXCEPT ![Book(s)][m] = @ - q]
    BY <1>2 DEF Fill, execute, updateOrderQuantity, removeOrder
  <2>2. pc[s] = "match"
    BY <1>2 DEF Fill
  <2>3. rest[Book(s)][m] > 0 /\ Opposite(s, m)
    BY <2>1 DEF BestFor, Resting
  <2>4. Legal(s, m)
    BY <2>1, <2>2, <2>3, <1>a, RestingBelongs DEF Legal, LegalInv
  <2>5. trades'[s][o] = trades[s][o] \/ o = m
    BY <2>1, <1>a DEF TypeOK
  <2>6. rest'[Book(s)][o] > 0 => rest[Book(s)][o] > 0
    <3>1. o # m => rest'[Book(s)][o] = rest[Book(s)][o]
      BY <2>1, <1>a DEF TypeOK
    <3> QED
      BY <2>3, <3>1
  <2> QED
    BY <2>2, <2>4, <2>5, <2>6, <1>a, <1>b DEF LegalInv
<1>3. CASE pc'[s] = pc[s] /\ trades'[s] = trades[s] /\ rest'[Book(s)] = rest[Book(s)]
  BY <1>3, <1>a, <1>b DEF LegalInv
<1>4. CASE EndMatch(s)
  <2>1. pc[s] = "match" /\ UNCHANGED <<trades, rest>>
    BY <1>4 DEF EndMatch, bookVars
  <2> QED
    BY <2>1, <1>a, <1>b DEF LegalInv
<1> QED
  BY <1>1, <1>2, <1>3, <1>4, MatchingFrame

LEMMA TradesLegalStep == IInv /\ [Next]_vars => TradesAreLegal'
<1> SUFFICES ASSUME IInv, [Next]_vars, NEW t \in Orders, NEW m \in Orders,
                    dbTrades'[t][m] > 0
             PROVE  Legal(t, m)'
  BY DEF TradesAreLegal
<1>a. TypeOK /\ LegalInv /\ TradesAreLegal
  BY DEF IInv
<1>1. CASE \A r \in Orders : ~ TxCommit(r)
  BY <1>1, <1>a, OnlyTxCommitWrites DEF TradesAreLegal, Legal, Opposite, canMatch
<1>2. ASSUME NEW r \in Orders, TxCommit(r) PROVE Legal(t, m)'
  <2>1. /\ pc[r] = "tx" /\ input' = input
        /\ dbTrades' = [dbTrades EXCEPT ![r] = trades[r]]
    BY <1>2 DEF TxCommit
  <2>2. dbTrades \in [Orders -> [Orders -> 0..MaxQuantity]]
    BY <1>a DEF TypeOK
  <2>3. Legal(t, m)
    <3>1. CASE t = r
      BY <2>1, <2>2, <3>1, <1>a DEF LegalInv
    <3>2. CASE t # r
      BY <2>1, <2>2, <3>2, <1>a DEF TradesAreLegal
    <3> QED
      BY <3>1, <3>2
  <2> QED
    BY <2>1, <2>3 DEF Legal, Opposite, canMatch
<1> QED
  BY <1>1, <1>2

-----------------------------------------------------------------------------
(* What the process tells others *)

\* How a step without a commit moves a call, and which jobs it hands over.
LEMMA EndFrame ==
    ASSUME IInv, [Next]_vars, \A r \in Orders : ~ TxCommit(r)
    PROVE  /\ \A s \in Orders :
                 /\ pc'[s] \in AfterCommit => pc[s] \in AfterCommit /\ trades'[s] = trades[s]
                 /\ pc'[s] = "ok" => pc[s] \in {"ok", "audit"}
                 /\ pc'[s] = "rejected" => pc[s] \in {"rejected", "check"}
           /\ \A t \in unsent' \cup jobs' :
                 t \in unsent \cup jobs \/ \E r \in Orders : pc[r] = "audit" /\ t \in TradesOf(r)
<1> USE DEF AfterCommit
<1>a. TypeOK
  BY DEF IInv
<1>1. ASSUME NEW r \in Orders,
             Submit(r) \/ Begin(r) \/ Hydrate(r) \/ StartMatch(r) \/ EndMatch(r) \/ AddRemaining(r)
      PROVE  /\ UNCHANGED <<trades, unsent, jobs>>
             /\ \E l \in {"queued", "check", "hydrate", "match", "tx", "audit"} :
                   pc' = [pc EXCEPT ![r] = l] /\ (l = "audit" => pc[r] = "committed")
  BY <1>1 DEF Submit, Begin, Hydrate, StartMatch, EndMatch, AddRemaining, Goto, redisVars
<1>2. ASSUME NEW r \in Orders,
             HydrateFail(r) \/ RejectSelfTrade(r) \/ AuditFail(r) \/ AuditOk(r)
                \/ TxAbort(r) \/ AckLost(r)
      PROVE  /\ trades' = [trades EXCEPT ![r] = NoOrders]
             /\ \E l \in EndPcs :
                   /\ pc' = [pc EXCEPT ![r] = l]
                   /\ l = "ok" => pc[r] = "audit"
                   /\ l = "rejected" => pc[r] = "check"
             /\ \/ UNCHANGED <<unsent, jobs>>
                \/ pc[r] = "audit" /\ unsent' = unsent \cup TradesOf(r) /\ jobs' = jobs
  BY <1>2 DEF HydrateFail, RejectSelfTrade, AuditFail, AuditOk, TxAbort, AckLost, Finish, Goto,
              EndPcs, redisVars
<1>3. ASSUME NEW r \in Orders, Fill(r)
      PROVE  /\ pc[r] = "match" /\ UNCHANGED <<pc, unsent, jobs>>
             /\ \A s \in Orders \ {r} : trades'[s] = trades[s]
  BY <1>3, FillBook DEF Fill, redisVars
<1>4. CASE \E r \in Orders : Submit(r) \/ Begin(r) \/ Hydrate(r) \/ StartMatch(r)
                               \/ EndMatch(r) \/ AddRemaining(r)
  <2>1. PICK r \in Orders : Submit(r) \/ Begin(r) \/ Hydrate(r) \/ StartMatch(r)
                               \/ EndMatch(r) \/ AddRemaining(r)
    BY <1>4
  <2>2. PICK l \in {"queued", "check", "hydrate", "match", "tx", "audit"} :
           pc' = [pc EXCEPT ![r] = l] /\ (l = "audit" => pc[r] = "committed")
    BY <1>1, <2>1
  <2>3. UNCHANGED <<trades, unsent, jobs>>
    BY <1>1, <2>1
  <2>4. \A s \in Orders \ {r} : pc'[s] = pc[s]
    BY <2>2, <1>a DEF TypeOK
  <2>5. pc'[r] = l
    BY <2>2, <1>a DEF TypeOK
  <2>6. \A s \in Orders : /\ pc'[s] \in AfterCommit => pc[s] \in AfterCommit
                          /\ pc'[s] = "ok" => pc[s] \in {"ok", "audit"}
                          /\ pc'[s] = "rejected" => pc[s] \in {"rejected", "check"}
    BY <2>2, <2>4, <2>5
  <2> QED
    BY <2>3, <2>6
<1>5. CASE \E r \in Orders : HydrateFail(r) \/ RejectSelfTrade(r) \/ AuditFail(r) \/ AuditOk(r)
                               \/ TxAbort(r) \/ AckLost(r)
  <2>1. PICK r \in Orders : HydrateFail(r) \/ RejectSelfTrade(r) \/ AuditFail(r) \/ AuditOk(r)
                               \/ TxAbort(r) \/ AckLost(r)
    BY <1>5
  <2>2. PICK l \in EndPcs : /\ pc' = [pc EXCEPT ![r] = l]
                            /\ l = "ok" => pc[r] = "audit"
                            /\ l = "rejected" => pc[r] = "check"
    BY <1>2, <2>1
  <2>3. /\ trades' = [trades EXCEPT ![r] = NoOrders]
        /\ \/ UNCHANGED <<unsent, jobs>>
           \/ pc[r] = "audit" /\ unsent' = unsent \cup TradesOf(r) /\ jobs' = jobs
    BY <1>2, <2>1
  <2>4. \A s \in Orders \ {r} : pc'[s] = pc[s] /\ trades'[s] = trades[s]
    BY <2>2, <2>3, <1>a DEF TypeOK
  <2>5. pc'[r] = l
    BY <2>2, <1>a DEF TypeOK
  <2> QED
    BY <2>2, <2>3, <2>4, <2>5 DEF EndPcs
<1>6. CASE \E r \in Orders : Fill(r)
  BY <1>3, <1>6
<1>7. CASE Crash
  BY <1>7, <1>a DEF Crash, TypeOK, EndPcs
<1>8. CASE \E t \in Orders \X Orders : EnqueueOk(t) \/ EnqueueFail(t)
  BY <1>8 DEF EnqueueOk, EnqueueFail, procVars
<1>9. CASE UNCHANGED <<pc, trades, unsent, jobs>>
  BY <1>9
<1> QED
  BY <1>4, <1>5, <1>6, <1>7, <1>8, <1>9
     DEF Next, CallStep, IndexTrade, BootWarm, BootCold, Quiescent, vars, procVars, redisVars

\* Jobs and answers speak of committed orders and trades only.
LEMMA ToldStep == IInv /\ ToldInv /\ ToldIsCommitted /\ [Next]_vars => ToldInv' /\ ToldIsCommitted'
<1> SUFFICES ASSUME IInv, ToldInv, ToldIsCommitted, [Next]_vars
             PROVE  ToldInv' /\ ToldIsCommitted'
  OBVIOUS
<1>a. TypeOK /\ RowsFollowCalls
  BY DEF IInv
<1>1. CASE \A r \in Orders : ~ TxCommit(r)
  <2>1. UNCHANGED <<status, dbTrades>>
    BY <1>1, OnlyTxCommitWrites
  <2>2. ToldInv'
    BY <1>1, <2>1, EndFrame DEF ToldInv, Row, AfterCommit
  <2>3. \A r, m \in Orders : pc[r] = "audit" /\ <<r, m>> \in TradesOf(r) => dbTrades[r][m] > 0
    BY DEF ToldInv, TradesOf
  <2>4. ASSUME NEW t \in unsent' \cup jobs' PROVE dbTrades[t[1]][t[2]] > 0
    <3>1. CASE t \in unsent \cup jobs
      BY <3>1 DEF ToldIsCommitted
    <3>2. ASSUME NEW r \in Orders, pc[r] = "audit", t \in TradesOf(r)
          PROVE  dbTrades[t[1]][t[2]] > 0
      <4>1. PICK m \in Orders : t = <<r, m>>
        BY <3>2 DEF TradesOf
      <4> QED
        BY <3>2, <4>1, <2>3
    <3> QED
      BY <1>1, <3>1, <3>2, EndFrame
  <2>5. ASSUME NEW r \in Orders
        PROVE  (pc'[r] = "ok" => Row(r)) /\ (pc'[r] = "rejected" => ~ Row(r))
    <3>1. /\ pc'[r] = "ok" => pc[r] \in {"ok", "audit"}
          /\ pc'[r] = "rejected" => pc[r] \in {"rejected", "check"}
      BY <1>1, EndFrame
    <3> QED
      BY <3>1, <1>a DEF ToldIsCommitted, RowsFollowCalls, Row
  <2> QED
    BY <2>1, <2>2, <2>4, <2>5 DEF ToldIsCommitted, Row
<1>2. ASSUME NEW r \in Orders, TxCommit(r) PROVE ToldInv' /\ ToldIsCommitted'
  <2>1. /\ pc[r] = "tx" /\ pc' = [pc EXCEPT ![r] = "committed"]
        /\ dbTrades' = [dbTrades EXCEPT ![r] = trades[r]]
        /\ UNCHANGED <<trades, unsent, jobs>>
    BY <1>2 DEF TxCommit, Goto, redisVars
  <2>2. ASSUME NEW s \in Orders \ {r} PROVE Row(s)' <=> Row(s)
    BY <1>2 DEF TxCommit, MakersExist, Row, StatusFor
  <2>3. Row(r)' /\ ~ Row(r)
    BY <1>2, <1>a, <2>1 DEF TxCommit, Row, StatusFor, RowsFollowCalls
  <2>4. /\ pc'[r] = "committed" /\ dbTrades'[r] = trades[r]
        /\ \A s \in Orders \ {r} : pc'[s] = pc[s] /\ dbTrades'[s] = dbTrades[s]
    BY <2>1, <1>a DEF TypeOK
  <2>5. ToldInv'
    BY <2>1, <2>2, <2>3, <2>4 DEF ToldInv
  <2>6. ASSUME NEW t \in unsent \cup jobs PROVE dbTrades'[t[1]][t[2]] > 0
    <3>1. t[1] \in Orders /\ t[2] \in Orders /\ dbTrades[t[1]][t[2]] > 0
      BY <1>a DEF TypeOK, ToldIsCommitted
    <3>2. t[1] # r
      BY <3>1, <2>3 DEF ToldInv
    <3> QED
      BY <3>1, <3>2, <2>4
  <2> QED
    BY <2>1, <2>2, <2>4, <2>5, <2>6 DEF ToldIsCommitted
<1> QED
  BY <1>1, <1>2

-----------------------------------------------------------------------------
(* Places in the book *)

\* The part of PlaceInv that speaks of one book.
PlacesOf(b) ==
    /\ \A o \in Orders : place[b][o] < stamp[b] /\ (~ loaded[b] => rest[b][o] = 0)
    /\ \A o, p \in Orders :
          rest[b][o] > 0 /\ rest[b][p] > 0 /\ o # p =>
              /\ place[b][o] # place[b][p]
              /\ input[o].price = input[p].price /\ createdAt[o] < createdAt[p] =>
                    place[b][o] < place[b][p]

\* ... and the parts that speak of the clock and of a committed call.
ClockInv == \A o \in Orders : createdAt[o] <= clock
NewestOf(r) ==
    pc[r] = "committed" => \A o \in Orders : rest[Book(r)][o] > 0 => createdAt[o] <= createdAt[r]

LEMMA PlaceParts ==
    PlaceInv <=> /\ \A b \in Books : PlacesOf(b)
                 /\ ClockInv
                 /\ \A r \in Orders : NewestOf(r)
BY DEF PlaceInv, PlacesOf, ClockInv, NewestOf

\* What rests in a book is an open row of that book.
LEMMA RestingIsOpen ==
    ASSUME IInv, PlaceInv, NEW b \in Books, NEW o \in Orders, rest[b][o] > 0
    PROVE  Book(o) = b /\ Open(o) /\ Row(o) /\ DbOpen(b, o) > 0
<1>a. TypeOK /\ BookAgreesWithDb /\ PlacesOf(b)
  BY PlaceParts DEF IInv
<1>b. rest[b] \in [Orders -> 0..MaxQuantity] /\ rest[b][o] \in Nat
  BY <1>a, ConstantsAssumption DEF TypeOK
<1>1. loaded[b]
  BY <1>a DEF PlacesOf
<1>2. CASE ~ Busy(b)
  BY <1>1, <1>2, <1>a DEF BookAgreesWithDb, DbOpen, Open, Row
<1>3. CASE Busy(b)
  <2>1. PICK s \in Orders : Book(s) = b /\ pc[s] \in {"match", "tx", "committed"}
    BY <1>3 DEF Busy
  <2>2. BookInvOf(s)
    BY BookParts DEF IInv
  <2>3. CASE pc[s] \in {"match", "tx"}
    <3>1. rest[b][o] + trades[s][o] = DbOpen(b, o)
      BY <2>1, <2>2, <2>3 DEF BookInvOf
    <3>2. trades[s] \in [Orders -> 0..MaxQuantity] /\ trades[s][o] \in Nat
      BY <1>a, ConstantsAssumption DEF TypeOK
    <3> QED
      BY <3>1, <3>2, <1>b DEF DbOpen, Open, Row
  <2>4. CASE pc[s] = "committed"
    <3>1. rest[b][o] = DbOpen(b, o)
      BY <2>1, <2>2, <2>4 DEF BookInvOf
    <3> QED
      BY <3>1 DEF DbOpen, Open, Row
  <2> QED
    BY <2>1, <2>3, <2>4
<1> QED
  BY <1>2, <1>3

\* hydrateBook gives every open row a place of its own, older rows of one
\* price first.
LEMMA LoadPlaces ==
    ASSUME TypeOK, NEW b \in Books, loaded'[b], rest'[b] = HydratedRest(b),
           place'[b] \in HydratedPlaces(b), stamp'[b] = 1 + Cardinality(Orders),
           UNCHANGED <<input, createdAt>>
    PROVE  PlacesOf(b)'
<1> DEFINE S == {o \in Orders : Book(o) = b /\ Hydrated(o)}
<1>1. /\ place'[b] \in [Orders -> 0..Cardinality(Orders)]
      /\ \A o, p \in S : o # p => place'[b][o] # place'[b][p]
      /\ \A o, p \in S : FetchedBefore(o, p) => place'[b][o] < place'[b][p]
  BY DEF HydratedPlaces
<1>2. ASSUME NEW o \in Orders, rest'[b][o] > 0 PROVE o \in S
  BY <1>2 DEF HydratedRest
<1>3. ASSUME NEW o \in Orders PROVE place'[b][o] < stamp'[b]
  BY <1>1, CardinalityType
<1> QED
  BY <1>1, <1>2, <1>3 DEF PlacesOf, FetchedBefore

\* A book that only loses quantity keeps its places.
LEMMA FillPlaces ==
    ASSUME IInv, PlaceInv, NEW r \in Orders, Fill(r)
    PROVE  PlaceInv'
<1>a. /\ TypeOK /\ Book(r) \in Books /\ \A s \in Orders : Book(s) \in Books
      /\ UNCHANGED <<pc, input, createdAt, clock, loaded, stamp>>
  BY DEF IInv, TypeOK, Fill, dbVars
<1>1. PICK m \in Orders :
         LET q == MinQty(left[r], rest[Book(r)][m])
         IN  /\ BestFor(r, m)
             /\ rest' = [rest EXCEPT ![Book(r)][m] = @ - q]
             /\ place' = [place EXCEPT ![Book(r)][m] = IF q = rest[Book(r)][m] THEN 0 ELSE @]
  BY DEF Fill, execute, updateOrderQuantity, removeOrder
<1> DEFINE q == MinQty(left[r], rest[Book(r)][m])
<1>2. /\ rest[Book(r)] \in [Orders -> 0..MaxQuantity] /\ place[Book(r)] \in [Orders -> Nat]
      /\ left[r] \in 0..MaxQuantity /\ stamp[Book(r)] \in Nat \ {0}
  BY <1>a DEF TypeOK
<1>3. rest[Book(r)][m] \in Nat /\ left[r] \in Nat /\ rest[Book(r)][m] > 0
  BY <1>1, <1>2, ConstantsAssumption DEF BestFor, Resting
<1>4. q \in Nat /\ q <= rest[Book(r)][m]
  BY <1>3 DEF MinQty
<1> HIDE DEF q
<1>5. /\ rest' = [rest EXCEPT ![Book(r)][m] = @ - q]
      /\ place' = [place EXCEPT ![Book(r)][m] = IF q = rest[Book(r)][m] THEN 0 ELSE @]
  BY <1>1 DEF q
<1>6. \A b \in Books \ {Book(r)} : rest'[b] = rest[b] /\ place'[b] = place[b]
  BY <1>5, <1>a DEF TypeOK
<1>7. /\ rest'[Book(r)] = [rest[Book(r)] EXCEPT ![m] = @ - q]
      /\ place'[Book(r)] = [place[Book(r)] EXCEPT ![m] = IF q = rest[Book(r)][m] THEN 0 ELSE @]
  BY <1>5, <1>a DEF TypeOK
<1>8. ASSUME NEW o \in Orders
      PROVE  /\ rest'[Book(r)][o] > 0 => rest[Book(r)][o] > 0 /\ place'[Book(r)][o] = place[Book(r)][o]
             /\ place'[Book(r)][o] < stamp[Book(r)]
             /\ rest[Book(r)][o] = 0 => rest'[Book(r)][o] = 0
  <2>1. place[Book(r)][o] < stamp[Book(r)]
    BY <1>a DEF PlaceInv
  <2>2. CASE o = m
    BY <2>1, <2>2, <1>2, <1>3, <1>4, <1>7
  <2>3. CASE o # m
    BY <2>1, <2>3, <1>2, <1>7
  <2> QED
    BY <2>2, <2>3
<1>9. ASSUME NEW b \in Books PROVE PlacesOf(b)'
  <2>0. PlacesOf(b)
    BY PlaceParts
  <2>1. CASE b = Book(r)
    BY <2>0, <2>1, <1>8, <1>a DEF PlacesOf
  <2>2. CASE b # Book(r)
    BY <2>0, <2>2, <1>6, <1>a DEF PlacesOf
  <2> QED
    BY <2>1, <2>2
<1>10. ASSUME NEW s \in Orders PROVE NewestOf(s)'
  <2>0. NewestOf(s) /\ Book(s)' = Book(s)
    BY PlaceParts, <1>a
  <2>1. ASSUME NEW o \in Orders, rest'[Book(s)][o] > 0 PROVE rest[Book(s)][o] > 0
    BY <2>1, <1>6, <1>8, <1>a
  <2> QED
    BY <2>0, <2>1, <1>a DEF NewestOf
<1>11. ClockInv'
  BY PlaceParts, <1>a DEF ClockInv
<1> QED
  BY <1>9, <1>10, <1>11 DEF PlaceInv, PlacesOf, ClockInv, NewestOf

\* A step of call r that leaves the rows and the other books alone, after which
\* no call on its book is committed.
LEMMA PlacesOfOthers ==
    ASSUME IInv, PlaceInv, NEW r \in Orders, UNCHANGED <<input, createdAt, clock>>,
           PlacesOf(Book(r))',
           \A b \in Books \ {Book(r)} : /\ rest'[b] = rest[b] /\ place'[b] = place[b]
                                        /\ stamp'[b] = stamp[b] /\ loaded'[b] = loaded[b],
           \A s \in Orders : pc'[s] = "committed" => pc[s] = "committed" /\ Book(s) # Book(r)
    PROVE  PlaceInv'
<1>1. ASSUME NEW b \in Books PROVE PlacesOf(b)'
  <2>1. PlacesOf(b)
    BY PlaceParts
  <2>2. CASE b = Book(r)
    BY <2>2 DEF PlacesOf
  <2>3. CASE b # Book(r)
    BY <2>1, <2>3 DEF PlacesOf
  <2> QED
    BY <2>2, <2>3
<1>2. ASSUME NEW s \in Orders PROVE NewestOf(s)'
  <2>1. NewestOf(s) /\ Book(s) \in Books
    BY PlaceParts DEF IInv, TypeOK
  <2> QED
    BY <2>1 DEF NewestOf
<1>3. ClockInv'
  BY PlaceParts DEF ClockInv
<1> QED
  BY <1>1, <1>2, <1>3 DEF PlaceInv, PlacesOf, ClockInv, NewestOf

\* addOrder puts the remainder behind everything that rests, and nothing that
\* rests is newer.
LEMMA AddRemainingPlaces ==
    ASSUME IInv, PlaceInv, NEW r \in Orders, AddRemaining(r)
    PROVE  PlaceInv'
<1>a. /\ TypeOK /\ HeadHolds /\ Book(r) \in Books
      /\ UNCHANGED <<input, createdAt, clock, loaded>>
      /\ pc[r] = "committed" /\ pc' = [pc EXCEPT ![r] = "audit"]
  BY DEF IInv, TypeOK, AddRemaining, dbVars, Goto
<1>b. PlacesOf(Book(r)) /\ NewestOf(r)
  BY <1>a, PlaceParts
<1>1. /\ rest[Book(r)] \in [Orders -> 0..MaxQuantity] /\ place[Book(r)] \in [Orders -> Nat]
      /\ stamp[Book(r)] \in Nat /\ left[r] \in 0..MaxQuantity
  BY <1>a DEF TypeOK
<1>2. \A s \in Orders : pc'[s] = "committed" => pc[s] = "committed" /\ Book(s) # Book(r)
  BY <1>a DEF HeadHolds, TypeOK
<1>3. CASE left[r] > 0
  <2>1. /\ rest' = [rest EXCEPT ![Book(r)][r] = left[r]]
        /\ place' = [place EXCEPT ![Book(r)][r] = stamp[Book(r)]]
        /\ stamp' = [stamp EXCEPT ![Book(r)] = @ + 1]
    BY <1>3 DEF AddRemaining
  <2>2. /\ rest'[Book(r)] = [rest[Book(r)] EXCEPT ![r] = left[r]]
        /\ place'[Book(r)] = [place[Book(r)] EXCEPT ![r] = stamp[Book(r)]]
        /\ stamp'[Book(r)] = stamp[Book(r)] + 1
        /\ \A b \in Books \ {Book(r)} :
              rest'[b] = rest[b] /\ place'[b] = place[b] /\ stamp'[b] = stamp[b]
    BY <2>1, <1>a DEF TypeOK
  <2>3. loaded[Book(r)]
    BY <1>a DEF IInv, LocalsInv
  <2>4. ASSUME NEW o \in Orders PROVE place'[Book(r)][o] < stamp'[Book(r)]
    BY <2>2, <1>1, <1>b DEF PlacesOf
  <2>5. ASSUME NEW o \in Orders, NEW p \in Orders, o # p,
               rest'[Book(r)][o] > 0, rest'[Book(r)][p] > 0
        PROVE  /\ place'[Book(r)][o] # place'[Book(r)][p]
               /\ input[o].price = input[p].price /\ createdAt[o] < createdAt[p] =>
                     place'[Book(r)][o] < place'[Book(r)][p]
    <3>0. createdAt[o] \in Nat /\ createdAt[p] \in Nat
      BY <1>a DEF TypeOK
    <3>1. CASE o = r
      <4>1. rest[Book(r)][p] > 0 /\ place'[Book(r)][p] = place[Book(r)][p]
            /\ place'[Book(r)][o] = stamp[Book(r)]
        BY <3>1, <2>2, <2>5, <1>1
      <4>2. place[Book(r)][p] < stamp[Book(r)] /\ createdAt[p] <= createdAt[r]
        BY <4>1, <1>a, <1>b DEF PlacesOf, NewestOf
      <4> QED
        BY <4>1, <4>2, <3>0, <3>1, <1>1
    <3>2. CASE p = r
      <4>1. rest[Book(r)][o] > 0 /\ place'[Book(r)][o] = place[Book(r)][o]
            /\ place'[Book(r)][p] = stamp[Book(r)]
        BY <3>2, <2>2, <2>5, <1>1
      <4>2. place[Book(r)][o] < stamp[Book(r)]
        BY <1>b DEF PlacesOf
      <4> QED
        BY <4>1, <4>2, <1>1
    <3>3. CASE o # r /\ p # r
      <4>1. /\ rest[Book(r)][o] > 0 /\ rest[Book(r)][p] > 0
            /\ place'[Book(r)][o] = place[Book(r)][o] /\ place'[Book(r)][p] = place[Book(r)][p]
        BY <3>3, <2>2, <2>5, <1>1
      <4> QED
        BY <4>1, <2>5, <1>b DEF PlacesOf
    <3> QED
      BY <3>1, <3>2, <3>3
  <2>6. PlacesOf(Book(r))'
    BY <2>3, <2>4, <2>5, <1>a DEF PlacesOf
  <2> QED
    BY <2>2, <2>6, <1>2, <1>a, PlacesOfOthers
<1>4. CASE ~ (left[r] > 0)
  <2>1. UNCHANGED <<rest, place, stamp>>
    BY <1>4 DEF AddRemaining
  <2>2. PlacesOf(Book(r))'
    BY <2>1, <1>a, <1>b DEF PlacesOf
  <2> QED
    BY <2>1, <2>2, <1>2, <1>a, PlacesOfOthers
<1> QED
  BY <1>3, <1>4

\* The insert takes the latest time there is, and its order does not rest yet.
LEMMA TxCommitPlaces ==
    ASSUME IInv, PlaceInv, NEW r \in Orders, TxCommit(r)
    PROVE  PlaceInv'
<1>a. /\ TypeOK /\ RowsFollowCalls /\ \A s \in Orders : Book(s) \in Books
      /\ UNCHANGED <<input, rest, place, stamp, loaded>>
      /\ pc[r] = "tx" /\ pc' = [pc EXCEPT ![r] = "committed"]
      /\ clock' \in {clock, clock + 1} /\ createdAt' = [createdAt EXCEPT ![r] = clock']
  BY DEF IInv, TypeOK, TxCommit, bookVars, Goto
<1>b. createdAt \in [Orders -> Nat] /\ clock \in Nat
  BY <1>a DEF TypeOK
<1>c. createdAt'[r] = clock' /\ \A o \in Orders \ {r} : createdAt'[o] = createdAt[o]
  BY <1>a, <1>b
<1>1. ASSUME NEW b \in Books, NEW o \in Orders, rest[b][o] > 0 PROVE o # r
  BY <1>1, <1>a, RestingIsOpen DEF RowsFollowCalls
<1>2. ASSUME NEW o \in Orders PROVE createdAt[o] <= clock' /\ createdAt'[o] <= clock'
  <2>1. createdAt[o] <= clock /\ createdAt[o] \in Nat
    BY PlaceParts, <1>b DEF ClockInv
  <2>2. createdAt[o] <= clock' /\ clock' \in Nat
    BY <2>1, <1>a, <1>b
  <2> QED
    BY <2>2, <1>c
<1>3. ASSUME NEW b \in Books PROVE PlacesOf(b)'
  <2>1. PlacesOf(b)
    BY PlaceParts
  <2>2. ASSUME NEW o \in Orders, rest[b][o] > 0 PROVE createdAt'[o] = createdAt[o]
    BY <2>2, <1>1, <1>c
  <2> QED
    BY <2>1, <2>2, <1>a DEF PlacesOf
<1>4. ASSUME NEW s \in Orders PROVE NewestOf(s)'
  <2>1. NewestOf(s) /\ Book(s) \in Books
    BY PlaceParts, <1>a
  <2>2. CASE s = r
    BY <2>2, <1>2, <1>a, <1>c DEF NewestOf
  <2>3. CASE s # r
    <3>1. pc'[s] = pc[s]
      BY <2>3, <1>a DEF TypeOK
    <3>2. ASSUME NEW o \in Orders, rest[Book(s)][o] > 0 PROVE createdAt'[o] = createdAt[o]
      BY <3>2, <2>1, <1>1, <1>c
    <3> QED
      BY <3>1, <3>2, <2>1, <2>3, <1>a, <1>c DEF NewestOf
  <2> QED
    BY <2>2, <2>3
<1>5. ClockInv'
  BY <1>2 DEF ClockInv
<1> QED
  BY <1>3, <1>4, <1>5 DEF PlaceInv, PlacesOf, ClockInv, NewestOf

LEMMA PlaceStep == IInv /\ PlaceInv /\ [Next]_vars => PlaceInv'
<1> SUFFICES ASSUME IInv, PlaceInv, [Next]_vars PROVE PlaceInv'
  OBVIOUS
<1>a. /\ TypeOK /\ HeadHolds /\ DownIsIdle /\ \A s \in Orders : Book(s) \in Books
  BY DEF IInv, TypeOK
<1>1. ASSUME UNCHANGED <<input, createdAt, clock, bookVars>>,
             \A s \in Orders : pc'[s] = "committed" => pc[s] = "committed"
      PROVE  PlaceInv'
  BY <1>1 DEF PlaceInv, bookVars
<1>2. ASSUME NEW r \in Orders,
             Submit(r) \/ Begin(r) \/ StartMatch(r) \/ EndMatch(r)
                \/ HydrateFail(r) \/ RejectSelfTrade(r) \/ AuditFail(r) \/ AuditOk(r)
      PROVE  PlaceInv'
  <2>1. UNCHANGED <<input, createdAt, clock, bookVars>>
    BY <1>2 DEF Submit, Begin, StartMatch, EndMatch, HydrateFail, RejectSelfTrade, AuditFail,
                AuditOk, dbVars
  <2>2. \E l \in {"queued", "check", "hydrate", "match", "tx"} \cup EndPcs :
           pc' = [pc EXCEPT ![r] = l]
    BY <1>2 DEF Submit, Begin, StartMatch, EndMatch, HydrateFail, RejectSelfTrade, AuditFail,
                AuditOk, Finish, Goto, EndPcs
  <2>3. \A s \in Orders : pc'[s] = "committed" => pc[s] = "committed"
    BY <2>2, <1>a DEF TypeOK, EndPcs
  <2> QED
    BY <2>1, <2>3, <1>1
<1>3. ASSUME NEW r \in Orders, Hydrate(r) PROVE PlaceInv'
  <2>1. /\ pc[r] = "hydrate" /\ pc' = [pc EXCEPT ![r] = "check"]
        /\ UNCHANGED <<input, createdAt, clock>>
        /\ loaded' = [loaded EXCEPT ![Book(r)] = TRUE]
        /\ rest' = [rest EXCEPT ![Book(r)] = HydratedRest(Book(r))]
        /\ \E f \in HydratedPlaces(Book(r)) : place' = [place EXCEPT ![Book(r)] = f]
        /\ stamp' = [stamp EXCEPT ![Book(r)] = 1 + Cardinality(Orders)]
    BY <1>3 DEF Hydrate, Load, Goto, dbVars
  <2>2. /\ loaded'[Book(r)] /\ rest'[Book(r)] = HydratedRest(Book(r))
        /\ place'[Book(r)] \in HydratedPlaces(Book(r))
        /\ stamp'[Book(r)] = 1 + Cardinality(Orders)
        /\ \A b \in Books \ {Book(r)} : /\ rest'[b] = rest[b] /\ place'[b] = place[b]
                                         /\ stamp'[b] = stamp[b] /\ loaded'[b] = loaded[b]
    BY <2>1, <1>a DEF TypeOK
  <2>3. PlacesOf(Book(r))'
    <3> DEFINE b == Book(r)
    <3>1. PlacesOf(b)'
      BY <2>1, <2>2, <1>a, LoadPlaces
    <3> QED
      BY <3>1, <2>1 DEF PlacesOf, Book
  <2>4. \A s \in Orders : pc'[s] = "committed" => pc[s] = "committed" /\ Book(s) # Book(r)
    <3>1. \A s \in Orders : pc'[s] = "committed" => pc[s] = "committed" /\ s # r
      BY <2>1, <1>a DEF TypeOK
    <3> QED
      BY <2>1, <3>1, <1>a DEF HeadHolds
  <2> QED
    BY <2>1, <2>2, <2>3, <2>4, PlacesOfOthers
<1>4. ASSUME NEW r \in Orders, TxAbort(r) \/ AckLost(r) PROVE PlaceInv'
  <2>1. /\ pc[r] \in {"tx", "committed"} /\ pc' = [pc EXCEPT ![r] = "failed"]
        /\ UNCHANGED <<input, createdAt, clock>> /\ Invalidate(Book(r))
    BY <1>4 DEF TxAbort, AckLost, Finish, Goto, dbVars
  <2>2. /\ rest'[Book(r)] = NoOrders /\ place'[Book(r)] = NoOrders /\ stamp'[Book(r)] = 1
        /\ \A b \in Books \ {Book(r)} : /\ rest'[b] = rest[b] /\ place'[b] = place[b]
                                         /\ stamp'[b] = stamp[b] /\ loaded'[b] = loaded[b]
    BY <2>1, <1>a DEF TypeOK, Invalidate
  <2>3. PlacesOf(Book(r))'
    BY <2>1, <2>2 DEF PlacesOf, NoOrders
  <2>4. \A s \in Orders : pc'[s] = "committed" => pc[s] = "committed" /\ Book(s) # Book(r)
    BY <2>1, <1>a DEF HeadHolds, TypeOK
  <2> QED
    BY <2>1, <2>2, <2>3, <2>4, PlacesOfOthers
<1>5. CASE Crash
  <2>1. /\ UNCHANGED <<input, createdAt, clock>>
        /\ \A s \in Orders : pc'[s] # "committed"
        /\ \A b \in Books : rest'[b] = NoOrders /\ place'[b] = NoOrders /\ stamp'[b] = 1
    BY <1>5 DEF Crash, dbVars, EndPcs
  <2>2. ClockInv'
    BY <2>1, PlaceParts DEF ClockInv
  <2> QED
    BY <2>1, <2>2 DEF PlaceInv, ClockInv, NoOrders
<1>6. CASE BootWarm
  <2>1. /\ UNCHANGED <<input, createdAt, clock, pc>>
        /\ \A s \in Orders : pc'[s] # "committed"
        /\ \A b \in Books : /\ rest'[b] = HydratedRest(b) /\ place'[b] \in HydratedPlaces(b)
                             /\ stamp'[b] = 1 + Cardinality(Orders) /\ loaded'[b]
    BY <1>6, <1>a DEF BootWarm, dbVars, DownIsIdle, EndPcs
  <2>2. ASSUME NEW b \in Books PROVE PlacesOf(b)'
    BY <2>1, <1>a, LoadPlaces
  <2>3. ClockInv'
    BY <2>1, PlaceParts DEF ClockInv
  <2> QED
    BY <2>1, <2>2, <2>3 DEF PlaceInv, PlacesOf, ClockInv
<1>7. CASE UNCHANGED <<pc, input, createdAt, clock, bookVars>>
  BY <1>7, <1>1
<1> QED
  BY <1>2, <1>3, <1>4, <1>5, <1>6, <1>7, FillPlaces, TxCommitPlaces, AddRemainingPlaces
     DEF Next, CallStep, EnqueueOk, EnqueueFail, IndexTrade, BootCold, Quiescent, vars, procVars, dbVars

-----------------------------------------------------------------------------
(* Price-time priority *)

\* The best maker exists whenever anything rests on the opposite side.
LEMMA BestExists ==
    ASSUME TypeOK, NEW r \in Orders, PlacesOf(Book(r)),
           NEW o \in Orders, rest[Book(r)][o] > 0, Opposite(r, o)
    PROVE  \E m \in Orders : BestFor(r, m)
<1> DEFINE b == Book(r)
           C == {p \in Resting(b) : Opposite(r, p)}
           Before(p, q) == \/ BetterPrice(r, p, q)
                           \/ ~ BetterPrice(r, q, p) /\ place[b][p] < place[b][q]
           Ahead(p) == {q \in C : Before(q, p)}
           T == {Cardinality(Ahead(p)) : p \in C}
<1>a. place[b] \in [Orders -> Nat] /\ \A p \in Orders : input[p].price \in Nat
  <2>1. b \in Books
    BY DEF TypeOK
  <2> QED
    BY <2>1, ConstantsAssumption DEF TypeOK
<1>b. C \subseteq Orders /\ o \in C
  BY DEF Resting
<1>1. IsFiniteSet(C)
  BY <1>b, ConstantsAssumption, FS_Subset
<1>2. ASSUME NEW p \in C PROVE IsFiniteSet(Ahead(p)) /\ Cardinality(Ahead(p)) \in Nat
  <2>1. Ahead(p) \subseteq C
    OBVIOUS
  <2> QED
    BY <2>1, <1>1, FS_Subset, FS_CardinalityType
<1>3. T \subseteq Nat /\ T # {}
  BY <1>2, <1>b
<1>4. PICK x \in T : \A y \in T : x <= y
  BY <1>3, Least
<1>5. PICK m \in C : x = Cardinality(Ahead(m))
  BY <1>4
<1>6. ASSUME NEW p \in C, Before(p, m) PROVE FALSE
  <2>0. /\ place[b][p] \in Nat /\ place[b][m] \in Nat
        /\ input[p].price \in Nat /\ input[m].price \in Nat
    BY <1>a, <1>b
  <2>1. ASSUME NEW q \in C, Before(q, p) PROVE Before(q, m)
    <3>1. place[b][q] \in Nat /\ input[q].price \in Nat
      BY <1>a, <1>b
    <3> QED
      BY <2>0, <2>1, <3>1, <1>6 DEF BetterPrice
  <2>2. ~ Before(p, p)
    BY <2>0 DEF BetterPrice
  <2>3. p \in Ahead(m) /\ p \notin Ahead(p) /\ Ahead(p) \subseteq Ahead(m)
    BY <2>1, <2>2, <1>6
  <2>4. Cardinality(Ahead(p)) < Cardinality(Ahead(m))
    <3>1. IsFiniteSet(Ahead(m)) /\ Ahead(p) # Ahead(m)
      BY <2>3, <1>2
    <3> HIDE DEF Ahead
    <3>2. Cardinality(Ahead(p)) <= Cardinality(Ahead(m))
      BY <3>1, <2>3, FS_Subset
    <3>3. Cardinality(Ahead(p)) # Cardinality(Ahead(m))
      BY <3>1, <2>3, FS_Subset
    <3> QED
      BY <3>2, <3>3, <1>2
  <2>5. Cardinality(Ahead(m)) <= Cardinality(Ahead(p))
    BY <1>4, <1>5
  <2>6. Cardinality(Ahead(p)) \in Nat /\ Cardinality(Ahead(m)) \in Nat
    BY <1>2
  <2> HIDE DEF Ahead
  <2> QED
    BY <2>4, <2>5, <2>6
<1>7. ASSUME NEW p \in C \ {m}
      PROVE  BetterPrice(r, m, p) \/ (~ BetterPrice(r, p, m) /\ place[b][m] < place[b][p])
  <2>1. /\ place[b][p] \in Nat /\ place[b][m] \in Nat
        /\ input[p].price \in Nat /\ input[m].price \in Nat
    BY <1>a, <1>b
  <2>2. place[b][p] # place[b][m]
    BY <1>b DEF PlacesOf, Resting
  <2>3. ~ Before(p, m)
    BY <1>6
  <2> QED
    BY <2>1, <2>2, <2>3 DEF BetterPrice
<1>8. BestFor(r, m)
  BY <1>7 DEF BestFor
<1> QED
  BY <1>8, <1>b

\* The timestamp of a row never changes.
LEMMA RowsKeepTheirTime ==
    ASSUME IInv, [Next]_vars, NEW o \in Orders, Row(o)
    PROVE  createdAt'[o] = createdAt[o]
<1>1. CASE \A r \in Orders : ~ TxCommit(r)
  BY <1>1, OnlyTxCommitWrites
<1>2. ASSUME NEW r \in Orders, TxCommit(r) PROVE createdAt'[o] = createdAt[o]
  <2>1. r # o /\ createdAt' = [createdAt EXCEPT ![r] = clock']
    BY <1>2 DEF IInv, RowsFollowCalls, TxCommit
  <2> QED
    BY <2>1 DEF IInv, TypeOK
<1> QED
  BY <1>1, <1>2

LEMMA PriorityStep == IInv /\ PlaceInv /\ PriorityInv /\ [Next]_vars => PriorityInv'
<1> SUFFICES ASSUME IInv, PlaceInv, PriorityInv, [Next]_vars, NEW s \in Orders, NEW o \in Orders,
                    pc'[s] \in {"match", "tx"}, rest'[Book(s)'][o] > 0, Opposite(s, o)'
             PROVE  /\ \A m \in Orders : trades'[s][m] > 0 /\ o # m => NotAhead(s, o, m)'
                    /\ pc'[s] = "tx" /\ left'[s] > 0 => ~ canMatch(s, o)'
  BY DEF PriorityInv
<1>a. TypeOK /\ LocalsInv /\ BookInv /\ Book(s) \in Books /\ PlacesOf(Book(s))
  BY PlaceParts DEF IInv, TypeOK
<1>b. /\ input' = input /\ rest'[Book(s)][o] > 0 /\ Opposite(s, o)
      /\ canMatch(s, o)' = canMatch(s, o)
  BY MatchingFrame DEF Opposite, canMatch
<1>c. /\ rest[Book(s)] \in [Orders -> 0..MaxQuantity] /\ trades[s] \in [Orders -> 0..MaxQuantity]
      /\ place[Book(s)] \in [Orders -> Nat] /\ createdAt \in [Orders -> Nat]
      /\ \A m \in Orders : input[m].price \in Prices
  BY <1>a DEF TypeOK
<1>d. \A m \in Orders : /\ rest[Book(s)][m] \in Nat /\ trades[s][m] \in Nat
                        /\ input[m].price \in Nat /\ createdAt[m] \in Nat
                        /\ place[Book(s)][m] \in Nat
  <2> TAKE m \in Orders
  <2>1. rest[Book(s)][m] \in 0..MaxQuantity /\ trades[s][m] \in 0..MaxQuantity
    BY <1>c
  <2>2. input[m].price \in Nat /\ createdAt[m] \in Nat /\ place[Book(s)][m] \in Nat
    BY <1>c, ConstantsAssumption
  <2> QED
    BY <2>1, <2>2, ConstantsAssumption
<1>1. ASSUME NEW m \in Orders, Row(o), Row(m), NotAhead(s, o, m) PROVE NotAhead(s, o, m)'
  BY <1>1, <1>b, RowsKeepTheirTime DEF NotAhead, BetterPrice
<1>2. ASSUME NEW m \in Orders, pc[s] \in {"match", "tx"}, trades[s][m] > 0 PROVE Row(m)
  <2>1. rest[Book(s)][m] + trades[s][m] = DbOpen(Book(s), m)
    BY <1>2, <1>a DEF BookInv
  <2>2. DbOpen(Book(s), m) # 0
    BY <2>1, <1>2, <1>d
  <2> QED
    BY <2>2 DEF DbOpen, Open, Row
<1>3. ASSUME rest[Book(s)][o] > 0 PROVE Row(o)
  BY <1>3, <1>a, RestingIsOpen
<1>4. CASE StartMatch(s)
  <2>1. pc[s] = "check" /\ trades' = trades /\ pc' = [pc EXCEPT ![s] = "match"]
    BY <1>4 DEF StartMatch, Goto
  <2>2. pc'[s] = "match" /\ \A m \in Orders : trades[s][m] = 0
    BY <2>1, <1>a DEF LocalsInv, TypeOK
  <2> QED
    BY <2>1, <2>2
<1>5. CASE Fill(s)
  <2>1. PICK x \in Orders :
           LET q == MinQty(left[s], rest[Book(s)][x])
           IN  /\ BestFor(s, x)
               /\ trades' = [trades EXCEPT ![s][x] = q]
               /\ rest' = [rest EXCEPT ![Book(s)][x] = @ - q]
    BY <1>5 DEF Fill, execute, updateOrderQuantity, removeOrder
  <2>2. pc[s] = "match" /\ pc'[s] = "match"
    BY <1>5 DEF Fill
  <2>3. /\ rest[Book(s)][x] > 0
        /\ o # x => rest'[Book(s)][o] = rest[Book(s)][o]
        /\ \A m \in Orders \ {x} : trades'[s][m] = trades[s][m]
    BY <2>1, <1>a DEF BestFor, Resting, TypeOK
  <2>4. rest[Book(s)][o] > 0
    BY <2>3, <1>b
  <2>5. ASSUME NEW m \in Orders, trades'[s][m] > 0, o # m
        PROVE  Row(m) /\ NotAhead(s, o, m)
    <3>1. CASE m = x
      <4>1. \/ BetterPrice(s, x, o)
            \/ ~ BetterPrice(s, o, x) /\ place[Book(s)][x] < place[Book(s)][o]
        BY <2>1, <2>4, <2>5, <3>1, <1>b DEF BestFor, Resting
      <4>2. ~ BetterPrice(s, o, x)
        BY <4>1, <1>d DEF BetterPrice
      <4>3. input[o].price = input[x].price => ~ (createdAt[o] < createdAt[x])
        <5>1. input[o].price = input[x].price => place[Book(s)][x] < place[Book(s)][o]
          BY <4>1, <1>d DEF BetterPrice
        <5> QED
          BY <5>1, <2>3, <2>4, <2>5, <3>1, <1>a, <1>d DEF PlacesOf
      <4>4. Row(x)
        BY <2>3, <1>a, RestingIsOpen
      <4> QED
        BY <4>2, <4>3, <4>4, <3>1, <1>d DEF NotAhead
    <3>2. CASE m # x
      <4>1. trades[s][m] > 0
        BY <3>2, <2>3, <2>5
      <4> QED
        BY <4>1, <2>2, <2>4, <2>5, <1>2, <1>b DEF PriorityInv
    <3> QED
      BY <3>1, <3>2
  <2> QED
    BY <2>2, <2>4, <2>5, <1>1, <1>3
<1>6. CASE EndMatch(s)
  <2>1. /\ pc[s] = "match" /\ UNCHANGED <<trades, rest, left>>
        /\ left[s] = 0 \/ \A m \in Orders : BestFor(s, m) => ~ canMatch(s, m)
    BY <1>6 DEF EndMatch, bookVars
  <2>2. ASSUME left[s] > 0 PROVE ~ canMatch(s, o)
    <3>1. PICK m \in Orders : BestFor(s, m)
      BY <2>1, <1>a, <1>b, BestExists
    <3>2. left[s] # 0
      BY <2>2
    <3>3. ~ canMatch(s, m)
      BY <2>1, <3>1, <3>2
    <3>4. o = m \/ BetterPrice(s, m, o) \/ ~ BetterPrice(s, o, m)
      BY <3>1, <2>1, <1>b DEF BestFor, Resting
    <3> QED
      BY <3>3, <3>4, <1>d DEF canMatch, BetterPrice
  <2> QED
    BY <2>1, <2>2, <1>1, <1>2, <1>3, <1>b DEF PriorityInv
<1>7. CASE /\ pc'[s] = pc[s] /\ left'[s] = left[s] /\ trades'[s] = trades[s]
           /\ rest'[Book(s)] = rest[Book(s)]
  BY <1>7, <1>1, <1>2, <1>3, <1>b DEF PriorityInv
<1> QED
  BY <1>4, <1>5, <1>6, <1>7, MatchingFrame

\* A row that is open after a commit was open before it and rests in the book,
\* or is the taker with its remainder.
LEMMA OpenAfterCommit ==
    ASSUME IInv, NEW r \in Orders, TxCommit(r),
           NEW o \in Orders, Hydrated(o)', Book(o) = Book(r)
    PROVE  IF o = r THEN left[r] > 0 ELSE Hydrated(o) /\ rest[Book(r)][o] > 0
<1>a. /\ TypeOK /\ BookInv /\ input' = input /\ pc[r] = "tx"
      /\ Book(r) \in Books
  BY DEF IInv, TypeOK, TxCommit
<1>1. DbOpen(Book(r), o)' > 0
  BY <1>a DEF DbOpen, Hydrated
<1>2. CASE o = r
  BY <1>1, <1>2, CommitOpen
<1>3. CASE o # r
  <2>1. rest[Book(r)] \in [Orders -> 0..MaxQuantity] /\ trades[r] \in [Orders -> 0..MaxQuantity]
    BY <1>a DEF TypeOK
  <2>2. rest[Book(r)][o] \in Nat /\ trades[r][o] \in Nat
    BY <2>1, ConstantsAssumption
  <2>3. rest[Book(r)][o] + trades[r][o] = DbOpen(Book(r), o)
    BY <1>a DEF BookInv
  <2>4. DbOpen(Book(r), o)' = DbOpen(Book(r), o) - trades[r][o]
    BY <1>3, CommitOpen
  <2>5. rest[Book(r)][o] > 0 /\ DbOpen(Book(r), o) > 0
    BY <2>2, <2>3, <2>4, <1>1
  <2>6. Hydrated(o)
    BY <2>5 DEF DbOpen, Hydrated
  <2> QED
    BY <2>5, <2>6, <1>3
<1> QED
  BY <1>2, <1>3

LEMMA UncrossedStep ==
    IInv /\ PlaceInv /\ PriorityInv /\ NoCrossedOrders /\ [Next]_vars => NoCrossedOrders'
<1> SUFFICES ASSUME IInv, PlaceInv, PriorityInv, NoCrossedOrders, [Next]_vars
             PROVE  NoCrossedOrders'
  OBVIOUS
<1>1. CASE \A r \in Orders : ~ TxCommit(r)
  BY <1>1, OnlyTxCommitWrites DEF NoCrossedOrders, Hydrated, Open, DbRemaining
<1>2. ASSUME NEW r \in Orders, TxCommit(r) PROVE NoCrossedOrders'
  <2>a. TypeOK /\ input' = input /\ pc[r] = "tx"
    BY <1>2 DEF IInv, TxCommit
  <2>b. \A o \in Orders : input[o].price \in Nat /\ input[o].side \in {"BUY", "SELL"}
    BY <2>a, ConstantsAssumption DEF TypeOK
  <2> SUFFICES ASSUME NEW o \in Orders, NEW p \in Orders, Hydrated(o)', Hydrated(p)',
                      Book(o) = Book(p), input[o].side = "BUY", input[p].side = "SELL"
               PROVE  input[o].price < input[p].price
    BY <2>a DEF NoCrossedOrders
  <2>1. CASE Book(o) # Book(r)
    <3>1. PICK b \in Books : b = Book(o)
      BY <2>a DEF TypeOK
    <3>2. DbOpen(b, o)' > 0 /\ DbOpen(b, p)' > 0
      BY <3>1, <2>a DEF DbOpen, Hydrated
    <3>3. DbOpen(b, o) > 0 /\ DbOpen(b, p) > 0
      BY <3>1, <3>2, <2>1, <1>2, CommitOpen
    <3> QED
      BY <3>1, <3>3 DEF NoCrossedOrders, DbOpen, Hydrated
  <2>2. CASE Book(o) = Book(r) /\ o # r /\ p # r
    BY <2>2, <1>2, OpenAfterCommit DEF NoCrossedOrders
  <2>3. CASE o = r
    <3>1. left[r] > 0 /\ rest[Book(r)][p] > 0 /\ Opposite(r, p)
      BY <2>3, <1>2, OpenAfterCommit DEF Opposite
    <3>2. ~ canMatch(r, p)
      BY <3>1, <2>a DEF PriorityInv
    <3> QED
      BY <3>2, <2>3, <2>b DEF canMatch
  <2>4. CASE p = r
    <3>1. left[r] > 0 /\ rest[Book(r)][o] > 0 /\ Opposite(r, o)
      BY <2>4, <1>2, OpenAfterCommit DEF Opposite
    <3>2. ~ canMatch(r, o)
      BY <3>1, <2>a DEF PriorityInv
    <3> QED
      BY <3>2, <2>4, <2>b DEF canMatch
  <2> QED
    BY <2>1, <2>2, <2>3, <2>4
<1> QED
  BY <1>1, <1>2

-----------------------------------------------------------------------------
(* The trades table adds up *)

\* What a call has matched is its quantity less the remainder.
LEMMA TakenStep ==
    ASSUME IInv, FilledInv, [Next]_vars, NEW s \in Orders, pc'[s] \in {"match", "tx"}
    PROVE  input'[s].quantity = left'[s] + SumFunctionOnSet(trades'[s], Orders)
<1>a. /\ TypeOK /\ LocalsInv /\ BookInv /\ IsFiniteSet(Orders) /\ input' = input
      /\ Book(s) \in Books
  BY ConstantsAssumption, MatchingFrame DEF IInv, TypeOK
<1>b. /\ trades[s] \in [Orders -> 0..MaxQuantity] /\ rest[Book(s)] \in [Orders -> 0..MaxQuantity]
      /\ left[s] \in 0..MaxQuantity /\ input[s].quantity \in 1..MaxQuantity
  BY <1>a DEF TypeOK
<1>c. \A m \in Orders : trades[s][m] \in Nat /\ rest[Book(s)][m] \in Nat
  BY <1>b, ConstantsAssumption
<1>d. left[s] \in Nat /\ input[s].quantity \in Nat
  BY <1>b, ConstantsAssumption
<1>1. CASE StartMatch(s)
  <2>1. pc[s] = "check" /\ trades' = trades /\ left' = [left EXCEPT ![s] = input[s].quantity]
    BY <1>1 DEF StartMatch
  <2>2. \A m \in Orders : trades[s][m] = 0
    BY <2>1, <1>a DEF LocalsInv
  <2>3. SumFunctionOnSet(trades'[s], Orders) = 0
    BY <2>1, <2>2, <1>a, SumZero
  <2>4. left'[s] = input[s].quantity
    BY <2>1, <1>a DEF TypeOK
  <2> QED
    BY <2>3, <2>4, <1>a, <1>d
<1>2. CASE Fill(s)
  <2>1. PICK x \in Orders :
           LET q == MinQty(left[s], rest[Book(s)][x])
           IN  /\ BestFor(s, x)
               /\ trades' = [trades EXCEPT ![s][x] = q]
               /\ left' = [left EXCEPT ![s] = @ - q]
    BY <1>2 DEF Fill
  <2> DEFINE q == MinQty(left[s], rest[Book(s)][x])
  <2>2. q \in Nat
    BY <1>c, <1>d DEF MinQty
  <2> HIDE DEF q
  <2>3. trades' = [trades EXCEPT ![s][x] = q] /\ left' = [left EXCEPT ![s] = @ - q]
    BY <2>1 DEF q
  <2>4. /\ left'[s] = left[s] - q /\ trades'[s][x] = q
        /\ \A m \in Orders \ {x} : trades'[s][m] = trades[s][m]
    BY <2>3, <1>a DEF TypeOK
  <2>5. pc[s] = "match" /\ left[s] > 0 /\ rest[Book(s)][x] # 0
    BY <1>2, <2>1, <1>c DEF Fill, BestFor, Resting
  <2>6. trades[s][x] = 0
    BY <2>5, <1>a, <1>c DEF BookInv
  <2>7. SumFunctionOnSet(trades'[s], Orders) = SumFunctionOnSet(trades[s], Orders) + q
    <3> DEFINE f == trades[s]
               g == trades'[s]
    <3>1. /\ \A m \in Orders : f[m] \in Int
          /\ g[x] = f[x] + q /\ \A m \in Orders \ {x} : g[m] = f[m]
      BY <2>2, <2>4, <2>6, <1>c
    <3> HIDE DEF f, g
    <3>2. SumFunctionOnSet(g, Orders) = SumFunctionOnSet(f, Orders) + q
      BY <3>1, <2>2, <1>a, SumChange
    <3> QED
      BY <3>2 DEF f, g
  <2>8. input[s].quantity = left[s] + SumFunctionOnSet(trades[s], Orders)
    BY <2>5 DEF FilledInv
  <2>9. SumFunctionOnSet(trades[s], Orders) \in Int
    <3>1. \A m \in Orders : trades[s][m] \in Int
      BY <1>c
    <3> QED
      BY <3>1, <1>a, SumEquations
  <2> QED
    BY <2>2, <2>4, <2>7, <2>8, <2>9, <1>a, <1>d
<1>3. CASE EndMatch(s)
  <2>1. pc[s] = "match" /\ UNCHANGED <<trades, left>>
    BY <1>3 DEF EndMatch
  <2> QED
    BY <2>1, <1>a DEF FilledInv
<1>4. CASE pc'[s] = pc[s] /\ left'[s] = left[s] /\ trades'[s] = trades[s]
  BY <1>4, <1>a DEF FilledInv
<1> QED
  BY <1>1, <1>2, <1>3, <1>4, MatchingFrame

\* A commit adds the trades to both of their orders.
LEMMA CommitFilled ==
    ASSUME IInv, ToldInv, FilledInv, FilledIsTraded, NEW r \in Orders, TxCommit(r)
    PROVE  FilledInv' /\ FilledIsTraded'
<1>a. /\ TypeOK /\ RowsFollowCalls /\ LegalInv /\ IsFiniteSet(Orders)
      /\ pc[r] = "tx" /\ pc' = [pc EXCEPT ![r] = "committed"] /\ MakersExist(r)
      /\ filled' = FilledAfter(r) /\ dbTrades' = [dbTrades EXCEPT ![r] = trades[r]]
      /\ UNCHANGED <<input, left, trades>>
  BY ConstantsAssumption DEF IInv, TxCommit, Goto
<1>b. /\ dbTrades'[r] = trades[r] /\ \A t \in Orders \ {r} : dbTrades'[t] = dbTrades[t]
      /\ pc'[r] = "committed" /\ \A s \in Orders \ {r} : pc'[s] = pc[s]
  BY <1>a DEF TypeOK
<1>c. ASSUME NEW t \in Orders, NEW m \in Orders PROVE dbTrades[t][m] \in Nat /\ trades[t][m] \in Nat
  <2>1. dbTrades[t] \in [Orders -> 0..MaxQuantity] /\ trades[t] \in [Orders -> 0..MaxQuantity]
    BY <1>a DEF TypeOK
  <2>2. dbTrades[t][m] \in 0..MaxQuantity /\ trades[t][m] \in 0..MaxQuantity
    BY <2>1
  <2> QED
    BY <2>2, ConstantsAssumption
<1>d. Row(r)' /\ ~ Row(r) /\ \A o \in Orders \ {r} : Row(o)' <=> Row(o)
  BY <1>a DEF TxCommit, MakersExist, Row, StatusFor, RowsFollowCalls
<1>e. \A m \in Orders : trades[r][m] > 0 => Row(m) /\ m # r
  BY <1>a DEF LegalInv, Legal, Opposite, MakersExist, Row
<1>1. \A t, m \in Orders : dbTrades'[t][m] > 0 => Row(m)'
  BY <1>b, <1>d, <1>e DEF FilledInv
<1>2. FilledInv'
  BY <1>1, <1>a, <1>b DEF FilledInv
<1>3. ASSUME NEW m \in Orders PROVE dbTrades[r][m] = 0 /\ dbTrades[m][r] = 0
  BY <1>c, <1>d DEF ToldInv, FilledInv
<1> DEFINE T(o) == [m \in Orders |-> dbTrades[o][m] + dbTrades[m][o]]
           U(o) == [m \in Orders |-> dbTrades'[o][m] + dbTrades'[m][o]]
<1>4. filled'[r] = SumFunctionOnSet(U(r), Orders)
  <2>1. trades[r][r] = 0
    BY <1>c, <1>e
  <2>2. \A m \in Orders : trades[r][m] \in Int /\ U(r)[m] = trades[r][m]
    BY <2>1, <1>b, <1>c, <1>3
  <2> HIDE DEF U
  <2>3. SumFunctionOnSet(U(r), Orders) = SumFunctionOnSet(trades[r], Orders)
    BY <2>2, <1>a, SumSame
  <2>4. input[r].quantity = left[r] + SumFunctionOnSet(trades[r], Orders)
    BY <1>a DEF FilledInv
  <2>5. SumFunctionOnSet(trades[r], Orders) \in Int /\ left[r] \in 0..MaxQuantity
    BY <2>2, <1>a, SumEquations DEF TypeOK
  <2>6. filled'[r] = input[r].quantity - left[r]
    BY <1>a DEF FilledAfter
  <2> QED
    BY <2>3, <2>4, <2>5, <2>6
<1>5. ASSUME NEW o \in Orders \ {r}, Row(o)
      PROVE  filled'[o] = SumFunctionOnSet(U(o), Orders)
  <2>1. filled[o] = SumFunctionOnSet(T(o), Orders)
    BY <1>5 DEF FilledIsTraded
  <2>2. filled'[o] = filled[o] + trades[r][o]
    BY <1>a DEF FilledAfter
  <2>3. /\ \A m \in Orders : T(o)[m] \in Int
        /\ U(o)[r] = T(o)[r] + trades[r][o]
        /\ \A m \in Orders \ {r} : U(o)[m] = T(o)[m]
    BY <1>b, <1>c, <1>3
  <2> HIDE DEF T, U
  <2>4. trades[r][o] \in Int
    BY <1>c
  <2>5. SumFunctionOnSet(U(o), Orders) = SumFunctionOnSet(T(o), Orders) + trades[r][o]
    BY <2>3, <2>4, <1>a, SumChange
  <2> QED
    BY <2>1, <2>2, <2>5
<1>6. FilledIsTraded'
  BY <1>4, <1>5, <1>d DEF FilledIsTraded
<1> QED
  BY <1>2, <1>6

LEMMA FilledStep ==
    IInv /\ ToldInv /\ FilledInv /\ FilledIsTraded /\ [Next]_vars => FilledInv' /\ FilledIsTraded'
<1> SUFFICES ASSUME IInv, ToldInv, FilledInv, FilledIsTraded, [Next]_vars
             PROVE  FilledInv' /\ FilledIsTraded'
  OBVIOUS
<1>1. CASE \A r \in Orders : ~ TxCommit(r)
  <2>1. UNCHANGED <<status, filled, dbTrades>>
    BY <1>1, OnlyTxCommitWrites
  <2> QED
    BY <2>1, TakenStep DEF FilledInv, FilledIsTraded, Row
<1> QED
  BY <1>1, CommitFilled

-----------------------------------------------------------------------------
(* Positions are the net of the trades *)

\* Weights of trades, w before and v after taker r traded: r had no trades.
Joins(r, w, v) ==
    /\ \A p \in Orders \X Orders : w[p] \in Int /\ v[p] \in Int
    /\ \A p \in Orders \X Orders : p[1] # r => v[p] = w[p]
    /\ \A m \in Orders : w[<<r, m>>] = 0

\* The sum over a set of trades that, of the trades of r, holds those with the
\* makers M.
LEMMA SignedSum ==
    ASSUME NEW r \in Orders, NEW w, NEW v, Joins(r, w, v),
           NEW P \in SUBSET (Orders \X Orders), NEW M \in SUBSET Orders,
           \A m \in Orders : <<r, m>> \in P <=> m \in M,
           NEW d, \A m \in Orders : d[m] = v[<<r, m>>]
    PROVE  SumFunctionOnSet(Signed(v), P)
             = SumFunctionOnSet(Signed(w), P)
                 + (IF input[r].side = "BUY" THEN SumFunctionOnSet(d, M)
                                             ELSE - SumFunctionOnSet(d, M))
<1> DEFINE P1 == {p \in P : p[1] # r}
           P2 == {r} \X M
           s == Signed(w)
           t == Signed(v)
           f == [m \in M |-> IF input[r].side = "BUY" THEN d[m] ELSE - d[m]]
<1>1. IsFiniteSet(M) /\ IsFiniteSet(P1) /\ IsFiniteSet(P2)
  <2>1. IsFiniteSet(Orders \X Orders)
    BY ConstantsAssumption, FS_Product
  <2>2. P1 \in SUBSET (Orders \X Orders) /\ P2 \in SUBSET (Orders \X Orders)
    OBVIOUS
  <2> QED
    BY <2>1, <2>2, ConstantsAssumption, FS_Subset
<1>2. P1 \cup P2 = P /\ P1 \cap P2 = {}
  OBVIOUS
<1>3. \A p \in Orders \X Orders : s[p] \in Int /\ t[p] \in Int
  BY DEF Signed, Joins
<1>4. \A p \in P1 : t[p] = s[p]
  BY DEF Signed, Joins
<1>5. \A p \in P2 : s[p] = 0
  BY DEF Signed, Joins
<1>6. \A m \in M : d[m] \in Int /\ f[m] \in Int /\ t[<<r, m>>] = f[m]
  BY DEF Signed, Joins
<1>7. /\ \A p \in P1 \cup P2 : s[p] \in Int /\ t[p] \in Int
      /\ \A p \in P1 : s[p] \in Int /\ t[p] = s[p]
  BY <1>3, <1>4
<1> HIDE DEF P1, s, t
<1>8. /\ SumFunctionOnSet(t, P) = SumFunctionOnSet(t, P1) + SumFunctionOnSet(t, P2)
      /\ SumFunctionOnSet(s, P) = SumFunctionOnSet(s, P1) + SumFunctionOnSet(s, P2)
  <2> HIDE DEF P2
  <2> QED
    BY <1>1, <1>2, <1>7, SumUnion
<1>9. SumFunctionOnSet(t, P1) = SumFunctionOnSet(s, P1) /\ SumFunctionOnSet(s, P1) \in Int
  BY <1>1, <1>7, SumSame, SumEquations
<1>10. SumFunctionOnSet(s, P2) = 0
  <2> HIDE DEF P2
  <2> QED
    BY <1>1, <1>5, SumZero
<1>11. SumFunctionOnSet(t, P2) = SumFunctionOnSet(f, M)
  <2>1. \A m \in M : f[m] \in Int /\ t[<<r, m>>] = f[m]
    BY <1>6
  <2>2. P2 = PairsWith(r, M)
    BY DEF PairsWith
  <2> HIDE DEF f, P2
  <2> QED
    BY <2>1, <2>2, <1>1, SumPairs
<1>12. SumFunctionOnSet(d, M) \in Int
  BY <1>1, <1>6, SumEquations
<1>13. SumFunctionOnSet(f, M) = IF input[r].side = "BUY" THEN SumFunctionOnSet(d, M)
                                                        ELSE - SumFunctionOnSet(d, M)
  <2>1. CASE input[r].side = "BUY"
    <3>1. \A m \in M : d[m] \in Int /\ f[m] = d[m]
      BY <2>1, <1>6
    <3> HIDE DEF f
    <3>2. SumFunctionOnSet(f, M) = SumFunctionOnSet(d, M)
      BY <3>1, <1>1, SumSame
    <3> QED
      BY <3>2, <2>1
  <2>2. CASE input[r].side # "BUY"
    <3> DEFINE z == [m \in M |-> 0]
               n == SumFunctionOnSet(f, M)
               k == SumFunctionOnSet(d, M)
    <3>0. ASSUME NEW m \in M PROVE d[m] \in Int /\ f[m] = - d[m]
      BY <2>2, <1>6
    <3>1. \A m \in M : f[m] \in Int /\ d[m] \in Int /\ z[m] = f[m] + d[m]
      <4> HIDE DEF f
      <4> QED
        BY <3>0
    <3>2. SumFunctionOnSet(z, M) = 0
      BY <1>1, SumZero
    <3> HIDE DEF f, z
    <3>3. SumFunctionOnSet(z, M) = n + k
      BY <3>1, <1>1, SumPlus
    <3>4. n \in Int /\ k \in Int
      BY <3>1, <1>1, SumEquations
    <3> HIDE DEF n, k
    <3>5. n = - k
      BY <3>2, <3>3, <3>4
    <3> QED
      BY <3>5, <2>2 DEF n, k
  <2> QED
    BY <2>1, <2>2
<1>14. SumFunctionOnSet(t, P) = SumFunctionOnSet(s, P) + SumFunctionOnSet(f, M)
  <2> HIDE DEF P2, f
  <2> QED
    BY <1>8, <1>9, <1>10, <1>11
<1> QED
  BY <1>13, <1>14 DEF s, t

\* The trades of r change what a user has bought by the gain of calculatePositionDeltas.
LEMMA NetBoughtStep ==
    ASSUME NEW r \in Orders, NEW w, NEW v, Joins(r, w, v), NEW u \in Users, NEW b \in Books,
           NEW d, \A m \in Orders : d[m] = v[<<r, m>>]
    PROVE  /\ NetBought(u, b, w) \in Int
           /\ NetBought(u, b, v) =
                 NetBought(u, b, w) + (IF Book(r) = b THEN Gain(r, u, d) ELSE 0)
<1> DEFINE made == {m \in Orders : input[m].user = u}
           A == {p \in Orders \X Orders : Book(p[1]) = b /\ input[p[1]].user = u}
           B == {p \in Orders \X Orders : Book(p[1]) = b /\ input[p[2]].user = u}
           MA == IF Book(r) = b /\ input[r].user = u THEN Orders ELSE {}
           MB == IF Book(r) = b THEN made ELSE {}
           wa == SumFunctionOnSet(Signed(w), A)
           wb == SumFunctionOnSet(Signed(w), B)
           va == SumFunctionOnSet(Signed(v), A)
           vb == SumFunctionOnSet(Signed(v), B)
           da == SumFunctionOnSet(d, MA)
           db == SumFunctionOnSet(d, MB)
<1>1. /\ A \in SUBSET (Orders \X Orders) /\ B \in SUBSET (Orders \X Orders)
      /\ MA \in SUBSET Orders /\ MB \in SUBSET Orders
      /\ \A m \in Orders : <<r, m>> \in A <=> m \in MA
      /\ \A m \in Orders : <<r, m>> \in B <=> m \in MB
  OBVIOUS
<1>2. /\ {p \in {q \in Orders \X Orders : Book(q[1]) = b} : input[p[1]].user = u} = A
      /\ {p \in {q \in Orders \X Orders : Book(q[1]) = b} : input[p[2]].user = u} = B
  OBVIOUS
<1>3. NetBought(u, b, w) = wa - wb /\ NetBought(u, b, v) = va - vb
  BY <1>2 DEF NetBought
<1>4. /\ IsFiniteSet(A) /\ IsFiniteSet(B) /\ IsFiniteSet(MA) /\ IsFiniteSet(MB)
      /\ \A p \in Orders \X Orders : Signed(w)[p] \in Int
      /\ \A m \in Orders : d[m] \in Int
  <2>1. IsFiniteSet(Orders \X Orders)
    BY ConstantsAssumption, FS_Product
  <2>2. IsFiniteSet(A) /\ IsFiniteSet(B) /\ IsFiniteSet(MA) /\ IsFiniteSet(MB)
    BY <2>1, <1>1, ConstantsAssumption, FS_Subset
  <2>3. \A p \in Orders \X Orders : Signed(w)[p] \in Int
    BY DEF Signed, Joins
  <2>4. \A m \in Orders : d[m] \in Int
    BY DEF Joins
  <2> QED
    BY <2>2, <2>3, <2>4
<1> HIDE DEF A, B, MA, MB
<1>5. wa \in Int /\ wb \in Int /\ da \in Int /\ db \in Int
  BY <1>1, <1>4, SumEquations
<1>6. /\ va = wa + (IF input[r].side = "BUY" THEN da ELSE - da)
      /\ vb = wb + (IF input[r].side = "BUY" THEN db ELSE - db)
  BY <1>1, SignedSum
<1>7. CASE Book(r) # b
  <2>1. da = 0 /\ db = 0
    <3>1. MA = {} /\ MB = {}
      BY <1>7 DEF MA, MB
    <3> QED
      BY <3>1, <1>4, SumEquations
  <2> HIDE DEF wa, wb, va, vb, da, db
  <2> QED
    BY <2>1, <1>3, <1>5, <1>6, <1>7
<1>8. CASE Book(r) = b
  <2>1. MB = made /\ MA = IF input[r].user = u THEN Orders ELSE {}
    BY <1>8 DEF MA, MB
  <2>2. da = IF input[r].user = u THEN SumFunctionOnSet(d, Orders) ELSE 0
    BY <2>1, <1>4, SumEquations
  <2>3. Gain(r, u, d) = (IF input[r].side = "BUY" THEN 1 ELSE -1) * (da - db)
    BY <2>1, <2>2 DEF Gain
  <2> HIDE DEF wa, wb, va, vb, da, db
  <2> QED
    BY <2>3, <1>3, <1>5, <1>6, <1>8
<1> HIDE DEF wa, wb, va, vb, da, db
<1> QED
  BY <1>3, <1>5, <1>7, <1>8

\* A commit moves the positions by what it adds to the trades table.
LEMMA CommitPositions ==
    ASSUME IInv, ToldInv, PositionsMatchTrades, NEW r \in Orders, TxCommit(r)
    PROVE  PositionsMatchTrades'
<1>a. /\ TypeOK /\ RowsFollowCalls /\ IsFiniteSet(Users) /\ IsFiniteSet(Books) /\ Book(r) \in Books
      /\ pc[r] = "tx" /\ input' = input
      /\ dbTrades' = [dbTrades EXCEPT ![r] = trades[r]]
      /\ shares' = [u \in Users |-> [shares[u] EXCEPT ![Book(r)] = @ + SharesDelta(r, u)]]
      /\ collateral' = [u \in Users |-> collateral[u] + CollateralDelta(r, u)]
      /\ onChain' = onChain
  BY ConstantsAssumption DEF IInv, TypeOK, TxCommit
<1>b. dbTrades'[r] = trades[r] /\ \A t \in Orders \ {r} : dbTrades'[t] = dbTrades[t]
  BY <1>a DEF TypeOK
<1>c. ASSUME NEW t \in Orders, NEW m \in Orders
      PROVE  /\ dbTrades[t][m] \in Nat /\ trades[t][m] \in Nat /\ dbTrades'[t][m] \in Nat
             /\ input[m].price \in Nat
  <2>1. /\ dbTrades[t] \in [Orders -> 0..MaxQuantity] /\ trades[t] \in [Orders -> 0..MaxQuantity]
        /\ trades[r] \in [Orders -> 0..MaxQuantity] /\ input[m].price \in Prices
    BY <1>a DEF TypeOK
  <2>2. /\ dbTrades[t][m] \in 0..MaxQuantity /\ trades[t][m] \in 0..MaxQuantity
        /\ trades[r][m] \in 0..MaxQuantity
    BY <2>1
  <2>3. input[m].price \in Nat
    BY <2>1, ConstantsAssumption
  <2>4. dbTrades'[t][m] \in 0..MaxQuantity
    BY <2>2, <1>b
  <2> QED
    BY <2>2, <2>3, <2>4
<1>d. \A m \in Orders : dbTrades[r][m] = 0
  <2>1. ~ Row(r)
    BY <1>a DEF RowsFollowCalls
  <2> QED
    BY <2>1 DEF ToldInv
<1> DEFINE w1 == [p \in Orders \X Orders |-> dbTrades[p[1]][p[2]]]
           v1 == [p \in Orders \X Orders |-> dbTrades'[p[1]][p[2]]]
           w2 == [p \in Orders \X Orders |-> dbTrades[p[1]][p[2]] * input[p[2]].price]
           v2 == [p \in Orders \X Orders |-> dbTrades'[p[1]][p[2]] * input[p[2]].price]
           d1 == trades[r]
           d2 == [m \in Orders |-> trades[r][m] * input[m].price]
<1>1. ASSUME NEW u \in Users, NEW b \in Books
      PROVE  /\ NetBought(u, b, Traded) = NetBought(u, b, w1)
             /\ NetBought(u, b, Traded)' = NetBought(u, b, v1)
             /\ NetBought(u, b, Cost) = NetBought(u, b, w2)
             /\ NetBought(u, b, Cost)' = NetBought(u, b, v2)
  BY <1>a DEF NetBought, Signed, Traded, Cost
<1>2. Joins(r, w1, v1) /\ \A m \in Orders : d1[m] = v1[<<r, m>>]
  <2>1. \A p \in Orders \X Orders : w1[p] \in Int /\ v1[p] \in Int
    BY <1>c
  <2>2. \A p \in Orders \X Orders : p[1] # r => v1[p] = w1[p]
    BY <1>b
  <2> QED
    BY <2>1, <2>2, <1>b, <1>d DEF Joins
<1>3. Joins(r, w2, v2) /\ \A m \in Orders : d2[m] = v2[<<r, m>>]
  <2>1. \A p \in Orders \X Orders : w2[p] \in Int /\ v2[p] \in Int
    <3>1. ASSUME NEW t \in Orders, NEW m \in Orders
          PROVE  dbTrades[t][m] * input[m].price \in Int /\ dbTrades'[t][m] * input[m].price \in Int
      BY <1>c
    <3> QED
      BY <3>1
  <2>2. \A p \in Orders \X Orders : p[1] # r => v2[p] = w2[p]
    BY <1>b
  <2>3. \A m \in Orders : w2[<<r, m>>] = 0
    BY <1>c, <1>d
  <2>4. \A m \in Orders : d2[m] = v2[<<r, m>>]
    BY <1>b
  <2> QED
    BY <2>1, <2>2, <2>3, <2>4 DEF Joins
<1>4. \A u \in Users : SharesDelta(r, u) = Gain(r, u, d1) /\ CollateralDelta(r, u) = Gain(r, u, d2)
  BY DEF SharesDelta, CollateralDelta
<1>5. \A m \in Orders : d1[m] \in Int /\ d2[m] \in Int
  BY <1>a, DeltaType
<1> HIDE DEF w1, v1, w2, v2, d1, d2
<1>6. ASSUME NEW u \in Users, NEW b \in Books
      PROVE  /\ NetBought(u, b, w1) \in Int /\ NetBought(u, b, w2) \in Int
             /\ NetBought(u, b, v1) =
                   NetBought(u, b, w1) + (IF Book(r) = b THEN Gain(r, u, d1) ELSE 0)
             /\ NetBought(u, b, v2) =
                   NetBought(u, b, w2) + (IF Book(r) = b THEN Gain(r, u, d2) ELSE 0)
  BY <1>2, <1>3, NetBoughtStep
<1>7. ASSUME NEW u \in Users PROVE Gain(r, u, d1) \in Int /\ Gain(r, u, d2) \in Int
  BY <1>5, GainType
<1>8. ASSUME NEW u \in Users, NEW b \in Books
      PROVE  /\ shares[u][b] \in Int
             /\ shares'[u][b] = shares[u][b] + (IF Book(r) = b THEN Gain(r, u, d1) ELSE 0)
  <2>1. shares[u] \in [Books -> Int]
    BY <1>a DEF TypeOK
  <2>2. shares'[u] = [shares[u] EXCEPT ![Book(r)] = @ + Gain(r, u, d1)]
    BY <1>4, <1>a
  <2> QED
    BY <2>1, <2>2, <1>a
<1>9. ASSUME NEW u \in Users, NEW b \in Books
      PROVE  /\ Surplus(u, b)' \in 0..MaxQuantity
             /\ opened'[u] # "clipped" => Surplus(u, b)' = 0
  <2>1. Surplus(u, b) = shares[u][b] - (NetBought(u, b, w1) + onChain[u][b])
    BY <1>1 DEF Surplus
  <2>2. Surplus(u, b)' = shares'[u][b] - (NetBought(u, b, v1) + onChain[u][b])
    BY <1>1, <1>a DEF Surplus
  <2>3. onChain[u][b] \in Int
    <3>1. onChain[u] \in [Books -> Int]
      BY <1>a DEF TypeOK
    <3> QED
      BY <3>1
  <2>4. Gain(r, u, d1) \in Int
    BY <1>7
  <2>5. Surplus(u, b)' = Surplus(u, b)
    BY <2>1, <2>2, <2>3, <2>4, <1>6, <1>8
  <2>6. opened'[u] # "clipped" => opened[u] # "clipped"
    BY <1>a DEF TxCommit, TypeOK
  <2> QED
    BY <2>5, <2>6 DEF PositionsMatchTrades
<1>10. ASSUME NEW u \in Users
       PROVE  collateral'[u] = SumFunctionOnSet([b \in Books |-> NetBought(u, b, v2)], Books)
  <2> DEFINE f == [b \in Books |-> NetBought(u, b, w2)]
             g == [b \in Books |-> NetBought(u, b, v2)]
             x == Book(r)
             n == Gain(r, u, d2)
  <2>1. collateral[u] = SumFunctionOnSet(f, Books)
    <3>1. f = [b \in Books |-> NetBought(u, b, Cost)]
      BY <1>1
    <3> QED
      BY <3>1 DEF PositionsMatchTrades
  <2>2. collateral'[u] = collateral[u] + n
    BY <1>4, <1>a
  <2>3. /\ x \in Books /\ n \in Int /\ \A b \in Books : f[b] \in Int
        /\ g[x] = f[x] + n /\ \A b \in Books \ {x} : g[b] = f[b]
    BY <1>6, <1>7, <1>a
  <2> HIDE DEF f, g, x, n
  <2>4. SumFunctionOnSet(g, Books) = SumFunctionOnSet(f, Books) + n
    BY <2>3, <1>a, SumChange
  <2>5. collateral'[u] = SumFunctionOnSet(g, Books)
    BY <2>1, <2>2, <2>4
  <2> QED
    BY <2>5 DEF g
<1>11. ASSUME NEW u \in Users
       PROVE  [b \in Books |-> NetBought(u, b, Cost)]' = [b \in Books |-> NetBought(u, b, v2)]
  BY <1>1
<1> QED
  BY <1>9, <1>10, <1>11 DEF PositionsMatchTrades

\* Whatever leaves the trades and the prices alone leaves the nets alone.
LEMMA SameNets ==
    ASSUME UNCHANGED <<input, dbTrades>>, NEW u \in Users, NEW b \in Books
    PROVE  /\ NetBought(u, b, Traded)' = NetBought(u, b, Traded)
           /\ NetBought(u, b, Cost)' = NetBought(u, b, Cost)
<1>1. Traded' = Traded /\ Cost' = Cost
  BY DEF Traded, Cost
<1> QED
  BY <1>1 DEF NetBought, Signed

\* A net of shares is an integer.
LEMMA NetType ==
    ASSUME TypeOK, NEW u \in Users, NEW b \in Books
    PROVE  NetBought(u, b, Traded) \in Int
<1> DEFINE A == {p \in {q \in Orders \X Orders : Book(q[1]) = b} : input[p[1]].user = u}
           B == {p \in {q \in Orders \X Orders : Book(q[1]) = b} : input[p[2]].user = u}
<1>1. IsFiniteSet(A) /\ IsFiniteSet(B)
  <2>1. IsFiniteSet(Orders \X Orders)
    BY ConstantsAssumption, FS_Product
  <2>2. A \in SUBSET (Orders \X Orders) /\ B \in SUBSET (Orders \X Orders)
    OBVIOUS
  <2> QED
    BY <2>1, <2>2, FS_Subset
<1>2. \A p \in Orders \X Orders : Signed(Traded)[p] \in Int
  <2>1. ASSUME NEW t \in Orders, NEW m \in Orders PROVE dbTrades[t][m] \in Int
    <3>1. dbTrades[t] \in [Orders -> 0..MaxQuantity]
      BY DEF TypeOK
    <3> QED
      BY <3>1
  <2> QED
    BY <2>1 DEF Signed, Traded
<1>3. (\A p \in A : Signed(Traded)[p] \in Int) /\ (\A p \in B : Signed(Traded)[p] \in Int)
  BY <1>2
<1>4. NetBought(u, b, Traded)
        = SumFunctionOnSet(Signed(Traded), A) - SumFunctionOnSet(Signed(Traded), B)
  BY DEF NetBought
<1> HIDE DEF A, B
<1>5. SumFunctionOnSet(Signed(Traded), A) \in Int /\ SumFunctionOnSet(Signed(Traded), B) \in Int
  BY <1>1, <1>3, SumEquations
<1> QED
  BY <1>4, <1>5

\* An indexed trade moves the positions by what it adds to the chain's net,
\* but for the sale that creates a row.
LEMMA IndexedPositions ==
    ASSUME IInv, PositionsMatchTrades, NEW u \in Users, NEW v \in Users \ {u},
           NEW b \in Books, NEW q \in Quantities, IndexTrade(u, v, b, q)
    PROVE  PositionsMatchTrades'
<1>a. TypeOK /\ UNCHANGED <<input, dbTrades, collateral>>
  BY DEF IInv, IndexTrade, procVars
<1>q. q \in 1..MaxQuantity /\ MaxQuantity \in Nat
  BY ConstantsAssumption DEF Quantities
<1> DEFINE gain == [w \in Users |-> IF w = u THEN q ELSE IF w = v THEN - q ELSE 0]
           clips == opened[v] = "none"
<1>1. /\ onChain' = [w \in Users |-> [onChain[w] EXCEPT ![b] = @ + gain[w]]]
      /\ shares' = [w \in Users |->
            [shares[w] EXCEPT ![b] = @ + IF w = v /\ clips THEN 0 ELSE gain[w]]]
      /\ opened' = [w \in Users |-> IF w = v /\ clips THEN "clipped"
                                    ELSE IF w = u /\ opened[w] = "none" THEN "whole"
                                    ELSE opened[w]]
  BY DEF IndexTrade
<1>2. ASSUME NEW w \in Users, NEW c \in Books
      PROVE  /\ Surplus(w, c)' \in 0..MaxQuantity
             /\ opened'[w] # "clipped" => Surplus(w, c)' = 0
  <2>1. shares[w] \in [Books -> Int] /\ onChain[w] \in [Books -> Int]
    BY <1>a DEF TypeOK
  <2>2. gain[w] \in Int /\ (w = v => gain[w] = - q)
    BY <1>q
  <2>3. shares[w][c] \in Int /\ onChain[w][c] \in Int
    BY <2>1
  <2> DEFINE x == IF w = v /\ clips THEN 0 ELSE gain[w]
  <2>4. /\ onChain'[w][c] = IF c = b THEN onChain[w][c] + gain[w] ELSE onChain[w][c]
        /\ shares'[w][c] = IF c = b THEN shares[w][c] + x ELSE shares[w][c]
    BY <1>1, <2>1
  <2>5. x \in Int
    BY <2>2
  <2>6. NetBought(w, c, Traded) \in Int /\ NetBought(w, c, Traded)' = NetBought(w, c, Traded)
    BY <1>a, NetType, SameNets
  <2>7. /\ Surplus(w, c) \in 0..MaxQuantity
        /\ opened[w] # "clipped" => Surplus(w, c) = 0
    BY DEF PositionsMatchTrades
  <2>8. Surplus(w, c) = shares[w][c] - (NetBought(w, c, Traded) + onChain[w][c])
    BY DEF Surplus
  <2>9. Surplus(w, c)' = shares'[w][c] - (NetBought(w, c, Traded) + onChain'[w][c])
    BY <2>6 DEF Surplus
  <2>10. CASE w = v /\ clips
    <3>1. opened'[w] = "clipped" /\ Surplus(w, c) = 0 /\ x = 0 /\ gain[w] = - q
      BY <1>1, <2>2, <2>7, <2>10
    <3> HIDE DEF x, gain, clips
    <3>2. Surplus(w, c)' = 0 \/ Surplus(w, c)' = q
      BY <2>3, <2>4, <2>6, <2>8, <2>9, <3>1, <1>q
    <3> QED
      BY <3>1, <3>2, <1>q
  <2>11. CASE ~ (w = v /\ clips)
    <3>1. x = gain[w] /\ (opened'[w] # "clipped" => opened[w] # "clipped")
      BY <1>1, <2>11
    <3> HIDE DEF x, gain, clips
    <3>2. Surplus(w, c)' = Surplus(w, c)
      BY <2>2, <2>3, <2>4, <2>6, <2>8, <2>9, <3>1
    <3> QED
      BY <2>7, <3>1, <3>2
  <2> QED
    BY <2>10, <2>11
<1>3. ASSUME NEW w \in Users
      PROVE  [c \in Books |-> NetBought(w, c, Cost)]' = [c \in Books |-> NetBought(w, c, Cost)]
  BY <1>a, SameNets
<1> QED
  BY <1>a, <1>2, <1>3 DEF PositionsMatchTrades

\* Every step keeps the positions in line with the trades.
LEMMA PositionsStep ==
    IInv /\ ToldInv /\ PositionsMatchTrades /\ [Next]_vars => PositionsMatchTrades'
<1> SUFFICES ASSUME IInv, ToldInv, PositionsMatchTrades, [Next]_vars
             PROVE  PositionsMatchTrades'
  OBVIOUS
<1>1. CASE UNCHANGED <<input, dbTrades, shares, collateral, opened, onChain>>
  <2>1. ASSUME NEW u \in Users, NEW b \in Books
        PROVE  Surplus(u, b)' = Surplus(u, b)
    BY <1>1, SameNets DEF Surplus
  <2>2. ASSUME NEW u \in Users
        PROVE  [b \in Books |-> NetBought(u, b, Cost)]' = [b \in Books |-> NetBought(u, b, Cost)]
    BY <1>1, SameNets
  <2> QED
    BY <1>1, <2>1, <2>2 DEF PositionsMatchTrades
<1>2. CASE \E r \in Orders : TxCommit(r)
  BY <1>2, CommitPositions
<1>3. CASE \E u, v \in Users, b \in Books, q \in Quantities : u # v /\ IndexTrade(u, v, b, q)
  BY <1>3, IndexedPositions
<1>4. ASSUME NEW r \in Orders, Submit(r) \/ CallStep(r), ~ TxCommit(r)
      PROVE  UNCHANGED <<input, dbTrades, shares, collateral, opened, onChain>>
  BY <1>4 DEF CallStep, Submit, Begin, Hydrate, HydrateFail, RejectSelfTrade, StartMatch,
              Fill, EndMatch, TxAbort, AckLost, AddRemaining, AuditOk, AuditFail,
              dbVars, positionVars
<1> QED
  BY <1>1, <1>2, <1>3, <1>4
     DEF Next, EnqueueOk, EnqueueFail, Crash, BootWarm, BootCold, Quiescent, vars, procVars,
         dbVars, positionVars

-----------------------------------------------------------------------------
(* The theorems *)

\* IInv is an invariant: it holds initially and every step of placeOrder, of
\* the enqueue callbacks, of a crash and of a restart keeps it.
THEOREM InductiveInvariant == Spec => []IInv
<1>1. IInv /\ [Next]_vars => IInv'
  BY TypeStep, HeadStep, DownStep, RowStep, LocalsStep, BookStep, OverfillStep,
     LegalStep, TradesLegalStep DEF IInv
<1> QED
  BY InitIInv, <1>1, PTL DEF Spec

\* Type correctness of the matching service.
THEOREM TypeCorrect == Spec => []TypeOK
BY InductiveInvariant, PTL DEF IInv

\* The in-memory book never drifts from the orders table, for any number of
\* concurrent placeOrder calls, users, outcomes and crashes.
THEOREM BookMatchesDb == Spec => []BookAgreesWithDb
BY InductiveInvariant, PTL DEF IInv

\* No order is ever filled beyond its quantity.
THEOREM OrdersNeverOverfilled == Spec => []NoOverfill
BY InductiveInvariant, PTL DEF IInv

\* Every committed trade is between different wallets, on opposite sides of
\* one book, at a price both accept.
THEOREM CommittedTradesAreLegal == Spec => []TradesAreLegal
BY InductiveInvariant, PTL DEF IInv

LEMMA ToldInvariant == Spec => [](ToldInv /\ ToldIsCommitted)
<1>1. Init => ToldInv /\ ToldIsCommitted
  BY DEF Init, ToldInv, ToldIsCommitted, NoOrders, Row
<1> QED
  BY <1>1, InductiveInvariant, ToldStep, PTL DEF Spec

\* Every settlement job, queued or on its way, is for a committed trade, and
\* the answer of a call says truly whether its order is stored.
THEOREM AnswersAreTrue == Spec => []ToldIsCommitted
BY ToldInvariant, PTL

\* Places and priority hold in every reachable state.
THEOREM PriorityInvariant == Spec => [](PlaceInv /\ PriorityInv)
<1>1. Init => PlaceInv /\ PriorityInv
  <2> SUFFICES ASSUME Init PROVE PlaceInv /\ PriorityInv
    OBVIOUS
  <2>1. TypeOK
    BY InitIInv DEF IInv
  <2>2. /\ \A b \in Books, o \in Orders : rest[b][o] = 0 /\ place[b][o] < stamp[b]
        /\ \A o \in Orders : createdAt[o] <= clock
    BY DEF Init
  <2>3. \A o \in Orders : Book(o) \in Books
    BY <2>1 DEF TypeOK
  <2> QED
    BY <2>2, <2>3 DEF PlaceInv, PriorityInv
<1> QED
  BY <1>1, InductiveInvariant, PlaceStep, PriorityStep, PTL DEF Spec

\* The open rows of a book never cross: matchOrder leaves a remainder only
\* when nothing that rests accepts its price.
THEOREM BookIsUncrossed == Spec => []NoCrossedOrders
<1>1. Init => NoCrossedOrders
  BY DEF Init, NoCrossedOrders, Hydrated, Open
<1> QED
  BY <1>1, InductiveInvariant, PriorityInvariant, UncrossedStep, PTL DEF Spec

\* Price-time priority on what is committed, across failed transactions,
\* crashes and rehydration from rows that share a millisecond.
THEOREM MatchingIsPriceTime == Spec => PriceTimePriority
<1>1. IInv /\ PriorityInv /\ [Next]_vars =>
         [\A r \in Orders : ~ Row(r) /\ Row(r)' =>
             \A m, o \in Orders :
                 /\ dbTrades'[r][m] > 0
                 /\ Hydrated(o)' /\ o # r /\ o # m
                 /\ Book(o) = Book(r) /\ Opposite(r, o)
                 => NotAhead(r, o, m)]_vars
  <2> SUFFICES ASSUME IInv, PriorityInv, [Next]_vars,
                      NEW r \in Orders, ~ Row(r), Row(r)',
                      NEW m \in Orders, NEW o \in Orders, dbTrades'[r][m] > 0,
                      Hydrated(o)', o # r, o # m, Book(o) = Book(r), Opposite(r, o)
               PROVE  NotAhead(r, o, m)
    OBVIOUS
  <2>1. PICK s \in Orders : TxCommit(s)
    BY OnlyTxCommitWrites DEF Row
  <2>2. s = r
    BY <2>1 DEF TxCommit, MakersExist, Row
  <2>3. pc[r] = "tx" /\ dbTrades'[r] = trades[r]
    BY <2>1, <2>2 DEF TxCommit, IInv, TypeOK
  <2>4. rest[Book(r)][o] > 0
    BY <2>1, <2>2, OpenAfterCommit
  <2> QED
    BY <2>3, <2>4 DEF PriorityInv
<1> QED
  BY <1>1, InductiveInvariant, PriorityInvariant, PTL DEF Spec, PriceTimePriority

LEMMA FilledInvariant == Spec => [](FilledInv /\ FilledIsTraded)
<1>1. Init => FilledInv /\ FilledIsTraded
  BY DEF Init, FilledInv, FilledIsTraded, Row
<1> QED
  BY <1>1, InductiveInvariant, ToldInvariant, FilledStep, PTL DEF Spec

\* filledQuantity is the sum of the trades, however many takers met the order
\* and however many transactions failed in between.
THEOREM FilledQuantityIsTraded == Spec => []FilledIsTraded
BY FilledInvariant, PTL

\* user_positions, written by placeOrder and by the indexer, is the net of
\* the trades table and of the chain, but for the sale an indexed trade may
\* have created the row with: a committed transaction moves all its positions
\* or none (matching-service.ts, placeOrder; batchWriter.ts,
\* reconcileTradeIntoPositions).
THEOREM PositionsAreNet == Spec => []PositionsMatchTrades
<1>1. Init => PositionsMatchTrades
  <2> SUFFICES ASSUME Init PROVE PositionsMatchTrades
    OBVIOUS
  <2>1. /\ IsFiniteSet(Users) /\ IsFiniteSet(Books) /\ IsFiniteSet(Orders \X Orders)
        /\ \A t, m \in Orders : dbTrades[t][m] = 0
        /\ \A u \in Users, b \in Books : shares[u][b] = 0
        /\ \A u \in Users : collateral[u] = 0
        /\ \A u \in Users, b \in Books : onChain[u][b] = 0
        /\ \A m \in Orders : input[m].price \in Nat
    BY ConstantsAssumption, FS_Product DEF Init
  <2>2. ASSUME NEW w, \A p \in Orders \X Orders : w[p] = 0, NEW u \in Users, NEW b \in Books
        PROVE  NetBought(u, b, w) = 0
    <3> DEFINE A == {p \in {q \in Orders \X Orders : Book(q[1]) = b} : input[p[1]].user = u}
               B == {p \in {q \in Orders \X Orders : Book(q[1]) = b} : input[p[2]].user = u}
    <3>1. IsFiniteSet(A) /\ IsFiniteSet(B)
      <4>1. A \in SUBSET (Orders \X Orders) /\ B \in SUBSET (Orders \X Orders)
        OBVIOUS
      <4> QED
        BY <4>1, <2>1, FS_Subset
    <3>2. (\A p \in A : Signed(w)[p] = 0) /\ (\A p \in B : Signed(w)[p] = 0)
      BY <2>2 DEF Signed
    <3>3. NetBought(u, b, w) = SumFunctionOnSet(Signed(w), A) - SumFunctionOnSet(Signed(w), B)
      BY DEF NetBought
    <3> HIDE DEF A, B
    <3>4. SumFunctionOnSet(Signed(w), A) = 0 /\ SumFunctionOnSet(Signed(w), B) = 0
      BY <3>1, <3>2, SumZero
    <3> QED
      BY <3>3, <3>4
  <2>3. (\A p \in Orders \X Orders : Traded[p] = 0) /\ (\A p \in Orders \X Orders : Cost[p] = 0)
    BY <2>1 DEF Traded, Cost
  <2>4. \A u \in Users, b \in Books : NetBought(u, b, Traded) = 0 /\ NetBought(u, b, Cost) = 0
    BY <2>2, <2>3
  <2>5. ASSUME NEW u \in Users
        PROVE  SumFunctionOnSet([b \in Books |-> NetBought(u, b, Cost)], Books) = 0
    <3> DEFINE f == [b \in Books |-> NetBought(u, b, Cost)]
    <3>1. \A b \in Books : f[b] = 0
      BY <2>4
    <3> HIDE DEF f
    <3>2. SumFunctionOnSet(f, Books) = 0
      BY <3>1, <2>1, SumZero
    <3> QED
      BY <3>2 DEF f
  <2>6. \A u \in Users, b \in Books : Surplus(u, b) = 0
    BY <2>1, <2>4 DEF Surplus
  <2>7. 0 \in 0..MaxQuantity
    BY ConstantsAssumption
  <2> QED
    BY <2>1, <2>5, <2>6, <2>7 DEF PositionsMatchTrades
<1> QED
  BY <1>1, InductiveInvariant, ToldInvariant, PositionsStep, PTL DEF Spec

-----------------------------------------------------------------------------
(* The refinement of Exchange *)

\* The sums of Exchange are the sums of this module.
LEMMA ExchangeSum ==
    ASSUME NEW S, NEW f
    PROVE  Ex!SumFunctionOnSet(f, S) = SumFunctionOnSet(f, S)
BY DEF Ex!SumFunctionOnSet, Ex!FoldFunctionOnSet, Ex!MapThenFoldSet,
       SumFunctionOnSet, FoldFunctionOnSet, MapThenFoldSet

\* No summand exceeds a sum of natural numbers.
LEMMA SumBounds ==
    ASSUME NEW S, IsFiniteSet(S), NEW f, \A x \in S : f[x] \in Nat, NEW y \in S
    PROVE  f[y] <= SumFunctionOnSet(f, S)
<1> DEFINE Q == {T \in SUBSET S : SumFunctionOnSet(f, T) \in Nat}
<1>1. {} \in Q
  BY SumEquations, FS_EmptySet
<1>2. ASSUME NEW T \in SUBSET S, NEW x \in S \ T, T \in Q PROVE T \cup {x} \in Q
  <2>1. IsFiniteSet(T)
    BY FS_Subset
  <2>2. x \notin T /\ \A z \in T \cup {x} : f[z] \in Int
    BY <1>2
  <2>3. SumFunctionOnSet(f, T \cup {x}) = f[x] + SumFunctionOnSet(f, T)
    BY <2>1, <2>2, SumInsert
  <2>4. f[x] \in Nat /\ SumFunctionOnSet(f, T) \in Nat
    BY <1>2
  <2> QED
    BY <2>3, <2>4
<1>3. IsFiniteSet(S \ {y})
  BY FS_RemoveElement
<1>4. SumFunctionOnSet(f, S \ {y}) \in Nat
  <2>1. \A T \in SUBSET (S \ {y}) : \A x \in (S \ {y}) \ T : T \in Q => T \cup {x} \in Q
    BY <1>2
  <2> HIDE DEF Q
  <2>2. S \ {y} \in Q
    BY <1>1, <1>3, <2>1, SubsetInduction
  <2> QED
    BY <2>2 DEF Q
<1>5. SumFunctionOnSet(f, S) = f[y] + SumFunctionOnSet(f, S \ {y})
  BY SumRemove
<1> QED
  BY <1>4, <1>5

\* What faces an order in the exchange is what is open in its book, and what
\* its trades leave of it is what the row has left.
LEMMA FacingIsOpen ==
    ASSUME IInv, FilledIsTraded, NEW r \in Orders, NEW m \in Orders
    PROVE  /\ m \in Ex!Facing(r) <=> Opposite(r, m) /\ DbOpen(Book(r), m) > 0
           /\ m \in Ex!Facing(r) => Ex!Remaining(m) = DbOpen(Book(r), m)
<1>1. /\ filled[m] \in Nat /\ input[m].quantity \in 1..MaxQuantity
      /\ status[m] \in {"none", "OPEN", "PARTIALLY_FILLED", "FILLED"}
  BY DEF IInv, TypeOK
<1>2. Row(m) => Ex!Remaining(m) = DbRemaining(m)
  BY ExchangeSum DEF Ex!Remaining, FilledIsTraded, DbRemaining
<1>3. Row(m) /\ DbRemaining(m) > 0 <=> Open(m)
  BY <1>1, ConstantsAssumption DEF IInv, NoOverfill, Row, Open, DbRemaining, StatusFor
<1>4. m \in Ex!Facing(r) <=> Row(m) /\ Book(m) = Book(r) /\ Opposite(r, m) /\ DbRemaining(m) > 0
  BY <1>2 DEF Ex!Facing, Opposite
<1>5. /\ DbRemaining(m) \in Int
      /\ DbOpen(Book(r), m) = IF Book(m) = Book(r) /\ Open(m) THEN DbRemaining(m) ELSE 0
  BY <1>1 DEF DbOpen, DbRemaining
<1> QED
  BY <1>2, <1>3, <1>4, <1>5

\* The order of the exchange is the order of the book.
LEMMA AheadInBook ==
    ASSUME TypeOK, NEW r \in Orders, NEW o \in Orders, NEW m \in Orders, NotAhead(r, o, m)
    PROVE  ~ Ex!Ahead(r, o, m)
<1>1. /\ input[o].price \in Nat /\ input[m].price \in Nat
      /\ createdAt[o] \in Nat /\ createdAt[m] \in Nat
      /\ input[r].side \in {"BUY", "SELL"}
  BY ConstantsAssumption DEF TypeOK
<1> QED
  BY <1>1 DEF NotAhead, BetterPrice, Ex!Ahead

\* What a call in its transaction has matched.
LEMMA MatchedSum ==
    ASSUME IInv, FilledInv, NEW r \in Orders, pc[r] = "tx"
    PROVE  /\ SumFunctionOnSet(trades[r], Orders) \in Int
           /\ input[r].quantity = left[r] + SumFunctionOnSet(trades[r], Orders)
<1>1. trades[r] \in [Orders -> 0..MaxQuantity] /\ IsFiniteSet(Orders)
  BY ConstantsAssumption DEF IInv, TypeOK
<1>2. \A m \in Orders : trades[r][m] \in Int
  BY <1>1, ConstantsAssumption
<1>3. SumFunctionOnSet(trades[r], Orders) \in Int
  BY <1>1, <1>2, SumEquations
<1> QED
  BY <1>3 DEF FilledInv

\* A commit takes from the open rows what the exchange would take.
LEMMA CommitMatches ==
    ASSUME IInv, FilledInv, FilledIsTraded, PriorityInv, NEW r \in Orders, TxCommit(r)
    PROVE  Ex!Matches(r, trades[r])
<1>a. /\ TypeOK /\ BookInv /\ LegalInv /\ Book(r) \in Books /\ pc[r] = "tx"
      /\ IsFiniteSet(Orders)
  BY ConstantsAssumption DEF IInv, TypeOK, TxCommit
<1>1. /\ left[r] \in Nat /\ input[r].quantity \in Nat
      /\ \A m \in Orders : trades[r][m] \in Nat /\ rest[Book(r)][m] \in Nat
  BY <1>a, ConstantsAssumption DEF TypeOK
<1>2. \A m \in Orders : rest[Book(r)][m] + trades[r][m] = DbOpen(Book(r), m)
  BY <1>a DEF BookInv
<1>3. /\ SumFunctionOnSet(trades[r], Orders) \in Int
      /\ input[r].quantity = left[r] + SumFunctionOnSet(trades[r], Orders)
  BY <1>a, MatchedSum
<1>4. Ex!SumFunctionOnSet(trades[r], Orders) = SumFunctionOnSet(trades[r], Orders)
  BY ExchangeSum
<1>5. ASSUME NEW m \in Orders, trades[r][m] > 0
      PROVE  m \in Ex!Facing(r) /\ Ex!Accepts(r, m) /\ trades[r][m] <= Ex!Remaining(m)
  <2>1. Opposite(r, m) /\ canMatch(r, m)
    BY <1>5, <1>a DEF LegalInv, Legal
  <2>2. DbOpen(Book(r), m) > 0 /\ trades[r][m] <= DbOpen(Book(r), m)
    BY <1>1, <1>2, <1>5
  <2>3. m \in Ex!Facing(r) /\ Ex!Remaining(m) = DbOpen(Book(r), m)
    BY <2>1, <2>2, FacingIsOpen
  <2> QED
    BY <2>1, <2>2, <2>3 DEF canMatch, Ex!Accepts
<1>6. ASSUME NEW o \in Ex!Facing(r), trades[r][o] < Ex!Remaining(o)
      PROVE  /\ \A m \in Orders : trades[r][m] > 0 => ~ Ex!Ahead(r, o, m)
             /\ left[r] > 0 => ~ Ex!Accepts(r, o)
  <2>1. o \in Orders
    BY <1>6 DEF Ex!Facing
  <2>2. Opposite(r, o) /\ Ex!Remaining(o) = DbOpen(Book(r), o)
    BY <1>6, <2>1, FacingIsOpen
  <2>3. rest[Book(r)][o] > 0
    BY <1>1, <1>2, <1>6, <2>1, <2>2
  <2>4. ASSUME NEW m \in Orders, trades[r][m] > 0 PROVE ~ Ex!Ahead(r, o, m)
    <3>1. CASE o # m
      BY <3>1, <2>1, <2>2, <2>3, <2>4, <1>a, AheadInBook DEF PriorityInv
    <3>2. CASE o = m
      <4>1. createdAt[o] \in Nat
        BY <2>1, <1>a DEF TypeOK
      <4> QED
        BY <3>2, <4>1 DEF Ex!Ahead
    <3> QED
      BY <3>1, <3>2
  <2>5. left[r] > 0 => ~ canMatch(r, o)
    BY <2>1, <2>2, <2>3, <1>a DEF PriorityInv
  <2> QED
    BY <2>4, <2>5 DEF canMatch, Ex!Accepts
<1>7. /\ SumFunctionOnSet(trades[r], Orders) <= input[r].quantity
      /\ SumFunctionOnSet(trades[r], Orders) < input[r].quantity => left[r] > 0
  BY <1>1, <1>3
<1> QED
  BY <1>4, <1>5, <1>6, <1>7 DEF Ex!Matches

\* A commit places its order in the exchange.
LEMMA CommitPlaces ==
    ASSUME IInv, FilledInv, FilledIsTraded, PlaceInv, PriorityInv, NEW r \in Orders, TxCommit(r)
    PROVE  Ex!Place(r)
<1>a. /\ TypeOK /\ RowsFollowCalls /\ BookInv /\ LegalInv /\ Book(r) \in Books
      /\ IsFiniteSet(Orders) /\ pc[r] = "tx" /\ input' = input /\ MakersExist(r)
      /\ dbTrades' = [dbTrades EXCEPT ![r] = trades[r]]
  BY ConstantsAssumption DEF IInv, TypeOK, TxCommit
<1>1. ~ Row(r)
  BY <1>a DEF RowsFollowCalls
<1>2. ASSUME NEW m \in Ex!Facing(r) PROVE input[m].user # input[r].user
  <2>1. m \in Orders
    BY <1>2 DEF Ex!Facing
  <2>2. Opposite(r, m) /\ DbOpen(Book(r), m) > 0
    BY <1>2, <2>1, FacingIsOpen
  <2>3. /\ rest[Book(r)][m] + trades[r][m] = DbOpen(Book(r), m)
        /\ rest[Book(r)][m] \in Nat /\ trades[r][m] \in Nat
    BY <2>1, <1>a, ConstantsAssumption DEF BookInv, TypeOK
  <2>4. rest[Book(r)][m] > 0 \/ trades[r][m] > 0
    BY <2>2, <2>3
  <2> QED
    BY <2>1, <2>2, <2>4, <1>a DEF LegalInv, Legal
<1>3. trades[r] \in [Orders -> 0..input[r].quantity]
  <2>1. /\ trades[r] \in [Orders -> 0..MaxQuantity] /\ left[r] \in Nat
        /\ \A m \in Orders : trades[r][m] \in Nat
        /\ input[r].quantity \in Nat
    BY <1>a, ConstantsAssumption DEF TypeOK
  <2>2. /\ SumFunctionOnSet(trades[r], Orders) \in Int
        /\ input[r].quantity = left[r] + SumFunctionOnSet(trades[r], Orders)
    BY <1>a, MatchedSum
  <2>3. ASSUME NEW m \in Orders PROVE trades[r][m] \in 0..input[r].quantity
    <3>1. trades[r][m] <= SumFunctionOnSet(trades[r], Orders)
      BY <2>1, <1>a, SumBounds
    <3> QED
      BY <3>1, <2>1, <2>2
  <2> QED
    BY <2>1, <2>3
<1>4. {o \in Orders : Row(o)}' = {o \in Orders : Row(o)} \cup {r}
  <2>1. ASSUME NEW o \in Orders PROVE Row(o)' <=> Row(o) \/ o = r
    <3>1. status' = [x \in Orders |-> IF x = r \/ trades[r][x] > 0
                                      THEN StatusFor(filled'[x], input[x].quantity)
                                      ELSE status[x]]
      BY DEF TxCommit
    <3>2. StatusFor(filled'[o], input[o].quantity) # "none"
      BY DEF StatusFor
    <3> QED
      BY <3>1, <3>2, <1>a DEF Row, MakersExist
  <2> QED
    BY <2>1
<1>5. /\ createdAt' = [createdAt EXCEPT ![r] = createdAt'[r]]
      /\ \A o \in {o \in Orders : Row(o)} : createdAt[o] <= createdAt'[r]
  <2>1. /\ createdAt \in [Orders -> Nat] /\ clock \in Nat
        /\ clock' \in {clock, clock + 1} /\ createdAt' = [createdAt EXCEPT ![r] = clock']
    BY <1>a DEF TypeOK, TxCommit
  <2>2. createdAt'[r] = clock' /\ clock' \in Nat /\ clock <= clock'
    BY <2>1
  <2>3. \A o \in Orders : createdAt[o] <= clock
    BY DEF PlaceInv
  <2>4. \A o \in Orders : createdAt[o] <= createdAt'[r]
    BY <2>1, <2>2, <2>3
  <2> QED
    BY <2>1, <2>2, <2>4
<1> QED
  BY <1>1, <1>2, <1>3, <1>4, <1>5, <1>a, CommitMatches DEF Ex!Place

\* The matching service implements the exchange: whatever calls, rollbacks,
\* lost acknowledgements, crashes and rehydrations come between, the orders
\* and trades tables change by placing one order at a time, atomically and by
\* price and time (placeOrder).
THEOREM Linearizable == Spec => ImplementsExchange
<1>1. Init => Ex!Init
  BY DEF Init, Ex!Init, Row
<1>2. IInv /\ FilledInv /\ FilledIsTraded /\ PlaceInv /\ PriorityInv /\ [Next]_vars
         => [Ex!Next]_<<input, {o \in Orders : Row(o)}, createdAt, dbTrades>>
  <2> SUFFICES ASSUME IInv, FilledInv, FilledIsTraded, PlaceInv, PriorityInv, [Next]_vars
               PROVE  [Ex!Next]_<<input, {o \in Orders : Row(o)}, createdAt, dbTrades>>
    OBVIOUS
  <2>1. CASE \E r \in Orders : TxCommit(r)
    BY <2>1, CommitPlaces DEF Ex!Next
  <2>2. CASE \A r \in Orders : ~ TxCommit(r)
    BY <2>2, OnlyTxCommitWrites DEF Row
  <2> QED
    BY <2>1, <2>2
<1> QED
  BY <1>1, <1>2, InductiveInvariant, FilledInvariant, PriorityInvariant, PTL
     DEF Spec, ImplementsExchange, Ex!Spec
=============================================================================
