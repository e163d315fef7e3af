------------------------------ MODULE FiniteSums ------------------------------
(***************************************************************************)
(* Facts about SumFunction, the sum of a function with a finite domain,    *)
(* which the ledgers of the contracts are stated with.  SumFunction is     *)
(* defined by a recursive function over the subsets of the domain; the     *)
(* first lemmas show that this recursion has a solution, and the others    *)
(* follow from it by induction on subsets.  Induction is phrased with sets *)
(* ("a set of subsets that contains {} and is closed under adding the next *)
(* element is all of SUBSET S"), since that form needs no operator         *)
(* parameter.                                                              *)
(***************************************************************************)
EXTENDS Functions, FiniteSets, FiniteSetTheorems, WellFoundedInduction, TLAPS

(* The element at which the recursion of SumFunction splits a set.         *)
Split(T) == CHOOSE x \in T : TRUE

(* g solves the recursion of the sum of f on the sets of D.                *)
SumsOn(g, f, D) ==
  g = [T \in D |-> IF T = {} THEN 0 ELSE f[Split(T)] + g[T \ {Split(T)}]]

(* A set of naturals that contains 0 and is closed under successor is Nat. *)
LEMMA NatSetInduction ==
  ASSUME NEW G \in SUBSET Nat, 0 \in G, \A n \in G : n + 1 \in G
  PROVE  G = Nat
<1>1. SUFFICES ASSUME Nat \ G # {} PROVE FALSE
  OBVIOUS
<1>2. PICK m \in Nat \ G : \A k \in Nat \ G : ~(<<k, m>> \in OpToRel(<, Nat))
  BY <1>1, NatLessThanWellFounded, WFMin
<1>3. \A k \in Nat : k < m => k \in G
  BY <1>2 DEF OpToRel
<1>4. m # 0 /\ m - 1 \in Nat /\ m - 1 < m
  OBVIOUS
<1>5. m - 1 \in G
  BY <1>3, <1>4
<1>. QED
  BY <1>4, <1>5

(* Induction over the subsets of a finite set, one split at a time.        *)
LEMMA SubsetInduction ==
  ASSUME NEW S, IsFiniteSet(S), NEW G \in SUBSET SUBSET S, {} \in G,
         \A T \in SUBSET S : T # {} /\ T \ {Split(T)} \in G => T \in G
  PROVE  S \in G
<1>1. SUFFICES ASSUME (SUBSET S) \ G # {} PROVE FALSE
  OBVIOUS
<1>2. IsWellFoundedOn(StrictSubsetOrdering(S), SUBSET S)
  BY FS_StrictSubsetOrderingWellFounded, FS_FiniteSubsetsOfFinite
<1>3. PICK T \in (SUBSET S) \ G :
        \A U \in (SUBSET S) \ G : ~(<<U, T>> \in StrictSubsetOrdering(S))
  <2> DEFINE B == (SUBSET S) \ G
  <2>1. B \subseteq SUBSET S /\ B # {}
    BY <1>1
  <2> HIDE DEF B
  <2>2. \E T \in B : \A U \in B : ~(<<U, T>> \in StrictSubsetOrdering(S))
    BY <1>2, <2>1, WFMin
  <2>. QED
    BY <2>2 DEF B
<1>4. T # {} /\ Split(T) \in T
  <2>1. T # {}
    BY <1>3, Zenon
  <2>. QED
    BY <2>1, Zenon DEF Split
<1>5. T \ {Split(T)} \in SUBSET S /\ <<T \ {Split(T)}, T>> \in StrictSubsetOrdering(S)
  BY <1>3, <1>4 DEF StrictSubsetOrdering
<1>6. T \ {Split(T)} \in G
  BY <1>3, <1>5
<1>. QED
  BY <1>3, <1>4, <1>6

(* The subsets of S with at most n elements.                               *)
UpTo(S, n) == {T \in SUBSET S : Cardinality(T) <= n}

LEMMA SplitProperties ==
  ASSUME NEW S, IsFiniteSet(S), NEW T \in SUBSET S, T # {}
  PROVE  /\ Split(T) \in T
         /\ T \ {Split(T)} \in SUBSET S
         /\ IsFiniteSet(T) /\ Cardinality(T) \in Nat \ {0}
         /\ Cardinality(T \ {Split(T)}) = Cardinality(T) - 1
<1>1. Split(T) \in T
  BY Zenon DEF Split
<1>2. IsFiniteSet(T)
  BY FS_Subset
<1>3. Cardinality(T) \in Nat /\ Cardinality(T) # 0
  BY <1>2, FS_CardinalityType, FS_EmptySet
<1>4. Cardinality(T \ {Split(T)}) = Cardinality(T) - 1
  BY <1>1, <1>2, FS_RemoveElement
<1>. QED
  BY <1>1, <1>2, <1>3, <1>4

(* The recursion has a solution on the subsets of every bounded size.      *)
LEMMA BoundedSolution ==
  ASSUME NEW S, IsFiniteSet(S), NEW f
  PROVE  \A n \in Nat : \E g : SumsOn(g, f, UpTo(S, n))
<1> DEFINE G == {n \in Nat : \E g : SumsOn(g, f, UpTo(S, n))}
<1>1. 0 \in G
  <2> DEFINE g == [T \in UpTo(S, 0) |-> 0]
  <2>1. \A T \in UpTo(S, 0) : T = {}
    <3>1. SUFFICES ASSUME NEW T \in SUBSET S, Cardinality(T) <= 0, T # {} PROVE FALSE
      BY DEF UpTo
    <3>2. Cardinality(T) \in Nat \ {0}
      BY <3>1, SplitProperties
    <3>. QED
      BY <3>1, <3>2
  <2>2. SumsOn(g, f, UpTo(S, 0))
    BY <2>1 DEF SumsOn
  <2>. QED
    BY <2>2
<1>2. ASSUME NEW n \in G PROVE n + 1 \in G
  <2>1. PICK h : SumsOn(h, f, UpTo(S, n))
    BY <1>2
  <2> DEFINE g == [T \in UpTo(S, n + 1) |->
                     IF T = {} THEN 0 ELSE f[Split(T)] + h[T \ {Split(T)}]]
  <2>2. ASSUME NEW T \in UpTo(S, n + 1), T # {}
        PROVE  T \ {Split(T)} \in UpTo(S, n) /\ T \ {Split(T)} \in UpTo(S, n + 1)
    BY <2>2, SplitProperties DEF UpTo
  <2>3. ASSUME NEW T \in UpTo(S, n), T \in UpTo(S, n + 1) PROVE g[T] = h[T]
    BY <2>1, <2>3 DEF SumsOn
  <2>4. g = [T \in UpTo(S, n + 1) |->
               IF T = {} THEN 0 ELSE f[Split(T)] + g[T \ {Split(T)}]]
    <3>1. ASSUME NEW T \in UpTo(S, n + 1), T # {}
          PROVE  h[T \ {Split(T)}] = g[T \ {Split(T)}]
      BY <2>2, <2>3, <3>1
    <3>2. ASSUME NEW T \in UpTo(S, n + 1)
          PROVE  g[T] = IF T = {} THEN 0 ELSE f[Split(T)] + g[T \ {Split(T)}]
      BY <3>1, <3>2
    <3> HIDE DEF g
    <3>3. g = [T \in UpTo(S, n + 1) |-> g[T]]
      BY DEF g
    <3>. QED
      BY <3>2, <3>3
  <2> HIDE DEF g
  <2>5. SumsOn(g, f, UpTo(S, n + 1))
    BY <2>4, Zenon DEF SumsOn
  <2>6. \E e : SumsOn(e, f, UpTo(S, n + 1))
    BY <2>5, Zenon
  <2>. QED
    BY <1>2, <2>6
<1>3. G = Nat
  <2> HIDE DEF G
  <2>1. G \subseteq Nat
    BY DEF G
  <2>. QED
    BY <1>1, <1>2, <2>1, NatSetInduction
<1>. QED
  BY <1>3

(* g gives the sum of f over S, one split at a time.                       *)
Solves(g, f, S) ==
  /\ SumFunction(f) = g[S]
  /\ g[{}] = 0
  /\ \A T \in SUBSET S : T # {} => g[T] = f[Split(T)] + g[T \ {Split(T)}]

(* SumFunction(f) is the value at DOMAIN f of a solution of the recursion. *)
LEMMA SumSolution ==
  ASSUME NEW S, IsFiniteSet(S), NEW f, DOMAIN f = S
  PROVE  \E g : Solves(g, f, S)
<1>1. UpTo(S, Cardinality(S)) = SUBSET S
  BY FS_Subset DEF UpTo
<1>2. \E g : SumsOn(g, f, SUBSET S)
  <2>1. Cardinality(S) \in Nat
    BY FS_CardinalityType
  <2>2. \E g : SumsOn(g, f, UpTo(S, Cardinality(S)))
    BY <2>1, BoundedSolution, Zenon
  <2>. QED
    BY <1>1, <2>2
<1> DEFINE iter == CHOOSE g : SumsOn(g, f, SUBSET S)
<1>3. SumsOn(iter, f, SUBSET S)
  BY <1>2, Zenon
<1>4. SumFunction(f) = iter[S]
  BY DEF SumFunction, SumFunctionOnSet, FoldFunctionOnSet, MapThenFoldSet, SumsOn, Split
<1> HIDE DEF iter
<1>5. iter[{}] = 0
  BY <1>3 DEF SumsOn
<1>6. \A T \in SUBSET S : T # {} => iter[T] = f[Split(T)] + iter[T \ {Split(T)}]
  BY <1>3 DEF SumsOn
<1>7. Solves(iter, f, S)
  BY <1>4, <1>5, <1>6 DEF Solves
<1>. QED
  BY <1>7

(* The sum of integers is an integer, and of naturals a natural.           *)
LEMMA SumInt ==
  ASSUME NEW S, IsFiniteSet(S), NEW f \in [S -> Int]
  PROVE  SumFunction(f) \in Int
<1>1. PICK g : Solves(g, f, S)
  <2>1. DOMAIN f = S
    OBVIOUS
  <2>. QED
    BY <2>1, SumSolution, Zenon
<1> DEFINE G == {T \in SUBSET S : g[T] \in Int}
<1>2. {} \in G
  BY <1>1 DEF Solves
<1>3. ASSUME NEW T \in SUBSET S, T # {}, T \ {Split(T)} \in G PROVE T \in G
  <2>1. f[Split(T)] \in Int
    BY <1>3, SplitProperties, ZenonT(60)
  <2>2. g[T \ {Split(T)}] \in Int
    BY <1>3
  <2>3. g[T] = f[Split(T)] + g[T \ {Split(T)}]
    BY <1>1, <1>3 DEF Solves
  <2>. QED
    BY <2>1, <2>2, <2>3
<1>4. S \in G
  <2> HIDE DEF G
  <2>1. G \in SUBSET SUBSET S
    BY DEF G
  <2>. QED
    BY <1>2, <1>3, <2>1, SubsetInduction
<1>. QED
  BY <1>1, <1>4 DEF Solves

(* A linear inequality between two functions passes to their sums.         *)
LEMMA SumScaled ==
  ASSUME NEW S, IsFiniteSet(S), NEW f \in [S -> Int], NEW h \in [S -> Int],
         NEW c \in Int, NEW d \in Int,
         \A x \in S : c * f[x] <= d * h[x]
  PROVE  c * SumFunction(f) <= d * SumFunction(h)
<1>1. PICK g : Solves(g, f, S)
  <2>1. DOMAIN f = S
    OBVIOUS
  <2>. QED
    BY <2>1, SumSolution, Zenon
<1>2. PICK k : Solves(k, h, S)
  <2>1. DOMAIN h = S
    OBVIOUS
  <2>. QED
    BY <2>1, SumSolution, Zenon
<1> DEFINE G == {T \in SUBSET S : g[T] \in Int /\ k[T] \in Int /\ c * g[T] <= d * k[T]}
<1>3. {} \in G
  BY <1>1, <1>2 DEF Solves
<1>4. ASSUME NEW T \in SUBSET S, T # {}, T \ {Split(T)} \in G PROVE T \in G
  <2> DEFINE x == Split(T)
             U == T \ {Split(T)}
  <2>1. f[x] \in Int /\ h[x] \in Int /\ c * f[x] <= d * h[x]
    BY <1>4, SplitProperties
  <2>2. g[U] \in Int /\ k[U] \in Int /\ c * g[U] <= d * k[U]
    BY <1>4
  <2>3. g[T] = f[x] + g[U] /\ k[T] = h[x] + k[U]
    BY <1>1, <1>2, <1>4 DEF Solves
  <2> HIDE DEF x, U
  <2>4. c * (f[x] + g[U]) = c * f[x] + c * g[U] /\ d * (h[x] + k[U]) = d * h[x] + d * k[U]
    BY <2>1, <2>2
  <2>5. /\ c * f[x] \in Int /\ c * g[U] \in Int
        /\ d * h[x] \in Int /\ d * k[U] \in Int
    BY <2>1, <2>2
  <2>6. c * g[T] <= d * k[T]
    BY <2>1, <2>2, <2>3, <2>4, <2>5
  <2>. QED
    BY <2>1, <2>2, <2>3, <2>6
<1>5. S \in G
  <2> HIDE DEF G
  <2>1. G \in SUBSET SUBSET S
    BY DEF G
  <2>. QED
    BY <1>3, <1>4, <2>1, SubsetInduction
<1>. QED
  BY <1>1, <1>2, <1>5 DEF Solves

(* The sum of a pointwise sum.                                             *)
LEMMA SumOfSums ==
  ASSUME NEW S, IsFiniteSet(S), NEW f \in [S -> Int], NEW h \in [S -> Int]
  PROVE  SumFunction([x \in S |-> f[x] + h[x]]) = SumFunction(f) + SumFunction(h)
<1> DEFINE e == [x \in S |-> f[x] + h[x]]
<1>1. PICK g : Solves(g, f, S)
  <2>1. DOMAIN f = S
    OBVIOUS
  <2>. QED
    BY <2>1, SumSolution, Zenon
<1>2. PICK k : Solves(k, h, S)
  <2>1. DOMAIN h = S
    OBVIOUS
  <2>. QED
    BY <2>1, SumSolution, Zenon
<1>3. PICK l : Solves(l, e, S)
  <2>1. DOMAIN e = S
    OBVIOUS
  <2> HIDE DEF e
  <2>. QED
    BY <2>1, SumSolution, Zenon
<1> DEFINE G == {T \in SUBSET S : g[T] \in Int /\ k[T] \in Int /\ l[T] = g[T] + k[T]}
<1>4. {} \in G
  BY <1>1, <1>2, <1>3 DEF Solves
<1>5. ASSUME NEW T \in SUBSET S, T # {}, T \ {Split(T)} \in G PROVE T \in G
  <2>1. Split(T) \in S /\ f[Split(T)] \in Int /\ h[Split(T)] \in Int
    BY <1>5, SplitProperties
  <2> DEFINE x == Split(T)
             U == T \ {Split(T)}
  <2>2. e[x] = f[x] + h[x]
    BY <2>1
  <2>3. g[U] \in Int /\ k[U] \in Int /\ l[U] = g[U] + k[U]
    BY <1>5
  <2> HIDE DEF e
  <2>4. g[T] = f[x] + g[U] /\ k[T] = h[x] + k[U] /\ l[T] = e[x] + l[U]
    BY <1>1, <1>2, <1>3, <1>5 DEF Solves
  <2> HIDE DEF x, U
  <2>5. g[T] \in Int /\ k[T] \in Int /\ l[T] = g[T] + k[T]
    BY <2>1, <2>2, <2>3, <2>4 DEF x
  <2>. QED
    BY <2>5
<1>6. S \in G
  <2> HIDE DEF G
  <2>1. G \in SUBSET SUBSET S
    BY DEF G
  <2>. QED
    BY <1>4, <1>5, <2>1, SubsetInduction
<1> HIDE DEF e
<1>7. SumFunction(e) = SumFunction(f) + SumFunction(h)
  BY <1>1, <1>2, <1>3, <1>6 DEF Solves
<1>. QED
  BY <1>7 DEF e

LEMMA OwnDoubleIsZero ==
  ASSUME NEW n \in Int, n = n + n
  PROVE  n = 0
OBVIOUS

(* A function that is zero everywhere sums to zero.                        *)
LEMMA SumZero ==
  ASSUME NEW S, IsFiniteSet(S), NEW f \in [S -> Int], \A x \in S : f[x] = 0
  PROVE  SumFunction(f) = 0
<1>1. SumFunction(f) \in Int
  BY SumInt
<1>2. SumFunction([x \in S |-> f[x] + f[x]]) = SumFunction(f) + SumFunction(f)
  BY SumOfSums
<1>3. [x \in S |-> f[x] + f[x]] = f
  OBVIOUS
<1>4. SumFunction(f) = SumFunction(f) + SumFunction(f)
  BY <1>2, <1>3, Zenon
<1>. QED
  BY <1>1, <1>4, OwnDoubleIsZero, Zenon

(* Pointwise smaller functions have smaller sums.                          *)
LEMMA SumMonotone ==
  ASSUME NEW S, IsFiniteSet(S), NEW f \in [S -> Int], NEW h \in [S -> Int],
         \A x \in S : f[x] <= h[x]
  PROVE  SumFunction(f) <= SumFunction(h)
<1>1. 1 * SumFunction(f) <= 1 * SumFunction(h)
  BY SumScaled
<1>. QED
  BY <1>1, SumInt

LEMMA SumNat ==
  ASSUME NEW S, IsFiniteSet(S), NEW f \in [S -> Nat]
  PROVE  SumFunction(f) \in Nat
<1> DEFINE z == [x \in S |-> 0]
<1>1. SumFunction(z) = 0
  BY SumZero
<1>2. SumFunction(z) <= SumFunction(f)
  BY SumMonotone
<1>3. SumFunction(f) \in Int
  BY SumInt
<1> HIDE DEF z
<1>. QED
  BY <1>1, <1>2, <1>3

(* A function that is d at one point and 0 elsewhere sums to d.            *)
LEMMA SumSingle ==
  ASSUME NEW S, IsFiniteSet(S), NEW x \in S, NEW d \in Int
  PROVE  SumFunction([y \in S |-> IF y = x THEN d ELSE 0]) = d
<1> DEFINE f == [y \in S |-> IF y = x THEN d ELSE 0]
<1>1. PICK g : Solves(g, f, S)
  <2>1. DOMAIN f = S
    OBVIOUS
  <2> HIDE DEF f
  <2>. QED
    BY <2>1, SumSolution, Zenon
<1> DEFINE G == {T \in SUBSET S : g[T] = IF x \in T THEN d ELSE 0}
<1>2. {} \in G
  BY <1>1 DEF Solves
<1>3. ASSUME NEW T \in SUBSET S, T # {}, T \ {Split(T)} \in G PROVE T \in G
  <2> DEFINE y == Split(T)
             U == T \ {Split(T)}
  <2>1. y \in T /\ y \in S /\ f[y] = IF y = x THEN d ELSE 0
    BY <1>3, SplitProperties
  <2>2. g[U] = IF x \in U THEN d ELSE 0
    BY <1>3
  <2>3. x \in U <=> x \in T /\ x # y
    OBVIOUS
  <2> HIDE DEF f
  <2>4. g[T] = f[y] + g[U]
    BY <1>1, <1>3 DEF Solves
  <2> HIDE DEF y, U
  <2>5. g[T] = IF x \in T THEN d ELSE 0
    BY <2>1, <2>2, <2>3, <2>4
  <2>. QED
    BY <2>5
<1>4. S \in G
  <2> HIDE DEF G
  <2>1. G \in SUBSET SUBSET S
    BY DEF G
  <2>. QED
    BY <1>2, <1>3, <2>1, SubsetInduction
<1> HIDE DEF f
<1>5. SumFunction(f) = d
  BY <1>1, <1>4 DEF Solves
<1>. QED
  BY <1>5 DEF f

(* Adding d at one point of a function adds d to its sum.                  *)
LEMMA SumUpdate ==
  ASSUME NEW S, IsFiniteSet(S), NEW f \in [S -> Int], NEW x \in S, NEW d \in Int
  PROVE  SumFunction([f EXCEPT ![x] = f[x] + d]) = SumFunction(f) + d
<1> DEFINE h == [y \in S |-> IF y = x THEN d ELSE 0]
<1>1. h \in [S -> Int] /\ SumFunction(h) = d
  BY SumSingle
<1>2. [y \in S |-> f[y] + h[y]] = [f EXCEPT ![x] = f[x] + d]
  <2>1. ASSUME NEW y \in S
        PROVE  f[y] + h[y] = [f EXCEPT ![x] = f[x] + d][y]
    <3>1. CASE y = x
      BY <3>1
    <3>2. CASE y # x
      BY <3>2
    <3>. QED
      BY <3>1, <3>2
  <2> HIDE DEF h
  <2>. QED
    BY <2>1
<1> HIDE DEF h
<1>3. SumFunction([y \in S |-> f[y] + h[y]]) = SumFunction(f) + SumFunction(h)
  BY <1>1, SumOfSums
<1>. QED
  BY <1>1, <1>2, <1>3

(* No term of a sum of naturals exceeds the sum.                           *)
LEMMA SumTerm ==
  ASSUME NEW S, IsFiniteSet(S), NEW f \in [S -> Nat], NEW x \in S
  PROVE  f[x] <= SumFunction(f)
<1> DEFINE h == [y \in S |-> IF y = x THEN f[x] ELSE 0]
<1>1. h \in [S -> Int] /\ SumFunction(h) = f[x]
  BY SumSingle
<1>2. SumFunction(h) <= SumFunction(f)
  <2>1. f \in [S -> Int] /\ \A y \in S : h[y] <= f[y]
    OBVIOUS
  <2> HIDE DEF h
  <2>. QED
    BY <1>1, <2>1, SumMonotone
<1>. QED
  BY <1>1, <1>2

(* The same for two functions that differ by d at one point only.          *)
LEMMA SumRaised ==
  ASSUME NEW S, IsFiniteSet(S), NEW f \in [S -> Int], NEW h \in [S -> Int],
         NEW x \in S, NEW d \in Int, h[x] = f[x] + d, \A y \in S \ {x} : h[y] = f[y]
  PROVE  SumFunction(h) = SumFunction(f) + d
<1>1. h = [f EXCEPT ![x] = f[x] + d]
  OBVIOUS
<1>2. SumFunction([f EXCEPT ![x] = f[x] + d]) = SumFunction(f) + d
  BY SumUpdate
<1>. QED
  BY <1>1, <1>2, Zenon

(* A sum is at most another one if every positive term has a term of its   *)
(* own in the other sum that is at least as large.                         *)
LEMMA SumInjection ==
  ASSUME NEW S, IsFiniteSet(S), NEW T, IsFiniteSet(T),
         NEW f \in [S -> Nat], NEW g \in [T -> Nat], NEW p,
         \A x \in S : f[x] > 0 => p[x] \in T /\ f[x] <= g[p[x]],
         \A x, y \in S : f[x] > 0 /\ f[y] > 0 /\ p[x] = p[y] => x = y
  PROVE  SumFunction(f) <= SumFunction(g)
<1> DEFINE Hit(U, t) == \E x \in U : f[x] > 0 /\ p[x] = t
           F(U) == [x \in S |-> IF x \in U THEN f[x] ELSE 0]
           H(U) == [t \in T |-> IF Hit(U, t) THEN g[t] ELSE 0]
           G == {U \in SUBSET S : SumFunction(F(U)) <= SumFunction(H(U))}
<1>1. \A U \in SUBSET S : F(U) \in [S -> Nat] /\ H(U) \in [T -> Nat]
  BY Zenon
<1>2. {} \in G
  <2>1. SumFunction(F({})) = 0
    <3>1. F({}) \in [S -> Int] /\ \A x \in S : F({})[x] = 0
      OBVIOUS
    <3> HIDE DEF F
    <3>. QED
      BY <3>1, SumZero
  <2>2. SumFunction(H({})) = 0
    <3>1. H({}) \in [T -> Int] /\ \A t \in T : H({})[t] = 0
      OBVIOUS
    <3> HIDE DEF H
    <3>. QED
      BY <3>1, SumZero
  <2> HIDE DEF F, H
  <2>. QED
    BY <2>1, <2>2
<1>3. ASSUME NEW U \in SUBSET S, U # {}, U \ {Split(U)} \in G PROVE U \in G
  <2> DEFINE x == Split(U)
             V == U \ {x}
  <2>1. x \in U /\ x \in S /\ V \in SUBSET S /\ f[x] \in Nat
    BY <1>3, SplitProperties
  <2>2. SumFunction(F(V)) <= SumFunction(H(V))
    BY <1>3
  <2> HIDE DEF x
  <2>3. SumFunction(F(U)) = SumFunction(F(V)) + f[x]
    <3>1. F(U)[x] = F(V)[x] + f[x] /\ \A y \in S \ {x} : F(U)[y] = F(V)[y]
      BY <2>1
    <3>2. F(U) \in [S -> Int] /\ F(V) \in [S -> Int] /\ f[x] \in Int
      BY <1>1, <2>1
    <3> HIDE DEF F, V
    <3>. QED
      BY <2>1, <3>1, <3>2, SumRaised
  <2>4. SumFunction(H(V)) + f[x] <= SumFunction(H(U))
    <3>1. SumFunction(H(V)) \in Nat
      <4> HIDE DEF H, V
      <4>. QED
        BY <1>1, <2>1, SumNat
    <3>2. CASE f[x] = 0
      <4>1. H(U) = H(V)
        <5>1. \A t \in T : Hit(U, t) <=> Hit(V, t)
          BY <2>1, <3>2
        <5>. QED
          BY <5>1, Zenon
      <4> HIDE DEF H, V
      <4>. QED
        BY <3>1, <3>2, <4>1
    <3>3. CASE f[x] > 0
      <4>1. p[x] \in T /\ f[x] <= g[p[x]] /\ g[p[x]] \in Nat
        BY <2>1, <3>3
      <4>2. Hit(U, p[x]) /\ ~Hit(V, p[x])
        BY <2>1, <3>3
      <4>3. \A t \in T \ {p[x]} : Hit(U, t) <=> Hit(V, t)
        BY <2>1
      <4>4. /\ H(U)[p[x]] = H(V)[p[x]] + g[p[x]]
            /\ \A t \in T \ {p[x]} : H(U)[t] = H(V)[t]
        <5> HIDE DEF Hit, V
        <5>. QED
          BY <4>1, <4>2, <4>3
      <4>5. H(U) \in [T -> Int] /\ H(V) \in [T -> Int] /\ g[p[x]] \in Int
        BY <1>1, <2>1, <4>1
      <4> HIDE DEF H, V
      <4>6. SumFunction(H(U)) = SumFunction(H(V)) + g[p[x]]
        <5> DEFINE t == p[x]
        <5>1. t \in T
          BY <4>1
        <5> HIDE DEF t
        <5>. QED
          BY <4>4, <4>5, <5>1, SumRaised DEF t
      <4>. QED
        BY <2>1, <3>1, <4>1, <4>6
    <3>. QED
      BY <2>1, <3>2, <3>3
  <2>5. SumFunction(F(V)) \in Int /\ SumFunction(H(V)) \in Int
        /\ SumFunction(H(U)) \in Int
    <3>1. F(V) \in [S -> Int] /\ H(V) \in [T -> Int] /\ H(U) \in [T -> Int]
      BY <1>1, <2>1
    <3> HIDE DEF F, H, V
    <3>. QED
      BY <3>1, SumInt
  <2> HIDE DEF F, H, V
  <2>6. SumFunction(F(U)) <= SumFunction(H(U))
    BY <2>1, <2>2, <2>3, <2>4, <2>5
  <2>. QED
    BY <2>6
<1>4. S \in G
  <2> HIDE DEF G
  <2>1. G \in SUBSET SUBSET S
    BY DEF G
  <2>. QED
    BY <1>2, <1>3, <2>1, SubsetInduction
<1>5. SumFunction(F(S)) <= SumFunction(H(S))
  BY <1>4
<1>6. F(S) = f
  OBVIOUS
<1>7. SumFunction(H(S)) <= SumFunction(g)
  <2>1. H(S) \in [T -> Int] /\ g \in [T -> Int] /\ \A t \in T : H(S)[t] <= g[t]
    OBVIOUS
  <2> HIDE DEF H
  <2>. QED
    BY <2>1, SumMonotone
<1>8. SumFunction(f) \in Nat /\ SumFunction(g) \in Nat /\ SumFunction(H(S)) \in Nat
  <2>1. H(S) \in [T -> Nat]
    BY <1>1
  <2> HIDE DEF H
  <2>. QED
    BY <2>1, SumNat
<1> HIDE DEF F, H
<1>. QED
  BY <1>5, <1>6, <1>7, <1>8

(* A factor can be taken out of a sum.                                     *)
LEMMA SumTimes ==
  ASSUME NEW S, IsFiniteSet(S), NEW f \in [S -> Int], NEW h \in [S -> Int],
         NEW c \in Int, \A x \in S : h[x] = c * f[x]
  PROVE  SumFunction(h) = c * SumFunction(f)
<1>1. \A x \in S : 1 * h[x] <= c * f[x] /\ c * f[x] <= 1 * h[x]
  <2> SUFFICES ASSUME NEW x \in S PROVE 1 * h[x] <= c * f[x] /\ c * f[x] <= 1 * h[x]
    OBVIOUS
  <2>1. h[x] \in Int /\ h[x] = c * f[x]
    OBVIOUS
  <2>. QED
    BY <2>1
<1>2. 1 \in Int
  OBVIOUS
<1>3. 1 * SumFunction(h) <= c * SumFunction(f)
  BY <1>1, <1>2, SumScaled, Zenon
<1>4. c * SumFunction(f) <= 1 * SumFunction(h)
  BY <1>1, <1>2, SumScaled, Zenon
<1>5. SumFunction(f) \in Int /\ SumFunction(h) \in Int
  BY SumInt
<1>. QED
  BY <1>3, <1>4, <1>5

(* A set has as many elements as its indicator function sums to.           *)
LEMMA SumIndicator ==
  ASSUME NEW S, IsFiniteSet(S), NEW T \in SUBSET S
  PROVE  SumFunction([x \in S |-> IF x \in T THEN 1 ELSE 0]) = Cardinality(T)
<1> DEFINE F(U) == [x \in S |-> IF x \in U THEN 1 ELSE 0]
           G == {U \in SUBSET S : SumFunction(F(U)) = Cardinality(U)}
<1>1. {} \in G
  <2>1. F({}) \in [S -> Int] /\ \A x \in S : F({})[x] = 0
    OBVIOUS
  <2> HIDE DEF F
  <2>2. SumFunction(F({})) = 0
    BY <2>1, SumZero
  <2>. QED
    BY <2>2, FS_EmptySet
<1>2. ASSUME NEW U \in SUBSET S, U # {}, U \ {Split(U)} \in G PROVE U \in G
  <2> DEFINE x == Split(U)
             V == U \ {x}
  <2>1. x \in U /\ x \in S /\ Cardinality(V) = Cardinality(U) - 1
        /\ Cardinality(U) \in Nat
    BY <1>2, SplitProperties
  <2>2. SumFunction(F(V)) = Cardinality(V)
    BY <1>2
  <2> HIDE DEF x
  <2>3. F(U)[x] = F(V)[x] + 1 /\ \A y \in S \ {x} : F(U)[y] = F(V)[y]
    BY <2>1
  <2>4. F(U) \in [S -> Int] /\ F(V) \in [S -> Int] /\ 1 \in Int
    OBVIOUS
  <2> HIDE DEF F, V
  <2>5. SumFunction(F(U)) = SumFunction(F(V)) + 1
    BY <2>1, <2>3, <2>4, SumRaised
  <2>6. SumFunction(F(U)) = Cardinality(U)
    BY <2>1, <2>2, <2>5
  <2>. QED
    BY <2>6
<1> HIDE DEF G
<1>3. T \in G
  <2> DEFINE GT == G \cap SUBSET T
  <2>1. {} \in GT
    BY <1>1
  <2>2. ASSUME NEW U \in SUBSET T, U # {}, U \ {Split(U)} \in GT PROVE U \in GT
    BY <1>2, <2>2
  <2>3. GT \in SUBSET SUBSET T /\ IsFiniteSet(T)
    BY FS_Subset
  <2> HIDE DEF GT
  <2>4. T \in GT
    BY <2>1, <2>2, <2>3, SubsetInduction
  <2>. QED
    BY <2>4 DEF GT
<1>. QED
  BY <1>3 DEF G
===============================================================================
