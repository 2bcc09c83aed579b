------------------------------- MODULE SumLemmas -------------------------------
(***************************************************************************)
(* Sums over finite sets, as SumFunctionOnSet computes them: the facts that *)
(* the proofs about counters need.  The recursive function behind the      *)
(* operator takes the elements one by one in an order of its own; the      *)
(* lemmas show that it exists, that it is the same whatever set it is      *)
(* started on, and that the order makes no difference.                     *)
(*                                                                         *)
(* Induction is by a smallest counterexample, which the well-foundedness   *)
(* of < on Nat and of strict inclusion on finite sets provides.            *)
(***************************************************************************)
EXTENDS FiniteSetsExt, FiniteSetTheorems, WellFoundedInduction, TLAPS

-------------------------------------------------------------------------------
(* Smallest counterexamples *)

\* A set of numbers has a smallest element.
LEMMA SmallestNumber ==
    ASSUME NEW T, T \subseteq Nat, T # {}
    PROVE  \E n \in T : \A m \in T : ~(m < n)
<1>1. PICK n \in T : \A m \in T : <<m, n>> \notin OpToRel(<, Nat)
  BY WFMin, NatLessThanWellFounded
<1> QED
  BY <1>1 DEF OpToRel

\* A set of subsets of a finite set has one that contains no other.
LEMMA SmallestSubset ==
    ASSUME NEW S, IsFiniteSet(S), NEW T, T \subseteq SUBSET S, T # {}
    PROVE  \E A \in T : \A B \in T : B \subseteq A => B = A
<1>1. T \subseteq FiniteSubsetsOf(S)
  BY FS_Subset DEF FiniteSubsetsOf
<1>2. PICK A \in T : \A B \in T : <<B, A>> \notin StrictSubsetOrdering(S)
  BY <1>1, WFMin, FS_StrictSubsetOrderingWellFounded
<1> QED
  BY <1>2 DEF StrictSubsetOrdering

-------------------------------------------------------------------------------
(* The recursive function behind SumFunctionOnSet *)

\* The element that is taken first, and the sum that remains.
First(s)         == CHOOSE x \in s : TRUE
SumStep(f, g, s) == IF s = {} THEN 0 ELSE f[First(s)] + g[s \ {First(s)}]

\* g sums up f over every subset of S.
SumsUp(f, g, S)  == g = [s \in SUBSET S |-> SumStep(f, g, s)]

LEMMA SumIsRecursive ==
    ASSUME NEW f, NEW S
    PROVE  SumFunctionOnSet(f, S) = (CHOOSE g : SumsUp(f, g, S))[S]
BY DEF SumFunctionOnSet, FoldFunctionOnSet, MapThenFoldSet, SumsUp, SumStep, First

\* g sums up f over the subsets of S with at most n elements.
SumsUpTo(f, g, S, n) ==
    /\ g = [s \in SUBSET S |-> g[s]]
    /\ \A s \in SUBSET S : Cardinality(s) <= n => g[s] = SumStep(f, g, s)

\* A function that sums up to n extends to one that sums up to n + 1.
LEMMA SumExtends ==
    ASSUME NEW f, NEW g, NEW S, IsFiniteSet(S), NEW n \in Nat, SumsUpTo(f, g, S, n)
    PROVE  \E h : SumsUpTo(f, h, S, n + 1)
<1> DEFINE h == [s \in SUBSET S |-> IF Cardinality(s) <= n THEN g[s] ELSE SumStep(f, g, s)]
<1>1. h = [s \in SUBSET S |-> h[s]]
  OBVIOUS
<1>2. ASSUME NEW s \in SUBSET S, Cardinality(s) <= n + 1 PROVE h[s] = SumStep(f, h, s)
  <2>1. h[s] = SumStep(f, g, s)
    BY DEF SumsUpTo
  <2>2. CASE s = {}
    BY <2>1, <2>2 DEF SumStep
  <2>3. CASE s # {}
    <3>1. First(s) \in s /\ s \ {First(s)} \in SUBSET S
      BY <2>3 DEF First
    <3>2. IsFiniteSet(s) /\ Cardinality(s) \in Nat
      BY FS_Subset, FS_CardinalityType
    <3>3. Cardinality(s \ {First(s)}) = Cardinality(s) - 1
      BY <3>1, <3>2, FS_RemoveElement
    <3>4. h[s \ {First(s)}] = g[s \ {First(s)}]
      BY <1>2, <3>1, <3>2, <3>3
    <3> QED
      BY <2>1, <2>3, <3>4 DEF SumStep
  <2> QED
    BY <2>2, <2>3
<1> HIDE DEF h
<1>3. SumsUpTo(f, h, S, n + 1)
  BY <1>1, <1>2 DEF SumsUpTo
<1> QED
  BY <1>3

\* So there is a function that sums up f over every subset of a finite set.
LEMMA SumExists == ASSUME NEW f, NEW S, IsFiniteSet(S) PROVE \E g : SumsUp(f, g, S)
<1> DEFINE T == {n \in Nat : ~ \E g : SumsUpTo(f, g, S, n)}
<1>1. 0 \notin T
  <2> DEFINE g == [s \in SUBSET S |-> 0]
  <2>1. \A s \in SUBSET S : Cardinality(s) <= 0 => s = {}
    BY FS_Subset, FS_CardinalityType, FS_EmptySet
  <2>2. SumsUpTo(f, g, S, 0)
    BY <2>1 DEF SumsUpTo, SumStep
  <2> QED
    BY <2>2
<1>2. T = {}
  <2> SUFFICES ASSUME T # {} PROVE FALSE
    OBVIOUS
  <2>1. PICK n \in T : \A m \in T : ~(m < n)
    BY SmallestNumber
  <2>2. n - 1 \in Nat /\ n - 1 \notin T /\ (n - 1) + 1 = n
    BY <1>1, <2>1
  <2>3. PICK g : SumsUpTo(f, g, S, n - 1)
    BY <2>2
  <2> QED
    BY <2>1, <2>2, <2>3, SumExtends
<1>3. Cardinality(S) \in Nat
  BY FS_CardinalityType
<1>4. PICK g : SumsUpTo(f, g, S, Cardinality(S))
  BY <1>2, <1>3
<1>5. \A s \in SUBSET S : Cardinality(s) <= Cardinality(S)
  BY FS_Subset
<1>6. SumsUp(f, g, S)
  BY <1>4, <1>5 DEF SumsUpTo, SumsUp
<1> QED
  BY <1>6

\* What it gives for a set does not depend on the set it was defined for.
LEMMA SumIsUnique ==
    ASSUME NEW f, NEW S, IsFiniteSet(S), NEW g, SumsUp(f, g, S),
           NEW R \in SUBSET S, NEW h, SumsUp(f, h, R), NEW A \in SUBSET R
    PROVE  g[A] = h[A]
<1> DEFINE T == {B \in SUBSET R : g[B] # h[B]}
<1> SUFFICES ASSUME T # {} PROVE FALSE
  OBVIOUS
<1>1. IsFiniteSet(R)
  BY FS_Subset
<1>2. PICK B \in T : \A C \in T : C \subseteq B => C = B
  <2>1. T \subseteq SUBSET R
    OBVIOUS
  <2> HIDE DEF T
  <2> QED
    BY <1>1, <2>1, SmallestSubset
<1>3. B \in SUBSET S /\ g[B] = SumStep(f, g, B) /\ h[B] = SumStep(f, h, B)
  BY DEF SumsUp
<1>4. B # {}
  BY <1>3 DEF SumStep
<1>5. First(B) \in B /\ B \ {First(B)} \in SUBSET R /\ B \ {First(B)} # B
  BY <1>4 DEF First
<1>6. g[B \ {First(B)}] = h[B \ {First(B)}]
  BY <1>2, <1>5
<1> QED
  BY <1>2, <1>3, <1>6 DEF SumStep

\* The equation by which SumFunctionOnSet was defined.
LEMMA SumEquation ==
    ASSUME NEW f, NEW S, IsFiniteSet(S)
    PROVE  SumFunctionOnSet(f, S) =
               IF S = {} THEN 0
                         ELSE f[First(S)] + SumFunctionOnSet(f, S \ {First(S)})
<1> DEFINE G(R) == CHOOSE g : SumsUp(f, g, R)
<1>1. SumsUp(f, G(S), S)
  BY SumExists
<1>2. G(S)[S] = SumStep(f, G(S), S)
  BY <1>1 DEF SumsUp
<1>3. CASE S = {}
  BY <1>2, <1>3, SumIsRecursive DEF SumStep
<1>4. CASE S # {}
  <2> DEFINE R == S \ {First(S)}
  <2>1. R \in SUBSET S /\ IsFiniteSet(R)
    BY FS_Subset
  <2>2. SumsUp(f, G(R), R)
    BY <2>1, SumExists
  <2> HIDE DEF R
  <2>3. G(S)[R] = G(R)[R]
    BY <1>1, <2>1, <2>2, SumIsUnique
  <2> QED
    BY <1>2, <1>4, <2>3, SumIsRecursive DEF SumStep, R
<1> QED
  BY <1>3, <1>4

-------------------------------------------------------------------------------
(* Sums of natural numbers *)

\* A sum of natural numbers is one.
LEMMA SumNat ==
    ASSUME NEW f, NEW S, IsFiniteSet(S), \A x \in S : f[x] \in Nat
    PROVE  SumFunctionOnSet(f, S) \in Nat
<1> DEFINE T == {A \in SUBSET S : SumFunctionOnSet(f, A) \notin Nat}
<1> SUFFICES ASSUME T # {} PROVE FALSE
  OBVIOUS
<1>1. PICK A \in T : \A B \in T : B \subseteq A => B = A
  <2>1. T \subseteq SUBSET S
    OBVIOUS
  <2> HIDE DEF T
  <2> QED
    BY <2>1, SmallestSubset
<1>2. IsFiniteSet(A) /\ A # {}
  <2>1. IsFiniteSet(A) /\ IsFiniteSet({})
    BY FS_Subset, FS_EmptySet
  <2>2. \A h : SumFunctionOnSet(h, {}) = 0
    BY <2>1, SumEquation
  <2> QED
    BY <2>1, <2>2
<1>3. First(A) \in A /\ A \ {First(A)} \in SUBSET S /\ A \ {First(A)} # A
  BY <1>2 DEF First
<1>4. SumFunctionOnSet(f, A \ {First(A)}) \in Nat
  BY <1>1, <1>3
<1>5. SumFunctionOnSet(f, A) = f[First(A)] + SumFunctionOnSet(f, A \ {First(A)})
  BY <1>2, SumEquation
<1> QED
  BY <1>3, <1>4, <1>5

\* Equal terms have equal sums.
LEMMA SumSame ==
    ASSUME NEW f, NEW g, NEW S, IsFiniteSet(S), \A x \in S : f[x] = g[x]
    PROVE  SumFunctionOnSet(f, S) = SumFunctionOnSet(g, S)
<1> DEFINE T == {A \in SUBSET S : SumFunctionOnSet(f, A) # SumFunctionOnSet(g, A)}
<1> SUFFICES ASSUME T # {} PROVE FALSE
  OBVIOUS
<1>1. PICK A \in T : \A B \in T : B \subseteq A => B = A
  <2>1. T \subseteq SUBSET S
    OBVIOUS
  <2> HIDE DEF T
  <2> QED
    BY <2>1, SmallestSubset
<1>2. IsFiniteSet(A) /\ A # {}
  <2>1. IsFiniteSet(A) /\ IsFiniteSet({})
    BY FS_Subset, FS_EmptySet
  <2>2. \A h : SumFunctionOnSet(h, {}) = 0
    BY <2>1, SumEquation
  <2> QED
    BY <2>1, <2>2
<1>3. First(A) \in A /\ A \ {First(A)} \in SUBSET S /\ A \ {First(A)} # A
  BY <1>2 DEF First
<1>4. SumFunctionOnSet(f, A \ {First(A)}) = SumFunctionOnSet(g, A \ {First(A)})
  BY <1>1, <1>3
<1>5. /\ SumFunctionOnSet(f, A) = f[First(A)] + SumFunctionOnSet(f, A \ {First(A)})
      /\ SumFunctionOnSet(g, A) = g[First(A)] + SumFunctionOnSet(g, A \ {First(A)})
  BY <1>2, SumEquation
<1> QED
  BY <1>1, <1>3, <1>4, <1>5

\* Whichever element is taken out of the set, its term is taken out of the sum.
LEMMA SumRemove ==
    ASSUME NEW f, NEW S, IsFiniteSet(S), \A x \in S : f[x] \in Nat, NEW z \in S
    PROVE  SumFunctionOnSet(f, S) = f[z] + SumFunctionOnSet(f, S \ {z})
<1> DEFINE T == {A \in SUBSET S : \E x \in A : SumFunctionOnSet(f, A) #
                                                f[x] + SumFunctionOnSet(f, A \ {x})}
<1> SUFFICES ASSUME T # {} PROVE FALSE
  OBVIOUS
<1>1. PICK A \in T : \A B \in T : B \subseteq A => B = A
  <2>1. T \subseteq SUBSET S
    OBVIOUS
  <2> HIDE DEF T
  <2> QED
    BY <2>1, SmallestSubset
<1>2. PICK x \in A : SumFunctionOnSet(f, A) # f[x] + SumFunctionOnSet(f, A \ {x})
  OBVIOUS
<1> DEFINE y == First(A)
<1>3. y \in A
  BY <1>2 DEF First
<1>4. SumFunctionOnSet(f, A) = f[y] + SumFunctionOnSet(f, A \ {y})
  BY <1>2, SumEquation, FS_Subset
<1> HIDE DEF y
<1>5. x # y
  BY <1>2, <1>4
<1>6. /\ A \ {y} \notin T /\ x \in A \ {y} /\ A \ {y} \in SUBSET S
      /\ A \ {x} \notin T /\ y \in A \ {x} /\ A \ {x} \in SUBSET S
  BY <1>1, <1>2, <1>3, <1>5
<1>7. SumFunctionOnSet(f, A \ {y}) = f[x] + SumFunctionOnSet(f, (A \ {y}) \ {x})
  BY <1>6
<1>8. SumFunctionOnSet(f, A \ {x}) = f[y] + SumFunctionOnSet(f, (A \ {x}) \ {y})
  BY <1>6
<1>9. (A \ {x}) \ {y} = (A \ {y}) \ {x} /\ (A \ {y}) \ {x} \in SUBSET S
  OBVIOUS
<1>10. SumFunctionOnSet(f, (A \ {y}) \ {x}) \in Nat
  <2>1. IsFiniteSet((A \ {y}) \ {x})
    BY <1>9, FS_Subset
  <2> QED
    BY <1>9, <2>1, SumNat
<1>11. f[x] \in Nat /\ f[y] \in Nat
  BY <1>2, <1>3
<1> HIDE DEF T
<1> QED
  BY <1>2, <1>4, <1>7, <1>8, <1>9, <1>10, <1>11

\* No term exceeds the sum.
LEMMA SumMember ==
    ASSUME NEW f, NEW S, IsFiniteSet(S), \A x \in S : f[x] \in Nat, NEW z \in S
    PROVE  f[z] <= SumFunctionOnSet(f, S)
<1>1. IsFiniteSet(S \ {z})
  BY FS_RemoveElement
<1>2. SumFunctionOnSet(f, S \ {z}) \in Nat
  BY <1>1, SumNat
<1> QED
  BY <1>2, SumRemove

\* If one term changes, the sum changes by as much.
LEMMA SumChange ==
    ASSUME NEW f, NEW g, NEW S, IsFiniteSet(S), \A x \in S : f[x] \in Nat /\ g[x] \in Nat,
           NEW z \in S, \A x \in S : x # z => g[x] = f[x]
    PROVE  SumFunctionOnSet(g, S) + f[z] = SumFunctionOnSet(f, S) + g[z]
<1>1. IsFiniteSet(S \ {z})
  BY FS_RemoveElement
<1>2. SumFunctionOnSet(g, S \ {z}) = SumFunctionOnSet(f, S \ {z})
  BY <1>1, SumSame
<1>3. SumFunctionOnSet(f, S \ {z}) \in Nat
  BY <1>1, SumNat
<1>4. SumFunctionOnSet(f, S) = f[z] + SumFunctionOnSet(f, S \ {z})
  BY SumRemove
<1>5. SumFunctionOnSet(g, S) = g[z] + SumFunctionOnSet(g, S \ {z})
  BY SumRemove
<1> QED
  BY <1>2, <1>3, <1>4, <1>5

\* One term that grows by one makes the sum grow by one.
LEMMA SumIncrement ==
    ASSUME NEW f, NEW g, NEW S, IsFiniteSet(S), \A x \in S : f[x] \in Nat,
           NEW z \in S, \A x \in S : g[x] = IF x = z THEN f[x] + 1 ELSE f[x]
    PROVE  SumFunctionOnSet(g, S) = SumFunctionOnSet(f, S) + 1
<1>1. \A x \in S : g[x] \in Nat
  OBVIOUS
<1>2. SumFunctionOnSet(g, S) + f[z] = SumFunctionOnSet(f, S) + g[z]
  BY <1>1, SumChange
<1>3. SumFunctionOnSet(f, S) \in Nat /\ SumFunctionOnSet(g, S) \in Nat
  BY <1>1, SumNat
<1> QED
  BY <1>2, <1>3

\* Terms that are nowhere greater have a sum that is not greater.
LEMMA SumMonotone ==
    ASSUME NEW f, NEW g, NEW S, IsFiniteSet(S),
           \A x \in S : f[x] \in Nat /\ g[x] \in Nat /\ f[x] <= g[x]
    PROVE  SumFunctionOnSet(f, S) <= SumFunctionOnSet(g, S)
<1> DEFINE T == {A \in SUBSET S : ~(SumFunctionOnSet(f, A) <= SumFunctionOnSet(g, A))}
<1> SUFFICES ASSUME T # {} PROVE FALSE
  OBVIOUS
<1>1. PICK A \in T : \A B \in T : B \subseteq A => B = A
  <2>1. T \subseteq SUBSET S
    OBVIOUS
  <2> HIDE DEF T
  <2> QED
    BY <2>1, SmallestSubset
<1>2. IsFiniteSet(A) /\ A # {}
  <2>1. IsFiniteSet(A) /\ IsFiniteSet({})
    BY FS_Subset, FS_EmptySet
  <2>2. \A h : SumFunctionOnSet(h, {}) = 0
    BY <2>1, SumEquation
  <2> QED
    BY <2>1, <2>2
<1> DEFINE x == First(A)
<1>3. x \in A /\ A \ {x} \in SUBSET S /\ A \ {x} # A
  BY <1>2 DEF First
<1>4. /\ SumFunctionOnSet(f, A) = f[x] + SumFunctionOnSet(f, A \ {x})
      /\ SumFunctionOnSet(g, A) = g[x] + SumFunctionOnSet(g, A \ {x})
  BY <1>2, SumEquation
<1> HIDE DEF x
<1>5. SumFunctionOnSet(f, A \ {x}) <= SumFunctionOnSet(g, A \ {x})
  BY <1>1, <1>3
<1>6. /\ SumFunctionOnSet(f, A \ {x}) \in Nat /\ SumFunctionOnSet(g, A \ {x}) \in Nat
      /\ f[x] \in Nat /\ g[x] \in Nat /\ f[x] <= g[x]
  <2>1. IsFiniteSet(A \ {x})
    BY <1>3, FS_Subset
  <2> QED
    BY <1>3, <2>1, SumNat
<1>7. ~(SumFunctionOnSet(f, A) <= SumFunctionOnSet(g, A))
  BY <1>1
<1> HIDE DEF T
<1> QED
  BY <1>4, <1>5, <1>6, <1>7

\* A sum does not exceed the number of its terms times a bound on each.
LEMMA SumBound ==
    ASSUME NEW f, NEW S, IsFiniteSet(S), NEW c \in Nat, \A x \in S : f[x] \in Nat /\ f[x] <= c
    PROVE  SumFunctionOnSet(f, S) <= c * Cardinality(S)
<1> DEFINE T == {A \in SUBSET S : ~(SumFunctionOnSet(f, A) <= c * Cardinality(A))}
<1> SUFFICES ASSUME T # {} PROVE FALSE
  OBVIOUS
<1>1. PICK A \in T : \A B \in T : B \subseteq A => B = A
  <2>1. T \subseteq SUBSET S
    OBVIOUS
  <2> HIDE DEF T
  <2> QED
    BY <2>1, SmallestSubset
<1>2. IsFiniteSet(A) /\ A # {}
  <2>1. IsFiniteSet(A) /\ IsFiniteSet({}) /\ Cardinality({}) = 0
    BY FS_Subset, FS_EmptySet
  <2>2. SumFunctionOnSet(f, {}) = 0
    BY <2>1, SumEquation
  <2>3. c * 0 = 0
    OBVIOUS
  <2>4. ~(SumFunctionOnSet(f, A) <= c * Cardinality(A))
    OBVIOUS
  <2>5. SumFunctionOnSet(f, {}) <= c * Cardinality({})
    BY <2>1, <2>2, <2>3
  <2> HIDE DEF T
  <2>6. A # {}
    BY <2>4, <2>5, Zenon
  <2> QED
    BY <2>1, <2>6
<1> DEFINE x == First(A)
<1>3. x \in A /\ A \ {x} \in SUBSET S /\ A \ {x} # A
  BY <1>2 DEF First
<1>4. SumFunctionOnSet(f, A) = f[x] + SumFunctionOnSet(f, A \ {x})
  BY <1>2, SumEquation
<1> HIDE DEF x
<1>5. /\ IsFiniteSet(A \ {x}) /\ Cardinality(A \ {x}) \in Nat
      /\ Cardinality(A) = Cardinality(A \ {x}) + 1
  <2>1. IsFiniteSet(A \ {x}) /\ Cardinality(A \ {x}) = Cardinality(A) - 1
    BY <1>2, <1>3, FS_RemoveElement
  <2>2. Cardinality(A) \in Nat /\ Cardinality(A \ {x}) \in Nat
    BY <1>2, <2>1, FS_CardinalityType
  <2> QED
    BY <2>1, <2>2
<1>6. SumFunctionOnSet(f, A \ {x}) <= c * Cardinality(A \ {x})
  BY <1>1, <1>3
<1>7. SumFunctionOnSet(f, A \ {x}) \in Nat /\ f[x] \in Nat /\ f[x] <= c
  BY <1>3, <1>5, SumNat
<1>8. c * Cardinality(A) = c * Cardinality(A \ {x}) + c /\ c * Cardinality(A \ {x}) \in Nat
  BY <1>5, SMT
<1>9. ~(SumFunctionOnSet(f, A) <= c * Cardinality(A))
  BY <1>1
<1> HIDE DEF T
<1> QED
  BY <1>4, <1>6, <1>7, <1>8, <1>9
===============================================================================
