------------------------------ MODULE SetLemmas ------------------------------
(***************************************************************************)
(* Facts about finite sets that the other proofs cite.  Sets of page       *)
(* numbers have a least and a greatest element: the first is the           *)
(* well-foundedness of < on Nat, the second the least of the bounds.  Sums *)
(* over a set are bounded, and grow with the set: an induction on the size *)
(* of a set is written as the search for a smallest one where it fails.    *)
(***************************************************************************)
EXTENDS FiniteSetTheorems, TLAPS

(* A set of naturals that is not empty has a least element.               *)
LEMMA HasLeast ==
    ASSUME NEW T, T \subseteq Nat, T # {}
    PROVE  \E x \in T : \A y \in T : x <= y
<1>. DEFINE R == OpToRel(<, Nat)
<1>1. IsWellFoundedOn(R, Nat)
  BY NatLessThanWellFounded
<1>2. PICK x \in T : \A y \in T : ~ (<<y, x>> \in R)
  <2>. HIDE DEF R
  <2>. QED BY <1>1, WFMin
<1>3. \A y \in T : <<y, x>> \in R <=> y < x
  BY DEF OpToRel
<1>4. \A y \in T : ~ (y < x)
  BY <1>2, <1>3
<1>. HIDE DEF R
<1>. QED
  BY <1>4

(* A bounded one has a greatest.                                           *)
LEMMA HasGreatest ==
    ASSUME NEW n \in Nat, NEW T, T \subseteq 0 .. n, T # {}
    PROVE  \E x \in T : \A y \in T : y <= x
<1>. DEFINE U == {k \in Nat : \A y \in T : y <= k}
<1>1. n \in U /\ U \subseteq Nat
  OBVIOUS
<1>2. PICK k \in U : \A j \in U : k <= j
  <2>. HIDE DEF U
  <2>. QED BY <1>1, HasLeast
<1>3. k \in T
  <2>. SUFFICES ASSUME k \notin T PROVE FALSE
    OBVIOUS
  <2>1. PICK y \in T : TRUE
    OBVIOUS
  <2>2. k - 1 \in Nat /\ \A z \in T : z <= k - 1
    BY <2>1
  <2>. QED BY <1>2, <2>2
<1>. QED BY <1>3

----------------------------------------------------------------------------
(* Sums.  MapThenSumSet defines a sum over a set by recursion on its       *)
(* subsets; that such a function exists, and what it is, follows by taking *)
(* a smallest set where it fails.                                          *)

Pick(s) == CHOOSE x \in s : TRUE

(* F adds up the weights w over each subset of T.                          *)
AddsUp(F, T, w) ==
    F = [s \in SUBSET T |-> IF s = {} THEN 0 ELSE w[Pick(s)] + F[s \ {Pick(s)}]]

(* A set that is not empty, and what is left when an element is taken.     *)
LEMMA TakeOne ==
    ASSUME NEW s, IsFiniteSet(s), NEW x \in s
    PROVE  /\ Pick(s) \in s
           /\ IsFiniteSet(s \ {x}) /\ Cardinality(s \ {x}) = Cardinality(s) - 1
           /\ Cardinality(s) \in Nat \ {0} /\ Cardinality(s \ {x}) \in Nat
<1>1. Pick(s) \in s
  BY DEF Pick
<1>2. IsFiniteSet(s \ {x}) /\ Cardinality(s \ {x}) = Cardinality(s) - 1
  BY FS_RemoveElement
<1>3. Cardinality(s) \in Nat /\ Cardinality(s \ {x}) \in Nat
  BY <1>2, FS_CardinalityType
<1>. QED
  BY <1>1, <1>2, <1>3

(* There is a function that adds up: one that does on the subsets of n     *)
(* elements gives one that does on those of n + 1.                         *)
LEMMA SumExists ==
    ASSUME NEW T, IsFiniteSet(T), NEW w
    PROVE  \E F : AddsUp(F, T, w)
<1>. DEFINE Small(n) == {s \in SUBSET T : Cardinality(s) <= n}
            Grows(n) == \E F : F = [s \in Small(n) |->
                                      IF s = {} THEN 0 ELSE w[Pick(s)] + F[s \ {Pick(s)}]]
            Bad == {n \in Nat : ~Grows(n)}
<1>0. \A s \in SUBSET T : IsFiniteSet(s) /\ Cardinality(s) \in Nat
  BY FS_Subset, FS_CardinalityType
<1>1. Grows(0)
  <2>1. \A s \in Small(0) : s = {}
    BY <1>0, FS_EmptySet
  <2>2. [s \in Small(0) |-> 0]
          = [s \in Small(0) |-> IF s = {} THEN 0
                                ELSE w[Pick(s)] + [t \in Small(0) |-> 0][s \ {Pick(s)}]]
    BY <2>1
  <2>. QED BY <2>2
<1>2. ASSUME NEW n \in Nat, Grows(n)
      PROVE  Grows(n + 1)
  <2>1. PICK F : F = [s \in Small(n) |-> IF s = {} THEN 0 ELSE w[Pick(s)] + F[s \ {Pick(s)}]]
    BY <1>2
  <2>. DEFINE G == [s \in Small(n + 1) |-> IF s = {} THEN 0 ELSE w[Pick(s)] + F[s \ {Pick(s)}]]
  <2>2. ASSUME NEW s \in Small(n + 1), s # {}
        PROVE  s \ {Pick(s)} \in Small(n) /\ s \ {Pick(s)} \in Small(n + 1)
    <3>1. s \in SUBSET T /\ Cardinality(s) <= n + 1
      OBVIOUS
    <3>2. Pick(s) \in s
      BY <2>2 DEF Pick
    <3>3. Cardinality(s \ {Pick(s)}) = Cardinality(s) - 1 /\ Cardinality(s \ {Pick(s)}) \in Nat
      BY <1>0, <3>1, <3>2, TakeOne
    <3>4. Cardinality(s) \in Nat
      BY <1>0, <3>1
    <3>5. s \ {Pick(s)} \in SUBSET T
      BY <3>1
    <3>. HIDE DEF Pick
    <3>. QED BY <3>1, <3>3, <3>4, <3>5
  <2>3. \A s \in Small(n) : F[s] = IF s = {} THEN 0 ELSE w[Pick(s)] + F[s \ {Pick(s)}]
    <3>. HIDE DEF Small
    <3>. QED BY <2>1
  <2>4. \A s \in Small(n) : s \in Small(n + 1)
    BY <1>0
  <2>5. \A s \in Small(n) : G[s] = F[s]
    <3>. HIDE DEF Small
    <3>. QED BY <2>3, <2>4
  <2>6. G = [s \in Small(n + 1) |-> IF s = {} THEN 0 ELSE w[Pick(s)] + G[s \ {Pick(s)}]]
    <3>1. \A s \in Small(n + 1) : s # {} => F[s \ {Pick(s)}] = G[s \ {Pick(s)}]
      <4>. HIDE DEF Small, G
      <4>. QED BY <2>2, <2>5
    <3>2. \A s \in Small(n + 1) :
            (IF s = {} THEN 0 ELSE w[Pick(s)] + F[s \ {Pick(s)}])
              = (IF s = {} THEN 0 ELSE w[Pick(s)] + G[s \ {Pick(s)}])
      <4>. HIDE DEF Small, G
      <4>. QED BY <3>1
    <3>. HIDE DEF Small
    <3>. QED BY <3>2
  <2>. HIDE DEF G
  <2>. QED BY <2>6
<1>3. \A n \in Nat : Grows(n)
  <2>. SUFFICES ASSUME Bad # {} PROVE FALSE
    OBVIOUS
  <2>1. PICK n \in Bad : \A m \in Bad : n <= m
    <3>1. Bad \subseteq Nat
      OBVIOUS
    <3>. HIDE DEF Bad
    <3>. QED BY <3>1, HasLeast
  <2>2. n \in Nat /\ ~Grows(n)
    OBVIOUS
  <2>. HIDE DEF Grows
  <2>3. n # 0
    BY <1>1, <2>2
  <2>4. n - 1 \in Nat /\ n - 1 < n
    BY <2>2, <2>3
  <2>5. Grows(n - 1)
    BY <2>1, <2>4
  <2>6. Grows(n - 1 + 1)
    BY <1>2, <2>4, <2>5
  <2>. QED BY <2>2, <2>6
<1>4. Grows(Cardinality(T))
  <2>. HIDE DEF Grows
  <2>. QED BY <1>0, <1>3
<1>5. Small(Cardinality(T)) = SUBSET T
  BY FS_Subset, <1>0
<1>. QED
  BY <1>4, <1>5 DEF AddsUp

(* Of some finite sets one is a smallest.                                  *)
LEMMA SmallestSet ==
    ASSUME NEW C, C # {}, \A s \in C : IsFiniteSet(s)
    PROVE  \E s \in C : \A t \in C : Cardinality(s) <= Cardinality(t)
<1>. DEFINE Sizes == {Cardinality(s) : s \in C}
<1>1. Sizes \subseteq Nat /\ Sizes # {}
  BY FS_CardinalityType
<1>2. PICK n \in Sizes : \A m \in Sizes : n <= m
  <2>. HIDE DEF Sizes
  <2>. QED BY <1>1, HasLeast
<1>. QED BY <1>2

(* What a sum is: 0 of nothing, else a weight and the sum of the rest.     *)
LEMMA SumStep ==
    ASSUME NEW T, NEW w, NEW F, AddsUp(F, T, w), NEW s \in SUBSET T
    PROVE  F[s] = IF s = {} THEN 0 ELSE w[Pick(s)] + F[s \ {Pick(s)}]
  BY DEF AddsUp

(* A sum of naturals is one, and at most the greatest weight for each.     *)
LEMMA SumBounds ==
    ASSUME NEW T, IsFiniteSet(T), NEW bound \in Nat, NEW w \in [T -> 0 .. bound],
           NEW F, AddsUp(F, T, w), NEW S \in SUBSET T
    PROVE  F[S] \in Nat /\ F[S] <= Cardinality(S) * bound
<1>. DEFINE Bad == {s \in SUBSET T : ~(F[s] \in Nat /\ F[s] <= Cardinality(s) * bound)}
<1>. SUFFICES ASSUME Bad # {} PROVE FALSE
  OBVIOUS
<1>1. \A s \in SUBSET T : IsFiniteSet(s)
  BY FS_Subset
<1>2. PICK s \in Bad : \A t \in Bad : Cardinality(s) <= Cardinality(t)
  <2>1. \A t \in Bad : IsFiniteSet(t)
    BY <1>1
  <2>. HIDE DEF Bad
  <2>. QED BY <2>1, SmallestSet
<1>3. s \in SUBSET T /\ IsFiniteSet(s)
  BY <1>1
<1>4. F[s] = IF s = {} THEN 0 ELSE w[Pick(s)] + F[s \ {Pick(s)}]
  BY <1>3, SumStep
<1>5. CASE s = {}
  <2>1. F[s] = 0 /\ Cardinality(s) = 0 /\ 0 * bound = 0
    BY <1>4, <1>5, FS_EmptySet
  <2>2. Cardinality(s) * bound = 0
    BY <2>1
  <2>. QED BY <1>2, <2>1, <2>2
<1>6. CASE s # {}
  <2>. DEFINE x == Pick(s)
              r == s \ {x}
  <2>1. x \in s
    BY <1>6 DEF Pick
  <2>. HIDE DEF x
  <2>2. /\ Cardinality(r) = Cardinality(s) - 1
        /\ Cardinality(s) \in Nat \ {0} /\ Cardinality(r) \in Nat
    BY <1>3, <2>1, TakeOne
  <2>3. r \in SUBSET T /\ r \notin Bad
    BY <1>2, <1>3, <2>2
  <2>4. F[r] \in Nat /\ F[r] <= Cardinality(r) * bound
    BY <2>3
  <2>5. F[s] = w[x] + F[r]
    BY <1>4, <1>6 DEF x
  <2>6. w[x] \in 0 .. bound
    BY <1>3, <2>1
  <2>. DEFINE c == Cardinality(s)
  <2>7. F[r] <= (c - 1) * bound
    BY <2>2, <2>4
  <2>8. (c - 1) * bound + bound = c * bound
    <3>1. c \in Nat
      BY <2>2
    <3>. HIDE DEF c
    <3>. QED BY <3>1
  <2>9. c * bound \in Nat /\ (c - 1) * bound \in Nat
    <3>1. c \in Nat /\ c - 1 \in Nat
      BY <2>2
    <3>. HIDE DEF c
    <3>. QED BY <3>1
  <2>10. F[s] \in Nat /\ F[s] <= c * bound
    <3>. HIDE DEF r
    <3>. DEFINE a == (c - 1) * bound
                b == c * bound
    <3>1. a \in Nat /\ b \in Nat /\ a + bound = b /\ F[r] <= a
      BY <2>7, <2>8, <2>9
    <3>. HIDE DEF a, b
    <3>2. F[s] \in Nat /\ F[s] <= b
      BY <2>4, <2>5, <2>6, <3>1
    <3>. QED BY <3>2 DEF b
  <2>. QED BY <1>2, <2>10
<1>. QED
  BY <1>5, <1>6

(* The order in which the elements are taken does not matter.              *)
LEMMA SumTakesAny ==
    ASSUME NEW T, IsFiniteSet(T), NEW bound \in Nat, NEW w \in [T -> 0 .. bound],
           NEW F, AddsUp(F, T, w), NEW S \in SUBSET T, NEW e \in S
    PROVE  F[S] = w[e] + F[S \ {e}]
<1>. DEFINE Bad == {s \in SUBSET T : \E x \in s : F[s] # w[x] + F[s \ {x}]}
<1>. SUFFICES ASSUME Bad # {} PROVE FALSE
  OBVIOUS
<1>0. \A s \in SUBSET T : F[s] \in Nat
  BY SumBounds
<1>1. \A s \in SUBSET T : IsFiniteSet(s)
  BY FS_Subset
<1>2. PICK s \in Bad : \A t \in Bad : Cardinality(s) <= Cardinality(t)
  <2>1. \A t \in Bad : IsFiniteSet(t)
    BY <1>1
  <2>. HIDE DEF Bad
  <2>. QED BY <2>1, SmallestSet
<1>3. s \in SUBSET T /\ IsFiniteSet(s)
  BY <1>1
<1>4. PICK x \in s : F[s] # w[x] + F[s \ {x}]
  BY <1>2
<1>. DEFINE y == Pick(s)
<1>5. y \in s
  BY <1>4 DEF Pick
<1>6. F[s] = w[y] + F[s \ {y}]
  BY <1>3, <1>5, SumStep
<1>. HIDE DEF y
<1>7. x # y
  BY <1>4, <1>6
<1>8. \A z \in s : /\ Cardinality(s \ {z}) < Cardinality(s)
                   /\ s \ {z} \in SUBSET T
  <2>. TAKE z \in s
  <2>1. /\ Cardinality(s \ {z}) = Cardinality(s) - 1
        /\ Cardinality(s) \in Nat \ {0} /\ Cardinality(s \ {z}) \in Nat
    BY <1>3, TakeOne
  <2>. QED BY <1>3, <2>1
<1>9. \A z \in s : s \ {z} \notin Bad
  <2>. SUFFICES ASSUME NEW z \in s, s \ {z} \in Bad PROVE FALSE
    OBVIOUS
  <2>1. Cardinality(s) <= Cardinality(s \ {z}) /\ Cardinality(s \ {z}) < Cardinality(s)
    BY <1>2, <1>8
  <2>2. Cardinality(s) \in Nat /\ Cardinality(s \ {z}) \in Nat
    BY <1>1, <1>3, <1>8, FS_CardinalityType
  <2>. QED BY <2>1, <2>2
<1>10. F[s \ {y}] = w[x] + F[(s \ {y}) \ {x}]
  BY <1>5, <1>7, <1>8, <1>9
<1>11. F[s \ {x}] = w[y] + F[(s \ {x}) \ {y}]
  BY <1>5, <1>7, <1>8, <1>9
<1>12. (s \ {y}) \ {x} = (s \ {x}) \ {y} /\ (s \ {y}) \ {x} \in SUBSET T
  BY <1>3
<1>. DEFINE rest == F[(s \ {x}) \ {y}]
<1>13. w[x] \in Nat /\ w[y] \in Nat /\ rest \in Nat
  BY <1>0, <1>3, <1>5, <1>12
<1>14. F[s \ {y}] = w[x] + rest /\ F[s \ {x}] = w[y] + rest
  BY <1>10, <1>11, <1>12
<1>. HIDE DEF rest
<1>. QED
  BY <1>4, <1>6, <1>13, <1>14

(* The sum over a part is at most the sum over the whole.                  *)
LEMMA SumMonotone ==
    ASSUME NEW T, IsFiniteSet(T), NEW bound \in Nat, NEW w \in [T -> 0 .. bound],
           NEW F, AddsUp(F, T, w), NEW S \in SUBSET T
    PROVE  F[S] <= F[T]
<1>. DEFINE Bad == {t \in SUBSET T : S \subseteq t /\ ~(F[S] <= F[t])}
<1>. SUFFICES ASSUME Bad # {} PROVE FALSE
  OBVIOUS
<1>0. \A s \in SUBSET T : F[s] \in Nat
  BY SumBounds
<1>1. \A s \in SUBSET T : IsFiniteSet(s)
  BY FS_Subset
<1>2. PICK t \in Bad : \A s \in Bad : Cardinality(t) <= Cardinality(s)
  <2>1. \A s \in Bad : IsFiniteSet(s)
    BY <1>1
  <2>. HIDE DEF Bad
  <2>. QED BY <2>1, SmallestSet
<1>3. t \in SUBSET T /\ S \subseteq t /\ ~(F[S] <= F[t])
  BY <1>2
<1>4. t # S
  BY <1>0, <1>3
<1>5. PICK x \in t : x \notin S
  BY <1>3, <1>4
<1>6. /\ Cardinality(t \ {x}) = Cardinality(t) - 1
      /\ Cardinality(t) \in Nat \ {0} /\ Cardinality(t \ {x}) \in Nat
  BY <1>1, <1>3, TakeOne
<1>7. t \ {x} \in SUBSET T /\ S \subseteq t \ {x} /\ t \ {x} \notin Bad
  BY <1>2, <1>3, <1>5, <1>6
<1>8. F[S] <= F[t \ {x}]
  BY <1>7
<1>9. F[t] = w[x] + F[t \ {x}]
  BY <1>3, SumTakesAny
<1>10. w[x] \in Nat /\ F[t \ {x}] \in Nat /\ F[t] \in Nat /\ F[S] \in Nat
  BY <1>0, <1>3, <1>7
<1>. QED
  BY <1>3, <1>8, <1>9, <1>10

(* On the subsets they share, two such functions are the same.             *)
LEMMA SumIsUnique ==
    ASSUME NEW T, IsFiniteSet(T), NEW S \in SUBSET T, NEW v, NEW w, NEW F, NEW G,
           AddsUp(F, T, w), AddsUp(G, S, v), \A x \in S : v[x] = w[x]
    PROVE  G[S] = F[S]
<1>. DEFINE Bad == {s \in SUBSET S : G[s] # F[s]}
<1>. SUFFICES ASSUME Bad # {} PROVE FALSE
  OBVIOUS
<1>1. \A s \in SUBSET S : IsFiniteSet(s) /\ s \in SUBSET T
  BY FS_Subset
<1>2. PICK s \in Bad : \A t \in Bad : Cardinality(s) <= Cardinality(t)
  <2>1. \A t \in Bad : IsFiniteSet(t)
    BY <1>1
  <2>. HIDE DEF Bad
  <2>. QED BY <2>1, SmallestSet
<1>3. s \in SUBSET S /\ s \in SUBSET T /\ IsFiniteSet(s)
  BY <1>1
<1>4. /\ G[s] = IF s = {} THEN 0 ELSE v[Pick(s)] + G[s \ {Pick(s)}]
      /\ F[s] = IF s = {} THEN 0 ELSE w[Pick(s)] + F[s \ {Pick(s)}]
  BY <1>3, SumStep
<1>5. CASE s # {}
  <2>1. Pick(s) \in s
    BY <1>5 DEF Pick
  <2>2. /\ Cardinality(s \ {Pick(s)}) = Cardinality(s) - 1
        /\ Cardinality(s) \in Nat \ {0} /\ Cardinality(s \ {Pick(s)}) \in Nat
    BY <1>3, <2>1, TakeOne
  <2>3. s \ {Pick(s)} \notin Bad /\ s \ {Pick(s)} \in SUBSET S
    BY <1>2, <1>3, <2>2
  <2>. QED BY <1>2, <1>3, <1>4, <1>5, <2>1, <2>3
<1>. QED
  BY <1>2, <1>4, <1>5
==============================================================================
