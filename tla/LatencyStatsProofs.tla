-------------------------- MODULE LatencyStatsProofs --------------------------
(***************************************************************************)
(* Proofs about LatencyStats for every bag of latencies: the sort, the     *)
(* percentiles, the two histograms and the deviation. A total is a         *)
(* recursive definition, so that facts about totals come first; they rest  *)
(* on the well-foundedness of inclusion among finite sets.                 *)
(***************************************************************************)
EXTENDS LatencyStats, FiniteSetTheorems, TLAPS

-----------------------------------------------------------------------------
(***************************************************************************)
(* Induction. The induction theorems of the library take a predicate as a  *)
(* parameter, which the provers cannot instantiate; here a set stands for  *)
(* it.                                                                     *)
(***************************************************************************)

(* A set of subsets of a finite set has a smallest member.                 *)
LEMMA MinimalSubset ==
  ASSUME NEW D, IsFiniteSet(D), NEW F \in SUBSET SUBSET D, F # {}
  PROVE  \E U \in F : \A V \in F : V \subseteq U => V = U
<1>1. IsWellFoundedOn(StrictSubsetOrdering(D), FiniteSubsetsOf(D))
  BY FS_StrictSubsetOrderingWellFounded
<1>2. F \subseteq FiniteSubsetsOf(D)
  BY FS_FiniteSubsetsOfFinite
<1>3. PICK U \in F : \A V \in F : <<V, U>> \notin StrictSubsetOrdering(D)
  BY <1>1, <1>2, WFMin
<1>4. ASSUME NEW V \in F, V \subseteq U, V # U
      PROVE  FALSE
  BY <1>3, <1>4 DEF StrictSubsetOrdering
<1>5. QED
  BY <1>4

(* The intervals from 0 to the members of a set of numbers.                *)
Downsets(T) == {0 .. n : n \in T}

(* A set of natural numbers has a least member: the smallest of its        *)
(* intervals. This is the induction on natural numbers that the proofs     *)
(* below use, with a set in the place of a predicate.                      *)
LEMMA LeastElement ==
  ASSUME NEW T \in SUBSET Nat, T # {}
  PROVE  \E n \in T : \A m \in T : n <= m
<1>1. PICK k \in T : TRUE
  OBVIOUS
<1> DEFINE F == Downsets(T) \cap SUBSET (0 .. k)
<1>2. IsFiniteSet(0 .. k)
  BY FS_Interval
<1>3. 0 .. k \in F
  BY DEF Downsets
<1>4. PICK U \in F : \A V \in F : V \subseteq U => V = U
  <2>1. F # {} /\ F \in SUBSET SUBSET (0 .. k)
    BY <1>3
  <2>2. PICK D : D = 0 .. k
    OBVIOUS
  <2>3. PICK G : G = F
    OBVIOUS
  <2>4. G # {} /\ G \in SUBSET SUBSET D /\ IsFiniteSet(D)
    BY <1>2, <2>1, <2>2, <2>3
  <2>5. \E U \in G : \A V \in G : V \subseteq U => V = U
    BY <2>4, MinimalSubset
  <2>6. QED
    BY <2>3, <2>5
<1>5. PICK n \in T : U = 0 .. n
  BY <1>4 DEF Downsets
<1>6. ASSUME NEW m \in T, m < n
      PROVE  FALSE
  <2>1. 0 .. m \subseteq U /\ 0 .. m \in SUBSET (0 .. k)
    BY <1>5, <1>6
  <2>2. 0 .. m \in F
    BY <2>1 DEF Downsets
  <2>3. n \in 0 .. n /\ n \notin 0 .. m
    BY <1>6
  <2>4. QED
    BY <1>4, <1>5, <2>1, <2>2, <2>3
<1>7. QED
  BY <1>6

-----------------------------------------------------------------------------
(***************************************************************************)
(* Sums. Total is a fold, defined by recursion over the subsets of the     *)
(* domain.                                                                 *)
(***************************************************************************)

(* The definition of Total in the community modules, in parts: an          *)
(* arbitrary element is taken out and the sum of the rest is added to its  *)
(* value.                                                                  *)
Pick(S) == CHOOSE x \in S : TRUE

(* The sum of a set from the sums of its smaller subsets.                  *)
Step(f, S, sum) == IF S = {} THEN 0 ELSE f[Pick(S)] + sum[S \ {Pick(S)}]

(* The sums of all subsets of the domain, if there is such a function.     *)
SumOf(f) == CHOOSE sum : sum = [S \in SUBSET DOMAIN f |-> Step(f, S, sum)]

(* Part(f, S): the sum of f over the part S of its domain.                 *)
Part(f, S) == SumOf(f)[S]

(* Total is the sum over the whole domain.                                 *)
LEMMA TotalIsPart == ASSUME NEW f PROVE Total(f) = Part(f, DOMAIN f)
BY DEF Total, FoldFunction, FoldFunctionOnSet, MapThenFoldSet, Part, SumOf,
       Step, Pick

(* What is picked from a set that is not empty is in it.                   *)
LEMMA PickIn == ASSUME NEW S, S # {} PROVE Pick(S) \in S
BY DEF Pick

(* The recursive definition of the sum has a solution on a finite domain:  *)
(* there is one for the subsets of at most n elements, for every n.        *)
LEMMA SumExists ==
  ASSUME NEW f, IsFiniteSet(DOMAIN f)
  PROVE  \E sum : sum = [S \in SUBSET DOMAIN f |-> Step(f, S, sum)]
<1> DEFINE Small(n) == {S \in SUBSET DOMAIN f : Cardinality(S) <= n}
           Good(n) == \E h : h = [S \in Small(n) |-> Step(f, S, h)]
           Bad == {n \in Nat : ~Good(n)}
<1>1. \A S \in SUBSET DOMAIN f : IsFiniteSet(S) /\ Cardinality(S) \in Nat
  BY FS_Subset, FS_CardinalityType
<1>2. Good(0)
  <2>1. \A S \in Small(0) : S = {}
    BY <1>1, FS_EmptySet
  <2> DEFINE h == [S \in Small(0) |-> 0]
  <2>2. \A S \in Small(0) : Step(f, S, h) = 0
    BY <2>1 DEF Step
  <2>3. h = [S \in Small(0) |-> Step(f, S, h)]
    BY <2>2
  <2>4. QED
    BY <2>3
<1>3. ASSUME NEW n \in Nat, Good(n)
      PROVE  Good(n + 1)
  <2>1. PICK g : g = [S \in Small(n) |-> Step(f, S, g)]
    BY <1>3
  <2> DEFINE h == [S \in Small(n + 1) |-> Step(f, S, g)]
  <2>2. ASSUME NEW S \in Small(n + 1)
        PROVE  Step(f, S, g) = Step(f, S, h)
    <3>1. CASE S = {}
      BY <3>1 DEF Step
    <3>2. CASE S # {}
      <4> DEFINE R == S \ {Pick(S)}
      <4>1. Pick(S) \in S
        BY <3>2, PickIn
      <4>2. Cardinality(R) = Cardinality(S) - 1
        BY <4>1, <1>1, FS_RemoveElement
      <4>3. R \in Small(n) /\ R \in Small(n + 1)
        BY <4>2, <1>1
      <4>4. g[R] = Step(f, R, g)
        BY <2>1, <4>3
      <4>5. h[R] = Step(f, R, g)
        BY <4>3
      <4>6. QED
        BY <4>4, <4>5 DEF Step
    <3>3. QED
      BY <3>1, <3>2
  <2>3. h = [S \in Small(n + 1) |-> Step(f, S, h)]
    BY <2>2
  <2> HIDE DEF Small
  <2>4. QED
    BY <2>3
<1>4. \A n \in Nat : Good(n)
  <2> HIDE DEF Good
  <2> SUFFICES ASSUME Bad # {} PROVE FALSE
    OBVIOUS
  <2>1. PICK n \in Bad : \A m \in Bad : n <= m
    BY LeastElement
  <2>2. n # 0 /\ n \in Nat
    BY <1>2
  <2>3. n - 1 \in Nat /\ n - 1 \notin Bad
    BY <2>1, <2>2
  <2>4. Good(n - 1)
    BY <2>3
  <2>5. Good(n)
    <3>1. Good((n - 1) + 1)
      BY <1>3, <2>3, <2>4
    <3>2. QED
      BY <3>1, <2>2
  <2>6. QED
    BY <2>5
<1>5. SUBSET DOMAIN f = Small(Cardinality(DOMAIN f))
  BY <1>1, FS_Subset
<1>6. Cardinality(DOMAIN f) \in Nat
  BY FS_CardinalityType
<1>7. QED
  <2>1. PICK h : h = [S \in Small(Cardinality(DOMAIN f)) |-> Step(f, S, h)]
    BY <1>4, <1>6
  <2> HIDE DEF Small
  <2>2. QED
    BY <2>1, <1>5

(* The sum over a part is that of one element and of the others.           *)
LEMMA PartUnfolds ==
  ASSUME NEW f, IsFiniteSet(DOMAIN f), NEW S \in SUBSET DOMAIN f
  PROVE  Part(f, S) = IF S = {} THEN 0
                      ELSE f[Pick(S)] + Part(f, S \ {Pick(S)})
<1>1. SumOf(f) = [U \in SUBSET DOMAIN f |-> Step(f, U, SumOf(f))]
  BY SumExists DEF SumOf
<1>2. SumOf(f)[S] = Step(f, S, SumOf(f))
  <2> HIDE DEF Step
  <2>1. QED
    BY <1>1, Zenon
<1>3. QED
  BY <1>2 DEF Part, Step

(* Induction on the subsets of a finite set: what holds of a set when it   *)
(* holds of the set without any one of its elements holds of every subset. *)
LEMMA SetInduction ==
  ASSUME NEW D, IsFiniteSet(D), NEW Good,
         \A S \in SUBSET D :
           (\A x \in S : S \ {x} \in Good) => S \in Good
  PROVE  \A S \in SUBSET D : S \in Good
<1> DEFINE Bad == {S \in SUBSET D : S \notin Good}
<1>1. SUFFICES ASSUME Bad # {}
               PROVE  FALSE
  OBVIOUS
<1>2. PICK U \in Bad : \A V \in Bad : V \subseteq U => V = U
  <2>1. Bad \in SUBSET SUBSET D
    OBVIOUS
  <2> HIDE DEF Bad
  <2>2. QED
    BY <1>1, <2>1, MinimalSubset
<1>3. \A x \in U : U \ {x} \in Good
  BY <1>2
<1>4. QED
  BY <1>2, <1>3

(* The sum of integers is an integer.                                      *)
LEMMA PartInt ==
  ASSUME NEW D, IsFiniteSet(D), NEW f \in [D -> Int]
  PROVE  \A S \in SUBSET D : Part(f, S) \in Int
<1> DEFINE Good == {S \in SUBSET D : Part(f, S) \in Int}
<1>1. ASSUME NEW S \in SUBSET D, \A x \in S : S \ {x} \in Good
      PROVE  S \in Good
  <2>1. Part(f, S) = IF S = {} THEN 0
                     ELSE f[Pick(S)] + Part(f, S \ {Pick(S)})
    BY PartUnfolds
  <2>2. S # {} => Pick(S) \in S
    BY PickIn
  <2>3. QED
    BY <1>1, <2>1, <2>2
<1> HIDE DEF Good
<1>2. \A S \in SUBSET D : S \in Good
  BY <1>1, SetInduction
<1>3. QED
  BY <1>2 DEF Good

(* The sum of nothing is 0.                                                *)
LEMMA PartEmpty ==
  ASSUME NEW f, IsFiniteSet(DOMAIN f)
  PROVE  Part(f, {}) = 0
BY PartUnfolds

(* The sum does not depend on the order: any element may be taken out      *)
(* first.                                                                  *)
LEMMA PartRemove ==
  ASSUME NEW D, IsFiniteSet(D), NEW f \in [D -> Int]
  PROVE  \A S \in SUBSET D : \A x \in S :
           Part(f, S) = f[x] + Part(f, S \ {x})
<1> DEFINE Good == {S \in SUBSET D : \A x \in S :
                      Part(f, S) = f[x] + Part(f, S \ {x})}
<1>1. ASSUME NEW S \in SUBSET D, \A x \in S : S \ {x} \in Good
      PROVE  S \in Good
  <2> SUFFICES ASSUME NEW x \in S
               PROVE  Part(f, S) = f[x] + Part(f, S \ {x})
    OBVIOUS
  <2> DEFINE p == Pick(S)
  <2>1. p \in S
    BY PickIn
  <2>2. Part(f, S) = f[p] + Part(f, S \ {p})
    BY PartUnfolds, <2>1
  <2>3. CASE p = x
    BY <2>2, <2>3
  <2>4. CASE p # x
    <3> HIDE DEF p
    <3>1. Part(f, S \ {p}) = f[x] + Part(f, (S \ {p}) \ {x})
      BY <1>1, <2>1, <2>4
    <3>2. Part(f, S \ {x}) = f[p] + Part(f, (S \ {x}) \ {p})
      BY <1>1, <2>1, <2>4
    <3>3. (S \ {p}) \ {x} = (S \ {x}) \ {p}
      OBVIOUS
    <3>4. /\ f[x] \in Int /\ f[p] \in Int
          /\ Part(f, (S \ {p}) \ {x}) \in Int
      BY <2>1, PartInt
    <3>5. Part(f, S) = f[p] + (f[x] + Part(f, (S \ {p}) \ {x}))
      BY <2>2, <3>1
    <3>6. Part(f, S \ {x}) = f[p] + Part(f, (S \ {p}) \ {x})
      BY <3>2, <3>3
    <3>7. \A a, b, c \in Int : a + (b + c) = b + (a + c)
      OBVIOUS
    <3>8. QED
      BY <3>4, <3>5, <3>6, <3>7
  <2>5. QED
    BY <2>3, <2>4
<1> HIDE DEF Good
<1>2. \A S \in SUBSET D : S \in Good
  BY <1>1, SetInduction
<1>3. QED
  BY <1>2 DEF Good

(* The sum over a part depends on the values on that part only.            *)
LEMMA PartCongruence ==
  ASSUME NEW D, IsFiniteSet(D), NEW f \in [D -> Int],
         NEW E, IsFiniteSet(E), NEW g \in [E -> Int]
  PROVE  \A S \in SUBSET (D \cap E) :
           (\A x \in S : f[x] = g[x]) => Part(f, S) = Part(g, S)
<1> DEFINE Good == {S \in SUBSET (D \cap E) :
                      (\A x \in S : f[x] = g[x]) => Part(f, S) = Part(g, S)}
<1>1. ASSUME NEW S \in SUBSET (D \cap E), \A x \in S : S \ {x} \in Good
      PROVE  S \in Good
  <2> SUFFICES ASSUME \A x \in S : f[x] = g[x]
               PROVE  Part(f, S) = Part(g, S)
    OBVIOUS
  <2>1. CASE S = {}
    BY <2>1, PartEmpty
  <2>2. CASE S # {}
    <3>1. PICK x \in S : TRUE
      BY <2>2
    <3>2. Part(f, S \ {x}) = Part(g, S \ {x})
      BY <1>1, <3>1
    <3>3. Part(f, S) = f[x] + Part(f, S \ {x})
      <4>1. S \in SUBSET D
        OBVIOUS
      <4>2. QED
        BY <4>1, PartRemove
    <3>4. Part(g, S) = g[x] + Part(g, S \ {x})
      <4>1. S \in SUBSET E
        OBVIOUS
      <4>2. QED
        BY <4>1, PartRemove
    <3>5. QED
      BY <3>2, <3>3, <3>4
  <2>3. QED
    BY <2>1, <2>2
<1>2. IsFiniteSet(D \cap E)
  BY FS_Subset
<1> HIDE DEF Good
<1>3. \A S \in SUBSET (D \cap E) : S \in Good
  BY <1>1, <1>2, SetInduction
<1>4. QED
  BY <1>3 DEF Good

(* If every value of f, times a, is at most that of g, times b, then so    *)
(* are their sums.                                                         *)
LEMMA PartScaled ==
  ASSUME NEW D, IsFiniteSet(D), NEW f \in [D -> Int], NEW g \in [D -> Int],
         NEW a \in Int, NEW b \in Int
  PROVE  \A S \in SUBSET D :
           (\A x \in S : a * f[x] <= b * g[x])
              => a * Part(f, S) <= b * Part(g, S)
<1> DEFINE Good == {S \in SUBSET D :
                     (\A x \in S : a * f[x] <= b * g[x])
                       => a * Part(f, S) <= b * Part(g, S)}
<1>1. ASSUME NEW S \in SUBSET D, \A x \in S : S \ {x} \in Good
      PROVE  S \in Good
  <2> SUFFICES ASSUME \A x \in S : a * f[x] <= b * g[x]
               PROVE  a * Part(f, S) <= b * Part(g, S)
    OBVIOUS
  <2>1. CASE S = {}
    <3>1. Part(f, S) = 0 /\ Part(g, S) = 0
      BY <2>1, PartEmpty
    <3>2. a * 0 = 0 /\ b * 0 = 0
      OBVIOUS
    <3>3. QED
      BY <3>1, <3>2
  <2>2. CASE S # {}
    <3>1. PICK x \in S : TRUE
      BY <2>2
    <3>2. a * Part(f, S \ {x}) <= b * Part(g, S \ {x})
      BY <1>1, <3>1
    <3>3. /\ Part(f, S) = f[x] + Part(f, S \ {x})
          /\ Part(g, S) = g[x] + Part(g, S \ {x})
      BY PartRemove
    <3>4. /\ f[x] \in Int /\ Part(f, S \ {x}) \in Int
          /\ g[x] \in Int /\ Part(g, S \ {x}) \in Int
      BY PartInt
    <3>5. a * f[x] <= b * g[x]
      OBVIOUS
    <3>6. \A k, l, m, n \in Int :
            a * k <= b * l /\ a * m <= b * n => a * (k + m) <= b * (l + n)
      OBVIOUS
    <3>7. a * (f[x] + Part(f, S \ {x})) <= b * (g[x] + Part(g, S \ {x}))
      BY <3>2, <3>4, <3>5, <3>6
    <3>8. QED
      BY <3>3, <3>7
  <2>3. QED
    BY <2>1, <2>2
<1> HIDE DEF Good
<1>2. \A S \in SUBSET D : S \in Good
  BY <1>1, SetInduction
<1>3. QED
  BY <1>2 DEF Good

(* Larger values have a larger sum.                                        *)
LEMMA PartMonotone ==
  ASSUME NEW D, IsFiniteSet(D), NEW f \in [D -> Int], NEW g \in [D -> Int],
         NEW S \in SUBSET D, \A x \in S : f[x] <= g[x]
  PROVE  Part(f, S) <= Part(g, S)
<1>1. \A x \in S : 1 * f[x] <= 1 * g[x]
  OBVIOUS
<1>2. 1 * Part(f, S) <= 1 * Part(g, S)
  BY <1>1, PartScaled
<1>3. Part(f, S) \in Int /\ Part(g, S) \in Int
  BY PartInt
<1>4. QED
  BY <1>2, <1>3

(* Zeros add up to 0.                                                      *)
LEMMA PartZero ==
  ASSUME NEW D, IsFiniteSet(D), NEW f \in [D -> Int],
         NEW S \in SUBSET D, \A x \in S : f[x] = 0
  PROVE  Part(f, S) = 0
<1>1. \A x \in S : 1 * f[x] <= 0 * f[x]
  OBVIOUS
<1>2. \A x \in S : 0 * f[x] <= 1 * f[x]
  OBVIOUS
<1>3. 1 * Part(f, S) <= 0 * Part(f, S) /\ 0 * Part(f, S) <= 1 * Part(f, S)
  BY <1>1, <1>2, PartScaled
<1>4. Part(f, S) \in Int
  BY PartInt
<1>5. QED
  BY <1>3, <1>4

(* What is not negative has a sum that is not.                             *)
LEMMA PartNat ==
  ASSUME NEW D, IsFiniteSet(D), NEW f \in [D -> Int],
         NEW S \in SUBSET D, \A x \in S : f[x] >= 0
  PROVE  Part(f, S) \in Nat
<1>1. \A x \in S : 0 * f[x] <= 1 * f[x]
  OBVIOUS
<1>2. 0 * Part(f, S) <= 1 * Part(f, S)
  BY <1>1, PartScaled
<1>3. Part(f, S) \in Int
  BY PartInt
<1>4. QED
  BY <1>2, <1>3

(* The sum over two disjoint parts is the sum of their sums.               *)
LEMMA PartUnion ==
  ASSUME NEW D, IsFiniteSet(D), NEW f \in [D -> Int], NEW A \in SUBSET D
  PROVE  \A B \in SUBSET D : A \cap B = {} =>
           Part(f, A \cup B) = Part(f, A) + Part(f, B)
<1> DEFINE Good == {B \in SUBSET D : A \cap B = {} =>
                      Part(f, A \cup B) = Part(f, A) + Part(f, B)}
<1>1. ASSUME NEW B \in SUBSET D, \A x \in B : B \ {x} \in Good
      PROVE  B \in Good
  <2> SUFFICES ASSUME A \cap B = {}
               PROVE  Part(f, A \cup B) = Part(f, A) + Part(f, B)
    OBVIOUS
  <2>1. CASE B = {}
    <3>1. Part(f, B) = 0 /\ A \cup B = A
      BY <2>1, PartEmpty
    <3>2. Part(f, A) \in Int
      BY PartInt
    <3>3. Part(f, A) = Part(f, A) + 0
      BY <3>2
    <3>4. QED
      BY <3>1, <3>3
  <2>2. CASE B # {}
    <3>1. PICK x \in B : TRUE
      BY <2>2
    <3>2. Part(f, A \cup (B \ {x})) = Part(f, A) + Part(f, B \ {x})
      BY <1>1, <3>1
    <3>3. Part(f, B) = f[x] + Part(f, B \ {x})
      BY PartRemove
    <3>4. Part(f, A \cup B) = f[x] + Part(f, (A \cup B) \ {x})
      <4>1. A \cup B \in SUBSET D /\ x \in A \cup B
        OBVIOUS
      <4>2. QED
        BY <4>1, PartRemove
    <3>5. (A \cup B) \ {x} = A \cup (B \ {x})
      OBVIOUS
    <3>6. f[x] \in Int /\ Part(f, A) \in Int /\ Part(f, B \ {x}) \in Int
      BY PartInt
    <3>7. Part(f, A \cup B) = f[x] + (Part(f, A) + Part(f, B \ {x}))
      BY <3>2, <3>4, <3>5
    <3>8. \A k, l, m \in Int : k + (l + m) = l + (k + m)
      OBVIOUS
    <3>9. QED
      BY <3>3, <3>6, <3>7, <3>8
  <2>3. QED
    BY <2>1, <2>2
<1> HIDE DEF Good
<1>2. \A B \in SUBSET D : B \in Good
  BY <1>1, SetInduction
<1>3. QED
  BY <1>2 DEF Good

(* The sum of a constant counts the elements.                              *)
LEMMA PartConstant ==
  ASSUME NEW D, IsFiniteSet(D), NEW f \in [D -> Int], NEW c \in Int
  PROVE  \A S \in SUBSET D :
           (\A x \in S : f[x] = c) => Part(f, S) = c * Cardinality(S)
<1> DEFINE Good == {S \in SUBSET D :
                      (\A x \in S : f[x] = c)
                        => Part(f, S) = c * Cardinality(S)}
<1>1. ASSUME NEW S \in SUBSET D, \A x \in S : S \ {x} \in Good
      PROVE  S \in Good
  <2> SUFFICES ASSUME \A x \in S : f[x] = c
               PROVE  Part(f, S) = c * Cardinality(S)
    OBVIOUS
  <2>1. CASE S = {}
    <3>1. Part(f, S) = 0 /\ Cardinality(S) = 0
      BY <2>1, PartEmpty, FS_EmptySet
    <3>2. QED
      BY <3>1
  <2>2. CASE S # {}
    <3>1. PICK x \in S : TRUE
      BY <2>2
    <3>2. Part(f, S \ {x}) = c * Cardinality(S \ {x})
      BY <1>1, <3>1
    <3>3. Part(f, S) = c + Part(f, S \ {x})
      BY PartRemove
    <3>4. /\ Cardinality(S \ {x}) = Cardinality(S) - 1
          /\ Cardinality(S) \in Nat
      BY FS_Subset, FS_CardinalityType, FS_RemoveElement
    <3>5. \A n \in Int : c + c * (n - 1) = c * n
      OBVIOUS
    <3>6. QED
      BY <3>2, <3>3, <3>4, <3>5
  <2>3. QED
    BY <2>1, <2>2
<1> HIDE DEF Good
<1>2. \A S \in SUBSET D : S \in Good
  BY <1>1, SetInduction
<1>3. QED
  BY <1>2 DEF Good

(* The total of a function that changes at one argument changes by as      *)
(* much. Every step of Record is one such change.                          *)
LEMMA TotalChange ==
  ASSUME NEW D, IsFiniteSet(D), NEW f \in [D -> Int], NEW g \in [D -> Int],
         NEW x \in D, \A y \in D \ {x} : g[y] = f[y]
  PROVE  /\ Total(g) = Total(f) + g[x] - f[x]
         /\ Total(f) \in Int /\ Total(g) \in Int
<1>1. Total(f) = Part(f, D) /\ Total(g) = Part(g, D)
  BY TotalIsPart
<1>2. Part(f, D) = f[x] + Part(f, D \ {x})
  BY PartRemove
<1>3. Part(g, D) = g[x] + Part(g, D \ {x})
  BY PartRemove
<1>4. Part(g, D \ {x}) = Part(f, D \ {x})
  BY PartCongruence
<1>5. /\ f[x] \in Int /\ g[x] \in Int /\ Part(f, D \ {x}) \in Int
      /\ Part(g, D \ {x}) \in Int
  BY PartInt
<1>6. QED
  BY <1>1, <1>2, <1>3, <1>4, <1>5

(* The total of a restricted function is the sum over that part.           *)
LEMMA RestrictedTotal ==
  ASSUME NEW D, IsFiniteSet(D), NEW f \in [D -> Int], NEW S \in SUBSET D
  PROVE  Total([x \in S |-> f[x]]) = Part(f, S)
<1> DEFINE g == [x \in S |-> f[x]]
<1>1. IsFiniteSet(S)
  BY FS_Subset
<1>2. g \in [S -> Int] /\ S \in SUBSET (D \cap S) /\ \A x \in S : f[x] = g[x]
  OBVIOUS
<1> HIDE DEF g
<1>3. Part(f, S) = Part(g, S)
  BY <1>1, <1>2, PartCongruence
<1>4. Total(g) = Part(g, S)
  BY <1>2, TotalIsPart
<1>5. QED
  BY <1>3, <1>4 DEF g

(* A function to the naturals is one to the integers.                      *)
LEMMA NatFunction == ASSUME NEW D, NEW f \in [D -> Nat] PROVE f \in [D -> Int]
OBVIOUS

(* The total of natural numbers is one.                                    *)
LEMMA NatTotal ==
  ASSUME NEW D, IsFiniteSet(D), NEW f \in [D -> Nat]
  PROVE  Total(f) \in Nat
<1>1. f \in [D -> Int] /\ \A x \in D : f[x] >= 0
  OBVIOUS
<1>2. Part(f, D) \in Nat
  BY <1>1, PartNat
<1>3. QED
  BY <1>2, TotalIsPart

(* Adding k to one entry adds k to the total.                              *)
LEMMA TotalAdd ==
  ASSUME NEW D, IsFiniteSet(D), NEW f \in [D -> Nat], NEW x \in D,
         NEW k \in Nat
  PROVE  Total([f EXCEPT ![x] = @ + k]) = Total(f) + k
<1> DEFINE g == [f EXCEPT ![x] = @ + k]
<1>1. /\ f \in [D -> Int] /\ g \in [D -> Int]
      /\ \A y \in D \ {x} : g[y] = f[y]
      /\ g[x] = f[x] + k /\ f[x] \in Int
  OBVIOUS
<1> HIDE DEF g
<1>2. Total(g) = Total(f) + g[x] - f[x] /\ Total(f) \in Int
  BY <1>1, TotalChange
<1>3. Total(g) = Total(f) + k
  BY <1>1, <1>2
<1>4. QED
  BY <1>3 DEF g

(* Adding 1 to one entry adds 1 to the total.                              *)
LEMMA OneMore ==
  ASSUME NEW D, IsFiniteSet(D), NEW f \in [D -> Nat], NEW x \in D
  PROVE  Total([f EXCEPT ![x] = @ + 1]) = Total(f) + 1
BY TotalAdd

(* A part of natural numbers is at most the whole.                         *)
LEMMA TotalOfPart ==
  ASSUME NEW D, IsFiniteSet(D), NEW f \in [D -> Nat], NEW S \in SUBSET D
  PROVE  Part(f, S) \in Nat /\ Part(f, S) <= Total(f)
<1>1. /\ f \in [D -> Int] /\ \A x \in D : f[x] >= 0
      /\ S \in SUBSET D /\ D \ S \in SUBSET D /\ S \cap (D \ S) = {}
      /\ S \cup (D \ S) = D
  OBVIOUS
<1>2. Part(f, S) \in Nat /\ Part(f, D \ S) \in Nat
  <2>1. \A T \in SUBSET D : Part(f, T) \in Nat
    BY <1>1, PartNat
  <2>2. QED
    BY <1>1, <2>1
<1>3. Part(f, S \cup (D \ S)) = Part(f, S) + Part(f, D \ S)
  BY <1>1, PartUnion
<1>4. Total(f) = Part(f, D)
  <2>1. DOMAIN f = D
    OBVIOUS
  <2>2. QED
    BY <2>1, TotalIsPart
<1>5. Part(f, D) = Part(f, S) + Part(f, D \ S)
  BY <1>1, <1>3, Zenon
<1>6. QED
  BY <1>2, <1>4, <1>5

-----------------------------------------------------------------------------
(***************************************************************************)
(* Sorting. What SortedCopy returns, from the sizes of parts of the bag.   *)
(***************************************************************************)

(* A bag of latencies, as Record fills it: how often each one occurs.      *)
IsBag(bag) ==
  /\ IsFiniteSet(DOMAIN bag) /\ DOMAIN bag \subseteq Nat
  /\ bag \in [DOMAIN bag -> Nat]

(* The latencies of a bag that are at most l.                              *)
UpTo(bag, l) == {x \in DOMAIN bag : x <= l}

(* The latencies of a bag below l.                                         *)
Under(bag, l) == {x \in DOMAIN bag : x < l}

(* l is what a sorted slice has at index i: with those that equal l at     *)
(* least i latencies have been listed, without them fewer.                 *)
AtRank(bag, l, i) ==
  Part(bag, UpTo(bag, l)) >= i /\ Part(bag, Under(bag, l)) < i

(* The sizes of a bag and of its parts are natural numbers.                *)
LEMMA BagPart ==
  ASSUME NEW bag, IsBag(bag)
  PROVE  /\ \A S \in SUBSET DOMAIN bag : Part(bag, S) \in Nat
         /\ Total(bag) \in Nat
         /\ bag \in [DOMAIN bag -> Int]
<1>1. bag \in [DOMAIN bag -> Int] /\ \A x \in DOMAIN bag : bag[x] >= 0
  BY DEF IsBag
<1>2. \A S \in SUBSET DOMAIN bag : Part(bag, S) \in Nat
  BY <1>1, PartNat DEF IsBag
<1>3. QED
  BY <1>1, <1>2, TotalIsPart

(* A part of a part is not larger than it.                                 *)
LEMMA PartSubset ==
  ASSUME NEW bag, IsBag(bag), NEW S \in SUBSET DOMAIN bag, NEW R \in SUBSET S
  PROVE  Part(bag, R) <= Part(bag, S)
<1>1. Part(bag, R \cup (S \ R)) = Part(bag, R) + Part(bag, S \ R)
  <2>1. R \in SUBSET DOMAIN bag /\ S \ R \in SUBSET DOMAIN bag
        /\ R \cap (S \ R) = {}
    OBVIOUS
  <2>2. QED
    BY <2>1, BagPart, PartUnion DEF IsBag
<1>2. R \cup (S \ R) = S
  OBVIOUS
<1>3. Part(bag, R) \in Nat /\ Part(bag, S \ R) \in Nat
  BY BagPart
<1>4. Part(bag, S) = Part(bag, R) + Part(bag, S \ R)
  BY <1>1, <1>2
<1>5. QED
  BY <1>3, <1>4

(* Two disjoint parts of a bag together have the sizes of both.            *)
LEMMA BagUnion ==
  ASSUME NEW bag, IsBag(bag), NEW A \in SUBSET DOMAIN bag,
         NEW B \in SUBSET DOMAIN bag, A \cap B = {}
  PROVE  Part(bag, A \cup B) = Part(bag, A) + Part(bag, B)
BY BagPart, PartUnion DEF IsBag

(* A part has at least as many elements as one of its latencies.           *)
LEMMA PartMember ==
  ASSUME NEW bag, IsBag(bag), NEW S \in SUBSET DOMAIN bag, NEW x \in S
  PROVE  bag[x] <= Part(bag, S)
<1>1. Part(bag, S) = bag[x] + Part(bag, S \ {x})
  BY BagPart, PartRemove DEF IsBag
<1>2. Part(bag, S \ {x}) \in Nat /\ bag[x] \in Nat
  BY BagPart DEF IsBag
<1>3. QED
  BY <1>1, <1>2

(* A finite set of numbers that is not empty has a largest one.            *)
LEMMA LargestElement ==
  ASSUME NEW D, IsFiniteSet(D), D \subseteq Nat
  PROVE  \A S \in SUBSET D : S # {} => \E m \in S : \A x \in S : x <= m
<1> DEFINE Good == {S \in SUBSET D : S # {} =>
                      \E m \in S : \A x \in S : x <= m}
<1>1. ASSUME NEW S \in SUBSET D, \A x \in S : S \ {x} \in Good
      PROVE  S \in Good
  <2> SUFFICES ASSUME S # {}
               PROVE  \E m \in S : \A x \in S : x <= m
    OBVIOUS
  <2>1. PICK y \in S : TRUE
    OBVIOUS
  <2>2. CASE S \ {y} = {}
    BY <2>2
  <2>3. CASE S \ {y} # {}
    <3>1. PICK m \in S \ {y} : \A x \in S \ {y} : x <= m
      BY <1>1, <2>3
    <3>2. m \in Nat /\ y \in Nat
      OBVIOUS
    <3>3. CASE y <= m
      BY <3>1, <3>3
    <3>4. CASE m < y
      <4>1. ASSUME NEW x \in S
            PROVE  x <= y
        <5>1. CASE x = y
          BY <5>1
        <5>2. CASE x # y
          <6>1. x <= m /\ x \in Nat
            BY <3>1, <5>2
          <6>2. QED
            BY <6>1, <3>2, <3>4
        <5>3. QED
          BY <5>1, <5>2
      <4>2. QED
        BY <4>1
    <3>5. QED
      BY <3>2, <3>3, <3>4
  <2>4. QED
    BY <2>2, <2>3
<1> HIDE DEF Good
<1>2. \A S \in SUBSET D : S \in Good
  BY <1>1, SetInduction
<1>3. QED
  BY <1>2 DEF Good

(* Every index of the sorted slice has a latency that belongs there: the   *)
(* least one up to which there are enough.                                 *)
LEMMA RankExists ==
  ASSUME NEW bag, IsBag(bag), NEW i \in 1 .. Total(bag)
  PROVE  \E l \in DOMAIN bag : AtRank(bag, l, i)
<1> DEFINE D == DOMAIN bag
           High == {l \in D : Part(bag, UpTo(bag, l)) >= i}
<1>1. /\ Total(bag) \in Nat /\ Total(bag) = Part(bag, D)
      /\ \A S \in SUBSET D : Part(bag, S) \in Nat
      /\ D \subseteq Nat /\ IsFiniteSet(D)
  BY BagPart, TotalIsPart DEF IsBag
<1>2. Part(bag, {}) = 0
  BY <1>1, PartEmpty
<1>3. ASSUME NEW S \in SUBSET D, Part(bag, S) >= i,
             \A x \in D : (\E y \in S : x <= y) => x \in S
      PROVE  \E m \in S : S = UpTo(bag, m) /\ m \in High
  <2>1. S # {}
    BY <1>2, <1>3
  <2>2. PICK m \in S : \A x \in S : x <= m
    BY <2>1, <1>1, LargestElement
  <2>3. S = UpTo(bag, m)
    BY <1>3, <2>2 DEF UpTo
  <2>4. QED
    BY <2>3, <1>3
<1>4. High # {}
  <2>1. Part(bag, D) >= i
    BY <1>1
  <2>2. QED
    BY <2>1, <1>3
<1>5. PICK l \in High : \A m \in High : l <= m
  <2>1. High \in SUBSET Nat
    BY <1>1
  <2> HIDE DEF High
  <2>2. QED
    BY <1>4, <2>1, LeastElement
<1>6. Part(bag, Under(bag, l)) < i
  <2>1. Under(bag, l) \in SUBSET D
    BY DEF Under
  <2>2. SUFFICES ASSUME Part(bag, Under(bag, l)) >= i
                 PROVE  FALSE
    BY <1>1, <2>1
  <2>3. \A x \in D : (\E y \in Under(bag, l) : x <= y) => x \in Under(bag, l)
    BY <1>1 DEF Under
  <2>4. PICK m \in Under(bag, l) : m \in High
    BY <1>3, <2>1, <2>2, <2>3
  <2>5. m < l /\ l <= m /\ m \in Nat /\ l \in Nat
    BY <1>1, <1>5, <2>4 DEF Under
  <2>6. QED
    BY <2>5
<1>7. QED
  BY <1>5, <1>6 DEF AtRank

(* The counts in SortedCopy are the sizes of two parts of the bag.         *)
LEMMA CountUpTo ==
  ASSUME NEW bag, IsBag(bag), NEW l
  PROVE  /\ CountIf(bag, LAMBDA x : x <= l) = Part(bag, UpTo(bag, l))
         /\ CountIf(bag, LAMBDA x : x < l) = Part(bag, Under(bag, l))
<1>1. /\ UpTo(bag, l) \in SUBSET DOMAIN bag
      /\ Under(bag, l) \in SUBSET DOMAIN bag
      /\ IsFiniteSet(DOMAIN bag) /\ bag \in [DOMAIN bag -> Int]
  BY BagPart DEF UpTo, Under, IsBag
<1>2. Total([x \in UpTo(bag, l) |-> bag[x]]) = Part(bag, UpTo(bag, l))
  BY <1>1, RestrictedTotal
<1>3. Total([x \in Under(bag, l) |-> bag[x]]) = Part(bag, Under(bag, l))
  BY <1>1, RestrictedTotal
<1>4. QED
  BY <1>2, <1>3 DEF CountIf, UpTo, Under

(* SortedCopy has at every index a latency that belongs there.             *)
LEMMA SortedRank ==
  ASSUME NEW bag, IsBag(bag), NEW i \in 1 .. Total(bag)
  PROVE  /\ SortedCopy(bag)[i] \in DOMAIN bag
         /\ AtRank(bag, SortedCopy(bag)[i], i)
<1> DEFINE P(l) == /\ CountIf(bag, LAMBDA x : x <= l) >= i
                   /\ CountIf(bag, LAMBDA x : x < l) < i
<1>1. \A l : P(l) <=> AtRank(bag, l, i)
  BY CountUpTo DEF AtRank
<1>2. SortedCopy(bag)[i] = CHOOSE l \in DOMAIN bag : P(l)
  BY DEF SortedCopy
<1> HIDE DEF P
<1>3. \E l \in DOMAIN bag : P(l)
  BY <1>1, RankExists
<1>4. /\ SortedCopy(bag)[i] \in DOMAIN bag
      /\ P(SortedCopy(bag)[i])
  BY <1>2, <1>3
<1>5. QED
  BY <1>1, <1>4

(* SortedCopy is a sequence, as long as the bag is large.                  *)
LEMMA SortedShape ==
  ASSUME NEW bag, IsBag(bag)
  PROVE  /\ SortedCopy(bag) \in Seq(Nat)
         /\ Len(SortedCopy(bag)) = Total(bag)
         /\ DOMAIN SortedCopy(bag) = 1 .. Total(bag)
         /\ SortedCopy(bag) = <<>> <=> Total(bag) = 0
<1>1. Total(bag) \in Nat
  BY BagPart
<1>2. DOMAIN SortedCopy(bag) = 1 .. Total(bag)
  BY DEF SortedCopy
<1>3. \A i \in 1 .. Total(bag) : SortedCopy(bag)[i] \in Nat
  BY SortedRank DEF IsBag
<1>4. SortedCopy(bag) \in [1 .. Total(bag) -> Nat]
  <2> DEFINE e(i) == CHOOSE l \in DOMAIN bag :
                       /\ CountIf(bag, LAMBDA x : x <= l) >= i
                       /\ CountIf(bag, LAMBDA x : x < l) < i
  <2>1. SortedCopy(bag) = [i \in 1 .. Total(bag) |-> e(i)]
    BY DEF SortedCopy
  <2> HIDE DEF e
  <2>2. QED
    BY <2>1, <1>3
<1>5. SortedCopy(bag) \in Seq(Nat)
  BY <1>1, <1>4
<1>6. Len(SortedCopy(bag)) = Total(bag)
  BY <1>1, <1>2, <1>5
<1>7. SortedCopy(bag) = <<>> <=> Total(bag) = 0
  BY <1>5, <1>6
<1>8. QED
  BY <1>2, <1>5, <1>6, <1>7

(* SortedCopy ascends.                                                     *)
LEMMA SortedAscending ==
  ASSUME NEW bag, IsBag(bag),
         NEW i \in 1 .. Total(bag), NEW j \in 1 .. Total(bag), i <= j
  PROVE  SortedCopy(bag)[i] <= SortedCopy(bag)[j]
<1> DEFINE x == SortedCopy(bag)[i]
           y == SortedCopy(bag)[j]
<1>1. /\ x \in DOMAIN bag /\ y \in DOMAIN bag /\ x \in Nat /\ y \in Nat
      /\ Part(bag, Under(bag, x)) < i /\ Part(bag, UpTo(bag, y)) >= j
  BY SortedRank DEF AtRank, IsBag
<1> HIDE DEF x, y
<1>2. SUFFICES ASSUME y < x
               PROVE  FALSE
  BY <1>1 DEF x, y
<1>3. /\ UpTo(bag, y) \in SUBSET Under(bag, x)
      /\ Under(bag, x) \in SUBSET DOMAIN bag
  BY <1>1, <1>2 DEF UpTo, Under, IsBag
<1>4. Part(bag, UpTo(bag, y)) <= Part(bag, Under(bag, x))
  BY <1>3, PartSubset
<1>5. /\ Part(bag, UpTo(bag, y)) \in Nat /\ Part(bag, Under(bag, x)) \in Nat
      /\ Total(bag) \in Nat
  BY <1>3, BagPart
<1>6. QED
  BY <1>1, <1>4, <1>5

(* A latency that occurs is between the first and the last.                *)
LEMMA SortedEnds ==
  ASSUME NEW bag, IsBag(bag), NEW l \in DOMAIN bag, bag[l] > 0
  PROVE  /\ Total(bag) > 0
         /\ SortedCopy(bag)[1] <= l
         /\ l <= SortedCopy(bag)[Total(bag)]
<1> DEFINE n == Total(bag)
           lo == SortedCopy(bag)[1]
           hi == SortedCopy(bag)[n]
<1>1. n \in Nat /\ n = Part(bag, DOMAIN bag) /\ l \in Nat /\ bag[l] \in Nat
  BY BagPart, TotalIsPart DEF IsBag
<1>2. n > 0
  BY <1>1, PartMember
<1>3. /\ lo \in DOMAIN bag /\ Part(bag, Under(bag, lo)) < 1
      /\ hi \in DOMAIN bag /\ Part(bag, UpTo(bag, hi)) >= n
  BY <1>1, <1>2, SortedRank DEF AtRank
<1> HIDE DEF n, lo, hi
<1>4. lo \in Nat /\ hi \in Nat
  BY <1>3 DEF IsBag
<1>5. ASSUME l < lo
      PROVE  FALSE
  <2>1. l \in Under(bag, lo) /\ Under(bag, lo) \in SUBSET DOMAIN bag
    BY <1>5 DEF Under
  <2>2. /\ bag[l] <= Part(bag, Under(bag, lo))
        /\ Part(bag, Under(bag, lo)) \in Nat
    BY <2>1, PartMember, BagPart
  <2>3. QED
    BY <2>2, <1>1, <1>3
<1>6. ASSUME hi < l
      PROVE  FALSE
  <2>1. /\ UpTo(bag, hi) \in SUBSET (DOMAIN bag \ {l})
        /\ DOMAIN bag \ {l} \in SUBSET DOMAIN bag
    BY <1>4, <1>6, <1>1 DEF UpTo
  <2>2. Part(bag, UpTo(bag, hi)) <= Part(bag, DOMAIN bag \ {l})
    BY <2>1, PartSubset
  <2>3. Part(bag, DOMAIN bag) = bag[l] + Part(bag, DOMAIN bag \ {l})
    BY BagPart, PartRemove DEF IsBag
  <2>4. /\ Part(bag, UpTo(bag, hi)) \in Nat
        /\ Part(bag, DOMAIN bag \ {l}) \in Nat
    <3>1. UpTo(bag, hi) \in SUBSET DOMAIN bag
      BY DEF UpTo
    <3>2. QED
      BY <3>1, <2>1, BagPart
  <2>5. QED
    BY <2>2, <2>3, <2>4, <1>1, <1>3
<1>7. QED
  BY <1>1, <1>2, <1>4, <1>5, <1>6 DEF n, lo, hi

(* The indices at which the sorted slice has one of the latencies of S.    *)
Positions(bag, S) == {i \in 1 .. Total(bag) : SortedCopy(bag)[i] \in S}

(* A latency is in the sorted slice as often as in the bag: at the indices *)
(* after all smaller ones.                                                 *)
LEMMA PositionsOfOne ==
  ASSUME NEW bag, IsBag(bag), NEW l \in DOMAIN bag
  PROVE  Cardinality(Positions(bag, {l})) = bag[l]
<1> DEFINE lo == Part(bag, Under(bag, l))
           hi == Part(bag, UpTo(bag, l))
           n == Total(bag)
<1>1. /\ UpTo(bag, l) \in SUBSET DOMAIN bag
      /\ Under(bag, l) \in SUBSET DOMAIN bag
      /\ l \in UpTo(bag, l) /\ UpTo(bag, l) \ {l} = Under(bag, l)
      /\ DOMAIN bag \subseteq Nat
  BY DEF UpTo, Under, IsBag
<1>2. lo \in Nat /\ hi \in Nat /\ n \in Nat /\ bag[l] \in Nat
  BY <1>1, BagPart DEF IsBag
<1>3. hi = bag[l] + lo
  <2>1. Part(bag, UpTo(bag, l)) = bag[l] + Part(bag, UpTo(bag, l) \ {l})
    BY <1>1, BagPart, PartRemove DEF IsBag
  <2>2. QED
    BY <2>1, <1>1
<1>4. hi <= n
  BY <1>1, PartSubset, TotalIsPart
<1>5. ASSUME NEW i \in 1 .. n
      PROVE  SortedCopy(bag)[i] = l <=> lo < i /\ i <= hi
  <2> DEFINE x == SortedCopy(bag)[i]
  <2>1. /\ x \in DOMAIN bag /\ x \in Nat /\ l \in Nat /\ i \in Nat
        /\ Part(bag, UpTo(bag, x)) >= i /\ Part(bag, Under(bag, x)) < i
    BY <1>1, <1>2, SortedRank DEF AtRank
  <2> HIDE DEF x
  <2>2. /\ UpTo(bag, x) \in SUBSET DOMAIN bag
        /\ Under(bag, x) \in SUBSET DOMAIN bag
        /\ Part(bag, UpTo(bag, x)) \in Nat
        /\ Part(bag, Under(bag, x)) \in Nat
    <3>1. /\ UpTo(bag, x) \in SUBSET DOMAIN bag
          /\ Under(bag, x) \in SUBSET DOMAIN bag
      BY DEF UpTo, Under
    <3>2. QED
      BY <3>1, BagPart
  <2>3. CASE x = l
    BY <2>1, <2>2, <2>3, <1>2 DEF x
  <2>4. CASE x < l
    <3>1. UpTo(bag, x) \in SUBSET Under(bag, l)
      BY <1>1, <2>1, <2>4 DEF UpTo, Under
    <3>2. Part(bag, UpTo(bag, x)) <= lo
      BY <1>1, <3>1, PartSubset
    <3>3. i <= lo
      BY <2>1, <2>2, <3>2, <1>2
    <3>4. ~(lo < i) /\ x # l
      BY <2>1, <2>4, <3>3, <1>2
    <3>5. QED
      BY <3>4 DEF x
  <2>5. CASE l < x
    <3>1. UpTo(bag, l) \in SUBSET Under(bag, x)
      BY <1>1, <2>1, <2>5 DEF UpTo, Under
    <3>2. hi <= Part(bag, Under(bag, x))
      BY <2>2, <3>1, PartSubset
    <3>3. hi < i
      BY <2>1, <2>2, <3>2, <1>2
    <3>4. ~(i <= hi) /\ x # l
      BY <2>1, <2>5, <3>3, <1>2
    <3>5. QED
      BY <3>4 DEF x
  <2>6. QED
    BY <2>1, <2>3, <2>4, <2>5
<1> HIDE DEF lo, hi, n
<1>6. Positions(bag, {l}) = lo + 1 .. hi
  <2>1. \A i \in 1 .. n : i \in Positions(bag, {l}) <=> lo < i /\ i <= hi
    BY <1>5 DEF Positions, n
  <2>2. Positions(bag, {l}) \in SUBSET (1 .. n)
    BY DEF Positions, n
  <2>3. \A i \in lo + 1 .. hi : i \in 1 .. n /\ lo < i /\ i <= hi
    BY <1>2, <1>4
  <2>4. \A i \in 1 .. n : lo < i /\ i <= hi => i \in lo + 1 .. hi
    BY <1>2
  <2>5. QED
    BY <2>1, <2>2, <2>3, <2>4
<1>7. Cardinality(lo + 1 .. hi) = IF lo + 1 > hi THEN 0 ELSE hi - (lo + 1) + 1
  BY <1>2, FS_Interval
<1>8. QED
  BY <1>2, <1>3, <1>6, <1>7

(* The latencies of S are in the sorted slice as often as in the bag.      *)
LEMMA PositionsCount ==
  ASSUME NEW bag, IsBag(bag)
  PROVE  \A S \in SUBSET DOMAIN bag :
           Cardinality(Positions(bag, S)) = Part(bag, S)
<1> DEFINE D == DOMAIN bag
           Good == {S \in SUBSET D :
                      Cardinality(Positions(bag, S)) = Part(bag, S)}
<1>1. \A S : IsFiniteSet(Positions(bag, S))
  <2>1. Total(bag) \in Nat
    BY BagPart
  <2>2. IsFiniteSet(1 .. Total(bag))
    BY <2>1, FS_Interval
  <2>3. \A S : Positions(bag, S) \in SUBSET (1 .. Total(bag))
    BY DEF Positions
  <2>4. QED
    BY <2>2, <2>3, FS_Subset
<1>2. ASSUME NEW S \in SUBSET D, \A x \in S : S \ {x} \in Good
      PROVE  S \in Good
  <2>1. CASE S = {}
    <3>1. Positions(bag, S) = {}
      BY <2>1 DEF Positions
    <3>2. Part(bag, S) = 0
      BY <2>1, PartEmpty DEF IsBag
    <3>3. QED
      BY <3>1, <3>2, FS_EmptySet
  <2>2. CASE S # {}
    <3>1. PICK x \in S : TRUE
      BY <2>2
    <3> DEFINE A == Positions(bag, {x})
               B == Positions(bag, S \ {x})
    <3>2. Cardinality(B) = Part(bag, S \ {x})
      BY <1>2, <3>1
    <3>3. Cardinality(A) = bag[x]
      BY PositionsOfOne
    <3>4. Positions(bag, S) = A \cup B /\ A \cap B = {}
      BY DEF Positions
    <3>5. Part(bag, S) = bag[x] + Part(bag, S \ {x})
      BY BagPart, PartRemove DEF IsBag
    <3>6. bag[x] \in Nat /\ Part(bag, S \ {x}) \in Nat
      BY BagPart DEF IsBag
    <3>7. IsFiniteSet(A) /\ IsFiniteSet(B)
      BY <1>1
    <3> HIDE DEF A, B
    <3>8. Cardinality(A \cup B)
            = Cardinality(A) + Cardinality(B) - Cardinality(A \cap B)
      BY <3>7, FS_Union
    <3>9. Cardinality(A \cap B) = 0
      BY <3>4, FS_EmptySet
    <3>10. Cardinality(Positions(bag, S)) = bag[x] + Part(bag, S \ {x})
      BY <3>2, <3>3, <3>4, <3>6, <3>8, <3>9
    <3>11. QED
      BY <3>5, <3>10
  <2>3. QED
    BY <2>1, <2>2
<1>3. IsFiniteSet(D)
  BY DEF IsBag
<1> HIDE DEF Good
<1>4. \A S \in SUBSET D : S \in Good
  BY <1>2, <1>3, SetInduction
<1>5. QED
  BY <1>4 DEF Good

(* slices.Sort on the copied latencies, as SortedCopy states it, for every *)
(* bag: the result ascends and has each latency exactly as often as the    *)
(* bag.                                                                    *)
THEOREM SortIsCorrect ==
  ASSUME NEW bag, IsBag(bag)
  PROVE  LET data == SortedCopy(bag)
         IN  /\ data \in Seq(Nat) /\ Len(data) = Total(bag)
             /\ \A i, j \in DOMAIN data : i <= j => data[i] <= data[j]
             /\ \A l \in DOMAIN bag :
                  Cardinality({i \in DOMAIN data : data[i] = l}) = bag[l]
<1> DEFINE data == SortedCopy(bag)
<1>1. /\ data \in Seq(Nat) /\ Len(data) = Total(bag)
      /\ DOMAIN data = 1 .. Total(bag)
  BY SortedShape
<1>2. \A i, j \in 1 .. Total(bag) : i <= j => data[i] <= data[j]
  BY SortedAscending
<1>3. ASSUME NEW l \in DOMAIN bag
      PROVE  Cardinality({i \in DOMAIN data : data[i] = l}) = bag[l]
  <2>1. {i \in DOMAIN data : data[i] = l} = Positions(bag, {l})
    BY <1>1 DEF Positions
  <2>2. QED
    BY <2>1, PositionsOfOne
<1>4. QED
  BY <1>1, <1>2, <1>3

-----------------------------------------------------------------------------
(***************************************************************************)
(* Percentiles.                                                            *)
(***************************************************************************)

(* The rank of a percentile among n latencies lies on one of them or       *)
(* between two: the index below it and, if there is a fraction, the one    *)
(* above are in range. CalcPercentiles never reads beyond the slice.       *)
LEMMA RankParts ==
  ASSUME NEW p \in Percentiles, NEW n \in Nat, n > 0
  PROVE  LET rank  == p * (n - 1)
             lower == rank \div 100
             frac  == rank % 100
         IN  /\ rank = 100 * lower + frac
             /\ lower \in 0 .. n - 1 /\ frac \in 0 .. 99
             /\ frac # 0 => lower + 2 <= n
<1> DEFINE rank  == p * (n - 1)
           lower == rank \div 100
           frac  == rank % 100
<1>1. rank \in Nat /\ rank <= 99 * (n - 1)
  <2>1. CASE p = 50
    BY <2>1
  <2>2. CASE p = 90
    BY <2>2
  <2>3. CASE p = 95
    BY <2>3
  <2>4. CASE p = 99
    BY <2>4
  <2>5. QED
    BY <2>1, <2>2, <2>3, <2>4 DEF Percentiles
<1> HIDE DEF rank
<1>2. /\ rank = 100 * lower + frac /\ lower \in Nat /\ frac \in 0 .. 99
  BY <1>1
<1> HIDE DEF lower, frac
<1>3. lower <= n - 1
  BY <1>1, <1>2
<1>4. frac # 0 => lower + 2 <= n
  BY <1>1, <1>2
<1>5. QED
  BY <1>2, <1>3, <1>4 DEF rank, lower, frac

(* An interpolation lies between what it interpolates.                     *)
LEMMA BlendBounds ==
  ASSUME NEW a \in Nat, NEW b \in Nat, a <= b, NEW f \in 0 .. 100
  PROVE  /\ a * (100 - f) + b * f \in Nat
         /\ 100 * a <= a * (100 - f) + b * f
         /\ a * (100 - f) + b * f <= 100 * b
<1> DEFINE d == b - a
<1>1. d \in Nat /\ b = a + d
  OBVIOUS
<1> HIDE DEF d
<1>2. a * (100 - f) + b * f = 100 * a + d * f
  <2>1. (a + d) * f = a * f + d * f
    BY <1>1
  <2>2. a * (100 - f) = 100 * a - a * f
    OBVIOUS
  <2>3. a * f \in Nat /\ d * f \in Nat
    BY <1>1
  <2>4. QED
    BY <2>1, <2>2, <2>3, <1>1
<1>3. d * f \in Nat /\ d * f <= 100 * d
  BY <1>1
<1>4. QED
  BY <1>1, <1>2, <1>3

(* An interpolation grows with its fraction.                               *)
LEMMA BlendMonotone ==
  ASSUME NEW a \in Nat, NEW b \in Nat, a <= b,
         NEW f \in 0 .. 100, NEW g \in 0 .. 100, f <= g
  PROVE  a * (100 - f) + b * f <= a * (100 - g) + b * g
<1> DEFINE d == b - a
<1>1. d \in Nat /\ b = a + d
  OBVIOUS
<1> HIDE DEF d
<1>2. \A h \in 0 .. 100 : a * (100 - h) + b * h = 100 * a + d * h
  <2> SUFFICES ASSUME NEW h \in 0 .. 100
               PROVE  a * (100 - h) + b * h = 100 * a + d * h
    OBVIOUS
  <2>1. (a + d) * h = a * h + d * h
    BY <1>1
  <2>2. a * (100 - h) = 100 * a - a * h
    OBVIOUS
  <2>3. a * h \in Nat /\ d * h \in Nat
    BY <1>1
  <2>4. QED
    BY <2>1, <2>2, <2>3, <1>1
<1>3. d * f <= d * g /\ d * f \in Nat /\ d * g \in Nat
  BY <1>1
<1>4. QED
  BY <1>2, <1>3

(* The index below the rank of p among n latencies, counted from 0.        *)
Lower(p, n) == (p * (n - 1)) \div 100

(* How far, in hundredths, the rank lies above that index.                 *)
Frac(p, n) == (p * (n - 1)) % 100

(* A percentile lies between the two latencies around its rank.            *)
LEMMA PercentileBounds ==
  ASSUME NEW bag, IsBag(bag), Total(bag) > 0, NEW p \in Percentiles
  PROVE  LET data == SortedCopy(bag)
             lower == Lower(p, Total(bag))
             frac == Frac(p, Total(bag))
             v == Percentile(data, p)
         IN  /\ v \in Nat
             /\ lower + 1 \in 1 .. Total(bag)
             /\ 100 * data[lower + 1] <= v
             /\ frac = 0 => v = 100 * data[lower + 1]
             /\ frac # 0 =>
                  /\ lower + 2 \in 1 .. Total(bag)
                  /\ v = data[lower + 1] * (100 - frac)
                           + data[lower + 2] * frac
                  /\ v <= 100 * data[lower + 2]
<1> DEFINE n == Total(bag)
           data == SortedCopy(bag)
           lower == Lower(p, n)
           frac == Frac(p, n)
           a == data[lower + 1]
           b == data[lower + 2]
           v == Percentile(data, p)
<1>1. n \in Nat /\ n > 0 /\ data # <<>> /\ Len(data) = n
  BY BagPart, SortedShape
<1>2. /\ lower \in 0 .. n - 1 /\ frac \in 0 .. 99
      /\ frac # 0 => lower + 2 <= n
  BY <1>1, RankParts DEF Lower, Frac
<1>3. v = IF frac = 0 THEN 100 * a ELSE a * (100 - frac) + b * frac
  BY <1>1 DEF Percentile, Lower, Frac
<1>4. lower + 1 \in 1 .. n /\ (frac # 0 => lower + 2 \in 1 .. n)
  <2> HIDE DEF n, lower, frac
  <2>1. QED
    BY <1>1, <1>2
<1>5. \A i \in 1 .. n : data[i] \in Nat
  BY SortedRank DEF IsBag
<1>6. a \in Nat /\ (frac # 0 => b \in Nat /\ a <= b)
  <2>1. a \in Nat /\ (frac # 0 => b \in Nat)
    BY <1>4, <1>5
  <2>2. frac # 0 => lower + 1 <= lower + 2
    BY <1>2
  <2>3. frac # 0 => a <= b
    BY <1>4, <2>2, SortedAscending
  <2>4. QED
    BY <2>1, <2>3
<1> HIDE DEF n, data, lower, frac, a, b, v
<1>7. CASE frac = 0
  <2>1. v = 100 * a
    BY <1>3, <1>7
  <2>2. v \in Nat /\ 100 * a <= v
    BY <2>1, <1>6
  <2>3. QED
    BY <1>4, <1>7, <2>1, <2>2 DEF n, data, lower, frac, a, b, v
<1>8. CASE frac # 0
  <2>1. v = a * (100 - frac) + b * frac
    BY <1>3, <1>8
  <2>2. a \in Nat /\ b \in Nat /\ a <= b /\ frac \in 0 .. 100
    BY <1>2, <1>6, <1>8
  <2>3. v \in Nat /\ 100 * a <= v /\ v <= 100 * b
    BY <2>1, <2>2, BlendBounds
  <2>4. QED
    BY <1>4, <1>8, <2>1, <2>3 DEF n, data, lower, frac, a, b, v
<1>9. QED
  BY <1>7, <1>8

(* A higher percentile is not smaller: either its index is higher, and     *)
(* then a latency lies between the two, or the fraction is.                *)
LEMMA PercentileAscending ==
  ASSUME NEW bag, IsBag(bag), Total(bag) > 0,
         NEW p \in Percentiles, NEW q \in Percentiles, p <= q
  PROVE  Percentile(SortedCopy(bag), p) <= Percentile(SortedCopy(bag), q)
<1> DEFINE n == Total(bag)
           data == SortedCopy(bag)
           lp == Lower(p, n)
           fp == Frac(p, n)
           lq == Lower(q, n)
           fq == Frac(q, n)
           vp == Percentile(data, p)
           vq == Percentile(data, q)
<1>1. n \in Nat /\ n > 0 /\ p \in Nat /\ q \in Nat
  BY BagPart DEF Percentiles
<1>2. /\ vp \in Nat /\ lp + 1 \in 1 .. n /\ 100 * data[lp + 1] <= vp
      /\ fp = 0 => vp = 100 * data[lp + 1]
      /\ fp # 0 =>
           /\ lp + 2 \in 1 .. n
           /\ vp = data[lp + 1] * (100 - fp) + data[lp + 2] * fp
           /\ vp <= 100 * data[lp + 2]
  BY PercentileBounds
<1>3. /\ vq \in Nat /\ lq + 1 \in 1 .. n /\ 100 * data[lq + 1] <= vq
      /\ fq = 0 => vq = 100 * data[lq + 1]
      /\ fq # 0 =>
           /\ lq + 2 \in 1 .. n
           /\ vq = data[lq + 1] * (100 - fq) + data[lq + 2] * fq
           /\ vq <= 100 * data[lq + 2]
  BY PercentileBounds
<1>4. /\ p * (n - 1) = 100 * lp + fp /\ lp \in Nat /\ fp \in 0 .. 99
      /\ q * (n - 1) = 100 * lq + fq /\ lq \in Nat /\ fq \in 0 .. 99
  <2>1. /\ p * (n - 1) = 100 * lp + fp /\ lp \in 0 .. n - 1 /\ fp \in 0 .. 99
    BY <1>1, RankParts DEF Lower, Frac
  <2>2. /\ q * (n - 1) = 100 * lq + fq /\ lq \in 0 .. n - 1 /\ fq \in 0 .. 99
    BY <1>1, RankParts DEF Lower, Frac
  <2>3. QED
    BY <2>1, <2>2
<1>5. \A i \in 1 .. n : data[i] \in Nat
  BY SortedRank DEF IsBag
<1>6. \A i, j \in 1 .. n : i <= j => data[i] <= data[j]
  BY SortedAscending
<1> HIDE DEF n, data, lp, fp, lq, fq, vp, vq
<1>7. p * (n - 1) <= q * (n - 1)
  <2>1. n - 1 \in Nat
    BY <1>1
  <2>2. \A x, y, z \in Nat : x <= y => x * z <= y * z
    OBVIOUS
  <2>3. QED
    BY <1>1, <2>1, <2>2
<1>8. lp < lq \/ (lp = lq /\ fp <= fq)
  BY <1>1, <1>4, <1>7
<1>9. CASE lp < lq
  <2>1. lp + 2 <= lq + 1 /\ lp + 1 <= lq + 1
    BY <1>4, <1>9
  <2>2. vp <= 100 * data[lq + 1]
    <3>1. CASE fp = 0
      <4>1. data[lp + 1] <= data[lq + 1]
        BY <1>2, <1>3, <1>6, <2>1
      <4>2. data[lp + 1] \in Nat /\ data[lq + 1] \in Nat
        BY <1>2, <1>3, <1>5
      <4>3. QED
        BY <4>1, <4>2, <3>1, <1>2
    <3>2. CASE fp # 0
      <4>1. data[lp + 2] <= data[lq + 1]
        BY <1>2, <1>3, <1>6, <2>1, <3>2
      <4>2. data[lp + 2] \in Nat /\ data[lq + 1] \in Nat
        BY <1>2, <1>3, <1>5, <3>2
      <4>3. QED
        BY <4>1, <4>2, <3>2, <1>2
    <3>3. QED
      BY <3>1, <3>2
  <2>3. data[lq + 1] \in Nat
    BY <1>3, <1>5
  <2>4. vp <= vq
    BY <1>2, <1>3, <2>2, <2>3
  <2>5. QED
    BY <2>4 DEF vp, vq, data
<1>10. CASE lp = lq /\ fp <= fq
  <2>1. CASE fp = 0
    <3>1. vp <= vq
      BY <1>2, <1>3, <1>10, <2>1
    <3>2. QED
      BY <3>1 DEF vp, vq, data
  <2>2. CASE fp # 0
    <3>1. fq # 0 /\ fp \in 0 .. 100 /\ fq \in 0 .. 100
      BY <1>4, <1>10, <2>2
    <3>2. /\ data[lp + 1] \in Nat /\ data[lp + 2] \in Nat
          /\ data[lp + 1] <= data[lp + 2]
      <4>1. lp + 1 <= lp + 2
        BY <1>4
      <4>2. QED
        BY <1>2, <1>5, <1>6, <2>2, <4>1
    <3>3. data[lp + 1] * (100 - fp) + data[lp + 2] * fp
            <= data[lp + 1] * (100 - fq) + data[lp + 2] * fq
      BY <3>1, <3>2, <1>10, BlendMonotone
    <3>4. vp <= vq
      BY <3>1, <3>3, <1>2, <1>3, <1>10, <2>2
    <3>5. QED
      BY <3>4 DEF vp, vq, data
  <2>3. QED
    BY <2>1, <2>2
<1>11. QED
  BY <1>8, <1>9, <1>10

(* The two counts in PercentilesCorrect are sizes of parts of the bag.     *)
LEMMA CountIsPart ==
  ASSUME NEW bag, IsBag(bag), NEW v
  PROVE  /\ CountIf(bag, LAMBDA x : 100 * x <= v)
              = Part(bag, {x \in DOMAIN bag : 100 * x <= v})
         /\ CountIf(bag, LAMBDA x : 100 * x >= v)
              = Part(bag, {x \in DOMAIN bag : 100 * x >= v})
<1>1. /\ {x \in DOMAIN bag : 100 * x <= v} \in SUBSET DOMAIN bag
      /\ {x \in DOMAIN bag : 100 * x >= v} \in SUBSET DOMAIN bag
      /\ IsFiniteSet(DOMAIN bag) /\ bag \in [DOMAIN bag -> Int]
  BY BagPart DEF IsBag
<1>2. \A S \in SUBSET DOMAIN bag :
        Total([x \in S |-> bag[x]]) = Part(bag, S)
  BY <1>1, RestrictedTotal
<1>3. QED
  BY <1>1, <1>2 DEF CountIf

(* CalcPercentiles is right for every bag of latencies: at least the share *)
(* p is not above the percentile p, at least the rest not below it, and    *)
(* percentiles grow with p.                                                *)
THEOREM PercentilesAreCorrect ==
  ASSUME NEW bag, IsBag(bag)
  PROVE  PercentilesCorrect(bag, CalcPercentiles(SortedCopy(bag)))
<1> DEFINE n == Total(bag)
           data == SortedCopy(bag)
           values == CalcPercentiles(data)
<1>1. n \in Nat /\ n = Part(bag, DOMAIN bag)
  BY BagPart, TotalIsPart
<1> SUFFICES ASSUME n > 0, NEW p \in Percentiles
    PROVE /\ 100 * (CountIf(bag, LAMBDA x : 100 * x <= values[p]) - 1)
               > p * (n - 1) - 100
          /\ 100 * (n - CountIf(bag, LAMBDA x : 100 * x >= values[p]))
               < p * (n - 1) + 100
          /\ \A q \in Percentiles : p <= q => values[p] <= values[q]
  BY DEF PercentilesCorrect
<1> DEFINE v == Percentile(data, p)
           lower == Lower(p, n)
           frac == Frac(p, n)
           a == data[lower + 1]
           b == data[lower + 2]
           Low == {x \in DOMAIN bag : 100 * x <= v}
           High == {x \in DOMAIN bag : 100 * x >= v}
           Rest == {x \in DOMAIN bag : 100 * x < v}
<1>2. \A q \in Percentiles : values[q] = Percentile(data, q)
  BY DEF CalcPercentiles
<1>3. /\ v \in Nat /\ lower + 1 \in 1 .. n /\ 100 * a <= v
      /\ frac = 0 => v = 100 * a
      /\ frac # 0 => lower + 2 \in 1 .. n /\ v <= 100 * b
  BY PercentileBounds
<1>4. /\ p * (n - 1) = 100 * lower + frac
      /\ lower \in 0 .. n - 1 /\ frac \in 0 .. 99
  BY <1>1, RankParts DEF Lower, Frac
<1>5. /\ a \in Nat /\ Part(bag, UpTo(bag, a)) >= lower + 1
      /\ Part(bag, Under(bag, a)) < lower + 1
  BY <1>3, SortedRank DEF IsBag, AtRank
<1>6. frac # 0 => b \in Nat /\ Part(bag, Under(bag, b)) < lower + 2
  BY <1>3, SortedRank DEF IsBag, AtRank
<1>7. /\ CountIf(bag, LAMBDA x : 100 * x <= values[p]) = Part(bag, Low)
      /\ CountIf(bag, LAMBDA x : 100 * x >= values[p]) = Part(bag, High)
  <2>1. \A w :
          /\ CountIf(bag, LAMBDA x : 100 * x <= w)
               = Part(bag, {x \in DOMAIN bag : 100 * x <= w})
          /\ CountIf(bag, LAMBDA x : 100 * x >= w)
               = Part(bag, {x \in DOMAIN bag : 100 * x >= w})
    BY CountIsPart
  <2>2. values[p] = v
    BY <1>2
  <2> HIDE DEF values, v
  <2>3. QED
    BY <2>1, <2>2
<1>8. /\ DOMAIN bag \subseteq Nat /\ Low \in SUBSET DOMAIN bag
      /\ High \in SUBSET DOMAIN bag /\ Rest \in SUBSET DOMAIN bag
  BY DEF IsBag
<1> HIDE DEF n, data, values, v, lower, frac, a, b
<1>9. UpTo(bag, a) \in SUBSET Low /\ UpTo(bag, a) \in SUBSET DOMAIN bag
  BY <1>3, <1>5, <1>8 DEF UpTo
<1>10. High \cap Rest = {} /\ High \cup Rest = DOMAIN bag
  BY <1>3, <1>8
<1>11. /\ frac = 0 => Rest \in SUBSET Under(bag, a)
       /\ frac # 0 => Rest \in SUBSET Under(bag, b)
       /\ Under(bag, a) \in SUBSET DOMAIN bag
       /\ Under(bag, b) \in SUBSET DOMAIN bag
  BY <1>3, <1>5, <1>6, <1>8 DEF Under
<1> HIDE DEF Low, High, Rest
<1>12. \A S \in SUBSET DOMAIN bag : Part(bag, S) \in Nat
  BY BagPart
<1>13. Part(bag, UpTo(bag, a)) <= Part(bag, Low)
  BY <1>8, <1>9, PartSubset
<1>14. Part(bag, Low) >= lower + 1
  <2>1. Part(bag, Low) \in Nat /\ Part(bag, UpTo(bag, a)) \in Nat
    BY <1>8, <1>9, <1>12
  <2>2. QED
    BY <2>1, <1>4, <1>5, <1>13
<1>15. n = Part(bag, High) + Part(bag, Rest)
  BY <1>1, <1>8, <1>10, BagPart, PartUnion DEF IsBag
<1>16. 100 * Part(bag, Rest) < 100 * lower + frac + 100
  <2>1. CASE frac = 0
    <3>1. Part(bag, Rest) <= Part(bag, Under(bag, a))
      BY <1>11, <2>1, PartSubset
    <3>2. Part(bag, Rest) \in Nat /\ Part(bag, Under(bag, a)) \in Nat
      BY <1>8, <1>11, <1>12
    <3>3. QED
      BY <3>1, <3>2, <1>4, <1>5
  <2>2. CASE frac # 0
    <3>1. Part(bag, Rest) <= Part(bag, Under(bag, b))
      BY <1>11, <2>2, PartSubset
    <3>2. Part(bag, Rest) \in Nat /\ Part(bag, Under(bag, b)) \in Nat
      BY <1>8, <1>11, <1>12
    <3>3. QED
      BY <3>1, <3>2, <1>4, <1>6, <2>2
  <2>3. QED
    BY <2>1, <2>2
<1>17. 100 * (Part(bag, Low) - 1) > p * (n - 1) - 100
  <2>1. Part(bag, Low) \in Nat
    BY <1>8, <1>12
  <2>2. 100 * (Part(bag, Low) - 1) >= 100 * lower
    BY <2>1, <1>4, <1>14
  <2>3. QED
    BY <2>1, <2>2, <1>4
<1>18. 100 * (n - Part(bag, High)) < p * (n - 1) + 100
  <2>1. Part(bag, High) \in Nat /\ Part(bag, Rest) \in Nat
    BY <1>8, <1>12
  <2>2. n - Part(bag, High) = Part(bag, Rest)
    BY <2>1, <1>15
  <2>3. QED
    BY <2>1, <2>2, <1>4, <1>16
<1>19. ASSUME NEW q \in Percentiles, p <= q
       PROVE  values[p] <= values[q]
  BY <1>2, <1>19, PercentileAscending DEF n, data
<1>20. QED
  BY <1>7, <1>17, <1>18, <1>19

-----------------------------------------------------------------------------
(***************************************************************************)
(* Histograms.                                                             *)
(***************************************************************************)

(* A conversion to microseconds is a natural number, and monotone.         *)
LEMMA MillisNat ==
  /\ \A m \in Nat : Millis(m) \in Nat
  /\ \A m, n \in Nat : m < n => Millis(m) < Millis(n)
<1>1. MicrosPerMilli \in Nat /\ MicrosPerMilli > 0
  BY LatencyAssumption
<1>2. \A m, k \in Nat : k * m \in Nat
  OBVIOUS
<1>3. \A m, n, k \in Nat : m < n /\ k > 0 => k * m < k * n
  OBVIOUS
<1>4. QED
  BY <1>1, <1>2, <1>3 DEF Millis

(* The thresholds are ten, and ascend.                                     *)
LEMMA ThresholdFacts ==
  /\ Len(Thresholds) = 10 /\ DOMAIN Thresholds = 1 .. 10
  /\ \A i \in 1 .. 10 : Thresholds[i] \in Nat
  /\ \A i, j \in 1 .. 10 : i < j => Thresholds[i] < Thresholds[j]
<1>1. Len(Thresholds) = 10 /\ DOMAIN Thresholds = 1 .. 10
  BY DEF Thresholds
<1>2. /\ Thresholds[1] = Millis(10) /\ Thresholds[2] = Millis(25)
      /\ Thresholds[3] = Millis(50) /\ Thresholds[4] = Millis(100)
      /\ Thresholds[5] = Millis(250) /\ Thresholds[6] = Millis(500)
      /\ Thresholds[7] = Millis(1000) /\ Thresholds[8] = Millis(2500)
      /\ Thresholds[9] = Millis(5000) /\ Thresholds[10] = Millis(10000)
  BY DEF Thresholds
<1>3. \A i \in 1 .. 10 : i = 1 \/ i = 2 \/ i = 3 \/ i = 4 \/ i = 5 \/ i = 6
                          \/ i = 7 \/ i = 8 \/ i = 9 \/ i = 10
  OBVIOUS
<1>4. \A i \in 1 .. 10 : Thresholds[i] \in Nat
  BY <1>2, <1>3, MillisNat
<1>5. \A i \in 1 .. 9 : Thresholds[i] < Thresholds[i + 1]
  <2> SUFFICES ASSUME NEW i \in 1 .. 9
               PROVE  Thresholds[i] < Thresholds[i + 1]
    OBVIOUS
  <2>1. i = 1 \/ i = 2 \/ i = 3 \/ i = 4 \/ i = 5 \/ i = 6
          \/ i = 7 \/ i = 8 \/ i = 9
    OBVIOUS
  <2>2. /\ Millis(10) < Millis(25) /\ Millis(25) < Millis(50)
        /\ Millis(50) < Millis(100) /\ Millis(100) < Millis(250)
        /\ Millis(250) < Millis(500) /\ Millis(500) < Millis(1000)
        /\ Millis(1000) < Millis(2500) /\ Millis(2500) < Millis(5000)
        /\ Millis(5000) < Millis(10000)
    BY MillisNat
  <2>3. QED
    BY <1>2, <2>1, <2>2
<1>6. \A i, j \in 1 .. 10 : i < j => Thresholds[i] < Thresholds[j]
  <2> DEFINE Late(i) == {j \in Nat : j \in 1 .. 10 /\ i < j
                                       /\ ~(Thresholds[i] < Thresholds[j])}
  <2> SUFFICES ASSUME NEW i \in 1 .. 10, Late(i) # {}
               PROVE  FALSE
    OBVIOUS
  <2>1. PICK j \in Late(i) : \A k \in Late(i) : j <= k
    <3>1. Late(i) \in SUBSET Nat
      OBVIOUS
    <3> HIDE DEF Late
    <3>2. QED
      BY <3>1, LeastElement
  <2>2. /\ j \in Nat /\ i < j /\ j \in 1 .. 10
        /\ ~(Thresholds[i] < Thresholds[j])
    OBVIOUS
  <2>3. j - 1 \in 1 .. 9 /\ (j - 1) + 1 = j /\ j - 1 \notin Late(i)
    BY <2>1, <2>2
  <2>4. Thresholds[j - 1] < Thresholds[j]
    BY <2>3, <1>5
  <2>5. j - 1 = i \/ Thresholds[i] < Thresholds[j - 1]
    BY <2>2, <2>3
  <2>6. /\ Thresholds[i] \in Nat /\ Thresholds[j] \in Nat
        /\ Thresholds[j - 1] \in Nat
    BY <1>4, <2>2, <2>3
  <2>7. QED
    BY <2>2, <2>4, <2>5, <2>6
<1>7. QED
  BY <1>1, <1>4, <1>6

(* There are finitely many buckets.                                        *)
LEMMA BucketsFinite == IsFiniteSet(Buckets)
<1>1. Buckets = 1 .. 11
  BY ThresholdFacts DEF Buckets
<1>2. \A n \in Nat : IsFiniteSet(1 .. n)
  BY FS_Interval
<1>3. QED
  BY <1>1, <1>2

(* A bucket holds what is below its threshold and not below the one        *)
(* before.                                                                 *)
InBucket(x, b) ==
  /\ b <= Len(Thresholds) => x < Thresholds[b]
  /\ b > 1 => x >= Thresholds[b - 1]

(* The first threshold a latency is below determines that bucket.          *)
LEMMA BucketOfIs ==
  ASSUME NEW x \in Nat
  PROVE  /\ BucketOf(x) \in Buckets
         /\ \A b \in Buckets : BucketOf(x) = b <=> InBucket(x, b)
<1> DEFINE T == Thresholds
           First(b) == Below(x, b) /\ \A c \in 1 .. b - 1 : ~Below(x, c)
           Fitting == {b \in Buckets : Below(x, b)}
<1>1. /\ Len(T) = 10 /\ \A i \in 1 .. 10 : T[i] \in Nat
      /\ \A i, j \in 1 .. 10 : i < j => T[i] < T[j]
      /\ Buckets = 1 .. 11
  BY ThresholdFacts DEF Buckets
<1> HIDE DEF T
<1>2. \A b \in 1 .. 11 : Below(x, b) <=> b = 11 \/ x < T[b]
  BY <1>1 DEF Below, T
<1>3. \A b \in 1 .. 11 :
        InBucket(x, b) <=> (b <= 10 => x < T[b]) /\ (b > 1 => x >= T[b - 1])
  BY <1>1 DEF InBucket, T
<1>4. \A b \in 1 .. 11 : First(b) <=> InBucket(x, b)
  <2> SUFFICES ASSUME NEW b \in 1 .. 11
               PROVE  First(b) <=> InBucket(x, b)
    OBVIOUS
  <2>1. ASSUME First(b)
        PROVE  InBucket(x, b)
    <3>1. b <= 10 => x < T[b]
      BY <2>1, <1>2
    <3>2. ASSUME b > 1
          PROVE  x >= T[b - 1]
      <4>1. b - 1 \in 1 .. b - 1 /\ b - 1 \in 1 .. 10
        BY <3>2
      <4>2. ~Below(x, b - 1)
        BY <2>1, <4>1
      <4>3. ~(x < T[b - 1])
        BY <1>2, <4>1, <4>2
      <4>4. T[b - 1] \in Nat
        BY <1>1, <4>1
      <4>5. QED
        BY <4>3, <4>4
    <3>3. QED
      BY <1>3, <3>1, <3>2
  <2>2. ASSUME InBucket(x, b)
        PROVE  First(b)
    <3>1. Below(x, b)
      BY <1>2, <1>3, <2>2
    <3>2. ASSUME NEW c \in 1 .. b - 1
          PROVE  ~Below(x, c)
      <4>1. c \in 1 .. 10 /\ c \in 1 .. 11 /\ b - 1 \in 1 .. 10 /\ b > 1
            /\ c # 11
        OBVIOUS
      <4>2. x >= T[b - 1]
        BY <1>3, <2>2, <4>1
      <4>3. T[c] \in Nat /\ T[b - 1] \in Nat
        BY <1>1, <4>1
      <4>4. c = b - 1 \/ T[c] < T[b - 1]
        BY <1>1, <4>1
      <4>5. ~(x < T[c])
        BY <4>2, <4>3, <4>4
      <4>6. QED
        BY <1>2, <4>1, <4>5
    <3>3. QED
      BY <3>1, <3>2
  <2>3. QED
    BY <2>1, <2>2
<1>5. \E b \in Buckets : First(b)
  <2>1. 11 \in Fitting /\ Fitting \in SUBSET Nat
    BY <1>1, <1>2
  <2>2. PICK b \in Fitting : \A c \in Fitting : b <= c
    <3> HIDE DEF Fitting
    <3>1. QED
      BY <2>1, LeastElement
  <2>3. \A c \in 1 .. b - 1 : ~Below(x, c)
    <3>1. SUFFICES ASSUME NEW c \in 1 .. b - 1, Below(x, c)
                   PROVE  FALSE
      OBVIOUS
    <3>2. c \in Buckets /\ c < b /\ b \in Nat /\ c \in Nat
      BY <1>1
    <3>3. b <= c
      BY <2>2, <3>1, <3>2
    <3>4. QED
      BY <3>2, <3>3
  <2>4. QED
    BY <2>3
<1>6. BucketOf(x) = CHOOSE b \in Buckets : First(b)
  BY DEF BucketOf
<1>7. \A b, c \in 1 .. 11 : First(b) /\ First(c) => b = c
  <2> SUFFICES ASSUME NEW b \in 1 .. 11, NEW c \in 1 .. 11,
                      First(b), First(c)
               PROVE  b = c
    OBVIOUS
  <2>1. CASE b < c
    <3>1. b \in 1 .. c - 1
      BY <2>1
    <3>2. QED
      BY <3>1
  <2>2. CASE c < b
    <3>1. c \in 1 .. b - 1
      BY <2>2
    <3>2. QED
      BY <3>1
  <2>3. QED
    BY <2>1, <2>2
<1> HIDE DEF First
<1>8. BucketOf(x) \in Buckets /\ First(BucketOf(x))
  BY <1>5, <1>6
<1>9. QED
  BY <1>1, <1>4, <1>7, <1>8

(* The latencies of a bag that fall into the buckets B.                    *)
InBuckets(bag, B) == {x \in DOMAIN bag : BucketOf(x) \in B}

(* CalcHistogram counts, for each bucket, what falls into it.              *)
LEMMA HistogramParts ==
  ASSUME NEW bag, IsBag(bag)
  PROVE  /\ CalcHistogram(SortedCopy(bag)) \in [Buckets -> Nat]
         /\ \A b \in Buckets :
              /\ CalcHistogram(SortedCopy(bag))[b]
                   = Part(bag, InBuckets(bag, {b}))
              /\ InBuckets(bag, {b}) = {x \in DOMAIN bag : InBucket(x, b)}
<1> DEFINE data == SortedCopy(bag)
           At(b) == {i \in DOMAIN data : BucketOf(data[i]) = b}
<1>1. DOMAIN data = 1 .. Total(bag)
  BY SortedShape
<1>2. \A i \in 1 .. Total(bag) : data[i] \in DOMAIN bag
  BY SortedRank
<1>3. ASSUME NEW b \in Buckets
      PROVE  /\ Cardinality(At(b)) = Part(bag, InBuckets(bag, {b}))
             /\ Cardinality(At(b)) \in Nat
  <2>1. At(b) = Positions(bag, InBuckets(bag, {b}))
    BY <1>1, <1>2 DEF Positions, InBuckets
  <2>2. InBuckets(bag, {b}) \in SUBSET DOMAIN bag
    BY DEF InBuckets
  <2>3. QED
    BY <2>1, <2>2, PositionsCount, BagPart
<1>4. CalcHistogram(data) = [b \in Buckets |-> Cardinality(At(b))]
  BY DEF CalcHistogram
<1>5. \A b \in Buckets :
        InBuckets(bag, {b}) = {x \in DOMAIN bag : InBucket(x, b)}
  BY BucketOfIs DEF InBuckets, IsBag
<1> HIDE DEF data, At
<1>6. QED
  BY <1>3, <1>4, <1>5 DEF data

(* CalcHistogram loses no latency and counts none twice, whatever the      *)
(* latencies are: the buckets add up to the whole.                         *)
THEOREM HistogramTotal ==
  ASSUME NEW bag, IsBag(bag)
  PROVE  Total(CalcHistogram(SortedCopy(bag))) = Total(bag)
<1> DEFINE hist == CalcHistogram(SortedCopy(bag))
           Good == {B \in SUBSET Buckets :
                      Part(hist, B) = Part(bag, InBuckets(bag, B))}
<1>1. hist \in [Buckets -> Int] /\ hist \in [Buckets -> Nat]
      /\ \A b \in Buckets : hist[b] = Part(bag, InBuckets(bag, {b}))
  BY HistogramParts
<1>2. IsFiniteSet(Buckets)
  BY BucketsFinite
<1> HIDE DEF hist
<1>3. \A B : InBuckets(bag, B) \in SUBSET DOMAIN bag
  BY DEF InBuckets
<1>4. ASSUME NEW B \in SUBSET Buckets, \A b \in B : B \ {b} \in Good
      PROVE  B \in Good
  <2>1. CASE B = {}
    <3>1. InBuckets(bag, B) = {}
      BY <2>1 DEF InBuckets
    <3>2. Part(hist, {}) = 0 /\ Part(bag, {}) = 0
      BY <1>1, <1>2, PartEmpty DEF IsBag
    <3>3. QED
      BY <2>1, <3>1, <3>2
  <2>2. CASE B # {}
    <3>1. PICK b \in B : TRUE
      BY <2>2
    <3>2. Part(hist, B \ {b}) = Part(bag, InBuckets(bag, B \ {b}))
      BY <1>4, <3>1
    <3>3. Part(hist, B) = hist[b] + Part(hist, B \ {b})
      BY <1>1, <1>2, PartRemove
    <3>4. /\ InBuckets(bag, B)
               = InBuckets(bag, {b}) \cup InBuckets(bag, B \ {b})
          /\ InBuckets(bag, {b}) \cap InBuckets(bag, B \ {b}) = {}
      BY DEF InBuckets
    <3>5. Part(bag, InBuckets(bag, {b}) \cup InBuckets(bag, B \ {b}))
            = Part(bag, InBuckets(bag, {b}))
                + Part(bag, InBuckets(bag, B \ {b}))
      <4>1. PICK A : A = InBuckets(bag, {b})
        OBVIOUS
      <4>2. PICK C : C = InBuckets(bag, B \ {b})
        OBVIOUS
      <4>3. A \in SUBSET DOMAIN bag /\ C \in SUBSET DOMAIN bag /\ A \cap C = {}
        BY <1>3, <3>4, <4>1, <4>2
      <4>4. Part(bag, A \cup C) = Part(bag, A) + Part(bag, C)
        BY <4>3, BagUnion
      <4>5. QED
        BY <4>1, <4>2, <4>4
    <3>6. QED
      BY <1>1, <3>2, <3>3, <3>4, <3>5
  <2>3. QED
    BY <2>1, <2>2
<1> HIDE DEF Good
<1>5. \A B \in SUBSET Buckets : B \in Good
  BY <1>2, <1>4, SetInduction
<1>6. Part(hist, Buckets) = Part(bag, InBuckets(bag, Buckets))
  BY <1>5 DEF Good
<1>7. InBuckets(bag, Buckets) = DOMAIN bag
  BY BucketOfIs DEF InBuckets, IsBag
<1>8. DOMAIN hist = Buckets
  BY <1>1
<1>9. Total(hist) = Total(bag)
  BY <1>6, <1>7, <1>8, TotalIsPart
<1>10. QED
  BY <1>9 DEF hist

(* The total of a restricted bag is the size of that part.                 *)
LEMMA RestrictedBag ==
  ASSUME NEW bag, IsBag(bag), NEW S \in SUBSET DOMAIN bag
  PROVE  Total([x \in S |-> bag[x]]) = Part(bag, S)
BY BagPart, RestrictedTotal DEF IsBag

(* CalcHistogram is right for every bag of latencies: each bucket counts   *)
(* the latencies from the threshold before it up to, and without, its own. *)
THEOREM HistogramIsCorrect ==
  ASSUME NEW bag, IsBag(bag)
  PROVE  HistogramCorrect(bag, CalcHistogram(SortedCopy(bag)))
<1> DEFINE hist == CalcHistogram(SortedCopy(bag))
<1> SUFFICES ASSUME NEW b \in Buckets
             PROVE  hist[b] = CountIf(bag, LAMBDA x :
                        /\ b <= Len(Thresholds) => x < Thresholds[b]
                        /\ b > 1 => x >= Thresholds[b - 1])
  BY DEF HistogramCorrect
<1> DEFINE S == {x \in DOMAIN bag :
                   /\ b <= Len(Thresholds) => x < Thresholds[b]
                   /\ b > 1 => x >= Thresholds[b - 1]}
<1>1. hist[b] = Part(bag, S)
  <2>1. S = {x \in DOMAIN bag : InBucket(x, b)}
    BY DEF InBucket
  <2>2. QED
    BY <2>1, HistogramParts
<1>2. Part(bag, S) = Total([x \in S |-> bag[x]])
  <2>1. S \in SUBSET DOMAIN bag
    OBVIOUS
  <2> HIDE DEF S
  <2>2. QED
    BY <2>1, RestrictedBag
<1>3. CountIf(bag, LAMBDA x : /\ b <= Len(Thresholds) => x < Thresholds[b]
                              /\ b > 1 => x >= Thresholds[b - 1])
        = Total([x \in S |-> bag[x]])
  BY DEF CountIf
<1>4. QED
  BY <1>1, <1>2, <1>3

(* The overflow of BuildHistogram is what exceeds every threshold.         *)
LEMMA OverflowIs ==
  ASSUME NEW x \in Nat
  PROVE  {b \in 1 .. 10 : x <= Thresholds[b]} = {} <=> x > Thresholds[10]
<1>1. /\ \A i \in 1 .. 10 : Thresholds[i] \in Nat
      /\ \A i \in 1 .. 10 : i # 10 => Thresholds[i] < Thresholds[10]
      /\ 10 \in 1 .. 10
  BY ThresholdFacts
<1>2. ASSUME NEW i \in 1 .. 10
      PROVE  x > Thresholds[10] => ~(x <= Thresholds[i])
  <2>1. Thresholds[i] \in Nat /\ Thresholds[10] \in Nat
    BY <1>1
  <2>2. i = 10 \/ Thresholds[i] < Thresholds[10]
    BY <1>1
  <2>3. QED
    BY <2>1, <2>2
<1>3. x <= Thresholds[10] \/ x > Thresholds[10]
  BY <1>1
<1>4. x > Thresholds[10] => ~(x <= Thresholds[10])
  BY <1>2, <1>1
<1>5. QED
  BY <1>1, <1>2, <1>3, <1>4

(* BuildHistogram counts what is above one threshold and not above the     *)
(* next.                                                                   *)
LEMMA BuiltParts ==
  ASSUME NEW bag, IsBag(bag)
  PROVE  LET built == BuildHistogram(SortedCopy(bag)) IN
           /\ DOMAIN built.counts = 1 .. 10
           /\ \A b \in 1 .. 10 : built.counts[b]
                = Part(bag, {x \in DOMAIN bag :
                               /\ x <= Thresholds[b]
                               /\ b > 1 => x > Thresholds[b - 1]})
           /\ built.overflow
                = Part(bag, {x \in DOMAIN bag : x > Thresholds[10]})
<1> DEFINE data == SortedCopy(bag)
           Fits(i) == {b \in 1 .. 10 : data[i] <= Thresholds[b]}
           Into(b) == {i \in DOMAIN data :
                         b \in Fits(i) /\ b - 1 \notin Fits(i)}
           Over == {i \in DOMAIN data : Fits(i) = {}}
           S(b) == {x \in DOMAIN bag : /\ x <= Thresholds[b]
                                       /\ b > 1 => x > Thresholds[b - 1]}
           R == {x \in DOMAIN bag : x > Thresholds[10]}
<1>1. DOMAIN data = 1 .. Total(bag)
  BY SortedShape
<1>2. \A i \in 1 .. Total(bag) : data[i] \in DOMAIN bag /\ data[i] \in Nat
  BY SortedRank DEF IsBag
<1>3. DOMAIN Thresholds = 1 .. 10 /\ \A i \in 1 .. 10 : Thresholds[i] \in Nat
  BY ThresholdFacts
<1>4. ASSUME NEW b \in 1 .. 10
      PROVE  Cardinality(Into(b)) = Part(bag, S(b))
  <2>1. ASSUME NEW i \in 1 .. Total(bag)
        PROVE  b \in Fits(i) /\ b - 1 \notin Fits(i) <=> data[i] \in S(b)
    <3>1. data[i] \in Nat /\ data[i] \in DOMAIN bag
      BY <1>2
    <3> HIDE DEF data
    <3>2. CASE b = 1
      <4>1. 0 \notin 1 .. 10 /\ b - 1 = 0 /\ ~(b > 1)
        BY <3>2
      <4>2. b - 1 \notin Fits(i)
        BY <4>1
      <4>3. QED
        BY <3>1, <4>1, <4>2
    <3>3. CASE b # 1
      <4>1. b > 1 /\ b - 1 \in 1 .. 10
        BY <3>3
      <4>2. Thresholds[b - 1] \in Nat
        BY <1>3, <4>1
      <4>3. data[i] <= Thresholds[b - 1] <=> ~(data[i] > Thresholds[b - 1])
        BY <3>1, <4>2
      <4>4. QED
        BY <3>1, <4>1, <4>3
    <3>4. QED
      BY <3>2, <3>3
  <2>2. S(b) \in SUBSET DOMAIN bag
    OBVIOUS
  <2>3. Into(b) = Positions(bag, S(b))
    <3> HIDE DEF S, Fits
    <3>1. QED
      BY <1>1, <2>1 DEF Positions
  <2> HIDE DEF S, Into
  <2>4. QED
    BY <2>2, <2>3, PositionsCount
<1>5. Cardinality(Over) = Part(bag, R)
  <2>1. ASSUME NEW i \in 1 .. Total(bag)
        PROVE  Fits(i) = {} <=> data[i] \in R
    BY <1>2, OverflowIs
  <2>2. R \in SUBSET DOMAIN bag
    OBVIOUS
  <2>3. Over = Positions(bag, R)
    <3> HIDE DEF R, Fits
    <3>1. QED
      BY <1>1, <2>1 DEF Positions
  <2> HIDE DEF R, Over
  <2>4. QED
    BY <2>2, <2>3, PositionsCount
<1>6. BuildHistogram(data) =
        [counts |-> [b \in 1 .. 10 |-> Cardinality(Into(b))],
         overflow |-> Cardinality(Over)]
  BY <1>3 DEF BuildHistogram
<1> HIDE DEF data, Into, Over, S, R
<1>7. /\ BuildHistogram(data).counts = [b \in 1 .. 10 |-> Cardinality(Into(b))]
      /\ BuildHistogram(data).overflow = Cardinality(Over)
  BY <1>6
<1>8. QED
  BY <1>4, <1>5, <1>7 DEF data, S, R

(* CalcHistogram and BuildHistogram of the same latencies differ, in every *)
(* bucket, by those that equal one of its two thresholds and by nothing    *)
(* else, for every bag of latencies.                                       *)
THEOREM HistogramsDoAgree ==
  ASSUME NEW bag, IsBag(bag)
  PROVE  HistogramsAgree(bag, CalcHistogram(SortedCopy(bag)),
                         BuildHistogram(SortedCopy(bag)))
<1> DEFINE hist == CalcHistogram(SortedCopy(bag))
           built == BuildHistogram(SortedCopy(bag))
           On(b) == {x \in DOMAIN bag : x = Thresholds[b]}
           At(b) == IF b \notin DOMAIN Thresholds THEN 0
                    ELSE CountIf(bag, LAMBDA x : x = Thresholds[b])
           Count(b) == IF b \in 1 .. 10 THEN Part(bag, On(b)) ELSE 0
           In(b) == {x \in DOMAIN bag : InBucket(x, b)}
           S(b) == {x \in DOMAIN bag : /\ x <= Thresholds[b]
                                       /\ b > 1 => x > Thresholds[b - 1]}
           R == {x \in DOMAIN bag : x > Thresholds[10]}
<1>1. /\ DOMAIN Thresholds = 1 .. 10 /\ Len(Thresholds) = 10
      /\ \A i \in 1 .. 10 : Thresholds[i] \in Nat
      /\ \A i, j \in 1 .. 10 : i < j => Thresholds[i] < Thresholds[j]
      /\ Buckets = 1 .. 11
  BY ThresholdFacts DEF Buckets
<1>2. \A b : On(b) \in SUBSET DOMAIN bag
  OBVIOUS
<1>3. ASSUME NEW b
      PROVE  At(b) = Count(b)
  <2>1. CountIf(bag, LAMBDA x : x = Thresholds[b])
          = Total([x \in On(b) |-> bag[x]])
    BY DEF CountIf
  <2>2. Total([x \in On(b) |-> bag[x]]) = Part(bag, On(b))
    <3> HIDE DEF On
    <3>1. QED
      BY <1>2, RestrictedBag
  <2>3. QED
    BY <1>1, <2>1, <2>2
<1>4. /\ DOMAIN built.counts = 1 .. 10
      /\ \A b \in 1 .. 10 : built.counts[b] = Part(bag, S(b))
      /\ built.overflow = Part(bag, R)
  BY BuiltParts
<1>5. \A b \in 1 .. 11 : hist[b] = Part(bag, In(b))
  BY <1>1, HistogramParts
<1>6. \A x \in DOMAIN bag : x \in Nat
  BY DEF IsBag
<1>7. \A b \in 1 .. 11 : \A x :
        InBucket(x, b) <=> /\ b <= 10 => x < Thresholds[b]
                           /\ b > 1 => x >= Thresholds[b - 1]
  BY <1>1 DEF InBucket
<1>8. \A b : /\ In(b) \in SUBSET DOMAIN bag /\ S(b) \in SUBSET DOMAIN bag
             /\ R \in SUBSET DOMAIN bag
  OBVIOUS
<1>9. \A A, B \in SUBSET DOMAIN bag : A \cap B = {} =>
        /\ Part(bag, A \cup B) = Part(bag, A) + Part(bag, B)
        /\ Part(bag, A) \in Nat /\ Part(bag, B) \in Nat
  BY BagUnion, BagPart
<1>10. ASSUME NEW b \in 1 .. 10
       PROVE  /\ In(b) \cap On(b) = {}
              /\ b = 1 => In(b) \cup On(b) = S(b)
              /\ b > 1 => /\ S(b) \cap On(b - 1) = {}
                          /\ In(b) \cup On(b) = S(b) \cup On(b - 1)
  <2>1. Thresholds[b] \in Nat
    BY <1>1
  <2>2. b > 1 => /\ Thresholds[b - 1] \in Nat
                 /\ Thresholds[b - 1] < Thresholds[b]
    <3>1. b > 1 => b - 1 \in 1 .. 10 /\ b - 1 < b
      OBVIOUS
    <3>2. QED
      BY <1>1, <3>1
  <2>3. \A x : InBucket(x, b) <=> /\ x < Thresholds[b]
                                  /\ b > 1 => x >= Thresholds[b - 1]
    BY <1>7
  <2>4. In(b) \cap On(b) = {}
    BY <1>6, <2>1, <2>3
  <2>5. b = 1 => In(b) \cup On(b) = S(b)
    BY <1>6, <2>1, <2>3
  <2>6. b > 1 => S(b) \cap On(b - 1) = {}
    BY <1>6, <2>2
  <2>7. b > 1 => In(b) \cup On(b) = S(b) \cup On(b - 1)
    <3>1. SUFFICES ASSUME b > 1, NEW x \in DOMAIN bag
                   PROVE  x \in In(b) \cup On(b) <=> x \in S(b) \cup On(b - 1)
      OBVIOUS
    <3>2. x \in Nat
      BY <1>6
    <3>3. QED
      BY <2>1, <2>2, <2>3, <3>1, <3>2
  <2>8. QED
    BY <2>4, <2>5, <2>6, <2>7
<1>11. In(11) = R \cup On(10) /\ R \cap On(10) = {}
  <2>1. Thresholds[10] \in Nat
    BY <1>1
  <2>2. \A x : InBucket(x, 11) <=> x >= Thresholds[10]
    BY <1>7
  <2>3. QED
    BY <1>6, <2>1, <2>2
<1> HIDE DEF At, On, In, S, R, hist, built
<1>12. ASSUME NEW b \in Buckets
       PROVE  hist[b] - At(b - 1) + At(b)
                = IF b \in DOMAIN built.counts THEN built.counts[b]
                  ELSE built.overflow
  <2>1. CASE b = 11
    <3>1. hist[b] = Part(bag, In(11))
      BY <1>5, <2>1
    <3>2. At(b - 1) = Part(bag, On(10)) /\ At(b) = 0
      <4>1. b - 1 = 10 /\ 10 \in 1 .. 10 /\ 11 \notin 1 .. 10
        BY <2>1
      <4>2. QED
        BY <1>3, <2>1, <4>1
    <3>3. /\ Part(bag, In(11)) = Part(bag, R) + Part(bag, On(10))
          /\ Part(bag, R) \in Nat /\ Part(bag, On(10)) \in Nat
      BY <1>2, <1>8, <1>9, <1>11
    <3>4. b \notin DOMAIN built.counts /\ built.overflow = Part(bag, R)
      BY <1>4, <2>1
    <3>5. hist[b] - At(b - 1) + At(b) = Part(bag, R)
      BY <3>1, <3>2, <3>3
    <3>6. QED
      BY <3>4, <3>5
  <2>2. CASE b = 1
    <3>1. hist[b] = Part(bag, In(1)) /\ 1 \in 1 .. 10
      BY <1>5, <2>2
    <3>2. At(b - 1) = 0 /\ At(b) = Part(bag, On(1))
      <4>1. b - 1 = 0 /\ 0 \notin 1 .. 10
        BY <2>2
      <4>2. QED
        BY <1>3, <2>2, <3>1, <4>1
    <3>3. /\ Part(bag, S(1)) = Part(bag, In(1)) + Part(bag, On(1))
          /\ Part(bag, In(1)) \in Nat /\ Part(bag, On(1)) \in Nat
      <4>1. In(1) \cap On(1) = {} /\ In(1) \cup On(1) = S(1)
        BY <1>10, <3>1
      <4>2. QED
        BY <1>2, <1>8, <1>9, <4>1
    <3>4. b \in DOMAIN built.counts /\ built.counts[b] = Part(bag, S(1))
      BY <1>4, <2>2, <3>1
    <3>5. hist[b] - At(b - 1) + At(b) = Part(bag, S(1))
      BY <3>1, <3>2, <3>3
    <3>6. QED
      BY <3>4, <3>5
  <2>3. CASE b \in 2 .. 10
    <3>1. b > 1 /\ b \in 1 .. 10 /\ b - 1 \in 1 .. 10 /\ b \in 1 .. 11
      BY <2>3
    <3>2. hist[b] = Part(bag, In(b))
      BY <1>5, <3>1
    <3>3. At(b - 1) = Part(bag, On(b - 1)) /\ At(b) = Part(bag, On(b))
      BY <1>3, <3>1
    <3>4. /\ Part(bag, In(b) \cup On(b)) = Part(bag, In(b)) + Part(bag, On(b))
          /\ Part(bag, In(b)) \in Nat /\ Part(bag, On(b)) \in Nat
      <4>1. In(b) \cap On(b) = {}
        BY <1>10, <3>1
      <4>2. QED
        BY <1>2, <1>8, <1>9, <4>1
    <3>5. /\ Part(bag, S(b) \cup On(b - 1))
               = Part(bag, S(b)) + Part(bag, On(b - 1))
          /\ Part(bag, S(b)) \in Nat /\ Part(bag, On(b - 1)) \in Nat
      <4>1. S(b) \cap On(b - 1) = {}
        BY <1>10, <3>1
      <4>2. QED
        BY <1>2, <1>8, <1>9, <4>1
    <3>6. In(b) \cup On(b) = S(b) \cup On(b - 1)
      BY <1>10, <3>1
    <3>7. b \in DOMAIN built.counts /\ built.counts[b] = Part(bag, S(b))
      BY <1>4, <3>1
    <3>8. Part(bag, In(b)) + Part(bag, On(b))
            = Part(bag, S(b)) + Part(bag, On(b - 1))
      BY <3>4, <3>5, <3>6
    <3>9. hist[b] - At(b - 1) + At(b) = Part(bag, S(b))
      BY <3>2, <3>3, <3>4, <3>5, <3>8
    <3>10. QED
      BY <3>7, <3>9
  <2>4. b = 11 \/ b = 1 \/ b \in 2 .. 10
    BY <1>1
  <2>5. QED
    BY <2>1, <2>2, <2>3, <2>4
<1>13. QED
  BY <1>12 DEF HistogramsAgree, At, hist, built

-----------------------------------------------------------------------------
(***************************************************************************)
(* Minimum, maximum and deviation.                                         *)
(***************************************************************************)

(* The minimum and maximum of a snapshot, 0 if there is no latency, bound  *)
(* every latency.                                                          *)
LEMMA EndsBound ==
  ASSUME NEW bag, IsBag(bag)
  PROVE  LET data == SortedCopy(bag) IN
           /\ minOrZero(data) \in Nat /\ maxOrZero(data) \in Nat
           /\ minOrZero(data) <= maxOrZero(data)
           /\ Total(bag) > 0 =>
                /\ minOrZero(data) = data[1]
                /\ maxOrZero(data) = data[Total(bag)]
           /\ \A i \in 1 .. Total(bag) :
                /\ data[i] \in Nat
                /\ minOrZero(data) <= data[i] /\ data[i] <= maxOrZero(data)
<1> DEFINE data == SortedCopy(bag)
           n == Total(bag)
<1>1. /\ n \in Nat /\ Len(data) = n /\ (data = <<>> <=> n = 0)
  BY BagPart, SortedShape
<1>2. \A i \in 1 .. n : data[i] \in Nat
  BY SortedRank DEF IsBag
<1>3. \A i, j \in 1 .. n : i <= j => data[i] <= data[j]
  BY SortedAscending
<1> HIDE DEF data, n
<1>4. CASE n = 0
  <2>1. minOrZero(data) = 0 /\ maxOrZero(data) = 0
    BY <1>1, <1>4 DEF minOrZero, maxOrZero
  <2>2. 1 .. n = {} /\ ~(n > 0)
    BY <1>4
  <2>3. QED
    BY <2>1, <2>2 DEF data, n
<1>5. CASE n # 0
  <2>1. minOrZero(data) = data[1] /\ maxOrZero(data) = data[n]
    BY <1>1, <1>5 DEF minOrZero, maxOrZero
  <2>2. /\ 1 \in 1 .. n /\ n \in 1 .. n
        /\ \A i \in 1 .. n : 1 <= i /\ i <= n
    BY <1>1, <1>5
  <2>3. /\ data[1] \in Nat /\ data[n] \in Nat
        /\ \A i \in 1 .. n : data[1] <= data[i] /\ data[i] <= data[n]
    BY <1>2, <1>3, <2>2
  <2>4. QED
    BY <1>2, <2>1, <2>2, <2>3 DEF data, n
<1>6. QED
  BY <1>4, <1>5

(* Every percentile lies between the minimum and the maximum.              *)
LEMMA PercentilesBetween ==
  ASSUME NEW bag, IsBag(bag), NEW p \in Percentiles
  PROVE  LET data == SortedCopy(bag)
         IN  /\ 100 * minOrZero(data) <= Percentile(data, p)
             /\ Percentile(data, p) <= 100 * maxOrZero(data)
<1> DEFINE n == Total(bag)
           data == SortedCopy(bag)
           lower == Lower(p, n)
           frac == Frac(p, n)
           v == Percentile(data, p)
           lo == minOrZero(data)
           hi == maxOrZero(data)
<1>1. n \in Nat /\ (data = <<>> <=> n = 0)
  BY BagPart, SortedShape
<1>2. /\ lo \in Nat /\ hi \in Nat
      /\ \A i \in 1 .. n : /\ data[i] \in Nat
                           /\ lo <= data[i] /\ data[i] <= hi
  BY EndsBound
<1>3. CASE n = 0
  <2>1. data = <<>>
    BY <1>1, <1>3
  <2>2. v = 0 /\ lo = 0 /\ hi = 0
    BY <2>1 DEF Percentile, minOrZero, maxOrZero
  <2> HIDE DEF v, lo, hi
  <2>3. 100 * lo <= v /\ v <= 100 * hi
    BY <2>2
  <2>4. QED
    BY <2>3 DEF v, lo, hi
<1>4. CASE n # 0
  <2>1. n > 0
    BY <1>1, <1>4
  <2>2. /\ v \in Nat /\ lower + 1 \in 1 .. n
        /\ 100 * data[lower + 1] <= v
        /\ frac = 0 => v = 100 * data[lower + 1]
        /\ frac # 0 => /\ lower + 2 \in 1 .. n
                       /\ v <= 100 * data[lower + 2]
    BY <2>1, PercentileBounds
  <2> HIDE DEF n, data, lower, frac, v, lo, hi
  <2>3. 100 * lo <= v
    BY <1>2, <2>2
  <2>4. v <= 100 * hi
    BY <1>2, <2>2
  <2>5. QED
    BY <2>3, <2>4 DEF v, lo, hi, data
<1>5. QED
  BY <1>3, <1>4

(* Values that are at most c have a total of at most c times their number. *)
LEMMA BoundedTotal ==
  ASSUME NEW D, IsFiniteSet(D), NEW f \in [D -> Int], NEW c \in Int,
         \A x \in D : f[x] <= c
  PROVE  Total(f) <= c * Cardinality(D)
<1> DEFINE g == [x \in D |-> c]
<1>1. g \in [D -> Int] /\ \A x \in D : f[x] <= g[x] /\ g[x] = c
  OBVIOUS
<1> HIDE DEF g
<1>2. Part(f, D) <= Part(g, D)
  BY <1>1, PartMonotone
<1>3. Part(g, D) = c * Cardinality(D)
  BY <1>1, PartConstant
<1>4. QED
  BY <1>2, <1>3, TotalIsPart

(* The square of the distance of a latency from a mean that is at most the *)
(* maximum is bounded by the square of the maximum and, if the mean is not *)
(* below the minimum, by the square of the distance of the two.            *)
LEMMA SquareBounds ==
  ASSUME NEW x \in Nat, NEW m \in Nat, NEW lo \in Nat, NEW hi \in Nat,
         lo <= x, x <= hi, m <= hi
  PROVE  /\ (x - m) * (x - m) \in Nat
         /\ (x - m) * (x - m) <= hi * hi
         /\ m >= lo => (x - m) * (x - m) <= (hi - lo) * (hi - lo)
<1>1. \A d, b \in Int : -b <= d /\ d <= b => d * d \in Nat /\ d * d <= b * b
  <2> SUFFICES ASSUME NEW d \in Int, NEW b \in Int, -b <= d, d <= b
               PROVE  d * d \in Nat /\ d * d <= b * b
    OBVIOUS
  <2>1. \A k, j \in Nat : k <= j => k * k \in Nat /\ k * k <= j * j
    <3> SUFFICES ASSUME NEW k \in Nat, NEW j \in Nat, k <= j
                 PROVE  k * k \in Nat /\ k * k <= j * j
      OBVIOUS
    <3>1. k * k <= k * j /\ k * j <= j * j
      OBVIOUS
    <3>2. k * k \in Nat /\ k * j \in Nat /\ j * j \in Nat
      OBVIOUS
    <3>3. QED
      BY <3>1, <3>2
  <2>2. b \in Nat
    OBVIOUS
  <2>3. CASE d >= 0
    BY <2>1, <2>2, <2>3
  <2>4. CASE d < 0
    <3>1. -d \in Nat /\ -d <= b
      BY <2>4
    <3>2. (-d) * (-d) = d * d
      OBVIOUS
    <3>3. QED
      BY <2>1, <2>2, <3>1, <3>2
  <2>5. QED
    BY <2>3, <2>4
<1>2. -hi <= x - m /\ x - m <= hi /\ x - m \in Int
  OBVIOUS
<1>3. m >= lo => -(hi - lo) <= x - m /\ x - m <= hi - lo
  OBVIOUS
<1>4. hi - lo \in Int /\ hi \in Int
  OBVIOUS
<1>5. QED
  BY <1>1, <1>2, <1>3, <1>4

(* The conversion to nanoseconds is a natural number and monotone, and a   *)
(* cut takes less than a microsecond.                                      *)
LEMMA NanosNat ==
  /\ Cut \in Nat
  /\ \A l \in Nat : Nanos(l) \in Nat
  /\ \A k, l \in Nat : k <= l => Nanos(k) <= Nanos(l)
<1>1. NanosPerMicro \in Nat /\ NanosPerMicro > 0
  BY LatencyAssumption
<1>2. \A l, k \in Nat : k * l \in Nat
  OBVIOUS
<1>3. \A k, l, n \in Nat : k <= l => n * k <= n * l
  OBVIOUS
<1>4. QED
  BY <1>1, <1>2, <1>3 DEF Nanos, Cut

(* CalcStandardDeviation never exceeds the largest latency by a microsecond*)
(* or more, whatever the latencies are, provided that the mean it is given *)
(* does not: the mean of the durations before they were cut meets that, as *)
(* MeansBounded shows of a snapshot. If that mean is not below the minimum *)
(* either, the deviation does not exceed the spread of the latencies by a  *)
(* microsecond or more.                                                    *)
THEOREM DeviationIsCorrect ==
  ASSUME NEW bag, IsBag(bag), NEW mean \in Nat,
         mean <= Nanos(maxOrZero(SortedCopy(bag))) + Cut
  PROVE  LET data == SortedCopy(bag)
             squares == IF Len(data) <= 1 THEN 0
                        ELSE SquaredDeviations(data, mean)
         IN  DeviationCorrect(bag, squares, mean, minOrZero(data),
                              maxOrZero(data))
<1> DEFINE data == SortedCopy(bag)
           n == Total(bag)
           lo == Nanos(minOrZero(data))
           hi == Nanos(maxOrZero(data)) + Cut
           f == [i \in DOMAIN data |-> (Nanos(data[i]) - mean)
                                         * (Nanos(data[i]) - mean)]
           squares == IF Len(data) <= 1 THEN 0
                      ELSE SquaredDeviations(data, mean)
<1>1. n \in Nat /\ Len(data) = n /\ DOMAIN data = 1 .. n
  BY BagPart, SortedShape
<1>2. /\ lo \in Nat /\ hi \in Nat /\ lo <= hi
      /\ \A i \in 1 .. n : /\ Nanos(data[i]) \in Nat
                           /\ lo <= Nanos(data[i]) /\ Nanos(data[i]) <= hi
  <2> DEFINE min == minOrZero(data)
             max == maxOrZero(data)
  <2>1. /\ min \in Nat /\ max \in Nat /\ min <= max
        /\ \A i \in 1 .. n : /\ data[i] \in Nat
                             /\ min <= data[i] /\ data[i] <= max
    BY EndsBound
  <2> HIDE DEF min, max, n, data
  <2>2. /\ Nanos(min) \in Nat /\ Nanos(max) \in Nat /\ Cut \in Nat
        /\ Nanos(min) <= Nanos(max)
    BY <2>1, NanosNat
  <2>3. \A i \in 1 .. n : /\ Nanos(data[i]) \in Nat
                          /\ Nanos(min) <= Nanos(data[i])
                          /\ Nanos(data[i]) <= Nanos(max)
    BY <2>1, NanosNat
  <2>4. QED
    BY <2>2, <2>3 DEF min, max
<1>3. squares = IF n <= 1 THEN 0 ELSE Total(f)
  BY <1>1 DEF SquaredDeviations
<1>4. mean <= hi
  OBVIOUS
<1> HIDE DEF n, data, lo, hi, squares
<1>5. ASSUME NEW i \in 1 .. n
      PROVE  /\ f[i] \in Nat /\ f[i] <= hi * hi
             /\ mean >= lo => f[i] <= (hi - lo) * (hi - lo)
  <2>1. f[i] = (Nanos(data[i]) - mean) * (Nanos(data[i]) - mean)
    BY <1>1
  <2>2. /\ Nanos(data[i]) \in Nat
        /\ lo <= Nanos(data[i]) /\ Nanos(data[i]) <= hi
    BY <1>2
  <2> HIDE DEF f
  <2>3. QED
    BY <1>2, <1>4, <2>1, <2>2, SquareBounds
<1>6. f \in [1 .. n -> Int]
  <2>1. f = [i \in 1 .. n |-> f[i]]
    BY <1>1
  <2> HIDE DEF f
  <2>2. QED
    BY <2>1, <1>5
<1>7. IsFiniteSet(1 .. n) /\ Cardinality(1 .. n) = n
  <2>1. /\ IsFiniteSet(1 .. n)
        /\ Cardinality(1 .. n) = IF 1 > n THEN 0 ELSE n - 1 + 1
    BY <1>1, FS_Interval
  <2>2. QED
    BY <1>1, <2>1
<1> HIDE DEF f
<1>8. hi * hi \in Nat /\ (hi - lo) * (hi - lo) \in Nat
  <2>1. hi - lo \in Nat
    BY <1>2
  <2>2. \A k \in Nat : k * k \in Nat
    OBVIOUS
  <2>3. QED
    BY <1>2, <2>1, <2>2
<1>9. Total(f) <= (hi * hi) * n
  <2>1. hi * hi \in Int /\ \A i \in 1 .. n : f[i] <= hi * hi
    BY <1>5, <1>8
  <2>2. Total(f) <= (hi * hi) * Cardinality(1 .. n)
    BY <1>6, <1>7, <2>1, BoundedTotal
  <2>3. QED
    BY <1>7, <2>2
<1>10. mean >= lo => Total(f) <= ((hi - lo) * (hi - lo)) * n
  <2> SUFFICES ASSUME mean >= lo
               PROVE  Total(f) <= ((hi - lo) * (hi - lo)) * n
    OBVIOUS
  <2>1. /\ (hi - lo) * (hi - lo) \in Int
        /\ \A i \in 1 .. n : f[i] <= (hi - lo) * (hi - lo)
    BY <1>5, <1>8
  <2>2. Total(f) <= ((hi - lo) * (hi - lo)) * Cardinality(1 .. n)
    BY <1>6, <1>7, <2>1, BoundedTotal
  <2>3. QED
    BY <1>7, <2>2
<1>11. \A k \in Int : /\ (k * k) * n = n * k * k
                      /\ k * k \in Nat => 0 <= n * k * k
  <2>1. \A k \in Int : (k * k) * n = n * k * k
    BY <1>1
  <2>2. \A k \in Nat : 0 <= k * n
    BY <1>1
  <2>3. QED
    BY <2>1, <2>2
<1>12. squares <= n * hi * hi
  BY <1>2, <1>3, <1>8, <1>9, <1>11
<1>13. mean >= lo => squares <= n * (hi - lo) * (hi - lo)
  <2>1. hi - lo \in Int
    BY <1>2
  <2>2. ((hi - lo) * (hi - lo)) * n = n * (hi - lo) * (hi - lo)
        /\ 0 <= n * (hi - lo) * (hi - lo)
    BY <1>8, <1>11, <2>1
  <2>3. QED
    BY <1>3, <1>10, <2>2
<1>14. QED
  BY <1>12, <1>13 DEF DeviationCorrect, n, data, lo, hi, squares

(* A sum of squares is not negative.                                       *)
LEMMA SquaresNat ==
  ASSUME NEW bag, IsBag(bag), NEW mean \in Nat
  PROVE  SquaredDeviations(SortedCopy(bag), mean) \in Nat
<1> DEFINE data == SortedCopy(bag)
           n == Total(bag)
           f == [i \in DOMAIN data |-> (Nanos(data[i]) - mean)
                                         * (Nanos(data[i]) - mean)]
<1>1. n \in Nat /\ DOMAIN data = 1 .. n
  BY BagPart, SortedShape
<1>2. \A i \in 1 .. n : data[i] \in Nat
  BY SortedRank DEF IsBag
<1> HIDE DEF n, data
<1>3. \A k \in Int : k * k \in Int /\ k * k >= 0
  OBVIOUS
<1>4. /\ f = [i \in 1 .. n |-> f[i]]
      /\ \A i \in 1 .. n : f[i] \in Int /\ f[i] >= 0
  <2>1. f = [i \in 1 .. n |-> f[i]]
    BY <1>1
  <2>2. ASSUME NEW i \in 1 .. n
        PROVE  f[i] \in Int /\ f[i] >= 0
    <3>1. f[i] = (Nanos(data[i]) - mean) * (Nanos(data[i]) - mean)
      BY <1>1
    <3>2. Nanos(data[i]) - mean \in Int
      BY <1>2, NanosNat
    <3> HIDE DEF f
    <3>3. QED
      BY <1>3, <3>1, <3>2
  <2>3. QED
    BY <2>1, <2>2
<1>5. SquaredDeviations(data, mean) = Total(f)
  BY DEF SquaredDeviations
<1>6. IsFiniteSet(1 .. n)
  BY <1>1, FS_Interval
<1> HIDE DEF f
<1>7. f \in [1 .. n -> Int]
  BY <1>4
<1>8. Part(f, 1 .. n) \in Nat
  BY <1>4, <1>6, <1>7, PartNat
<1>9. QED
  BY <1>5, <1>7, <1>8, TotalIsPart DEF data
=============================================================================
