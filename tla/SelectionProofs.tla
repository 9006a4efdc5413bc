--------------------------- MODULE SelectionProofs ---------------------------
(***************************************************************************)
(* Theorems about Selection, for any number of entries, any weights and    *)
(* priorities, any exploration interval, and candidates that change with   *)
(* every pick.                                                             *)
(***************************************************************************)
EXTENDS Selection, FiniteSetTheorems, WellFoundedInduction, TLAPS

-----------------------------------------------------------------------------
(***************************************************************************)
(* Finite sets, and sums over them.  Induction is stated with a set P of   *)
(* subsets in place of a predicate.                                        *)
(***************************************************************************)

\* What holds of a set whenever it holds of its proper subsets holds of every subset
\* of a finite set.
LEMMA StrongInduction ==
  ASSUME NEW E, IsFiniteSet(E), NEW P,
         \A U \in SUBSET E : (\A V \in SUBSET U : V # U => V \in P) => U \in P
  PROVE  \A U \in SUBSET E : U \in P
<1> DEFINE bad == {U \in SUBSET E : U \notin P}
<1>1. SUFFICES ASSUME bad # {} PROVE FALSE
  OBVIOUS
<1>2. IsWellFoundedOn(StrictSubsetOrdering(E), SUBSET E)
  BY FS_StrictSubsetOrderingWellFounded, FS_FiniteSubsetsOfFinite
<1>3. PICK U \in bad : \A V \in bad : <<V, U>> \notin StrictSubsetOrdering(E)
  <2> HIDE DEF bad
  <2>1. bad \subseteq SUBSET E
    BY DEF bad
  <2> QED BY <1>1, <1>2, <2>1, WFMin
<1>4. ASSUME NEW V \in SUBSET U, V # U
      PROVE  V \in P
  <2>1. <<V, U>> \in StrictSubsetOrdering(E)
    BY <1>4 DEF StrictSubsetOrdering
  <2> QED BY <1>3, <2>1
<1> QED BY <1>4

\* What holds of the empty set and of a set with one more element holds of every
\* subset of a finite set.
LEMMA SubsetInduction ==
  ASSUME NEW E, IsFiniteSet(E), NEW P,
         {} \in P,
         \A U \in SUBSET E : \A x \in E \ U : U \in P => U \cup {x} \in P
  PROVE  \A U \in SUBSET E : U \in P
<1>1. ASSUME NEW U \in SUBSET E, \A V \in SUBSET U : V # U => V \in P
      PROVE  U \in P
  <2>1. CASE U = {}
    BY <2>1
  <2>2. CASE U # {}
    <3>1. PICK x \in U : TRUE
      BY <2>2
    <3>2. U \ {x} \in P
      BY <1>1
    <3>3. U = (U \ {x}) \cup {x}
      OBVIOUS
    <3> QED BY <3>2, <3>3
  <2> QED BY <2>1, <2>2
<1> QED BY <1>1, StrongInduction

\* A function of a finite nonempty set has a least value, and one of the arguments
\* gives it.
LEMMA LeastExists ==
  ASSUME NEW E, IsFiniteSet(E), NEW f, \A x \in E : f[x] \in Int, NEW S \in SUBSET E, S # {}
  PROVE  \E i \in S : \A j \in S : f[i] <= f[j]
<1> DEFINE P == {U \in SUBSET E : U = {} \/ \E i \in U : \A j \in U : f[i] <= f[j]}
<1>1. {} \in P
  OBVIOUS
<1>2. ASSUME NEW U \in SUBSET E, NEW x \in E \ U, U \in P
      PROVE  U \cup {x} \in P
  <2>1. CASE U = {}
    BY <2>1
  <2>2. CASE U # {}
    <3>1. PICK i \in U : \A j \in U : f[i] <= f[j]
      BY <1>2, <2>2
    <3>2. CASE f[i] <= f[x]
      BY <3>1, <3>2
    <3>3. CASE ~(f[i] <= f[x])
      <4>1. \A j \in U \cup {x} : f[x] <= f[j]
        BY <3>1, <3>3
      <4> QED BY <4>1
    <3> QED BY <3>2, <3>3
  <2> QED BY <2>1, <2>2
<1>3. \A U \in SUBSET E : U \in P
  <2> HIDE DEF P
  <2> QED BY <1>1, <1>2, SubsetInduction
<1> QED BY <1>3

\* A finite nonempty set of integers has a smallest element.
LEMMA MinOf ==
  ASSUME NEW S \in SUBSET Int, IsFiniteSet(S), S # {}
  PROVE  Min(S) \in S /\ \A j \in S : Min(S) <= j
<1> DEFINE f == [x \in S |-> x]
<1>1. \E i \in S : \A j \in S : f[i] <= f[j]
  <2>1. \A x \in S : f[x] \in Int
    OBVIOUS
  <2> HIDE DEF f
  <2> QED BY <2>1, LeastExists
<1>2. \E i \in S : \A j \in S : i <= j
  BY <1>1
<1> QED BY <1>2 DEF Min

\* A finite nonempty set of integers has a greatest element.
LEMMA MaxOf ==
  ASSUME NEW S \in SUBSET Int, IsFiniteSet(S), S # {}
  PROVE  Max(S) \in S /\ \A j \in S : j <= Max(S)
<1> DEFINE f == [x \in S |-> -x]
<1>1. \E i \in S : \A j \in S : f[i] <= f[j]
  <2>1. \A x \in S : f[x] \in Int
    OBVIOUS
  <2> HIDE DEF f
  <2> QED BY <2>1, LeastExists
<1>2. \E i \in S : \A j \in S : i >= j
  BY <1>1
<1> QED BY <1>2 DEF Max

\* The sum of f over S, as WeightOf computes it.
Total(f, S) == MapThenSumSet(LAMBDA i : f[i], S)

\* One step of the recursion behind Total, and the function it defines.
Element(s) == CHOOSE x \in s : TRUE
Step(f, g, s) == IF s = {} THEN 0 ELSE f[Element(s)] + g[s \ {Element(s)}]
Iterates(f, S, g) == g = [s \in SUBSET S |-> Step(f, g, s)]

\* The fold behind a sum is a function of the set summed over.
LEMMA TotalIterates ==
  ASSUME NEW f, NEW S
  PROVE  Total(f, S) = (CHOOSE g : Iterates(f, S, g))[S]
BY DEF Total, MapThenSumSet, MapThenFoldSet, Iterates, Step, Element

\* The recursion determines the values of the function it defines.
LEMMA IteratesUnique ==
  ASSUME NEW f, NEW S, NEW T, NEW g, NEW h, Iterates(f, S, g), Iterates(f, T, h),
         NEW W \in SUBSET S, W \subseteq T, IsFiniteSet(W)
  PROVE  g[W] = h[W]
<1> DEFINE P == {V \in SUBSET W : g[V] = h[V]}
<1>1. ASSUME NEW U \in SUBSET W, \A V \in SUBSET U : V # U => V \in P
      PROVE  U \in P
  <2>1. g[U] = Step(f, g, U) /\ h[U] = Step(f, h, U)
    BY DEF Iterates
  <2>2. CASE U = {}
    BY <2>1, <2>2 DEF Step
  <2>3. CASE U # {}
    <3>1. Element(U) \in U
      BY <2>3 DEF Element
    <3>2. U \ {Element(U)} \in P
      BY <1>1, <3>1
    <3> QED BY <2>1, <3>2 DEF Step
  <2> QED BY <2>2, <2>3
<1>2. \A U \in SUBSET W : U \in P
  <2> HIDE DEF P
  <2> QED BY <1>1, StrongInduction
<1> QED BY <1>2

\* What the recursion of the fold defines.
Solution(f, S) == CHOOSE g : Iterates(f, S, g)

\* On the subsets of a finite set the recursion does have a solution.
LEMMA IteratesExists ==
  ASSUME NEW E, IsFiniteSet(E), NEW f
  PROVE  \A S \in SUBSET E : Iterates(f, S, Solution(f, S))
<1> DEFINE P == {S \in SUBSET E : Iterates(f, S, Solution(f, S))}
<1>1. ASSUME NEW S \in SUBSET E, \A V \in SUBSET S : V # S => V \in P
      PROVE  S \in P
  <2> DEFINE value(s) == Solution(f, s)[s]
             g == [s \in SUBSET S |-> IF s = {} THEN 0
                                     ELSE f[Element(s)] + value(s \ {Element(s)})]
  <2>1. ASSUME NEW V \in SUBSET S, V # S
        PROVE  g[V] = value(V)
    <3>1. Iterates(f, V, Solution(f, V))
      BY <1>1, <2>1
    <3>2. value(V) = Step(f, Solution(f, V), V)
      BY <3>1 DEF Iterates
    <3>3. CASE V = {}
      BY <3>2, <3>3 DEF Step
    <3>4. CASE V # {}
      <4> DEFINE e == Element(V)
      <4>1. e \in V
        BY <3>4 DEF Element
      <4> HIDE DEF e
      <4>2. V \ {e} \in SUBSET S /\ V \ {e} # S
        BY <4>1
      <4>3. Iterates(f, V \ {e}, Solution(f, V \ {e}))
        BY <1>1, <4>2
      <4>4. IsFiniteSet(V \ {e})
        BY FS_Subset
      <4>5. Solution(f, V)[V \ {e}] = value(V \ {e})
        BY <3>1, <4>3, <4>4, IteratesUnique
      <4>6. value(V) = f[e] + Solution(f, V)[V \ {e}]
        BY <3>2, <3>4 DEF Step, e
      <4>7. g[V] = f[e] + value(V \ {e})
        BY <3>4 DEF e
      <4> QED BY <4>5, <4>6, <4>7
    <3> QED BY <3>3, <3>4
  <2>2. ASSUME NEW s \in SUBSET S
        PROVE  g[s] = Step(f, g, s)
    <3>1. CASE s = {}
      BY <3>1 DEF Step
    <3>2. CASE s # {}
      <4>1. Element(s) \in s
        BY <3>2 DEF Element
      <4>2. g[s \ {Element(s)}] = value(s \ {Element(s)})
        BY <2>1, <4>1
      <4>3. g[s] = f[Element(s)] + value(s \ {Element(s)})
        BY <3>2
      <4> HIDE DEF g, value
      <4> QED BY <3>2, <4>2, <4>3 DEF Step
    <3> QED BY <3>1, <3>2
  <2>3. g = [s \in SUBSET S |-> g[s]]
    OBVIOUS
  <2>4. Iterates(f, S, g)
    <3> HIDE DEF g
    <3> QED BY <2>2, <2>3 DEF Iterates
  <2>5. Iterates(f, S, Solution(f, S))
    <3> HIDE DEF g
    <3> QED BY <2>4 DEF Solution
  <2> QED BY <2>5
<1>2. \A S \in SUBSET E : S \in P
  <2> HIDE DEF P
  <2> QED BY <1>1, StrongInduction
<1> QED BY <1>2

\* The sum over the empty set, and the sum over any other set by its recursion.
LEMMA TotalStep ==
  ASSUME NEW f, NEW S, IsFiniteSet(S)
  PROVE  /\ S = {} => Total(f, S) = 0
         /\ S # {} => Total(f, S) = f[Element(S)] + Total(f, S \ {Element(S)})
<1>1. \A V \in SUBSET S : Iterates(f, V, Solution(f, V)) /\ Total(f, V) = Solution(f, V)[V]
  BY IteratesExists, TotalIterates DEF Solution
<1>2. Total(f, S) = Step(f, Solution(f, S), S)
  BY <1>1 DEF Iterates
<1>3. CASE S = {}
  BY <1>2, <1>3 DEF Step
<1>4. CASE S # {}
  <2> DEFINE T == S \ {Element(S)}
  <2>1. Solution(f, S)[T] = Solution(f, T)[T]
    <3>1. IsFiniteSet(T)
      BY FS_Subset
    <3> QED BY <1>1, <3>1, IteratesUnique
  <2> QED BY <1>1, <1>2, <1>4, <2>1 DEF Step
<1> QED BY <1>3, <1>4

\* A sum of integers is an integer, and any element can be taken out first.
LEMMA TotalRemove ==
  ASSUME NEW E, IsFiniteSet(E), NEW f, \A x \in E : f[x] \in Int
  PROVE  \A S \in SUBSET E : /\ Total(f, S) \in Int
                            /\ \A x \in S : Total(f, S) = f[x] + Total(f, S \ {x})
<1> DEFINE P == {S \in SUBSET E : /\ Total(f, S) \in Int
                                 /\ \A x \in S : Total(f, S) = f[x] + Total(f, S \ {x})}
<1>1. ASSUME NEW S \in SUBSET E, \A V \in SUBSET S : V # S => V \in P
      PROVE  S \in P
  <2>0. IsFiniteSet(S)
    BY FS_Subset
  <2>1. CASE S = {}
    <3>1. Total(f, S) = 0
      BY <2>0, <2>1, TotalStep
    <3> QED BY <2>1, <3>1
  <2>2. CASE S # {}
    <3> DEFINE e == Element(S)
    <3>1. e \in S
      BY <2>2 DEF Element
    <3>2. Total(f, S) = f[e] + Total(f, S \ {e})
      BY <2>0, <2>2, TotalStep
    <3> HIDE DEF e
    <3>3. S \ {e} \in P
      BY <1>1, <3>1
    <3>4. Total(f, S) \in Int
      BY <3>1, <3>2, <3>3
    <3>5. ASSUME NEW x \in S, x # e
          PROVE  Total(f, S) = f[x] + Total(f, S \ {x})
      <4>1. Total(f, S \ {e}) = f[x] + Total(f, (S \ {e}) \ {x})
        BY <3>3, <3>5
      <4>2. S \ {x} \in P
        BY <1>1
      <4>3. Total(f, S \ {x}) = f[e] + Total(f, (S \ {x}) \ {e})
        BY <4>2, <3>1, <3>5
      <4> DEFINE rest == (S \ {x}) \ {e}
      <4>4. rest = (S \ {e}) \ {x}
        OBVIOUS
      <4>5. rest \in P
        BY <1>1, <3>1
      <4>6. Total(f, rest) \in Int /\ f[x] \in Int /\ f[e] \in Int
        BY <3>1, <4>5
      <4>7. Total(f, S \ {e}) = f[x] + Total(f, rest) /\ Total(f, S \ {x}) = f[e] + Total(f, rest)
        BY <4>1, <4>3, <4>4
      <4> HIDE DEF rest
      <4> QED BY <3>2, <4>6, <4>7
    <3> QED BY <3>2, <3>4, <3>5
  <2> QED BY <2>1, <2>2
<1>2. \A S \in SUBSET E : S \in P
  <2> HIDE DEF P
  <2> QED BY <1>1, StrongInduction
<1> QED BY <1>2

\* An element can be put in last.
LEMMA TotalAdd ==
  ASSUME NEW E, IsFiniteSet(E), NEW f, \A x \in E : f[x] \in Int,
         NEW S \in SUBSET E, NEW x \in E \ S
  PROVE  Total(f, S \cup {x}) = Total(f, S) + f[x]
<1> DEFINE T == S \cup {x}
<1>1. T \in SUBSET E /\ x \in T
  OBVIOUS
<1>2. T \ {x} = S
  OBVIOUS
<1>3. Total(f, T) = f[x] + Total(f, T \ {x})
  <2> HIDE DEF T
  <2> QED BY <1>1, TotalRemove
<1>4. Total(f, T) = f[x] + Total(f, S)
  BY <1>2, <1>3
<1>5. f[x] \in Int /\ Total(f, S) \in Int
  BY TotalRemove
<1> HIDE DEF T
<1>6. Total(f, T) = Total(f, S) + f[x]
  BY <1>4, <1>5
<1> QED BY <1>6 DEF T

\* The sum over two sets without a common element.
LEMMA TotalUnion ==
  ASSUME NEW E, IsFiniteSet(E), NEW f, \A x \in E : f[x] \in Int, NEW S \in SUBSET E
  PROVE  \A T \in SUBSET E : T \cap S = {} => Total(f, S \cup T) = Total(f, S) + Total(f, T)
<1> DEFINE P == {T \in SUBSET E : T \cap S = {} => Total(f, S \cup T) = Total(f, S) + Total(f, T)}
<1>0. \A T \in SUBSET E : Total(f, T) \in Int
  BY TotalRemove
<1>1. {} \in P
  <2>1. Total(f, {}) = 0
    BY FS_EmptySet, TotalStep
  <2>2. S \cup {} = S
    OBVIOUS
  <2> QED BY <1>0, <2>1, <2>2
<1>2. ASSUME NEW T \in SUBSET E, NEW x \in E \ T, T \in P
      PROVE  T \cup {x} \in P
  <2>1. SUFFICES ASSUME (T \cup {x}) \cap S = {}
                 PROVE  Total(f, S \cup (T \cup {x})) = Total(f, S) + Total(f, T \cup {x})
    OBVIOUS
  <2> DEFINE both == S \cup T
  <2>2. both \in SUBSET E /\ x \in E \ both /\ S \cup (T \cup {x}) = both \cup {x}
    BY <2>1
  <2>3. Total(f, both) = Total(f, S) + Total(f, T)
    BY <1>2, <2>1
  <2>4. Total(f, both \cup {x}) = Total(f, both) + f[x]
    <3> HIDE DEF both
    <3> QED BY <2>2, TotalAdd
  <2>5. Total(f, T \cup {x}) = Total(f, T) + f[x]
    BY TotalAdd
  <2>6. Total(f, S \cup (T \cup {x})) = Total(f, both \cup {x})
    BY <2>2
  <2>7. f[x] \in Int /\ Total(f, S) \in Int /\ Total(f, T) \in Int
    BY <1>0
  <2> HIDE DEF both
  <2> QED BY <2>3, <2>4, <2>5, <2>6, <2>7
<1>3. \A T \in SUBSET E : T \in P
  <2> HIDE DEF P
  <2> QED BY <1>1, <1>2, SubsetInduction
<1> QED BY <1>3

\* A sum of numbers that are at most c.
LEMMA TotalAtMost ==
  ASSUME NEW E, IsFiniteSet(E), NEW f, \A x \in E : f[x] \in Int, NEW c \in Int
  PROVE  \A S \in SUBSET E : (\A x \in S : f[x] <= c) => Total(f, S) <= Cardinality(S) * c
<1> DEFINE P == {S \in SUBSET E : (\A x \in S : f[x] <= c) => Total(f, S) <= Cardinality(S) * c}
<1>0. \A T \in SUBSET E : Total(f, T) \in Int /\ IsFiniteSet(T) /\ Cardinality(T) \in Nat
  BY TotalRemove, FS_Subset, FS_CardinalityType
<1>1. {} \in P
  <2>1. Total(f, {}) = 0 /\ Cardinality({}) = 0
    BY FS_EmptySet, TotalStep
  <2> QED BY <2>1
<1>2. ASSUME NEW S \in SUBSET E, NEW x \in E \ S, S \in P
      PROVE  S \cup {x} \in P
  <2>1. SUFFICES ASSUME \A y \in S \cup {x} : f[y] <= c
                 PROVE  Total(f, S \cup {x}) <= Cardinality(S \cup {x}) * c
    OBVIOUS
  <2>2. Total(f, S) <= Cardinality(S) * c /\ f[x] <= c
    BY <1>2, <2>1
  <2>3. Total(f, S \cup {x}) = Total(f, S) + f[x]
    BY TotalAdd
  <2>4. Cardinality(S \cup {x}) = Cardinality(S) + 1
    BY <1>0, FS_AddElement
  <2>5. f[x] \in Int /\ Total(f, S) \in Int /\ Cardinality(S) \in Nat
    BY <1>0
  <2> QED BY <2>2, <2>3, <2>4, <2>5
<1>3. \A S \in SUBSET E : S \in P
  <2> HIDE DEF P
  <2> QED BY <1>1, <1>2, SubsetInduction
<1> QED BY <1>3

\* A sum of natural numbers.
LEMMA TotalNat ==
  ASSUME NEW E, IsFiniteSet(E), NEW f, \A x \in E : f[x] \in Nat
  PROVE  \A S \in SUBSET E : Total(f, S) \in Nat
<1> DEFINE P == {S \in SUBSET E : Total(f, S) \in Nat}
<1>1. {} \in P
  BY FS_EmptySet, TotalStep
<1>2. ASSUME NEW S \in SUBSET E, NEW x \in E \ S, S \in P
      PROVE  S \cup {x} \in P
  <2>1. Total(f, S \cup {x}) = Total(f, S) + f[x]
    BY TotalAdd
  <2> QED BY <1>2, <2>1
<1>3. \A S \in SUBSET E : S \in P
  <2> HIDE DEF P
  <2> QED BY <1>1, <1>2, SubsetInduction
<1> QED BY <1>3

\* The sum of two functions.
LEMMA TotalSum ==
  ASSUME NEW E, IsFiniteSet(E), NEW f, NEW g, NEW h, \A x \in E : f[x] \in Int /\ g[x] \in Int,
         \A x \in E : h[x] = f[x] + g[x]
  PROVE  \A S \in SUBSET E : Total(h, S) = Total(f, S) + Total(g, S)
<1> DEFINE P == {S \in SUBSET E : Total(h, S) = Total(f, S) + Total(g, S)}
<1>1. {} \in P
  <2>1. Total(f, {}) = 0 /\ Total(g, {}) = 0 /\ Total(h, {}) = 0
    BY FS_EmptySet, TotalStep
  <2> QED BY <2>1
<1>2. ASSUME NEW S \in SUBSET E, NEW x \in E \ S, S \in P
      PROVE  S \cup {x} \in P
  <2>1. Total(f, S \cup {x}) = Total(f, S) + f[x] /\ Total(g, S \cup {x}) = Total(g, S) + g[x]
    BY TotalAdd
  <2>2. Total(h, S \cup {x}) = Total(h, S) + h[x]
    <3>1. \A y \in E : h[y] \in Int
      OBVIOUS
    <3> QED BY <3>1, TotalAdd
  <2>3. Total(f, S) \in Int /\ Total(g, S) \in Int /\ f[x] \in Int /\ g[x] \in Int
    BY TotalRemove
  <2>4. Total(h, S) = Total(f, S) + Total(g, S) /\ h[x] = f[x] + g[x]
    BY <1>2
  <2>5. Total(h, S \cup {x}) = Total(f, S \cup {x}) + Total(g, S \cup {x})
    BY <2>1, <2>2, <2>3, <2>4
  <2> QED BY <2>5
<1>3. \A S \in SUBSET E : S \in P
  <2> HIDE DEF P
  <2> QED BY <1>1, <1>2, SubsetInduction
<1> QED BY <1>3

\* Products of integers, for the steps below.
LEMMA TimesMonotonic ==
  ASSUME NEW k \in Nat, NEW a \in Int, NEW b \in Int, a <= b
  PROVE  k * a <= k * b
OBVIOUS

LEMMA TimesSuccessor ==
  ASSUME NEW k \in Nat, NEW a \in Nat
  PROVE  (k + 1) * a = k * a + a /\ k * a \in Nat
OBVIOUS

LEMMA TimesCancels ==
  ASSUME NEW k \in Nat, NEW a \in Int, NEW b \in Int, (1 + k) * a <= (1 + k) * b
  PROVE  a <= b
OBVIOUS

\* The inequality behind one pick: u entries are looked at, k of them are
\* candidates, and an entry outside is picked.  s and t are the sums of the current
\* weights of the u entries before and after, a the part of the others among them,
\* cb and wb belong to the entry picked, wB is the weight of the k candidates.
LEMMA PickInequality ==
  ASSUME NEW W \in Nat, NEW n \in Nat, NEW u \in Nat, NEW k \in Nat,
         NEW s \in Int, NEW t \in Int, NEW a \in Int,
         NEW cb \in Int, NEW wb \in Int, NEW wB \in Int,
         s + cb <= W * ((u + 1) * (n - (u + 1))),
         a <= W * ((u - k) * (n - (u - k))),
         t = s + wB, t <= a + k * (cb + wb),
         wb <= W, wB <= k * W
  PROVE  t <= W * (u * (n - u))
<1> DEFINE G == W * ((u + 1) * (n - (u + 1)))
           H == W * ((u - k) * (n - (u - k)))
           X == W * (u * (n - u))
           kW == k * W
<1>0. G \in Int /\ H \in Int /\ X \in Int /\ kW \in Int
  OBVIOUS
<1>1. H + k * G + kW + k * kW = (1 + k) * X
  OBVIOUS
<1>2. s + cb <= G /\ a <= H /\ wB <= kW
  OBVIOUS
<1> HIDE DEF G, H, X, kW
<1>3. k * (cb + wb) <= k * (G - s + W)
  BY <1>0, <1>2, TimesMonotonic
<1>4. k * (G - s + W) = k * G - k * s + k * W
  BY <1>0
<1>5. k * (t - kW) <= k * s
  BY <1>0, <1>2, TimesMonotonic
<1>6. k * (t - kW) = k * t - k * kW
  BY <1>0
<1>7. (1 + k) * t = t + k * t
  OBVIOUS
<1>8. k * W = kW
  BY DEF kW
<1>9. (1 + k) * t <= (1 + k) * X
  <2>1. k * G \in Int /\ k * s \in Int /\ k * t \in Int /\ k * kW \in Int /\ k * (cb + wb) \in Int
    BY <1>0
  <2>2. t <= H + (k * G - k * s + kW)
    BY <1>0, <1>2, <1>3, <1>4, <1>8, <2>1
  <2>3. k * t - k * kW <= k * s
    BY <1>5, <1>6
  <2>4. t + k * t <= H + k * G + kW + k * kW
    BY <1>0, <2>1, <2>2, <2>3
  <2> QED BY <1>1, <1>7, <2>4
<1>10. t <= X
  BY <1>0, <1>9, TimesCancels
<1> QED BY <1>10 DEF X

-----------------------------------------------------------------------------
(***************************************************************************)
(* The invariant: one part for each way of choosing.                       *)
(***************************************************************************)

\* The longer an entry waits in round robin, the nearer its turn.
TurnOK == waits + Distance(watched) <= Size[picker] - 1

\* Whether j is probed before k if both are due.  The keys that are preferred to the
\* watched one are probed before it or may turn out to have never been attempted.
Before(last, j, k) == last[j] < last[k] \/ (last[j] = last[k] /\ j < k)
Preferred == {j \in Entries \ {watched} : Before(lastAttempt, j, watched) \/ keys[j].behind}

\* A key that waits for its probe waits for the credit, and then for one key less.
ProbeOK ==
  waits > 0 => /\ credit < explorationInterval
               /\ waits + explorationInterval * Cardinality(Preferred)
                    <= (Size[picker] - 2) * explorationInterval + 1 + credit

\* No set of children has saved up more than the others can owe.
BalanceOK ==
  /\ Total(currentWeights, Entries) = 0
  /\ \A U \in SUBSET Entries :
       Total(currentWeights, U) <= MaxWeight * (Cardinality(U) * (Size[picker] - Cardinality(U)))

\* A child gains its weight with every pick it waits for.
OwedOK == waits * Weight[watched] <= currentWeights[watched] + Imbalance

SelectionInv ==
  /\ TypeOK
  /\ picker = "weighted" => BalanceOK /\ OwedOK
  /\ picker = "round_robin" => TurnOK
  /\ picker = "performance" => ProbeOK

-----------------------------------------------------------------------------
(***************************************************************************)
(* The entries.                                                            *)
(***************************************************************************)

\* A pool has finitely many entries, and at least one.
LEMMA SizeFacts ==
  ASSUME picker \in Pickers
  PROVE  /\ Size[picker] \in Nat \ {0}
         /\ IsFiniteSet(Entries)
         /\ Cardinality(Entries) = Size[picker]
<1>1. Size[picker] \in Nat \ {0}
  BY SelectionConstants
<1>2. IsFiniteSet(1 .. Size[picker]) /\ Cardinality(1 .. Size[picker]) = Size[picker]
  BY <1>1, FS_Interval
<1> QED BY <1>1, <1>2 DEF Entries

\* The distance from where the rotation stands, without the remainder.
LEMMA Remainder ==
  ASSUME NEW n \in Nat \ {0}, NEW i \in 1..n, NEW r \in 1..n
  PROVE  (i - r + n) % n = IF r <= i THEN i - r ELSE i - r + n
<1> DEFINE a == i - r + n
           q == a \div n
           m == a % n
<1>1. a \in Nat /\ a < n + n
  OBVIOUS
<1>2. q \in Int /\ m \in 0..(n - 1) /\ a = n * q + m
  OBVIOUS
<1>3. CASE r <= i
  <2>1. n <= a
    BY <1>3
  <2>2. q = 1
    BY <1>1, <1>2, <2>1
  <2> QED BY <1>2, <1>3, <2>2
<1>4. CASE ~(r <= i)
  <2>1. a < n
    BY <1>4
  <2>2. q = 0
    BY <1>1, <1>2, <2>1
  <2> QED BY <1>2, <1>4, <2>2
<1> QED BY <1>3, <1>4

\* How many steps the rotation is from an entry.
LEMMA DistanceFacts ==
  ASSUME picker \in Pickers, rrIdx \in Entries, NEW i \in Entries
  PROVE  /\ Distance(i) = IF rrIdx <= i THEN i - rrIdx ELSE i - rrIdx + Size[picker]
         /\ Distance(i) \in 0 .. Size[picker] - 1
<1>1. Size[picker] \in Nat \ {0} /\ i \in 1 .. Size[picker] /\ rrIdx \in 1 .. Size[picker]
  BY SizeFacts DEF Entries
<1>2. Distance(i) = IF rrIdx <= i THEN i - rrIdx ELSE i - rrIdx + Size[picker]
  BY <1>1, Remainder DEF Distance
<1> QED BY <1>1, <1>2

\* The weights of an aggregate are positive, and MaxWeight is the largest.
LEMMA WeightFacts ==
  ASSUME picker \in Pickers, picker = "weighted"
  PROVE  /\ \A i \in Entries : Weight[i] \in Nat \ {0} /\ Priority[i] \in Int
         /\ MaxWeight \in Nat
         /\ \A i \in Entries : Weight[i] <= MaxWeight
         /\ Imbalance \in Nat
<1>1. \A i \in Entries : Weight[i] \in Nat \ {0} /\ Priority[i] \in Int
  BY AggregateConstants DEF Entries
<1> DEFINE W == {Weight[i] : i \in Entries}
<1>2. W \in SUBSET Int /\ W \in SUBSET Nat
  BY <1>1
<1>3. IsFiniteSet(W)
  <2> DEFINE f == [i \in Entries |-> Weight[i]]
  <2>1. f \in Surjection(Entries, W)
    BY DEF Surjection
  <2>2. IsFiniteSet(Entries)
    BY SizeFacts
  <2> HIDE DEF f, W
  <2> QED BY <2>1, <2>2, FS_Surjection
<1>4. 1 \in Entries
  BY SizeFacts DEF Entries
<1>5. W # {}
  BY <1>4
<1>6. Max(W) \in W /\ \A j \in W : j <= Max(W)
  <2> HIDE DEF W
  <2> QED BY <1>2, <1>3, <1>5, MaxOf
<1>7. MaxWeight \in W /\ \A j \in W : j <= MaxWeight
  BY <1>6 DEF MaxWeight
<1>8. MaxWeight \in Nat /\ \A i \in Entries : Weight[i] <= MaxWeight
  BY <1>2, <1>7
<1>9. Imbalance \in Nat
  <2>1. Size[picker] - 1 \in Nat
    BY SizeFacts
  <2> QED BY <1>8, <2>1 DEF Imbalance
<1> QED BY <1>1, <1>8, <1>9

\* The part of a set of entries.
LEMMA PartFacts ==
  ASSUME picker \in Pickers, NEW U \in SUBSET Entries
  PROVE  IsFiniteSet(U) /\ Cardinality(U) \in 0..Size[picker]
<1>1. IsFiniteSet(U) /\ Cardinality(U) <= Cardinality(Entries)
  BY SizeFacts, FS_Subset
<1>2. Cardinality(U) \in Nat
  BY <1>1, FS_CardinalityType
<1> QED BY <1>1, <1>2, SizeFacts

\* Without current weights everything is in balance.
LEMMA ZeroBalance ==
  ASSUME picker \in Pickers, picker = "weighted",
         NEW c, c = [i \in Entries |-> 0]
  PROVE  /\ Total(c, Entries) = 0
         /\ \A U \in SUBSET Entries :
              Total(c, U) <= MaxWeight * (Cardinality(U) * (Size[picker] - Cardinality(U)))
<1>1. \A i \in Entries : c[i] = 0
  OBVIOUS
<1>2. IsFiniteSet(Entries)
  BY SizeFacts
<1>3. ASSUME NEW U \in SUBSET Entries
      PROVE  Total(c, U) = 0
  <2>1. Total(c, U) \in Nat
    BY <1>1, <1>2, TotalNat
  <2>2. Total(c, U) <= Cardinality(U) * 0
    BY <1>1, <1>2, TotalAtMost
  <2>3. Cardinality(U) \in Nat
    BY PartFacts
  <2> QED BY <2>1, <2>2, <2>3
<1>4. ASSUME NEW U \in SUBSET Entries
      PROVE  0 <= MaxWeight * (Cardinality(U) * (Size[picker] - Cardinality(U)))
  <2>1. Cardinality(U) \in Nat /\ Size[picker] - Cardinality(U) \in Nat
    BY PartFacts, SizeFacts
  <2>2. MaxWeight \in Nat
    BY WeightFacts
  <2> HIDE DEF MaxWeight
  <2> QED BY <2>1, <2>2
<1>5. Total(c, Entries) = 0
  BY <1>3
<1> QED BY <1>3, <1>4, <1>5

\* A new key has a state.
LEMMA NewKeyType == NewKey \in KeyStates
BY SelectionConstants DEF NewKey, KeyStates

\* Initially nobody has waited.
LEMMA InitInv == Init => SelectionInv
<1> SUFFICES ASSUME Init PROVE SelectionInv
  OBVIOUS
<1>1. picker \in Pickers
  BY DEF Init
<1>2. TypeOK
  <2>1. 1 \in Entries
    BY <1>1, SizeFacts DEF Entries
  <2>2. 0 \in 0..Size[picker]
    BY <1>1, SizeFacts
  <2>3. NewKey \in KeyStates
    BY NewKeyType
  <2>4. keys \in [Entries -> KeyStates] /\ lastAttempt \in [Entries -> 0..Size[picker]]
    BY <2>2, <2>3 DEF Init
  <2>5. currentWeights \in [Entries -> Int]
    BY DEF Init
  <2>6. 0 \in 0..MaxChanges /\ 0 \in 0..explorationInterval
    BY SelectionConstants
  <2> QED BY <2>1, <2>4, <2>5, <2>6 DEF Init, TypeOK
<1>3. CASE picker = "weighted"
  <2>1. BalanceOK
    BY <1>1, <1>3, ZeroBalance DEF Init, BalanceOK
  <2>2. OwedOK
    BY <1>1, <1>3, WeightFacts DEF Init, OwedOK
  <2> QED BY <1>2, <1>3, <2>1, <2>2 DEF SelectionInv
<1>4. CASE picker = "round_robin"
  <2>1. Distance(watched) \in 0 .. Size[picker] - 1
    BY <1>1, <1>2, DistanceFacts DEF TypeOK
  <2>2. waits = 0 /\ Size[picker] \in Nat
    BY <1>1, SizeFacts DEF Init
  <2>3. TurnOK
    BY <2>1, <2>2 DEF TurnOK
  <2> QED BY <1>2, <1>4, <2>3 DEF SelectionInv
<1>5. CASE picker = "performance"
  BY <1>2, <1>5 DEF SelectionInv, ProbeOK, Init
<1> QED BY <1>1, <1>3, <1>4, <1>5, SelectionConstants

-----------------------------------------------------------------------------
(***************************************************************************)
(* Round robin.                                                            *)
(***************************************************************************)

\* A pick that passes over the watched key brings its turn nearer.
LEMMA RoundRobinStep ==
  ASSUME SelectionInv, NEW S \in SUBSET Entries, S # {}, PickRoundRobin(S)
  PROVE  SelectionInv'
<1> DEFINE n == Size[picker]
           best == CHOOSE i \in S : \A j \in S : Distance(i) <= Distance(j)
<1>1. /\ TypeOK /\ picker \in Pickers /\ picker = "round_robin" /\ TurnOK
      /\ rrIdx \in 1..n /\ watched \in 1..n /\ waits \in Nat
  BY DEF SelectionInv, PickRoundRobin, TypeOK, Entries
<1>2. n \in Nat \ {0} /\ IsFiniteSet(Entries)
  BY <1>1, SizeFacts
<1>3. \A i \in Entries : /\ Distance(i) = IF rrIdx <= i THEN i - rrIdx ELSE i - rrIdx + n
                         /\ Distance(i) \in 0 .. n - 1
  BY <1>1, DistanceFacts DEF TypeOK
<1>4. best \in S /\ \A j \in S : Distance(best) <= Distance(j)
  <2> DEFINE f == [i \in Entries |-> Distance(i)]
  <2>1. \A i \in Entries : f[i] \in Int /\ f[i] = Distance(i)
    BY <1>3
  <2> HIDE DEF f
  <2>2. \E i \in S : \A j \in S : f[i] <= f[j]
    BY <1>2, <2>1, LeastExists
  <2>3. \E i \in S : \A j \in S : Distance(i) <= Distance(j)
    BY <2>1, <2>2
  <2> QED BY <2>3
<1>5. /\ rrIdx' = After(best) /\ Picked(best, S, S)
      /\ UNCHANGED <<currentWeights, credit, keys, lastAttempt>>
  BY DEF PickRoundRobin
<1> HIDE DEF best
<1>6. best \in 1..n
  BY <1>4 DEF Entries
<1>7. rrIdx' = (IF best = n THEN 1 ELSE best + 1) /\ rrIdx' \in 1..n
  BY <1>2, <1>5, <1>6 DEF After
<1>8. /\ picker' = picker /\ changes' = changes /\ watched' = watched
      /\ present' = (watched \in S) /\ taken' = (best = watched)
      /\ waits' = IF best # watched /\ watched \in S THEN waits + 1 ELSE 0
  BY <1>5 DEF Picked
<1>9. Distance(watched)' = (IF rrIdx' <= watched THEN watched - rrIdx' ELSE watched - rrIdx' + n)
  BY <1>1, <1>2, <1>7, <1>8, Remainder DEF Distance
<1>10. TurnOK'
  <2>1. CASE best # watched /\ watched \in S
    <3>1. Distance(best) <= Distance(watched) /\ waits + Distance(watched) <= n - 1
      BY <1>1, <1>4, <2>1 DEF TurnOK
    <3>2. /\ Distance(watched) = IF rrIdx <= watched THEN watched - rrIdx ELSE watched - rrIdx + n
          /\ Distance(best) = IF rrIdx <= best THEN best - rrIdx ELSE best - rrIdx + n
      BY <1>1, <1>3, <1>6 DEF Entries
    <3>3. Distance(watched)' + 1 <= Distance(watched)
      BY <1>1, <1>2, <1>6, <1>7, <1>9, <2>1, <3>1, <3>2
    <3>4. waits' = waits + 1 /\ Distance(watched)' \in Int /\ Distance(watched) \in Int
      BY <1>1, <1>2, <1>7, <1>8, <1>9, <2>1, <3>2
    <3> QED BY <1>1, <1>2, <1>8, <3>1, <3>3, <3>4 DEF TurnOK
  <2>2. CASE ~(best # watched /\ watched \in S)
    <3>1. waits' = 0
      BY <1>8, <2>2
    <3>2. Distance(watched)' \in 0 .. n - 1
      BY <1>1, <1>2, <1>7, <1>9
    <3> QED BY <1>2, <1>8, <3>1, <3>2 DEF TurnOK
  <2> QED BY <2>1, <2>2
<1>11. TypeOK'
  <2>1. rrIdx' \in Entries' /\ waits' \in Nat /\ Entries' = Entries
    BY <1>1, <1>7, <1>8 DEF Entries
  <2>2. present' \in BOOLEAN /\ taken' \in BOOLEAN
    BY <1>8
  <2> QED BY <1>1, <1>5, <1>8, <2>1, <2>2 DEF TypeOK
<1> QED BY <1>1, <1>8, <1>10, <1>11 DEF SelectionInv

-----------------------------------------------------------------------------
(***************************************************************************)
(* Smooth weighted round robin, first for any functions on a finite set:   *)
(* c and d are the current weights before and after a pick of b among S,   *)
(* w the weights.                                                          *)
(***************************************************************************)

IsPick(E, c, d, w, S, b) ==
  /\ IsFiniteSet(E) /\ S \in SUBSET E /\ b \in S
  /\ \A i \in E : c[i] \in Int /\ w[i] \in Nat
  /\ \A i \in E : d[i] = (IF i \in S THEN c[i] + w[i] ELSE c[i])
                          - (IF i = b THEN Total(w, S) ELSE 0)

\* Who of the entries of U is a candidate gains its weight, and b pays for all.
LEMMA PickTotal ==
  ASSUME NEW E, NEW c, NEW d, NEW w, NEW S, NEW b, IsPick(E, c, d, w, S, b)
  PROVE  \A U \in SUBSET E :
           Total(d, U) = Total(c, U) + Total(w, U \cap S) - (IF b \in U THEN Total(w, S) ELSE 0)
<1> DEFINE paid(U) == IF b \in U THEN Total(w, S) ELSE 0
           P == {U \in SUBSET E : Total(d, U) = Total(c, U) + Total(w, U \cap S) - paid(U)}
<1> USE DEF IsPick
<1>1. \A U \in SUBSET E : Total(w, U) \in Int /\ Total(c, U) \in Int
  BY TotalRemove
<1>2. \A i \in E : d[i] \in Int
  BY <1>1
<1>3. {} \in P
  <2>1. Total(d, {}) = 0 /\ Total(c, {}) = 0 /\ Total(w, {}) = 0
    BY FS_EmptySet, TotalStep
  <2>2. {} \cap S = {}
    OBVIOUS
  <2> QED BY <2>1, <2>2
<1>4. ASSUME NEW U \in SUBSET E, NEW x \in E \ U, U \in P
      PROVE  U \cup {x} \in P
  <2> DEFINE V == U \cup {x}
             A == U \cap S
  <2>1. Total(d, V) = Total(d, U) + d[x]
    BY <1>2, TotalAdd
  <2>2. Total(c, V) = Total(c, U) + c[x]
    BY TotalAdd
  <2>3. Total(w, V \cap S) = Total(w, A) + (IF x \in S THEN w[x] ELSE 0)
    <3>1. CASE x \in S
      <4>1. V \cap S = A \cup {x} /\ A \in SUBSET E /\ x \in E \ A
        BY <3>1
      <4>2. Total(w, A \cup {x}) = Total(w, A) + w[x]
        <5> HIDE DEF A
        <5> QED BY <4>1, TotalAdd
      <4> QED BY <3>1, <4>1, <4>2
    <3>2. CASE x \notin S
      <4>1. V \cap S = A
        BY <3>2
      <4>2. Total(w, A) \in Int
        BY <1>1
      <4>3. Total(w, V \cap S) = Total(w, A)
        BY <4>1
      <4> HIDE DEF A, V
      <4> QED BY <3>2, <4>2, <4>3
    <3> QED BY <3>1, <3>2
  <2>4. paid(V) = paid(U) + (IF x = b THEN Total(w, S) ELSE 0)
    BY <1>1
  <2>5. Total(d, U) = Total(c, U) + Total(w, A) - paid(U)
    BY <1>4
  <2>6. /\ Total(c, U) \in Int /\ Total(w, A) \in Int /\ paid(U) \in Int
        /\ c[x] \in Int /\ w[x] \in Int /\ Total(w, S) \in Int
    BY <1>1
  <2>7. d[x] = (IF x \in S THEN c[x] + w[x] ELSE c[x]) - (IF x = b THEN Total(w, S) ELSE 0)
    OBVIOUS
  <2>8. V \in SUBSET E
    OBVIOUS
  <2>9. Total(d, V) = Total(c, V) + Total(w, V \cap S) - paid(V)
    <3> HIDE DEF V, A, paid, P
    <3> QED BY <2>1, <2>2, <2>3, <2>4, <2>5, <2>6, <2>7
  <2> QED BY <2>8, <2>9
<1>5. \A U \in SUBSET E : U \in P
  <2> HIDE DEF P
  <2> QED BY <1>3, <1>4, SubsetInduction
<1> QED BY <1>5

\* The bound on what a set of entries has saved up.
Cap(W, n, u) == W * (u * (n - u))

\* A pick keeps the bound: if b is in U, U does not gain; otherwise the candidates
\* of U have less than b, and the bounds of U with b and of U without its
\* candidates limit what they can have.
LEMMA PickBalance ==
  ASSUME NEW E, NEW c, NEW d, NEW w, NEW S, NEW b, IsPick(E, c, d, w, S, b),
         NEW W \in Nat, \A i \in E : w[i] <= W,
         \A i \in S : c[i] + w[i] <= c[b] + w[b],
         \A U \in SUBSET E : Total(c, U) <= Cap(W, Cardinality(E), Cardinality(U)),
         NEW U \in SUBSET E
  PROVE  Total(d, U) <= Cap(W, Cardinality(E), Cardinality(U))
<1> DEFINE n == Cardinality(E)
           B == U \cap S
<1>1. \A V \in SUBSET E : /\ Total(w, V) \in Nat /\ Total(c, V) \in Int
                          /\ IsFiniteSet(V) /\ Cardinality(V) \in Nat
  BY TotalRemove, TotalNat, FS_Subset, FS_CardinalityType DEF IsPick
<1>2. Total(d, U) = Total(c, U) + Total(w, B) - (IF b \in U THEN Total(w, S) ELSE 0)
  BY PickTotal
<1> USE DEF IsPick
<1>3. CASE b \in U
  <2> DEFINE R == S \ U
  <2>1. S = B \cup R /\ R \cap B = {} /\ B \in SUBSET E /\ R \in SUBSET E
    OBVIOUS
  <2>2. Total(w, B \cup R) = Total(w, B) + Total(w, R)
    <3> HIDE DEF B, R
    <3>1. \A i \in E : w[i] \in Int
      OBVIOUS
    <3> QED BY <2>1, <3>1, TotalUnion
  <2>3. Total(w, S) = Total(w, B) + Total(w, R)
    BY <2>1, <2>2
  <2>4. Total(w, B) \in Nat /\ Total(w, R) \in Nat /\ Total(c, U) \in Int
    BY <1>1, <2>1
  <2>5. Total(d, U) <= Total(c, U)
    <3> HIDE DEF B, R
    <3> QED BY <1>2, <1>3, <2>3, <2>4
  <2>6. Total(c, U) <= Cap(W, n, Cardinality(U)) /\ Cap(W, n, Cardinality(U)) \in Int
    BY <1>1 DEF Cap
  <2>7. Total(d, U) \in Int
    <3> HIDE DEF B, R
    <3> QED BY <1>2, <1>3, <2>3, <2>4
  <2> QED BY <2>4, <2>5, <2>6, <2>7
<1>4. CASE b \notin U
  <2> DEFINE R == U \ S
             u == Cardinality(U)
             k == Cardinality(B)
             s == Total(c, U)
             t == Total(d, U)
             a == Total(c, R)
  <2>1. U = R \cup B /\ B \cap R = {} /\ B \in SUBSET E /\ R \in SUBSET E /\ b \in E \ U /\ B \in SUBSET U
    BY <1>4
  <2>2. s = a + Total(c, B)
    <3>1. Total(c, R \cup B) = Total(c, R) + Total(c, B)
      <4> HIDE DEF B, R
      <4>1. \A i \in E : c[i] \in Int
        OBVIOUS
      <4> QED BY <2>1, <4>1, TotalUnion
    <3> QED BY <2>1, <3>1
  <2>3. Cardinality(R) = u - k
    <3>1. R = U \ B
      OBVIOUS
    <3>2. Cardinality(U \ B) = Cardinality(U) - Cardinality(U \cap B)
      <4>1. IsFiniteSet(U)
        BY <1>1
      <4> HIDE DEF B
      <4> QED BY <4>1, FS_Difference
    <3>3. U \cap B = B
      OBVIOUS
    <3> QED BY <3>1, <3>2, <3>3
  <2>4. s + c[b] <= W * ((u + 1) * (n - (u + 1)))
    <3> DEFINE V == U \cup {b}
    <3>1. V \in SUBSET E
      BY <2>1
    <3>2. Total(c, V) = s + c[b]
      <4>1. \A i \in E : c[i] \in Int
        OBVIOUS
      <4> QED BY <2>1, <4>1, TotalAdd
    <3>3. Cardinality(V) = u + 1
      BY <1>1, <2>1, FS_AddElement
    <3>4. Total(c, V) <= Cap(W, n, Cardinality(V))
      <4> HIDE DEF V
      <4> QED BY <3>1
    <3> HIDE DEF V, s, u, n
    <3> QED BY <3>2, <3>3, <3>4 DEF Cap
  <2>5. a <= W * ((u - k) * (n - (u - k)))
    <3>1. Total(c, R) <= Cap(W, n, Cardinality(R))
      <4> HIDE DEF R
      <4> QED BY <2>1
    <3> HIDE DEF R, u, k, n
    <3> QED BY <2>3, <3>1 DEF Cap
  <2>6. t = s + Total(w, B)
    <3>1. s \in Int /\ Total(w, B) \in Int
      BY <1>1, <2>1
    <3> HIDE DEF B
    <3> QED BY <1>2, <1>4, <3>1
  <2>7. Total(w, B) <= k * W
    <3>1. (\A i \in E : w[i] \in Int) /\ \A i \in B : w[i] <= W
      OBVIOUS
    <3> HIDE DEF B
    <3> QED BY <2>1, <3>1, TotalAtMost
  <2>8. Total(c, B) + Total(w, B) <= k * (c[b] + w[b])
    <3> DEFINE f == [i \in E |-> c[i] + w[i]]
               m == c[b] + w[b]
    <3>1. \A i \in E : f[i] \in Int /\ f[i] = c[i] + w[i]
      OBVIOUS
    <3>2. m \in Int /\ \A i \in B : f[i] <= m
      OBVIOUS
    <3> HIDE DEF f, m
    <3>3. Total(f, B) <= k * m
      <4> HIDE DEF B
      <4> QED BY <2>1, <3>1, <3>2, TotalAtMost
    <3>4. Total(f, B) = Total(c, B) + Total(w, B)
      BY <2>1, <3>1, TotalSum
    <3> QED BY <3>3, <3>4 DEF m
  <2>9. /\ s \in Int /\ a \in Int /\ t \in Int /\ u \in Nat /\ k \in Nat /\ n \in Nat
        /\ c[b] \in Int /\ w[b] \in Int /\ Total(w, B) \in Int /\ Total(c, B) \in Int /\ w[b] <= W
    <3>1. Total(c, U) \in Int /\ Total(c, R) \in Int /\ Cardinality(U) \in Nat
      BY <1>1, <2>1
    <3>2. /\ Cardinality(B) \in Nat /\ Total(w, B) \in Int /\ Total(c, B) \in Int
          /\ Cardinality(E) \in Nat
      BY <1>1, <2>1
    <3>3. t \in Int
      <4> HIDE DEF B, s, t
      <4> QED BY <2>6, <3>1, <3>2 DEF s
    <3>4. c[b] \in Int /\ w[b] \in Int /\ w[b] <= W
      OBVIOUS
    <3> QED BY <3>1, <3>2, <3>3, <3>4
  <2>10. t <= a + k * (c[b] + w[b])
    <3>1. k * (c[b] + w[b]) \in Int
      <4> HIDE DEF k
      <4> QED BY <2>9
    <3> DEFINE kk == k * (c[b] + w[b])
    <3> HIDE DEF kk, B, R, a, t, s, k
    <3>2. kk \in Int /\ Total(c, B) + Total(w, B) <= kk
      BY <2>8, <3>1 DEF kk
    <3>3. t <= a + kk
      BY <2>2, <2>6, <2>9, <3>2
    <3> QED BY <3>3 DEF kk
  <2>11. t <= W * (u * (n - u))
    <3> HIDE DEF B, R, a, t, s, k, u, n
    <3> QED BY <2>4, <2>5, <2>6, <2>7, <2>9, <2>10, PickInequality
  <2> QED BY <2>11 DEF Cap
<1> QED BY <1>3, <1>4

\* What the bounds on sets say of one entry.
LEMMA BalanceBounds ==
  ASSUME NEW E, IsFiniteSet(E), NEW c, \A i \in E : c[i] \in Int, NEW W \in Nat,
         Total(c, E) = 0,
         \A U \in SUBSET E : Total(c, U) <= Cap(W, Cardinality(E), Cardinality(U)),
         NEW i \in E
  PROVE  c[i] <= (Cardinality(E) - 1) * W /\ -((Cardinality(E) - 1) * W) <= c[i]
<1> DEFINE n == Cardinality(E)
           others == E \ {i}
<1>1. n \in Nat
  BY FS_CardinalityType
<1>2. Total(c, E) = c[i] + Total(c, others) /\ Total(c, others) \in Int
  BY TotalRemove
<1>3. Total(c, {i}) = c[i]
  <2>1. Total(c, {i}) = c[i] + Total(c, {i} \ {i})
    BY TotalRemove
  <2>2. {i} \ {i} = {} /\ Total(c, {}) = 0
    BY FS_EmptySet, TotalStep
  <2>3. Total(c, {i} \ {i}) = 0
    BY <2>2
  <2> QED BY <2>1, <2>3
<1>4. Cardinality({i}) = 1 /\ Cardinality(others) = n - 1
  BY FS_Singleton, FS_RemoveElement
<1>5. c[i] <= Cap(W, n, 1)
  BY <1>3, <1>4
<1>6. Total(c, others) <= Cap(W, n, n - 1)
  BY <1>4
<1>7. Cap(W, n, 1) = (n - 1) * W /\ Cap(W, n, n - 1) = (n - 1) * W /\ (n - 1) * W \in Int
  <2> HIDE DEF n
  <2> QED BY <1>1 DEF Cap
<1> DEFINE bound == (n - 1) * W
<1>8. c[i] <= bound /\ Total(c, others) <= bound /\ bound \in Int
  BY <1>5, <1>6, <1>7
<1>9. c[i] + Total(c, others) = 0 /\ c[i] \in Int
  BY <1>2
<1> HIDE DEF n, others, bound
<1>10. c[i] <= bound /\ -bound <= c[i]
  BY <1>2, <1>8, <1>9
<1> QED BY <1>10 DEF bound, n

\* A pick of an aggregate keeps the balance, and a child that is passed over gains
\* its weight.
LEMMA WeightedStep ==
  ASSUME SelectionInv, NEW S \in SUBSET Entries, S # {}, PickWeighted(S)
  PROVE  SelectionInv'
<1> DEFINE n == Size[picker]
           tier == Tier(S)
           raised == Credited(tier)
           top == {i \in tier : \A j \in tier : raised[j] <= raised[i]}
           best == Min(top)
<1>1. /\ TypeOK /\ picker \in Pickers /\ picker = "weighted" /\ BalanceOK /\ OwedOK
      /\ currentWeights \in [Entries -> Int] /\ watched \in Entries /\ waits \in Nat
  BY DEF SelectionInv, PickWeighted, TypeOK
<1>2. n \in Nat \ {0} /\ IsFiniteSet(Entries) /\ Cardinality(Entries) = n
  BY <1>1, SizeFacts
<1>3. /\ \A i \in Entries : Weight[i] \in Nat \ {0} /\ Priority[i] \in Int /\ Weight[i] <= MaxWeight
      /\ MaxWeight \in Nat /\ Imbalance \in Nat
  BY <1>1, WeightFacts
<1>4. tier \in SUBSET Entries /\ tier # {}
  <2>1. \E i \in S : \A j \in S : Priority[i] <= Priority[j]
    BY <1>2, <1>3, LeastExists
  <2> QED BY <2>1 DEF Tier
<1> HIDE DEF tier
<1>5. \A i \in Entries : /\ raised[i] = (IF i \in tier THEN currentWeights[i] + Weight[i] ELSE currentWeights[i])
                         /\ raised[i] \in Int
  BY <1>1, <1>3 DEF Credited
<1>6. raised \in [Entries -> Int]
  BY <1>1, <1>3 DEF Credited
<1> HIDE DEF raised
<1>7. best \in tier /\ \A j \in tier : raised[j] <= raised[best]
  <2> DEFINE f == [i \in Entries |-> -raised[i]]
  <2>1. \A i \in Entries : f[i] \in Int /\ f[i] = -raised[i]
    BY <1>5
  <2> HIDE DEF f
  <2>2. \E i \in tier : \A j \in tier : f[i] <= f[j]
    BY <1>2, <1>4, <2>1, LeastExists
  <2>3. \E i \in tier : \A j \in tier : raised[j] <= raised[i]
    BY <1>4, <1>5, <2>1, <2>2
  <2>4. top # {} /\ top \in SUBSET Int
    <3>1. Entries \subseteq Int
      BY <1>2 DEF Entries
    <3> QED BY <1>4, <2>3, <3>1
  <2>5. IsFiniteSet(top)
    <3>1. top \in SUBSET Entries
      BY <1>4
    <3> HIDE DEF top
    <3> QED BY <1>2, <3>1, FS_Subset
  <2>6. best \in top
    <3> HIDE DEF top
    <3> QED BY <2>4, <2>5, MinOf
  <2> QED BY <2>6
<1>8. /\ currentWeights' = [raised EXCEPT ![best] = @ - WeightOf(tier)]
      /\ Picked(best, tier, tier)
      /\ UNCHANGED <<rrIdx, credit, keys, lastAttempt>>
  BY DEF PickWeighted, raised, tier
<1> HIDE DEF best
<1>9. /\ picker' = picker /\ changes' = changes /\ watched' = watched
      /\ present' = (watched \in tier) /\ taken' = (best = watched)
      /\ waits' = IF best # watched /\ watched \in tier THEN waits + 1 ELSE 0
  BY <1>8 DEF Picked
<1>10. WeightOf(tier) = Total(Weight, tier)
  BY DEF WeightOf, Total
<1>11. Total(Weight, tier) \in Int
  BY <1>2, <1>3, <1>4, TotalRemove
<1>12. currentWeights' \in [Entries -> Int]
  BY <1>4, <1>5, <1>6, <1>7, <1>8, <1>10, <1>11
<1>13. \A i \in Entries :
         currentWeights'[i] = (IF i \in tier THEN currentWeights[i] + Weight[i] ELSE currentWeights[i])
                              - (IF i = best THEN Total(Weight, tier) ELSE 0)
  BY <1>1, <1>3, <1>4, <1>5, <1>6, <1>7, <1>8, <1>10, <1>11
<1>14. IsPick(Entries, currentWeights, currentWeights', Weight, tier, best)
  BY <1>1, <1>2, <1>3, <1>4, <1>7, <1>13 DEF IsPick
<1>15. Entries' = Entries /\ MaxWeight' = MaxWeight /\ Imbalance' = Imbalance
  BY <1>9 DEF Entries, MaxWeight, Imbalance
<1>16. BalanceOK'
  <2>1. Total(currentWeights', Entries) = 0
    <3>1. Total(currentWeights', Entries)
            = Total(currentWeights, Entries) + Total(Weight, Entries \cap tier)
              - (IF best \in Entries THEN Total(Weight, tier) ELSE 0)
      BY <1>14, PickTotal
    <3>2. Entries \cap tier = tier /\ best \in Entries
      BY <1>4, <1>7
    <3>3. Total(currentWeights, Entries) = 0
      BY <1>1 DEF BalanceOK
    <3>4. Total(Weight, Entries \cap tier) = Total(Weight, tier)
      BY <3>2
    <3> QED BY <1>11, <3>1, <3>2, <3>3, <3>4
  <2>2. ASSUME NEW U \in SUBSET Entries
        PROVE  Total(currentWeights', U) <= MaxWeight * (Cardinality(U) * (n - Cardinality(U)))
    <3>1. \A i \in tier : currentWeights[i] + Weight[i] <= currentWeights[best] + Weight[best]
      BY <1>4, <1>5, <1>7
    <3>2. \A V \in SUBSET Entries : Total(currentWeights, V) <= Cap(MaxWeight, Cardinality(Entries), Cardinality(V))
      BY <1>1, <1>2 DEF BalanceOK, Cap
    <3>3. \A i \in Entries : Weight[i] <= MaxWeight
      BY <1>3
    <3>4. Total(currentWeights', U) <= Cap(MaxWeight, Cardinality(Entries), Cardinality(U))
      BY <1>3, <1>14, <3>1, <3>2, <3>3, PickBalance
    <3> QED BY <1>2, <3>4 DEF Cap
  <2>3. Size[picker'] = n
    BY <1>9
  <2> HIDE DEF n
  <2> QED BY <1>15, <2>1, <2>2, <2>3 DEF BalanceOK
<1>17. OwedOK'
  <2>1. CASE best # watched /\ watched \in tier
    <3>1. waits' = waits + 1 /\ currentWeights'[watched] = currentWeights[watched] + Weight[watched]
      BY <1>1, <1>3, <1>9, <1>13, <2>1
    <3>2. waits * Weight[watched] <= currentWeights[watched] + Imbalance
      BY <1>1 DEF OwedOK
    <3>3. Weight[watched] \in Nat /\ currentWeights[watched] \in Int
      BY <1>1, <1>3
    <3>4. (waits + 1) * Weight[watched] = waits * Weight[watched] + Weight[watched]
      BY <1>1, <3>3, TimesSuccessor
    <3>5. (waits + 1) * Weight[watched] <= currentWeights[watched] + Weight[watched] + Imbalance
      BY <1>1, <1>3, <3>2, <3>3, <3>4
    <3> QED BY <1>3, <1>9, <1>15, <3>1, <3>3, <3>5 DEF OwedOK
  <2>2. CASE ~(best # watched /\ watched \in tier)
    <3>1. waits' * Weight[watched] = 0
      BY <1>1, <1>3, <1>9, <2>2
    <3>2. /\ Total(currentWeights', Entries) = 0
          /\ \A U \in SUBSET Entries :
               Total(currentWeights', U) <= Cap(MaxWeight, Cardinality(Entries), Cardinality(U))
      BY <1>2, <1>9, <1>15, <1>16 DEF BalanceOK, Cap
    <3>3. -Imbalance <= currentWeights'[watched]
      <4>1. \A i \in Entries : currentWeights'[i] \in Int
        BY <1>12
      <4>2. -((Cardinality(Entries) - 1) * MaxWeight) <= currentWeights'[watched]
        BY <1>1, <1>2, <1>3, <3>2, <4>1, BalanceBounds
      <4> QED BY <1>2, <4>2 DEF Imbalance
    <3>4. currentWeights'[watched] \in Int
      BY <1>1, <1>12
    <3> QED BY <1>3, <1>9, <1>15, <3>1, <3>3, <3>4 DEF OwedOK
  <2> QED BY <2>1, <2>2
<1>18. TypeOK'
  <2>1. present' \in BOOLEAN /\ taken' \in BOOLEAN /\ waits' \in Nat
    BY <1>1, <1>9
  <2> QED BY <1>1, <1>8, <1>9, <1>12, <1>15, <2>1 DEF TypeOK
<1> QED BY <1>1, <1>9, <1>16, <1>17, <1>18 DEF SelectionInv

-----------------------------------------------------------------------------
(***************************************************************************)
(* Performance scheduling: the order of the probes.                        *)
(***************************************************************************)

Times == [Entries -> 0..Size[picker]]

\* To forget attempts puts nobody else first.
LEMMA ForgetOrder ==
  ASSUME picker \in Pickers, NEW last \in Times, NEW F \in SUBSET Entries
  PROVE  /\ Forget(last, F) \in Times
         /\ \A j, k \in Entries : Before(Forget(last, F), j, k) => Before(last, j, k) \/ j \in F
<1>1. Size[picker] \in Nat
  BY SizeFacts
<1>2. \A j \in Entries : last[j] \in 0..Size[picker]
  BY DEF Times
<1>3. \A j \in Entries : Forget(last, F)[j] = IF j \in F THEN 0 ELSE last[j]
  BY DEF Forget
<1>4. Forget(last, F) \in Times
  BY <1>1, <1>2 DEF Forget, Times
<1> QED BY <1>1, <1>2, <1>3, <1>4 DEF Before

\* Numbering the times again keeps their order.
LEMMA AttemptOrder ==
  ASSUME picker \in Pickers, NEW last \in Times, NEW i \in Entries
  PROVE  /\ Attempt(last, i) \in Times
         /\ \A j, k \in Entries : k # i /\ Before(Attempt(last, i), j, k) => Before(last, j, k) /\ j # i
<1> DEFINE n == Size[picker]
           time == [last EXCEPT ![i] = n + 1]
           upTo(j) == {t \in 1..time[j] : \E e \in Entries : time[e] = t}
           all == {time[e] : e \in Entries}
<1>1. n \in Nat /\ IsFiniteSet(Entries) /\ Cardinality(Entries) = n
  BY SizeFacts
<1>2. \A j \in Entries : /\ time[j] = (IF j = i THEN n + 1 ELSE last[j]) /\ time[j] \in Nat
                         /\ last[j] \in 0..n
  BY <1>1 DEF Times
<1>3. Attempt(last, i) = [j \in Entries |-> Cardinality(upTo(j))]
  BY DEF Attempt
<1>4. IsFiniteSet(all) /\ Cardinality(all) <= n
  <2> DEFINE f == [e \in Entries |-> time[e]]
  <2>1. f \in Surjection(Entries, all)
    BY DEF Surjection
  <2> HIDE DEF f, all
  <2> QED BY <1>1, <2>1, FS_Surjection
<1>5. ASSUME NEW j \in Entries
      PROVE  upTo(j) \in SUBSET all /\ IsFiniteSet(upTo(j)) /\ Cardinality(upTo(j)) \in 0..n
  <2>1. upTo(j) \in SUBSET all
    OBVIOUS
  <2>2. IsFiniteSet(upTo(j)) /\ Cardinality(upTo(j)) <= Cardinality(all)
    <3> HIDE DEF all, upTo
    <3> QED BY <1>4, <2>1, FS_Subset
  <2>3. Cardinality(upTo(j)) \in Nat /\ Cardinality(all) \in Nat
    <3> HIDE DEF all, upTo
    <3> QED BY <1>4, <2>2, FS_CardinalityType
  <2> QED BY <1>1, <1>4, <2>1, <2>2, <2>3
<1>6. Attempt(last, i) \in Times
  <2> HIDE DEF upTo
  <2> QED BY <1>3, <1>5 DEF Times
<1>7. ASSUME NEW j \in Entries, NEW k \in Entries, time[j] < time[k]
      PROVE  Cardinality(upTo(j)) < Cardinality(upTo(k))
  <2>1. upTo(j) \in SUBSET upTo(k)
    BY <1>2, <1>7
  <2>2. time[k] \in upTo(k) /\ time[k] \notin upTo(j)
    BY <1>2, <1>7
  <2>3. upTo(j) # upTo(k)
    BY <2>2
  <2>4. /\ Cardinality(upTo(j)) <= Cardinality(upTo(k))
        /\ Cardinality(upTo(k)) = Cardinality(upTo(j)) => upTo(k) = upTo(j)
    <3> HIDE DEF upTo
    <3> QED BY <1>5, <2>1, FS_Subset
  <2>5. Cardinality(upTo(j)) \in Int /\ Cardinality(upTo(k)) \in Int
    <3> HIDE DEF upTo
    <3> QED BY <1>1, <1>5
  <2> HIDE DEF upTo
  <2> QED BY <2>3, <2>4, <2>5
<1>8. ASSUME NEW j \in Entries, NEW k \in Entries, k # i, Before(Attempt(last, i), j, k)
      PROVE  Before(last, j, k) /\ j # i
  <2>1. Attempt(last, i)[j] = Cardinality(upTo(j)) /\ Attempt(last, i)[k] = Cardinality(upTo(k))
    BY <1>3
  <2>2. \/ Cardinality(upTo(j)) < Cardinality(upTo(k))
        \/ Cardinality(upTo(j)) = Cardinality(upTo(k)) /\ j < k
    BY <1>8, <2>1 DEF Before
  <2>3. Cardinality(upTo(j)) \in Int /\ Cardinality(upTo(k)) \in Int
    <3> HIDE DEF upTo
    <3> QED BY <1>1, <1>5
  <2>4. ~(time[k] < time[j])
    <3>1. ASSUME time[k] < time[j] PROVE FALSE
      <4>1. Cardinality(upTo(k)) < Cardinality(upTo(j))
        BY <1>7, <3>1
      <4> HIDE DEF upTo
      <4> QED BY <2>2, <2>3, <4>1
    <3> QED BY <3>1
  <2>5. j # i
    BY <1>1, <1>2, <1>8, <2>4
  <2>6. CASE time[j] < time[k]
    BY <1>2, <1>8, <2>5, <2>6 DEF Before
  <2>7. CASE time[j] = time[k]
    <3>1. upTo(j) = upTo(k)
      BY <2>7
    <3>2. j < k
      <4>1. Cardinality(upTo(j)) = Cardinality(upTo(k))
        BY <3>1
      <4> HIDE DEF upTo
      <4> QED BY <2>2, <2>3, <4>1
    <3> QED BY <1>2, <1>8, <2>5, <2>7, <3>2 DEF Before
  <2> QED BY <1>2, <2>4, <2>6, <2>7
<1> QED BY <1>6, <1>8

\* The key that is probed comes before every other key that is due.
LEMMA OldestOrder ==
  ASSUME picker \in Pickers, NEW last \in Times, NEW due \in SUBSET Entries, due # {}
  PROVE  /\ Oldest(due, last) \in due
         /\ \A k \in due : k # Oldest(due, last) => Before(last, Oldest(due, last), k)
<1> DEFINE first == {i \in due : \A j \in due : last[i] <= last[j]}
<1>1. IsFiniteSet(Entries) /\ Entries \subseteq Int
  BY SizeFacts DEF Entries
<1>2. \A j \in Entries : last[j] \in Int
  BY SizeFacts DEF Times
<1>3. first # {}
  BY <1>1, <1>2, LeastExists
<1>4. first \in SUBSET Entries /\ first \in SUBSET Int
  BY <1>1
<1>5. Min(first) \in first /\ \A j \in first : Min(first) <= j
  <2> HIDE DEF first
  <2>1. IsFiniteSet(first)
    BY <1>1, <1>4, FS_Subset
  <2> QED BY <1>3, <1>4, <2>1, MinOf
<1>6. Oldest(due, last) = Min(first)
  BY DEF Oldest
<1>7. ASSUME NEW k \in due, k # Min(first)
      PROVE  Before(last, Min(first), k)
  <2> DEFINE m == Min(first)
  <2>1. m \in due /\ last[m] <= last[k] /\ last[m] \in Int /\ last[k] \in Int /\ m \in Int /\ k \in Int
    BY <1>1, <1>2, <1>5
  <2>2. CASE last[m] = last[k]
    <3>1. k \in first
      BY <1>5, <2>2
    <3>2. m <= k
      BY <1>5, <3>1
    <3> HIDE DEF m
    <3> QED BY <1>7, <2>1, <2>2, <3>2 DEF Before, m
  <2>3. CASE last[m] # last[k]
    <3> HIDE DEF m
    <3> QED BY <2>1, <2>3 DEF Before, m
  <2> QED BY <2>2, <2>3
<1> QED BY <1>5, <1>6, <1>7

-----------------------------------------------------------------------------
(***************************************************************************)
(* Performance scheduling: picks, completions and changes.                 *)
(***************************************************************************)

\* Bringing a key up to date keeps its attempts in flight.
LEMMA SyncedType ==
  ASSUME NEW s \in KeyStates
  PROVE  /\ Synced(s) \in KeyStates /\ ~Synced(s).behind
         /\ Synced(s).inflight = s.inflight
BY NewKeyType DEF Synced, NewKey, KeyStates

\* A sample leaves the state of a key well formed and up to date.
LEMMA NoteSampleType ==
  ASSUME NEW s \in KeyStates, NEW success \in BOOLEAN
  PROVE  NoteSample(s, success) \in KeyStates /\ ~NoteSample(s, success).behind
<1> DEFINE z == Synced(s)
           failed == IF success THEN 0 ELSE Least(z.failed + 1, MaxFailed)
           live == Least((IF z.expires = 0 THEN 0 ELSE z.live) + 1, 2)
           explore == IF success THEN 0 ELSE Delay(failed)
<1>1. z \in KeyStates /\ ~z.behind
  BY SyncedType
<1>2. NoteSample(s, success) = [z EXCEPT !.live = live, !.expires = sampleFreshness,
                                         !.failed = failed, !.explore = explore]
  BY DEF NoteSample
<1> HIDE DEF z
<1>3. failed \in 0..MaxFailed
  BY <1>1, SelectionConstants DEF Least, KeyStates
<1>4. live \in 0..2
  BY <1>1 DEF Least, KeyStates
<1> HIDE DEF failed, live
<1>5. explore \in 0..sampleFreshness /\ sampleFreshness \in 0..sampleFreshness
  <2> DEFINE delay == 2 ^ (failed - 1)
  <2>1. Delay(failed) = IF delay \in 1..sampleFreshness THEN delay ELSE sampleFreshness
    BY DEF Delay
  <2> HIDE DEF delay
  <2> QED BY <2>1, SelectionConstants
<1> HIDE DEF explore
<1> QED BY <1>1, <1>2, <1>3, <1>4, <1>5 DEF KeyStates

\* Fewer keys are preferred, and nothing else of the wait has changed.
LEMMA FewerPreferred ==
  ASSUME picker \in Pickers, NEW P \in SUBSET Preferred
  PROVE  /\ Cardinality(P) \in Nat /\ Cardinality(Preferred) \in Nat
         /\ Cardinality(P) <= Cardinality(Preferred)
         /\ \A i \in Preferred : i \notin P => Cardinality(P) <= Cardinality(Preferred) - 1
         /\ \A i \in Entries : watched \in Entries /\ i # watched /\ i \notin P
                                 => Cardinality(P) <= Size[picker] - 2
<1>1. /\ IsFiniteSet(Entries) /\ Cardinality(Entries) = Size[picker] /\ Size[picker] \in Nat
      /\ Preferred \in SUBSET Entries
  BY SizeFacts DEF Preferred
<1>2. IsFiniteSet(Preferred) /\ Cardinality(Preferred) \in Nat
  BY <1>1, FS_Subset, FS_CardinalityType
<1>3. Cardinality(P) \in Nat /\ Cardinality(P) <= Cardinality(Preferred)
  BY <1>2, FS_Subset, FS_CardinalityType
<1>4. ASSUME NEW i \in Preferred, i \notin P
      PROVE  Cardinality(P) <= Cardinality(Preferred) - 1
  <2>1. P \in SUBSET (Preferred \ {i})
    BY <1>4
  <2>2. IsFiniteSet(Preferred \ {i}) /\ Cardinality(Preferred \ {i}) = Cardinality(Preferred) - 1
    BY <1>2, <1>4, FS_RemoveElement
  <2> QED BY <2>1, <2>2, FS_Subset
<1>5. ASSUME NEW i \in Entries, watched \in Entries, i # watched, i \notin P
      PROVE  Cardinality(P) <= Size[picker] - 2
  <2> DEFINE Q == Entries \ {watched}
  <2>1. IsFiniteSet(Q) /\ Cardinality(Q) = Size[picker] - 1
    BY <1>1, <1>5, FS_RemoveElement
  <2>2. i \in Q /\ P \in SUBSET (Q \ {i})
    BY <1>5 DEF Preferred
  <2> HIDE DEF Q
  <2>3. IsFiniteSet(Q \ {i}) /\ Cardinality(Q \ {i}) = Size[picker] - 2
    <3>1. IsFiniteSet(Q \ {i}) /\ Cardinality(Q \ {i}) = Cardinality(Q) - 1
      BY <2>1, <2>2, FS_RemoveElement
    <3> QED BY <1>1, <2>1, <3>1
  <2> QED BY <2>2, <2>3, FS_Subset
<1> QED BY <1>2, <1>3, <1>4, <1>5

\* The arithmetic of one pick: a pick without a probe pays one credit, a probe takes
\* one key away and starts the credit over.
LEMMA ProbeArith ==
  ASSUME NEW e \in Nat \ {0}, NEW n \in Nat, NEW x \in Nat, NEW c \in Nat,
         NEW p \in Nat, NEW q \in Nat, c < e, x + e * p <= (n - 2) * e + 1 + c
  PROVE  /\ q <= p => (x + 1) + e * q <= (n - 2) * e + 1 + (c + 1)
         /\ q <= p - 1 /\ c + 1 = e => (x + 1) + e * q <= (n - 2) * e + 1 + 0
<1>1. e * p \in Int /\ e * q \in Int /\ (n - 2) * e \in Int
  OBVIOUS
<1>2. q <= p => e * q <= e * p
  BY TimesMonotonic
<1>3. q <= p - 1 => e * q <= e * p - e
  <2>1. q <= p - 1 => e * q <= e * (p - 1)
    BY TimesMonotonic
  <2>2. e * (p - 1) = e * p - e
    OBVIOUS
  <2> QED BY <2>1, <2>2
<1> DEFINE ep == e * p
           eq == e * q
           m == (n - 2) * e
<1>4. /\ ep \in Int /\ eq \in Int /\ m \in Int /\ x + ep <= m + 1 + c
      /\ q <= p => eq <= ep
      /\ q <= p - 1 => eq <= ep - e
  BY <1>1, <1>2, <1>3
<1> HIDE DEF ep, eq, m
<1>5. /\ q <= p => (x + 1) + eq <= m + 1 + (c + 1)
      /\ q <= p - 1 /\ c + 1 = e => (x + 1) + eq <= m + 1 + 0
  BY <1>4
<1> QED BY <1>5 DEF ep, eq, m

\* The arithmetic of the first pick that passes a key over.
LEMMA FirstArith ==
  ASSUME NEW e \in Nat \ {0}, NEW n \in Nat, NEW q \in Nat, q <= n - 2, NEW c \in Nat
  PROVE  1 + e * q <= (n - 2) * e + 1 + c
<1>1. e * q <= e * (n - 2)
  BY TimesMonotonic
<1>2. e * (n - 2) = (n - 2) * e /\ e * q \in Int /\ (n - 2) * e \in Int
  OBVIOUS
<1> DEFINE eq == e * q
           m == (n - 2) * e
<1>3. eq <= m /\ eq \in Int /\ m \in Int
  BY <1>1, <1>2
<1> HIDE DEF eq, m
<1>4. 1 + eq <= m + 1 + c
  BY <1>3
<1> QED BY <1>4 DEF eq, m

\* A pick that passes over a key that is due leaves fewer keys before it, or one
\* credit more.
LEMMA PerformanceStep ==
  ASSUME SelectionInv, NEW S \in SUBSET Entries, S # {}, PickPerformance(S)
  PROVE  SelectionInv'
<1> DEFINE e == explorationInterval
           n == Size[picker]
           F == {i \in S : keys[i].behind}
           states == [i \in Entries |-> IF i \in S THEN Synced(keys[i]) ELSE keys[i]]
           last == Forget(lastAttempt, F)
           earned == IF credit < e THEN credit + 1 ELSE credit
           due == Due(states, S)
           probing == earned = e /\ due # {}
<1>1. /\ TypeOK /\ picker \in Pickers /\ picker = "performance" /\ ProbeOK
      /\ keys \in [Entries -> KeyStates] /\ lastAttempt \in Times
      /\ watched \in Entries /\ waits \in Nat /\ credit \in 0..e
  BY DEF SelectionInv, PickPerformance, TypeOK, Times
<1>2. n \in Nat \ {0} /\ e \in Nat \ {0}
  BY <1>1, SizeFacts, SelectionConstants
<1>3. PICK i \in IF probing THEN {Oldest(due, last)} ELSE S :
         /\ Acquire(i, states)
         /\ lastAttempt' = Attempt(last, i)
         /\ credit' = IF probing THEN 0 ELSE earned
         /\ Picked(i, S, due)
         /\ UNCHANGED currentWeights
  BY DEF PickPerformance
<1>4. due \in SUBSET S
  BY DEF Due
<1>5. /\ last \in Times
      /\ \A j, k \in Entries : Before(last, j, k) => Before(lastAttempt, j, k) \/ j \in F
  <2>1. F \in SUBSET Entries
    OBVIOUS
  <2> HIDE DEF F
  <2> QED BY <1>1, <2>1, ForgetOrder
<1>6. \A j \in Entries : /\ states[j] \in KeyStates
                         /\ j \in S => ~states[j].behind
                         /\ states[j].behind => keys[j].behind
  BY <1>1, SyncedType
<1>7. states \in [Entries -> KeyStates]
  BY <1>1, SyncedType
<1>8. earned \in 0..e /\ earned = (IF credit < e THEN credit + 1 ELSE credit)
  BY <1>1, <1>2
<1> HIDE DEF F, states, last, earned, due
<1>9. i \in S /\ (probing => i = Oldest(due, last) /\ i \in due)
  <2>1. probing => Oldest(due, last) \in due
    BY <1>1, <1>4, <1>5, OldestOrder
  <2> QED BY <1>3, <1>4, <2>1
<1>10. /\ picker' = picker /\ changes' = changes /\ watched' = watched
       /\ present' = (watched \in S) /\ taken' = (i = watched)
       /\ waits' = IF i # watched /\ watched \in due THEN waits + 1 ELSE 0
       /\ Entries' = Entries
  BY <1>3 DEF Picked, Entries
<1>11. /\ keys' = [states EXCEPT ![i].inflight = @ + 1] /\ rrIdx' = After(i)
       /\ states[i].inflight < MaxInflight
  BY <1>3 DEF Acquire
<1>12. keys' \in [Entries -> KeyStates] /\ \A j \in Entries : keys'[j].behind = states[j].behind
  BY <1>6, <1>7, <1>9, <1>11, SelectionConstants DEF KeyStates
<1>13. /\ lastAttempt' \in Times
       /\ \A j, k \in Entries : k # i /\ Before(lastAttempt', j, k) => Before(last, j, k) /\ j # i
  BY <1>1, <1>3, <1>5, <1>9, AttemptOrder
<1>14. ASSUME i # watched
       PROVE  Preferred' \in SUBSET Preferred /\ i \notin Preferred'
  <2>1. ASSUME NEW j \in Preferred'
        PROVE  j \in Preferred /\ j # i
    <3>1. /\ j \in Entries /\ j # watched
          /\ Before(lastAttempt', j, watched) \/ keys'[j].behind
      BY <1>10, <2>1 DEF Preferred
    <3>2. CASE Before(lastAttempt', j, watched)
      <4>1. Before(last, j, watched) /\ j # i
        BY <1>1, <1>13, <1>14, <3>1, <3>2
      <4>2. Before(lastAttempt, j, watched) \/ j \in F
        BY <1>1, <1>5, <3>1, <4>1
      <4> QED BY <3>1, <4>1, <4>2 DEF Preferred, F
    <3>3. CASE keys'[j].behind
      BY <1>6, <1>9, <1>12, <3>1, <3>3 DEF Preferred
    <3> QED BY <3>1, <3>2, <3>3
  <2> QED BY <2>1
<1>15. ProbeOK'
  <2>1. CASE i # watched /\ watched \in due
    <3> DEFINE p == Cardinality(Preferred)
               q == Cardinality(Preferred')
    <3>1. /\ p \in Nat /\ q \in Nat /\ q <= p /\ q <= n - 2
          /\ i \in Preferred => q <= p - 1
      BY <1>1, <1>9, <1>14, <2>1, FewerPreferred
    <3>2. probing => i \in Preferred
      <4>1. ASSUME probing PROVE i \in Preferred
        <5>1. Before(last, i, watched)
          BY <1>1, <1>4, <1>5, <1>9, <2>1, <4>1, OldestOrder
        <5>2. Before(lastAttempt, i, watched) \/ i \in F
          BY <1>1, <1>5, <1>9, <5>1
        <5> QED BY <1>9, <2>1, <5>2 DEF Preferred, F
      <4> QED BY <4>1
    <3>3. waits' = waits + 1 /\ due # {}
      BY <1>10, <2>1
    <3>4. credit' = IF earned = e THEN 0 ELSE earned
      BY <1>3, <3>3
    <3>5. credit' \in Nat /\ credit' < e
      BY <1>2, <1>8, <3>4
    <3> HIDE DEF p, q
    <3>6. waits' + e * q <= (n - 2) * e + 1 + credit'
      <4>1. CASE waits = 0
        BY <1>2, <3>1, <3>3, <3>5, <4>1, FirstArith
      <4>2. CASE waits > 0
        <5>1. credit < e /\ waits + e * p <= (n - 2) * e + 1 + credit
          BY <1>1, <4>2 DEF ProbeOK, p
        <5>2. credit \in Nat /\ earned = credit + 1
          BY <1>1, <1>2, <1>8, <5>1
        <5>3. CASE earned = e
          <6>1. q <= p - 1 /\ credit' = 0 /\ credit + 1 = e
            BY <3>1, <3>2, <3>3, <3>4, <5>2, <5>3
          <6>2. (waits + 1) + e * q <= (n - 2) * e + 1 + 0
            BY <1>1, <1>2, <3>1, <5>1, <5>2, <6>1, ProbeArith
          <6> QED BY <3>3, <6>1, <6>2
        <5>4. CASE earned # e
          <6>1. credit' = credit + 1
            BY <3>4, <5>2, <5>4
          <6>2. (waits + 1) + e * q <= (n - 2) * e + 1 + (credit + 1)
            BY <1>1, <1>2, <3>1, <5>1, <5>2, ProbeArith
          <6> QED BY <3>3, <6>1, <6>2
        <5> QED BY <5>3, <5>4
      <4> QED BY <1>1, <4>1, <4>2
    <3>7. Size[picker'] = n
      BY <1>10
    <3> HIDE DEF n
    <3> QED BY <3>5, <3>6, <3>7 DEF ProbeOK, q
  <2>2. CASE ~(i # watched /\ watched \in due)
    <3>1. waits' = 0
      BY <1>10, <2>2
    <3> QED BY <3>1 DEF ProbeOK
  <2> QED BY <2>1, <2>2
<1>16. TypeOK'
  <2>1. rrIdx' \in Entries
    BY <1>2, <1>9, <1>11 DEF After, Entries
  <2>2. present' \in BOOLEAN /\ taken' \in BOOLEAN /\ waits' \in Nat
    BY <1>1, <1>10
  <2>3. credit' \in 0..e
    BY <1>2, <1>3, <1>8
  <2>4. lastAttempt' \in [Entries' -> 0..Size[picker']]
    BY <1>10, <1>13 DEF Times
  <2> QED BY <1>1, <1>3, <1>10, <1>12, <2>1, <2>2, <2>3, <2>4 DEF TypeOK
<1> QED BY <1>1, <1>10, <1>15, <1>16 DEF SelectionInv

\* A step that prefers no further key and leaves the credit keeps the bound.
LEMMA KeepsProbe ==
  ASSUME ProbeOK, picker \in Pickers, waits \in Nat, credit \in 0..explorationInterval,
         Preferred' \in SUBSET Preferred, UNCHANGED <<picker, credit, waits>>
  PROVE  ProbeOK'
<1> DEFINE e == explorationInterval
           p == Cardinality(Preferred)
           q == Cardinality(Preferred')
           m == (Size[picker] - 2) * e
<1>1. p \in Nat /\ q \in Nat /\ q <= p
  BY FewerPreferred
<1>2. e \in Nat \ {0} /\ Size[picker] \in Nat
  BY SelectionConstants, SizeFacts
<1>3. m \in Int
  BY <1>2
<1>4. waits > 0 => credit < e /\ waits + e * p <= m + 1 + credit
  BY DEF ProbeOK
<1> HIDE DEF p, q, m
<1>5. e * q <= e * p /\ e * q \in Int /\ e * p \in Int
  BY <1>1, <1>2, TimesMonotonic
<1>6. waits > 0 => credit < e /\ waits + e * q <= m + 1 + credit
  BY <1>2, <1>3, <1>4, <1>5
<1> QED BY <1>6 DEF ProbeOK, q, m

\* A completion that finds new statistics brings the key up to date and lets it be
\* probed again; that takes no key out of turn.
LEMMA CompleteStep ==
  ASSUME SelectionInv, NEW i \in Entries, NEW outcome \in {"success", "failure", "interrupted"},
         CompleteAttempt(i, outcome)
  PROVE  SelectionInv'
<1> DEFINE s == [keys[i] EXCEPT !.inflight = @ - 1]
           z == IF outcome = "interrupted" THEN s ELSE NoteSample(s, outcome = "success")
           F == IF outcome # "interrupted" /\ keys[i].behind THEN {i} ELSE {}
<1>1. /\ TypeOK /\ picker \in Pickers
      /\ keys \in [Entries -> KeyStates] /\ lastAttempt \in Times /\ watched \in Entries
  BY DEF SelectionInv, TypeOK, Times
<1>2. /\ keys' = [keys EXCEPT ![i] = z] /\ keys[i].inflight > 0
      /\ UNCHANGED <<picker, rrIdx, currentWeights, credit, changes, watched, present, taken, waits>>
  BY DEF CompleteAttempt, history
<1>3. lastAttempt' = IF outcome # "interrupted" /\ keys[i].behind THEN Forget(lastAttempt, {i}) ELSE lastAttempt
  BY DEF CompleteAttempt
<1>4. s \in KeyStates /\ s.behind = keys[i].behind
  BY <1>1, <1>2, SelectionConstants DEF KeyStates
<1> HIDE DEF s
<1>5. /\ z \in KeyStates
      /\ z.behind => keys[i].behind
  BY <1>4, NoteSampleType
<1> HIDE DEF z
<1>6. Entries' = Entries
  BY <1>2 DEF Entries
<1>7. keys' \in [Entries -> KeyStates] /\ \A j \in Entries : keys'[j].behind => keys[j].behind
  BY <1>1, <1>2, <1>5
<1>8. /\ lastAttempt' \in Times
      /\ \A j, k \in Entries : Before(lastAttempt', j, k) => Before(lastAttempt, j, k) \/ keys[j].behind
  <2>1. CASE outcome # "interrupted" /\ keys[i].behind
    <3>1. {i} \in SUBSET Entries /\ lastAttempt' = Forget(lastAttempt, {i})
      BY <1>3, <2>1
    <3>2. /\ Forget(lastAttempt, {i}) \in Times
          /\ \A j, k \in Entries :
               Before(Forget(lastAttempt, {i}), j, k) => Before(lastAttempt, j, k) \/ j \in {i}
      BY <1>1, <3>1, ForgetOrder
    <3> QED BY <2>1, <3>1, <3>2
  <2>2. CASE ~(outcome # "interrupted" /\ keys[i].behind)
    BY <1>1, <1>3, <2>2
  <2> QED BY <2>1, <2>2
<1>9. TypeOK'
  <2>1. lastAttempt' \in [Entries' -> 0..Size[picker']]
    BY <1>2, <1>6, <1>8 DEF Times
  <2> QED BY <1>1, <1>2, <1>6, <1>7, <2>1 DEF TypeOK
<1>10. CASE picker = "weighted"
  <2>1. BalanceOK' /\ OwedOK'
    BY <1>2, <1>6, <1>10 DEF SelectionInv, BalanceOK, OwedOK, Imbalance, MaxWeight
  <2> QED BY <1>2, <1>9, <1>10, <2>1 DEF SelectionInv
<1>11. CASE picker = "round_robin"
  BY <1>2, <1>9, <1>11 DEF SelectionInv, TurnOK, Distance
<1>12. CASE picker = "performance"
  <2>1. ProbeOK'
    <3>1. Preferred' \in SUBSET Preferred
      BY <1>1, <1>2, <1>6, <1>7, <1>8 DEF Preferred
    <3>2. ProbeOK
      BY <1>12 DEF SelectionInv
    <3> QED BY <1>1, <1>2, <3>1, <3>2, KeepsProbe DEF TypeOK
  <2> QED BY <1>2, <1>9, <1>12, <2>1 DEF SelectionInv
<1> QED BY <1>1, <1>10, <1>11, <1>12, SelectionConstants

\* Time does not change whose turn it is.
LEMMA TickStep ==
  ASSUME SelectionInv, Tick
  PROVE  SelectionInv'
<1>1. /\ TypeOK /\ picker \in Pickers
      /\ keys \in [Entries -> KeyStates] /\ watched \in Entries
  BY DEF SelectionInv, TypeOK
<1>2. /\ keys' = [i \in Entries |-> [keys[i] EXCEPT !.expires = IF @ = 0 THEN 0 ELSE @ - 1,
                                                    !.explore = IF @ = 0 THEN 0 ELSE @ - 1]]
      /\ UNCHANGED <<picker, rrIdx, currentWeights, credit, lastAttempt, changes,
                     watched, present, taken, waits>>
  BY DEF Tick, history
<1>3. Entries' = Entries
  BY <1>2 DEF Entries
<1>4. keys' \in [Entries -> KeyStates] /\ \A j \in Entries : keys'[j].behind = keys[j].behind
  <2>1. ASSUME NEW j \in Entries
        PROVE  keys'[j] \in KeyStates /\ keys'[j].behind = keys[j].behind
    <3> DEFINE k == keys[j]
               x == IF k.expires = 0 THEN 0 ELSE k.expires - 1
               y == IF k.explore = 0 THEN 0 ELSE k.explore - 1
    <3>1. k \in KeyStates
      BY <1>1
    <3>2. keys'[j] = [k EXCEPT !.expires = x, !.explore = y]
      BY <1>2
    <3> HIDE DEF k
    <3>3. x \in 0..sampleFreshness /\ y \in 0..sampleFreshness
      BY <3>1, SelectionConstants DEF KeyStates
    <3> HIDE DEF x, y
    <3>4. [k EXCEPT !.expires = x, !.explore = y] \in KeyStates
      BY <3>1, <3>3 DEF KeyStates
    <3>5. keys'[j].behind = k.behind
      BY <3>1, <3>2 DEF KeyStates
    <3> QED BY <3>2, <3>4, <3>5 DEF k
  <2>2. keys' = [j \in Entries |-> keys'[j]]
    BY <1>2
  <2> QED BY <2>1, <2>2
<1>5. TypeOK'
  BY <1>1, <1>2, <1>3, <1>4 DEF TypeOK
<1>6. CASE picker = "weighted"
  <2>1. BalanceOK' /\ OwedOK'
    BY <1>2, <1>3, <1>6 DEF SelectionInv, BalanceOK, OwedOK, Imbalance, MaxWeight
  <2> QED BY <1>2, <1>5, <1>6, <2>1 DEF SelectionInv
<1>7. CASE picker = "round_robin"
  BY <1>2, <1>5, <1>7 DEF SelectionInv, TurnOK, Distance
<1>8. CASE picker = "performance"
  <2>1. Preferred' \in SUBSET Preferred
    BY <1>2, <1>3, <1>4 DEF Preferred
  <2>2. ProbeOK
    BY <1>8 DEF SelectionInv
  <2>3. ProbeOK'
    BY <1>1, <1>2, <2>1, <2>2, KeepsProbe DEF TypeOK
  <2> QED BY <1>2, <1>5, <1>8, <2>3 DEF SelectionInv
<1> QED BY <1>1, <1>6, <1>7, <1>8, SelectionConstants

\* After a reset of the statistics every wait starts over.
LEMMA ResetStep ==
  ASSUME SelectionInv, ResetRuntimeStats
  PROVE  SelectionInv'
<1>1. TypeOK /\ keys \in [Entries -> KeyStates]
  BY DEF SelectionInv, TypeOK
<1>2. /\ keys' = [i \in Entries |-> [keys[i] EXCEPT !.behind = TRUE]] /\ waits' = 0
      /\ changes' = changes + 1 /\ changes < MaxChanges /\ picker = "performance"
      /\ UNCHANGED <<picker, rrIdx, currentWeights, credit, lastAttempt, watched, present, taken>>
  BY DEF ResetRuntimeStats
<1>3. Entries' = Entries
  BY <1>2 DEF Entries
<1>4. keys' \in [Entries -> KeyStates]
  BY <1>1, <1>2 DEF KeyStates
<1>5. changes' \in 0..MaxChanges
  BY <1>1, <1>2, SelectionConstants DEF TypeOK
<1>6. TypeOK'
  BY <1>1, <1>2, <1>3, <1>4, <1>5 DEF TypeOK
<1>7. ProbeOK'
  BY <1>2 DEF ProbeOK
<1> QED BY <1>2, <1>6, <1>7 DEF SelectionInv

\* A new router starts rotation and weights over, and leaves the probes alone.
LEMMA RebuildStep ==
  ASSUME SelectionInv, Rebuild
  PROVE  SelectionInv'
<1>1. TypeOK /\ picker \in Pickers /\ watched \in Entries
  BY DEF SelectionInv, TypeOK
<1>2. /\ rrIdx' = 1 /\ currentWeights' = [i \in Entries |-> 0]
      /\ waits' = (IF picker = "performance" THEN waits ELSE 0)
      /\ changes' = changes + 1 /\ changes < MaxChanges
      /\ UNCHANGED <<picker, credit, keys, lastAttempt, watched, present, taken>>
  BY DEF Rebuild
<1>3. Entries' = Entries /\ 1 \in Entries
  BY <1>1, <1>2, SizeFacts DEF Entries
<1>4. changes' \in 0..MaxChanges
  BY <1>1, <1>2, SelectionConstants DEF TypeOK
<1>5. TypeOK'
  <2>1. currentWeights' \in [Entries -> Int]
    BY <1>2
  <2>2. waits' \in Nat
    BY <1>1, <1>2 DEF TypeOK
  <2> QED BY <1>1, <1>2, <1>3, <1>4, <2>1, <2>2 DEF TypeOK
<1>6. CASE picker = "weighted"
  <2>1. MaxWeight' = MaxWeight /\ Imbalance' = Imbalance /\ Size[picker'] = Size[picker]
    BY <1>2, <1>3 DEF MaxWeight, Imbalance
  <2>2. BalanceOK'
    <3>1. /\ Total(currentWeights', Entries) = 0
          /\ \A U \in SUBSET Entries :
               Total(currentWeights', U) <= MaxWeight * (Cardinality(U) * (Size[picker] - Cardinality(U)))
      BY <1>1, <1>2, <1>6, ZeroBalance
    <3> QED BY <1>3, <2>1, <3>1 DEF BalanceOK
  <2>3. OwedOK'
    <3>1. Weight[watched] \in Nat /\ Imbalance \in Nat
      BY <1>1, <1>6, WeightFacts
    <3>2. waits' = 0 /\ currentWeights'[watched] = 0
      BY <1>1, <1>2, <1>6
    <3> QED BY <1>2, <2>1, <3>1, <3>2 DEF OwedOK
  <2> QED BY <1>2, <1>5, <1>6, <2>2, <2>3 DEF SelectionInv
<1>7. CASE picker = "round_robin"
  <2> DEFINE n == Size[picker]
  <2>1. n \in Nat \ {0} /\ watched \in 1..n /\ 1 \in 1..n
    BY <1>1, SizeFacts DEF Entries
  <2>2. (watched - 1 + n) % n = IF 1 <= watched THEN watched - 1 ELSE watched - 1 + n
    BY <2>1, Remainder
  <2>3. waits' = 0 /\ Distance(watched)' = (watched - 1 + n) % n
    BY <1>2, <1>7 DEF Distance
  <2>4. TurnOK'
    BY <1>2, <2>1, <2>2, <2>3 DEF TurnOK
  <2> QED BY <1>2, <1>5, <1>7, <2>4 DEF SelectionInv
<1>8. CASE picker = "performance"
  <2>1. Preferred' = Preferred
    BY <1>2, <1>3 DEF Preferred
  <2>2. ProbeOK'
    BY <1>2, <1>8, <2>1 DEF SelectionInv, ProbeOK
  <2> QED BY <1>2, <1>5, <1>8, <2>2 DEF SelectionInv
<1> QED BY <1>1, <1>6, <1>7, <1>8, SelectionConstants

-----------------------------------------------------------------------------
(***************************************************************************)
(* The theorems.                                                           *)
(***************************************************************************)

\* Every step keeps the invariant.
LEMMA InvInductive == SelectionInv /\ [Next]_vars => SelectionInv'
<1> SUFFICES ASSUME SelectionInv, [Next]_vars PROVE SelectionInv'
  OBVIOUS
<1>1. CASE Pick
  <2>1. PICK S \in (SUBSET Entries) \ {{}} : PickWeighted(S) \/ PickRoundRobin(S) \/ PickPerformance(S)
    BY <1>1 DEF Pick
  <2>2. S \in SUBSET Entries /\ S # {}
    OBVIOUS
  <2> QED BY <2>1, <2>2, WeightedStep, RoundRobinStep, PerformanceStep
<1>2. CASE \E i \in Entries : Ends(i)
  BY <1>2, CompleteStep DEF Ends
<1>3. CASE Tick
  BY <1>3, TickStep
<1>4. CASE ResetRuntimeStats
  BY <1>4, ResetStep
<1>5. CASE Rebuild
  BY <1>5, RebuildStep
<1>6. CASE UNCHANGED vars
  <2>1. TypeOK' = TypeOK
    BY <1>6 DEF vars, TypeOK, Entries
  <2>2. BalanceOK' = BalanceOK /\ OwedOK' = OwedOK
    BY <1>6 DEF vars, BalanceOK, OwedOK, Imbalance, MaxWeight, Entries
  <2>3. TurnOK' = TurnOK /\ ProbeOK' = ProbeOK
    BY <1>6 DEF vars, TurnOK, ProbeOK, Preferred, Distance, Entries
  <2> QED BY <1>6, <2>1, <2>2, <2>3 DEF vars, SelectionInv
<1> QED BY <1>1, <1>2, <1>3, <1>4, <1>5, <1>6 DEF Next

\* The invariant bounds every wait, and what a child has saved up or owes.
LEMMA InvBounds == SelectionInv => BoundedUnfairness
<1> SUFFICES ASSUME SelectionInv PROVE BoundedUnfairness
  OBVIOUS
<1> DEFINE n == Size[picker]
<1>1. /\ TypeOK /\ picker \in Pickers /\ watched \in Entries /\ waits \in Nat
      /\ currentWeights \in [Entries -> Int] /\ rrIdx \in Entries
      /\ lastAttempt \in Times
  BY DEF SelectionInv, TypeOK, Times
<1>2. n \in Nat \ {0} /\ IsFiniteSet(Entries) /\ Cardinality(Entries) = n
  BY <1>1, SizeFacts
<1>3. CASE picker = "weighted"
  <2>1. MaxWeight \in Nat /\ Imbalance \in Nat /\ Weight[watched] \in Nat
    BY <1>1, <1>3, WeightFacts
  <2>2. ASSUME NEW i \in Entries
        PROVE  currentWeights[i] <= Imbalance /\ -Imbalance <= currentWeights[i] /\ currentWeights[i] \in Int
    <3>1. /\ Total(currentWeights, Entries) = 0
          /\ \A U \in SUBSET Entries :
               Total(currentWeights, U) <= Cap(MaxWeight, Cardinality(Entries), Cardinality(U))
      BY <1>2, <1>3 DEF SelectionInv, BalanceOK, Cap
    <3>2. \A j \in Entries : currentWeights[j] \in Int
      BY <1>1
    <3>3. /\ currentWeights[i] <= (Cardinality(Entries) - 1) * MaxWeight
          /\ -((Cardinality(Entries) - 1) * MaxWeight) <= currentWeights[i]
      BY <1>2, <2>1, <3>1, <3>2, BalanceBounds
    <3> QED BY <1>2, <3>2, <3>3 DEF Imbalance
  <2>3. waits * Weight[watched] <= 2 * Imbalance
    <3>1. waits * Weight[watched] <= currentWeights[watched] + Imbalance
      BY <1>3 DEF SelectionInv, OwedOK
    <3>2. currentWeights[watched] <= Imbalance /\ currentWeights[watched] \in Int
      BY <1>1, <2>2
    <3>3. waits * Weight[watched] \in Int
      BY <1>1, <2>1
    <3> QED BY <2>1, <3>1, <3>2, <3>3
  <2>4. \A i \in Entries : currentWeights[i] \in -Imbalance .. Imbalance
    BY <2>1, <2>2
  <2> QED BY <1>3, <2>3, <2>4 DEF BoundedUnfairness
<1>4. CASE picker = "round_robin"
  <2>1. Distance(watched) \in 0 .. n - 1
    BY <1>1, DistanceFacts
  <2>2. waits + Distance(watched) <= n - 1
    BY <1>4 DEF SelectionInv, TurnOK
  <2>3. waits <= n - 1
    BY <1>1, <1>2, <2>1, <2>2
  <2> QED BY <1>4, <2>3 DEF BoundedUnfairness
<1>5. CASE picker = "performance"
  <2> DEFINE e == explorationInterval
  <2>1. waits <= (n - 1) * e
    <3>1. e \in Nat \ {0}
      BY SelectionConstants
    <3>2. (n - 1) * e = (n - 2) * e + e /\ (n - 2) * e \in Int /\ 0 <= (n - 1) * e
      <4> HIDE DEF n, e
      <4>1. n - 1 \in Nat
        BY <1>2
      <4>2. (n - 1) * e \in Nat
        BY <3>1, <4>1
      <4> QED BY <1>2, <3>1, <4>2
    <3>3. CASE waits = 0
      BY <1>2, <3>2, <3>3
    <3>4. CASE waits > 0
      <4> DEFINE p == Cardinality(Preferred)
      <4>1. credit < e /\ waits + e * p <= (n - 2) * e + 1 + credit
        BY <1>5, <3>4 DEF SelectionInv, ProbeOK
      <4>2. p \in Nat /\ credit \in Int
        BY <1>1, <3>1, FewerPreferred DEF TypeOK
      <4> HIDE DEF p, n, e
      <4>3. e * p \in Nat
        BY <3>1, <4>2
      <4> QED BY <1>1, <3>1, <3>2, <4>1, <4>2, <4>3
    <3> QED BY <1>1, <3>3, <3>4
  <2> QED BY <1>5, <2>1 DEF BoundedUnfairness
<1> QED BY <1>1, <1>3, <1>4, <1>5, SelectionConstants

\* The types of the state of a pool.
THEOREM SelectionTypeCorrect == Spec => []TypeOK
<1>1. SelectionInv => TypeOK
  BY DEF SelectionInv
<1> QED BY <1>1, InitInv, InvInductive, PTL DEF Spec

\* However candidates change, nobody who could claim every pick is passed over more
\* often than the bound, and no child of an aggregate saves up or owes more.
THEOREM UnfairnessCorrect == Spec => []BoundedUnfairness
BY InitInv, InvInductive, InvBounds, PTL DEF Spec
=============================================================================
