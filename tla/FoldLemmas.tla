----------------------------- MODULE FoldLemmas -----------------------------
(***************************************************************************)
(* What a proof needs to know about the folds of the community modules:    *)
(* the sum SumFunctionOnSet of a function over a finite set, and FoldLeft  *)
(* along a list that keeps the best element so far.                        *)
(*                                                                         *)
(* Both are defined by recursion over the subsets of a set.  The induction *)
(* theorems of the library take an operator as a parameter; here a         *)
(* counterexample of least size is taken instead, which exists because the *)
(* strict subsets of a finite set are well-founded (WFMin).                *)
(***************************************************************************)
EXTENDS Integers, FiniteSets, Functions, WellFoundedInduction, FiniteSetTheorems, TLAPS

\* A set of subsets of a finite set has one without smaller ones.
LEMMA SmallestSubset ==
  ASSUME NEW S, IsFiniteSet(S), NEW Z \in SUBSET SUBSET S, Z # {}
  PROVE  \E s \in Z : \A t \in SUBSET s : t # s => t \notin Z
<1>1. IsWellFoundedOn(StrictSubsetOrdering(S), SUBSET S)
  BY FS_StrictSubsetOrderingWellFounded, FS_FiniteSubsetsOfFinite
<1>2. PICK s \in Z : \A t \in Z : <<t, s>> \notin StrictSubsetOrdering(S)
  BY <1>1, WFMin
<1>3. ASSUME NEW t \in SUBSET s, t # s, t \in Z PROVE FALSE
  BY <1>2, <1>3 DEF StrictSubsetOrdering
<1> QED
  BY <1>2, <1>3

-----------------------------------------------------------------------------
\* One unfolding of the recursion, g being the sums of smaller sets.
SumStep(f, g, s) ==
  IF s = {} THEN 0 ELSE f[CHOOSE x \in s : TRUE] + g[s \ {CHOOSE x \in s : TRUE}]

\* g is the table of the sums of f over the subsets of S.
Sums(f, g, S) == g = [s \in SUBSET S |-> SumStep(f, g, s)]

\* The definition of the community modules, as a table of sums.
LEMMA Unfold == \A f, S : SumFunctionOnSet(f, S) = (CHOOSE g : Sums(f, g, S))[S]
  BY DEF SumFunctionOnSet, FoldFunctionOnSet, MapThenFoldSet, Sums, SumStep

\* Two tables agree where both are defined.
LEMMA OneSum ==
  ASSUME NEW f, NEW A, IsFiniteSet(A), NEW B, NEW g, NEW h, Sums(f, g, A), Sums(f, h, B)
  PROVE  \A s \in SUBSET (A \cap B) : g[s] = h[s]
<1> DEFINE Z == {s \in SUBSET (A \cap B) : g[s] # h[s]}
<1> SUFFICES ASSUME Z # {} PROVE FALSE
  OBVIOUS
<1>1. IsFiniteSet(A \cap B)
  BY FS_Subset
<1>2. PICK s \in Z : \A t \in SUBSET s : t # s => t \notin Z
  <2>1. Z \in SUBSET SUBSET (A \cap B)
    OBVIOUS
  <2> HIDE DEF Z
  <2> QED
    BY <1>1, <2>1, SmallestSubset
<1>3. g[s] = SumStep(f, g, s) /\ h[s] = SumStep(f, h, s)
  BY DEF Sums
<1>4. s # {}
  BY <1>3 DEF SumStep
<1> DEFINE r == s \ {CHOOSE x \in s : TRUE}
<1>5. r \in SUBSET (A \cap B) /\ r # s
  BY <1>4
<1>6. g[r] = h[r]
  BY <1>2, <1>5
<1> QED
  BY <1>2, <1>3, <1>6 DEF SumStep

\* A finite set has a table.
LEMMA SumExists ==
  ASSUME NEW f, NEW S, IsFiniteSet(S)
  PROVE  \E g : Sums(f, g, S)
<1> DEFINE Z == {s \in SUBSET S : ~ \E g : Sums(f, g, s)}
<1> SUFFICES ASSUME Z # {} PROVE FALSE
  OBVIOUS
<1>1. PICK s \in Z : \A t \in SUBSET s : t # s => t \notin Z
  <2>1. Z \in SUBSET SUBSET S
    OBVIOUS
  <2> HIDE DEF Z
  <2> QED
    BY <2>1, SmallestSubset
<1> DEFINE G(t) == CHOOSE g : Sums(f, g, t)
           r == s \ {CHOOSE x \in s : TRUE}
           last == IF s = {} THEN 0 ELSE f[CHOOSE x \in s : TRUE] + G(r)[r]
           h == [t \in SUBSET s |-> IF t = s THEN last ELSE G(t)[t]]
<1>2. ASSUME NEW t \in SUBSET s, t # s PROVE Sums(f, G(t), t) /\ IsFiniteSet(t)
  BY <1>1, <1>2, FS_Subset
<1> HIDE DEF G
<1>3. ASSUME NEW t \in SUBSET s PROVE h[t] = SumStep(f, h, t)
  <2> DEFINE q == t \ {CHOOSE x \in t : TRUE}
  <2>1. CASE t = {}
    <3>1. CASE s = {}
      BY <2>1, <3>1 DEF SumStep
    <3>2. CASE s # {}
      <4>1. Sums(f, G(t), t)
        BY <1>2, <2>1, <3>2
      <4> QED
        BY <2>1, <3>2, <4>1 DEF Sums, SumStep
    <3> QED
      BY <3>1, <3>2
  <2>2. CASE t # {}
    <3>1. q \in SUBSET s /\ q # s /\ q \in SUBSET t /\ h[q] = G(q)[q]
      BY <2>2
    <3>2. CASE t = s
      BY <2>2, <3>1, <3>2 DEF SumStep
    <3>3. CASE t # s
      <4>1. G(t)[t] = SumStep(f, G(t), t)
        BY <1>2, <3>3 DEF Sums
      <4>2. G(t)[q] = G(q)[q]
        <5>1. Sums(f, G(t), t) /\ IsFiniteSet(t) /\ Sums(f, G(q), q) /\ q \in SUBSET (t \cap q)
          BY <1>2, <3>1, <3>3
        <5> HIDE DEF q
        <5> QED
          BY <5>1, OneSum
      <4> QED
        BY <2>2, <3>1, <3>3, <4>1, <4>2 DEF SumStep
    <3> QED
      BY <3>2, <3>3
  <2> QED
    BY <2>1, <2>2
<1>4. h = [t \in SUBSET s |-> h[t]]
  OBVIOUS
<1> HIDE DEF h
<1>5. Sums(f, h, s)
  BY <1>3, <1>4, Zenon DEF Sums
<1> QED
  BY <1>1, <1>5

\* The sum over any subset can be read from the table of the set.
LEMMA SumIsSum ==
  ASSUME NEW f, NEW S, IsFiniteSet(S)
  PROVE  \E g : Sums(f, g, S) /\ \A T \in SUBSET S : SumFunctionOnSet(f, T) = g[T]
<1> DEFINE g == CHOOSE g : Sums(f, g, S)
<1>1. Sums(f, g, S)
  BY SumExists
<1> HIDE DEF g
<1>2. ASSUME NEW T \in SUBSET S PROVE SumFunctionOnSet(f, T) = g[T]
  <2> DEFINE h == CHOOSE h : Sums(f, h, T)
  <2>1. IsFiniteSet(T) /\ T \in SUBSET (T \cap S)
    BY FS_Subset
  <2>2. Sums(f, h, T)
    BY <2>1, SumExists
  <2>3. SumFunctionOnSet(f, T) = h[T]
    BY Unfold
  <2> HIDE DEF h
  <2> QED
    BY <1>1, <2>1, <2>2, <2>3, OneSum
<1> QED
  BY <1>1, <1>2

\* The recursion equation of the definition.
LEMMA SumEquation ==
  ASSUME NEW f, NEW S, IsFiniteSet(S)
  PROVE  \A T \in SUBSET S :
           SumFunctionOnSet(f, T) =
             IF T = {} THEN 0
             ELSE f[CHOOSE x \in T : TRUE] + SumFunctionOnSet(f, T \ {CHOOSE x \in T : TRUE})
<1>1. PICK g : Sums(f, g, S) /\ \A T \in SUBSET S : SumFunctionOnSet(f, T) = g[T]
  BY SumIsSum
<1> QED
  BY <1>1 DEF Sums, SumStep

\* The empty sum.
LEMMA SumOfNone ==
  ASSUME NEW f
  PROVE  SumFunctionOnSet(f, {}) = 0
  BY SumEquation, FS_EmptySet

\* Sums of integers are integers.
LEMMA SumIsInt ==
  ASSUME NEW S, IsFiniteSet(S), NEW f, \A x \in S : f[x] \in Int
  PROVE  \A T \in SUBSET S : SumFunctionOnSet(f, T) \in Int
<1> DEFINE Z == {T \in SUBSET S : SumFunctionOnSet(f, T) \notin Int}
<1> SUFFICES ASSUME Z # {} PROVE FALSE
  OBVIOUS
<1>1. PICK T \in Z : \A U \in SUBSET T : U # T => U \notin Z
  <2>1. Z \in SUBSET SUBSET S
    OBVIOUS
  <2> HIDE DEF Z
  <2> QED
    BY <2>1, SmallestSubset
<1> DEFINE y == CHOOSE x \in T : TRUE
<1>2. SumFunctionOnSet(f, T) = IF T = {} THEN 0 ELSE f[y] + SumFunctionOnSet(f, T \ {y})
  BY SumEquation
<1>3. T # {} => y \in T
  OBVIOUS
<1> HIDE DEF y
<1> QED
  BY <1>1, <1>2, <1>3

\* Any element may be taken out first.
LEMMA SumWithout ==
  ASSUME NEW S, IsFiniteSet(S), NEW f, \A x \in S : f[x] \in Int
  PROVE  \A T \in SUBSET S : \A x \in T : SumFunctionOnSet(f, T) = f[x] + SumFunctionOnSet(f, T \ {x})
<1> DEFINE Z == {T \in SUBSET S : \E x \in T : SumFunctionOnSet(f, T) # f[x] + SumFunctionOnSet(f, T \ {x})}
<1> SUFFICES ASSUME Z # {} PROVE FALSE
  OBVIOUS
<1>1. PICK T \in Z : \A U \in SUBSET T : U # T => U \notin Z
  <2>1. Z \in SUBSET SUBSET S
    OBVIOUS
  <2> HIDE DEF Z
  <2> QED
    BY <2>1, SmallestSubset
<1>2. PICK x \in T : SumFunctionOnSet(f, T) # f[x] + SumFunctionOnSet(f, T \ {x})
  OBVIOUS
<1> DEFINE y == CHOOSE z \in T : TRUE
<1>3. y \in T /\ SumFunctionOnSet(f, T) = f[y] + SumFunctionOnSet(f, T \ {y})
  BY SumEquation
<1> HIDE DEF y
<1>4. x # y
  BY <1>2, <1>3
<1> DEFINE rest == SumFunctionOnSet(f, (T \ {y}) \ {x})
<1>5. T \ {y} \notin Z /\ T \ {x} \notin Z /\ (T \ {x}) \ {y} = (T \ {y}) \ {x}
  BY <1>1, <1>2, <1>3
<1>6. SumFunctionOnSet(f, T \ {y}) = f[x] + rest /\ SumFunctionOnSet(f, T \ {x}) = f[y] + rest
  BY <1>3, <1>4, <1>5
<1>7. rest \in Int /\ f[x] \in Int /\ f[y] \in Int
  BY <1>3, SumIsInt
<1> HIDE DEF Z, rest
<1> QED
  BY <1>2, <1>3, <1>6, <1>7

\* Sums depend on the terms alone.
LEMMA SumsAgree ==
  ASSUME NEW S, IsFiniteSet(S), NEW f, NEW g, \A x \in S : f[x] = g[x]
  PROVE  \A T \in SUBSET S : SumFunctionOnSet(f, T) = SumFunctionOnSet(g, T)
<1> DEFINE Z == {T \in SUBSET S : SumFunctionOnSet(f, T) # SumFunctionOnSet(g, T)}
<1> SUFFICES ASSUME Z # {} PROVE FALSE
  OBVIOUS
<1>1. PICK T \in Z : \A U \in SUBSET T : U # T => U \notin Z
  <2>1. Z \in SUBSET SUBSET S
    OBVIOUS
  <2> HIDE DEF Z
  <2> QED
    BY <2>1, SmallestSubset
<1> DEFINE y == CHOOSE x \in T : TRUE
<1>2. /\ SumFunctionOnSet(f, T) = IF T = {} THEN 0 ELSE f[y] + SumFunctionOnSet(f, T \ {y})
      /\ SumFunctionOnSet(g, T) = IF T = {} THEN 0 ELSE g[y] + SumFunctionOnSet(g, T \ {y})
  BY SumEquation
<1>3. T # {} => y \in T
  OBVIOUS
<1> HIDE DEF y
<1> QED
  BY <1>1, <1>2, <1>3

-----------------------------------------------------------------------------
\* The three facts as they are used: about one finite set of terms.
LEMMA SumTyped ==
  ASSUME NEW T, IsFiniteSet(T), NEW f, \A x \in T : f[x] \in Int
  PROVE  SumFunctionOnSet(f, T) \in Int
  BY SumIsInt

\* Sums of natural numbers are natural numbers.
LEMMA SumIsNat ==
  ASSUME NEW S, IsFiniteSet(S), NEW f, \A x \in S : f[x] \in Nat
  PROVE  SumFunctionOnSet(f, S) \in Nat
<1> DEFINE Z == {T \in SUBSET S : SumFunctionOnSet(f, T) \notin Nat}
<1> SUFFICES ASSUME Z # {} PROVE FALSE
  OBVIOUS
<1>1. PICK T \in Z : \A U \in SUBSET T : U # T => U \notin Z
  <2>1. Z \in SUBSET SUBSET S
    OBVIOUS
  <2> HIDE DEF Z
  <2> QED
    BY <2>1, SmallestSubset
<1> DEFINE y == CHOOSE x \in T : TRUE
<1>2. SumFunctionOnSet(f, T) = IF T = {} THEN 0 ELSE f[y] + SumFunctionOnSet(f, T \ {y})
  BY SumEquation
<1>3. T # {} => y \in T
  OBVIOUS
<1> HIDE DEF y
<1> QED
  BY <1>1, <1>2, <1>3

\* Any one element may be taken out of a sum of integers.
LEMMA SumTakeOut ==
  ASSUME NEW T, IsFiniteSet(T), NEW f, \A x \in T : f[x] \in Int
  PROVE  \A x \in T : /\ SumFunctionOnSet(f, T) = f[x] + SumFunctionOnSet(f, T \ {x})
                      /\ SumFunctionOnSet(f, T \ {x}) \in Int
<1>1. \A x \in T : SumFunctionOnSet(f, T) = f[x] + SumFunctionOnSet(f, T \ {x})
  BY SumWithout
<1>2. \A x \in T : SumFunctionOnSet(f, T \ {x}) \in Int
  <2>1. \A U \in SUBSET T : SumFunctionOnSet(f, U) \in Int
    BY SumIsInt
  <2> QED
    BY <2>1
<1> QED
  BY <1>1, <1>2

\* Equal summands, equal sums.
LEMMA SumSame ==
  ASSUME NEW T, IsFiniteSet(T), NEW f, NEW g, \A x \in T : f[x] = g[x]
  PROVE  SumFunctionOnSet(f, T) = SumFunctionOnSet(g, T)
  BY SumsAgree

\* A sum of nothing but zeros.
LEMMA SumOfZeros ==
  ASSUME NEW S, IsFiniteSet(S), NEW f, \A x \in S : f[x] = 0
  PROVE  SumFunctionOnSet(f, S) = 0
<1> DEFINE Z == {T \in SUBSET S : SumFunctionOnSet(f, T) # 0}
<1> SUFFICES ASSUME Z # {} PROVE FALSE
  OBVIOUS
<1>1. PICK T \in Z : \A U \in SUBSET T : U # T => U \notin Z
  <2>1. Z \in SUBSET SUBSET S
    OBVIOUS
  <2> HIDE DEF Z
  <2> QED
    BY <2>1, SmallestSubset
<1> DEFINE y == CHOOSE x \in T : TRUE
<1>2. SumFunctionOnSet(f, T) = IF T = {} THEN 0 ELSE f[y] + SumFunctionOnSet(f, T \ {y})
  BY SumEquation
<1>3. T # {} => y \in T
  OBVIOUS
<1> HIDE DEF y
<1> QED
  BY <1>1, <1>2, <1>3

-----------------------------------------------------------------------------
\* The cheapest of the good ones among s, the first one of equals; 0 if none is good.
Cheapest(G, cost, s, i) ==
  i \in s \cap G /\ \A j \in s \cap G : cost[i] < cost[j] \/ (cost[i] = cost[j] /\ i <= j)

Pick(G, cost, s) == IF s \cap G = {} THEN 0 ELSE CHOOSE i \in s : Cheapest(G, cost, s, i)

\* The better of the best so far and a further one.
Better(G, cost, i, best) == IF i \in G /\ (best = 0 \/ cost[i] < cost[best]) THEN i ELSE best

Last(s) == CHOOSE x \in s : \A y \in s : x >= y

\* A set of indices without its last.
Rest(s) == s \ {Last(s)}

\* Every list has a last element.
LEMMA LastOf ==
  ASSUME NEW n \in Nat
  PROVE  \A s \in SUBSET (1..n) : s # {} => Last(s) \in s /\ \A y \in s : y <= Last(s)
<1> DEFINE Z == {s \in SUBSET (1..n) : s # {} /\ ~ \E x \in s : \A y \in s : x >= y}
<1>1. Z = {}
  <2> SUFFICES ASSUME Z # {} PROVE FALSE
    OBVIOUS
  <2>1. IsFiniteSet(1..n)
    <3>1. \A m \in Int : IsFiniteSet(1..m)
      BY FS_Interval
    <3> QED
      BY <3>1
  <2>2. PICK s \in Z : \A t \in SUBSET s : t # s => t \notin Z
    <3>1. Z \in SUBSET SUBSET (1..n)
      OBVIOUS
    <3> HIDE DEF Z
    <3> QED
      BY <2>1, <3>1, SmallestSubset
  <2>3. PICK a \in s : TRUE
    BY <2>2
  <2> DEFINE r == s \ {a}
  <2>4. r \in SUBSET s /\ r # s
    BY <2>3
  <2>5. r # {} => \E x \in r : \A y \in r : x >= y
    BY <2>2, <2>4
  <2>6. CASE r = {}
    BY <2>2, <2>3, <2>6
  <2>7. ASSUME NEW x \in r, \A y \in r : x >= y PROVE FALSE
    <3>1. CASE a >= x
      BY <2>2, <2>3, <2>7, <3>1
    <3>2. CASE ~(a >= x)
      BY <2>2, <2>3, <2>7, <3>2
    <3> QED
      BY <3>1, <3>2
  <2> QED
    BY <2>5, <2>6, <2>7
<1>2. ASSUME NEW s \in SUBSET (1..n), s # {} PROVE Last(s) \in s /\ \A y \in s : y <= Last(s)
  <2>1. PICK x \in s : \A y \in s : x >= y
    BY <1>1, <1>2
  <2>2. Last(s) \in s /\ \A y \in s : Last(s) >= y
    BY <2>1 DEF Last
  <2> QED
    BY <2>2
<1> QED
  BY <1>2

\* A set of sets that never holds a set without holding it less its last element
\* is empty.
LEMMA WalkDown ==
  ASSUME NEW n \in Nat, NEW Z \in SUBSET SUBSET (1..n), {} \notin Z,
         \A s \in Z : Rest(s) \in Z
  PROVE  Z = {}
<1> SUFFICES ASSUME Z # {} PROVE FALSE
  OBVIOUS
<1>1. IsFiniteSet(1..n)
  <2>1. \A m \in Int : IsFiniteSet(1..m)
    BY FS_Interval
  <2> QED
    BY <2>1
<1>2. PICK s \in Z : \A t \in SUBSET s : t # s => t \notin Z
  BY <1>1, SmallestSubset
<1>3. s \in SUBSET (1..n) /\ s # {}
  OBVIOUS
<1>4. Last(s) \in s
  BY <1>3, LastOf
<1>5. Rest(s) \in SUBSET s /\ Rest(s) # s
  BY <1>4 DEF Rest
<1> QED
  BY <1>2, <1>5

\* The cheapest is the only one.
LEMMA OneCheapest ==
  ASSUME NEW n \in Nat, NEW G \in SUBSET (1..n), NEW cost \in [1..n -> Int]
  PROVE  \A s \in SUBSET (1..n) : \A i \in s : Cheapest(G, cost, s, i) => i = Pick(G, cost, s)
<1> SUFFICES ASSUME NEW s \in SUBSET (1..n), NEW i \in s, Cheapest(G, cost, s, i)
             PROVE  Pick(G, cost, s) = i
  OBVIOUS
<1>1. i \in s /\ s \cap G # {}
  BY DEF Cheapest
<1>2. Cheapest(G, cost, s, Pick(G, cost, s))
  BY <1>1, Zenon DEF Pick
<1>3. PICK p : p = Pick(G, cost, s)
  OBVIOUS
<1>4. p \in 1..n /\ i \in 1..n /\ cost[p] \in Int /\ cost[i] \in Int
  BY <1>2, <1>3 DEF Cheapest
<1>5. p = i
  BY <1>2, <1>3, <1>4 DEF Cheapest
<1> QED
  BY <1>3, <1>5

\* One element more: if the best of the rest is known, it is kept or replaced.
LEMMA PickStep ==
  ASSUME NEW n \in Nat, NEW G \in SUBSET (1..n), NEW cost \in [1..n -> Int],
         NEW s \in SUBSET (1..n), s # {},
         NEW best, IF Rest(s) \cap G = {} THEN best = 0 ELSE Cheapest(G, cost, Rest(s), best)
  PROVE  IF s \cap G = {} THEN Better(G, cost, Last(s), best) = 0
                          ELSE Cheapest(G, cost, s, Better(G, cost, Last(s), best))
<1>1. Last(s) \in s /\ \A y \in s : y <= Last(s)
  BY LastOf
<1>2. PICK i : i = Last(s)
  OBVIOUS
<1>3. PICK r : r = Rest(s)
  OBVIOUS
<1>4. s = r \cup {i} /\ i \notin r /\ i \in 1..n /\ r \in SUBSET (1..n) /\ \A y \in s : y <= i
  BY <1>1, <1>2, <1>3 DEF Rest
<1>5. PICK next : next = IF i \in G /\ (best = 0 \/ cost[i] < cost[best]) THEN i ELSE best
  OBVIOUS
<1>6. IF s \cap G = {} THEN next = 0 ELSE Cheapest(G, cost, s, next)
  <2>1. CASE r \cap G = {}
    BY <1>3, <1>4, <1>5, <2>1 DEF Cheapest
  <2>2. CASE r \cap G # {} /\ i \notin G
    BY <1>3, <1>4, <1>5, <2>2 DEF Cheapest
  <2>3. CASE r \cap G # {} /\ i \in G
    <3>0. best \in r /\ best \in G
      BY <1>3, <2>3 DEF Cheapest
    <3>1. best \in r /\ best \in G /\ best \in 1..n /\ best # 0 /\ best <= i
      BY <1>4, <3>0
    <3>2. \A j \in r \cap G : cost[best] < cost[j] \/ (cost[best] = cost[j] /\ best <= j)
      BY <1>3, <2>3 DEF Cheapest
    <3>3. \A j \in 1..n : cost[j] \in Int
      OBVIOUS
    <3>4. CASE cost[i] < cost[best]
      BY <1>4, <1>5, <2>3, <3>1, <3>2, <3>3, <3>4 DEF Cheapest
    <3>5. CASE ~(cost[i] < cost[best])
      BY <1>4, <1>5, <2>3, <3>1, <3>2, <3>3, <3>5 DEF Cheapest
    <3> QED
      BY <3>4, <3>5
  <2> QED
    BY <2>1, <2>2, <2>3
<1> QED
  BY <1>2, <1>5, <1>6 DEF Better

\* Whatever is good has a cheapest.
LEMMA CheapestExists ==
  ASSUME NEW n \in Nat, NEW G \in SUBSET (1..n), NEW cost \in [1..n -> Int]
  PROVE  \A s \in SUBSET (1..n) : IF s \cap G = {} THEN Pick(G, cost, s) = 0
                                  ELSE Cheapest(G, cost, s, Pick(G, cost, s))
<1> DEFINE Z == {s \in SUBSET (1..n) : s \cap G # {} /\ ~ \E i \in s : Cheapest(G, cost, s, i)}
<1>1. Z = {}
  <2>1. Z \in SUBSET SUBSET (1..n) /\ {} \notin Z
    OBVIOUS
  <2>2. ASSUME NEW s \in Z, Rest(s) \notin Z PROVE FALSE
    <3>1. s \in SUBSET (1..n) /\ s # {} /\ s \cap G # {}
      OBVIOUS
    <3>2. Rest(s) \in SUBSET (1..n)
      BY <3>1 DEF Rest
    <3>3. PICK best : IF Rest(s) \cap G = {} THEN best = 0 ELSE Cheapest(G, cost, Rest(s), best)
      BY <2>2, <3>2
    <3>4. Cheapest(G, cost, s, Better(G, cost, Last(s), best))
      BY <3>1, <3>3, PickStep
    <3> QED
      BY <3>1, <3>4 DEF Cheapest
  <2> HIDE DEF Z
  <2> QED
    BY <2>1, <2>2, WalkDown
<1>2. ASSUME NEW s \in SUBSET (1..n), s \cap G # {} PROVE Cheapest(G, cost, s, Pick(G, cost, s))
  <2>1. PICK i \in s : Cheapest(G, cost, s, i)
    BY <1>1, <1>2
  <2>2. i = Pick(G, cost, s)
    BY <2>1, OneCheapest
  <2> QED
    BY <2>1, <2>2
<1> QED
  BY <1>2 DEF Pick

\* The best so far of a walk, one element further.
LEMMA PickNext ==
  ASSUME NEW n \in Nat, NEW G \in SUBSET (1..n), NEW cost \in [1..n -> Int],
         NEW s \in SUBSET (1..n), s # {}
  PROVE  /\ Last(s) \in 1..n /\ Rest(s) \in SUBSET (1..n)
         /\ Pick(G, cost, Rest(s)) \in G \cup {0}
         /\ Pick(G, cost, s) = Better(G, cost, Last(s), Pick(G, cost, Rest(s)))
<1>1. Last(s) \in 1..n /\ Rest(s) \in SUBSET (1..n)
  BY LastOf DEF Rest
<1>2. PICK best : best = Pick(G, cost, Rest(s))
  OBVIOUS
<1>3. IF Rest(s) \cap G = {} THEN best = 0 ELSE Cheapest(G, cost, Rest(s), best)
  BY <1>1, <1>2, CheapestExists
<1>4. PICK next : next = Better(G, cost, Last(s), best)
  OBVIOUS
<1>5. IF s \cap G = {} THEN next = 0 ELSE Cheapest(G, cost, s, next)
  BY <1>3, <1>4, PickStep
<1>6. CASE s \cap G = {}
  BY <1>5, <1>6, <1>1, <1>2, <1>3, <1>4 DEF Pick, Cheapest
<1>7. CASE s \cap G # {}
  <2>1. next \in s /\ Cheapest(G, cost, s, next)
    BY <1>5, <1>7 DEF Cheapest
  <2>2. next = Pick(G, cost, s)
    BY <2>1, OneCheapest
  <2> QED
    BY <1>1, <1>2, <1>3, <1>4, <2>2 DEF Cheapest
<1> QED
  BY <1>6, <1>7

\* w takes the better of the last element and what it took of the rest.
Walks(n, G, cost, w) ==
  /\ w[{}] = 0
  /\ \A s \in SUBSET (1..n) : s # {} /\ w[Rest(s)] = Pick(G, cost, Rest(s)) =>
       w[s] = Better(G, cost, Last(s), Pick(G, cost, Rest(s)))

\* Such a table is Pick's.
LEMMA TableOfPicks ==
  ASSUME NEW n \in Nat, NEW G \in SUBSET (1..n), NEW cost \in [1..n -> Int], NEW w,
         Walks(n, G, cost, w)
  PROVE  \A s \in SUBSET (1..n) : w[s] = Pick(G, cost, s)
<1> DEFINE Z == {s \in SUBSET (1..n) : w[s] # Pick(G, cost, s)}
<1>1. Z \in SUBSET SUBSET (1..n) /\ {} \notin Z
  BY DEF Pick, Walks
<1>2. ASSUME NEW s \in Z, Rest(s) \notin Z PROVE FALSE
  <2>1. s \in SUBSET (1..n) /\ s # {}
    BY <1>1
  <2>2. Rest(s) \in SUBSET (1..n) /\ Pick(G, cost, s) = Better(G, cost, Last(s), Pick(G, cost, Rest(s)))
    BY <2>1, PickNext
  <2> QED
    BY <1>2, <2>1, <2>2 DEF Walks
<1> HIDE DEF Z
<1>3. Z = {}
  BY <1>1, <1>2, WalkDown
<1> QED
  BY <1>3 DEF Z
=============================================================================
