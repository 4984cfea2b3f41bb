----------------------------- MODULE NatFacts -----------------------------
(***************************************************************************)
(* Facts about natural numbers that the proofs by induction rest on: least *)
(* and greatest members, induction over a set of numbers, what a           *)
(* definition by recursion on a number gives, and sums over finite sets.   *)
(***************************************************************************)
EXTENDS Integers, FiniteSetTheorems, WellFoundedInduction, TLAPS

\* A set of naturals that is not empty has a least member.
LEMMA Least ==
    ASSUME NEW T \in SUBSET Nat, T # {}
    PROVE  \E n \in T : \A m \in T : n <= m
<1> DEFINE R == {p \in Nat \X Nat : p[1] < p[2]}
<1>1. IsWellFoundedOn(R, Nat)
  BY NatLessThanWellFounded DEF OpToRel
<1>2. ASSUME NEW m \in Nat, NEW n \in Nat, m < n PROVE <<m, n>> \in R
  <2>1. <<m, n>> \in Nat \X Nat /\ <<m, n>>[1] < <<m, n>>[2]
    BY <1>2
  <2> QED BY <2>1
<1> HIDE DEF R
<1>3. PICK n \in T : \A m \in T : ~ (<<m, n>> \in R)
  BY <1>1, WFMin
<1>4. ASSUME NEW m \in T PROVE n <= m
  <2>1. m \in Nat /\ n \in Nat
    OBVIOUS
  <2>2. ~ (m < n)
    BY <1>2, <1>3, <2>1
  <2> QED BY <2>1, <2>2
<1> QED BY <1>4

\* A set of naturals that is not empty and has a bound has a greatest member.
LEMMA Greatest ==
    ASSUME NEW T \in SUBSET Nat, T # {}, NEW b \in Nat, \A m \in T : m <= b
    PROVE  \E n \in T : \A m \in T : m <= n
<1> DEFINE D == {d \in 0 .. b : b - d \in T}
<1>1. ASSUME NEW m \in T PROVE b - m \in D
  <2>1. m \in Nat /\ m <= b
    OBVIOUS
  <2>2. b - m \in 0 .. b /\ b - (b - m) = m
    BY <2>1
  <2> QED BY <2>2
<1>2. D \in SUBSET Nat
  OBVIOUS
<1> HIDE DEF D
<1>3. PICK d \in D : \A e \in D : d <= e
  <2>1. D # {}
    BY <1>1
  <2> QED BY <1>2, <2>1, Least
<1>4. b - d \in T /\ d \in 0 .. b
  BY <1>3 DEF D
<1>5. ASSUME NEW m \in T PROVE m <= b - d
  <2>1. b - m \in D
    BY <1>1
  <2>2. d <= b - m
    BY <1>3, <2>1
  <2> QED BY <1>4, <2>2
<1> QED BY <1>4, <1>5

\* A set with zero, and with the next of each of its members up to a bound,
\* has every number up to the bound.
LEMMA UpTo ==
    ASSUME NEW n \in Nat, NEW T, 0 \in T,
           \A k \in 0 .. n - 1 : k \in T => k + 1 \in T
    PROVE  \A k \in 0 .. n : k \in T
<1> SUFFICES ASSUME NEW x \in 0 .. n, x \notin T PROVE FALSE
  OBVIOUS
<1> DEFINE B == {k \in 0 .. n : k \notin T}
<1>1. B \in SUBSET Nat /\ B # {}
  OBVIOUS
<1>2. PICK m \in B : \A k \in B : m <= k
  BY <1>1, Least
<1>3. m \in 0 .. n /\ m \notin T /\ m # 0
  BY <1>2
<1>4. m - 1 \in 0 .. n - 1 /\ (m - 1) + 1 = m
  BY <1>3
<1>5. m - 1 \notin B
  BY <1>2, <1>4
<1>6. m - 1 \in T
  BY <1>4, <1>5
<1>7. m \in T
  BY <1>4, <1>6
<1> QED BY <1>3, <1>7

\* The values up to n are the first and, for each of the others, what follows
\* from the one before.
Follows(f, n, a, next) == f[0] = a /\ \A k \in 1 .. n : f[k] = next[k][f[k - 1]]

\* There is such a function.
LEMMA Recursion ==
    ASSUME NEW n \in Nat, NEW V, NEW a \in V, NEW next \in [1 .. n -> [V -> V]]
    PROVE  \E f \in [0 .. n -> V] : Follows(f, n, a, next)
<1> DEFINE Defines(f, m) == /\ f \in [0 .. m -> V]
                            /\ f[0] = a
                            /\ \A k \in 1 .. m : f[k] = next[k][f[k - 1]]
           T == {m \in 0 .. n : \E f : Defines(f, m)}
<1>1. 0 \in T
  <2> DEFINE f == [k \in 0 .. 0 |-> a]
  <2>1. Defines(f, 0)
    OBVIOUS
  <2> HIDE DEF Defines
  <2>2. 0 \in 0 .. n
    OBVIOUS
  <2> QED BY <2>1, <2>2
<1>2. ASSUME NEW m \in 0 .. n - 1, m \in T PROVE m + 1 \in T
  <2>1. PICK f : Defines(f, m)
    BY <1>2
  <2> DEFINE g == [k \in 0 .. m + 1 |-> IF k = m + 1 THEN next[m + 1][f[m]] ELSE f[k]]
  <2>2. m \in 0 .. m /\ m + 1 \in 1 .. n /\ m + 1 \in 0 .. n
    OBVIOUS
  <2>3. next[m + 1] \in [V -> V] /\ f[m] \in V
    BY <2>1, <2>2
  <2>4. next[m + 1][f[m]] \in V
    BY <2>3
  <2>5. g \in [0 .. m + 1 -> V]
    <3> SUFFICES ASSUME NEW k \in 0 .. m + 1 PROVE g[k] \in V
      OBVIOUS
    <3>1. k # m + 1 => k \in 0 .. m
      OBVIOUS
    <3> QED BY <2>1, <2>4, <3>1
  <2>6. g[0] = a
    BY <2>1
  <2>7. ASSUME NEW k \in 1 .. m + 1 PROVE g[k] = next[k][g[k - 1]]
    <3>1. CASE k = m + 1
      <4>1. g[k] = next[k][f[m]] /\ g[k - 1] = f[m]
        BY <3>1
      <4> QED BY <4>1
    <3>2. CASE k # m + 1
      <4>1. k \in 1 .. m /\ k \in 0 .. m /\ k - 1 \in 0 .. m
        BY <3>2
      <4>2. g[k] = f[k] /\ g[k - 1] = f[k - 1]
        BY <3>2, <4>1
      <4> QED BY <2>1, <4>1, <4>2
    <3> QED BY <3>1, <3>2
  <2>8. Defines(g, m + 1)
    BY <2>5, <2>6, <2>7
  <2> HIDE DEF Defines
  <2> QED BY <2>2, <2>8
<1> HIDE DEF T
<1>3. n \in T
  <2>1. \A k \in 0 .. n : k \in T
    BY <1>1, <1>2, UpTo
  <2> QED BY <2>1
<1> QED BY <1>3 DEF T, Follows

-----------------------------------------------------------------------------
(* Sums over finite sets, as the folds of the community modules take them: *)
(* an element is chosen, its value added to the sum of the rest.  c is the *)
(* choice.                                                                 *)

Chooses(c, G) == \A s \in SUBSET G : s # {} => c[s] \in s
Less(c, s) == s \ {c[s]}

\* Induction over the subsets of a finite set, an element at a time.
LEMMA SubsetByElement ==
    ASSUME NEW G, IsFiniteSet(G), NEW c, Chooses(c, G), NEW T, {} \in T,
           \A s \in SUBSET G : s # {} /\ Less(c, s) \in T => s \in T
    PROVE  SUBSET G \subseteq T
<1> DEFINE N == Cardinality(G)
           K == {k \in 0 .. N : \A s \in SUBSET G : Cardinality(s) = k => s \in T}
<1>1. N \in Nat
  BY FS_CardinalityType
<1>2. ASSUME NEW s \in SUBSET G
      PROVE  IsFiniteSet(s) /\ Cardinality(s) \in Nat /\ Cardinality(s) <= N
  BY FS_Subset, FS_CardinalityType
<1> HIDE DEF N
<1>3. 0 \in K
  <2>1. ASSUME NEW s \in SUBSET G, Cardinality(s) = 0 PROVE s \in T
    <3>1. s = {}
      BY <1>2, <2>1, FS_EmptySet
    <3> QED BY <3>1
  <2> QED BY <1>1, <2>1
<1>4. ASSUME NEW k \in 0 .. N - 1, k \in K PROVE k + 1 \in K
  <2>1. ASSUME NEW s \in SUBSET G, Cardinality(s) = k + 1 PROVE s \in T
    <3>1. s # {}
      BY <2>1, FS_EmptySet
    <3>2. c[s] \in s
      BY <3>1 DEF Chooses
    <3>3. Less(c, s) \in SUBSET G
      BY DEF Less
    <3>4. Cardinality(Less(c, s)) = Cardinality(s) - 1
      BY <1>2, <3>2, FS_RemoveElement DEF Less
    <3>5. Cardinality(Less(c, s)) = k
      BY <2>1, <3>4
    <3>6. Less(c, s) \in T
      BY <1>4, <3>3, <3>5
    <3> QED BY <3>1, <3>6
  <2>2. k + 1 \in 0 .. N
    BY <1>1
  <2> QED BY <2>1, <2>2
<1> HIDE DEF K
<1>5. \A k \in 0 .. N : k \in K
  BY <1>1, <1>3, <1>4, UpTo
<1>6. ASSUME NEW s \in SUBSET G PROVE s \in T
  <2>1. Cardinality(s) \in 0 .. N
    BY <1>1, <1>2
  <2>2. Cardinality(s) \in K
    BY <1>5, <2>1
  <2> QED BY <2>2 DEF K
<1> QED BY <1>6

\* f has the sum of v over each subset of G.
Adds(f, v, G, c) ==
    f = [s \in SUBSET G |-> IF s = {} THEN 0 ELSE v[c[s]] + f[Less(c, s)]]

\* What is left of a subset is one.
LEMMA LessIn ==
    ASSUME NEW G, NEW c, Chooses(c, G), NEW s \in SUBSET G, s # {}
    PROVE  c[s] \in s /\ c[s] \in G /\ Less(c, s) \in SUBSET G
<1>1. c[s] \in s
  BY DEF Chooses
<1> QED BY <1>1 DEF Less

\* One step of a sum.
LEMMA AddsStep ==
    ASSUME NEW G, NEW c, NEW v, NEW f, Adds(f, v, G, c), NEW s \in SUBSET G
    PROVE  f[s] = IF s = {} THEN 0 ELSE v[c[s]] + f[Less(c, s)]
  BY DEF Adds

\* Nothing sums to nothing.
LEMMA AddsNone == ASSUME NEW G, NEW c, NEW v, NEW f, Adds(f, v, G, c) PROVE f[{}] = 0
<1>1. {} \in SUBSET G
  OBVIOUS
<1> QED BY <1>1, AddsStep

\* Sums of naturals are naturals.
LEMMA AddsType ==
    ASSUME NEW G, IsFiniteSet(G), NEW c, Chooses(c, G), NEW v \in [G -> Nat], NEW f, Adds(f, v, G, c)
    PROVE  \A s \in SUBSET G : f[s] \in Nat
<1> DEFINE T == {s \in SUBSET G : f[s] \in Nat}
<1>1. {} \in T
  BY AddsNone
<1>2. ASSUME NEW s \in SUBSET G, s # {}, Less(c, s) \in T PROVE s \in T
  BY <1>2, AddsStep, LessIn
<1> HIDE DEF T
<1>3. SUBSET G \subseteq T
  BY <1>1, <1>2, SubsetByElement
<1> QED BY <1>3 DEF T

\* A sum has room for each of its terms.
LEMMA AddsAtLeast ==
    ASSUME NEW G, IsFiniteSet(G), NEW c, Chooses(c, G), NEW v \in [G -> Nat], NEW f, Adds(f, v, G, c), NEW x \in G
    PROVE  v[x] <= f[G]
<1> DEFINE T == {s \in SUBSET G : x \in s => v[x] <= f[s]}
<1>1. {} \in T
  OBVIOUS
<1>2. ASSUME NEW s \in SUBSET G, s # {}, Less(c, s) \in T PROVE s \in T
  <2>1. f[s] = v[c[s]] + f[Less(c, s)] /\ c[s] \in G /\ Less(c, s) \in SUBSET G
    BY <1>2, AddsStep, LessIn
  <2>2. f[Less(c, s)] \in Nat /\ v[c[s]] \in Nat /\ v[x] \in Nat
    BY <2>1, AddsType
  <2>3. x \in s => x = c[s] \/ x \in Less(c, s)
    BY DEF Less
  <2> QED BY <1>2, <2>1, <2>2, <2>3
<1> HIDE DEF T
<1>3. SUBSET G \subseteq T
  BY <1>1, <1>2, SubsetByElement
<1> QED BY <1>3 DEF T

\* A sum of bounded terms is bounded.
LEMMA AddsAtMost ==
    ASSUME NEW G, IsFiniteSet(G), NEW c, Chooses(c, G), NEW v \in [G -> Nat], NEW f, Adds(f, v, G, c), NEW b \in Nat,
           \A x \in G : v[x] <= b
    PROVE  f[G] <= Cardinality(G) * b
<1> DEFINE T == {s \in SUBSET G : f[s] <= Cardinality(s) * b}
<1>1. {} \in T
  <2>1. f[{}] = 0 /\ Cardinality({}) = 0 /\ 0 * b = 0
    BY AddsNone, FS_EmptySet
  <2> QED BY <2>1
<1>2. ASSUME NEW s \in SUBSET G, s # {}, Less(c, s) \in T PROVE s \in T
  <2>1. /\ f[s] = v[c[s]] + f[Less(c, s)] /\ c[s] \in G /\ c[s] \in s
        /\ Less(c, s) \in SUBSET G
    BY <1>2, AddsStep, LessIn
  <2>2. f[Less(c, s)] \in Nat /\ v[c[s]] \in Nat /\ v[c[s]] <= b
    BY <2>1, AddsType
  <2>3. IsFiniteSet(s)
    BY FS_Subset
  <2>4. Cardinality(Less(c, s)) = Cardinality(s) - 1 /\ Cardinality(s) \in Nat
    BY <2>1, <2>3, FS_RemoveElement, FS_CardinalityType DEF Less
  <2>5. f[Less(c, s)] <= (Cardinality(s) - 1) * b
    BY <1>2, <2>4
  <2>6. ASSUME NEW k \in Nat, NEW y \in Nat, NEW z \in Nat, y <= b, z <= (k - 1) * b
        PROVE  y + z <= k * b
    <3>1. (k - 1) * b = k * b - b
      BY SMT
    <3> QED BY <2>6, <3>1, SMT
  <2>7. v[c[s]] + f[Less(c, s)] <= Cardinality(s) * b
    BY <2>2, <2>4, <2>5, <2>6
  <2> QED BY <2>1, <2>7
<1> HIDE DEF T
<1>3. SUBSET G \subseteq T
  BY <1>1, <1>2, SubsetByElement
<1> QED BY <1>3 DEF T

\* A change of one term is a change of the sum.
LEMMA AddsChange ==
    ASSUME NEW G, IsFiniteSet(G), NEW c, Chooses(c, G), NEW v \in [G -> Nat], NEW w \in [G -> Nat],
           NEW f, Adds(f, v, G, c), NEW h, Adds(h, w, G, c),
           NEW a \in G, \A x \in G \ {a} : w[x] = v[x]
    PROVE  h[G] + v[a] = f[G] + w[a]
<1> DEFINE T == {s \in SUBSET G :
                    IF a \in s THEN h[s] + v[a] = f[s] + w[a] ELSE h[s] = f[s]}
<1>1. {} \in T
  BY AddsStep
<1>2. ASSUME NEW s \in SUBSET G, s # {}, Less(c, s) \in T PROVE s \in T
  <2>1. /\ f[s] = v[c[s]] + f[Less(c, s)] /\ h[s] = w[c[s]] + h[Less(c, s)]
        /\ c[s] \in G /\ c[s] \in s /\ Less(c, s) \in SUBSET G
    BY <1>2, AddsStep, LessIn
  <2>2. /\ f[Less(c, s)] \in Nat /\ h[Less(c, s)] \in Nat /\ v[c[s]] \in Nat /\ w[c[s]] \in Nat
        /\ v[a] \in Nat /\ w[a] \in Nat
    BY <2>1, AddsType
  <2>3. CASE c[s] = a
    <3>1. a \in s /\ a \notin Less(c, s)
      BY <2>1, <2>3 DEF Less
    <3> QED BY <1>2, <2>1, <2>2, <2>3, <3>1
  <2>4. CASE c[s] # a
    <3>1. (a \in s <=> a \in Less(c, s)) /\ w[c[s]] = v[c[s]]
      BY <2>1, <2>4 DEF Less
    <3> QED BY <1>2, <2>1, <2>2, <3>1
  <2> QED BY <2>3, <2>4
<1> HIDE DEF T
<1>3. SUBSET G \subseteq T
  BY <1>1, <1>2, SubsetByElement
<1> QED BY <1>3 DEF T

\* The sums exist: those over sets of at most k elements give those over sets
\* of one more.
LEMMA AddsExists ==
    ASSUME NEW G, IsFiniteSet(G), NEW c, Chooses(c, G), NEW v \in [G -> Nat]
    PROVE  \E f : Adds(f, v, G, c)
<1> DEFINE N == Cardinality(G)
           Small(k) == {s \in SUBSET G : Cardinality(s) <= k}
           Sums(f, k) == \A s \in Small(k) :
                            f[s] = IF s = {} THEN 0 ELSE v[c[s]] + f[Less(c, s)]
           K == {k \in 0 .. N : \E f : Sums(f, k)}
<1>1. N \in Nat
  BY FS_CardinalityType
<1>2. ASSUME NEW s \in SUBSET G
      PROVE  IsFiniteSet(s) /\ Cardinality(s) \in Nat /\ Cardinality(s) <= N
  BY FS_Subset, FS_CardinalityType
<1>3. ASSUME NEW s \in SUBSET G, s # {}
      PROVE  /\ Cardinality(Less(c, s)) = Cardinality(s) - 1 /\ Less(c, s) \in SUBSET G
             /\ IsFiniteSet(Less(c, s))
  BY <1>2, <1>3, LessIn, FS_RemoveElement DEF Less
<1> HIDE DEF N
<1>4. 0 \in K
  <2> DEFINE f == [s \in SUBSET G |-> 0]
  <2>1. ASSUME NEW s \in Small(0) PROVE s = {}
    <3>1. s \in SUBSET G /\ Cardinality(s) = 0
      BY <1>2
    <3> QED BY <1>2, <3>1, FS_EmptySet
  <2>2. f[{}] = 0
    OBVIOUS
  <2> HIDE DEF f
  <2>3. Sums(f, 0)
    BY <2>1, <2>2
  <2>4. 0 \in 0 .. N
    BY <1>1
  <2> HIDE DEF Sums
  <2> QED BY <2>3, <2>4
<1>5. ASSUME NEW k \in 0 .. N - 1, k \in K PROVE k + 1 \in K
  <2>1. PICK f : Sums(f, k)
    BY <1>5
  <2> DEFINE h == [s \in SUBSET G |->
                      IF Cardinality(s) <= k THEN f[s] ELSE v[c[s]] + f[Less(c, s)]]
  <2>2. ASSUME NEW s \in Small(k + 1)
        PROVE  h[s] = IF s = {} THEN 0 ELSE v[c[s]] + h[Less(c, s)]
    <3>1. s \in SUBSET G /\ Cardinality(s) <= k + 1 /\ Cardinality(s) \in Nat
      BY <1>2
    <3>2. CASE s = {}
      <4>1. Cardinality(s) <= k /\ s \in Small(k)
        BY <3>1, <3>2, FS_EmptySet
      <4>2. h[s] = f[s] /\ f[s] = 0
        BY <2>1, <3>1, <3>2, <4>1
      <4> QED BY <3>2, <4>2
    <3>3. CASE s # {}
      <4>1. Less(c, s) \in SUBSET G /\ Cardinality(Less(c, s)) <= k
        BY <1>3, <3>1, <3>3
      <4>2. h[Less(c, s)] = f[Less(c, s)]
        BY <4>1
      <4>3. h[s] = v[c[s]] + f[Less(c, s)]
        <5>1. CASE Cardinality(s) <= k
          <6>1. s \in Small(k) /\ h[s] = f[s]
            BY <3>1, <5>1
          <6> QED BY <2>1, <3>3, <6>1
        <5>2. CASE ~(Cardinality(s) <= k)
          BY <3>1, <5>2
        <5> QED BY <5>1, <5>2
      <4> QED BY <3>3, <4>2, <4>3
    <3> QED BY <3>2, <3>3
  <2> HIDE DEF h
  <2>3. Sums(h, k + 1)
    BY <2>2
  <2>4. k + 1 \in 0 .. N
    BY <1>1
  <2> HIDE DEF Sums
  <2> QED BY <2>3, <2>4
<1>6. N \in K
  <2> HIDE DEF K
  <2>1. \A k \in 0 .. N : k \in K
    BY <1>1, <1>4, <1>5, UpTo
  <2> QED BY <1>1, <2>1
<1>7. PICK f : Sums(f, N)
  BY <1>6
<1> DEFINE h == [s \in SUBSET G |-> f[s]]
<1>8. ASSUME NEW s \in SUBSET G PROVE h[s] = IF s = {} THEN 0 ELSE v[c[s]] + h[Less(c, s)]
  <2>1. s \in Small(N)
    BY <1>2
  <2>2. s # {} => Less(c, s) \in SUBSET G
    BY <1>3
  <2> QED BY <1>7, <2>1, <2>2
<1>9. Adds(h, v, G, c)
  BY <1>8 DEF Adds
<1> QED BY <1>9

\* Sums that choose and add the same over G agree on it.
LEMMA AddsAgree ==
    ASSUME NEW G, IsFiniteSet(G), NEW c, Chooses(c, G), NEW v, NEW f, Adds(f, v, G, c),
           NEW H, G \subseteq H, NEW d, NEW w, NEW h, Adds(h, w, H, d),
           \A s \in SUBSET G : s # {} => d[s] = c[s],
           \A x \in G : w[x] = v[x]
    PROVE  h[G] = f[G]
<1> DEFINE T == {s \in SUBSET G : h[s] = f[s]}
<1>1. {} \in T
  <2>1. f[{}] = 0
    BY AddsNone
  <2>2. h[{}] = 0
    BY AddsNone
  <2> QED BY <2>1, <2>2
<1>2. ASSUME NEW s \in SUBSET G, s # {}, Less(c, s) \in T PROVE s \in T
  <2>1. f[s] = v[c[s]] + f[Less(c, s)]
    BY <1>2 DEF Adds
  <2>2. h[s] = w[d[s]] + h[Less(d, s)]
    <3>1. s \in SUBSET H
      OBVIOUS
    <3> QED BY <1>2, <3>1 DEF Adds
  <2>3. d[s] = c[s] /\ Less(d, s) = Less(c, s)
    BY <1>2 DEF Less
  <2>4. c[s] \in G
    BY <1>2, LessIn
  <2>5. w[d[s]] = v[c[s]] /\ h[Less(d, s)] = f[Less(c, s)]
    BY <1>2, <2>3, <2>4
  <2> QED BY <2>1, <2>2, <2>5
<1> HIDE DEF T
<1>3. SUBSET G \subseteq T
  BY <1>1, <1>2, SubsetByElement
<1> QED BY <1>3 DEF T

\* A sum is any of its terms and the sum of the others.
LEMMA AddsMember ==
    ASSUME NEW G, IsFiniteSet(G), NEW c, Chooses(c, G), NEW v \in [G -> Nat], NEW f, Adds(f, v, G, c), NEW x \in G
    PROVE  f[G] = v[x] + f[G \ {x}]
<1> DEFINE N == Cardinality(G)
           Any(s) == \A y \in s : f[s] = v[y] + f[s \ {y}]
           K == {k \in 0 .. N : \A s \in SUBSET G : Cardinality(s) = k => Any(s)}
<1>1. N \in Nat
  BY FS_CardinalityType
<1>2. ASSUME NEW s \in SUBSET G
      PROVE  IsFiniteSet(s) /\ Cardinality(s) \in Nat /\ Cardinality(s) <= N
  BY FS_Subset, FS_CardinalityType
<1>3. ASSUME NEW s \in SUBSET G, NEW y \in s
      PROVE  s \ {y} \in SUBSET G /\ Cardinality(s \ {y}) = Cardinality(s) - 1
  BY <1>2, FS_RemoveElement
<1> HIDE DEF N
<1>4. 0 \in K
  <2>1. ASSUME NEW s \in SUBSET G, Cardinality(s) = 0 PROVE Any(s)
    <3>1. s = {}
      BY <1>2, <2>1, FS_EmptySet
    <3> QED BY <3>1
  <2> QED BY <1>1, <2>1
<1>5. ASSUME NEW k \in 0 .. N - 1, k \in K PROVE k + 1 \in K
  <2>1. ASSUME NEW s \in SUBSET G, Cardinality(s) = k + 1, NEW y \in s
        PROVE  f[s] = v[y] + f[s \ {y}]
    <3> DEFINE z == c[s]
               a == s \ {z}
               b == s \ {y}
               r == (s \ {z}) \ {y}
    <3>1. f[s] = v[z] + f[a] /\ z \in s
      BY AddsStep, LessIn DEF Less
    <3>2. CASE y = z
      BY <3>1, <3>2
    <3>3. CASE y # z
      <4>1. /\ a \in SUBSET G /\ Cardinality(a) = k /\ y \in a
            /\ b \in SUBSET G /\ Cardinality(b) = k /\ z \in b
        BY <1>3, <2>1, <3>1, <3>3
      <4>2. Any(a) /\ Any(b)
        <5> HIDE DEF Any, a, b
        <5> QED BY <1>5, <4>1
      <4>3. f[a] = v[y] + f[a \ {y}] /\ f[b] = v[z] + f[b \ {z}]
        BY <4>1, <4>2
      <4>4. a \ {y} = r /\ b \ {z} = r /\ r \in SUBSET G
        OBVIOUS
      <4>5. v[y] \in Nat /\ v[z] \in Nat /\ f[r] \in Nat
        BY <3>1, <4>4, AddsType
      <4>6. f[a] = v[y] + f[r] /\ f[b] = v[z] + f[r] /\ f[s] = v[z] + f[a]
        BY <3>1, <4>3, <4>4
      <4>7. f[s] = v[y] + f[b]
        <5> HIDE DEF a, b, r, z
        <5> QED BY <4>5, <4>6
      <4> QED BY <4>7
    <3> QED BY <3>2, <3>3
  <2>2. k + 1 \in 0 .. N
    BY <1>1
  <2> QED BY <2>1, <2>2
<1> HIDE DEF K
<1>6. \A k \in 0 .. N : k \in K
  BY <1>1, <1>4, <1>5, UpTo
<1>7. N \in K
  BY <1>1, <1>6
<1>8. Any(G)
  BY <1>7 DEF K, N
<1> QED BY <1>8

\* A sum of nothings is nothing.
LEMMA AddsZeros ==
    ASSUME NEW G, IsFiniteSet(G), NEW c, Chooses(c, G), NEW v \in [G -> Nat], NEW f, Adds(f, v, G, c),
           \A x \in G : v[x] = 0
    PROVE  f[G] = 0
<1>1. f[G] <= Cardinality(G) * 0
  BY AddsAtMost
<1>2. f[G] \in Nat
  BY AddsType
<1>3. Cardinality(G) \in Nat
  BY FS_CardinalityType
<1> QED BY <1>1, <1>2, <1>3

\* A sum with one term more, and one of the others changed.
LEMMA AddsMore ==
    ASSUME NEW G, IsFiniteSet(G), NEW c, Chooses(c, G), NEW v \in [G -> Nat], NEW f, Adds(f, v, G, c),
           NEW n, n \notin G, NEW H, H = G \cup {n}, NEW d, Chooses(d, H), NEW w \in [H -> Nat],
           NEW h, Adds(h, w, H, d), \A s \in SUBSET G : s # {} => d[s] = c[s],
           NEW p \in G, \A x \in G \ {p} : w[x] = v[x]
    PROVE  h[H] + v[p] = f[G] + w[p] + w[n]
<1> DEFINE u == [x \in G |-> w[x]]
<1>1. u \in [G -> Nat] /\ G \subseteq H /\ n \in H /\ p \in H /\ H \ {n} = G /\ \A x \in G : w[x] = u[x]
  OBVIOUS
<1>2. IsFiniteSet(H)
  BY FS_AddElement
<1> HIDE DEF u
<1>3. PICK k : Adds(k, u, G, c)
  BY <1>1, AddsExists
<1>4. h[G] = k[G]
  BY <1>1, <1>3, AddsAgree
<1>5. u[p] = w[p] /\ \A x \in G \ {p} : u[x] = v[x]
  BY <1>1
<1>6. k[G] + v[p] = f[G] + u[p]
  BY <1>1, <1>3, <1>5, AddsChange
<1>7. h[H] = w[n] + h[H \ {n}]
  BY <1>1, <1>2, AddsMember
<1>8. G \in SUBSET G /\ k[G] \in Nat /\ f[G] \in Nat
  BY <1>1, <1>3, AddsType
<1>9. w[n] \in Nat /\ w[p] \in Nat /\ v[p] \in Nat
  BY <1>1
<1>10. h[H] = w[n] + k[G]
  BY <1>1, <1>4, <1>7
<1>11. k[G] + v[p] = f[G] + w[p]
  BY <1>5, <1>6
<1> QED BY <1>8, <1>9, <1>10, <1>11
=============================================================================
