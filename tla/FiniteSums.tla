----------------------------- MODULE FiniteSums -----------------------------
(***************************************************************************)
(* Sums over finite sets, and induction over them.  The induction theorems *)
(* of the library take a predicate; here the sets with the property are    *)
(* collected in a set, which the provers can work with.                    *)
(***************************************************************************)
EXTENDS Integers, FiniteSets, FiniteSetsExt, FiniteSetTheorems, TLAPS

-----------------------------------------------------------------------------
(* Induction.                                                              *)

\* A family of subsets of a finite set that is not empty has a smallest member.
LEMMA SmallestMember ==
  ASSUME NEW F, IsFiniteSet(F), NEW G \in SUBSET (SUBSET F), G # {}
  PROVE  \E m \in G : \A t \in G : t \subseteq m => t = m
<1>1. FiniteSubsetsOf(F) = SUBSET F
  BY FS_FiniteSubsetsOfFinite
<1>2. IsWellFoundedOn(StrictSubsetOrdering(F), SUBSET F)
  BY <1>1, FS_StrictSubsetOrderingWellFounded
<1>3. PICK m \in G : \A t \in G : ~(<<t, m>> \in StrictSubsetOrdering(F))
  BY <1>2, WFMin
<1> QED BY <1>3 DEF StrictSubsetOrdering

\* A family that holds the empty set and grows by elements holds the whole set.
LEMMA GrowByElements ==
  ASSUME NEW F, IsFiniteSet(F), NEW G \in SUBSET (SUBSET F),
         {} \in G,
         \A T \in G : \A x \in F \ T : T \cup {x} \in G
  PROVE  F \in G
<1> SUFFICES ASSUME F \notin G PROVE FALSE
  OBVIOUS
<1> DEFINE bad == (SUBSET F) \ G
<1>1. bad \in SUBSET (SUBSET F) /\ bad # {}
  OBVIOUS
<1>2. PICK m \in bad : \A t \in bad : t \subseteq m => t = m
  <2> HIDE DEF bad
  <2> QED BY <1>1, SmallestMember
<1>3. PICK x \in m : TRUE
  BY <1>2
<1>4. m \ {x} \in G
  BY <1>2, <1>3
<1>5. (m \ {x}) \cup {x} = m /\ x \in F \ (m \ {x})
  BY <1>2, <1>3
<1>6. m \in G
  BY <1>4, <1>5
<1> QED BY <1>6

\* The numbers up to n, one by one.
LEMMA CountUp ==
  ASSUME NEW n \in Nat, NEW G \in SUBSET (0..n), 0 \in G,
         \A k \in G : k < n => k + 1 \in G
  PROVE  n \in G
<1> SUFFICES ASSUME n \notin G PROVE FALSE
  OBVIOUS
<1> DEFINE bad == (0..n) \ G
           below == {0..k : k \in bad}
           all == 0..n
<1>1. below \in SUBSET (SUBSET all) /\ below # {}
  OBVIOUS
<1>2. PICK m \in below : \A t \in below : t \subseteq m => t = m
  <2>1. IsFiniteSet(all)
    BY FS_Interval
  <2> HIDE DEF below, bad, all
  <2> QED BY <1>1, <2>1, SmallestMember
<1>3. PICK k \in bad : m = 0..k
  OBVIOUS
<1>4. k \in 1..n
  OBVIOUS
<1>5. k - 1 \notin bad
  <2>1. 0..(k - 1) \subseteq 0..k /\ 0..(k - 1) # 0..k
    BY <1>4
  <2>2. k - 1 \in bad => 0..(k - 1) \in below
    OBVIOUS
  <2> HIDE DEF below
  <2> QED BY <1>2, <1>3, <2>1, <2>2
<1> QED BY <1>4, <1>5

LEMMA SizeOfUnion ==
  ASSUME NEW S, IsFiniteSet(S), NEW T, IsFiniteSet(T), S \cap T = {}
  PROVE  IsFiniteSet(S \cup T) /\ Cardinality(S \cup T) = Cardinality(S) + Cardinality(T)
<1>1. Cardinality(S \cap T) = 0
  BY FS_EmptySet
<1>2. Cardinality(S) \in Nat /\ Cardinality(T) \in Nat
  BY FS_CardinalityType
<1>3. IsFiniteSet(S \cup T) /\ Cardinality(S \cup T) = Cardinality(S) + Cardinality(T) - Cardinality(S \cap T)
  BY FS_Union
<1> QED BY <1>1, <1>2, <1>3

\* What a function makes of a start, again and again.
Iterates(up, n, D, start, step) ==
  /\ up[0] = start /\ \A k \in 1..n : up[k] = step[up[k - 1]]
  /\ \A k \in 0..n : up[k] \in D

LEMMA IteratesExist ==
  ASSUME NEW n \in Nat, NEW D, NEW start \in D, NEW step, \A d \in D : step[d] \in D
  PROVE  \E up : Iterates(up, n, D, start, step)
<1> DEFINE G == {k \in 0..n : \E up : Iterates(up, k, D, start, step)}
<1>1. 0 \in G
  <2>1. Iterates([i \in 0..0 |-> start], 0, D, start, step)
    BY DEF Iterates
  <2> QED BY <2>1
<1>2. ASSUME NEW k \in G, k < n PROVE k + 1 \in G
  <2>1. PICK up : Iterates(up, k, D, start, step)
    OBVIOUS
  <2>2. k \in 0..n /\ k + 1 \in 0..n
    BY <1>2
  <2> DEFINE more == [i \in 0..(k + 1) |-> IF i = k + 1 THEN step[up[k]] ELSE up[i]]
  <2>3. \A i \in 0..k : more[i] = up[i] /\ up[i] \in D
    BY <2>1, <2>2 DEF Iterates
  <2>4. more[k + 1] = step[up[k]] /\ up[k] \in D /\ step[up[k]] \in D
    BY <2>1, <2>2 DEF Iterates
  <2>5. 0 \in 0..k /\ \A i \in 1..(k + 1) : i - 1 \in 0..k /\ (i = k + 1 \/ i \in 1..k)
    BY <2>2
  <2>6. \A i \in 0..(k + 1) : i = k + 1 \/ i \in 0..k
    BY <2>2
  <2> HIDE DEF more, G
  <2>7. \A i \in 1..(k + 1) : more[i] = step[more[i - 1]]
    <3> SUFFICES ASSUME NEW i \in 1..(k + 1) PROVE more[i] = step[more[i - 1]]
      OBVIOUS
    <3>1. CASE i = k + 1
      BY <2>2, <2>3, <2>4, <3>1
    <3>2. CASE i # k + 1
      <4>1. i \in 1..k /\ i - 1 \in 0..k /\ i \in 0..k
        BY <2>2, <2>5, <3>2
      <4> QED BY <2>1, <2>3, <4>1 DEF Iterates
    <3> QED BY <3>1, <3>2
  <2>8. more[0] = start /\ \A i \in 0..(k + 1) : more[i] \in D
    BY <2>1, <2>3, <2>4, <2>5, <2>6 DEF Iterates
  <2>9. Iterates(more, k + 1, D, start, step)
    BY <2>7, <2>8 DEF Iterates
  <2> QED BY <2>2, <2>9 DEF G
<1>3. n \in G
  <2>1. G \in SUBSET (0..n)
    OBVIOUS
  <2> HIDE DEF G
  <2> QED BY <1>1, <1>2, <2>1, CountUp
<1> QED BY <1>3

\* A finite set to which what follows from its members is added as often as there
\* are members to add is closed, and is the smallest set that is.
LEMMA ClosedAfterAll ==
  ASSUME NEW F, IsFiniteSet(F), NEW next \in [SUBSET F -> SUBSET F], NEW up, up[0] \in SUBSET F,
         \A k \in 1..Cardinality(F) :
           up[k - 1] \in SUBSET F => up[k] = up[k - 1] \cup next[up[k - 1]]
  PROVE  LET all == up[Cardinality(F)]
         IN  /\ all \in SUBSET F /\ up[0] \subseteq all /\ next[all] \subseteq all
             /\ \A C \in SUBSET F :
                  up[0] \subseteq C /\ (\A S \in SUBSET C : next[S] \subseteq C) => all \subseteq C
<1> DEFINE n == Cardinality(F)
<1>0. n \in Nat
  BY FS_CardinalityType
<1>1. ASSUME NEW k \in 0..n, k < n, up[k] \in SUBSET F
      PROVE  up[k + 1] = up[k] \cup next[up[k]] /\ up[k + 1] \in SUBSET F
  <2>1. k + 1 \in 1..n /\ (k + 1) - 1 = k
    BY <1>0, <1>1
  <2>2. up[k + 1] = up[k] \cup next[up[k]]
    BY <1>1, <2>1
  <2> QED BY <1>1, <2>2
<1>2. up[n] \in SUBSET F /\ up[0] \subseteq up[n] /\ next[up[n]] \subseteq up[n]
  <2> DEFINE Grown(k) == Cardinality(up[k]) >= k \/ next[up[k]] \subseteq up[k]
             G == {k \in 0..n : up[k] \in SUBSET F /\ up[0] \subseteq up[k] /\ Grown(k)}
  <2>0. \A S \in SUBSET F : IsFiniteSet(S) /\ Cardinality(S) \in Nat
    BY FS_Subset, FS_CardinalityType
  <2>1. 0 \in G
    BY <1>0, <2>0
  <2>2. ASSUME NEW k \in G, k < n PROVE k + 1 \in G
    <3>1. /\ up[k + 1] = up[k] \cup next[up[k]] /\ up[k + 1] \in SUBSET F
          /\ up[k] \in SUBSET F /\ k \in 0..n
      BY <1>1, <2>2
    <3>2. CASE next[up[k]] \subseteq up[k]
      <4>1. up[k + 1] = up[k]
        BY <3>1, <3>2
      <4>2. Grown(k + 1)
        BY <3>2, <4>1
      <4>3. k + 1 \in 0..n /\ up[0] \subseteq up[k]
        BY <1>0, <2>2
      <4>4. up[k + 1] \in SUBSET F /\ up[0] \subseteq up[k + 1]
        BY <3>1, <4>1, <4>3
      <4> HIDE DEF Grown
      <4> QED BY <4>2, <4>3, <4>4
    <3>3. CASE ~(next[up[k]] \subseteq up[k])
      <4>1. up[k] \subseteq up[k + 1] /\ up[k] # up[k + 1]
        BY <3>1, <3>3
      <4>2. IsFiniteSet(up[k + 1]) /\ Cardinality(up[k]) \in Nat /\ Cardinality(up[k + 1]) \in Nat
        BY <2>0, <3>1
      <4>3. Cardinality(up[k]) < Cardinality(up[k + 1])
        BY <4>1, <4>2, FS_Subset
      <4>4. Cardinality(up[k]) >= k
        BY <3>3
      <4>5. Grown(k + 1)
        BY <4>2, <4>3, <4>4
      <4>6. k + 1 \in 0..n /\ up[k + 1] \in SUBSET F /\ up[0] \subseteq up[k + 1]
        BY <1>0, <2>2, <3>1, <4>1
      <4> HIDE DEF Grown
      <4> QED BY <4>5, <4>6
    <3> QED BY <3>2, <3>3
  <2>3. n \in G
    <3>1. G \in SUBSET (0..n)
      OBVIOUS
    <3> HIDE DEF G, n
    <3> QED BY <1>0, <2>1, <2>2, <3>1, CountUp
  <2>4. CASE Cardinality(up[n]) >= n
    <3>1. up[n] = F
      <4>1. up[n] \in SUBSET F /\ Cardinality(up[n]) \in Nat
        BY <2>0, <2>3
      <4>2. Cardinality(up[n]) <= Cardinality(F) /\ (Cardinality(up[n]) = Cardinality(F) => up[n] = F)
        BY <4>1, FS_Subset
      <4> QED BY <1>0, <2>4, <4>1, <4>2
    <3> QED BY <2>3, <3>1
  <2> QED BY <2>3, <2>4
<1>3. ASSUME NEW C \in SUBSET F, up[0] \subseteq C, \A S \in SUBSET C : next[S] \subseteq C
      PROVE  up[n] \subseteq C
  <2> DEFINE G == {k \in 0..n : up[k] \subseteq C}
  <2>1. 0 \in G
    BY <1>0, <1>3
  <2>2. ASSUME NEW k \in G, k < n PROVE k + 1 \in G
    <3>1. up[k] \in SUBSET F /\ k \in 0..n
      OBVIOUS
    <3>2. up[k + 1] = up[k] \cup next[up[k]]
      BY <1>1, <2>2, <3>1
    <3> QED BY <1>0, <1>3, <2>2, <3>2
  <2>3. n \in G
    <3>1. G \in SUBSET (0..n)
      OBVIOUS
    <3> HIDE DEF G, n
    <3> QED BY <1>0, <2>1, <2>2, <3>1, CountUp
  <2> QED BY <2>3
<1> QED BY <1>2, <1>3

-----------------------------------------------------------------------------
(* Sums.                                                                   *)

\* The element that the folds of the community modules take out first.
First(s) == CHOOSE x \in s : TRUE

\* g[s] is the sum of f over s, for every subset s of S.
Sums(g, f, S) ==
  g = [s \in SUBSET S |-> IF s = {} THEN 0 ELSE f[First(s)] + g[s \ {First(s)}]]

SumOf(f, S) == (CHOOSE g : Sums(g, f, S))[S]

LEMMA FirstIsMember ==
  ASSUME NEW s, s # {}
  PROVE  First(s) \in s
BY DEF First

LEMMA SumsExist ==
  ASSUME NEW f, NEW S, IsFiniteSet(S)
  PROVE  \E g : Sums(g, f, S)
<1> DEFINE Small(n) == {s \in SUBSET S : Cardinality(s) <= n}
           Upto(n, g) == g = [s \in Small(n) |-> IF s = {} THEN 0 ELSE f[First(s)] + g[s \ {First(s)}]]
           N == Cardinality(S)
           G == {n \in 0..N : \E g : Upto(n, g)}
<1>1. N \in Nat /\ \A s \in SUBSET S : IsFiniteSet(s) /\ Cardinality(s) \in 0..N
  BY FS_CardinalityType, FS_Subset
<1>2. 0 \in G
  <2>1. Small(0) = {{}}
    BY <1>1, FS_EmptySet
  <2>2. Upto(0, [s \in Small(0) |-> 0])
    BY <2>1
  <2> HIDE DEF Upto
  <2> QED BY <1>1, <2>2
<1>3. ASSUME NEW n \in G, n < N PROVE n + 1 \in G
  <2>1. PICK g : Upto(n, g)
    OBVIOUS
  <2> DEFINE h == [s \in Small(n + 1) |-> IF s = {} THEN 0 ELSE f[First(s)] + g[s \ {First(s)}]]
  <2>2. ASSUME NEW s \in Small(n + 1), s # {} PROVE s \ {First(s)} \in Small(n)
    <3>1. First(s) \in s /\ IsFiniteSet(s)
      BY <1>1, <2>2, FirstIsMember
    <3>2. Cardinality(s \ {First(s)}) = Cardinality(s) - 1
      BY <3>1, FS_RemoveElement
    <3> QED BY <1>1, <3>2
  <2>3. Small(n) \subseteq Small(n + 1)
    BY <1>1
  <2>4. \A s \in Small(n) : h[s] = g[s]
    <3> HIDE DEF Small
    <3> QED BY <2>1, <2>3
  <2>5. Upto(n + 1, h)
    <3> HIDE DEF Small
    <3> QED BY <2>2, <2>4
  <2> HIDE DEF Upto
  <2> QED BY <1>1, <1>3, <2>5
<1>4. N \in G
  <2> HIDE DEF G, N
  <2>1. G \in SUBSET (0..N)
    BY DEF G
  <2> QED BY <1>1, <1>2, <1>3, <2>1, CountUp
<1>5. Small(N) = SUBSET S
  BY <1>1
<1> QED BY <1>4, <1>5 DEF Sums

LEMMA SumsAreUnique ==
  ASSUME NEW f, NEW S, IsFiniteSet(S), NEW g, NEW h, Sums(g, f, S), Sums(h, f, S)
  PROVE  g = h
<1> DEFINE bad == {s \in SUBSET S : g[s] # h[s]}
<1>1. CASE bad # {}
  <2>1. PICK m \in bad : \A t \in bad : t \subseteq m => t = m
    <3>1. bad \in SUBSET (SUBSET S)
      OBVIOUS
    <3> HIDE DEF bad
    <3> QED BY <1>1, <3>1, SmallestMember
  <2>2. m # {}
    BY <2>1 DEF Sums
  <2>3. First(m) \in m /\ g[m \ {First(m)}] = h[m \ {First(m)}]
    BY <2>1, <2>2, FirstIsMember
  <2> QED BY <2>1, <2>2, <2>3 DEF Sums
<1>2. CASE bad = {}
  BY <1>2 DEF Sums
<1> QED BY <1>1, <1>2

\* The function of sums over a set gives the sums over its subsets.
LEMMA SumsOfSubsets ==
  ASSUME NEW f, NEW S, IsFiniteSet(S), NEW g, Sums(g, f, S), NEW T \in SUBSET S
  PROVE  g[T] = SumOf(f, T)
<1> DEFINE h == [s \in SUBSET T |-> g[s]]
<1>1. IsFiniteSet(T)
  BY FS_Subset
<1>2. Sums(h, f, T)
  BY FirstIsMember DEF Sums
<1>3. Sums(CHOOSE k : Sums(k, f, T), f, T)
  BY <1>2
<1>4. (CHOOSE k : Sums(k, f, T)) = h
  <2> HIDE DEF h
  <2> QED BY <1>1, <1>2, <1>3, SumsAreUnique
<1> QED BY <1>4 DEF SumOf

LEMMA SumOfNothing == \A f : SumOf(f, {}) = 0
<1> SUFFICES ASSUME NEW f PROVE SumOf(f, {}) = 0
  OBVIOUS
<1>1. IsFiniteSet({})
  BY FS_EmptySet
<1>2. PICK g : Sums(g, f, {})
  BY <1>1, SumsExist
<1>3. g[{}] = 0
  BY <1>2 DEF Sums
<1> QED BY <1>1, <1>2, <1>3, SumsOfSubsets

LEMMA SumFromFirst ==
  ASSUME NEW f, NEW S, IsFiniteSet(S), S # {}
  PROVE  SumOf(f, S) = f[First(S)] + SumOf(f, S \ {First(S)})
<1>1. PICK g : Sums(g, f, S)
  BY SumsExist
<1>2. g[S] = f[First(S)] + g[S \ {First(S)}]
  BY <1>1 DEF Sums
<1>3. \A T \in SUBSET S : g[T] = SumOf(f, T)
  BY <1>1, SumsOfSubsets
<1> QED BY <1>2, <1>3

LEMMA SumIsInt ==
  ASSUME NEW S, IsFiniteSet(S), NEW f, \A x \in S : f[x] \in Int
  PROVE  SumOf(f, S) \in Int
<1> DEFINE bad == {s \in SUBSET S : SumOf(f, s) \notin Int}
<1>1. CASE bad # {}
  <2>1. PICK m \in bad : \A t \in bad : t \subseteq m => t = m
    <3>1. bad \in SUBSET (SUBSET S)
      OBVIOUS
    <3> HIDE DEF bad
    <3> QED BY <1>1, <3>1, SmallestMember
  <2>2. m # {} /\ IsFiniteSet(m)
    <3>1. m # {}
      BY SumOfNothing
    <3> QED BY <3>1, FS_Subset
  <2>3. First(m) \in m /\ SumOf(f, m \ {First(m)}) \in Int
    BY <2>1, <2>2, FirstIsMember
  <2> QED BY <2>1, <2>2, <2>3, SumFromFirst
<1>2. CASE bad = {}
  BY <1>2
<1> QED BY <1>1, <1>2

\* Any element may be counted first.
LEMMA SumFromElement ==
  ASSUME NEW S, IsFiniteSet(S), NEW f, \A x \in S : f[x] \in Int, NEW x \in S
  PROVE  SumOf(f, S) = f[x] + SumOf(f, S \ {x})
<1> DEFINE bad == {s \in SUBSET S : \E y \in s : SumOf(f, s) # f[y] + SumOf(f, s \ {y})}
<1>1. CASE bad # {}
  <2>1. PICK m \in bad : \A t \in bad : t \subseteq m => t = m
    <3>1. bad \in SUBSET (SUBSET S)
      OBVIOUS
    <3> HIDE DEF bad
    <3> QED BY <1>1, <3>1, SmallestMember
  <2>2. PICK y \in m : SumOf(f, m) # f[y] + SumOf(f, m \ {y})
    BY <2>1
  <2> DEFINE p == First(m)
  <2>3. p \in m /\ SumOf(f, m) = f[p] + SumOf(f, m \ {p})
    BY <2>1, <2>2, FirstIsMember, SumFromFirst, FS_Subset
  <2> HIDE DEF p
  <2>4. p # y
    BY <2>2, <2>3
  <2>5. SumOf(f, m \ {p}) = f[y] + SumOf(f, (m \ {p}) \ {y})
    BY <2>1, <2>2, <2>3, <2>4
  <2>6. SumOf(f, m \ {y}) = f[p] + SumOf(f, (m \ {y}) \ {p})
    BY <2>1, <2>2, <2>3, <2>4
  <2>7. (m \ {y}) \ {p} = (m \ {p}) \ {y}
    OBVIOUS
  <2>8. SumOf(f, (m \ {p}) \ {y}) \in Int /\ f[p] \in Int /\ f[y] \in Int
    <3>1. IsFiniteSet((m \ {p}) \ {y}) /\ \A z \in (m \ {p}) \ {y} : f[z] \in Int
      BY <2>1, FS_Subset
    <3> QED BY <2>1, <2>2, <2>3, <3>1, SumIsInt
  <2>9. SumOf(f, m \ {y}) = f[p] + SumOf(f, (m \ {p}) \ {y})
    BY <2>6, <2>7
  <2>10. SumOf(f, m) = f[y] + SumOf(f, m \ {y})
    BY <2>3, <2>5, <2>8, <2>9
  <2> QED BY <2>2, <2>10
<1>2. CASE bad = {}
  BY <1>2
<1> QED BY <1>1, <1>2

\* Equal terms have equal sums.
LEMMA SumOfEqualTerms ==
  ASSUME NEW S, IsFiniteSet(S), NEW f, NEW h, \A x \in S : f[x] = h[x]
  PROVE  SumOf(f, S) = SumOf(h, S)
<1> DEFINE bad == {s \in SUBSET S : SumOf(f, s) # SumOf(h, s)}
<1>1. CASE bad # {}
  <2>1. PICK m \in bad : \A t \in bad : t \subseteq m => t = m
    <3>1. bad \in SUBSET (SUBSET S)
      OBVIOUS
    <3> HIDE DEF bad
    <3> QED BY <1>1, <3>1, SmallestMember
  <2>2. m # {} /\ IsFiniteSet(m)
    <3>1. m # {}
      BY SumOfNothing
    <3> QED BY <3>1, FS_Subset
  <2>3. First(m) \in m /\ SumOf(f, m \ {First(m)}) = SumOf(h, m \ {First(m)})
    BY <2>1, <2>2, FirstIsMember
  <2> QED BY <2>1, <2>2, <2>3, SumFromFirst
<1>2. CASE bad = {}
  BY <1>2
<1> QED BY <1>1, <1>2

\* The sum over two disjoint sets.
LEMMA SumOfUnion ==
  ASSUME NEW S, IsFiniteSet(S), NEW T, IsFiniteSet(T), S \cap T = {},
         NEW f, \A x \in S \cup T : f[x] \in Int
  PROVE  SumOf(f, S \cup T) = SumOf(f, S) + SumOf(f, T)
<1> DEFINE G == {U \in SUBSET T : SumOf(f, S \cup U) = SumOf(f, S) + SumOf(f, U)}
<1>0. \A U \in SUBSET T : IsFiniteSet(U) /\ IsFiniteSet(S \cup U)
  BY FS_Subset, FS_Union
<1>1. {} \in G
  <2>1. S \cup {} = S /\ SumOf(f, S) \in Int
    BY SumIsInt
  <2> QED BY <2>1, SumOfNothing
<1>2. ASSUME NEW U \in G, NEW x \in T \ U PROVE U \cup {x} \in G
  <2>1. SumOf(f, U \cup {x}) = f[x] + SumOf(f, U)
    <3>1. (U \cup {x}) \ {x} = U /\ IsFiniteSet(U \cup {x}) /\ \A z \in U \cup {x} : f[z] \in Int
      BY <1>0
    <3> QED BY <3>1, SumFromElement
  <2>2. SumOf(f, S \cup (U \cup {x})) = f[x] + SumOf(f, S \cup U)
    <3>1. /\ (S \cup (U \cup {x})) \ {x} = S \cup U /\ IsFiniteSet(S \cup (U \cup {x}))
          /\ \A z \in S \cup (U \cup {x}) : f[z] \in Int /\ x \in S \cup (U \cup {x})
      BY <1>0
    <3> HIDE DEF G
    <3> QED BY <3>1, SumFromElement
  <2>3. SumOf(f, S) \in Int /\ SumOf(f, U) \in Int /\ f[x] \in Int
    BY <1>0, SumIsInt
  <2> QED BY <2>1, <2>2, <2>3
<1>3. T \in G
  <2>1. G \in SUBSET (SUBSET T)
    OBVIOUS
  <2> HIDE DEF G
  <2> QED BY <1>1, <1>2, <2>1, GrowByElements
<1> QED BY <1>3

\* The sum of terms that are zero or one counts the ones.
LEMMA SumOfOnes ==
  ASSUME NEW S, IsFiniteSet(S), NEW f, \A x \in S : f[x] \in {0, 1}
  PROVE  SumOf(f, S) = Cardinality({x \in S : f[x] = 1})
<1> DEFINE Ones(U) == {x \in U : f[x] = 1}
           G == {U \in SUBSET S : SumOf(f, U) = Cardinality(Ones(U))}
<1>0. \A U \in SUBSET S : IsFiniteSet(U) /\ IsFiniteSet(Ones(U)) /\ Cardinality(Ones(U)) \in Nat
  <2>1. \A U \in SUBSET S : Ones(U) \in SUBSET S
    OBVIOUS
  <2> HIDE DEF Ones
  <2> QED BY <2>1, FS_Subset, FS_CardinalityType
<1>1. {} \in G
  <2>1. Ones({}) = {}
    OBVIOUS
  <2> QED BY <2>1, SumOfNothing, FS_EmptySet
<1>2. ASSUME NEW U \in G, NEW x \in S \ U PROVE U \cup {x} \in G
  <2>1. SumOf(f, U \cup {x}) = f[x] + SumOf(f, U)
    <3>1. U \cup {x} \in SUBSET S /\ (U \cup {x}) \ {x} = U
      OBVIOUS
    <3>2. IsFiniteSet(U \cup {x}) /\ \A z \in U \cup {x} : f[z] \in Int
      BY <3>1, FS_Subset
    <3> HIDE DEF G, Ones
    <3> QED BY <3>1, <3>2, SumFromElement
  <2>2. Cardinality(Ones(U \cup {x})) = f[x] + Cardinality(Ones(U))
    <3>1. CASE f[x] = 1
      <4>1. Ones(U \cup {x}) = Ones(U) \cup {x} /\ x \notin Ones(U)
        BY <3>1
      <4>2. IsFiniteSet(Ones(U)) /\ Cardinality(Ones(U)) \in Nat
        BY <1>0
      <4>3. Cardinality(Ones(U) \cup {x}) = Cardinality(Ones(U)) + 1
        <5> HIDE DEF Ones
        <5> QED BY <4>1, <4>2, FS_AddElement
      <4>4. Cardinality(Ones(U \cup {x})) = Cardinality(Ones(U) \cup {x})
        <5> HIDE DEF Ones
        <5> QED BY <4>1
      <4> QED BY <3>1, <4>2, <4>3, <4>4
    <3>2. CASE f[x] = 0
      <4>1. Ones(U \cup {x}) = Ones(U)
        BY <3>2
      <4> HIDE DEF Ones
      <4> QED BY <1>0, <3>2, <4>1
    <3> QED BY <3>1, <3>2
  <2> QED BY <2>1, <2>2
<1>3. S \in G
  <2>1. G \in SUBSET (SUBSET S)
    OBVIOUS
  <2> HIDE DEF G
  <2> QED BY <1>1, <1>2, <2>1, GrowByElements
<1> QED BY <1>3

-----------------------------------------------------------------------------
(* Extremes.                                                               *)

\* A finite set of integers has a minimum and a maximum.
LEMMA ExtremesExist ==
  ASSUME NEW S \in SUBSET Int, IsFiniteSet(S), S # {}
  PROVE  /\ \E x \in S : \A y \in S : x <= y
         /\ \E x \in S : \A y \in S : x >= y
<1> DEFINE G == {U \in SUBSET S : U # {} => /\ \E x \in U : \A y \in U : x <= y
                                          /\ \E x \in U : \A y \in U : x >= y}
<1>1. {} \in G
  OBVIOUS
<1>2. ASSUME NEW U \in G, NEW z \in S \ U PROVE U \cup {z} \in G
  <2>1. CASE U = {}
    BY <2>1
  <2>2. CASE U # {}
    <3>1. PICK low \in U, high \in U : \A y \in U : low <= y /\ high >= y
      BY <2>2
    <3>2. \E x \in U \cup {z} : \A y \in U \cup {z} : x <= y
      <4>1. CASE low <= z
        BY <3>1, <4>1
      <4>2. CASE ~(low <= z)
        BY <3>1, <4>2
      <4> QED BY <4>1, <4>2
    <3>3. \E x \in U \cup {z} : \A y \in U \cup {z} : x >= y
      <4>1. CASE high >= z
        BY <3>1, <4>1
      <4>2. CASE ~(high >= z)
        BY <3>1, <4>2
      <4> QED BY <4>1, <4>2
    <3> QED BY <3>2, <3>3
  <2> QED BY <2>1, <2>2
<1>3. S \in G
  <2>1. G \in SUBSET (SUBSET S)
    OBVIOUS
  <2> HIDE DEF G
  <2> QED BY <1>1, <1>2, <2>1, GrowByElements
<1> QED BY <1>3

LEMMA MinAndMax ==
  ASSUME NEW S \in SUBSET Int, IsFiniteSet(S), S # {}
  PROVE  /\ Min(S) \in S /\ \A y \in S : Min(S) <= y
         /\ Max(S) \in S /\ \A y \in S : Max(S) >= y
BY ExtremesExist DEF Min, Max

\* The extremes of a union are those of the extremes of one part and the other part.
LEMMA MinAndMaxOfUnion ==
  ASSUME NEW S \in SUBSET Int, IsFiniteSet(S), S # {}, NEW T \in SUBSET Int, IsFiniteSet(T)
  PROVE  /\ Min({Min(S), Max(S)} \cup T) = Min(S \cup T)
         /\ Max({Min(S), Max(S)} \cup T) = Max(S \cup T)
<1> DEFINE A == {Min(S), Max(S)} \cup T
           B == S \cup T
<1>1. /\ Min(S) \in S /\ \A y \in S : Min(S) <= y
      /\ Max(S) \in S /\ \A y \in S : Max(S) >= y
  BY MinAndMax
<1>2. A \in SUBSET Int /\ B \in SUBSET Int /\ A # {} /\ B # {} /\ A \subseteq B
  BY <1>1
<1>3. IsFiniteSet(B) /\ IsFiniteSet(A)
  BY <1>2, FS_Union, FS_Subset
<1>4. /\ Min(A) \in A /\ \A y \in A : Min(A) <= y
      /\ Max(A) \in A /\ \A y \in A : Max(A) >= y
  <2> HIDE DEF A
  <2> QED BY <1>2, <1>3, MinAndMax
<1>5. /\ Min(B) \in B /\ \A y \in B : Min(B) <= y
      /\ Max(B) \in B /\ \A y \in B : Max(B) >= y
  <2> HIDE DEF B
  <2> QED BY <1>2, <1>3, MinAndMax
<1>6. Min(A) \in B /\ Max(A) \in B
  BY <1>2, <1>4
<1>7. \A y \in B : Min(A) <= y /\ Max(A) >= y
  <2> SUFFICES ASSUME NEW y \in B PROVE Min(A) <= y /\ Max(A) >= y
    OBVIOUS
  <2>1. CASE y \in T
    BY <1>4, <2>1
  <2>2. CASE y \in S
    <3>1. Min(S) <= y /\ Max(S) >= y /\ Min(A) <= Min(S) /\ Max(A) >= Max(S)
      BY <1>1, <1>4, <2>2
    <3>2. Min(S) \in Int /\ Max(S) \in Int /\ Min(A) \in Int /\ Max(A) \in Int /\ y \in Int
      BY <1>1, <1>2, <1>4
    <3> HIDE DEF A
    <3> QED BY <3>1, <3>2
  <2> QED BY <2>1, <2>2
<1>8. Min(A) = Min(B) /\ Max(A) = Max(B)
  <2>1. Min(A) <= Min(B) /\ Min(B) <= Min(A) /\ Max(A) >= Max(B) /\ Max(B) >= Max(A)
    BY <1>5, <1>6, <1>7
  <2>2. Min(A) \in Int /\ Min(B) \in Int /\ Max(A) \in Int /\ Max(B) \in Int
    BY <1>2, <1>5, <1>6
  <2> HIDE DEF A, B
  <2> QED BY <2>1, <2>2
<1> QED BY <1>8

=============================================================================
