----------------------------- MODULE SumProofs ------------------------------
(***************************************************************************)
(* Sums over finite sets: what a change at one argument does to a sum.     *)
(* Sets of numbers: their least and their greatest members.                *)
(***************************************************************************)
EXTENDS Sums, FiniteSetTheorems, WellFoundedInduction, TLAPS

Pick(s) == CHOOSE x \in s : TRUE

\* g adds up f over every subset of S.
Adds(g, f, S) ==
    g = [s \in SUBSET S |-> IF s = {} THEN 0 ELSE f[Pick(s)] + g[s \ {Pick(s)}]]

\* Every set of subsets of a finite set has a smallest member.
LEMMA Smallest ==
    ASSUME NEW S, IsFiniteSet(S), NEW B \in SUBSET (SUBSET S), B # {}
    PROVE  \E T \in B : \A U \in B : U \subseteq T => U = T
<1> DEFINE R == StrictSubsetOrdering(S)
<1>1. IsWellFoundedOn(R, SUBSET S)
  BY FS_StrictSubsetOrderingWellFounded, FS_FiniteSubsetsOfFinite
<1> HIDE DEF R
<1>2. \E T \in B : \A U \in B : ~ (<<U, T>> \in R)
  BY <1>1, WFMin
<1> QED BY <1>2 DEF R, StrictSubsetOrdering

\* The library's sum is the last value of such a function.
LEMMA TotalIs ==
    ASSUME NEW f
    PROVE  Total(f) = (CHOOSE g : Adds(g, f, DOMAIN f))[DOMAIN f]
BY DEF Total, MapThenSumSet, MapThenFoldSet, Adds, Pick

\* Two ways to add up the same function agree.
LEMMA AddsSame ==
    ASSUME NEW S, IsFiniteSet(S), NEW T, S \subseteq T,
           NEW f, NEW g, Adds(g, f, S), NEW h, Adds(h, f, T)
    PROVE  \A s \in SUBSET S : g[s] = h[s]
<1> DEFINE B == {s \in SUBSET S : g[s] # h[s]}
<1> SUFFICES ASSUME B # {} PROVE FALSE
  OBVIOUS
<1>1. PICK s \in B : \A u \in B : u \subseteq s => u = s
  <2> B \in SUBSET (SUBSET S)
    OBVIOUS
  <2> HIDE DEF B
  <2> QED BY Smallest
<1>2. /\ g[s] = IF s = {} THEN 0 ELSE f[Pick(s)] + g[s \ {Pick(s)}]
      /\ h[s] = IF s = {} THEN 0 ELSE f[Pick(s)] + h[s \ {Pick(s)}]
  BY DEF Adds
<1>3. s # {} => Pick(s) \in s
  BY DEF Pick
<1>4. s # {} => g[s \ {Pick(s)}] = h[s \ {Pick(s)}]
  BY <1>1, <1>3
<1> QED BY <1>1, <1>2, <1>4

\* A function can be added up over a finite set.
LEMMA AddsExists ==
    ASSUME NEW S, IsFiniteSet(S), NEW f
    PROVE  \E g : Adds(g, f, S)
<1> DEFINE B == {s \in SUBSET S : ~ \E g : Adds(g, f, s)}
<1> SUFFICES ASSUME B # {} PROVE FALSE
  OBVIOUS
<1>1. PICK T \in B : \A u \in B : u \subseteq T => u = T
  <2> B \in SUBSET (SUBSET S)
    OBVIOUS
  <2> HIDE DEF B
  <2> QED BY Smallest
<1> DEFINE G(u) == CHOOSE g : Adds(g, f, u)
           h == [s \in SUBSET T |-> IF s = {} THEN 0
                  ELSE f[Pick(s)] + G(s \ {Pick(s)})[s \ {Pick(s)}]]
<1>2. \A u \in SUBSET T : u # T => Adds(G(u), f, u)
  BY <1>1
<1>3. ASSUME NEW u \in SUBSET T, u # T PROVE h[u] = G(u)[u]
  <2>1. Adds(G(u), f, u)
    BY <1>2, <1>3
  <2> DEFINE v == u \ {Pick(u)}
  <2>2. G(u)[u] = IF u = {} THEN 0 ELSE f[Pick(u)] + G(u)[v]
    <3> HIDE DEF G
    <3> QED BY <2>1 DEF Adds
  <2>3. u # {} => Adds(G(v), f, v)
    <3>1. u # {} => v # T /\ v \in SUBSET T
      BY DEF Pick
    <3> HIDE DEF G, v
    <3> QED BY <1>2, <3>1
  <2>4. IsFiniteSet(v)
    BY FS_Subset
  <2>5. u # {} => G(v)[v] = G(u)[v]
    <3> HIDE DEF G, h
    <3> QED BY <2>1, <2>3, <2>4, AddsSame
  <2>6. h[u] = IF u = {} THEN 0 ELSE f[Pick(u)] + G(v)[v]
    <3> HIDE DEF G
    <3> QED OBVIOUS
  <2> QED BY <2>2, <2>5, <2>6
<1>4. ASSUME NEW s \in SUBSET T, s # {}
      PROVE  h[s] = f[Pick(s)] + h[s \ {Pick(s)}]
  <2>1. s \ {Pick(s)} \in SUBSET T /\ s \ {Pick(s)} # T
    BY <1>4 DEF Pick
  <2>2. h[s \ {Pick(s)}] = G(s \ {Pick(s)})[s \ {Pick(s)}]
    <3> HIDE DEF G, h
    <3> QED BY <1>3, <2>1
  <2>3. h[s] = f[Pick(s)] + G(s \ {Pick(s)})[s \ {Pick(s)}]
    <3> HIDE DEF G
    <3> QED BY <1>4
  <2> HIDE DEF h, G
  <2> QED BY <2>2, <2>3
<1>5. Adds(h, f, T)
  <2>1. h = [s \in SUBSET T |-> h[s]] /\ h[{}] = 0
    <3> HIDE DEF G
    <3> QED OBVIOUS
  <2> HIDE DEF h, G
  <2>2. \A s \in SUBSET T : h[s] = IF s = {} THEN 0 ELSE f[Pick(s)] + h[s \ {Pick(s)}]
    BY <1>4, <2>1
  <2> QED BY <2>1, <2>2, Zenon DEF Adds
<1> QED BY <1>1, <1>5

Restricted(f, s) == [x \in s |-> f[x]]
\* The sum of f over s.
Part(f, s) == Total(Restricted(f, s))

\* Adding up over a finite set starts from nothing and takes one argument at a time.
LEMMA PartStep ==
    ASSUME NEW S, IsFiniteSet(S), NEW f
    PROVE  Part(f, S) = IF S = {} THEN 0 ELSE f[Pick(S)] + Part(f, S \ {Pick(S)})
<1> DEFINE r(s) == Restricted(f, s)
           g(s) == CHOOSE h : Adds(h, r(s), s)
           U == S \ {Pick(S)}
<1>1. \A s : DOMAIN r(s) = s
  BY DEF Restricted
<1>2. \A s : Part(f, s) = g(s)[s]
  BY <1>1, TotalIs DEF Part
<1>3. IsFiniteSet(U)
  BY FS_Subset
<1>4. Adds(g(S), r(S), S) /\ Adds(g(U), r(U), U)
  BY <1>3, AddsExists
<1>5. Adds(g(U), r(S), U)
  <2> DEFINE k == g(U)
  <2>1. Adds(k, r(U), U)
    BY <1>4
  <2> HIDE DEF k
  <2>2. \A s \in SUBSET U : s # {} => r(S)[Pick(s)] = r(U)[Pick(s)]
    BY DEF Restricted, Pick
  <2>3. k = [s \in SUBSET U |-> k[s]] /\
        \A s \in SUBSET U : k[s] = IF s = {} THEN 0 ELSE r(U)[Pick(s)] + k[s \ {Pick(s)}]
    <3> HIDE DEF r
    <3> QED BY <2>1 DEF Adds
  <2>4. \A s \in SUBSET U : k[s] = IF s = {} THEN 0 ELSE r(S)[Pick(s)] + k[s \ {Pick(s)}]
    <3> HIDE DEF r
    <3> QED BY <2>2, <2>3
  <2>5. Adds(k, r(S), U)
    <3> HIDE DEF r
    <3> QED BY <2>3, <2>4, Zenon DEF Adds
  <2> QED BY <2>5 DEF k
<1>6. g(U)[U] = g(S)[U]
  <2>1. U \subseteq S
    OBVIOUS
  <2> HIDE DEF g, r, U
  <2> QED BY <1>3, <1>4, <1>5, <2>1, AddsSame
<1>7. g(S)[S] = IF S = {} THEN 0 ELSE r(S)[Pick(S)] + g(S)[U]
  <2> HIDE DEF g, r
  <2> QED BY <1>4 DEF Adds
<1>8. S # {} => r(S)[Pick(S)] = f[Pick(S)]
  BY DEF Restricted, Pick
<1> HIDE DEF g, r
<1> QED BY <1>2, <1>6, <1>7, <1>8

\* Sums over a part of integers are integers.
LEMMA PartInt ==
    ASSUME NEW S, IsFiniteSet(S), NEW f, \A x \in S : f[x] \in Int
    PROVE  Part(f, S) \in Int
<1> DEFINE B == {s \in SUBSET S : Part(f, s) \notin Int}
<1> SUFFICES ASSUME B # {} PROVE FALSE
  OBVIOUS
<1>1. PICK s \in B : \A u \in B : u \subseteq s => u = s
  <2> B \in SUBSET (SUBSET S)
    OBVIOUS
  <2> HIDE DEF B
  <2> QED BY Smallest
<1>2. IsFiniteSet(s) /\ s \subseteq S
  BY FS_Subset
<1>3. Part(f, s) = IF s = {} THEN 0 ELSE f[Pick(s)] + Part(f, s \ {Pick(s)})
  BY <1>2, PartStep
<1>4. s # {} => Pick(s) \in s
  BY DEF Pick
<1>5. s # {} => Part(f, s \ {Pick(s)}) \in Int
  BY <1>1, <1>4
<1> QED BY <1>1, <1>2, <1>3, <1>4, <1>5

\* Sums over a part of natural numbers are natural numbers.
LEMMA PartNat ==
    ASSUME NEW S, IsFiniteSet(S), NEW f, \A x \in S : f[x] \in Nat
    PROVE  Part(f, S) \in Nat
<1> DEFINE B == {s \in SUBSET S : Part(f, s) \notin Nat}
<1> SUFFICES ASSUME B # {} PROVE FALSE
  OBVIOUS
<1>1. PICK s \in B : \A u \in B : u \subseteq s => u = s
  <2> B \in SUBSET (SUBSET S)
    OBVIOUS
  <2> HIDE DEF B
  <2> QED BY Smallest
<1>2. IsFiniteSet(s) /\ s \subseteq S
  BY FS_Subset
<1>3. Part(f, s) = IF s = {} THEN 0 ELSE f[Pick(s)] + Part(f, s \ {Pick(s)})
  BY <1>2, PartStep
<1>4. s # {} => Pick(s) \in s
  BY DEF Pick
<1>5. s # {} => Part(f, s \ {Pick(s)}) \in Nat
  BY <1>1, <1>4
<1> QED BY <1>1, <1>2, <1>3, <1>4, <1>5

\* The order in which arguments are taken does not matter.
LEMMA PartTake ==
    ASSUME NEW S, IsFiniteSet(S), NEW f, \A x \in S : f[x] \in Int, NEW x \in S
    PROVE  Part(f, S) = f[x] + Part(f, S \ {x})
<1> DEFINE Fine(s) == \A y \in s : Part(f, s) = f[y] + Part(f, s \ {y})
           B == {s \in SUBSET S : ~Fine(s)}
<1> SUFFICES ASSUME B # {} PROVE FALSE
  OBVIOUS
<1>1. PICK s \in B : \A u \in B : u \subseteq s => u = s
  <2> B \in SUBSET (SUBSET S)
    OBVIOUS
  <2> HIDE DEF B
  <2> QED BY Smallest
<1>2. PICK y \in s : Part(f, s) # f[y] + Part(f, s \ {y})
  OBVIOUS
<1> DEFINE c == Pick(s)
<1>3. c \in s
  BY DEF Pick
<1> HIDE DEF c
<1>4. \A u \in SUBSET S : IsFiniteSet(u) /\ Part(f, u) \in Int
  <2> TAKE u \in SUBSET S
  <2>1. IsFiniteSet(u)
    BY FS_Subset
  <2> QED BY <2>1, PartInt
<1>5. Part(f, s) = f[c] + Part(f, s \ {c})
  BY <1>3, <1>4, PartStep DEF c
<1>6. c # y
  BY <1>2, <1>5
<1>7. Fine(s \ {c}) /\ Fine(s \ {y})
  BY <1>1, <1>3
<1>8. /\ Part(f, s \ {c}) = f[y] + Part(f, (s \ {c}) \ {y})
      /\ Part(f, s \ {y}) = f[c] + Part(f, (s \ {y}) \ {c})
  BY <1>3, <1>6, <1>7
<1>9. (s \ {c}) \ {y} = (s \ {y}) \ {c}
  OBVIOUS
<1>10. /\ f[c] \in Int /\ f[y] \in Int /\ Part(f, (s \ {y}) \ {c}) \in Int
  BY <1>3, <1>4
<1>11. f[y] + Part(f, s \ {y}) = f[c] + Part(f, s \ {c})
  <2> DEFINE n == Part(f, (s \ {y}) \ {c})
  <2>1. /\ Part(f, s \ {c}) = f[y] + n /\ Part(f, s \ {y}) = f[c] + n /\ n \in Int
    BY <1>8, <1>9, <1>10
  <2> HIDE DEF n
  <2> QED BY <1>10, <2>1
<1> QED BY <1>2, <1>5, <1>11

-----------------------------------------------------------------------------
(* Sums of functions.                                                      *)

\* The sum of a function is its sum over its domain.
LEMMA TotalPart == ASSUME NEW S, NEW f, f = [x \in S |-> f[x]] PROVE Total(f) = Part(f, S)
BY DEF Part, Restricted

\* The empty sum.
LEMMA TotalEmpty == ASSUME NEW f, f = [x \in {} |-> f[x]] PROVE Total(f) = 0
BY TotalPart, PartStep, FS_EmptySet

\* Sums of integers are integers.
LEMMA TotalInt == ASSUME NEW S, IsFiniteSet(S), NEW f \in [S -> Int] PROVE Total(f) \in Int
BY TotalPart, PartInt

\* Sums of natural numbers are natural numbers.
LEMMA TotalNat == ASSUME NEW S, IsFiniteSet(S), NEW f \in [S -> Nat] PROVE Total(f) \in Nat
BY TotalPart, PartNat

\* Only the values over the part count.
LEMMA PartAgree ==
    ASSUME NEW S, NEW f, NEW g, \A x \in S : f[x] = g[x] PROVE Part(f, S) = Part(g, S)
<1> Restricted(f, S) = Restricted(g, S)
  BY DEF Restricted
<1> QED BY DEF Part

\* One more argument adds its value.
LEMMA TotalMore ==
    ASSUME NEW S, IsFiniteSet(S), NEW x, x \notin S, NEW f \in [S -> Int],
           NEW T, T = S \cup {x}, NEW g \in [T -> Int], \A y \in S : g[y] = f[y]
    PROVE  Total(g) = Total(f) + g[x]
<1>1. IsFiniteSet(S \cup {x})
  BY FS_AddElement
<1>2. Part(g, S \cup {x}) = g[x] + Part(g, (S \cup {x}) \ {x})
  BY <1>1, PartTake
<1>3. (S \cup {x}) \ {x} = S
  OBVIOUS
<1>4. Part(g, S) = Part(f, S)
  BY PartAgree
<1>5. Total(g) = Part(g, S \cup {x}) /\ Total(f) = Part(f, S)
  <2>1. Total(g) = Part(g, S \cup {x})
    BY TotalPart
  <2>2. Total(f) = Part(f, S)
    BY TotalPart
  <2> QED BY <2>1, <2>2
<1>6. Total(f) \in Int
  BY TotalInt
<1>7. g[x] \in Int
  OBVIOUS
<1>8. Total(g) = g[x] + Total(f)
  BY <1>2, <1>3, <1>4, <1>5
<1> QED BY <1>6, <1>7, <1>8

\* A change at one argument moves the sum by as much.
LEMMA TotalChange ==
    ASSUME NEW S, IsFiniteSet(S), NEW x \in S, NEW f \in [S -> Int], NEW g \in [S -> Int],
           \A y \in S \ {x} : g[y] = f[y]
    PROVE  Total(g) = Total(f) - f[x] + g[x]
<1>1. Total(g) = g[x] + Part(g, S \ {x})
  BY TotalPart, PartTake
<1>2. Total(f) = f[x] + Part(f, S \ {x})
  BY TotalPart, PartTake
<1>3. Part(g, S \ {x}) = Part(f, S \ {x})
  BY PartAgree
<1>4. IsFiniteSet(S \ {x})
  BY FS_Subset
<1>5. Part(f, S \ {x}) \in Int
  BY <1>4, PartInt
<1>6. f[x] \in Int /\ g[x] \in Int
  OBVIOUS
<1> QED BY <1>1, <1>2, <1>3, <1>5, <1>6

\* Fewer arguments with natural values never add up to more.
LEMMA TotalLess ==
    ASSUME NEW S, IsFiniteSet(S), NEW T \in SUBSET S, NEW f \in [S -> Nat], NEW g \in [T -> Nat],
           \A y \in T : g[y] <= f[y]
    PROVE  Total(g) <= Total(f)
<1> DEFINE B == {s \in SUBSET S : ~ (Part(g, s \cap T) <= Part(f, s))}
<1>0. ASSUME B # {} PROVE FALSE
  <2>1. PICK s \in B : \A u \in B : u \subseteq s => u = s
    <3> B \in SUBSET (SUBSET S)
      OBVIOUS
    <3> HIDE DEF B
    <3> QED BY <1>0, Smallest
  <2> DEFINE c == Pick(s)  v == s \ {c}
  <2>2. s # {} => c \in s
    BY DEF Pick
  <2> HIDE DEF c
  <2>3. IsFiniteSet(s) /\ IsFiniteSet(s \cap T) /\ IsFiniteSet(v) /\ IsFiniteSet(v \cap T)
    <3>1. s \in SUBSET S /\ s \cap T \in SUBSET S /\ v \in SUBSET S /\ v \cap T \in SUBSET S
      OBVIOUS
    <3> QED BY <3>1, FS_Subset
  <2>4. s = {} => Part(f, s) = 0 /\ Part(g, s \cap T) = 0
    <3>1. Part(f, {}) = 0 /\ Part(g, {}) = 0
      BY PartStep, FS_EmptySet
    <3> QED BY <3>1
  <2>5. s # {}
    BY <2>1, <2>4
  <2>6. Part(f, s) = f[c] + Part(f, v)
    <3>1. \A y \in s : f[y] \in Int
      OBVIOUS
    <3> QED BY <2>2, <2>3, <2>5, <3>1, PartTake
  <2>7. Part(g, s \cap T) = IF c \in T THEN g[c] + Part(g, v \cap T) ELSE Part(g, v \cap T)
    <3>1. CASE c \in T
      <4>1. \A y \in s \cap T : g[y] \in Int
        OBVIOUS
      <4>2. (s \cap T) \ {c} = v \cap T
        OBVIOUS
      <4>3. c \in s \cap T
        BY <2>2, <2>5, <3>1
      <4>4. Part(g, s \cap T) = g[c] + Part(g, (s \cap T) \ {c})
        BY <2>3, <4>1, <4>3, PartTake
      <4> QED BY <3>1, <4>2, <4>4
    <3>2. CASE c \notin T
      <4>1. s \cap T = v \cap T
        BY <3>2
      <4> QED BY <3>2, <4>1
    <3> QED BY <3>1, <3>2
  <2>8. Part(g, v \cap T) <= Part(f, v)
    <3>1. v # s /\ v \subseteq s /\ v \in SUBSET S
      BY <2>2, <2>5
    <3> QED BY <2>1, <3>1
  <2>9. Part(g, v \cap T) \in Nat /\ Part(f, v) \in Nat
    <3>1. \A y \in v : f[y] \in Nat
      OBVIOUS
    <3>2. \A y \in v \cap T : g[y] \in Nat
      OBVIOUS
    <3>3. Part(f, v) \in Nat
      BY <2>3, <3>1, PartNat
    <3>4. Part(g, v \cap T) \in Nat
      BY <2>3, <3>2, PartNat
    <3> QED BY <3>3, <3>4
  <2>10. f[c] \in Nat /\ (c \in T => g[c] \in Nat /\ g[c] <= f[c])
    BY <2>2, <2>5
  <2>11. ~ (Part(g, s \cap T) <= Part(f, s))
    BY <2>1
  <2> HIDE DEF v, B
  <2> QED BY <2>6, <2>7, <2>8, <2>9, <2>10, <2>11
<1>1. Part(g, S \cap T) <= Part(f, S)
  BY <1>0
<1>2. S \cap T = T
  OBVIOUS
<1>3. Total(f) = Part(f, S)
  BY TotalPart
<1>4. Total(g) = Part(g, T)
  BY TotalPart
<1> QED BY <1>1, <1>2, <1>3, <1>4

\* No value is more than the sum.
LEMMA TotalBounds ==
    ASSUME NEW S, IsFiniteSet(S), NEW f \in [S -> Nat], NEW x \in S
    PROVE  f[x] <= Total(f)
<1>1. Total(f) = f[x] + Part(f, S \ {x})
  BY TotalPart, PartTake
<1>2. IsFiniteSet(S \ {x})
  BY FS_Subset
<1>3. Part(f, S \ {x}) \in Nat
  BY <1>2, PartNat
<1>4. f[x] \in Nat
  OBVIOUS
<1> QED BY <1>1, <1>3, <1>4

\* A set of numbers that is not empty has a least one.
LEMMA MinIn ==
  ASSUME NEW S, S \subseteq Nat, S # {}
  PROVE  Min(S) \in S /\ \A y \in S : Min(S) <= y
<1> DEFINE R == OpToRel(<, Nat)
<1>1. \E x \in S : \A y \in S : ~(<<y, x>> \in R)
  BY NatLessThanWellFounded, WFMin
<1>2. ASSUME NEW a \in Nat, NEW b \in Nat, a < b
      PROVE  <<a, b>> \in R
  BY <1>2 DEF OpToRel
<1> HIDE DEF R
<1>3. PICK x \in S : \A y \in S : ~(<<y, x>> \in R)
  BY <1>1
<1>4. ASSUME NEW y \in S PROVE x <= y
  <2>1. x \in Nat /\ y \in Nat
    OBVIOUS
  <2>2. ~(<<y, x>> \in R)
    BY <1>3
  <2>3. y < x => <<y, x>> \in R
    BY <1>2, <2>1
  <2> QED BY <2>1, <2>2, <2>3
<1> QED BY <1>4 DEF Min

\* A bounded one has a greatest.
LEMMA MaxIn ==
  ASSUME NEW S, NEW n \in Nat, S \subseteq 1 .. n, S # {}
  PROVE  Max(S) \in S /\ \A y \in S : y <= Max(S)
<1> DEFINE T == {n - x : x \in S}
<1>0. \A x \in S : n - x \in Nat
  OBVIOUS
<1>1. T \subseteq Nat /\ T # {}
  BY <1>0
<1>2. Min(T) \in T /\ \A y \in T : Min(T) <= y
  BY <1>1, MinIn
<1>3. PICK x \in S : Min(T) = n - x
  BY <1>2
<1>4. \A y \in S : n - y \in T /\ n - x <= n - y
  BY <1>2, <1>3
<1>5. \A y \in S : x >= y
  BY <1>4
<1> QED BY <1>5 DEF Max

\* The same, without its name.
LEMMA LeastIs ==
  ASSUME NEW S, S \subseteq Nat, S # {}
  PROVE  \E m \in S : m \in Nat /\ \A y \in S : m <= y
BY MinIn

\* What n indices are enough to enumerate has at most n members.
LEMMA AtMost ==
  ASSUME NEW n \in Nat, NEW S, NEW g, \A x \in S : \E i \in 1 .. n : g[i] = x
  PROVE  IsFiniteSet(S) /\ Cardinality(S) \in Nat /\ Cardinality(S) <= n
<1> DEFINE f == [x \in S |-> CHOOSE i \in 1 .. n : g[i] = x]
<1>1. \A x \in S : f[x] \in 1 .. n /\ g[f[x]] = x
  OBVIOUS
<1>2. f \in [S -> 1 .. n]
  BY <1>1
<1>3. \A x, y \in S : f[x] = f[y] => x = y
  BY <1>1
<1> HIDE DEF f
<1>4. f \in Injection(S, 1 .. n)
  BY <1>2, <1>3 DEF Injection, IsInjective
<1>5. IsFiniteSet(1 .. n) /\ Cardinality(1 .. n) = n
  BY FS_Interval
<1>6. IsFiniteSet(S) /\ Cardinality(S) <= Cardinality(1 .. n)
  BY <1>4, <1>5, FS_Injection
<1> QED BY <1>5, <1>6, FS_CardinalityType
=============================================================================
