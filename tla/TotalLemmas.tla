----------------------------- MODULE TotalLemmas -----------------------------
(***************************************************************************)
(* What a finite set of amounts sums up to.  FoldFunction is a CHOOSE of a *)
(* recursive function; the lemmas find that function, and turn it into     *)
(* facts about totals.  Every induction here is over a set that the        *)
(* library's well-founded minimum is applied to.                           *)
(***************************************************************************)
EXTENDS Integers, Functions, FiniteSetTheorems, TLAPS

\* A set of naturals that is not empty has a least member.
LEMMA LeastNatural ==
  ASSUME NEW T, T \subseteq Nat, T # {}
  PROVE  \E n \in T : \A m \in T : n <= m
<1> DEFINE R == OpToRel(<, Nat)
<1>1. IsWellFoundedOn(R, Nat)
  BY NatLessThanWellFounded
<1> HIDE DEF R
<1>2. PICK n \in T : \A m \in T : <<m, n>> \notin R
  BY <1>1, WFMin
<1>3. \A m \in T : ~ (m < n)
  BY <1>2 DEF R, OpToRel
<1> QED
  BY <1>3

\* Induction along the naturals, for a set of them.
LEMMA NaturalsByInduction ==
  ASSUME NEW T, 0 \in T, \A n \in Nat : n \in T => n + 1 \in T
  PROVE  \A n \in Nat : n \in T
<1> SUFFICES ASSUME Nat \ T # {} PROVE FALSE
  OBVIOUS
<1>1. PICK n \in Nat \ T : \A m \in Nat \ T : n <= m
  BY LeastNatural
<1>2. n # 0 /\ n - 1 \in Nat
  BY <1>1
<1>3. n - 1 \in T
  BY <1>1, <1>2
<1> QED
  BY <1>1, <1>2, <1>3

\* Induction along the subsets of a finite set, by size.
LEMMA SubsetsByInduction ==
  ASSUME NEW S, IsFiniteSet(S), NEW T,
         \A s \in SUBSET S : (\A x \in s : s \ {x} \in T) => s \in T
  PROVE  \A s \in SUBSET S : s \in T
<1> DEFINE N == {n \in Nat : \A s \in SUBSET S : Cardinality(s) <= n => s \in T}
<1>1. \A s \in SUBSET S : IsFiniteSet(s) /\ Cardinality(s) \in Nat
  BY FS_Subset, FS_CardinalityType
<1>2. {} \in T
  OBVIOUS
<1>3. 0 \in N
  BY <1>1, <1>2, FS_EmptySet
<1>4. ASSUME NEW n \in N PROVE n + 1 \in N
  <2> SUFFICES ASSUME NEW s \in SUBSET S, Cardinality(s) <= n + 1 PROVE s \in T
    OBVIOUS
  <2>1. \A x \in s : Cardinality(s \ {x}) = Cardinality(s) - 1
    BY <1>1, FS_RemoveElement
  <2>2. \A x \in s : s \ {x} \in T
    BY <1>1, <2>1
  <2> QED
    BY <2>2
<1> HIDE DEF N
<1>5. \A n \in Nat : n \in N
  BY <1>3, <1>4, NaturalsByInduction
<1>6. QED
  BY <1>1, <1>5 DEF N

-----------------------------------------------------------------------------
\* The member of s the fold takes out first.
First(s) == CHOOSE x \in s : TRUE

\* One step of the recursion.
Adds(f, S, it) ==
  it = [s \in SUBSET S |-> IF s = {} THEN 0 ELSE f[First(s)] + it[s \ {First(s)}]]

\* What the fold computes, for every subset of S: an it that the recursion defines.
Iter(f, S) == CHOOSE it : Adds(f, S, it)

\* The fold of the community modules is that recursion.
LEMMA TotalIsIter ==
  ASSUME NEW f PROVE FoldFunction(+, 0, f) = Iter(f, DOMAIN f)[DOMAIN f]
BY DEF FoldFunction, FoldFunctionOnSet, MapThenFoldSet, Iter, Adds, First

\* Some function satisfies the recursion, so that the CHOOSE in Iter has a witness:
\* it is built for the subsets of at most n members, one n after the other.
LEMMA IterExists ==
  ASSUME NEW S, IsFiniteSet(S), NEW f
  PROVE  \E it : Adds(f, S, it)
<1> DEFINE D(n) == {s \in SUBSET S : Cardinality(s) <= n}
           Val(g, s) == IF s = {} THEN 0 ELSE f[First(s)] + g[s \ {First(s)}]
           N == {n \in Nat : \E g : g = [s \in D(n) |-> Val(g, s)]}
<1>1. \A s \in SUBSET S : IsFiniteSet(s) /\ Cardinality(s) \in Nat
  BY FS_Subset, FS_CardinalityType
<1>2. \A s \in SUBSET S : s # {} => First(s) \in s
  BY DEF First
<1>3. 0 \in N
  <2>1. \A s \in D(0) : s = {}
    BY <1>1, FS_EmptySet
  <2>2. [s \in D(0) |-> 0] = [s \in D(0) |-> Val([t \in D(0) |-> 0], s)]
    BY <2>1
  <2> QED
    BY <2>2
<1>4. ASSUME NEW n \in N PROVE n + 1 \in N
  <2>1. PICK g : g = [s \in D(n) |-> Val(g, s)]
    OBVIOUS
  <2> DEFINE h == [s \in D(n + 1) |-> Val(g, s)]
  <2>2. \A s \in D(n) : g[s] = Val(g, s)
    BY <2>1
  <2>3. \A s \in D(n) : s \in D(n + 1)
    BY <1>1
  <2>4. \A s \in D(n) : h[s] = g[s]
    BY <2>2, <2>3
  <2>5. ASSUME NEW s \in D(n + 1), s # {} PROVE s \ {First(s)} \in D(n)
    <3>1. Cardinality(s \ {First(s)}) = Cardinality(s) - 1
      BY <1>1, <1>2, <2>5, FS_RemoveElement
    <3> QED
      BY <1>1, <3>1
  <2>6. ASSUME NEW s \in D(n + 1) PROVE Val(g, s) = Val(h, s)
    <3>1. CASE s = {}
      BY <3>1
    <3>2. CASE s # {}
      <4>1. h[s \ {First(s)}] = g[s \ {First(s)}]
        BY <2>4, <2>5, <3>2
      <4> QED
        BY <4>1, <3>2
    <3> QED
      BY <3>1, <3>2
  <2>7. h = [s \in D(n + 1) |-> Val(h, s)]
    BY <2>6
  <2> HIDE DEF h, Val, D
  <2>8. \E k : k = [s \in D(n + 1) |-> Val(k, s)]
    BY <2>7
  <2> QED
    BY <2>8
<1>5. Cardinality(S) \in N
  <2> HIDE DEF N
  <2> QED
    BY <1>3, <1>4, NaturalsByInduction, FS_CardinalityType
<1>6. D(Cardinality(S)) = SUBSET S
  BY FS_Subset
<1> QED
  BY <1>5, <1>6 DEF Adds

\* The recursion, as equations.
LEMMA IterAdds ==
  ASSUME NEW S, IsFiniteSet(S), NEW f
  PROVE  /\ Iter(f, S)[{}] = 0
         /\ \A s \in SUBSET S : s # {} =>
              First(s) \in s /\ Iter(f, S)[s] = f[First(s)] + Iter(f, S)[s \ {First(s)}]
<1>1. Adds(f, S, Iter(f, S))
  BY IterExists DEF Iter
<1>2. \A s \in SUBSET S : Iter(f, S)[s] = IF s = {} THEN 0 ELSE f[First(s)] + Iter(f, S)[s \ {First(s)}]
  BY <1>1 DEF Adds
<1> QED
  BY <1>2 DEF First

\* Integer summands have an integer total.
LEMMA IterInt ==
  ASSUME NEW S, IsFiniteSet(S), NEW f, \A x \in S : f[x] \in Int
  PROVE  \A s \in SUBSET S : Iter(f, S)[s] \in Int
<1> DEFINE it == Iter(f, S)
           T == {s \in SUBSET S : it[s] \in Int}
<1>1. /\ it[{}] = 0
      /\ \A s \in SUBSET S : s # {} =>
           First(s) \in s /\ it[s] = f[First(s)] + it[s \ {First(s)}]
  BY IterAdds
<1> HIDE DEF it
<1>2. ASSUME NEW s \in SUBSET S, \A x \in s : s \ {x} \in T
      PROVE  s \in T
  <2>1. CASE s = {}
    BY <1>1, <2>1
  <2>2. CASE s # {}
    <3>1. First(s) \in s /\ it[s] = f[First(s)] + it[s \ {First(s)}]
      BY <1>1, <2>2
    <3>2. f[First(s)] \in Int /\ it[s \ {First(s)}] \in Int
      BY <1>2, <3>1
    <3> QED
      BY <3>1, <3>2
  <2> QED
    BY <2>1, <2>2
<1> HIDE DEF T
<1>3. \A s \in SUBSET S : s \in T
  BY <1>2, SubsetsByInduction
<1> QED
  BY <1>3 DEF T, it

\* Any element may be taken out first.
LEMMA IterPick ==
  ASSUME NEW S, IsFiniteSet(S), NEW f, \A x \in S : f[x] \in Int
  PROVE  \A s \in SUBSET S : \A x \in s : Iter(f, S)[s] = f[x] + Iter(f, S)[s \ {x}]
<1> DEFINE it == Iter(f, S)
           T == {s \in SUBSET S : \A x \in s : it[s] = f[x] + it[s \ {x}]}
<1>1. /\ it[{}] = 0
      /\ \A s \in SUBSET S : s # {} =>
           First(s) \in s /\ it[s] = f[First(s)] + it[s \ {First(s)}]
  BY IterAdds
<1>2. \A s \in SUBSET S : it[s] \in Int
  BY IterInt
<1> HIDE DEF it
<1>3. ASSUME NEW s \in SUBSET S, \A x \in s : s \ {x} \in T, NEW x \in s
      PROVE  it[s] = f[x] + it[s \ {x}]
  <2> DEFINE a == First(s)
             c == (s \ {x}) \ {a}
  <2>1. a \in s /\ it[s] = f[a] + it[s \ {a}]
    BY <1>1, <1>3
  <2> HIDE DEF a
  <2>2. CASE x = a
    BY <2>1, <2>2
  <2>3. CASE x # a
    <3>1. a \in s \ {x} /\ x \in s \ {a} /\ (s \ {a}) \ {x} = c
      BY <2>1, <2>3
    <3>2. it[s \ {x}] = f[a] + it[c]
      BY <1>3, <3>1
    <3>3. it[s \ {a}] = f[x] + it[c]
      BY <1>3, <2>1, <3>1
    <3>4. f[a] \in Int /\ f[x] \in Int /\ it[c] \in Int
      BY <1>2, <2>1
    <3> HIDE DEF T, c
    <3> QED
      BY <2>1, <3>2, <3>3, <3>4
  <2> QED
    BY <2>2, <2>3
<1>4. \A s \in SUBSET S : (\A x \in s : s \ {x} \in T) => s \in T
  BY <1>3
<1> HIDE DEF T
<1>5. \A s \in SUBSET S : s \in T
  BY <1>4, SubsetsByInduction
<1> QED
  BY <1>5 DEF T, it

\* The recursion depends on the summands in the set only.
LEMMA IterAgrees ==
  ASSUME NEW S, IsFiniteSet(S), NEW f, NEW P \in SUBSET S, NEW g, \A x \in P : g[x] = f[x]
  PROVE  \A s \in SUBSET P : Iter(f, S)[s] = Iter(g, P)[s]
<1> DEFINE it == Iter(f, S)
           jt == Iter(g, P)
           T == {s \in SUBSET P : it[s] = jt[s]}
<1>1. IsFiniteSet(P)
  BY FS_Subset
<1>2. /\ it[{}] = 0
      /\ \A s \in SUBSET P : s # {} =>
           First(s) \in s /\ it[s] = f[First(s)] + it[s \ {First(s)}]
  BY IterAdds
<1>3. /\ jt[{}] = 0
      /\ \A s \in SUBSET P : s # {} =>
           First(s) \in s /\ jt[s] = g[First(s)] + jt[s \ {First(s)}]
  BY <1>1, IterAdds
<1> HIDE DEF it, jt
<1>4. ASSUME NEW s \in SUBSET P, \A x \in s : s \ {x} \in T
      PROVE  s \in T
  <2>1. CASE s = {}
    BY <1>2, <1>3, <2>1
  <2>2. CASE s # {}
    <3>1. First(s) \in s /\ it[s \ {First(s)}] = jt[s \ {First(s)}]
      BY <1>2, <1>4, <2>2
    <3>2. g[First(s)] = f[First(s)]
      BY <3>1
    <3> QED
      BY <1>2, <1>3, <2>2, <3>1, <3>2
  <2> QED
    BY <2>1, <2>2
<1> HIDE DEF T
<1>5. \A s \in SUBSET P : s \in T
  BY <1>1, <1>4, SubsetsByInduction
<1> QED
  BY <1>5 DEF T, it, jt

-----------------------------------------------------------------------------
\* What f sums up to over s.
TotalOver(f, s) == FoldFunction(+, 0, [x \in s |-> f[x]])

\* A total over a subset is the recursion's value for it.
LEMMA TotalOverIsIter ==
  ASSUME NEW S, IsFiniteSet(S), NEW f, NEW s \in SUBSET S
  PROVE  TotalOver(f, s) = Iter(f, S)[s]
<1> DEFINE g == [x \in s |-> f[x]]
<1>1. DOMAIN g = s /\ \A x \in s : g[x] = f[x]
  OBVIOUS
<1> HIDE DEF g
<1>2. Iter(f, S)[s] = Iter(g, s)[s]
  BY <1>1, IterAgrees
<1>3. FoldFunction(+, 0, g) = Iter(g, s)[s]
  BY <1>1, TotalIsIter
<1> QED
  BY <1>2, <1>3 DEF TotalOver, g

\* A total is the total of what remains and what is taken out, whichever that is.
LEMMA TotalPick ==
  ASSUME NEW S, IsFiniteSet(S), NEW f, \A x \in S : f[x] \in Int
  PROVE  /\ TotalOver(f, {}) = 0
         /\ \A s \in SUBSET S : TotalOver(f, s) \in Int
         /\ \A s \in SUBSET S : \A x \in s :
              TotalOver(f, s) = f[x] + TotalOver(f, s \ {x})
<1>1. \A s \in SUBSET S : TotalOver(f, s) = Iter(f, S)[s]
  BY TotalOverIsIter
<1>2. Iter(f, S)[{}] = 0
  BY IterAdds
<1>3. /\ \A s \in SUBSET S : Iter(f, S)[s] \in Int
      /\ \A s \in SUBSET S : \A x \in s : Iter(f, S)[s] = f[x] + Iter(f, S)[s \ {x}]
  BY IterInt, IterPick
<1>4. \A s \in SUBSET S : \A x \in s : TotalOver(f, s) = f[x] + TotalOver(f, s \ {x})
  BY <1>1, <1>3
<1> QED
  BY <1>1, <1>2, <1>3, <1>4

\* Summands that are equal have equal totals.
LEMMA TotalSame ==
  ASSUME NEW s, NEW f, NEW g, \A x \in s : f[x] = g[x]
  PROVE  TotalOver(f, s) = TotalOver(g, s)
<1>1. [x \in s |-> f[x]] = [x \in s |-> g[x]]
  OBVIOUS
<1> QED
  BY <1>1 DEF TotalOver

-----------------------------------------------------------------------------
\* Naturals sum up to one, not less than any of them or than what some of them make.
LEMMA TotalNat ==
  ASSUME NEW S, IsFiniteSet(S), NEW f, \A x \in S : f[x] \in Nat
  PROVE  \A s \in SUBSET S : /\ TotalOver(f, s) \in Nat
                             /\ \A x \in s : f[x] <= TotalOver(f, s)
<1> DEFINE T == {s \in SUBSET S : TotalOver(f, s) \in Nat}
<1>1. /\ TotalOver(f, {}) = 0
      /\ \A s \in SUBSET S : \A x \in s : TotalOver(f, s) = f[x] + TotalOver(f, s \ {x})
  BY TotalPick
<1>2. ASSUME NEW s \in SUBSET S, \A x \in s : s \ {x} \in T
      PROVE  s \in T
  <2>1. CASE s = {}
    BY <1>1, <2>1
  <2>2. CASE s # {}
    <3>1. PICK x \in s : TRUE
      BY <2>2
    <3>2. TotalOver(f, s) = f[x] + TotalOver(f, s \ {x})
      BY <1>1
    <3>3. f[x] \in Nat /\ TotalOver(f, s \ {x}) \in Nat
      BY <1>2, <3>1
    <3> QED
      BY <3>2, <3>3
  <2> QED
    BY <2>1, <2>2
<1> HIDE DEF T
<1>3. \A s \in SUBSET S : s \in T
  BY <1>2, SubsetsByInduction
<1>4. \A s \in SUBSET S : TotalOver(f, s) \in Nat
  BY <1>3 DEF T
<1>5. ASSUME NEW s \in SUBSET S, NEW x \in s
      PROVE  f[x] <= TotalOver(f, s)
  <2>1. TotalOver(f, s) = f[x] + TotalOver(f, s \ {x})
    BY <1>1
  <2>2. f[x] \in Nat /\ TotalOver(f, s \ {x}) \in Nat
    BY <1>4
  <2> QED
    BY <2>1, <2>2
<1> QED
  BY <1>4, <1>5

\* Summands that do not exceed others have a total that does not exceed theirs.
LEMMA TotalMonotone ==
  ASSUME NEW S, IsFiniteSet(S), NEW f, NEW g,
         \A x \in S : f[x] \in Int /\ g[x] \in Int /\ f[x] <= g[x]
  PROVE  TotalOver(f, S) <= TotalOver(g, S)
<1> DEFINE T == {s \in SUBSET S : TotalOver(f, s) <= TotalOver(g, s)}
<1>1. /\ TotalOver(f, {}) = 0
      /\ \A s \in SUBSET S : TotalOver(f, s) \in Int
      /\ \A s \in SUBSET S : \A x \in s : TotalOver(f, s) = f[x] + TotalOver(f, s \ {x})
  BY TotalPick
<1>2. /\ TotalOver(g, {}) = 0
      /\ \A s \in SUBSET S : TotalOver(g, s) \in Int
      /\ \A s \in SUBSET S : \A x \in s : TotalOver(g, s) = g[x] + TotalOver(g, s \ {x})
  BY TotalPick
<1>3. ASSUME NEW s \in SUBSET S, \A x \in s : s \ {x} \in T
      PROVE  s \in T
  <2>1. CASE s = {}
    BY <1>1, <1>2, <2>1
  <2>2. CASE s # {}
    <3>1. PICK x \in s : TRUE
      BY <2>2
    <3>2. /\ TotalOver(f, s) = f[x] + TotalOver(f, s \ {x})
          /\ TotalOver(g, s) = g[x] + TotalOver(g, s \ {x})
      BY <1>1, <1>2
    <3>3. /\ f[x] \in Int /\ g[x] \in Int /\ f[x] <= g[x]
          /\ TotalOver(f, s \ {x}) \in Int /\ TotalOver(g, s \ {x}) \in Int
      BY <1>1, <1>2, <3>1
    <3>4. TotalOver(f, s \ {x}) <= TotalOver(g, s \ {x})
      BY <1>3, <3>1
    <3>5. TotalOver(f, s) <= TotalOver(g, s)
      BY <3>2, <3>3, <3>4
    <3> QED
      BY <3>5
  <2> QED
    BY <2>1, <2>2
<1> HIDE DEF T
<1>4. \A s \in SUBSET S : s \in T
  BY <1>3, SubsetsByInduction
<1> QED
  BY <1>4 DEF T

\* The total of sums is the sum of the totals.
LEMMA TotalSum ==
  ASSUME NEW S, IsFiniteSet(S), NEW f, NEW g, NEW h,
         \A x \in S : f[x] \in Int /\ g[x] \in Int /\ h[x] = f[x] + g[x]
  PROVE  TotalOver(h, S) = TotalOver(f, S) + TotalOver(g, S)
<1> DEFINE T == {s \in SUBSET S : TotalOver(h, s) = TotalOver(f, s) + TotalOver(g, s)}
<1>1. /\ TotalOver(f, {}) = 0
      /\ \A s \in SUBSET S : TotalOver(f, s) \in Int
      /\ \A s \in SUBSET S : \A x \in s : TotalOver(f, s) = f[x] + TotalOver(f, s \ {x})
  BY TotalPick
<1>2. /\ TotalOver(g, {}) = 0
      /\ \A s \in SUBSET S : TotalOver(g, s) \in Int
      /\ \A s \in SUBSET S : \A x \in s : TotalOver(g, s) = g[x] + TotalOver(g, s \ {x})
  BY TotalPick
<1>3. /\ TotalOver(h, {}) = 0
      /\ \A s \in SUBSET S : TotalOver(h, s) \in Int
      /\ \A s \in SUBSET S : \A x \in s : TotalOver(h, s) = h[x] + TotalOver(h, s \ {x})
  <2>1. \A x \in S : h[x] \in Int
    OBVIOUS
  <2> QED
    BY <2>1, TotalPick
<1>4. ASSUME NEW s \in SUBSET S, \A x \in s : s \ {x} \in T
      PROVE  s \in T
  <2>1. CASE s = {}
    BY <1>1, <1>2, <1>3, <2>1
  <2>2. CASE s # {}
    <3>1. PICK x \in s : TRUE
      BY <2>2
    <3>2. /\ TotalOver(f, s) = f[x] + TotalOver(f, s \ {x})
          /\ TotalOver(g, s) = g[x] + TotalOver(g, s \ {x})
          /\ TotalOver(h, s) = h[x] + TotalOver(h, s \ {x})
      BY <1>1, <1>2, <1>3
    <3>3. /\ f[x] \in Int /\ g[x] \in Int /\ h[x] = f[x] + g[x]
          /\ TotalOver(f, s \ {x}) \in Int /\ TotalOver(g, s \ {x}) \in Int
      BY <1>1, <1>2, <3>1
    <3>4. TotalOver(h, s \ {x}) = TotalOver(f, s \ {x}) + TotalOver(g, s \ {x})
      BY <1>4, <3>1
    <3>5. TotalOver(h, s) = TotalOver(f, s) + TotalOver(g, s)
      BY <3>2, <3>3, <3>4
    <3> QED
      BY <3>5
  <2> QED
    BY <2>1, <2>2
<1> HIDE DEF T
<1>5. \A s \in SUBSET S : s \in T
  BY <1>4, SubsetsByInduction
<1> QED
  BY <1>5 DEF T

\* Elements outside s, or those that count nothing, may be left out.
LEMMA TotalWithin ==
  ASSUME NEW S, IsFiniteSet(S), NEW f, \A x \in S : f[x] \in Nat, NEW P \in SUBSET S
  PROVE  /\ TotalOver(f, P) <= TotalOver(f, S)
         /\ (\A x \in S \ P : f[x] = 0) => TotalOver(f, P) = TotalOver(f, S)
<1> DEFINE T == {s \in SUBSET S :
                   /\ TotalOver(f, s \cap P) <= TotalOver(f, s)
                   /\ (\A x \in s \ P : f[x] = 0) => TotalOver(f, s \cap P) = TotalOver(f, s)}
<1>1. /\ TotalOver(f, {}) = 0
      /\ \A s \in SUBSET S : \A x \in s : TotalOver(f, s) = f[x] + TotalOver(f, s \ {x})
  BY TotalPick
<1>2. \A s \in SUBSET S : TotalOver(f, s) \in Nat
  BY TotalNat
<1>3. ASSUME NEW s \in SUBSET S, \A x \in s : s \ {x} \in T
      PROVE  s \in T
  <2>1. CASE s = {}
    <3>1. s \cap P = {}
      BY <2>1
    <3> QED
      BY <1>1, <2>1, <3>1
  <2>2. CASE s # {}
    <3>1. PICK x \in s : TRUE
      BY <2>2
    <3> DEFINE t == s \ {x}
    <3>2. /\ TotalOver(f, s) = f[x] + TotalOver(f, t)
          /\ f[x] \in Nat /\ TotalOver(f, t) \in Nat /\ TotalOver(f, t \cap P) \in Nat
      BY <1>1, <1>2
    <3>3. CASE x \in P
      <4>1. s \cap P \in SUBSET S /\ x \in s \cap P /\ (s \cap P) \ {x} = t \cap P
        BY <3>3
      <4>2. TotalOver(f, s \cap P) = f[x] + TotalOver(f, t \cap P)
        BY <1>1, <4>1
      <4>3. TotalOver(f, t \cap P) <= TotalOver(f, t)
        BY <1>3, <3>1
      <4>4. ASSUME \A y \in s \ P : f[y] = 0
            PROVE  TotalOver(f, t \cap P) = TotalOver(f, t)
        <5>1. t \in T /\ \A y \in t \ P : f[y] = 0
          BY <1>3, <3>1, <4>4
        <5> QED
          BY <5>1
      <4> HIDE DEF t
      <4> QED
        BY <3>2, <4>2, <4>3, <4>4
    <3>4. CASE x \notin P
      <4>1. s \cap P = t \cap P
        BY <3>4
      <4> QED
        BY <1>3, <3>2, <3>4, <4>1
    <3> QED
      BY <3>3, <3>4
  <2> QED
    BY <2>1, <2>2
<1> HIDE DEF T
<1>4. \A s \in SUBSET S : s \in T
  BY <1>3, SubsetsByInduction
<1>5. S \cap P = P
  OBVIOUS
<1> QED
  BY <1>4, <1>5 DEF T

\* When one summand changes, so much does the total.
LEMMA TotalUpdate ==
  ASSUME NEW S, IsFiniteSet(S), NEW f, NEW g, NEW a \in S,
         \A x \in S : f[x] \in Int /\ g[x] \in Int,
         \A x \in S \ {a} : g[x] = f[x]
  PROVE  TotalOver(g, S) = TotalOver(f, S) + (g[a] - f[a])
<1>1. TotalOver(f, S) = f[a] + TotalOver(f, S \ {a}) /\ TotalOver(f, S \ {a}) \in Int
  BY TotalPick
<1>2. TotalOver(g, S) = g[a] + TotalOver(g, S \ {a})
  BY TotalPick
<1>3. TotalOver(g, S \ {a}) = TotalOver(f, S \ {a})
  BY TotalSame
<1> QED
  BY <1>1, <1>2, <1>3

\* The last number of an interval taken out, and the first.
LEMMA TotalOfInterval ==
  ASSUME NEW n \in Nat, NEW f, \A i \in 1 .. n : f[i] \in Int, NEW k \in Nat, k + 1 <= n
  PROVE  TotalOver(f, 1 .. k + 1) = f[k + 1] + TotalOver(f, 1 .. k)
<1> DEFINE I == 1 .. n
           J == 1 .. k + 1
<1>1. IsFiniteSet(I) /\ J \in SUBSET I /\ k + 1 \in J
  BY FS_Interval
<1>2. J \ {k + 1} = 1 .. k
  OBVIOUS
<1>3. \A i \in I : f[i] \in Int
  OBVIOUS
<1> HIDE DEF I, J
<1>4. TotalOver(f, J) = f[k + 1] + TotalOver(f, J \ {k + 1})
  BY <1>1, <1>3, TotalPick
<1> QED
  BY <1>2, <1>4 DEF J

\* An interval's total, its lower end taken out.
LEMMA TotalFromInterval ==
  ASSUME NEW n \in Nat, NEW f, \A i \in 1 .. n : f[i] \in Int, NEW k \in 1 .. n
  PROVE  TotalOver(f, k .. n) = f[k] + TotalOver(f, k + 1 .. n)
<1> DEFINE J == k .. n
<1>1. IsFiniteSet(J)
  BY FS_Interval
<1>2. J \ {k} = k + 1 .. n /\ k \in J
  OBVIOUS
<1>3. \A i \in J : f[i] \in Int
  OBVIOUS
<1> HIDE DEF J
<1>4. J \in SUBSET J
  OBVIOUS
<1>5. TotalOver(f, J) = f[k] + TotalOver(f, J \ {k})
  BY <1>1, <1>2, <1>3, <1>4, TotalPick
<1> QED
  BY <1>2, <1>5 DEF J

\* Summands none of which is larger, with the same total, are the same.
LEMMA TotalSqueeze ==
  ASSUME NEW S, IsFiniteSet(S), NEW f, NEW g,
         \A x \in S : f[x] \in Int /\ g[x] \in Int /\ f[x] <= g[x],
         TotalOver(f, S) = TotalOver(g, S)
  PROVE  \A x \in S : f[x] = g[x]
<1> SUFFICES ASSUME NEW x \in S PROVE f[x] = g[x]
  OBVIOUS
<1> DEFINE s == S \ {x}
<1>1. IsFiniteSet(s) /\ s \in SUBSET S /\ \A y \in s : f[y] \in Int /\ g[y] \in Int /\ f[y] <= g[y]
  BY FS_Subset
<1>2. TotalOver(f, S) = f[x] + TotalOver(f, s) /\ TotalOver(f, s) \in Int
  BY TotalPick
<1>3. TotalOver(g, S) = g[x] + TotalOver(g, s) /\ TotalOver(g, s) \in Int
  BY TotalPick
<1> HIDE DEF s
<1>4. TotalOver(f, s) <= TotalOver(g, s)
  BY <1>1, TotalMonotone
<1>5. f[x] \in Int /\ g[x] \in Int /\ f[x] <= g[x]
  OBVIOUS
<1>6. \A p, q, a, b \in Int : p <= q /\ a <= b /\ p + a = q + b => p = q
  OBVIOUS
<1>7. f[x] + TotalOver(f, s) = g[x] + TotalOver(g, s)
  BY <1>2, <1>3
<1> QED
  BY <1>2, <1>3, <1>4, <1>5, <1>6, <1>7
=============================================================================
