------------------------------- MODULE Sums --------------------------------
(***************************************************************************)
(* What the sums of the community modules add up to.  MapThenSumSet picks  *)
(* the elements of a set in an order of its own; the lemmas say that the   *)
(* order does not matter, and what a sum becomes when an element or a      *)
(* value changes.                                                          *)
(***************************************************************************)
EXTENDS Integers, FiniteSets, FiniteSetsExt, Functions, FiniteSetTheorems,
        WellFoundedInduction, TLAPS

Pick(s) == CHOOSE x \in s : TRUE

\* g adds up the values of h on the subsets of S, element by element.
Adds(g, h, S) ==
    g = [s \in SUBSET S |-> IF s = {} THEN 0 ELSE h[Pick(s)] + g[s \ {Pick(s)}]]

Adding(h, S) == CHOOSE g : Adds(g, h, S)
SumOf(h, S) == Adding(h, S)[S]

\* The sum of FiniteSetsExt is SumOf.
LEMMA SumIs ==
    ASSUME NEW h, NEW S
    PROVE  MapThenSumSet(LAMBDA x : h[x], S) = SumOf(h, S)
BY Zenon DEF MapThenSumSet, MapThenFoldSet, SumOf, Adding, Adds, Pick

\* The sum of Functions is SumOf over the domain.
LEMMA SumFunctionIs ==
    ASSUME NEW h
    PROVE  SumFunction(h) = SumOf(h, DOMAIN h)
BY Zenon DEF SumFunction, SumFunctionOnSet, FoldFunctionOnSet, MapThenFoldSet,
             SumOf, Adding, Adds, Pick

\* A family of subsets of a finite set that is not empty has a least member.
LEMMA LeastSubset ==
    ASSUME NEW S, IsFiniteSet(S), NEW F, F \subseteq SUBSET S, F # {}
    PROVE  \E s \in F : \A r \in F : r \subseteq s => r = s
<1>1. IsWellFoundedOn(StrictSubsetOrdering(S), SUBSET S)
  BY FS_StrictSubsetOrderingWellFounded, FS_FiniteSubsetsOfFinite, Zenon
<1>2. PICK s \in F : \A r \in F : <<r, s>> \notin StrictSubsetOrdering(S)
  BY <1>1, WFMin
<1> QED BY <1>2, Zenon DEF StrictSubsetOrdering

\* Pick picks a member.
LEMMA PickIs ==
    ASSUME NEW s, s # {}
    PROVE  Pick(s) \in s
BY DEF Pick

\* What the sum of a subset is, one element taken off.
LEMMA AddsOne ==
    ASSUME NEW h, NEW S, NEW g, Adds(g, h, S), NEW s, s \subseteq S
    PROVE  g[s] = IF s = {} THEN 0 ELSE h[Pick(s)] + g[s \ {Pick(s)}]
<1>1. s \in SUBSET S
  OBVIOUS
<1>2. g[s] = [r \in SUBSET S |-> IF r = {} THEN 0 ELSE h[Pick(r)] + g[r \ {Pick(r)}]][s]
  BY Zenon DEF Adds
<1> QED BY <1>1, <1>2

\* Two functions that add up the same values agree: their least disagreement
\* would be on a smaller set.
LEMMA AddsUnique ==
    ASSUME NEW h, NEW S, NEW T, NEW g, NEW k, Adds(g, h, S), Adds(k, h, T),
           NEW U, IsFiniteSet(U), U \subseteq S, U \subseteq T
    PROVE  g[U] = k[U]
<1> DEFINE F == {s \in SUBSET U : g[s] # k[s]}
<1> SUFFICES ASSUME F # {} PROVE FALSE
  OBVIOUS
<1>1. PICK s \in F : \A r \in F : r \subseteq s => r = s
  <2>1. F \subseteq SUBSET U
    OBVIOUS
  <2> HIDE DEF F
  <2> QED BY <2>1, LeastSubset
<1>2. s \subseteq S /\ s \subseteq T
  OBVIOUS
<1>3. s # {}
  <2>1. s = {} => g[s] = 0 /\ k[s] = 0
    BY <1>2, AddsOne, ZenonT(30)
  <2> QED BY <1>1, <2>1
<1> DEFINE p == Pick(s)
<1>4. p \in s
  BY <1>3, PickIs
<1> HIDE DEF p
<1>5. g[s \ {p}] = k[s \ {p}]
  BY <1>1, <1>4
<1>6. g[s] = h[p] + g[s \ {p}] /\ k[s] = h[p] + k[s \ {p}]
  BY <1>2, <1>3, AddsOne DEF p
<1> QED BY <1>5, <1>6

\* There is a function that adds up the values on the subsets of a finite set.
LEMMA AddsExists ==
    ASSUME NEW h, NEW S, IsFiniteSet(S)
    PROVE  Adds(Adding(h, S), h, S)
<1> DEFINE Has(T) == \E g : Adds(g, h, T)
           F == {T \in SUBSET S : ~Has(T)}
<1>0. SUFFICES ASSUME F # {} PROVE FALSE
  <2>1. Has(S)
    BY <1>0
  <2> QED BY <2>1 DEF Adding
<1>1. PICK B \in F : \A r \in F : r \subseteq B => r = B
  <2>1. F \subseteq SUBSET S
    OBVIOUS
  <2> HIDE DEF F
  <2> QED BY <1>0, <2>1, LeastSubset
<1>2. ASSUME NEW r, r \subseteq B, r # B PROVE Adds(Adding(h, r), h, r)
  <2>1. Has(r)
    BY <1>1, <1>2
  <2> QED BY <2>1 DEF Adding
<1> DEFINE rest(s) == s \ {Pick(s)}
           g == [s \in SUBSET B |->
                   IF s = {} THEN 0 ELSE h[Pick(s)] + Adding(h, rest(s))[rest(s)]]
<1>3. ASSUME NEW s, s \subseteq B, s # {} PROVE rest(s) \subseteq B /\ rest(s) # B
  BY <1>3, PickIs
<1>4. ASSUME NEW s, s \subseteq B, s # B PROVE g[s] = Adding(h, s)[s]
  <2>1. Adds(Adding(h, s), h, s)
    BY <1>2, <1>4
  <2>2. Adding(h, s)[s] = IF s = {} THEN 0 ELSE h[Pick(s)] + Adding(h, s)[rest(s)]
    BY <2>1, AddsOne
  <2>3. g[s] = IF s = {} THEN 0 ELSE h[Pick(s)] + Adding(h, rest(s))[rest(s)]
    BY <1>4
  <2>4. ASSUME s # {} PROVE Adding(h, s)[rest(s)] = Adding(h, rest(s))[rest(s)]
    <3> DEFINE q == rest(s)
    <3>1. Adds(Adding(h, q), h, q) /\ q \subseteq s
      BY <1>2, <1>3, <1>4, <2>4
    <3>2. IsFiniteSet(q)
      BY <1>3, <1>4, <2>4, FS_Subset
    <3> HIDE DEF q
    <3>3. Adding(h, s)[q] = Adding(h, q)[q]
      BY <2>1, <3>1, <3>2, AddsUnique
    <3> QED BY <3>3 DEF q
  <2> HIDE DEF g, rest
  <2> QED BY <2>2, <2>3, <2>4
<1>5. \A s \in SUBSET B : s # {} => g[rest(s)] = Adding(h, rest(s))[rest(s)]
  <2> HIDE DEF g, rest
  <2> QED BY <1>3, <1>4
<1>6. Adds(g, h, B)
  <2>1. g = [s \in SUBSET B |-> IF s = {} THEN 0 ELSE h[Pick(s)] + g[rest(s)]]
    BY <1>5, Zenon
  <2> QED BY <2>1, Zenon DEF Adds
<1> HIDE DEF g
<1> QED BY <1>1, <1>6

-----------------------------------------------------------------------------

\* The defining equation of SumOf.
LEMMA SumFirst ==
    ASSUME NEW h, NEW S, IsFiniteSet(S)
    PROVE  /\ S = {} => SumOf(h, S) = 0
           /\ S # {} => SumOf(h, S) = h[Pick(S)] + SumOf(h, S \ {Pick(S)})
<1> DEFINE R == S \ {Pick(S)}
<1>1. Adds(Adding(h, S), h, S)
  BY AddsExists
<1>2. Adds(Adding(h, R), h, R) /\ IsFiniteSet(R) /\ R \subseteq S
  BY AddsExists, FS_Subset
<1>3. Adding(h, S)[S] = IF S = {} THEN 0 ELSE h[Pick(S)] + Adding(h, S)[R]
  BY <1>1, AddsOne
<1> HIDE DEF R
<1>4. Adding(h, S)[R] = Adding(h, R)[R]
  BY <1>1, <1>2, AddsUnique
<1> QED BY <1>3, <1>4 DEF SumOf, R

\* A sum of integers is one, and not negative unless a value is.
LEMMA SumInt ==
    ASSUME NEW h, NEW S, IsFiniteSet(S), \A x \in S : h[x] \in Int
    PROVE  SumOf(h, S) \in Int /\ ((\A x \in S : h[x] >= 0) => SumOf(h, S) >= 0)
<1> DEFINE Ok(s) == SumOf(h, s) \in Int /\ ((\A x \in S : h[x] >= 0) => SumOf(h, s) >= 0)
           F == {s \in SUBSET S : ~Ok(s)}
<1>0. SUFFICES ASSUME F # {} PROVE FALSE
  OBVIOUS
<1>1. PICK s \in F : \A r \in F : r \subseteq s => r = s
  <2>1. F \subseteq SUBSET S
    OBVIOUS
  <2> HIDE DEF F
  <2> QED BY <1>0, <2>1, LeastSubset
<1>2. IsFiniteSet(s) /\ s \subseteq S
  BY FS_Subset
<1>3. s # {}
  <2>1. s = {} => SumOf(h, s) = 0
    BY <1>2, SumFirst, Zenon
  <2>2. ~Ok(s)
    BY <1>1
  <2> QED BY <2>1, <2>2
<1> DEFINE p == Pick(s)
<1>4. p \in s /\ SumOf(h, s) = h[p] + SumOf(h, s \ {p})
  BY <1>2, <1>3, PickIs, SumFirst
<1> HIDE DEF p
<1>5. Ok(s \ {p})
  BY <1>1, <1>4
<1> QED BY <1>1, <1>2, <1>4, <1>5

\* A sum with any of its elements taken out.
LEMMA SumWithout ==
    ASSUME NEW h, NEW S, IsFiniteSet(S), \A y \in S : h[y] \in Int, NEW x \in S
    PROVE  SumOf(h, S) = h[x] + SumOf(h, S \ {x})
<1> DEFINE Ok(s) == \A y \in s : SumOf(h, s) = h[y] + SumOf(h, s \ {y})
           F == {s \in SUBSET S : ~Ok(s)}
<1>0. SUFFICES ASSUME F # {} PROVE FALSE
  OBVIOUS
<1>1. PICK s \in F : \A r \in F : r \subseteq s => r = s
  <2>1. F \subseteq SUBSET S
    OBVIOUS
  <2> HIDE DEF F
  <2> QED BY <1>0, <2>1, LeastSubset
<1>2. PICK y \in s : SumOf(h, s) # h[y] + SumOf(h, s \ {y})
  BY <1>1, Zenon
<1> DEFINE p == Pick(s)
<1>3. p \in s /\ SumOf(h, s) = h[p] + SumOf(h, s \ {p})
  BY FS_Subset, PickIs, SumFirst
<1> HIDE DEF p
<1>4. p # y
  BY <1>2, <1>3, Zenon
<1>5. Ok(s \ {p}) /\ Ok(s \ {y})
  BY <1>1, <1>3
<1> DEFINE r == (s \ {p}) \ {y}
<1>6. r = (s \ {y}) \ {p}
  OBVIOUS
<1>7. SumOf(h, s \ {p}) = h[y] + SumOf(h, r) /\ SumOf(h, s \ {y}) = h[p] + SumOf(h, r)
  BY <1>3, <1>4, <1>5, <1>6, Zenon
<1>8. h[p] \in Int /\ h[y] \in Int /\ SumOf(h, r) \in Int
  BY <1>3, FS_Subset, SumInt
<1> HIDE DEF r
<1> QED BY <1>2, <1>3, <1>7, <1>8

\* A sum depends on the values at its elements only.
LEMMA SumSame ==
    ASSUME NEW h, NEW k, NEW S, IsFiniteSet(S), \A x \in S : h[x] = k[x]
    PROVE  SumOf(h, S) = SumOf(k, S)
<1> DEFINE F == {s \in SUBSET S : SumOf(h, s) # SumOf(k, s)}
<1>0. SUFFICES ASSUME F # {} PROVE FALSE
  OBVIOUS
<1>1. PICK s \in F : \A r \in F : r \subseteq s => r = s
  <2>1. F \subseteq SUBSET S
    OBVIOUS
  <2> HIDE DEF F
  <2> QED BY <1>0, <2>1, LeastSubset
<1>2. IsFiniteSet(s) /\ s \subseteq S
  BY FS_Subset
<1>3. s # {}
  BY <1>1, <1>2, SumFirst, Zenon
<1> DEFINE p == Pick(s)
<1>4. /\ p \in s /\ SumOf(h, s) = h[p] + SumOf(h, s \ {p})
      /\ SumOf(k, s) = k[p] + SumOf(k, s \ {p})
  BY <1>2, <1>3, PickIs, SumFirst
<1> HIDE DEF p
<1>5. SumOf(h, s \ {p}) = SumOf(k, s \ {p})
  BY <1>1, <1>4
<1> QED BY <1>1, <1>2, <1>4, <1>5

\* One value changes.
LEMMA SumChange ==
    ASSUME NEW h, NEW k, NEW S, IsFiniteSet(S), NEW x \in S,
           \A y \in S : h[y] \in Int /\ k[y] \in Int, \A y \in S \ {x} : h[y] = k[y]
    PROVE  SumOf(k, S) = SumOf(h, S) + k[x] - h[x]
<1> DEFINE R == S \ {x}
<1>1. IsFiniteSet(R) /\ SumOf(h, R) \in Int
  BY FS_Subset, SumInt
<1>2. SumOf(h, R) = SumOf(k, R)
  BY <1>1, SumSame
<1>3. SumOf(h, S) = h[x] + SumOf(h, R) /\ SumOf(k, S) = k[x] + SumOf(k, R)
  BY SumWithout
<1> QED BY <1>1, <1>2, <1>3
\* A sum of zeros.
LEMMA SumZero ==
    ASSUME NEW h, NEW S, IsFiniteSet(S), \A x \in S : h[x] = 0
    PROVE  SumOf(h, S) = 0
<1> DEFINE F == {s \in SUBSET S : SumOf(h, s) # 0}
<1>0. SUFFICES ASSUME F # {} PROVE FALSE
  OBVIOUS
<1>1. PICK s \in F : \A r \in F : r \subseteq s => r = s
  <2>1. F \subseteq SUBSET S
    OBVIOUS
  <2> HIDE DEF F
  <2> QED BY <1>0, <2>1, LeastSubset
<1>2. IsFiniteSet(s) /\ s \subseteq S
  BY FS_Subset
<1>3. s # {}
  BY <1>1, <1>2, SumFirst, Zenon
<1> DEFINE p == Pick(s)
<1>4. p \in s /\ SumOf(h, s) = h[p] + SumOf(h, s \ {p})
  BY <1>2, <1>3, PickIs, SumFirst
<1> HIDE DEF p
<1>5. SumOf(h, s \ {p}) = 0
  BY <1>1, <1>4
<1> QED BY <1>1, <1>2, <1>4, <1>5

\* A set of natural numbers that is not empty has a least member.
LEMMA LeastNat ==
    ASSUME NEW T, T \subseteq Nat, T # {}
    PROVE  Min(T) \in T /\ \A n \in T : Min(T) <= n
<1> DEFINE R == OpToRel(<, Nat)
<1>1. IsWellFoundedOn(R, Nat)
  BY NatLessThanWellFounded
<1>2. \A m, n \in Nat : m < n => <<m, n>> \in R
  BY DEF OpToRel
<1> HIDE DEF R
<1>3. PICK x \in T : \A y \in T : ~(<<y, x>> \in R)
  BY <1>1, WFMin, Zenon
<1>4. ASSUME NEW y \in T PROVE x <= y
  <2>1. ~(y < x)
    BY <1>2, <1>3, Zenon
  <2> QED BY <2>1
<1>5. \E z \in T : \A y \in T : z =< y
  BY <1>4
<1> QED BY <1>5, Zenon DEF Min

=============================================================================
