------------------------------ MODULE SumProofs ------------------------------
(***************************************************************************)
(* What the sums of quantities and amounts in Shop and OrderService obey.  *)
(* SumFunctionOnSet takes the elements of a finite set one by one; for     *)
(* natural numbers that is the number of pairs <<x, i>> with i in          *)
(* 1 .. f[x], and what is known of cardinalities becomes known of sums.    *)
(***************************************************************************)
EXTENDS FiniteSetsExt, FiniteSetTheorems, TLAPS

\* As many different things as f counts on S.
Units(f, S) == UNION {{x} \X (1 .. f[x]) : x \in S}

LEMMA UnitsOfOne ==
    ASSUME NEW x, NEW n \in Nat
    PROVE  IsFiniteSet({x} \X (1 .. n)) /\ Cardinality({x} \X (1 .. n)) = n
<1>1. IsFiniteSet({x}) /\ Cardinality({x}) = 1
  BY FS_Singleton
<1>2. IsFiniteSet(1 .. n) /\ Cardinality(1 .. n) = n
  BY FS_Interval
<1>3. /\ IsFiniteSet({x} \X (1 .. n))
      /\ Cardinality({x} \X (1 .. n)) = Cardinality({x}) * Cardinality(1 .. n)
  BY <1>1, <1>2, FS_Product
<1> QED
  BY <1>1, <1>2, <1>3

LEMMA UnitsFinite ==
    ASSUME NEW f, NEW S, IsFiniteSet(S), \A x \in S : f[x] \in Nat
    PROVE  IsFiniteSet(Units(f, S))
<1> DEFINE h == [x \in S |-> {x} \X (1 .. f[x])]
           parts == {{x} \X (1 .. f[x]) : x \in S}
<1>1. h \in Surjection(S, parts)
  BY DEF Surjection
<1> HIDE DEF h
<1>2. IsFiniteSet(parts)
  BY <1>1, FS_Surjection
<1>3. ASSUME NEW T \in parts PROVE IsFiniteSet(T)
  <2>1. PICK x \in S : T = {x} \X (1 .. f[x])
    OBVIOUS
  <2> QED
    BY <2>1, UnitsOfOne
<1> QED
  BY <1>2, <1>3, FS_UNION DEF Units

LEMMA UnitsTakenOut ==
    ASSUME NEW f, NEW S, IsFiniteSet(S), \A x \in S : f[x] \in Nat, NEW x \in S
    PROVE  Cardinality(Units(f, S)) = f[x] + Cardinality(Units(f, S \ {x}))
<1> DEFINE U == {x} \X (1 .. f[x])
           V == Units(f, S \ {x})
<1>1. IsFiniteSet(U) /\ Cardinality(U) = f[x]
  BY UnitsOfOne
<1>2. IsFiniteSet(V)
  BY FS_RemoveElement, UnitsFinite
<1>3. Units(f, S) = U \cup V /\ U \cap V = {}
  BY DEF Units
<1>4. Cardinality(V) \in Nat /\ Cardinality(U \cap V) = 0
  BY <1>2, <1>3, FS_CardinalityType, FS_EmptySet
<1> HIDE DEF U, V
<1>5. Cardinality(U \cup V) = Cardinality(U) + Cardinality(V) - Cardinality(U \cap V)
  BY <1>1, <1>2, FS_Union
<1> QED
  BY <1>1, <1>3, <1>4, <1>5 DEF V

\* What SumFunctionOnSet does with a set: one element, and the sum of the others.
Pick(s) == CHOOSE x \in s : TRUE

OneByOne(f, S, g) == [s \in SUBSET S |-> IF s = {} THEN 0 ELSE f[Pick(s)] + g[s \ {Pick(s)}]]

LEMMA SumUnfolds ==
    ASSUME NEW f, NEW S
    PROVE  SumFunctionOnSet(f, S) = (CHOOSE g : g = OneByOne(f, S, g))[S]
BY DEF SumFunctionOnSet, FoldFunctionOnSet, MapThenFoldSet, Pick, OneByOne

LEMMA SumIsCount ==
    ASSUME NEW f, NEW S, IsFiniteSet(S), \A x \in S : f[x] \in Nat
    PROVE  SumFunctionOnSet(f, S) = Cardinality(Units(f, S))
<1> DEFINE h == [s \in SUBSET S |-> Cardinality(Units(f, s))]
<1>1. \A s \in SUBSET S : s # {} => Pick(s) \in s
  BY DEF Pick
<1>2. h = OneByOne(f, S, h)
  <2>1. ASSUME NEW s \in SUBSET S, s # {}
        PROVE  Cardinality(Units(f, s)) = f[Pick(s)] + Cardinality(Units(f, s \ {Pick(s)}))
    BY <1>1, <2>1, FS_Subset, UnitsTakenOut
  <2>2. Cardinality(Units(f, {})) = 0
    BY FS_EmptySet DEF Units
  <2> QED
    BY <2>1, <2>2 DEF OneByOne
<1> HIDE DEF h
<1> DEFINE g == CHOOSE g : g = OneByOne(f, S, g)
<1>3. g = OneByOne(f, S, g)
  BY <1>2
<1> HIDE DEF g
<1>4. \A s \in SUBSET S : g[s] = h[s]
  <2> DEFINE Bad == {s \in SUBSET S : g[s] # h[s]}
  <2> SUFFICES ASSUME Bad # {} PROVE FALSE
    OBVIOUS
  <2>1. IsWellFoundedOn(StrictSubsetOrdering(S), SUBSET S)
    BY FS_StrictSubsetOrderingWellFounded, FS_FiniteSubsetsOfFinite
  <2>2. Bad \subseteq SUBSET S
    OBVIOUS
  <2> HIDE DEF Bad
  <2>3. PICK s \in Bad : \A t \in Bad : <<t, s>> \notin StrictSubsetOrdering(S)
    BY <2>1, <2>2, WFMin
  <2>4. CASE s = {}
    <3>1. g[s] = OneByOne(f, S, g)[s] /\ h[s] = OneByOne(f, S, h)[s]
      BY <1>2, <1>3
    <3> QED
      BY <2>2, <2>4, <3>1 DEF OneByOne, Bad
  <2>5. CASE s # {}
    <3> DEFINE t == s \ {Pick(s)}
    <3>1. t \in SUBSET S /\ t \subseteq s /\ t # s
      BY <1>1, <2>2, <2>5
    <3>2. <<t, s>> \in StrictSubsetOrdering(S)
      BY <2>2, <3>1 DEF StrictSubsetOrdering
    <3>3. g[t] = h[t]
      BY <2>3, <3>1, <3>2 DEF Bad
    <3>4. g[s] = OneByOne(f, S, g)[s] /\ h[s] = OneByOne(f, S, h)[s]
      BY <1>2, <1>3
    <3>5. OneByOne(f, S, g)[s] = f[Pick(s)] + g[t] /\ OneByOne(f, S, h)[s] = f[Pick(s)] + h[t]
      BY <2>2, <2>5 DEF OneByOne
    <3> QED
      BY <3>3, <3>4, <3>5 DEF Bad
  <2> QED
    BY <2>4, <2>5
<1>5. g[S] = h[S]
  BY <1>4
<1> QED
  BY <1>5, SumUnfolds DEF g, h

-----------------------------------------------------------------------------
(* What the other proofs use                                               *)

LEMMA SumEmpty == ASSUME NEW f PROVE SumFunctionOnSet(f, {}) = 0
<1>1. Units(f, {}) = {}
  BY DEF Units
<1> QED
  BY <1>1, SumIsCount, FS_EmptySet

LEMMA SumNat ==
    ASSUME NEW f, NEW S, IsFiniteSet(S), \A x \in S : f[x] \in Nat
    PROVE  SumFunctionOnSet(f, S) \in Nat
BY SumIsCount, UnitsFinite, FS_CardinalityType

\* A sum is the value at one element and the sum of the others.
LEMMA SumTakenOut ==
    ASSUME NEW f, NEW S, IsFiniteSet(S), \A x \in S : f[x] \in Nat, NEW x \in S
    PROVE  SumFunctionOnSet(f, S) = f[x] + SumFunctionOnSet(f, S \ {x})
<1>1. IsFiniteSet(S \ {x})
  BY FS_RemoveElement
<1>2. SumFunctionOnSet(f, S \ {x}) = Cardinality(Units(f, S \ {x}))
  BY <1>1, SumIsCount
<1> QED
  BY <1>2, SumIsCount, UnitsTakenOut

\* A sum depends on the values at its elements only.
LEMMA SumSame ==
    ASSUME NEW f, NEW g, NEW S, IsFiniteSet(S),
           \A x \in S : f[x] \in Nat /\ g[x] = f[x]
    PROVE  SumFunctionOnSet(g, S) = SumFunctionOnSet(f, S)
<1>1. Units(g, S) = Units(f, S)
  BY DEF Units
<1> QED
  BY <1>1, SumIsCount

\* One value changes.
LEMMA SumChanged ==
    ASSUME NEW f, NEW g, NEW S, IsFiniteSet(S), NEW x \in S,
           \A y \in S : f[y] \in Nat /\ g[y] \in Nat,
           \A y \in S \ {x} : g[y] = f[y]
    PROVE  SumFunctionOnSet(g, S) = SumFunctionOnSet(f, S) - f[x] + g[x]
<1>1. SumFunctionOnSet(f, S) = f[x] + SumFunctionOnSet(f, S \ {x})
  BY SumTakenOut
<1>2. SumFunctionOnSet(g, S) = g[x] + SumFunctionOnSet(g, S \ {x})
  BY SumTakenOut
<1>3. IsFiniteSet(S \ {x})
  BY FS_RemoveElement
<1>4. SumFunctionOnSet(g, S \ {x}) = SumFunctionOnSet(f, S \ {x})
  BY <1>3, SumSame
<1>5. SumFunctionOnSet(f, S \ {x}) \in Nat
  BY <1>3, SumNat
<1> QED
  BY <1>1, <1>2, <1>4, <1>5

\* An element joins.
LEMMA SumAdded ==
    ASSUME NEW f, NEW S, IsFiniteSet(S), NEW x, x \notin S,
           \A y \in S \cup {x} : f[y] \in Nat
    PROVE  SumFunctionOnSet(f, S \cup {x}) = SumFunctionOnSet(f, S) + f[x]
<1>1. IsFiniteSet(S \cup {x}) /\ (S \cup {x}) \ {x} = S
  BY FS_AddElement
<1>2. SumFunctionOnSet(f, S \cup {x}) = f[x] + SumFunctionOnSet(f, S)
  BY <1>1, SumTakenOut
<1>3. SumFunctionOnSet(f, S) \in Nat
  BY SumNat
<1> QED
  BY <1>2, <1>3

\* Of zeros only.
LEMMA SumZero ==
    ASSUME NEW f, NEW S, IsFiniteSet(S), \A x \in S : f[x] = 0
    PROVE  SumFunctionOnSet(f, S) = 0
<1>1. Units(f, S) = {}
  BY DEF Units
<1> QED
  BY <1>1, SumIsCount, FS_EmptySet
=============================================================================
