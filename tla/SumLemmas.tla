------------------------------ MODULE SumLemmas ------------------------------
(***************************************************************************)
(* SumFunctionOnSet over a finite set of rows: it is a number, it follows  *)
(* the values it sums, and any element may be taken out first.             *)
(***************************************************************************)
EXTENDS Integers, FiniteSets, Functions, FiniteSetTheorems, WellFoundedInduction, TLAPS

\* Induction, with a set in the place of the formula.
LEMMA NaturalsAll ==
    ASSUME NEW B, 0 \in B, \A n \in Nat : n \in B => n + 1 \in B
    PROVE  Nat \subseteq B
  <1> DEFINE T == Nat \ B
  <1> SUFFICES ASSUME T # {} PROVE FALSE
    OBVIOUS
  <1>1. PICK n \in T : \A m \in T : ~(<<m, n>> \in OpToRel(<, Nat))
    BY NatLessThanWellFounded, WFMin
  <1>2. n # 0 /\ n - 1 \in Nat
    OBVIOUS
  <1>3. <<n - 1, n>> \in OpToRel(<, Nat)
    BY <1>1, <1>2 DEF OpToRel
  <1>4. n - 1 \in B
    BY <1>1, <1>2, <1>3
  <1>5. (n - 1) + 1 \in B
    BY <1>2, <1>4
  <1> QED
    BY <1>2, <1>5

\* What a set inherits from the sets one smaller, all subsets of S have.
LEMMA SubsetsAll ==
    ASSUME NEW S, IsFiniteSet(S), NEW B,
           \A T \in SUBSET S : (\A x \in T : T \ {x} \in B) => T \in B
    PROVE  SUBSET S \subseteq B
  <1> DEFINE W == (SUBSET S) \ B
  <1> SUFFICES ASSUME W # {} PROVE FALSE
    OBVIOUS
  <1>1. W \subseteq FiniteSubsetsOf(S)
    BY FS_Subset DEF FiniteSubsetsOf
  <1>2. PICK T \in W : \A U \in W : ~(<<U, T>> \in StrictSubsetOrdering(S))
    BY <1>1, FS_StrictSubsetOrderingWellFounded, WFMin
  <1>3. \A x \in T : <<T \ {x}, T>> \in StrictSubsetOrdering(S)
    BY <1>2 DEF StrictSubsetOrdering
  <1>4. \A x \in T : T \ {x} \in B
    BY <1>2, <1>3
  <1> QED
    BY <1>2, <1>4

-----------------------------------------------------------------------------
(***************************************************************************)
(* Sums                                                                    *)
(***************************************************************************)

\* The function the fold builds, one element after the other.
First(s) == CHOOSE x \in s : TRUE
Added(fun, s, g) == IF s = {} THEN 0 ELSE fun[First(s)] + g[s \ {First(s)}]
Iter(fun, S) == CHOOSE g : g = [s \in SUBSET S |-> Added(fun, s, g)]

LEMMA SumIsIter ==
    ASSUME NEW fun, NEW S
    PROVE  SumFunctionOnSet(fun, S) = Iter(fun, S)[S]
  BY DEF SumFunctionOnSet, FoldFunctionOnSet, MapThenFoldSet, Iter, Added, First

LEMMA IterExists ==
    ASSUME NEW fun, NEW S, IsFiniteSet(S)
    PROVE  Iter(fun, S) = [s \in SUBSET S |-> Added(fun, s, Iter(fun, S))]
  <1> DEFINE D(n) == {s \in SUBSET S : Cardinality(s) <= n}
             B == {n \in Nat : \E g : g = [s \in D(n) |-> Added(fun, s, g)]}
  <1>0. \A s \in SUBSET S : /\ IsFiniteSet(s) /\ Cardinality(s) \in Nat
                            /\ Cardinality(s) = 0 <=> s = {}
                            /\ \A x \in s : Cardinality(s \ {x}) = Cardinality(s) - 1
    BY FS_Subset, FS_CardinalityType, FS_EmptySet, FS_RemoveElement
  <1>1. 0 \in B
    <2> DEFINE g == [s \in D(0) |-> 0]
    <2>1. g = [s \in D(0) |-> Added(fun, s, g)]
      BY <1>0 DEF Added
    <2> QED
      BY <2>1
  <1>2. ASSUME NEW n \in Nat, n \in B PROVE n + 1 \in B
    <2>1. PICK g : g = [s \in D(n) |-> Added(fun, s, g)]
      BY <1>2
    <2> DEFINE h == [s \in D(n + 1) |-> Added(fun, s, g)]
    <2>2. \A s \in D(n) : s \in D(n + 1)
      BY <1>0
    <2>3. \A s \in D(n) : h[s] = g[s]
      BY <2>1, <2>2
    <2>4. \A s \in D(n + 1) : s # {} => s \ {First(s)} \in D(n)
      BY <1>0 DEF First
    <2>5. \A s \in D(n + 1) : Added(fun, s, g) = Added(fun, s, h)
      BY <2>3, <2>4 DEF Added
    <2>6. h = [s \in D(n + 1) |-> Added(fun, s, h)]
      BY <2>5
    <2> HIDE DEF h
    <2> QED
      BY <2>6
  <1>3. Nat \subseteq B
    <2> HIDE DEF B
    <2> QED
      BY <1>1, <1>2, NaturalsAll
  <1>4. D(Cardinality(S)) = SUBSET S
    BY FS_Subset, FS_CardinalityType
  <1>5. \E g : g = [s \in SUBSET S |-> Added(fun, s, g)]
    <2>1. Cardinality(S) \in B
      BY <1>3, FS_CardinalityType
    <2> QED
      BY <1>4, <2>1
  <1> QED
    BY <1>5 DEF Iter

LEMMA IterPart ==
    ASSUME NEW fun, NEW S, IsFiniteSet(S), NEW T \in SUBSET S
    PROVE  \A s \in SUBSET T : Iter(fun, S)[s] = Iter(fun, T)[s]
  <1>1. IsFiniteSet(T)
    BY FS_Subset
  <1> DEFINE g == Iter(fun, S)
             h == Iter(fun, T)
             B == {s \in SUBSET T : g[s] = h[s]}
  <1>2. g = [s \in SUBSET S |-> Added(fun, s, g)] /\ h = [s \in SUBSET T |-> Added(fun, s, h)]
    BY <1>1, IterExists
  <1> HIDE DEF g, h
  <1>3. ASSUME NEW s \in SUBSET T, \A x \in s : s \ {x} \in B PROVE s \in B
    <2>1. g[s] = Added(fun, s, g) /\ h[s] = Added(fun, s, h)
      BY <1>2
    <2>2. s # {} => First(s) \in s
      BY DEF First
    <2> QED
      BY <1>3, <2>1, <2>2 DEF Added
  <1>4. SUBSET T \subseteq B
    <2> HIDE DEF B
    <2> QED
      BY <1>1, <1>3, SubsetsAll
  <1> QED
    BY <1>4 DEF g, h

LEMMA SumStep ==
    ASSUME NEW fun, NEW S, IsFiniteSet(S)
    PROVE  SumFunctionOnSet(fun, S) =
               IF S = {} THEN 0
               ELSE fun[First(S)] + SumFunctionOnSet(fun, S \ {First(S)})
  <1> DEFINE T == S \ {First(S)}
  <1>1. Iter(fun, S)[S] = Added(fun, S, Iter(fun, S))
    <2> DEFINE g == Iter(fun, S)
    <2>1. g = [s \in SUBSET S |-> Added(fun, s, g)]
      BY IterExists
    <2> HIDE DEF g
    <2>2. S \in SUBSET S
      OBVIOUS
    <2>3. g[S] = Added(fun, S, g)
      BY <2>1, <2>2
    <2> QED
      BY <2>3 DEF g
  <1>2. Iter(fun, S)[T] = Iter(fun, T)[T]
    BY IterPart
  <1> QED
    BY <1>1, <1>2, SumIsIter DEF Added

\* A sum of integers is one.
LEMMA SumType ==
    ASSUME NEW fun, NEW S, IsFiniteSet(S), \A x \in S : fun[x] \in Int
    PROVE  \A T \in SUBSET S : SumFunctionOnSet(fun, T) \in Int
  <1> DEFINE B == {T \in SUBSET S : SumFunctionOnSet(fun, T) \in Int}
  <1>1. ASSUME NEW T \in SUBSET S, \A x \in T : T \ {x} \in B PROVE T \in B
    <2>1. IsFiniteSet(T) /\ (T # {} => First(T) \in T)
      BY FS_Subset DEF First
    <2>2. SumFunctionOnSet(fun, T) =
              IF T = {} THEN 0 ELSE fun[First(T)] + SumFunctionOnSet(fun, T \ {First(T)})
      BY <2>1, SumStep
    <2>3. T # {} => /\ fun[First(T)] \in Int
                    /\ SumFunctionOnSet(fun, T \ {First(T)}) \in Int
      BY <1>1, <2>1
    <2> QED
      BY <2>2, <2>3
  <1> HIDE DEF B
  <1>2. SUBSET S \subseteq B
    BY <1>1, SubsetsAll
  <1> QED
    BY <1>2 DEF B

\* Only the values that are summed count.
LEMMA SumSame ==
    ASSUME NEW f, NEW g, NEW S, IsFiniteSet(S), \A x \in S : f[x] = g[x]
    PROVE  SumFunctionOnSet(f, S) = SumFunctionOnSet(g, S)
  <1> DEFINE B == {T \in SUBSET S : SumFunctionOnSet(f, T) = SumFunctionOnSet(g, T)}
  <1>1. ASSUME NEW T \in SUBSET S, \A x \in T : T \ {x} \in B PROVE T \in B
    <2>1. IsFiniteSet(T) /\ (T # {} => First(T) \in T)
      BY FS_Subset DEF First
    <2>2. /\ SumFunctionOnSet(f, T) =
                IF T = {} THEN 0 ELSE f[First(T)] + SumFunctionOnSet(f, T \ {First(T)})
          /\ SumFunctionOnSet(g, T) =
                IF T = {} THEN 0 ELSE g[First(T)] + SumFunctionOnSet(g, T \ {First(T)})
      BY <2>1, SumStep
    <2>3. T # {} => /\ f[First(T)] = g[First(T)]
                    /\ SumFunctionOnSet(f, T \ {First(T)})
                           = SumFunctionOnSet(g, T \ {First(T)})
      BY <1>1, <2>1
    <2> QED
      BY <2>2, <2>3
  <1> HIDE DEF B
  <1>2. SUBSET S \subseteq B
    BY <1>1, SubsetsAll
  <1> QED
    BY <1>2 DEF B

\* Any element may be taken out first.
LEMMA SumTake ==
    ASSUME NEW fun, NEW S, IsFiniteSet(S), \A x \in S : fun[x] \in Int
    PROVE  \A T \in SUBSET S : \A x \in T :
               SumFunctionOnSet(fun, T) = fun[x] + SumFunctionOnSet(fun, T \ {x})
  <1> DEFINE Sum(T) == SumFunctionOnSet(fun, T)
             B == {T \in SUBSET S : \A x \in T : Sum(T) = fun[x] + Sum(T \ {x})}
  <1>1. ASSUME NEW T \in SUBSET S, \A x \in T : T \ {x} \in B, NEW x \in T
        PROVE  Sum(T) = fun[x] + Sum(T \ {x})
    <2> DEFINE c == First(T)
    <2>1. c \in T
      BY DEF First
    <2>2. Sum(T) = fun[c] + Sum(T \ {c})
      BY FS_Subset, SumStep
    <2>3. CASE x = c
      BY <2>2, <2>3
    <2>4. CASE x # c
      <3> HIDE DEF c
      <3>1. Sum(T \ {c}) = fun[x] + Sum((T \ {c}) \ {x})
        BY <1>1, <2>1, <2>4
      <3>2. Sum(T \ {x}) = fun[c] + Sum((T \ {x}) \ {c})
        BY <1>1, <2>1, <2>4
      <3>3. (T \ {c}) \ {x} = (T \ {x}) \ {c}
        OBVIOUS
      <3>4. Sum((T \ {c}) \ {x}) \in Int
        BY SumType
      <3>5. fun[x] \in Int /\ fun[c] \in Int
        BY <2>1
      <3> HIDE DEF Sum
      <3>6. Sum(T) = fun[c] + (fun[x] + Sum((T \ {c}) \ {x}))
        BY <2>2, <3>1
      <3>7. Sum(T \ {x}) = fun[c] + Sum((T \ {c}) \ {x})
        BY <3>2, <3>3
      <3> QED
        BY <3>4, <3>5, <3>6, <3>7
    <2> QED
      BY <2>3, <2>4
  <1>2. \A T \in SUBSET S : (\A x \in T : T \ {x} \in B) => T \in B
    BY <1>1
  <1> HIDE DEF B
  <1>3. SUBSET S \subseteq B
    BY <1>2, SubsetsAll
  <1> QED
    BY <1>3 DEF B

\* One row more adds its value; the values of the others have not changed.
LEMMA SumMore ==
    ASSUME NEW f, NEW g, NEW S, IsFiniteSet(S), NEW x, x \notin S,
           \A y \in S : f[y] \in Int /\ g[y] = f[y], g[x] \in Int
    PROVE  SumFunctionOnSet(g, S \cup {x}) = SumFunctionOnSet(f, S) + g[x]
  <1>1. IsFiniteSet(S \cup {x})
    BY FS_AddElement
  <1>2. SumFunctionOnSet(g, S \cup {x})
            = g[x] + SumFunctionOnSet(g, (S \cup {x}) \ {x})
    BY <1>1, SumTake
  <1>3. (S \cup {x}) \ {x} = S
    OBVIOUS
  <1>4. SumFunctionOnSet(g, S) = SumFunctionOnSet(f, S)
    BY SumSame
  <1>5. SumFunctionOnSet(f, S) \in Int
    BY SumType
  <1>6. SumFunctionOnSet(g, S \cup {x}) = g[x] + SumFunctionOnSet(f, S)
    BY <1>2, <1>3, <1>4, Zenon
  <1> QED
    BY <1>5, <1>6

\* One row changed changes the sum by as much.
LEMMA SumMoved ==
    ASSUME NEW f, NEW g, NEW S, IsFiniteSet(S), NEW x \in S,
           \A y \in S : f[y] \in Int,
           \A y \in S \ {x} : g[y] = f[y], g[x] \in Int
    PROVE  SumFunctionOnSet(g, S) = SumFunctionOnSet(f, S) + (g[x] - f[x])
  <1>1. \A y \in S : g[y] \in Int
    OBVIOUS
  <1>2. SumFunctionOnSet(g, S) = g[x] + SumFunctionOnSet(g, S \ {x})
    BY <1>1, SumTake
  <1>3. SumFunctionOnSet(f, S) = f[x] + SumFunctionOnSet(f, S \ {x})
    BY SumTake
  <1>4. SumFunctionOnSet(g, S \ {x}) = SumFunctionOnSet(f, S \ {x})
    BY SumSame, FS_Subset
  <1>5. SumFunctionOnSet(f, S \ {x}) \in Int
    BY SumType
  <1>6. f[x] \in Int
    OBVIOUS
  <1>7. SumFunctionOnSet(g, S) = g[x] + SumFunctionOnSet(f, S \ {x})
    BY <1>2, <1>4
  <1> HIDE DEF SumFunctionOnSet
  <1> QED
    BY <1>3, <1>5, <1>6, <1>7

LEMMA SumNone ==
    ASSUME NEW f
    PROVE  SumFunctionOnSet(f, {}) = 0
  BY SumStep, FS_EmptySet

=============================================================================
