------------------------------- MODULE SetSums -------------------------------
(***************************************************************************)
(* Facts about the sum of a function over a finite set, SumFunctionOnSet   *)
(* of the community modules.  They are proved from the definition of the   *)
(* fold by looking at a smallest counterexample.                           *)
(***************************************************************************)
EXTENDS Integers, Functions, FiniteSetTheorems, WellFoundedInduction, TLAPS

(***************************************************************************)
(* A nonempty set of natural numbers has a least element.                  *)
(***************************************************************************)
LEMMA LeastElement ==
    ASSUME NEW S, S \subseteq Nat, S # {}
    PROVE  \E i \in S : \A j \in S : i <= j
<1> DEFINE Less == {p \in Nat \X Nat : p[1] < p[2]}
<1>1. IsWellFoundedOn(Less, Nat)
    BY NatLessThanWellFounded DEF OpToRel
<1>2. PICK i \in S : \A j \in S : ~ (<<j, i>> \in Less)
    <2> HIDE DEF Less
    <2> QED BY <1>1, WFMin
<1>3. ASSUME NEW j \in S PROVE i <= j
    <2>1. ~ (<<j, i>> \in Less)
        BY <1>2
    <2>2. i \in Nat /\ j \in Nat
        OBVIOUS
    <2>3. <<j, i>> \in Nat \X Nat /\ <<j, i>>[1] = j /\ <<j, i>>[2] = i
        BY <2>2
    <2>4. ~ (j < i)
        BY <2>1, <2>3
    <2>5. QED
        BY <2>2, <2>4
<1>4. QED
    BY <1>3

(***************************************************************************)
(* A nonempty set of subsets of a finite set has a smallest member.        *)
(***************************************************************************)
LEMMA SmallestSubset ==
    ASSUME NEW S, IsFiniteSet(S), NEW B, B \subseteq SUBSET S, B # {}
    PROVE  \E T \in B : \A U \in B : Cardinality(T) <= Cardinality(U)
<1> DEFINE C == {Cardinality(T) : T \in B}
<1>1. C \subseteq Nat
    BY FS_Subset, FS_CardinalityType
<1>2. C # {}
    OBVIOUS
<1>3. PICK c \in C : \A d \in C : c <= d
    <2> HIDE DEF C
    <2> QED BY <1>1, <1>2, LeastElement
<1>4. QED
    BY <1>3

\* Taking an element out of a subset makes it smaller.
LEMMA SmallerSubset ==
    ASSUME NEW S, IsFiniteSet(S), NEW T \in SUBSET S, NEW x \in T
    PROVE  /\ T \ {x} \in SUBSET S
           /\ IsFiniteSet(T) /\ Cardinality(T) \in Nat /\ Cardinality(T \ {x}) \in Nat
           /\ Cardinality(T \ {x}) = Cardinality(T) - 1
<1>1. IsFiniteSet(T)
    BY FS_Subset
<1>2. IsFiniteSet(T \ {x}) /\ Cardinality(T \ {x}) = Cardinality(T) - 1
    BY <1>1, FS_RemoveElement
<1>3. QED
    BY <1>1, <1>2, FS_CardinalityType
-----------------------------------------------------------------------------
\* The element a fold takes next, and the equation its iteration solves.
Pick(s) == CHOOSE x \in s : TRUE

SumStep(g, f, s) == IF s = {} THEN 0 ELSE f[Pick(s)] + g[s \ {Pick(s)}]

IsSum(g, f, S) == g = [s \in SUBSET S |-> SumStep(g, f, s)]

Summable(f, S) == IsFiniteSet(S) /\ \A x \in S : f[x] \in Int

LEMMA PickIn == \A s : s # {} => Pick(s) \in s
BY DEF Pick

LEMMA SumDef ==
    ASSUME NEW f, NEW S
    PROVE  SumFunctionOnSet(f, S) = (CHOOSE g : IsSum(g, f, S))[S]
BY DEF SumFunctionOnSet, FoldFunctionOnSet, MapThenFoldSet, IsSum, SumStep, Pick

\* The iteration exists: it is built up by the size of the subset.
LEMMA SumExists ==
    ASSUME NEW f, NEW S, Summable(f, S)
    PROVE  \E g \in [SUBSET S -> Int] : IsSum(g, f, S)
<1> DEFINE Upto(n) == {s \in SUBSET S : Cardinality(s) <= n}
           Part(g, n) == /\ g \in [Upto(n) -> Int]
                         /\ \A s \in Upto(n) : g[s] = SumStep(g, f, s)
           Bad == {n \in Nat : ~ \E g : Part(g, n)}
<1>1. \A s \in SUBSET S : IsFiniteSet(s) /\ Cardinality(s) \in Nat
    BY FS_Subset, FS_CardinalityType DEF Summable
<1>2. Bad = {}
    <2> SUFFICES ASSUME Bad # {} PROVE FALSE
        OBVIOUS
    <2>1. PICK n \in Bad : \A m \in Bad : n <= m
        <3>1. Bad \subseteq Nat
            OBVIOUS
        <3> HIDE DEF Bad
        <3>2. QED BY <3>1, LeastElement
    <2>2. n \in Nat /\ ~ \E g : Part(g, n)
        OBVIOUS
    <2>3. CASE n = 0
        <3> DEFINE g == [s \in Upto(0) |-> 0]
        <3>1. \A s \in Upto(0) : s = {}
            BY <1>1, FS_EmptySet
        <3>2. g \in [Upto(0) -> Int] /\ \A s \in Upto(0) : g[s] = 0
            OBVIOUS
        <3>3. \A s \in Upto(0) : SumStep(g, f, s) = 0
            BY <3>1 DEF SumStep
        <3>4. Part(g, 0)
            BY <3>2, <3>3
        <3>5. QED
            BY <2>2, <2>3, <3>4
    <2>4. CASE n # 0
        <3>1. n - 1 \in Nat /\ ~(n - 1 \in Bad)
            <4> HIDE DEF Bad
            <4> QED BY <2>1, <2>2, <2>4
        <3>2. PICK g : Part(g, n - 1)
            BY <3>1
        <3> DEFINE h == [s \in Upto(n) |-> SumStep(g, f, s)]
        <3>3. ASSUME NEW s \in Upto(n), s # {}
              PROVE  s \ {Pick(s)} \in Upto(n - 1) /\ f[Pick(s)] \in Int
            <4>1. Pick(s) \in s /\ s \in SUBSET S /\ Cardinality(s) <= n
                BY <3>3, PickIn
            <4>2. /\ s \ {Pick(s)} \in SUBSET S
                  /\ Cardinality(s) \in Nat /\ Cardinality(s \ {Pick(s)}) = Cardinality(s) - 1
                BY <4>1, SmallerSubset DEF Summable
            <4>3. Cardinality(s \ {Pick(s)}) <= n - 1
                BY <2>2, <4>1, <4>2
            <4>4. QED
                BY <4>1, <4>2, <4>3 DEF Summable
        <3>4. \A s \in Upto(n - 1) : s \in Upto(n)
            BY <1>1, <2>2
        <3>5. h \in [Upto(n) -> Int]
            <4>1. ASSUME NEW s \in Upto(n) PROVE SumStep(g, f, s) \in Int
                <5>1. CASE s = {}
                    BY <5>1 DEF SumStep
                <5>2. CASE s # {}
                    <6>1. s \ {Pick(s)} \in Upto(n - 1) /\ f[Pick(s)] \in Int
                        BY <3>3, <5>2
                    <6>2. g[s \ {Pick(s)}] \in Int
                        BY <3>2, <6>1
                    <6>3. QED
                        BY <5>2, <6>1, <6>2 DEF SumStep
                <5>3. QED
                    BY <5>1, <5>2
            <4>2. QED
                BY <4>1
        <3>6. ASSUME NEW s \in Upto(n) PROVE h[s] = SumStep(h, f, s)
            <4>1. CASE s = {}
                BY <4>1 DEF SumStep
            <4>2. CASE s # {}
                <5> DEFINE t == s \ {Pick(s)}
                <5>1. t \in Upto(n - 1) /\ t \in Upto(n)
                    BY <3>3, <3>4, <4>2
                <5>2. h[t] = SumStep(g, f, t) /\ g[t] = SumStep(g, f, t)
                    BY <3>2, <5>1
                <5>3. QED
                    BY <4>2, <5>2 DEF SumStep
            <4>3. QED
                BY <4>1, <4>2
        <3>7. Part(h, n)
            BY <3>5, <3>6
        <3>8. QED
            BY <2>2, <3>7
    <2>5. QED
        BY <2>3, <2>4
<1>3. Cardinality(S) \in Nat
    BY FS_CardinalityType DEF Summable
<1>4. PICK g : Part(g, Cardinality(S))
    BY <1>2, <1>3
<1>5. Upto(Cardinality(S)) = SUBSET S
    BY FS_Subset DEF Summable
<1>6. g \in [SUBSET S -> Int] /\ \A s \in SUBSET S : g[s] = SumStep(g, f, s)
    BY <1>4, <1>5
<1>7. IsSum(g, f, S)
    BY <1>6 DEF IsSum
<1>8. QED
    BY <1>6, <1>7

LEMMA SumIteration ==
    ASSUME NEW f, NEW S, Summable(f, S), NEW g, IsSum(g, f, S), NEW s \in SUBSET S
    PROVE  g[s] = SumStep(g, f, s)
BY DEF IsSum

\* What the iteration says of a subset does not depend on where it started.
LEMMA SumUnique ==
    ASSUME NEW f, NEW S, Summable(f, S), NEW T \in SUBSET S,
           NEW g, IsSum(g, f, S), NEW h, IsSum(h, f, T)
    PROVE  g[T] = h[T]
<1> DEFINE Bad == {s \in SUBSET T : g[s] # h[s]}
<1> SUFFICES Bad = {}
    OBVIOUS
<1> SUFFICES ASSUME Bad # {} PROVE FALSE
    OBVIOUS
<1>1. IsFiniteSet(T)
    BY FS_Subset DEF Summable
<1>2. Summable(f, T)
    BY <1>1 DEF Summable
<1>3. PICK s \in Bad : \A u \in Bad : Cardinality(s) <= Cardinality(u)
    <2>1. Bad \subseteq SUBSET T
        OBVIOUS
    <2> HIDE DEF Bad
    <2>2. QED BY <1>1, <2>1, SmallestSubset
<1>4. g[s] = SumStep(g, f, s) /\ h[s] = SumStep(h, f, s)
    BY <1>2, SumIteration
<1>5. s # {}
    BY <1>4 DEF SumStep
<1> DEFINE t == s \ {Pick(s)}
<1>6. g[t] # h[t]
    BY <1>4, <1>5 DEF SumStep
<1>7. /\ t \in SUBSET T /\ Cardinality(s) \in Nat /\ Cardinality(t) = Cardinality(s) - 1
    BY <1>1, <1>5, PickIn, SmallerSubset
<1>8. t \in Bad
    BY <1>6, <1>7
<1>9. Cardinality(s) <= Cardinality(t)
    BY <1>3, <1>8
<1>10. QED
    BY <1>7, <1>9
-----------------------------------------------------------------------------
\* The sum over the empty set, and over a set without the element the fold takes.
LEMMA SumEmpty ==
    ASSUME NEW f
    PROVE  SumFunctionOnSet(f, {}) = 0
<1>1. Summable(f, {})
    BY FS_EmptySet DEF Summable
<1> DEFINE g == CHOOSE g : IsSum(g, f, {})
<1>2. IsSum(g, f, {})
    BY <1>1, SumExists
<1>3. g[{}] = SumStep(g, f, {})
    <2> HIDE DEF g
    <2> QED BY <1>1, <1>2, SumIteration
<1>4. QED
    BY <1>3, SumDef DEF SumStep

LEMMA SumPick ==
    ASSUME NEW f, NEW S, Summable(f, S), S # {}
    PROVE  SumFunctionOnSet(f, S) = f[Pick(S)] + SumFunctionOnSet(f, S \ {Pick(S)})
<1> DEFINE T == S \ {Pick(S)}
           g == CHOOSE g : IsSum(g, f, S)
           h == CHOOSE h : IsSum(h, f, T)
<1>1. T \in SUBSET S /\ Summable(f, T)
    BY FS_Subset DEF Summable
<1>2. IsSum(g, f, S)
    BY SumExists
<1>3. IsSum(h, f, T)
    <2> HIDE DEF T
    <2> QED BY <1>1, SumExists
<1>4. SumFunctionOnSet(f, S) = g[S] /\ SumFunctionOnSet(f, T) = h[T]
    BY SumDef
<1> HIDE DEF g, h
<1>5. g[S] = f[Pick(S)] + g[T]
    BY <1>2, SumIteration DEF SumStep
<1>6. g[T] = h[T]
    <2> HIDE DEF T
    <2> QED BY <1>1, <1>2, <1>3, SumUnique
<1>7. QED
    BY <1>4, <1>5, <1>6

LEMMA SumUniqueWhole ==
    ASSUME NEW f, NEW S, Summable(f, S), NEW g, IsSum(g, f, S), NEW h, IsSum(h, f, S)
    PROVE  g[S] = h[S]
<1>1. PICK T \in SUBSET S : T = S
    OBVIOUS
<1>2. IsSum(h, f, T)
    BY <1>1
<1>3. g[T] = h[T]
    BY <1>2, SumUnique
<1>4. QED
    BY <1>1, <1>3

LEMMA SumType ==
    ASSUME NEW f, NEW S, Summable(f, S)
    PROVE  SumFunctionOnSet(f, S) \in Int
<1>1. PICK h \in [SUBSET S -> Int] : IsSum(h, f, S)
    BY SumExists
<1> DEFINE g == CHOOSE g : IsSum(g, f, S)
<1>2. IsSum(g, f, S)
    BY <1>1
<1>3. SumFunctionOnSet(f, S) = g[S]
    BY SumDef
<1> HIDE DEF g
<1>4. g[S] = h[S]
    BY <1>1, <1>2, SumUniqueWhole
<1>5. h[S] \in Int
    OBVIOUS
<1>6. QED
    BY <1>3, <1>4, <1>5

LEMMA SummableSubset ==
    ASSUME NEW f, NEW S, Summable(f, S), NEW T \in SUBSET S
    PROVE  Summable(f, T)
BY FS_Subset DEF Summable

\* Any element may be taken out.
LEMMA SumRemove ==
    ASSUME NEW f, NEW S, Summable(f, S), NEW x \in S
    PROVE  SumFunctionOnSet(f, S) = f[x] + SumFunctionOnSet(f, S \ {x})
<1> DEFINE Bad == {T \in SUBSET S :
              \E y \in T : SumFunctionOnSet(f, T) # f[y] + SumFunctionOnSet(f, T \ {y})}
<1> SUFFICES Bad = {}
    OBVIOUS
<1> SUFFICES ASSUME Bad # {} PROVE FALSE
    OBVIOUS
<1>1. IsFiniteSet(S)
    BY DEF Summable
<1>2. PICK T \in Bad : \A U \in Bad : Cardinality(T) <= Cardinality(U)
    <2>1. Bad \subseteq SUBSET S
        OBVIOUS
    <2> HIDE DEF Bad
    <2>2. QED BY <1>1, <2>1, SmallestSubset
<1>3. PICK y \in T : SumFunctionOnSet(f, T) # f[y] + SumFunctionOnSet(f, T \ {y})
    BY <1>2
<1> DEFINE p == Pick(T)
           R == (T \ {p}) \ {y}
<1>4. Summable(f, T) /\ T # {} /\ p \in T
    BY <1>3, PickIn, SummableSubset
<1>5. SumFunctionOnSet(f, T) = f[p] + SumFunctionOnSet(f, T \ {p})
    <2> HIDE DEF p
    <2> QED BY <1>4, SumPick DEF p
<1>6. p # y
    BY <1>3, <1>5
<1>7. ASSUME NEW z \in T, NEW v \in T \ {z}
      PROVE  SumFunctionOnSet(f, T \ {z}) = f[v] + SumFunctionOnSet(f, (T \ {z}) \ {v})
    <2>1. /\ T \ {z} \in SUBSET S /\ Cardinality(T) \in Nat
          /\ Cardinality(T \ {z}) = Cardinality(T) - 1
        BY <1>1, <1>2, SmallerSubset
    <2>2. T \ {z} \notin Bad
        BY <1>2, <2>1
    <2>3. QED
        BY <2>1, <2>2
<1>8. SumFunctionOnSet(f, T \ {p}) = f[y] + SumFunctionOnSet(f, R)
    BY <1>3, <1>4, <1>6, <1>7
<1>9. (T \ {y}) \ {p} = R
    OBVIOUS
<1>10. SumFunctionOnSet(f, T \ {y}) = f[p] + SumFunctionOnSet(f, R)
    BY <1>3, <1>4, <1>6, <1>7, <1>9
<1>11. Summable(f, R) /\ f[p] \in Int /\ f[y] \in Int
    BY <1>3, <1>4, SummableSubset DEF Summable
<1>12. SumFunctionOnSet(f, R) \in Int
    BY <1>11, SumType
<1> HIDE DEF R, p
<1>13. QED
    BY <1>3, <1>5, <1>8, <1>10, <1>11, <1>12

LEMMA SumAdd ==
    ASSUME NEW f, NEW S, NEW x, x \notin S, Summable(f, S \cup {x})
    PROVE  SumFunctionOnSet(f, S \cup {x}) = f[x] + SumFunctionOnSet(f, S)
<1>1. (S \cup {x}) \ {x} = S
    OBVIOUS
<1>2. QED
    BY <1>1, SumRemove

\* The sum depends on the values over the set only.
LEMMA SumSame ==
    ASSUME NEW f, NEW g, NEW S, Summable(f, S), \A x \in S : f[x] = g[x]
    PROVE  SumFunctionOnSet(f, S) = SumFunctionOnSet(g, S)
<1> DEFINE Bad == {T \in SUBSET S : SumFunctionOnSet(f, T) # SumFunctionOnSet(g, T)}
<1> SUFFICES Bad = {}
    OBVIOUS
<1> SUFFICES ASSUME Bad # {} PROVE FALSE
    OBVIOUS
<1>1. IsFiniteSet(S) /\ Summable(g, S)
    BY DEF Summable
<1>2. PICK T \in Bad : \A U \in Bad : Cardinality(T) <= Cardinality(U)
    <2>1. Bad \subseteq SUBSET S
        OBVIOUS
    <2> HIDE DEF Bad
    <2>2. QED BY <1>1, <2>1, SmallestSubset
<1>3. T # {}
    BY <1>2, SumEmpty
<1>4. Summable(f, T) /\ Summable(g, T) /\ Pick(T) \in T
    BY <1>1, <1>2, <1>3, PickIn, SummableSubset
<1>5. /\ SumFunctionOnSet(f, T) = f[Pick(T)] + SumFunctionOnSet(f, T \ {Pick(T)})
      /\ SumFunctionOnSet(g, T) = g[Pick(T)] + SumFunctionOnSet(g, T \ {Pick(T)})
    BY <1>3, <1>4, SumPick
<1>6. /\ T \ {Pick(T)} \in SUBSET S /\ Cardinality(T) \in Nat
      /\ Cardinality(T \ {Pick(T)}) = Cardinality(T) - 1
    BY <1>1, <1>2, <1>4, SmallerSubset
<1>7. T \ {Pick(T)} \notin Bad
    BY <1>2, <1>6
<1>8. f[Pick(T)] = g[Pick(T)]
    BY <1>2, <1>4
<1>9. QED
    BY <1>2, <1>5, <1>6, <1>7, <1>8

\* A part of a sum of natural numbers is no more than the sum.
LEMMA SumPart ==
    ASSUME NEW f, NEW S, IsFiniteSet(S), \A x \in S : f[x] \in Nat, NEW T \in SUBSET S
    PROVE  SumFunctionOnSet(f, T) <= SumFunctionOnSet(f, S)
<1> DEFINE Bad == {U \in SUBSET S : T \subseteq U /\
                     ~(SumFunctionOnSet(f, T) <= SumFunctionOnSet(f, U))}
<1> SUFFICES Bad = {}
    OBVIOUS
<1> SUFFICES ASSUME Bad # {} PROVE FALSE
    OBVIOUS
<1>1. Summable(f, S)
    BY DEF Summable
<1>2. PICK U \in Bad : \A V \in Bad : Cardinality(U) <= Cardinality(V)
    <2>1. Bad \subseteq SUBSET S
        OBVIOUS
    <2> HIDE DEF Bad
    <2>2. QED BY <1>1, <2>1, SmallestSubset
<1>3. /\ SumFunctionOnSet(f, T) \in Int /\ SumFunctionOnSet(f, U) \in Int
      /\ T \subseteq U /\ U \in SUBSET S /\ Summable(f, U)
    BY <1>1, <1>2, SummableSubset, SumType
<1>4. U # T
    BY <1>2, <1>3
<1>5. PICK x \in U : x \notin T
    BY <1>3, <1>4
<1>6. SumFunctionOnSet(f, U) = f[x] + SumFunctionOnSet(f, U \ {x})
    BY <1>3, SumRemove
<1>7. /\ U \ {x} \in SUBSET S /\ Cardinality(U) \in Nat
      /\ Cardinality(U \ {x}) = Cardinality(U) - 1
    BY <1>3, SmallerSubset
<1>8. U \ {x} \notin Bad
    BY <1>2, <1>7
<1>9. SumFunctionOnSet(f, T) <= SumFunctionOnSet(f, U \ {x})
    BY <1>3, <1>5, <1>7, <1>8
<1>10. SumFunctionOnSet(f, U \ {x}) \in Int /\ f[x] \in Nat
    BY <1>1, <1>3, <1>7, SummableSubset, SumType
<1>11. SumFunctionOnSet(f, T) <= SumFunctionOnSet(f, U)
    BY <1>3, <1>6, <1>9, <1>10
<1>12. QED
    BY <1>2, <1>11
=============================================================================
