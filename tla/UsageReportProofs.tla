-------------------------- MODULE UsageReportProofs --------------------------
(***************************************************************************)
(* Theorems of UsageReport: the rows of the days count every digest until  *)
(* they go, the cost of a line is that of the digests its tokens count, and*)
(* a report that nothing disturbs is exact.                                *)
(***************************************************************************)
EXTENDS UsageReport, FiniteSetTheorems, TLAPS

-----------------------------------------------------------------------------
(* Sums.                                                                   *)

\* Induction over the subsets of a finite set, in the form of a smallest
\* counterexample: B is the set of the subsets for which something fails.
LEMMA SmallestSubset ==
  ASSUME NEW S, IsFiniteSet(S), NEW B \in SUBSET SUBSET S, B # {}
  PROVE  \E T \in B : \A U \in SUBSET T : U # T => U \notin B
<1>1. IsWellFoundedOn(StrictSubsetOrdering(S), SUBSET S)
  BY FS_StrictSubsetOrderingWellFounded, FS_FiniteSubsetsOfFinite
<1>2. PICK T \in B : \A U \in B : <<U, T>> \notin StrictSubsetOrdering(S)
  BY <1>1, WFMin
<1>3. ASSUME NEW U \in SUBSET T, U # T, U \in B
      PROVE  FALSE
  BY <1>2, <1>3 DEF StrictSubsetOrdering
<1> QED
  BY <1>3

\* The element that a fold takes next.
Pick(s) == CHOOSE x \in s : TRUE

LEMMA Picked ==
  ASSUME NEW s, s # {}
  PROVE  /\ Pick(s) \in s /\ s \ {Pick(s)} \in SUBSET s
         /\ s \ {Pick(s)} # s
<1>1. Pick(s) \in s
  BY DEF Pick
<1> QED
  BY <1>1

\* g holds the sums of f over the subsets of S.
IsFold(g, f, S) ==
  g = [s \in SUBSET S |-> IF s = {} THEN 0 ELSE f[Pick(s)] + g[s \ {Pick(s)}]]

LEMMA FoldStep ==
  ASSUME NEW f, NEW g, NEW S, IsFold(g, f, S), NEW s \in SUBSET S
  PROVE  g[s] = IF s = {} THEN 0 ELSE f[Pick(s)] + g[s \ {Pick(s)}]
<1> DEFINE e(t) == IF t = {} THEN 0 ELSE f[Pick(t)] + g[t \ {Pick(t)}]
<1>1. g = [t \in SUBSET S |-> e(t)]
  BY DEF IsFold
<1> HIDE DEF e
<1>2. g[s] = e(s)
  BY <1>1
<1> QED
  BY <1>2 DEF e

LEMMA FoldUnique ==
  ASSUME NEW f, NEW g, NEW h, NEW S, NEW T, IsFiniteSet(T), T \subseteq S,
         IsFold(g, f, S), IsFold(h, f, T)
  PROVE  \A s \in SUBSET T : g[s] = h[s]
<1> DEFINE B == {s \in SUBSET T : g[s] # h[s]}
<1>1. SUFFICES ASSUME B # {} PROVE FALSE
  OBVIOUS
<1>2. PICK s \in B : \A u \in SUBSET s : u # s => u \notin B
  <2>1. B \in SUBSET SUBSET T
    OBVIOUS
  <2> HIDE DEF B
  <2> QED
    BY <1>1, <2>1, SmallestSubset
<1>3. s \in SUBSET S /\ s \in SUBSET T
  OBVIOUS
<1>4. s # {}
  BY <1>3, FoldStep
<1>5. g[s \ {Pick(s)}] = h[s \ {Pick(s)}]
  BY <1>2, <1>4, Picked
<1>6. g[s] = h[s]
  BY <1>3, <1>5, FoldStep
<1> QED
  BY <1>6

LEMMA FoldExists ==
  ASSUME NEW f, NEW S, IsFiniteSet(S)
  PROVE  \E g : IsFold(g, f, S)
<1> DEFINE B == {T \in SUBSET S : ~ \E g : IsFold(g, f, T)}
<1>1. SUFFICES ASSUME B # {} PROVE FALSE
  OBVIOUS
<1>2. PICK T \in B : \A U \in SUBSET T : U # T => U \notin B
  <2>1. B \in SUBSET SUBSET S
    OBVIOUS
  <2> HIDE DEF B
  <2> QED
    BY <1>1, <2>1, SmallestSubset
<1>3. T \in SUBSET S /\ IsFiniteSet(T)
  BY FS_Subset
<1>4. \A U \in SUBSET T : U # T => \E g : IsFold(g, f, U)
  BY <1>2, <1>3
<1> DEFINE Part(U) == CHOOSE g : IsFold(g, f, U)
           val(s) == IF s = {} THEN 0
                       ELSE f[Pick(s)] + Part(s \ {Pick(s)})[s \ {Pick(s)}]
           g == [s \in SUBSET T |-> val(s)]
<1>5. \A U \in SUBSET T : U # T => IsFold(Part(U), f, U)
  BY <1>4
<1> HIDE DEF B, Part
<1>6. ASSUME NEW U \in SUBSET T, U # T
      PROVE  Part(U)[U] = val(U)
  <2>1. IsFold(Part(U), f, U)
    BY <1>5, <1>6
  <2>2. CASE U = {}
    BY <2>1, <2>2, FoldStep
  <2>3. CASE U # {}
    <3>1. /\ U \ {Pick(U)} \in SUBSET U /\ U \ {Pick(U)} \in SUBSET T
          /\ U \ {Pick(U)} # T
      BY <2>3, <1>6, Picked
    <3>2. IsFold(Part(U \ {Pick(U)}), f, U \ {Pick(U)})
      BY <1>5, <3>1
    <3>3. IsFiniteSet(U \ {Pick(U)})
      BY <1>3, <3>1, FS_Subset
    <3>4. Part(U)[U \ {Pick(U)}] = Part(U \ {Pick(U)})[U \ {Pick(U)}]
      BY <2>1, <3>1, <3>2, <3>3, FoldUnique
    <3>5. Part(U)[U] = f[Pick(U)] + Part(U)[U \ {Pick(U)}]
      BY <2>1, <2>3, FoldStep
    <3> QED
      BY <2>3, <3>4, <3>5
  <2> QED
    BY <2>2, <2>3
<1>7. ASSUME NEW s \in SUBSET T
      PROVE  val(s) = IF s = {} THEN 0 ELSE f[Pick(s)] + g[s \ {Pick(s)}]
  <2>1. CASE s = {}
    BY <2>1
  <2>2. CASE s # {}
    <3>1. s \ {Pick(s)} \in SUBSET T /\ s \ {Pick(s)} # T
      BY <2>2, Picked
    <3>2. g[s \ {Pick(s)}] = val(s \ {Pick(s)})
      BY <3>1
    <3>3. Part(s \ {Pick(s)})[s \ {Pick(s)}] = val(s \ {Pick(s)})
      BY <1>6, <3>1
    <3> HIDE DEF g
    <3> QED
      BY <2>2, <3>2, <3>3
  <2> QED
    BY <2>1, <2>2
<1>8. IsFold(g, f, T)
  <2>1. g = [s \in SUBSET T |-> val(s)]
    OBVIOUS
  <2> HIDE DEF g, val
  <2> QED
    BY <1>7, <2>1 DEF IsFold
<1> HIDE DEF g
<1>9. T \notin B
  BY <1>8 DEF B
<1> QED
  BY <1>9

-----------------------------------------------------------------------------

LEMMA SumIsFold ==
  ASSUME NEW f, NEW S
  PROVE  SumFunctionOnSet(f, S) = (CHOOSE g : IsFold(g, f, S))[S]
BY DEF SumFunctionOnSet, FoldFunctionOnSet, MapThenFoldSet, IsFold, Pick

\* The sum over every subset is the entry of one fold.
LEMMA SumOfSubset ==
  ASSUME NEW f, NEW S, IsFiniteSet(S)
  PROVE  \E g : /\ IsFold(g, f, S)
                /\ \A T \in SUBSET S : SumFunctionOnSet(f, T) = g[T]
<1>1. PICK g : IsFold(g, f, S)
  BY FoldExists
<1>2. ASSUME NEW T \in SUBSET S
      PROVE  SumFunctionOnSet(f, T) = g[T]
  <2>1. IsFiniteSet(T)
    BY FS_Subset
  <2>2. PICK h : h = (CHOOSE k : IsFold(k, f, T))
    OBVIOUS
  <2>3. IsFold(h, f, T)
    BY <2>1, <2>2, FoldExists
  <2>4. h[T] = g[T]
    BY <1>1, <2>1, <2>3, FoldUnique
  <2> QED
    BY <2>2, <2>4, SumIsFold
<1> QED
  BY <1>1, <1>2

LEMMA SumOfNone ==
  ASSUME NEW f
  PROVE  SumFunctionOnSet(f, {}) = 0
<1>1. IsFiniteSet({})
  BY FS_EmptySet
<1>2. PICK g : IsFold(g, f, {}) /\ SumFunctionOnSet(f, {}) = g[{}]
  BY <1>1, SumOfSubset
<1> QED
  BY <1>2, FoldStep

\* A sum begins with the element that is picked ...
LEMMA SumByPick ==
  ASSUME NEW f, NEW S, IsFiniteSet(S), S # {}
  PROVE  SumFunctionOnSet(f, S) = f[Pick(S)] + SumFunctionOnSet(f, S \ {Pick(S)})
<1>1. PICK g : /\ IsFold(g, f, S)
               /\ \A T \in SUBSET S : SumFunctionOnSet(f, T) = g[T]
  BY SumOfSubset
<1>2. S \in SUBSET S /\ S \ {Pick(S)} \in SUBSET S
  OBVIOUS
<1>3. g[S] = f[Pick(S)] + g[S \ {Pick(S)}]
  BY <1>1, <1>2, FoldStep
<1> QED
  BY <1>1, <1>2, <1>3

\* Sums of integers are integers, those of natural numbers not negative.
LEMMA SumType ==
  ASSUME NEW V, 0 \in V, \A a, b \in V : a + b \in V,
         NEW S, IsFiniteSet(S), NEW f, \A x \in S : f[x] \in V
  PROVE  SumFunctionOnSet(f, S) \in V
<1> DEFINE B == {T \in SUBSET S : SumFunctionOnSet(f, T) \notin V}
<1>1. SUFFICES ASSUME B # {} PROVE FALSE
  OBVIOUS
<1>2. PICK T \in B : \A U \in SUBSET T : U # T => U \notin B
  <2>1. B \in SUBSET SUBSET S
    OBVIOUS
  <2> HIDE DEF B
  <2> QED
    BY <1>1, <2>1, SmallestSubset
<1>3. T \in SUBSET S /\ SumFunctionOnSet(f, T) \notin V /\ IsFiniteSet(T)
  BY FS_Subset
<1>4. T # {}
  BY <1>3, SumOfNone
<1>5. SumFunctionOnSet(f, T \ {Pick(T)}) \in V /\ f[Pick(T)] \in V
  BY <1>2, <1>3, <1>4, Picked
<1> QED
  BY <1>3, <1>4, <1>5, SumByPick

LEMMA SumInteger ==
  ASSUME NEW S, IsFiniteSet(S), NEW f, \A x \in S : f[x] \in Int
  PROVE  SumFunctionOnSet(f, S) \in Int
<1>1. 0 \in Int /\ \A a, b \in Int : a + b \in Int
  OBVIOUS
<1> QED
  BY <1>1, SumType

LEMMA SumNatural ==
  ASSUME NEW S, IsFiniteSet(S), NEW f, \A x \in S : f[x] \in Nat
  PROVE  SumFunctionOnSet(f, S) \in Nat
<1>1. 0 \in Nat /\ \A a, b \in Nat : a + b \in Nat
  OBVIOUS
<1> QED
  BY <1>1, SumType

\* ... and with every other one.
LEMMA SumTakes ==
  ASSUME NEW S, IsFiniteSet(S), NEW f, \A x \in S : f[x] \in Int, NEW z \in S
  PROVE  SumFunctionOnSet(f, S) = f[z] + SumFunctionOnSet(f, S \ {z})
<1> DEFINE Takes(T, x) == SumFunctionOnSet(f, T) = f[x] + SumFunctionOnSet(f, T \ {x})
           B == {T \in SUBSET S : \E x \in T : ~ Takes(T, x)}
<1>1. SUFFICES ASSUME B # {} PROVE FALSE
  OBVIOUS
<1>2. PICK T \in B : \A U \in SUBSET T : U # T => U \notin B
  <2>1. B \in SUBSET SUBSET S
    OBVIOUS
  <2> HIDE DEF B
  <2> QED
    BY <1>1, <2>1, SmallestSubset
<1>3. PICK x \in T : ~ Takes(T, x)
  OBVIOUS
<1>4. T \in SUBSET S /\ IsFiniteSet(T) /\ T # {}
  BY <1>3, FS_Subset
<1>5. PICK y \in T : y = Pick(T) /\ T \ {y} # T
  BY <1>4, Picked
<1>6. Takes(T, y)
  BY <1>4, <1>5, SumByPick
<1>7. x # y
  BY <1>3, <1>6
<1>8. \A U \in SUBSET T : U # T => \A u \in U : Takes(U, u)
  BY <1>2, <1>4
<1>9. Takes(T \ {y}, x)
  BY <1>7, <1>8
<1>10. Takes(T \ {x}, y)
  BY <1>7, <1>8
<1>11. (T \ {y}) \ {x} = (T \ {x}) \ {y}
  OBVIOUS
<1>12. SumFunctionOnSet(f, (T \ {y}) \ {x}) \in Int
  <2>1. IsFiniteSet((T \ {y}) \ {x})
    BY <1>4, FS_Subset
  <2>2. \A u \in (T \ {y}) \ {x} : f[u] \in Int
    BY <1>4
  <2> QED
    BY <2>1, <2>2, SumInteger
<1>13. f[x] \in Int /\ f[y] \in Int
  BY <1>4
<1>14. Takes(T, x)
  <2>1. PICK a \in Int, b \in Int, c \in Int :
          a = f[x] /\ b = f[y] /\ c = SumFunctionOnSet(f, (T \ {y}) \ {x})
    BY <1>12, <1>13
  <2>2. SumFunctionOnSet(f, T) = b + (a + c)
    BY <1>6, <1>9, <2>1
  <2>3. SumFunctionOnSet(f, T \ {x}) = b + c
    BY <1>10, <1>11, <2>1
  <2>4. b + (a + c) = a + (b + c)
    OBVIOUS
  <2> QED
    BY <2>1, <2>2, <2>3, <2>4
<1> QED
  BY <1>3, <1>14

LEMMA SumAdds ==
  ASSUME NEW S, IsFiniteSet(S), NEW z, z \notin S,
         NEW f, \A x \in S \cup {z} : f[x] \in Int
  PROVE  SumFunctionOnSet(f, S \cup {z}) = SumFunctionOnSet(f, S) + f[z]
<1>1. IsFiniteSet(S \cup {z}) /\ (S \cup {z}) \ {z} = S
  BY FS_AddElement
<1>2. SumFunctionOnSet(f, S) \in Int
  BY SumInteger
<1>3. SumFunctionOnSet(f, S \cup {z})
        = f[z] + SumFunctionOnSet(f, (S \cup {z}) \ {z})
  BY <1>1, SumTakes
<1>4. PICK a \in Int, b \in Int : a = SumFunctionOnSet(f, S) /\ b = f[z]
  BY <1>2
<1>5. SumFunctionOnSet(f, S \cup {z}) = b + a
  BY <1>1, <1>3, <1>4
<1>6. b + a = a + b
  OBVIOUS
<1> QED
  BY <1>4, <1>5, <1>6

\* Only the values on the set count.
LEMMA SumCongruence ==
  ASSUME NEW S, IsFiniteSet(S), NEW f, NEW h, \A x \in S : f[x] = h[x]
  PROVE  SumFunctionOnSet(f, S) = SumFunctionOnSet(h, S)
<1> DEFINE B == {T \in SUBSET S : SumFunctionOnSet(f, T) # SumFunctionOnSet(h, T)}
<1>1. SUFFICES ASSUME B # {} PROVE FALSE
  OBVIOUS
<1>2. PICK T \in B : \A U \in SUBSET T : U # T => U \notin B
  <2>1. B \in SUBSET SUBSET S
    OBVIOUS
  <2> HIDE DEF B
  <2> QED
    BY <1>1, <2>1, SmallestSubset
<1>3. T \in SUBSET S /\ IsFiniteSet(T)
  BY FS_Subset
<1>4. SumFunctionOnSet(f, T) # SumFunctionOnSet(h, T)
  OBVIOUS
<1>5. T # {}
  BY <1>4, SumOfNone
<1>6. SumFunctionOnSet(f, T \ {Pick(T)}) = SumFunctionOnSet(h, T \ {Pick(T)})
  BY <1>2, <1>3, <1>5, Picked
<1>7. f[Pick(T)] = h[Pick(T)]
  BY <1>3, <1>5, Picked
<1> QED
  BY <1>3, <1>4, <1>5, <1>6, <1>7, SumByPick

LEMMA SumDisjoint ==
  ASSUME NEW S, NEW R, IsFiniteSet(S), IsFiniteSet(R), S \cap R = {},
         NEW f, \A x \in S \cup R : f[x] \in Int
  PROVE  SumFunctionOnSet(f, S \cup R)
           = SumFunctionOnSet(f, S) + SumFunctionOnSet(f, R)
<1> DEFINE B == {T \in SUBSET R :
                   SumFunctionOnSet(f, S \cup T)
                     # SumFunctionOnSet(f, S) + SumFunctionOnSet(f, T)}
<1>1. SUFFICES ASSUME B # {} PROVE FALSE
  OBVIOUS
<1>2. PICK T \in B : \A U \in SUBSET T : U # T => U \notin B
  <2>1. B \in SUBSET SUBSET R
    OBVIOUS
  <2> HIDE DEF B
  <2> QED
    BY <1>1, <2>1, SmallestSubset
<1>3. T \in SUBSET R /\ IsFiniteSet(T)
  BY FS_Subset
<1>4. PICK a \in Int : a = SumFunctionOnSet(f, S)
  BY SumInteger
<1>5. CASE T = {}
  <2>1. S \cup T = S /\ a + 0 = a
    BY <1>5
  <2> QED
    BY <1>2, <1>4, <1>5, <2>1, SumOfNone
<1>6. CASE T # {}
  <2>1. PICK y \in T : TRUE
    BY <1>6
  <2> DEFINE U == T \ {y}
  <2>2. /\ U \in SUBSET T /\ U # T /\ y \notin U /\ y \notin S \cup U
        /\ U \cup {y} = T /\ (S \cup U) \cup {y} = S \cup T
    BY <1>3
  <2>3. IsFiniteSet(U) /\ IsFiniteSet(S \cup U)
    BY <1>3, <2>2, FS_Subset, FS_Union
  <2>4. PICK b \in Int, c \in Int : b = f[y] /\ c = SumFunctionOnSet(f, U)
    BY <1>3, <2>1, <2>2, <2>3, SumInteger
  <2>5. SumFunctionOnSet(f, S \cup U) = a + c
    BY <1>2, <1>3, <1>4, <2>2, <2>4
  <2>6. SumFunctionOnSet(f, T) = c + b
    <3>1. \A x \in U \cup {y} : f[x] \in Int
      BY <1>3
    <3> HIDE DEF U, B
    <3>2. SumFunctionOnSet(f, U \cup {y}) = SumFunctionOnSet(f, U) + f[y]
      BY <2>2, <2>3, <3>1, SumAdds
    <3> QED
      BY <2>2, <2>4, <3>2
  <2>7. SumFunctionOnSet(f, S \cup T) = (a + c) + b
    <3>1. \A x \in (S \cup U) \cup {y} : f[x] \in Int
      BY <1>3
    <3> HIDE DEF U, B
    <3>2. SumFunctionOnSet(f, (S \cup U) \cup {y})
            = SumFunctionOnSet(f, S \cup U) + f[y]
      BY <2>2, <2>3, <3>1, SumAdds
    <3> QED
      BY <2>2, <2>4, <2>5, <3>2
  <2>8. (a + c) + b = a + (c + b)
    OBVIOUS
  <2> QED
    BY <1>2, <1>4, <2>6, <2>7, <2>8
<1> QED
  BY <1>5, <1>6

\* A sum of sums over parts is the sum over the whole.
LEMMA SumOfParts ==
  ASSUME NEW D, IsFiniteSet(D), NEW S, IsFiniteSet(S),
         NEW f, \A x \in S : f[x] \in Int,
         NEW part, \A d \in D : part[d] \subseteq S,
         \A d, e \in D : d # e => part[d] \cap part[e] = {},
         NEW h, \A d \in D : h[d] = SumFunctionOnSet(f, part[d])
  PROVE  SumFunctionOnSet(h, D) = SumFunctionOnSet(f, UNION {part[d] : d \in D})
<1> DEFINE All(E) == UNION {part[d] : d \in E}
           B == {E \in SUBSET D :
                   SumFunctionOnSet(h, E) # SumFunctionOnSet(f, All(E))}
<1>1. SUFFICES ASSUME B # {} PROVE FALSE
  OBVIOUS
<1>2. PICK E \in B : \A U \in SUBSET E : U # E => U \notin B
  <2>1. B \in SUBSET SUBSET D
    OBVIOUS
  <2> HIDE DEF B
  <2> QED
    BY <1>1, <2>1, SmallestSubset
<1>3. E \in SUBSET D /\ IsFiniteSet(E)
  BY FS_Subset
<1>4. \A d \in D : IsFiniteSet(part[d]) /\ h[d] \in Int
  <2> TAKE d \in D
  <2>1. IsFiniteSet(part[d])
    BY FS_Subset
  <2>2. \A x \in part[d] : f[x] \in Int
    OBVIOUS
  <2> QED
    BY <2>1, <2>2, SumInteger
<1>5. CASE E = {}
  <2>1. All(E) = {}
    BY <1>5
  <2> QED
    BY <1>2, <1>5, <2>1, SumOfNone
<1>6. CASE E # {}
  <2>1. PICK y \in E : TRUE
    BY <1>6
  <2> DEFINE U == E \ {y}
  <2>2. U \in SUBSET E /\ U # E /\ y \notin U /\ U \cup {y} = E
    BY <1>3
  <2>3. IsFiniteSet(U) /\ U \in SUBSET D /\ y \in D
    BY <1>3, <2>2, FS_Subset
  <2>4. All(E) = All(U) \cup part[y] /\ All(U) \cap part[y] = {}
    BY <1>3, <2>2, <2>3
  <2>5. All(U) \in SUBSET S /\ All(E) \in SUBSET S
    BY <1>3, <2>3
  <2>6. IsFiniteSet(All(U))
    BY <2>5, FS_Subset
  <2>7. SumFunctionOnSet(f, All(E)) = SumFunctionOnSet(f, All(U)) + h[y]
    <3>1. \A x \in All(U) \cup part[y] : f[x] \in Int
      BY <2>4, <2>5
    <3> HIDE DEF All, U
    <3> QED
      BY <1>4, <2>3, <2>4, <2>6, <3>1, SumDisjoint
  <2>8. SumFunctionOnSet(h, E) = SumFunctionOnSet(h, U) + h[y]
    <3>1. \A d \in U \cup {y} : h[d] \in Int
      BY <1>4, <2>3
    <3> HIDE DEF U
    <3> QED
      BY <2>2, <2>3, <3>1, SumAdds
  <2>9. SumFunctionOnSet(h, U) = SumFunctionOnSet(f, All(U))
    BY <1>2, <2>2, <2>3
  <2> QED
    BY <1>2, <2>7, <2>8, <2>9
<1> QED
  BY <1>5, <1>6

-----------------------------------------------------------------------------
(* Days.                                                                   *)

LEMMA ProductOrder ==
  ASSUME NEW a \in Int, NEW b \in Int, a < b
  PROVE  PerDay * a + PerDay <= PerDay * b
<1>1. PICK k \in Nat : b = a + 1 + k
  <2>1. b - a - 1 \in Nat
    OBVIOUS
  <2> QED
    BY <2>1
<1>2. PerDay * b = PerDay * a + PerDay + PerDay * k
  BY <1>1, TimeAssumption
<1>3. PerDay * k >= 0
  BY <1>1, TimeAssumption
<1> QED
  BY <1>2, <1>3, TimeAssumption

LEMMA DayBounds ==
  ASSUME NEW t \in Int
  PROVE  Day(t) \in Int /\ PerDay * Day(t) <= t /\ t < PerDay * Day(t) + PerDay
BY TimeAssumption DEF Day

\* The bounds name the day.
LEMMA DayUnique ==
  ASSUME NEW t \in Int, NEW a \in Int, PerDay * a <= t, t < PerDay * a + PerDay
  PROVE  Day(t) = a
<1>1. PICK d \in Int : d = Day(t)
  BY DayBounds
<1>2. PerDay * d <= t /\ t < PerDay * d + PerDay
  BY <1>1, DayBounds
<1>3. ~ d < a
  <2>1. SUFFICES ASSUME d < a PROVE FALSE
    OBVIOUS
  <2>2. PerDay * d + PerDay <= PerDay * a
    BY <2>1, ProductOrder
  <2> QED
    BY <1>2, <2>2, TimeAssumption
<1>4. ~ a < d
  <2>1. SUFFICES ASSUME a < d PROVE FALSE
    OBVIOUS
  <2>2. PerDay * a + PerDay <= PerDay * d
    BY <2>1, ProductOrder
  <2> QED
    BY <1>2, <2>2, TimeAssumption
<1> QED
  BY <1>1, <1>3, <1>4

LEMMA DayOrder ==
  ASSUME NEW s \in Int, NEW t \in Int, s <= t
  PROVE  Day(s) <= Day(t)
<1>1. PICK c \in Int, d \in Int : c = Day(s) /\ d = Day(t)
  BY DayBounds
<1>2. PerDay * c <= s /\ t < PerDay * d + PerDay
  BY <1>1, DayBounds
<1>3. ~ d < c
  <2>1. SUFFICES ASSUME d < c PROVE FALSE
    OBVIOUS
  <2>2. PerDay * d + PerDay <= PerDay * c
    BY <2>1, ProductOrder
  <2> QED
    BY <1>2, <2>2, TimeAssumption
<1> QED
  BY <1>1, <1>3

LEMMA DayShift ==
  ASSUME NEW t \in Int, NEW r \in Int
  PROVE  t - r * PerDay \in Int /\ Day(t - r * PerDay) = Day(t) - r
<1>1. PICK d \in Int : d = Day(t)
  BY DayBounds
<1>2. PerDay * d <= t /\ t < PerDay * d + PerDay
  BY <1>1, DayBounds
<1>3. PICK p \in Int : p = r * PerDay
  BY TimeAssumption
<1>4. PerDay * (d - r) = PerDay * d - p
  BY <1>3, TimeAssumption
<1>5. PerDay * (d - r) <= t - p /\ t - p < PerDay * (d - r) + PerDay
  BY <1>2, <1>4, TimeAssumption
<1> QED
  BY <1>1, <1>3, <1>5, DayUnique

-----------------------------------------------------------------------------
(* Counters and costs.                                                     *)

Row == [Counters -> Nat]

LEMMA CountersType ==
  ASSUME NEW S, S \subseteq Digests, IsFiniteSet(S)
  PROVE  CountersOf(S) \in Row
<1>1. ASSUME NEW c \in Counters
      PROVE  SumFunctionOnSet(Adds(c), S) \in Nat
  <2>1. \A d \in S : Adds(c)[d] \in Nat
    BY TokensAssumption DEF Adds
  <2> QED
    BY <2>1, SumNatural
<1> QED
  BY <1>1 DEF CountersOf, Row

LEMMA NoneCounted == CountersOf({}) \in Row
BY CountersType, FS_EmptySet

LEMMA CountersAdd ==
  ASSUME NEW S, S \subseteq Digests, IsFiniteSet(S), NEW d \in Digests, d \notin S
  PROVE  CountersOf(S \cup {d})
           = [c \in Counters |-> CountersOf(S)[c] + Tokens[d][c]]
<1>1. ASSUME NEW c \in Counters
      PROVE  SumFunctionOnSet(Adds(c), S \cup {d})
               = SumFunctionOnSet(Adds(c), S) + Tokens[d][c]
  <2>1. \A x \in S \cup {d} : Adds(c)[x] \in Int
    BY TokensAssumption DEF Adds
  <2>2. Adds(c)[d] = Tokens[d][c]
    BY DEF Adds
  <2> QED
    BY <2>1, <2>2, SumAdds
<1> QED
  BY <1>1 DEF CountersOf

LEMMA TotalType ==
  ASSUME NEW a \in Int, NEW b \in Int, NEW rows \in [a .. b -> Row]
  PROVE  Total(rows) \in Row
<1>1. IsFiniteSet(a .. b) /\ DOMAIN rows = a .. b
  BY FS_Interval
<1>2. ASSUME NEW c \in Counters
      PROVE  SumFunction([day \in DOMAIN rows |-> rows[day][c]]) \in Nat
  <2> DEFINE f == [day \in a .. b |-> rows[day][c]]
  <2>1. \A day \in a .. b : f[day] \in Nat
    BY DEF Row
  <2>2. DOMAIN f = a .. b
    OBVIOUS
  <2>3. f = [day \in DOMAIN rows |-> rows[day][c]]
    BY <1>1
  <2> HIDE DEF f
  <2>4. SumFunctionOnSet(f, a .. b) \in Nat
    BY <1>1, <2>1, SumNatural
  <2> QED
    BY <2>2, <2>3, <2>4 DEF SumFunction
<1> QED
  BY <1>2 DEF Total, Row

LEMMA NaturalProduct ==
  ASSUME NEW a \in Nat, NEW b \in Nat
  PROVE  a * b \in Nat
OBVIOUS

LEMMA LLMCostType ==
  ASSUME NEW kind \in Kinds, NEW d \in Digests, Model[kind][d] \in DOMAIN Price
  PROVE  LLMCost(kind, d) \in Nat
<1> DEFINE m == Model[kind][d]
           n == [f \in Fields |-> Tokens[d][<<kind, f>>]]
           rate == IF m = Luna /\ n["input"] > Long
                     THEN [input |-> 2 * Price[m].input, cached |-> 2 * Price[m].cached,
                           output |-> (3 * Price[m].output) \div 2]
                     ELSE Price[m]
           regular == IF n["input"] > n["cached"] THEN n["input"] - n["cached"] ELSE 0
<1>1. /\ Price[m]["input"] \in Nat /\ Price[m]["cached"] \in Nat
      /\ Price[m]["output"] \in Nat
  BY PriceAssumption DEF Fields
<1>2. \A f \in Fields : <<kind, f>> \in Counters
  BY DEF Counters
<1>3. n["input"] \in Nat /\ n["cached"] \in Nat /\ n["output"] \in Nat
  BY <1>2, TokensAssumption DEF Fields
<1>4. /\ rate["input"] \in Nat /\ rate["cached"] \in Nat /\ rate["output"] \in Nat
  <2> HIDE DEF m, n
  <2>1. CASE m = Luna /\ n["input"] > Long
    BY <1>1, <2>1
  <2>2. CASE ~ (m = Luna /\ n["input"] > Long)
    BY <1>1, <2>2
  <2> QED
    BY <2>1, <2>2
<1>5. regular \in Nat
  <2> HIDE DEF n
  <2> QED
    BY <1>3
<1>6. LLMCost(kind, d) = regular * rate["input"] + n["cached"] * rate["cached"]
                           + n["output"] * rate["output"]
  BY DEF LLMCost
<1> HIDE DEF m, n, rate, regular
<1>7. /\ regular * rate["input"] \in Nat /\ n["cached"] * rate["cached"] \in Nat
      /\ n["output"] * rate["output"] \in Nat
  BY <1>3, <1>4, <1>5, NaturalProduct
<1> QED
  BY <1>6, <1>7

LEMMA LLMCostsType ==
  ASSUME NEW kind \in Kinds, NEW S, S \subseteq Digests, IsFiniteSet(S),
         Priced(kind, S)
  PROVE  LLMCosts(kind, S) \in Nat
<1> DEFINE f == [d \in S |-> LLMCost(kind, d)]
<1>1. \A d \in S : LLMCost(kind, d) \in Nat
  BY LLMCostType DEF Priced
<1>2. DOMAIN f = S /\ \A d \in S : f[d] \in Nat
  BY <1>1
<1>3. LLMCosts(kind, S) = SumFunctionOnSet(f, DOMAIN f)
  BY DEF LLMCosts, SumFunction
<1> HIDE DEF f
<1> QED
  BY <1>2, <1>3, SumNatural

LEMMA PictureCostType ==
  ASSUME NEW row \in Row, PicturesPriced
  PROVE  PictureCost(row) \in Nat
<1> DEFINE P == {"text", "image", "output"}
           price == PicturePrice[imageModel]
           f == [x \in P |-> price[x] * row[<<"picture", x>>]]
<1>1. \A x \in P : price[x] \in Nat /\ row[<<"picture", x>>] \in Nat
  <2>1. \A x \in P : <<"picture", x>> \in Counters
    BY DEF Counters
  <2> QED
    BY <2>1, PriceAssumption DEF Row, PicturesPriced
<1>2. IsFiniteSet(P)
  <2>1. IsFiniteSet({"text"}) /\ IsFiniteSet({"image"}) /\ IsFiniteSet({"output"})
    BY FS_Singleton
  <2>2. IsFiniteSet({"text"} \cup {"image"})
    BY <2>1, FS_Union
  <2>3. IsFiniteSet(({"text"} \cup {"image"}) \cup {"output"})
    BY <2>1, <2>2, FS_Union
  <2>4. P = ({"text"} \cup {"image"}) \cup {"output"}
    OBVIOUS
  <2> QED
    BY <2>3, <2>4
<1>3. DOMAIN f = P /\ PictureCost(row) = SumFunctionOnSet(f, DOMAIN f)
  BY PriceAssumption DEF PictureCost, PicturesPriced, SumFunction
<1>4. \A x \in P : f[x] \in Nat
  BY <1>1, NaturalProduct
<1> HIDE DEF P, f
<1> QED
  BY <1>2, <1>3, <1>4, SumNatural

\* What the cost of a line promises: Whole is the conclusion of CostIsComplete
\* for these digests.
Whole(kind, S, row, cost) ==
  /\ cost >= 0
  /\ AddUp(kind, S, row)
  /\ Known(kind, S)
  /\ cost = FullCost(kind, S, row)

LEMMA CostsTyped ==
  ASSUME NEW kind \in Kinds, NEW S, S \subseteq Digests, IsFiniteSet(S),
         NEW row \in Row, Priced(kind, Requesting(kind, S))
  PROVE  /\ LLMCosts(kind, Requesting(kind, S)) \in Nat
         /\ Known(kind, S) => FullCost(kind, S, row) \in Nat
<1>1. Requesting(kind, S) \subseteq S
  BY DEF Requesting
<1>2. Requesting(kind, S) \subseteq Digests /\ IsFiniteSet(Requesting(kind, S))
  BY <1>1, FS_Subset
<1>3. LLMCosts(kind, Requesting(kind, S)) \in Nat
  BY <1>2, LLMCostsType
<1>4. kind = "image" /\ Known(kind, S) => PictureCost(row) \in Nat
  BY PictureCostType DEF Known
<1> QED
  BY <1>3, <1>4 DEF FullCost

\* The cost beside the counters of these digests: the whole, or none.
LEMMA CostValue ==
  ASSUME NEW kind \in Kinds, NEW S, S \subseteq Digests, IsFiniteSet(S),
         NEW row \in Row
  PROVE  Cost(kind, S, row) = IF AddUp(kind, S, row) /\ Known(kind, S)
                                THEN FullCost(kind, S, row) ELSE None
<1> DEFINE llm == RecordedLLMCost(kind, S, row)
           picture == PictureCost(row)
<1>1. CASE ~ (Priced(kind, Requesting(kind, S)) /\ AddUp(kind, S, row))
  <2>1. llm = None
    BY <1>1 DEF RecordedLLMCost
  <2> QED
    BY <1>1, <2>1 DEF Cost, Known
<1>2. CASE Priced(kind, Requesting(kind, S)) /\ AddUp(kind, S, row)
  <2>1. llm = LLMCosts(kind, Requesting(kind, S)) /\ llm \in Nat /\ llm # None
    BY <1>2, CostsTyped, NoneAssumption DEF RecordedLLMCost
  <2>2. CASE kind = "text"
    <3>1. Known(kind, S) /\ FullCost(kind, S, row) = llm + 0
      BY <1>2, <2>1, <2>2 DEF Known, FullCost
    <3>2. Cost(kind, S, row) = llm
      BY <2>2 DEF Cost
    <3> QED
      BY <1>2, <2>1, <3>1, <3>2
  <2>3. CASE kind = "image" /\ ~ PicturesPriced
    <3>1. picture = None /\ ~ Known(kind, S)
      BY <2>3 DEF PictureCost, Known
    <3> QED
      BY <2>3, <3>1 DEF Cost
  <2>4. CASE kind = "image" /\ PicturesPriced
    <3>1. picture # None /\ Known(kind, S)
      BY <1>2, <2>4, PictureCostType, NoneAssumption DEF Known
    <3>2. FullCost(kind, S, row) = llm + picture
      BY <2>1, <2>4 DEF FullCost
    <3>3. Cost(kind, S, row) = llm + picture
      BY <2>1, <2>4, <3>1 DEF Cost
    <3> QED
      BY <1>2, <3>1, <3>2, <3>3
  <2> QED
    BY <2>2, <2>3, <2>4 DEF Kinds
<1> QED
  BY <1>1, <1>2

LEMMA CostWhole ==
  ASSUME NEW kind \in Kinds, NEW S, S \subseteq Digests, IsFiniteSet(S),
         NEW row \in Row, Cost(kind, S, row) # None
  PROVE  Whole(kind, S, row, Cost(kind, S, row))
<1>1. /\ AddUp(kind, S, row) /\ Known(kind, S)
      /\ Cost(kind, S, row) = FullCost(kind, S, row)
  BY CostValue
<1>2. FullCost(kind, S, row) \in Nat
  BY <1>1, CostsTyped DEF Known
<1> QED
  BY <1>1, <1>2 DEF Whole

\* The cost beside the counters of the same digests.
LEMMA CostExact ==
  ASSUME NEW kind \in Kinds, NEW S, S \subseteq Digests, IsFiniteSet(S)
  PROVE  Cost(kind, S, CountersOf(S))
           = IF Known(kind, S) THEN FullCost(kind, S, CountersOf(S)) ELSE None
<1>1. CountersOf(S) \in Row
  BY CountersType
<1>2. AddUp(kind, S, CountersOf(S))
  BY DEF AddUp
<1> QED
  BY <1>1, <1>2, CostValue

-----------------------------------------------------------------------------
(* The inductive invariant.                                                *)

\* The parts of the state.  The first statement of a section has left the rows
\* of an interval of days.
Typed ==
  /\ now \in Nat /\ now <= MaxTime
  /\ retention \in Retentions /\ imageModel \in ImageModels
  /\ told \subseteq [id : Digests, at : Nat] /\ IsFiniteSet(told)
  /\ batches \subseteq told
  /\ stats \in [Days -> Row]
  /\ cutoff \in Int \cup {None}
  /\ report \in [at : {"idle", "totals", "requests", "publish"},
                 section : 1 .. 4, days : SUBSET Int, first : Int]
  /\ report.at = "requests" => \E a, b \in Int : totals \in [a .. b -> Row]
  /\ quiet \in BOOLEAN

\* A digest is recorded once, and not in the future.
Recorded ==
  /\ \A b \in told : b.at <= now
  /\ \A a, b \in told : a.id = b.id => a = b

\* Digests are deleted by their instant, before the rows of their days.
Old == now - retention * PerDay

Deleted ==
  /\ \A b \in told \ batches : b.at < Old
  /\ cutoff # None => cutoff <= Old /\ \A b \in batches : b.at >= cutoff

\* The days of the retention still have rows, of all their digests.
Counts(day) == stats[day] = CountersOf(Ids(On(told, day)))
Kept == \A day \in Days : day >= Today - retention => Counts(day)

IndInv == Typed /\ Recorded /\ Deleted /\ Kept /\ DaysComplete

\* What an undisturbed report has read is still so.
StillRead ==
  quiet =>
    /\ report.at = "requests" =>
         /\ totals = [day \in From .. Today |-> stats[day]]
         /\ report.first = From
    /\ report.at \in {"requests", "publish"} \/ report.section > 1 =>
         report.days = (Today - (Week - 1)) .. Today

LEMMA TodayBounds ==
  ASSUME Typed
  PROVE  Today \in Int /\ 0 <= Today /\ Today <= Day(MaxTime) /\ Day(MaxTime) \in Int
<1>1. Day(0) = 0
  BY DayUnique, TimeAssumption
<1>2. now \in Int /\ 0 <= now /\ now <= MaxTime /\ MaxTime \in Int
  BY TimeAssumption DEF Typed
<1>3. Day(0) <= Day(now) /\ Day(now) <= Day(MaxTime)
  BY <1>2, DayOrder
<1>4. Day(now) \in Int /\ Day(MaxTime) \in Int
  BY <1>2, DayBounds
<1> QED
  BY <1>1, <1>3, <1>4 DEF Today

\* The sections, and the days that they count.
LEMMA SectionType ==
  ASSUME Typed
  PROVE  Section \in [kind : Kinds, daily : BOOLEAN]
<1>1. report.section \in 1 .. 4
  BY DEF Typed
<1>2. /\ Sections[1] = [kind |-> "text", daily |-> TRUE]
      /\ Sections[2] = [kind |-> "text", daily |-> FALSE]
      /\ Sections[3] = [kind |-> "image", daily |-> TRUE]
      /\ Sections[4] = [kind |-> "image", daily |-> FALSE]
  BY DEF Sections
<1>3. \A kind \in Kinds, daily \in BOOLEAN :
        [kind |-> kind, daily |-> daily] \in [kind : Kinds, daily : BOOLEAN]
  OBVIOUS
<1>4. "text" \in Kinds /\ "image" \in Kinds
  BY DEF Kinds
<1>5. \A i \in 1 .. 4 : i = 1 \/ i = 2 \/ i = 3 \/ i = 4
  OBVIOUS
<1> QED
  BY <1>1, <1>2, <1>3, <1>4, <1>5 DEF Section

LEMMA FromBounds ==
  ASSUME Typed
  PROVE  /\ From \in Int /\ From <= Today /\ Today - Month < From
         /\ From .. Today \subseteq Days
         /\ Section.daily => From = Today - (Week - 1)
         /\ ~ Section.daily => From = Today - (Month - 1)
<1>1. PICK d \in Int : d = Today /\ 0 <= d /\ d <= Day(MaxTime)
  BY TodayBounds
<1>2. From = d - ((IF Section.daily THEN Week ELSE Month) - 1)
  BY <1>1 DEF From
<1>3. From \in Int /\ From <= d /\ d - Month < From
  BY <1>2, TimeAssumption
<1>4. From .. Today \subseteq Days
  BY <1>1, <1>3, TodayBounds, TimeAssumption DEF Days
<1> QED
  BY <1>1, <1>2, <1>3, <1>4

LEMMA InstantDay ==
  ASSUME Typed, Recorded, NEW b \in told
  PROVE  Day(b.at) \in Int /\ Day(b.at) <= Today /\ Day(b.at) \in Days
<1>1. b.at \in Nat /\ b.at <= now /\ now \in Nat
  BY DEF Typed, Recorded
<1>2. Day(b.at) \in Int /\ Day(b.at) <= Day(now) /\ Day(0) <= Day(b.at)
  BY <1>1, DayBounds, DayOrder
<1>3. Day(0) = 0
  BY DayUnique, TimeAssumption
<1> QED
  BY <1>2, <1>3, TodayBounds, TimeAssumption DEF Today, Days

\* The digests of some records.
LEMMA IdsType ==
  ASSUME Typed, NEW S \in SUBSET told
  PROVE  Ids(S) \subseteq Digests /\ IsFiniteSet(Ids(S)) /\ Ids(S) \subseteq Ids(told)
<1>1. IsFiniteSet(S)
  BY FS_Subset DEF Typed
<1>2. IsFiniteSet({b.id : b \in S})
  <2> DEFINE f == [b \in S |-> b.id]
  <2>1. f \in Surjection(S, {b.id : b \in S})
    BY DEF Surjection
  <2> QED
    BY <1>1, <2>1, FS_Surjection
<1> QED
  BY <1>2 DEF Typed, Ids

-----------------------------------------------------------------------------

\* The day a digest is added to: today or the day before.
LEMMA CommitDay ==
  ASSUME Typed, NEW at \in {now, now - 1} \cap Nat
  PROVE  /\ at \in Nat /\ at <= now
         /\ Day(at) \in Days /\ Day(at) >= Today - 1
<1>1. at \in Nat /\ at <= now /\ now \in Nat /\ now - 1 * PerDay <= at
  BY TimeAssumption DEF Typed
<1>2. now - 1 * PerDay \in Int /\ Day(now - 1 * PerDay) = Today - 1
  BY <1>1, DayShift DEF Today
<1>3. Today - 1 <= Day(at) /\ Day(at) <= Today /\ Day(0) <= Day(at) /\ Day(at) \in Int
  BY <1>1, <1>2, DayOrder, DayBounds DEF Today
<1>4. Day(0) = 0
  BY DayUnique, TimeAssumption
<1> QED
  BY <1>1, <1>3, <1>4, TodayBounds, TimeAssumption DEF Days

LEMMA RowAdds ==
  ASSUME NEW row \in Row, NEW d \in Digests
  PROVE  [c \in Counters |-> row[c] + Tokens[d][c]] \in Row
BY TokensAssumption DEF Row

LEMMA TypedInit == Init => Typed /\ Recorded /\ Deleted
<1> SUFFICES ASSUME Init PROVE Typed /\ Recorded /\ Deleted
  OBVIOUS
<1>1. stats \in [Days -> Row]
  BY NoneCounted DEF Init
<1>2. IsFiniteSet(told) /\ told = {} /\ batches = {}
  BY FS_EmptySet DEF Init
<1>3. report \in [at : {"idle", "totals", "requests", "publish"},
                  section : 1 .. 4, days : SUBSET Int, first : Int]
      /\ report.at = "idle"
  BY DEF Init
<1> QED
  BY <1>1, <1>2, <1>3, TimeAssumption DEF Init, Typed, Recorded, Deleted

LEMMA TypedNext == Typed /\ [Next]_vars => Typed'
<1> SUFFICES ASSUME Typed, [Next]_vars PROVE Typed'
  OBVIOUS
<1>1. ASSUME NEW d \in Digests, Commit(d) PROVE Typed'
  <2>1. PICK at \in {now, now - 1} \cap Nat :
          /\ Record(d, at)
          /\ stats' = [stats EXCEPT ![Day(at)] =
                        [c \in Counters |-> @[c] + Tokens[d][c]]]
    BY <1>1 DEF Commit
  <2>2. at \in Nat /\ Day(at) \in Days
    BY <2>1, CommitDay
  <2>3. stats' \in [Days -> Row]
    <3>1. stats[Day(at)] \in Row
      BY <2>2 DEF Typed
    <3>2. [c \in Counters |-> stats[Day(at)][c] + Tokens[d][c]] \in Row
      BY <3>1, RowAdds
    <3> QED
      BY <2>1, <2>2, <3>2 DEF Typed
  <2>4. /\ told' \subseteq [id : Digests, at : Nat] /\ IsFiniteSet(told')
        /\ batches' \subseteq told'
    <3> DEFINE new == [id |-> d, at |-> at]
    <3>1. new \in [id : Digests, at : Nat]
      BY <2>2
    <3>2. told' = told \cup {new} /\ batches' = batches \cup {new}
      BY <2>1 DEF Record
    <3>3. IsFiniteSet(told \cup {new})
      BY FS_AddElement DEF Typed
    <3> HIDE DEF new
    <3> QED
      BY <3>1, <3>2, <3>3 DEF Typed
  <2> QED
    BY <2>1, <2>3, <2>4 DEF Record, Typed
<1>2. CASE Tick
  BY <1>2, TimeAssumption DEF Tick, Typed
<1>3. CASE PruneBatches
  <2>1. now - retention * PerDay \in Int
    BY TimeAssumption DEF Typed
  <2> QED
    BY <1>3, <2>1 DEF PruneBatches, Typed
<1>4. CASE PruneStats
  <2>1. stats' \in [Days -> Row]
    BY <1>4, NoneCounted DEF PruneStats, Forget, Typed
  <2> QED
    BY <1>4, <2>1 DEF PruneStats, Forget, Typed
<1>5. CASE PruneFails
  BY <1>5 DEF PruneFails, Typed
<1>6. CASE Ask
  <2>1. report' \in [at : {"idle", "totals", "requests", "publish"},
                    section : 1 .. 4, days : SUBSET Int, first : Int]
        /\ report'.at = "totals"
    BY <1>6 DEF Ask
  <2> QED
    BY <1>6, <2>1 DEF Ask, Typed
<1>7. CASE ReadTotals
  <2>1. From \in Int /\ Today \in Int /\ From .. Today \subseteq Days
    BY FromBounds, TodayBounds
  <2>2. totals' \in [From .. Today -> Row]
    BY <1>7, <2>1 DEF ReadTotals, Typed
  <2>3. report' \in [at : {"idle", "totals", "requests", "publish"},
                    section : 1 .. 4, days : SUBSET Int, first : Int]
    <3>1. From .. Today \in SUBSET Int
      BY <2>1
    <3> QED
      BY <1>7, <2>1, <3>1 DEF ReadTotals, Typed
  <2>4. \E a, b \in Int : totals' \in [a .. b -> Row]
    BY <2>1, <2>2
  <2> QED
    BY <1>7, <2>3, <2>4 DEF ReadTotals, Typed
<1>8. CASE ReadRequests
  <2>1. report' = IF report.section = Len(Sections)
                    THEN [report EXCEPT !.at = "publish"]
                    ELSE [report EXCEPT !.at = "totals", !.section = @ + 1]
    BY <1>8 DEF ReadRequests
  <2>2. Len(Sections) = 4
    BY DEF Sections
  <2>3. report' \in [at : {"idle", "totals", "requests", "publish"},
                    section : 1 .. 4, days : SUBSET Int, first : Int]
        /\ report'.at # "requests"
    <3>1. report.section \in 1 .. 4
      BY DEF Typed
    <3>2. CASE report.section = 4
      BY <2>1, <2>2, <3>2 DEF Typed
    <3>3. CASE report.section # 4
      <4>1. report.section + 1 \in 1 .. 4
        BY <3>1, <3>3
      <4>2. report' = [report EXCEPT !.at = "totals", !.section = report.section + 1]
        BY <2>1, <2>2, <3>3
      <4> QED
        BY <4>1, <4>2 DEF Typed
    <3> QED
      BY <3>2, <3>3
  <2> QED
    BY <1>8, <2>3 DEF ReadRequests, Typed
<1>9. CASE EndReport
  <2>1. report' \in [at : {"idle", "totals", "requests", "publish"},
                    section : 1 .. 4, days : SUBSET Int, first : Int]
        /\ report'.at = "idle"
    BY <1>9 DEF EndReport
  <2> QED
    BY <1>9, <2>1 DEF EndReport, Typed
<1>10. CASE UNCHANGED vars
  <2>1. UNCHANGED <<now, retention, batches, stats, cutoff, report, totals, told, quiet, imageModel>>
    BY <1>10 DEF vars
  <2> QED
    BY <2>1 DEF Typed
<1> QED
  BY <1>1, <1>2, <1>3, <1>4, <1>5, <1>6, <1>7, <1>8, <1>9, <1>10 DEF Next

\* The state of the statistics and of a report keeps its types: every row has
\* a natural number in each counter, the batches are among those recorded, and
\* a section that has read its totals holds rows of an interval of days.
THEOREM TypeCorrect == Spec => []Typed
<1>1. Init => Typed
  BY TypedInit
<1> QED
  BY <1>1, TypedNext, PTL DEF Spec

-----------------------------------------------------------------------------
(* The rows of the days.                                                   *)

LEMMA RecordedNext == Typed /\ Recorded /\ [Next]_vars => Recorded'
<1> SUFFICES ASSUME Typed, Recorded, [Next]_vars PROVE Recorded'
  OBVIOUS
<1>1. ASSUME NEW d \in Digests, Commit(d) PROVE Recorded'
  <2>1. PICK at \in {now, now - 1} \cap Nat : Record(d, at)
    BY <1>1 DEF Commit
  <2>2. at <= now
    BY <2>1, CommitDay
  <2> DEFINE new == [id |-> d, at |-> at]
  <2>3. told' = told \cup {new} /\ now' = now /\ new.id = d /\ new.at = at
    BY <2>1 DEF Record
  <2>4. \A b \in told : b.id # d
    BY <2>1 DEF Record, Ids
  <2> HIDE DEF new
  <2> QED
    BY <2>2, <2>3, <2>4 DEF Recorded
<1>2. CASE Tick
  <2>1. \A b \in told : b.at <= now + 1
    BY DEF Recorded, Typed
  <2> QED
    BY <1>2, <2>1 DEF Tick, Recorded
<1>3. CASE UNCHANGED <<now, told>>
  BY <1>3 DEF Recorded
<1> QED
  BY <1>1, <1>2, <1>3
     DEF Next, vars, PruneBatches, PruneStats, Forget, PruneFails, Ask,
         ReadTotals, ReadRequests, EndReport

LEMMA OldType ==
  ASSUME Typed
  PROVE  Old \in Int /\ Day(Old) = Today - retention /\ now \in Int /\ Old <= now
<1>1. now \in Nat /\ retention \in Nat
  BY TimeAssumption DEF Typed
<1>2. retention * PerDay \in Nat
  BY <1>1, NaturalProduct, TimeAssumption
<1>3. Day(now - retention * PerDay) = Day(now) - retention
  BY <1>1, DayShift
<1>4. PICK p \in Nat : p = retention * PerDay
  BY <1>2
<1> QED
  BY <1>1, <1>3, <1>4 DEF Old, Today

LEMMA DeletedNext == Typed /\ Deleted /\ [Next]_vars => Deleted'
<1> SUFFICES ASSUME Typed, Deleted, [Next]_vars PROVE Deleted'
  OBVIOUS
<1>0. \A b \in told : b.at \in Int
  BY DEF Typed
<1>1. ASSUME NEW d \in Digests, Commit(d) PROVE Deleted'
  <2>1. PICK at \in {now, now - 1} \cap Nat : Record(d, at)
    BY <1>1 DEF Commit
  <2> DEFINE new == [id |-> d, at |-> at]
  <2>2. /\ told' = told \cup {new} /\ batches' = batches \cup {new}
        /\ UNCHANGED <<now, retention, cutoff>> /\ new.at = at
    BY <2>1 DEF Record
  <2>3. at >= Old
    <3>1. PICK p \in Nat : p = retention * PerDay /\ p >= 1
      <4>1. retention \in Nat \ {0}
        BY TimeAssumption DEF Typed
      <4> QED
        BY <4>1, TimeAssumption
    <3>2. at \in Int /\ at >= now - 1 /\ now \in Int
      BY DEF Typed
    <3> QED
      BY <3>1, <3>2 DEF Old
  <2>4. Old' = Old
    BY <2>2 DEF Old
  <2>5. cutoff # None => at >= cutoff
    BY <2>3, OldType DEF Deleted, Typed
  <2> HIDE DEF new
  <2> QED
    BY <2>2, <2>4, <2>5 DEF Deleted
<1>2. CASE Tick
  <2>1. UNCHANGED <<retention, batches, cutoff, told>> /\ now' = now + 1
    BY <1>2 DEF Tick
  <2>2. PICK p \in Int : p = retention * PerDay
    BY TimeAssumption DEF Typed
  <2>3. Old = now - p /\ Old' = now + 1 - p /\ now \in Int
    BY <2>1, <2>2 DEF Old, Typed
  <2>4. PICK o \in Int : o = Old /\ o <= Old' /\ Old' \in Int
    BY <2>3
  <2>5. \A b \in told \ batches : b.at < Old'
    BY <1>0, <2>4 DEF Deleted
  <2>6. cutoff # None => cutoff <= Old'
    BY <2>4 DEF Deleted, Typed
  <2> QED
    BY <2>1, <2>5, <2>6 DEF Deleted
<1>3. CASE PruneBatches
  <2>1. /\ UNCHANGED <<now, retention, told>> /\ cutoff' = Old
        /\ batches' = {b \in batches : b.at >= cutoff'}
    BY <1>3 DEF PruneBatches, Old
  <2>2. Old' = Old
    BY <2>1 DEF Old
  <2>3. \A b \in told \ batches' : b.at < Old
    BY <1>0, <2>1, OldType DEF Deleted
  <2> QED
    BY <2>1, <2>2, <2>3, OldType DEF Deleted
<1>4. ASSUME UNCHANGED <<now, retention, batches, told>>,
             cutoff' = None \/ UNCHANGED cutoff
      PROVE  Deleted'
  BY <1>4 DEF Deleted, Old
<1> QED
  BY <1>1, <1>2, <1>3, <1>4
     DEF Next, vars, PruneStats, Forget, PruneFails, Ask, ReadTotals,
         ReadRequests, EndReport

\* A committed digest is added to the row of its day, and to no other.
LEMMA CommitCounts ==
  ASSUME Typed, Recorded, NEW d \in Digests, Commit(d), NEW day \in Days, Counts(day)
  PROVE  Counts(day)'
<1>1. PICK at \in {now, now - 1} \cap Nat :
        /\ Record(d, at)
        /\ stats' = [stats EXCEPT ![Day(at)] =
                      [c \in Counters |-> @[c] + Tokens[d][c]]]
  BY DEF Commit
<1>2. Day(at) \in Days
  BY <1>1, CommitDay
<1> DEFINE new == [id |-> d, at |-> at]
           S == Ids(On(told, day))
<1>3. told' = told \cup {new} /\ new.id = d /\ new.at = at
  BY <1>1 DEF Record
<1>4. CASE Day(at) = day
  <2>1. Ids(On(told', day)) = S \cup {d}
    <3> HIDE DEF new
    <3> QED
      BY <1>3, <1>4 DEF Ids, On
  <2>2. On(told, day) \in SUBSET told
    BY DEF On
  <2>3. S \subseteq Digests /\ IsFiniteSet(S) /\ S \subseteq Ids(told)
    BY <2>2, IdsType
  <2>4. d \notin S
    BY <1>1, <2>3 DEF Record
  <2>5. CountersOf(S \cup {d}) = [c \in Counters |-> CountersOf(S)[c] + Tokens[d][c]]
    <3> HIDE DEF S
    <3> QED
      BY <2>3, <2>4, CountersAdd
  <2>6. stats'[day] = [c \in Counters |-> stats[day][c] + Tokens[d][c]]
    BY <1>1, <1>2, <1>4 DEF Typed
  <2> QED
    BY <2>1, <2>5, <2>6 DEF Counts
<1>5. CASE Day(at) # day
  <2>1. On(told', day) = On(told, day)
    <3> HIDE DEF new
    <3> QED
      BY <1>3, <1>5 DEF On
  <2>2. stats'[day] = stats[day]
    BY <1>1, <1>2, <1>5 DEF Typed
  <2> QED
    BY <2>1, <2>2 DEF Counts
<1> QED
  BY <1>4, <1>5

\* A row that is deleted is of a day before the retention, and none of its
\* digests is left.
LEMMA ForgottenDay ==
  ASSUME Typed, Recorded, Deleted, cutoff # None, NEW day \in Days, day < Day(cutoff)
  PROVE  On(batches, day) = {} /\ day < Today - retention
<1>1. cutoff \in Int /\ cutoff <= Old
  BY DEF Typed, Deleted
<1>2. PICK o \in Int : o = Day(cutoff) /\ o <= Today - retention
  BY <1>1, OldType, DayBounds, DayOrder
<1>3. ASSUME NEW b \in batches PROVE Day(b.at) # day
  <2>1. b.at \in Int /\ cutoff <= b.at
    BY <1>1 DEF Typed, Deleted
  <2>2. Day(cutoff) <= Day(b.at) /\ Day(b.at) \in Int
    BY <1>1, <2>1, DayBounds, DayOrder
  <2>3. day \in Int
    BY TodayBounds DEF Days
  <2> QED
    BY <1>2, <2>2, <2>3
<1>4. day < Today - retention
  <2>1. day \in Int /\ Today - retention \in Int
    BY TodayBounds, TimeAssumption DEF Days, Typed
  <2> QED
    BY <1>2, <2>1
<1> QED
  BY <1>3, <1>4 DEF On

LEMMA DaysNext == IndInv /\ [Next]_vars => Kept' /\ DaysComplete'
<1> SUFFICES ASSUME IndInv, [Next]_vars PROVE Kept' /\ DaysComplete'
  OBVIOUS
<1>0. Typed /\ Recorded /\ Deleted /\ Kept /\ DaysComplete
  BY DEF IndInv
<1>n. /\ Today \in Int /\ retention \in Nat \ {0}
      /\ \A day \in Days : day \in Int
  BY <1>0, TodayBounds, TimeAssumption DEF Typed, Days
<1>1. ASSUME NEW d \in Digests, Commit(d) PROVE Kept' /\ DaysComplete'
  <2>1. PICK at \in {now, now - 1} \cap Nat :
          /\ Record(d, at)
          /\ stats' = [stats EXCEPT ![Day(at)] =
                        [c \in Counters |-> @[c] + Tokens[d][c]]]
    BY <1>1 DEF Commit
  <2>2. Day(at) \in Days /\ Day(at) >= Today - retention
    <3>1. Day(at) \in Days /\ Day(at) >= Today - 1
      BY <1>0, <2>1, CommitDay
    <3> QED
      BY <1>n, <3>1
  <2>3. \A day \in Days : Counts(day) => Counts(day)'
    BY <1>0, <1>1, CommitCounts
  <2>4. Today' = Today /\ UNCHANGED retention
    BY <2>1 DEF Record, Today
  <2>5. Kept'
    BY <1>0, <2>3, <2>4 DEF Kept
  <2>6. ASSUME NEW day \in Days, stats[day] = CountersOf({}), On(batches, day) = {},
               ~ Counts(day)
        PROVE  stats'[day] = CountersOf({}) /\ On(batches', day) = {}
    <3>1. Day(at) # day
      BY <1>0, <2>2, <2>6 DEF Kept
    <3>2. batches' = batches \cup {[id |-> d, at |-> at]}
      BY <2>1 DEF Record
    <3>3. On(batches', day) = On(batches, day)
      BY <3>1, <3>2 DEF On
    <3>4. stats'[day] = stats[day]
      BY <1>0, <2>1, <2>2, <3>1 DEF Typed
    <3> QED
      BY <2>6, <3>3, <3>4
  <2>7. DaysComplete'
    BY <1>0, <2>3, <2>6 DEF DaysComplete, Counts
  <2> QED
    BY <2>5, <2>7
<1>2. CASE Tick
  <2>1. UNCHANGED <<retention, batches, stats, told>> /\ now' = now + 1
    BY <1>2 DEF Tick
  <2>2. Today <= Today' /\ Today' \in Int
    <3>1. now \in Int /\ now + 1 \in Int /\ now <= now + 1
      BY <1>0 DEF Typed
    <3> QED
      BY <2>1, <3>1, DayBounds, DayOrder DEF Today
  <2>3. \A day \in Days : day >= Today' - retention => day >= Today - retention
    BY <1>n, <2>2
  <2>4. Kept'
    BY <1>0, <2>1, <2>3 DEF Kept, Counts
  <2> QED
    BY <1>0, <2>1, <2>4 DEF DaysComplete
<1>3. CASE PruneBatches
  <2>1. UNCHANGED <<now, retention, stats, told>> /\ batches' \subseteq batches
    BY <1>3 DEF PruneBatches
  <2>2. Kept'
    BY <1>0, <2>1 DEF Kept, Counts, Today
  <2>3. \A day \in Days : On(batches, day) = {} => On(batches', day) = {}
    BY <2>1 DEF On
  <2> QED
    BY <1>0, <2>1, <2>2, <2>3 DEF DaysComplete
<1>4. CASE PruneStats
  <2>1. /\ UNCHANGED <<now, retention, batches, told>> /\ cutoff # None
        /\ stats' = [day \in Days |-> IF day < Day(cutoff) THEN CountersOf({})
                                       ELSE stats[day]]
    BY <1>4 DEF PruneStats, Forget
  <2>2. \A day \in Days : day < Day(cutoff) =>
          On(batches, day) = {} /\ day < Today - retention
    BY <1>0, <2>1, ForgottenDay
  <2>3. Kept'
    <3> SUFFICES ASSUME NEW day \in Days, day >= Today - retention
                 PROVE  Counts(day)'
      BY <2>1 DEF Kept, Today
    <3>1. ~ day < Day(cutoff)
      BY <1>n, <2>2
    <3>2. stats'[day] = stats[day] /\ Counts(day)
      BY <1>0, <2>1, <3>1 DEF Kept
    <3> QED
      BY <2>1, <3>2 DEF Counts
  <2>4. DaysComplete'
    BY <1>0, <2>1, <2>2 DEF DaysComplete
  <2> QED
    BY <2>3, <2>4
<1>5. CASE UNCHANGED <<now, retention, batches, stats, told>>
  BY <1>0, <1>5 DEF Kept, Counts, DaysComplete, Today
<1> QED
  BY <1>1, <1>2, <1>3, <1>4, <1>5
     DEF Next, vars, PruneFails, Ask, ReadTotals, ReadRequests, EndReport

LEMMA IndInvInit == Init => IndInv
<1> SUFFICES ASSUME Init PROVE IndInv
  OBVIOUS
<1>1. \A day \in Days : Ids(On(told, day)) = {} /\ stats[day] = CountersOf({})
  BY DEF Init, Ids, On
<1> QED
  BY <1>1, TypedInit DEF IndInv, Kept, Counts, DaysComplete

LEMMA IndInvNext == IndInv /\ [Next]_vars => IndInv'
BY TypedNext, RecordedNext, DeletedNext, DaysNext DEF IndInv

\* MarkBatchPublished and PruneExpiredData (storage/usage.go, retention.go): the
\* row of a day counts every digest of the day, or is gone, and then the digests
\* of the day are gone, too, although the two tables are pruned by an instant
\* and by a day, in two statements that may be interrupted.
THEOREM RowsComplete == Spec => []DaysComplete
<1>1. IndInv => DaysComplete
  BY DEF IndInv
<1> QED
  BY <1>1, IndInvInit, IndInvNext, PTL DEF Spec

-----------------------------------------------------------------------------
(* The costs.                                                              *)

\* What a line needs, in a state that knows the digests of told.
WholeLine(l) ==
  \E S \in SUBSET Ids(told) : Whole(l.kind, S, l.row, l.cost)

LEMMA WholeLines == CostIsComplete <=> \A l \in shown : l.cost # None => WholeLine(l)
BY DEF CostIsComplete, WholeLine, Whole

LEMMA LineWhole ==
  ASSUME Typed, NEW from, NEW to, NEW row \in Row, NEW requests \in SUBSET told,
         Line(from, to, row, requests).cost # None
  PROVE  WholeLine(Line(from, to, row, requests))
<1>1. Section.kind \in Kinds
  BY SectionType
<1>2. /\ Ids(requests) \subseteq Digests /\ IsFiniteSet(Ids(requests))
      /\ Ids(requests) \subseteq Ids(told)
  BY IdsType
<1>3. /\ Line(from, to, row, requests).kind = Section.kind
      /\ Line(from, to, row, requests).row = row
      /\ Line(from, to, row, requests).cost = Cost(Section.kind, Ids(requests), row)
  BY DEF Line
<1>4. Whole(Section.kind, Ids(requests), row, Cost(Section.kind, Ids(requests), row))
  BY <1>1, <1>2, <1>3, CostWhole
<1> QED
  BY <1>2, <1>3, <1>4 DEF WholeLine

\* What a line was computed from does not go away.
LEMMA RecordsStay ==
  Typed /\ [Next]_vars => Ids(told) \subseteq Ids(told') /\ imageModel' = imageModel
<1> SUFFICES ASSUME Typed, [Next]_vars
             PROVE  told \subseteq told' /\ imageModel' = imageModel
  BY DEF Ids
<1>1. \A d \in Digests : Commit(d) => told \subseteq told' /\ imageModel' = imageModel
  BY DEF Commit, Record
<1> QED
  BY <1>1 DEF Next, vars, Tick, PruneBatches, PruneStats, Forget, PruneFails, Ask,
              ReadTotals, ReadRequests, EndReport

LEMMA CostNext == Typed /\ CostIsComplete /\ [Next]_vars => CostIsComplete'
<1> SUFFICES ASSUME Typed, CostIsComplete, [Next]_vars
             PROVE  \A l \in shown' : l.cost # None => WholeLine(l)'
  BY DEF CostIsComplete, WholeLine, Whole
<1>1. Ids(told) \subseteq Ids(told') /\ imageModel' = imageModel
  BY RecordsStay
<1>2. \A l : WholeLine(l) => WholeLine(l)'
  BY <1>1 DEF WholeLine, Whole, Known, FullCost, PicturesPriced, PictureCost
<1>3. CASE ReadRequests
  <2> DEFINE requests == {b \in batches : Day(b.at) >= From}
  <2>1. /\ report.at = "requests" /\ UNCHANGED told
        /\ shown' = IF Section.daily THEN DailyLines(requests)
                      ELSE {PeriodLine(requests)}
    BY <1>3 DEF ReadRequests
  <2>2. requests \in SUBSET told
    BY DEF Typed
  <2>3. PICK a \in Int, b \in Int : totals \in [a .. b -> Row]
    BY <2>1 DEF Typed
  <2> HIDE DEF requests
  <2>4. ASSUME NEW l \in DailyLines(requests), l.cost # None PROVE WholeLine(l)
    <3>1. PICK day \in report.days :
            l = Line(day, day,
                     IF day \in DOMAIN totals THEN totals[day] ELSE CountersOf({}),
                     IF day \in DOMAIN totals THEN On(requests, day) ELSE {})
      BY <2>4 DEF DailyLines
    <3>2. CASE day \in DOMAIN totals
      <4>1. totals[day] \in Row /\ On(requests, day) \in SUBSET told
        BY <2>2, <2>3, <3>2 DEF On
      <4>2. l = Line(day, day, totals[day], On(requests, day))
        BY <3>1, <3>2
      <4> QED
        BY <2>4, <4>1, <4>2, LineWhole
    <3>3. CASE day \notin DOMAIN totals
      <4>1. l = Line(day, day, CountersOf({}), {}) /\ {} \in SUBSET told
        BY <3>1, <3>3
      <4> QED
        BY <2>4, <4>1, LineWhole, NoneCounted
    <3> QED
      BY <3>2, <3>3
  <2>5. ASSUME PeriodLine(requests).cost # None PROVE WholeLine(PeriodLine(requests))
    <3>1. Total(totals) \in Row
      BY <2>3, TotalType
    <3> QED
      BY <2>2, <2>5, <3>1, LineWhole DEF PeriodLine
  <2> QED
    BY <1>2, <2>1, <2>4, <2>5
<1>4. CASE shown' \subseteq shown
  BY <1>2, <1>4, WholeLines
<1> QED
  BY <1>3, <1>4
     DEF Next, vars, Commit, Record, Tick, PruneBatches, PruneStats, Forget,
         PruneFails, Ask, ReadTotals, EndReport

\* recordedLLMCostValue, imageCostValue: the cost in a line of a report is that
\* of digests whose tokens are those in the line, each at the rates of its own
\* model, and never negative, whatever happens between the statements.
THEOREM CostsComplete == Spec => []CostIsComplete
<1>1. Init => Typed /\ CostIsComplete
  BY TypedInit DEF Init, CostIsComplete
<1> QED
  BY <1>1, TypedNext, CostNext, PTL DEF Spec

-----------------------------------------------------------------------------
(* An undisturbed report.                                                  *)

\* Nothing that a report reads changes under it, unless quiet falls.
LEMMA QuietStep ==
  ASSUME Typed, [Next]_vars, quiet', ~ Ask
  PROVE  /\ quiet /\ Today' = Today
         /\ UNCHANGED <<retention, imageModel, batches, stats, told>>
         /\ \/ ReadTotals \/ ReadRequests \/ EndReport
            \/ UNCHANGED <<report, totals, shown>>
<1>1. CASE Tick
  BY <1>1 DEF Tick, Today
<1>2. ASSUME NEW d \in Digests, Commit(d) PROVE FALSE
  BY <1>2 DEF Commit, Record
<1>3. CASE ReadTotals \/ ReadRequests \/ EndReport \/ PruneFails \/ UNCHANGED vars
  BY <1>3 DEF ReadTotals, ReadRequests, EndReport, PruneFails, vars, Today
<1> QED
  BY <1>1, <1>2, <1>3 DEF Next, PruneBatches, PruneStats, Forget

LEMMA StillReadNext == Typed /\ StillRead /\ [Next]_vars => StillRead'
<1> SUFFICES ASSUME Typed, StillRead, [Next]_vars, quiet' PROVE StillRead'
  BY DEF StillRead
<1>1. CASE Ask
  <2>1. report'.at = "totals" /\ report'.section = 1
    BY <1>1 DEF Ask
  <2> QED
    BY <2>1 DEF StillRead
<1>2. CASE ~ Ask
  <2>0. /\ quiet /\ Today' = Today
        /\ UNCHANGED <<retention, imageModel, batches, stats, told>>
        /\ \/ ReadTotals \/ ReadRequests \/ EndReport
           \/ UNCHANGED <<report, totals, shown>>
    BY <1>2, QuietStep
  <2>1. CASE ReadTotals
    <3>1. /\ totals' = [day \in From .. Today |-> stats[day]]
          /\ report.at = "totals"
          /\ report' = [report EXCEPT !.at = "requests", !.first = From,
                          !.days = IF report.section = 1 THEN From .. Today ELSE @]
      BY <2>1 DEF ReadTotals
    <3>2. /\ report'.section = report.section /\ report'.first = From
          /\ report'.days = IF report.section = 1 THEN From .. Today ELSE report.days
      BY <3>1 DEF Typed
    <3>3. From' = From
      BY <2>0, <3>2 DEF From, Section
    <3>4. report.section = 1 => Section.daily
      BY DEF Section, Sections
    <3>5. report'.days = (Today - (Week - 1)) .. Today
      <4>1. CASE report.section = 1
        BY <3>2, <3>4, <4>1, FromBounds
      <4>2. CASE report.section # 1
        BY <2>0, <3>2, <4>2 DEF StillRead, Typed
      <4> QED
        BY <4>1, <4>2
    <3> QED
      BY <2>0, <3>1, <3>2, <3>3, <3>5 DEF StillRead
  <2>2. CASE ReadRequests
    <3>1. /\ report.at = "requests"
          /\ report' = IF report.section = Len(Sections)
                         THEN [report EXCEPT !.at = "publish"]
                         ELSE [report EXCEPT !.at = "totals", !.section = @ + 1]
      BY <2>2 DEF ReadRequests
    <3>2. report'.at # "requests" /\ report'.days = report.days
      BY <3>1 DEF Typed
    <3> QED
      BY <2>0, <3>1, <3>2 DEF StillRead
  <2>3. CASE EndReport
    <3>1. report'.at = "idle" /\ report'.section = 1
      BY <2>3 DEF EndReport
    <3> QED
      BY <3>1 DEF StillRead
  <2>4. CASE UNCHANGED <<report, totals, shown>>
    BY <2>0, <2>4 DEF StillRead, From, Section
  <2> QED
    BY <2>0, <2>1, <2>2, <2>3, <2>4
<1> QED
  BY <1>1, <1>2

\* The digests recorded on some days.
During(from, to) == {b \in told : Day(b.at) \in from .. to}

\* The rows of an interval of days add up to the counters of its digests.
LEMMA PeriodTotal ==
  ASSUME Typed, Recorded, NEW from \in Int, NEW to \in Int, NEW rows,
         rows = [day \in from .. to |-> stats[day]],
         \A day \in from .. to : Counts(day)
  PROVE  Total(rows) = CountersOf(Ids(During(from, to)))
<1> DEFINE D == from .. to
           part == [day \in D |-> Ids(On(told, day))]
           S == Ids(told)
<1>1. IsFiniteSet(D)
  BY FS_Interval
<1>2. IsFiniteSet(S) /\ S \subseteq Digests
  BY IdsType
<1>3. \A day \in D : part[day] \subseteq S
  BY DEF Ids, On
<1>4. \A d, e \in D : d # e => part[d] \cap part[e] = {}
  BY DEF Ids, On, Recorded
<1>5. UNION {part[d] : d \in D} = Ids(During(from, to))
  <2>1. UNION {part[d] : d \in D} = UNION {Ids(On(told, d)) : d \in D}
    OBVIOUS
  <2> QED
    BY <2>1 DEF During, Ids, On
<1>6. ASSUME NEW c \in Counters
      PROVE  SumFunction([day \in DOMAIN rows |-> rows[day][c]])
               = SumFunctionOnSet(Adds(c), Ids(During(from, to)))
  <2> DEFINE h == [day \in DOMAIN rows |-> rows[day][c]]
  <2>1. DOMAIN h = D
    OBVIOUS
  <2>2. \A day \in D : h[day] = SumFunctionOnSet(Adds(c), part[day])
    BY DEF Counts, CountersOf
  <2>3. \A x \in S : Adds(c)[x] \in Int
    BY <1>2, TokensAssumption DEF Adds
  <2>4. SumFunction(h) = SumFunctionOnSet(h, D)
    BY <2>1 DEF SumFunction
  <2> HIDE DEF D, part, S, h
  <2>5. SumFunctionOnSet(h, D) = SumFunctionOnSet(Adds(c), UNION {part[d] : d \in D})
    BY <1>1, <1>2, <1>3, <1>4, <2>2, <2>3, SumOfParts
  <2> QED
    BY <1>5, <2>4, <2>5 DEF h
<1> QED
  BY <1>6 DEF Total, CountersOf

\* While the retention covers the period, its rows and its digests are there.
LEMMA RetainedPeriod ==
  ASSUME IndInv, retention >= Month
  PROVE  /\ \A day \in From .. Today : Counts(day)
         /\ \A b \in told : Day(b.at) >= From => b \in batches
<1>0. Typed /\ Recorded /\ Deleted /\ Kept
  BY DEF IndInv
<1>1. PICK t \in Int, r \in Int : t = Today /\ r = retention /\ t - r < From /\ From \in Int
  <2>1. Today \in Int /\ retention \in Int /\ From \in Int /\ Today - Month < From
    BY <1>0, TodayBounds, FromBounds, TimeAssumption DEF Typed
  <2> QED
    BY <2>1, TimeAssumption
<1>2. ASSUME NEW day \in From .. Today PROVE Counts(day)
  <2>1. day \in Days
    BY <1>0, FromBounds
  <2>2. day >= Today - retention
    BY <1>1
  <2> QED
    BY <1>0, <2>1, <2>2 DEF Kept
<1>3. ASSUME NEW b \in told, Day(b.at) >= From PROVE b \in batches
  <2>1. SUFFICES ASSUME b \notin batches PROVE FALSE
    OBVIOUS
  <2>2. b.at \in Int /\ b.at <= Old
    BY <1>0, <2>1, OldType DEF Deleted, Typed
  <2>3. Day(b.at) <= Today - retention /\ Day(b.at) \in Int
    BY <1>0, <2>2, OldType, DayBounds, DayOrder
  <2> QED
    BY <1>1, <1>3, <2>3
<1> QED
  BY <1>2, <1>3

\* A line that is exact for the digests of told.
ExactLine(l) ==
  LET S == Ids(During(l.from, l.to)) IN
    /\ l.row = CountersOf(S)
    /\ l.cost = IF Known(l.kind, S) THEN FullCost(l.kind, S, l.row) ELSE None

LEMMA LineExact ==
  ASSUME Typed, NEW from, NEW to, NEW row, NEW requests,
         requests = During(from, to), row = CountersOf(Ids(requests))
  PROVE  ExactLine(Line(from, to, row, requests))
<1>1. Section.kind \in Kinds
  BY SectionType
<1>2. requests \in SUBSET told
  BY DEF During
<1>3. Ids(requests) \subseteq Digests /\ IsFiniteSet(Ids(requests))
  BY <1>2, IdsType
<1> DEFINE l == Line(from, to, row, requests)
<1>4. /\ l.kind = Section.kind /\ l.from = from /\ l.to = to /\ l.row = row
      /\ l.cost = Cost(Section.kind, Ids(requests), row)
  BY DEF Line
<1> HIDE DEF l
<1>5. Cost(Section.kind, Ids(requests), row)
        = IF Known(Section.kind, Ids(requests))
            THEN FullCost(Section.kind, Ids(requests), row) ELSE None
  BY <1>1, <1>3, CostExact
<1>6. ExactLine(l)
  BY <1>4, <1>5 DEF ExactLine
<1> QED
  BY <1>6 DEF l

LEMMA ExactLines ==
  QuietReportIsExact <=> (quiet /\ retention >= Month => \A l \in shown : ExactLine(l))
BY DEF QuietReportIsExact, ExactLine, During

LEMMA QuietNext ==
  IndInv /\ StillRead /\ QuietReportIsExact /\ [Next]_vars => QuietReportIsExact'
<1> SUFFICES ASSUME IndInv, StillRead, QuietReportIsExact, [Next]_vars,
                    quiet', retention' >= Month
             PROVE  \A l \in shown' : ExactLine(l)'
  BY DEF QuietReportIsExact, ExactLine, During
<1>0. Typed /\ Recorded
  BY DEF IndInv
<1>1. CASE Ask
  BY <1>1 DEF Ask
<1>2. CASE ~ Ask
  <2>0. /\ quiet /\ Today' = Today
        /\ UNCHANGED <<retention, imageModel, batches, stats, told>>
        /\ \/ ReadTotals \/ ReadRequests \/ EndReport
           \/ UNCHANGED <<report, totals, shown>>
    BY <1>0, <1>2, QuietStep
  <2>1. \A l : ExactLine(l)' <=> ExactLine(l)
    BY <2>0 DEF ExactLine, During, Known, FullCost, PicturesPriced, PictureCost
  <2>2. CASE shown' \subseteq shown
    BY <2>0, <2>1, <2>2, ExactLines
  <2>3. CASE ReadRequests
    <3> DEFINE requests == {b \in batches : Day(b.at) >= From}
    <3>1. /\ report.at = "requests"
          /\ shown' = IF Section.daily THEN DailyLines(requests)
                        ELSE {PeriodLine(requests)}
      BY <2>3 DEF ReadRequests
    <3>2. /\ totals = [day \in From .. Today |-> stats[day]]
          /\ report.first = From /\ report.days = (Today - (Week - 1)) .. Today
      BY <2>0, <3>1 DEF StillRead
    <3>3. /\ \A day \in From .. Today : Counts(day)
          /\ \A b \in told : Day(b.at) >= From => b \in batches
      BY <2>0, RetainedPeriod
    <3>4. From \in Int /\ Today \in Int /\ \A b \in told : Day(b.at) \in Int /\ Day(b.at) <= Today
      BY <1>0, FromBounds, TodayBounds, InstantDay
    <3>5. requests = {b \in told : Day(b.at) >= From}
      BY <1>0, <3>3 DEF Typed
    <3> HIDE DEF requests
    <3>6. CASE Section.daily
      <4> SUFFICES ASSUME NEW l \in DailyLines(requests) PROVE ExactLine(l)
        BY <2>1, <3>1, <3>6
      <4>1. report.days = From .. Today /\ DOMAIN totals = From .. Today
        BY <1>0, <3>2, <3>6, FromBounds
      <4>2. PICK day \in From .. Today : l = Line(day, day, totals[day], On(requests, day))
        BY <4>1 DEF DailyLines
      <4>3. On(requests, day) = On(told, day)
        BY <3>4, <3>5 DEF On
      <4>4. On(told, day) = During(day, day)
        <5>1. day \in Int
          BY <3>4
        <5>2. \A b \in told : Day(b.at) = day <=> Day(b.at) \in day .. day
          BY <3>4, <5>1
        <5> QED
          BY <5>2 DEF On, During
      <4>5. totals[day] = CountersOf(Ids(On(told, day)))
        BY <3>2, <3>3 DEF Counts
      <4> QED
        BY <1>0, <4>2, <4>3, <4>4, <4>5, LineExact
    <3>7. CASE ~ Section.daily
      <4>1. From + Month - 1 = Today
        <5>1. From = Today - (Month - 1)
          BY <1>0, <3>7, FromBounds
        <5> QED
          BY <3>4, <5>1, TimeAssumption
      <4>2. PeriodLine(requests) = Line(From, Today, Total(totals), requests)
        BY <3>2, <4>1 DEF PeriodLine
      <4>3. requests = During(From, Today)
        BY <3>4, <3>5 DEF During
      <4>4. Total(totals) = CountersOf(Ids(During(From, Today)))
        BY <1>0, <3>2, <3>3, <3>4, PeriodTotal
      <4>5. ExactLine(PeriodLine(requests))
        BY <1>0, <4>2, <4>3, <4>4, LineExact
      <4> QED
        BY <2>1, <3>1, <3>7, <4>5
    <3> QED
      BY <3>6, <3>7
  <2> QED
    BY <2>0, <2>2, <2>3 DEF ReadTotals, EndReport
<1> QED
  BY <1>1, <1>2

\* The debug report: when nothing is recorded or deleted and no midnight passes
\* while it is read, and the retention covers a month, each line counts exactly
\* the digests of its days and shows their whole cost, or none if the model of one
\* or, beside images, the image model has no price.
THEOREM QuietReportsExact == Spec => []QuietReportIsExact
<1>1. Init => StillRead /\ QuietReportIsExact
  BY DEF Init, StillRead, QuietReportIsExact
<1>2. StillRead /\ IndInv /\ [Next]_vars => StillRead'
  BY StillReadNext DEF IndInv
<1> QED
  BY <1>1, <1>2, IndInvInit, IndInvNext, QuietNext, PTL DEF Spec

=============================================================================
