-------------------------------- MODULE Sums --------------------------------
(***************************************************************************)
(* What SumFunctionOnSet of the community module Functions adds up to over *)
(* a finite set: an integer or a natural number, the same in any order,    *)
(* changed by as much as one of its values.                                *)
(*                                                                         *)
(* The sum is a recursive function over the subsets of the set (Sums).     *)
(* That there is such a function, and every fact about it, is shown by a   *)
(* smallest set for which it would fail (SmallestSet): inclusion is well   *)
(* founded on finite sets.                                                 *)
(***************************************************************************)
EXTENDS Integers, Functions, FiniteSetTheorems, WellFoundedInduction, TLAPS

\* Of some subsets of a finite set, one has none of the others inside.
LEMMA SmallestSet ==
  ASSUME NEW S, IsFiniteSet(S), NEW B, B \subseteq SUBSET S, B # {}
  PROVE  \E E \in B : \A U \in B : U \subseteq E => U = E
<1>1. B \subseteq FiniteSubsetsOf(S)
  BY FS_Subset DEF FiniteSubsetsOf
<1>2. PICK E \in B : \A U \in B : ~ (<<U, E>> \in StrictSubsetOrdering(S))
  BY <1>1, WFMin, FS_StrictSubsetOrderingWellFounded
<1>3. ASSUME NEW U \in B, U \subseteq E PROVE U = E
  BY <1>2, <1>3 DEF StrictSubsetOrdering
<1> QED
  BY <1>3

-----------------------------------------------------------------------------
(***************************************************************************)
(* The running sum.                                                        *)
(***************************************************************************)
Pick(s) == CHOOSE x \in s : TRUE

\* g is the running sum of f over the subsets of E.
Sums(g, f, E) ==
  g = [s \in SUBSET E |-> IF s = {} THEN 0 ELSE f[Pick(s)] + g[s \ {Pick(s)}]]

LEMMA PickIn == \A s : s # {} => Pick(s) \in s
  BY DEF Pick

\* Two running sums agree where both are defined.
LEMMA RunningUnique ==
  ASSUME NEW f, NEW h, NEW D, NEW E, NEW u, NEW v, IsFiniteSet(D),
         \A x \in D : f[x] = h[x],
         Sums(u, f, D), Sums(v, h, E)
  PROVE  \A s \in SUBSET D : s \in SUBSET E => u[s] = v[s]
<1> DEFINE B == {s \in SUBSET D : s \in SUBSET E /\ u[s] # v[s]}
<1> SUFFICES ASSUME B # {} PROVE FALSE
  OBVIOUS
<1>0. B \subseteq SUBSET D
  OBVIOUS
<1>1. PICK s \in B : \A U \in B : U \subseteq s => U = s
  <2> HIDE DEF B
  <2> QED
    BY <1>0, SmallestSet
<1>2. s # {}
  BY DEF Sums
<1>3. Pick(s) \in s /\ Pick(s) \in D
  BY <1>2, PickIn
<1>4. s \ {Pick(s)} \notin B
  BY <1>1, <1>3
<1>5. u[s \ {Pick(s)}] = v[s \ {Pick(s)}]
  BY <1>4
<1>6. u[s] = f[Pick(s)] + u[s \ {Pick(s)}] /\ v[s] = h[Pick(s)] + v[s \ {Pick(s)}]
  BY <1>2 DEF Sums
<1> QED
  BY <1>3, <1>5, <1>6

\* There is a running sum, put together from those of the smaller sets.
LEMMA RunningExists ==
  ASSUME NEW f, NEW D, IsFiniteSet(D)
  PROVE  \E g : Sums(g, f, D)
<1> DEFINE B == {E \in SUBSET D : ~ \E g : Sums(g, f, E)}
<1> SUFFICES ASSUME B # {} PROVE FALSE
  OBVIOUS
<1>0. B \subseteq SUBSET D
  OBVIOUS
<1>1. PICK E \in B : \A U \in B : U \subseteq E => U = E
  <2> HIDE DEF B
  <2> QED
    BY <1>0, SmallestSet
<1>2. \A U \in SUBSET E : U # E => \E g : Sums(g, f, U)
  BY <1>1
<1> DEFINE below(U) == CHOOSE g : Sums(g, f, U)
           g == [s \in SUBSET E |->
                   IF s = {} THEN 0
                   ELSE IF s = E THEN f[Pick(s)] + below(s \ {Pick(s)})[s \ {Pick(s)}]
                   ELSE below(s)[s]]
<1>3. \A U \in SUBSET E : U # E => Sums(below(U), f, U)
  BY <1>2
<1>4. ASSUME NEW s \in SUBSET E, s # {}
      PROVE  g[s] = f[Pick(s)] + g[s \ {Pick(s)}]
  <2>1. Pick(s) \in s
    BY <1>4, PickIn
  <2> DEFINE r == s \ {Pick(s)}
  <2>2. r \in SUBSET E /\ r # E /\ r # s
    BY <2>1
  <2>3. Sums(below(r), f, r)
    BY <1>3, <2>2
  <2>4. g[r] = below(r)[r]
    <3>1. CASE r = {}
      BY <2>2, <2>3, <3>1 DEF Sums
    <3>2. CASE r # {}
      BY <2>2, <3>2
    <3> QED
      BY <3>1, <3>2
  <2>5. CASE s = E
    BY <1>4, <2>4, <2>5
  <2>6. CASE s # E
    <3>1. Sums(below(s), f, s)
      BY <1>3, <2>6
    <3>2. below(s)[s] = f[Pick(s)] + below(s)[r]
      BY <1>4, <3>1 DEF Sums
    <3>3. IsFiniteSet(r)
      BY <2>2, FS_Subset
    <3>4. below(r)[r] = below(s)[r]
      BY <2>3, <3>1, <3>3, RunningUnique
    <3> QED
      BY <1>4, <2>4, <2>6, <3>2, <3>4
  <2> QED
    BY <2>5, <2>6
<1>5. Sums(g, f, E)
  <2> SUFFICES g = [s \in SUBSET E |-> IF s = {} THEN 0 ELSE f[Pick(s)] + g[s \ {Pick(s)}]]
    BY DEF Sums
  <2>1. g[{}] = 0 /\ g = [s \in SUBSET E |-> g[s]]
    OBVIOUS
  <2> HIDE DEF g
  <2> QED
    BY <1>4, <2>1
<1> QED
  BY <1>1, <1>5

-----------------------------------------------------------------------------
(***************************************************************************)
(* What follows from that for SumFunctionOnSet.                            *)
(***************************************************************************)
\* One running sum gives the sum over every subset.
LEMMA RunningSum ==
  ASSUME NEW f, NEW E, IsFiniteSet(E)
  PROVE  \E g : Sums(g, f, E) /\ \A s \in SUBSET E : SumFunctionOnSet(f, s) = g[s]
<1> DEFINE total(s) == CHOOSE g : Sums(g, f, s)
<1>1. \A s \in SUBSET E : IsFiniteSet(s)
  BY FS_Subset
<1>2. \A s \in SUBSET E : Sums(total(s), f, s)
  BY <1>1, RunningExists
<1>3. \A s \in SUBSET E : SumFunctionOnSet(f, s) = total(s)[s]
  BY DEF SumFunctionOnSet, FoldFunctionOnSet, MapThenFoldSet, Sums, Pick
<1>4. \A s \in SUBSET E : total(s)[s] = total(E)[s]
  BY <1>1, <1>2, RunningUnique
<1> QED
  BY <1>2, <1>3, <1>4

\* The sum depends on the values only.
LEMMA SumSame ==
  ASSUME NEW f, NEW h, NEW E, IsFiniteSet(E), \A x \in E : f[x] = h[x]
  PROVE  SumFunctionOnSet(f, E) = SumFunctionOnSet(h, E)
<1>1. PICK u : Sums(u, f, E) /\ \A s \in SUBSET E : SumFunctionOnSet(f, s) = u[s]
  BY RunningSum
<1>2. PICK v : Sums(v, h, E) /\ \A s \in SUBSET E : SumFunctionOnSet(h, s) = v[s]
  BY RunningSum
<1>3. u[E] = v[E]
  BY <1>1, <1>2, RunningUnique
<1> QED
  BY <1>1, <1>2, <1>3

LEMMA SumEmpty ==
  ASSUME NEW f
  PROVE  SumFunctionOnSet(f, {}) = 0
<1>1. PICK g : Sums(g, f, {}) /\ \A s \in SUBSET {} : SumFunctionOnSet(f, s) = g[s]
  BY FS_EmptySet, RunningSum
<1>2. g[{}] = 0
  BY <1>1 DEF Sums
<1> QED
  BY <1>1, <1>2

LEMMA SumPick ==
  ASSUME NEW f, NEW E, IsFiniteSet(E), E # {}
  PROVE  /\ Pick(E) \in E
         /\ SumFunctionOnSet(f, E) =
              f[Pick(E)] + SumFunctionOnSet(f, E \ {Pick(E)})
<1>1. PICK g : Sums(g, f, E) /\ \A s \in SUBSET E : SumFunctionOnSet(f, s) = g[s]
  BY RunningSum
<1>2. g[E] = f[Pick(E)] + g[E \ {Pick(E)}]
  BY <1>1 DEF Sums
<1>3. SumFunctionOnSet(f, E) = g[E]
  BY <1>1
<1>4. SumFunctionOnSet(f, E \ {Pick(E)}) = g[E \ {Pick(E)}]
  BY <1>1
<1> QED
  BY <1>2, <1>3, <1>4, PickIn

\* A sum of integers is one, and of natural numbers is one.
LEMMA SumInt ==
  ASSUME NEW f, NEW E, IsFiniteSet(E), \A x \in E : f[x] \in Int
  PROVE  SumFunctionOnSet(f, E) \in Int
<1> DEFINE B == {s \in SUBSET E : SumFunctionOnSet(f, s) \notin Int}
<1> SUFFICES ASSUME B # {} PROVE FALSE
  OBVIOUS
<1>0. B \subseteq SUBSET E
  OBVIOUS
<1>1. PICK s \in B : \A U \in B : U \subseteq s => U = s
  <2> HIDE DEF B
  <2> QED
    BY <1>0, SmallestSet
<1>2. s # {}
  BY SumEmpty
<1>3. IsFiniteSet(s)
  BY <1>0, FS_Subset
<1>4. /\ Pick(s) \in s
      /\ SumFunctionOnSet(f, s) = f[Pick(s)] + SumFunctionOnSet(f, s \ {Pick(s)})
  BY <1>2, <1>3, SumPick
<1>5. s \ {Pick(s)} \notin B
  BY <1>1, <1>4
<1>6. SumFunctionOnSet(f, s \ {Pick(s)}) \in Int /\ SumFunctionOnSet(f, s) \notin Int
  BY <1>5
<1>7. f[Pick(s)] \in Int
  BY <1>4
<1> HIDE DEF B
<1> QED
  BY <1>4, <1>6, <1>7

LEMMA SumNat ==
  ASSUME NEW f, NEW E, IsFiniteSet(E), \A x \in E : f[x] \in Nat
  PROVE  SumFunctionOnSet(f, E) \in Nat
<1> DEFINE B == {s \in SUBSET E : SumFunctionOnSet(f, s) \notin Nat}
<1> SUFFICES ASSUME B # {} PROVE FALSE
  OBVIOUS
<1>0. B \subseteq SUBSET E
  OBVIOUS
<1>1. PICK s \in B : \A U \in B : U \subseteq s => U = s
  <2> HIDE DEF B
  <2> QED
    BY <1>0, SmallestSet
<1>2. s # {}
  BY SumEmpty
<1>3. IsFiniteSet(s)
  BY <1>0, FS_Subset
<1>4. /\ Pick(s) \in s
      /\ SumFunctionOnSet(f, s) = f[Pick(s)] + SumFunctionOnSet(f, s \ {Pick(s)})
  BY <1>2, <1>3, SumPick
<1>5. s \ {Pick(s)} \notin B
  BY <1>1, <1>4
<1>6. SumFunctionOnSet(f, s \ {Pick(s)}) \in Nat /\ SumFunctionOnSet(f, s) \notin Nat
  BY <1>5
<1>7. f[Pick(s)] \in Nat
  BY <1>4
<1> HIDE DEF B
<1> QED
  BY <1>4, <1>6, <1>7

\* Any element may be taken out first.
LEMMA SumTake ==
  ASSUME NEW f, NEW E, IsFiniteSet(E), \A y \in E : f[y] \in Int, NEW x \in E
  PROVE  SumFunctionOnSet(f, E) = f[x] + SumFunctionOnSet(f, E \ {x})
<1> DEFINE B == {s \in SUBSET E :
             \E y \in s : SumFunctionOnSet(f, s) # f[y] + SumFunctionOnSet(f, s \ {y})}
<1> SUFFICES ASSUME B # {} PROVE FALSE
  OBVIOUS
<1>0. B \subseteq SUBSET E
  OBVIOUS
<1>1. PICK s \in B : \A U \in B : U \subseteq s => U = s
  <2> HIDE DEF B
  <2> QED
    BY <1>0, SmallestSet
<1>2. PICK y \in s : SumFunctionOnSet(f, s) # f[y] + SumFunctionOnSet(f, s \ {y})
  OBVIOUS
<1>3. IsFiniteSet(s)
  BY FS_Subset
<1>4. /\ Pick(s) \in s
      /\ SumFunctionOnSet(f, s) = f[Pick(s)] + SumFunctionOnSet(f, s \ {Pick(s)})
  BY <1>3, SumPick
<1> DEFINE p == Pick(s)
<1>5. y # p
  BY <1>2, <1>4
<1>6. SumFunctionOnSet(f, s \ {p}) = f[y] + SumFunctionOnSet(f, (s \ {p}) \ {y})
  BY <1>1, <1>4, <1>5
<1>7. SumFunctionOnSet(f, s \ {y}) = f[p] + SumFunctionOnSet(f, (s \ {y}) \ {p})
  BY <1>1, <1>4, <1>5
<1>8. (s \ {y}) \ {p} = (s \ {p}) \ {y}
  OBVIOUS
<1>9. /\ f[p] \in Int /\ f[y] \in Int
      /\ SumFunctionOnSet(f, (s \ {p}) \ {y}) \in Int
  <2>1. (s \ {p}) \ {y} \in SUBSET E
    OBVIOUS
  <2>2. IsFiniteSet((s \ {p}) \ {y})
    BY <2>1, FS_Subset
  <2>3. SumFunctionOnSet(f, (s \ {p}) \ {y}) \in Int
    BY <2>1, <2>2, SumInt
  <2> QED
    BY <1>4, <2>3
<1> DEFINE rest == SumFunctionOnSet(f, (s \ {p}) \ {y})
<1>10. /\ SumFunctionOnSet(f, s) = f[p] + (f[y] + rest)
       /\ SumFunctionOnSet(f, s \ {y}) = f[p] + rest
  BY <1>4, <1>6, <1>7, <1>8
<1> HIDE DEF p, B, rest
<1> QED
  BY <1>2, <1>9, <1>10 DEF rest

\* A change of one value changes the sum by as much.
LEMMA SumChange ==
  ASSUME NEW f, NEW h, NEW E, IsFiniteSet(E), NEW x \in E,
         \A y \in E : f[y] \in Int /\ h[y] \in Int,
         \A y \in E \ {x} : h[y] = f[y]
  PROVE  SumFunctionOnSet(h, E) = SumFunctionOnSet(f, E) - f[x] + h[x]
<1>1. IsFiniteSet(E \ {x})
  BY FS_Subset
<1>2. SumFunctionOnSet(h, E \ {x}) = SumFunctionOnSet(f, E \ {x})
  BY <1>1, SumSame
<1>3. SumFunctionOnSet(f, E \ {x}) \in Int
  BY <1>1, SumInt
<1>4. /\ SumFunctionOnSet(f, E) = f[x] + SumFunctionOnSet(f, E \ {x})
      /\ SumFunctionOnSet(h, E) = h[x] + SumFunctionOnSet(h, E \ {x})
  BY SumTake
<1> QED
  BY <1>2, <1>3, <1>4

LEMMA SumZero ==
  ASSUME NEW f, NEW E, IsFiniteSet(E), \A x \in E : f[x] = 0
  PROVE  SumFunctionOnSet(f, E) = 0
<1> DEFINE B == {s \in SUBSET E : SumFunctionOnSet(f, s) # 0}
<1> SUFFICES ASSUME B # {} PROVE FALSE
  OBVIOUS
<1>0. B \subseteq SUBSET E
  OBVIOUS
<1>1. PICK s \in B : \A U \in B : U \subseteq s => U = s
  <2> HIDE DEF B
  <2> QED
    BY <1>0, SmallestSet
<1>2. s # {}
  BY SumEmpty
<1>3. IsFiniteSet(s)
  BY <1>0, FS_Subset
<1>4. /\ Pick(s) \in s
      /\ SumFunctionOnSet(f, s) = f[Pick(s)] + SumFunctionOnSet(f, s \ {Pick(s)})
  BY <1>2, <1>3, SumPick
<1>5. s \ {Pick(s)} \notin B
  BY <1>1, <1>4
<1> QED
  BY <1>4, <1>5

\* A part sums up to no more than the whole.
LEMMA SumWithin ==
  ASSUME NEW f, NEW E, IsFiniteSet(E), \A x \in E : f[x] \in Nat,
         NEW D \in SUBSET E
  PROVE  SumFunctionOnSet(f, D) <= SumFunctionOnSet(f, E)
<1> DEFINE B == {s \in SUBSET E : D \subseteq s
                   /\ ~ (SumFunctionOnSet(f, D) <= SumFunctionOnSet(f, s))}
<1> SUFFICES ASSUME B # {} PROVE FALSE
  OBVIOUS
<1>0. B \subseteq SUBSET E
  OBVIOUS
<1>1. PICK s \in B : \A U \in B : U \subseteq s => U = s
  <2> HIDE DEF B
  <2> QED
    BY <1>0, SmallestSet
<1>2. /\ s \in SUBSET E /\ D \subseteq s /\ IsFiniteSet(s)
      /\ ~ (SumFunctionOnSet(f, D) <= SumFunctionOnSet(f, s))
  BY <1>1, FS_Subset
<1>3. \A u \in SUBSET E : SumFunctionOnSet(f, u) \in Nat
  BY SumNat, FS_Subset
<1>4. PICK x \in s : x \notin D
  BY <1>2, <1>3
<1>5. SumFunctionOnSet(f, s) = f[x] + SumFunctionOnSet(f, s \ {x})
  BY <1>2, SumTake
<1>6. s \ {x} \notin B
  BY <1>1, <1>4
<1>7. SumFunctionOnSet(f, D) <= SumFunctionOnSet(f, s \ {x})
  BY <1>2, <1>4, <1>6
<1> QED
  BY <1>2, <1>3, <1>4, <1>5, <1>7

====
