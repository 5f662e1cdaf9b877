----------------------------- MODULE FoldLemmas -----------------------------
(***************************************************************************)
(* Sums over functions of any finite size, as the community modules fold   *)
(* them: FoldFunction picks the elements of the domain in an unspecified   *)
(* order, by a recursive function over its subsets.  That this function    *)
(* exists, and that the order does not matter, is proved here by looking   *)
(* at a smallest counterexample.  The router's TWAP and the risk engine's  *)
(* total of positions are such sums.                                       *)
(***************************************************************************)
EXTENDS Functions, FiniteSetTheorems, TLAPS

\* The sum as the modules write it.
Added(f) == FoldFunction(LAMBDA x, y : x + y, 0, f)

\* The function behind it: Sums(f, D)[s] for every s \subseteq D.
Picked(s) == CHOOSE x \in s : TRUE
SumStep(f, g, s) == IF s = {} THEN 0 ELSE f[Picked(s)] + g[s \ {Picked(s)}]
AreSums(f, D, g) == g = [s \in SUBSET D |-> SumStep(f, g, s)]
Sums(f, D) == CHOOSE g : AreSums(f, D, g)

LEMMA AddedIsSums == ASSUME NEW f PROVE Added(f) = Sums(f, DOMAIN f)[DOMAIN f]
  BY DEF Added, FoldFunction, FoldFunctionOnSet, MapThenFoldSet,
         Sums, AreSums, SumStep, Picked

-----------------------------------------------------------------------------
\* Smallest counterexamples.

LEMMA LeastNatural ==
    ASSUME NEW T \in SUBSET Nat, T # {}
    PROVE  \E n \in T : \A m \in T : n <= m
<1>1. PICK n \in T : \A m \in T : ~ (<<m, n>> \in OpToRel(<, Nat))
  BY WFMin, NatLessThanWellFounded
<1>2. \A m \in T : ~ (m < n)
  BY <1>1 DEF OpToRel
<1> QED
  BY <1>2

LEMMA SubsetSizes ==
    ASSUME NEW D, IsFiniteSet(D)
    PROVE  /\ \A s \in SUBSET D : Cardinality(s) \in Nat /\ Cardinality(s) <= Cardinality(D)
           /\ \A s \in SUBSET D : \A t \in SUBSET s :
                t # s => Cardinality(t) < Cardinality(s)
<1>1. \A s \in SUBSET D : /\ IsFiniteSet(s)
                          /\ Cardinality(s) \in Nat
                          /\ Cardinality(s) <= Cardinality(D)
  BY FS_Subset, FS_CardinalityType
<1>2. ASSUME NEW s \in SUBSET D, NEW t \in SUBSET s, t # s
      PROVE  Cardinality(t) < Cardinality(s)
  <2>1. IsFiniteSet(s) /\ Cardinality(s) \in Nat /\ Cardinality(t) \in Nat
    <3>1. t \in SUBSET D
      OBVIOUS
    <3> QED
      BY <3>1, <1>1
  <2>2. Cardinality(t) <= Cardinality(s) /\ Cardinality(t) # Cardinality(s)
    BY <2>1, <1>2, FS_Subset
  <2> QED
    BY <2>1, <2>2
<1> QED
  BY <1>1, <1>2

\* Among the subsets of a finite set that are bad there is one whose proper
\* subsets are all good: induction over finite sets.
LEMMA SmallestSubset ==
    ASSUME NEW D, IsFiniteSet(D), NEW Bad \in SUBSET (SUBSET D), Bad # {}
    PROVE  \E s \in Bad : \A t \in SUBSET s : t # s => t \notin Bad
<1> DEFINE Sizes == {Cardinality(s) : s \in Bad}
<1>1. Sizes \in SUBSET Nat /\ Sizes # {}
  BY SubsetSizes
<1>2. PICK n \in Sizes : \A m \in Sizes : n <= m
  <2> HIDE DEF Sizes
  <2> QED
    BY <1>1, LeastNatural
<1>3. PICK s \in Bad : \A t \in Bad : Cardinality(s) <= Cardinality(t)
  BY <1>2
<1>4. ASSUME NEW t \in SUBSET s, t # s PROVE t \notin Bad
  <2>1. s \in SUBSET D /\ t \in SUBSET D
    OBVIOUS
  <2>2. /\ Cardinality(t) < Cardinality(s)
        /\ Cardinality(t) \in Nat /\ Cardinality(s) \in Nat
    BY <2>1, <1>4, SubsetSizes
  <2> QED
    BY <2>2, <1>3
<1> QED
  BY <1>4

-----------------------------------------------------------------------------
\* The recursion defines a function.

LEMMA PickedIsIn == ASSUME NEW s, s # {} PROVE Picked(s) \in s
  BY DEF Picked

\* A step looks at g on the rest of its set only.
LEMMA StepLocal ==
    ASSUME NEW f, NEW g, NEW h, NEW s,
           s # {} => g[s \ {Picked(s)}] = h[s \ {Picked(s)}]
    PROVE  SumStep(f, g, s) = SumStep(f, h, s)
  BY DEF SumStep

LEMMA SumsExist ==
    ASSUME NEW D, IsFiniteSet(D), NEW f
    PROVE  \E g : AreSums(f, D, g)
<1> DEFINE Good(g, n) ==
             \A s \in SUBSET D : Cardinality(s) < n => g[s] = SumStep(f, g, s)
           Bad == {n \in Nat : ~ \E g : Good(g, n)}
<1>0. \A s \in SUBSET D : Cardinality(s) \in Nat /\ Cardinality(s) <= Cardinality(D)
  BY SubsetSizes
<1>1. Bad = {}
  <2> SUFFICES ASSUME Bad # {} PROVE FALSE
    OBVIOUS
  <2>1. PICK n \in Bad : \A m \in Bad : n <= m
    <3>1. Bad \in SUBSET Nat
      OBVIOUS
    <3> HIDE DEF Bad
    <3> QED
      BY <3>1, LeastNatural
  <2>2. n \in Nat /\ ~ \E g : Good(g, n)
    BY <2>1
  <2>3. n # 0
    <3>1. Good(f, 0)
      BY <1>0
    <3> QED
      BY <3>1, <2>2
  <2>4. n - 1 \in Nat /\ n - 1 \notin Bad
    BY <2>1, <2>2, <2>3
  <2>5. PICK g : Good(g, n - 1)
    BY <2>4
  <2> DEFINE h == [s \in SUBSET D |-> SumStep(f, g, s)]
  <2>6. ASSUME NEW s \in SUBSET D, Cardinality(s) < n
        PROVE  h[s] = SumStep(f, h, s)
    <3>1. ASSUME s # {} PROVE g[s \ {Picked(s)}] = h[s \ {Picked(s)}]
      <4>1. s \ {Picked(s)} \in SUBSET s /\ s \ {Picked(s)} # s
        BY <3>1, PickedIsIn
      <4>2. s \ {Picked(s)} \in SUBSET D
        OBVIOUS
      <4>3. Cardinality(s \ {Picked(s)}) < n - 1
        BY <4>1, <4>2, <2>6, <2>2, <1>0, SubsetSizes
      <4> QED
        BY <4>2, <4>3, <2>5
    <3>2. SumStep(f, g, s) = SumStep(f, h, s)
      <4> HIDE DEF h
      <4> QED
        BY <3>1, StepLocal
    <3> QED
      BY <3>2
  <2> QED
    BY <2>6, <2>2
<1>2. Cardinality(D) + 1 \in Nat
  BY FS_CardinalityType
<1>3. PICK g : Good(g, Cardinality(D) + 1)
  BY <1>1, <1>2
<1>4. \A s \in SUBSET D : g[s] = SumStep(f, g, s)
  BY <1>0, <1>2, <1>3
<1> DEFINE h == [s \in SUBSET D |-> SumStep(f, g, s)]
<1>5. \A s \in SUBSET D : SumStep(f, g, s) = SumStep(f, h, s)
  <2> TAKE s \in SUBSET D
  <2>1. \A t \in SUBSET D : g[t] = h[t]
    BY <1>4
  <2>2. s \ {Picked(s)} \in SUBSET D
    OBVIOUS
  <2> HIDE DEF h
  <2> QED
    BY <2>1, <2>2, StepLocal
<1>6. h = [s \in SUBSET D |-> SumStep(f, h, s)]
  BY <1>5
<1> QED
  BY <1>6 DEF AreSums

LEMMA SumsDefined ==
    ASSUME NEW D, IsFiniteSet(D), NEW f
    PROVE  \A s \in SUBSET D : Sums(f, D)[s] = SumStep(f, Sums(f, D), s)
<1>1. AreSums(f, D, Sums(f, D))
  BY SumsExist DEF Sums
<1>2. Sums(f, D) = [s \in SUBSET D |-> SumStep(f, Sums(f, D), s)]
  BY <1>1 DEF AreSums
<1> QED
  BY <1>2

-----------------------------------------------------------------------------
\* Any element can be taken out first, and the sum is an integer.
LEMMA SumsSplit ==
    ASSUME NEW D, IsFiniteSet(D), NEW f \in [D -> Int]
    PROVE  \A s \in SUBSET D :
             /\ Sums(f, D)[s] \in Int
             /\ \A x \in s : Sums(f, D)[s] = f[x] + Sums(f, D)[s \ {x}]
<1> DEFINE P == Sums(f, D)
           Fine(s) == P[s] \in Int /\ \A x \in s : P[s] = f[x] + P[s \ {x}]
           Bad == {s \in SUBSET D : ~ Fine(s)}
<1> SUFFICES ASSUME Bad # {} PROVE FALSE
  OBVIOUS
<1>1. PICK s \in Bad : \A t \in SUBSET s : t # s => t \notin Bad
  <2>1. Bad \in SUBSET (SUBSET D)
    OBVIOUS
  <2> HIDE DEF Bad
  <2> QED
    BY <2>1, SmallestSubset
<1>2. s \in SUBSET D /\ ~ Fine(s)
  OBVIOUS
<1>3. \A t \in SUBSET s : t # s => Fine(t)
  BY <1>1, <1>2
<1>4. P[s] = SumStep(f, P, s)
  BY <1>2, SumsDefined
<1>5. s # {}
  <2> SUFFICES ASSUME s = {} PROVE Fine(s)
    BY <1>2
  <2> QED
    BY <1>4 DEF SumStep
<1> DEFINE c == Picked(s)
<1>6. c \in s /\ c \in D /\ f[c] \in Int
  BY <1>5, <1>2, PickedIsIn
<1>7. ASSUME NEW x \in s PROVE Fine(s \ {x})
  <2>1. s \ {x} \in SUBSET s /\ s \ {x} # s
    OBVIOUS
  <2> HIDE DEF Fine
  <2> QED
    BY <1>3, <2>1
<1>8. P[s] = f[c] + P[s \ {c}]
  BY <1>4, <1>5 DEF SumStep
<1>9. P[s] \in Int
  <2>1. P[s \ {c}] \in Int
    BY <1>6, <1>7
  <2> HIDE DEF P, c
  <2> QED
    BY <1>6, <1>8, <2>1
<1>10. ASSUME NEW x \in s, x # c PROVE P[s] = f[x] + P[s \ {x}]
  <2> DEFINE r == s \ {x, c}
  <2>1. x \in s \ {c} /\ c \in s \ {x}
    BY <1>6, <1>10
  <2>2. (s \ {c}) \ {x} = r /\ (s \ {x}) \ {c} = r
    OBVIOUS
  <2>3. P[s \ {c}] = f[x] + P[r]
    BY <1>6, <1>7, <2>1, <2>2
  <2>4. P[s \ {x}] = f[c] + P[r]
    BY <1>6, <1>7, <2>1, <2>2
  <2>5. f[x] \in Int /\ P[s \ {x}] \in Int
    BY <1>2, <1>7, <1>10
  <2>6. P[r] \in Int
    <3>1. r \in SUBSET s /\ r # s
      BY <1>10
    <3> HIDE DEF r
    <3> QED
      BY <3>1, <1>3
  <2> QED
    BY <1>6, <1>8, <2>3, <2>4, <2>5, <2>6
<1>11. Fine(s)
  BY <1>8, <1>9, <1>10
<1> QED
  BY <1>2, <1>11

\* A sum of naturals is one.
LEMMA SumsNat ==
    ASSUME NEW D, IsFiniteSet(D), NEW f \in [D -> Nat]
    PROVE  \A s \in SUBSET D : Sums(f, D)[s] \in Nat
<1> DEFINE Bad == {s \in SUBSET D : Sums(f, D)[s] \notin Nat}
<1> SUFFICES ASSUME Bad # {} PROVE FALSE
  OBVIOUS
<1>1. PICK s \in Bad : \A t \in SUBSET s : t # s => t \notin Bad
  <2>1. Bad \in SUBSET (SUBSET D)
    OBVIOUS
  <2> HIDE DEF Bad
  <2> QED
    BY <2>1, SmallestSubset
<1>2. s \in SUBSET D /\ Sums(f, D)[s] \notin Nat
  OBVIOUS
<1>3. Sums(f, D)[s] = SumStep(f, Sums(f, D), s)
  BY <1>2, SumsDefined
<1>4. CASE s = {}
  BY <1>2, <1>3, <1>4 DEF SumStep
<1>5. CASE s # {}
  <2>1. Picked(s) \in s /\ Picked(s) \in D /\ f[Picked(s)] \in Nat
    BY <1>2, <1>5, PickedIsIn
  <2>2. s \ {Picked(s)} \in SUBSET s /\ s \ {Picked(s)} # s /\ s \ {Picked(s)} \in SUBSET D
    BY <1>2, <2>1
  <2>3. Sums(f, D)[s \ {Picked(s)}] \in Nat
    BY <1>1, <2>2
  <2>4. Sums(f, D)[s] = f[Picked(s)] + Sums(f, D)[s \ {Picked(s)}]
    BY <1>3, <1>5 DEF SumStep
  <2> QED
    BY <1>2, <2>1, <2>3, <2>4
<1> QED
  BY <1>4, <1>5

\* Functions that agree on a set have the same sum over it, whatever else is in
\* their domains.
LEMMA SumsWithin ==
    ASSUME NEW D, IsFiniteSet(D), NEW E, IsFiniteSet(E), NEW f, NEW g,
           NEW A \in SUBSET D, A \in SUBSET E,
           \A x \in A : f[x] = g[x]
    PROVE  Sums(f, D)[A] = Sums(g, E)[A]
<1> DEFINE Bad == {s \in SUBSET A : Sums(f, D)[s] # Sums(g, E)[s]}
<1> SUFFICES ASSUME Bad # {} PROVE FALSE
  OBVIOUS
<1>1. PICK s \in Bad : \A t \in SUBSET s : t # s => t \notin Bad
  <2>1. Bad \in SUBSET (SUBSET D)
    OBVIOUS
  <2> HIDE DEF Bad
  <2> QED
    BY <2>1, SmallestSubset
<1>2. s \in SUBSET A /\ s \in SUBSET D /\ s \in SUBSET E /\ Sums(f, D)[s] # Sums(g, E)[s]
  OBVIOUS
<1>3. /\ Sums(f, D)[s] = SumStep(f, Sums(f, D), s)
      /\ Sums(g, E)[s] = SumStep(g, Sums(g, E), s)
  BY <1>2, SumsDefined
<1>4. CASE s = {}
  BY <1>2, <1>3, <1>4 DEF SumStep
<1>5. CASE s # {}
  <2>1. Picked(s) \in s /\ f[Picked(s)] = g[Picked(s)]
    BY <1>2, <1>5, PickedIsIn
  <2>2. s \ {Picked(s)} \in SUBSET s /\ s \ {Picked(s)} # s /\ s \ {Picked(s)} \in SUBSET A
    BY <1>2, <2>1
  <2>3. Sums(f, D)[s \ {Picked(s)}] = Sums(g, E)[s \ {Picked(s)}]
    BY <1>1, <2>2
  <2> QED
    BY <1>2, <1>3, <1>5, <2>1, <2>3 DEF SumStep
<1> QED
  BY <1>4, <1>5

LEMMA SumsCut ==
    ASSUME NEW D, IsFiniteSet(D), NEW E, E \in SUBSET D, NEW f, NEW g,
           \A x \in E : f[x] = g[x]
    PROVE  Sums(f, D)[E] = Sums(g, E)[E]
<1>1. IsFiniteSet(E) /\ E \in SUBSET E
  BY FS_Subset
<1> QED
  BY <1>1, SumsWithin

LEMMA SumsAgree ==
    ASSUME NEW D, IsFiniteSet(D), NEW f, NEW g, NEW A \in SUBSET D,
           \A x \in A : f[x] = g[x]
    PROVE  Sums(f, D)[A] = Sums(g, D)[A]
  BY SumsWithin

-----------------------------------------------------------------------------
\* What the modules use.

LEMMA AddedInt ==
    ASSUME NEW D, IsFiniteSet(D), NEW f \in [D -> Int]
    PROVE  Added(f) \in Int
<1>1. Added(f) = Sums(f, D)[D]
  BY AddedIsSums
<1> QED
  BY <1>1, SumsSplit

LEMMA AddedNat ==
    ASSUME NEW D, IsFiniteSet(D), NEW f \in [D -> Nat]
    PROVE  Added(f) \in Nat
<1>1. Added(f) = Sums(f, D)[D]
  BY AddedIsSums
<1> QED
  BY <1>1, SumsNat

\* Taking one value out of the sum.
LEMMA AddedSplit ==
    ASSUME NEW D, IsFiniteSet(D), NEW f \in [D -> Int], NEW x \in D
    PROVE  /\ Added(f) = f[x] + Sums(f, D)[D \ {x}]
           /\ f[x] \in Int
           /\ Sums(f, D)[D \ {x}] \in Int
<1>1. Added(f) = Sums(f, D)[D]
  BY AddedIsSums
<1> QED
  BY <1>1, SumsSplit

\* Replacing one value moves the sum by the difference.
LEMMA AddedReplaced ==
    ASSUME NEW D, IsFiniteSet(D), NEW f \in [D -> Int], NEW x \in D, NEW a \in Int
    PROVE  Added([f EXCEPT ![x] = a]) = Added(f) - f[x] + a
<1> DEFINE rest == D \ {x}
<1>1. PICK g \in [D -> Int] : g = [f EXCEPT ![x] = a]
  OBVIOUS
<1>2. g[x] = a /\ \A y \in rest : g[y] = f[y]
  BY <1>1
<1>3. /\ Added(f) = f[x] + Sums(f, D)[rest]
      /\ f[x] \in Int /\ Sums(f, D)[rest] \in Int
  BY AddedSplit
<1>4. Added(g) = g[x] + Sums(g, D)[rest]
  BY AddedSplit
<1>5. Sums(g, D)[rest] = Sums(f, D)[rest]
  BY <1>2, SumsAgree
<1> QED
  BY <1>1, <1>2, <1>3, <1>4, <1>5

LEMMA AddedButOne ==
    ASSUME NEW D, IsFiniteSet(D), NEW f \in [D -> Int], NEW g \in [D -> Int], NEW x \in D,
           \A y \in D : y # x => g[y] = f[y]
    PROVE  Added(g) = Added(f) - f[x] + g[x]
<1>1. g = [f EXCEPT ![x] = g[x]] /\ g[x] \in Int
  OBVIOUS
<1> QED
  BY <1>1, AddedReplaced

\* A value put at the end of a sequence is added to its sum.
LEMMA AddedLast ==
    ASSUME NEW n \in Nat, NEW f \in [1 .. n -> Int], NEW g \in [1 .. n + 1 -> Int],
           \A y \in 1 .. n : g[y] = f[y]
    PROVE  Added(g) = Added(f) + g[n + 1]
<1>1. IsFiniteSet(1 .. n) /\ IsFiniteSet(1 .. n + 1) /\ n + 1 \in 1 .. n + 1
  BY FS_Interval
<1>2. (1 .. n + 1) \ {n + 1} = 1 .. n /\ 1 .. n \in SUBSET (1 .. n + 1)
  OBVIOUS
<1>3. /\ Added(g) = g[n + 1] + Sums(g, 1 .. n + 1)[(1 .. n + 1) \ {n + 1}]
      /\ Sums(g, 1 .. n + 1)[(1 .. n + 1) \ {n + 1}] \in Int
  BY <1>1, <1>2, AddedSplit
<1>4. Sums(g, 1 .. n + 1)[1 .. n] = Sums(f, 1 .. n)[1 .. n]
  <2>1. PICK p, q : p = g /\ q = f
    OBVIOUS
  <2>2. \A y \in 1 .. n : p[y] = q[y]
    BY <2>1
  <2>3. Sums(p, 1 .. n + 1)[1 .. n] = Sums(q, 1 .. n)[1 .. n]
    BY <1>1, <1>2, <2>2, SumsCut
  <2> QED
    BY <2>1, <2>3
<1>5. Added(f) = Sums(f, 1 .. n)[1 .. n]
  BY AddedIsSums
<1> DEFINE rest == Sums(g, 1 .. n + 1)[1 .. n]
<1>6. Added(g) = g[n + 1] + rest /\ rest \in Int
  BY <1>2, <1>3
<1>7. Added(f) = rest
  BY <1>4, <1>5
<1>8. g[n + 1] \in Int
  BY <1>1
<1> HIDE DEF rest
<1> QED
  BY <1>6, <1>7, <1>8

LEMMA AddedZero ==
    ASSUME NEW D, IsFiniteSet(D)
    PROVE  Added([x \in D |-> 0]) = 0
<1> DEFINE f == [x \in D |-> 0]
           Bad == {s \in SUBSET D : Sums(f, D)[s] # 0}
<1>1. Added(f) = Sums(f, D)[D]
  BY AddedIsSums
<1>2. f \in [D -> Int] /\ \A x \in D : f[x] = 0
  OBVIOUS
<1> HIDE DEF f
<1> SUFFICES ASSUME Bad # {} PROVE FALSE
  BY <1>1 DEF f
<1>3. PICK s \in Bad : \A t \in SUBSET s : t # s => t \notin Bad
  <2>1. Bad \in SUBSET (SUBSET D)
    OBVIOUS
  <2> HIDE DEF Bad
  <2> QED
    BY <2>1, SmallestSubset
<1>4. s \in SUBSET D /\ Sums(f, D)[s] # 0
  OBVIOUS
<1>5. s # {}
  BY <1>4, SumsDefined DEF SumStep
<1>6. PICK x \in s : TRUE
  BY <1>5
<1>7. s \ {x} \in SUBSET s /\ s \ {x} # s /\ s \ {x} \in SUBSET D
  BY <1>4
<1>8. Sums(f, D)[s \ {x}] = 0
  BY <1>3, <1>7
<1>9. Sums(f, D)[s] = f[x] + Sums(f, D)[s \ {x}]
  BY <1>2, <1>4, SumsSplit
<1> QED
  BY <1>2, <1>4, <1>8, <1>9
-----------------------------------------------------------------------------
\* Recursion over 1 .. n, as a reader goes through a list: h[k] is what has been
\* made of the first k elements, F[k][d] what element k makes of d.
IsRun(h, n, seed, D, F) ==
    /\ h[0] = seed
    /\ \A k \in 1 .. n : h[k - 1] \in D => h[k] = F[k][h[k - 1]]

LEMMA RunsAgree ==
    ASSUME NEW n \in Nat, NEW D, NEW seed \in D, NEW F \in [1 .. n -> [D -> D]],
           NEW g, NEW h, IsRun(g, n, seed, D, F), IsRun(h, n, seed, D, F)
    PROVE  \A k \in 0 .. n : h[k] = g[k] /\ h[k] \in D
<1> DEFINE Bad == {k \in 0 .. n : ~ (h[k] = g[k] /\ h[k] \in D)}
<1> SUFFICES ASSUME Bad # {} PROVE FALSE
  OBVIOUS
<1>1. PICK k \in Bad : \A j \in Bad : k <= j
  <2>1. Bad \in SUBSET Nat
    OBVIOUS
  <2> HIDE DEF Bad
  <2> QED
    BY <2>1, LeastNatural
<1>2. k \in 0 .. n /\ ~ (h[k] = g[k] /\ h[k] \in D)
  OBVIOUS
<1>3. CASE k = 0
  BY <1>2, <1>3 DEF IsRun
<1>4. CASE k # 0
  <2>1. k \in 1 .. n /\ k - 1 \in 0 .. n /\ k - 1 \notin Bad
    BY <1>1, <1>2, <1>4
  <2>2. h[k - 1] = g[k - 1] /\ h[k - 1] \in D
    BY <2>1
  <2>3. h[k] = F[k][h[k - 1]] /\ g[k] = F[k][h[k - 1]]
    BY <2>1, <2>2 DEF IsRun
  <2>4. F[k][h[k - 1]] \in D
    BY <2>1, <2>2
  <2> QED
    BY <1>2, <2>3, <2>4
<1> QED
  BY <1>3, <1>4

LEMMA RunExists ==
    ASSUME NEW n \in Nat, NEW D, NEW seed \in D, NEW F \in [1 .. n -> [D -> D]]
    PROVE  \E h : IsRun(h, n, seed, D, F)
<1> DEFINE Bad == {m \in 0 .. n : ~ \E h : IsRun(h, m, seed, D, F)}
<1> SUFFICES ASSUME Bad # {} PROVE FALSE
  <2>1. n \in 0 .. n
    OBVIOUS
  <2> QED
    BY <2>1
<1>1. PICK m \in Bad : \A j \in Bad : m <= j
  <2>1. Bad \in SUBSET Nat
    OBVIOUS
  <2> HIDE DEF Bad
  <2> QED
    BY <2>1, LeastNatural
<1>2. m \in 0 .. n /\ ~ \E h : IsRun(h, m, seed, D, F)
  OBVIOUS
<1>3. CASE m = 0
  <2>1. PICK h : h = [k \in {0} |-> seed]
    OBVIOUS
  <2>2. h[0] = seed /\ 1 .. 0 = {}
    BY <2>1
  <2>3. IsRun(h, 0, seed, D, F)
    BY <2>2 DEF IsRun
  <2> QED
    BY <1>2, <1>3, <2>3
<1>4. CASE m # 0
  <2>1. m - 1 \in 0 .. n /\ m - 1 \notin Bad /\ m \in Nat
    BY <1>1, <1>2, <1>4
  <2>2. PICK h : IsRun(h, m - 1, seed, D, F)
    BY <2>1
  <2> DEFINE last == F[m][h[m - 1]]
  <2>7. PICK g : g = [k \in 0 .. m |-> IF k = m THEN last ELSE h[k]]
    OBVIOUS
  <2>8. m \in 0 .. m /\ \A k \in 0 .. m - 1 : k \in 0 .. m /\ k # m
    BY <2>1
  <2>3. g[m] = last /\ \A k \in 0 .. m - 1 : g[k] = h[k]
    <3> HIDE DEF last
    <3> QED
      BY <2>7, <2>8
  <2>9. 0 \in 0 .. m - 1
    BY <1>4, <2>1
  <2>4. g[0] = seed
    BY <2>2, <2>3, <2>9 DEF IsRun
  <2>5. ASSUME NEW k \in 1 .. m, g[k - 1] \in D PROVE g[k] = F[k][g[k - 1]]
    <3>1. CASE k = m
      BY <2>1, <2>3, <3>1
    <3>2. CASE k # m
      <4>1. k \in 1 .. m - 1 /\ k - 1 \in 0 .. m - 1 /\ k \in 0 .. m - 1
        BY <2>1, <3>2
      <4>2. g[k] = h[k] /\ g[k - 1] = h[k - 1]
        BY <2>3, <4>1
      <4> QED
        BY <2>2, <2>5, <4>1, <4>2 DEF IsRun
    <3> QED
      BY <3>1, <3>2
  <2>6. IsRun(g, m, seed, D, F)
    BY <2>4, <2>5 DEF IsRun
  <2> QED
    BY <1>2, <2>6
<1> QED
  BY <1>3, <1>4
=============================================================================
