------------------------------ MODULE SumProofs ------------------------------
(***************************************************************************)
(* Lemmas about totals over finite sets and sums along sequences, for the  *)
(* proofs about strategies that add up what rests and what is queued at a  *)
(* venue.                                                                  *)
(*                                                                         *)
(* Both are recursive functions, in the form of a CHOOSE.  That there are  *)
(* such functions, and all else, is proved from a least counterexample:    *)
(* among the subsets of the set (LeastSubset), or among the natural        *)
(* numbers (LeastNumber).                                                  *)
(***************************************************************************)
EXTENDS Integers, Sequences, FiniteSets, FiniteSetsExt, FiniteSetTheorems, WellFoundedInduction, TLAPS

\* What amount adds up to over a set.
Total(amount, S) == MapThenSumSet(LAMBDA c : amount[c], S)

\* The element that is added last.
First(s) == CHOOSE x \in s : TRUE

\* The function on the subsets of S whose value at S is the total.
Adds(f, amount, S) ==
  f = [s \in SUBSET S |-> IF s = {} THEN 0 ELSE amount[First(s)] + f[s \ {First(s)}]]

\* The definition of the library, in these terms.
LEMMA TotalDef ==
  ASSUME NEW amount, NEW S
  PROVE  Total(amount, S) = (CHOOSE f : Adds(f, amount, S))[S]
BY DEF Total, MapThenSumSet, MapThenFoldSet, Adds, First

\* A set of subsets of a finite set has a member without a smaller one.
LEMMA LeastSubset ==
  ASSUME NEW S, IsFiniteSet(S), NEW T \in SUBSET SUBSET S, T # {}
  PROVE  \E t \in T : \A u \in T : ~(u \subseteq t /\ u # t)
<1>1. IsWellFoundedOn(StrictSubsetOrdering(S), FiniteSubsetsOf(S)) /\ FiniteSubsetsOf(S) = SUBSET S
  BY FS_StrictSubsetOrderingWellFounded, FS_FiniteSubsetsOfFinite
<1>2. T \subseteq FiniteSubsetsOf(S)
  BY <1>1
<1>3. PICK t \in T : \A u \in T : ~(<<u, t>> \in StrictSubsetOrdering(S))
  BY <1>1, <1>2, WFMin
<1>4. \A u \in T : u \subseteq t /\ u # t => <<u, t>> \in StrictSubsetOrdering(S)
  BY DEF StrictSubsetOrdering
<1>5. \A u \in T : ~(u \subseteq t /\ u # t)
  BY <1>3, <1>4, Zenon
<1>6. QED  BY <1>5, Zenon

\* Such functions agree wherever they are both defined.
LEMMA Agree ==
  ASSUME NEW amount, NEW A, NEW B, NEW f, NEW g, Adds(f, amount, A), Adds(g, amount, B),
         NEW s, IsFiniteSet(s), s \subseteq A, s \subseteq B
  PROVE  f[s] = g[s]
<1> DEFINE bad == {t \in SUBSET s : f[t] # g[t]}
<1> SUFFICES ASSUME s \in bad PROVE FALSE
  OBVIOUS
<1>1. PICK t \in bad : \A u \in bad : ~(u \subseteq t /\ u # t)
  <2>1. bad \in SUBSET SUBSET s /\ bad # {}
    OBVIOUS
  <2> HIDE DEF bad
  <2>2. QED  BY <2>1, LeastSubset
<1>2. t \in SUBSET s /\ f[t] # g[t] /\ t \in SUBSET A /\ t \in SUBSET B
  BY <1>1
<1>3. /\ f[t] = IF t = {} THEN 0 ELSE amount[First(t)] + f[t \ {First(t)}]
      /\ g[t] = IF t = {} THEN 0 ELSE amount[First(t)] + g[t \ {First(t)}]
  BY <1>2 DEF Adds
<1>4. t # {} /\ f[t \ {First(t)}] # g[t \ {First(t)}]
  BY <1>2, <1>3
<1>5. First(t) \in t
  BY <1>4 DEF First
<1>6. t \ {First(t)} \in bad /\ t \ {First(t)} \subseteq t /\ t \ {First(t)} # t
  BY <1>2, <1>4, <1>5
<1>7. QED  BY <1>1, <1>6

\* There is one.
LEMMA Exists ==
  ASSUME NEW amount, NEW S, IsFiniteSet(S)
  PROVE  \E f : Adds(f, amount, S)
<1> DEFINE bad == {D \in SUBSET S : ~\E f : Adds(f, amount, D)}
<1> SUFFICES ASSUME S \in bad PROVE FALSE
  OBVIOUS
<1>1. PICK D \in bad : \A u \in bad : ~(u \subseteq D /\ u # D)
  <2>1. bad \in SUBSET SUBSET S /\ bad # {}
    OBVIOUS
  <2> HIDE DEF bad
  <2>2. QED  BY <2>1, LeastSubset
<1> DEFINE sub(x) == CHOOSE f : Adds(f, amount, D \ {x})
<1>2. ASSUME NEW x \in D PROVE Adds(sub(x), amount, D \ {x})
  <2>1. D \ {x} \notin bad /\ D \ {x} \in SUBSET S
    BY <1>1
  <2>2. \E f : Adds(f, amount, D \ {x})
    BY <2>1
  <2>3. QED  BY <2>2
<1> DEFINE f == [s \in SUBSET D |-> IF s = {} THEN 0
                                   ELSE amount[First(s)] + sub(First(s))[s \ {First(s)}]]
<1> HIDE DEF sub
<1>3. ASSUME NEW s \in SUBSET D, s # {}
      PROVE  sub(First(s))[s \ {First(s)}] = f[s \ {First(s)}]
  <2> DEFINE x == First(s)
             r == s \ {x}
  <2>1. x \in s /\ x \in D /\ r \in SUBSET D /\ r \subseteq D \ {x}
    BY <1>3 DEF First
  <2>2. Adds(sub(x), amount, D \ {x})
    BY <1>2, <2>1
  <2>3. sub(x)[r] = IF r = {} THEN 0 ELSE amount[First(r)] + sub(x)[r \ {First(r)}]
    BY <2>1, <2>2 DEF Adds
  <2>4. f[r] = IF r = {} THEN 0 ELSE amount[First(r)] + sub(First(r))[r \ {First(r)}]
    BY <2>1
  <2>5. ASSUME r # {} PROVE sub(x)[r \ {First(r)}] = sub(First(r))[r \ {First(r)}]
    <3>1. First(r) \in r /\ First(r) \in D
      BY <2>1, <2>5 DEF First
    <3>2. Adds(sub(First(r)), amount, D \ {First(r)})
      BY <1>2, <3>1
    <3>3. r \ {First(r)} \subseteq D \ {x} /\ r \ {First(r)} \subseteq D \ {First(r)}
      BY <2>1
    <3>4. IsFiniteSet(r \ {First(r)})
      BY <1>1, <2>1, FS_Subset
    <3> HIDE DEF x, r
    <3>5. QED  BY <2>2, <3>2, <3>3, <3>4, Agree
  <2> HIDE DEF f, x, r
  <2>6. QED  BY <2>3, <2>4, <2>5 DEF x, r
<1>4. Adds(f, amount, D)
  BY <1>3 DEF Adds
<1>5. QED  BY <1>1, <1>4

-----------------------------------------------------------------------------
(* Totals.                                                                 *)

\* The recursion that the definition stands for.
LEMMA TotalUnfold ==
  ASSUME NEW amount, NEW S, IsFiniteSet(S), S # {}
  PROVE  First(S) \in S /\ Total(amount, S) = amount[First(S)] + Total(amount, S \ {First(S)})
<1> DEFINE x == First(S)
           f == CHOOSE h : Adds(h, amount, S)
           g == CHOOSE h : Adds(h, amount, S \ {x})
<1>1. x \in S
  BY DEF First
<1>2. IsFiniteSet(S \ {x})
  BY FS_Subset
<1>3. Adds(f, amount, S)
  BY Exists
<1>4. Adds(g, amount, S \ {x})
  <2>1. \E h : Adds(h, amount, S \ {x})
    BY <1>2, Exists
  <2> HIDE DEF x
  <2>2. QED  BY <2>1
<1>5. Total(amount, S) = f[S] /\ Total(amount, S \ {x}) = g[S \ {x}]
  BY TotalDef
<1> HIDE DEF f, g
<1>6. f[S] = amount[x] + f[S \ {x}]
  BY <1>3 DEF Adds
<1>7. f[S \ {x}] = g[S \ {x}]
  BY <1>2, <1>3, <1>4, Agree
<1>8. QED  BY <1>1, <1>5, <1>6, <1>7

\* Nothing adds up to zero.
LEMMA TotalEmpty ==
  ASSUME NEW amount
  PROVE  Total(amount, {}) = 0
<1> DEFINE f == CHOOSE h : Adds(h, amount, {})
<1>1. Adds(f, amount, {})
  <2>1. \E h : Adds(h, amount, {})
    BY Exists, FS_EmptySet
  <2>2. QED  BY <2>1
<1>2. Total(amount, {}) = f[{}]
  BY TotalDef
<1> HIDE DEF f
<1>3. QED  BY <1>1, <1>2 DEF Adds

\* Integers add up to an integer, and none below zero to none below zero.
LEMMA TotalType ==
  ASSUME NEW amount, NEW S, IsFiniteSet(S), \A c \in S : amount[c] \in Int
  PROVE  /\ Total(amount, S) \in Int
         /\ (\A c \in S : amount[c] >= 0) => Total(amount, S) >= 0
         /\ (\A c \in S : amount[c] = 0) => Total(amount, S) = 0
<1> DEFINE Good(D) == /\ Total(amount, D) \in Int
                      /\ (\A c \in S : amount[c] >= 0) => Total(amount, D) >= 0
                      /\ (\A c \in S : amount[c] = 0) => Total(amount, D) = 0
           bad == {D \in SUBSET S : ~Good(D)}
<1> SUFFICES ASSUME S \in bad PROVE FALSE
  OBVIOUS
<1>1. PICK D \in bad : \A u \in bad : ~(u \subseteq D /\ u # D)
  <2>1. bad \in SUBSET SUBSET S /\ bad # {}
    OBVIOUS
  <2> HIDE DEF bad
  <2>2. QED  BY <2>1, LeastSubset
<1>2. D # {}
  <2>1. Good({})
    BY TotalEmpty
  <2>2. QED  BY <1>1, <2>1
<1>3. IsFiniteSet(D) /\ D \in SUBSET S
  BY <1>1, FS_Subset
<1>4. First(D) \in D /\ Total(amount, D) = amount[First(D)] + Total(amount, D \ {First(D)})
  BY <1>2, <1>3, TotalUnfold
<1>5. Good(D \ {First(D)})
  BY <1>1, <1>4
<1>6. amount[First(D)] \in Int
  BY <1>3, <1>4
<1>7. Good(D)
  BY <1>3, <1>4, <1>5, <1>6
<1>8. QED  BY <1>1, <1>7

\* Any element may be taken out first.
LEMMA TotalStep ==
  ASSUME NEW amount, NEW S, IsFiniteSet(S), \A c \in S : amount[c] \in Int, NEW x \in S
  PROVE  Total(amount, S) = amount[x] + Total(amount, S \ {x})
<1> DEFINE bad == {D \in SUBSET S : \E y \in D : Total(amount, D) # amount[y] + Total(amount, D \ {y})}
<1> SUFFICES ASSUME bad # {} PROVE FALSE
  OBVIOUS
<1>1. PICK D \in bad : \A u \in bad : ~(u \subseteq D /\ u # D)
  <2>1. bad \in SUBSET SUBSET S
    OBVIOUS
  <2> HIDE DEF bad
  <2>2. QED  BY <2>1, LeastSubset
<1>2. PICK y \in D : Total(amount, D) # amount[y] + Total(amount, D \ {y})
  BY <1>1
<1> DEFINE z == First(D)
<1>3. IsFiniteSet(D) /\ D \in SUBSET S /\ D # {}
  BY <1>1, <1>2, FS_Subset
<1>4. z \in D /\ Total(amount, D) = amount[z] + Total(amount, D \ {z})
  BY <1>3, TotalUnfold
<1> HIDE DEF z
<1>5. y # z
  BY <1>2, <1>4
<1>6. ASSUME NEW v \in D, NEW w \in D, v # w
      PROVE  Total(amount, D \ {v}) = amount[w] + Total(amount, (D \ {v}) \ {w})
  <2>1. D \ {v} \notin bad
    BY <1>1, <1>6
  <2>2. D \ {v} \in SUBSET S /\ w \in D \ {v}
    BY <1>3, <1>6
  <2>3. QED  BY <2>1, <2>2
<1>7. /\ Total(amount, D \ {z}) = amount[y] + Total(amount, (D \ {z}) \ {y})
      /\ Total(amount, D \ {y}) = amount[z] + Total(amount, (D \ {y}) \ {z})
      /\ (D \ {z}) \ {y} = (D \ {y}) \ {z}
  BY <1>4, <1>5, <1>6
<1>8. Total(amount, (D \ {y}) \ {z}) \in Int
  <2>1. IsFiniteSet((D \ {y}) \ {z})
    BY <1>3, FS_Subset
  <2>2. \A c \in (D \ {y}) \ {z} : amount[c] \in Int
    BY <1>3
  <2>3. QED  BY <2>1, <2>2, TotalType
<1>9. amount[y] \in Int /\ amount[z] \in Int
  BY <1>3, <1>4
<1>10. Total(amount, D \ {z}) = amount[y] + Total(amount, (D \ {y}) \ {z})
  BY <1>7
<1>11. Total(amount, D) = amount[y] + Total(amount, D \ {y})
  BY <1>4, <1>7, <1>8, <1>9, <1>10
<1>12. QED  BY <1>2, <1>11

\* A total grows with what it adds, and depends on nothing else.
LEMMA TotalGrows ==
  ASSUME NEW a, NEW b, NEW S, IsFiniteSet(S),
         \A c \in S : a[c] \in Int /\ b[c] \in Int /\ a[c] <= b[c]
  PROVE  Total(a, S) <= Total(b, S)
<1> DEFINE bad == {D \in SUBSET S : ~(Total(a, D) <= Total(b, D))}
<1> SUFFICES ASSUME S \in bad PROVE FALSE
  OBVIOUS
<1>1. PICK D \in bad : \A u \in bad : ~(u \subseteq D /\ u # D)
  <2>1. bad \in SUBSET SUBSET S /\ bad # {}
    OBVIOUS
  <2> HIDE DEF bad
  <2>2. QED  BY <2>1, LeastSubset
<1>2. D # {}
  <2>1. Total(a, {}) <= Total(b, {})
    BY TotalEmpty
  <2>2. QED  BY <1>1, <2>1
<1>3. IsFiniteSet(D) /\ D \in SUBSET S
  BY <1>1, FS_Subset
<1> DEFINE x == First(D)
<1>4. x \in D /\ Total(a, D) = a[x] + Total(a, D \ {x}) /\ Total(b, D) = b[x] + Total(b, D \ {x})
  BY <1>2, <1>3, TotalUnfold
<1> HIDE DEF x
<1>5. Total(a, D \ {x}) <= Total(b, D \ {x})
  BY <1>1, <1>3, <1>4
<1>6. Total(a, D \ {x}) \in Int /\ Total(b, D \ {x}) \in Int
  <2>1. IsFiniteSet(D \ {x})
    BY <1>3, FS_Subset
  <2>2. \A c \in D \ {x} : a[c] \in Int /\ b[c] \in Int
    BY <1>3
  <2>3. QED  BY <2>1, <2>2, TotalType
<1>7. a[x] \in Int /\ b[x] \in Int /\ a[x] <= b[x]
  BY <1>3, <1>4
<1>8. Total(a, D) <= Total(b, D)
  BY <1>4, <1>5, <1>6, <1>7
<1>9. QED  BY <1>1, <1>8

LEMMA TotalSame ==
  ASSUME NEW a, NEW b, NEW S, IsFiniteSet(S), \A c \in S : a[c] \in Int /\ b[c] = a[c]
  PROVE  Total(a, S) = Total(b, S)
<1>1. Total(a, S) <= Total(b, S) /\ Total(b, S) <= Total(a, S)
  BY TotalGrows
<1>2. Total(a, S) \in Int /\ Total(b, S) \in Int
  BY TotalType
<1>3. QED  BY <1>1, <1>2

\* What is zero does not count.
LEMMA TotalSupport ==
  ASSUME NEW a, NEW S, IsFiniteSet(S), \A c \in S : a[c] \in Int,
         NEW T \in SUBSET S, \A c \in S \ T : a[c] = 0
  PROVE  Total(a, S) = Total(a, T)
<1> DEFINE bad == {D \in SUBSET S : Total(a, D) # Total(a, D \cap T)}
<1> SUFFICES ASSUME S \in bad PROVE FALSE
  <2>1. S \cap T = T
    OBVIOUS
  <2>2. QED  BY <2>1
<1>1. PICK D \in bad : \A u \in bad : ~(u \subseteq D /\ u # D)
  <2>1. bad \in SUBSET SUBSET S /\ bad # {}
    OBVIOUS
  <2> HIDE DEF bad
  <2>2. QED  BY <2>1, LeastSubset
<1>2. IsFiniteSet(D) /\ D \in SUBSET S /\ Total(a, D) # Total(a, D \cap T)
  BY <1>1, FS_Subset
<1>3. D # {}
  <2>1. {} \cap T = {}
    OBVIOUS
  <2>2. QED  BY <1>2, <2>1
<1> DEFINE x == First(D)
           rest == D \ {x}
<1>4. x \in D /\ Total(a, D) = a[x] + Total(a, rest)
  BY <1>2, <1>3, TotalUnfold
<1> HIDE DEF x
<1>5. Total(a, rest) = Total(a, rest \cap T)
  BY <1>1, <1>2, <1>4
<1>6. IsFiniteSet(D \cap T) /\ IsFiniteSet(rest \cap T) /\ \A c \in D : a[c] \in Int
  BY <1>2, FS_Subset
<1>7. Total(a, rest \cap T) \in Int
  BY <1>2, <1>6, TotalType
<1>8. CASE x \in T
  <2>1. x \in D \cap T /\ (D \cap T) \ {x} = rest \cap T
    BY <1>4, <1>8
  <2>2. \A c \in D \cap T : a[c] \in Int
    BY <1>6
  <2>3. Total(a, D \cap T) = a[x] + Total(a, (D \cap T) \ {x})
    BY <1>6, <2>1, <2>2, TotalStep
  <2>4. QED  BY <1>2, <1>4, <1>5, <2>1, <2>3
<1>9. CASE x \notin T
  <2>1. D \cap T = rest \cap T /\ a[x] = 0
    BY <1>2, <1>4, <1>9
  <2>2. Total(a, D \cap T) = Total(a, rest \cap T)
    BY <2>1
  <2>3. Total(a, D) = 0 + Total(a, rest \cap T)
    BY <1>4, <1>5, <2>1
  <2>4. QED  BY <1>2, <1>7, <2>2, <2>3
<1>10. QED  BY <1>8, <1>9

\* A change of one amount changes the total by as much.
LEMMA TotalChange ==
  ASSUME NEW a, NEW b, NEW S, IsFiniteSet(S), NEW x \in S,
         \A c \in S : a[c] \in Int /\ b[c] \in Int,
         \A c \in S \ {x} : b[c] = a[c]
  PROVE  Total(b, S) = Total(a, S) - a[x] + b[x]
<1>1. Total(a, S) = a[x] + Total(a, S \ {x}) /\ Total(b, S) = b[x] + Total(b, S \ {x})
  BY TotalStep
<1>2. IsFiniteSet(S \ {x})
  BY FS_Subset
<1>3. Total(a, S \ {x}) = Total(b, S \ {x}) /\ Total(a, S \ {x}) \in Int
  BY <1>2, TotalSame, TotalType
<1>4. a[x] \in Int /\ b[x] \in Int
  OBVIOUS
<1>5. QED  BY <1>1, <1>3, <1>4

\* Any function that adds up gives the total.
LEMMA TotalAdds ==
  ASSUME NEW amount, NEW S, IsFiniteSet(S), NEW f, Adds(f, amount, S)
  PROVE  Total(amount, S) = f[S]
<1> DEFINE g == CHOOSE h : Adds(h, amount, S)
<1>1. Adds(g, amount, S)
  OBVIOUS
<1>2. Total(amount, S) = g[S]
  BY TotalDef
<1> HIDE DEF g
<1>3. g[S] = f[S]
  BY <1>1, Agree
<1>4. QED  BY <1>2, <1>3

\* The total of sums.
LEMMA TotalPlus ==
  ASSUME NEW a, NEW b, NEW S, IsFiniteSet(S), \A c \in S : a[c] \in Int /\ b[c] \in Int,
         NEW ab, \A c \in S : ab[c] = a[c] + b[c]
  PROVE  Total(ab, S) = Total(a, S) + Total(b, S)
<1> DEFINE bad == {D \in SUBSET S : Total(ab, D) # Total(a, D) + Total(b, D)}
<1> SUFFICES ASSUME S \in bad PROVE FALSE
  OBVIOUS
<1>1. PICK D \in bad : \A u \in bad : ~(u \subseteq D /\ u # D)
  <2>1. bad \in SUBSET SUBSET S /\ bad # {}
    OBVIOUS
  <2> HIDE DEF bad
  <2>2. QED  BY <2>1, LeastSubset
<1>2. IsFiniteSet(D) /\ D \in SUBSET S /\ Total(ab, D) # Total(a, D) + Total(b, D)
  BY <1>1, FS_Subset
<1>3. D # {}
  <2>1. D = {} => Total(ab, D) = 0 /\ Total(a, D) = 0 /\ Total(b, D) = 0
    BY TotalEmpty
  <2> HIDE DEF bad
  <2>2. QED  BY <1>2, <2>1
<1> DEFINE x == First(D)
           rest == D \ {x}
<1>4. /\ x \in D /\ Total(a, D) = a[x] + Total(a, rest) /\ Total(b, D) = b[x] + Total(b, rest)
      /\ Total(ab, D) = ab[x] + Total(ab, rest)
  BY <1>2, <1>3, TotalUnfold
<1>5. ab[x] = a[x] + b[x] /\ a[x] \in Int /\ b[x] \in Int
  BY <1>2, <1>4
<1> HIDE DEF x
<1>6. Total(ab, rest) = Total(a, rest) + Total(b, rest)
  BY <1>1, <1>2, <1>4
<1> HIDE DEF bad
<1>7. Total(a, rest) \in Int /\ Total(b, rest) \in Int
  <2>1. IsFiniteSet(rest)
    BY <1>2, FS_Subset
  <2>2. \A c \in rest : a[c] \in Int /\ b[c] \in Int
    BY <1>2
  <2>3. QED  BY <2>1, <2>2, TotalType
<1>8. QED  BY <1>2, <1>4, <1>5, <1>6, <1>7

\* Amounts that are not negative add up to no less over more.
LEMMA TotalSubset ==
  ASSUME NEW a, NEW S, IsFiniteSet(S), \A c \in S : a[c] \in Int /\ a[c] >= 0, NEW T \in SUBSET S
  PROVE  Total(a, T) <= Total(a, S)
<1> DEFINE b == [c \in S |-> IF c \in T THEN a[c] ELSE 0]
<1>1. \A c \in S : b[c] \in Int /\ b[c] <= a[c]
  OBVIOUS
<1>2. /\ \A c \in S \ T : b[c] = 0
      /\ \A c \in T : b[c] = a[c] /\ a[c] \in Int
  OBVIOUS
<1> HIDE DEF b
<1>3. Total(b, S) <= Total(a, S)
  BY <1>1, TotalGrows
<1>4. Total(b, S) = Total(b, T)
  BY <1>1, <1>2, TotalSupport
<1>5. Total(a, T) = Total(b, T)
  <2>1. IsFiniteSet(T)
    BY FS_Subset
  <2>2. QED  BY <1>2, <2>1, TotalSame
<1>6. QED  BY <1>3, <1>4, <1>5

\* Where each amount of one set is covered by one of another set, no two by the same,
\* the totals compare as well.
LEMMA TotalCovered ==
  ASSUME NEW a, NEW S, IsFiniteSet(S), NEW b, NEW T, IsFiniteSet(T), NEW at,
         \A t \in T : b[t] \in Int /\ b[t] >= 0,
         \A c \in S : at[c] \in T /\ a[c] \in Int /\ a[c] <= b[at[c]],
         \A c, d \in S : at[c] = at[d] => c = d
  PROVE  Total(a, S) <= Total(b, T)
<1> DEFINE image(D) == {at[c] : c \in D}
           bad == {D \in SUBSET S : ~(Total(a, D) <= Total(b, image(D)))}
<1>0. \A D \in SUBSET S : /\ image(D) \in SUBSET T
                          /\ IsFiniteSet(image(D))
  <2>1. ASSUME NEW D \in SUBSET S PROVE image(D) \in SUBSET T
    OBVIOUS
  <2>2. QED  BY <2>1, FS_Subset
<1>1. S \notin bad
  <2> SUFFICES ASSUME S \in bad PROVE FALSE
    OBVIOUS
  <2>1. PICK D \in bad : \A u \in bad : ~(u \subseteq D /\ u # D)
    <3>1. bad \in SUBSET SUBSET S /\ bad # {}
      OBVIOUS
    <3> HIDE DEF bad
    <3>2. QED  BY <3>1, LeastSubset
  <2>2. IsFiniteSet(D) /\ D \in SUBSET S /\ ~(Total(a, D) <= Total(b, image(D)))
    BY <2>1, FS_Subset
  <2>3. D # {}
    <3>1. Total(a, {}) = 0 /\ Total(b, {}) = 0 /\ image({}) = {}
      BY TotalEmpty
    <3>2. QED  BY <2>2, <3>1
  <2> DEFINE x == First(D)
             rest == D \ {x}
  <2>4. x \in D /\ Total(a, D) = a[x] + Total(a, rest)
    BY <2>2, <2>3, TotalUnfold
  <2> HIDE DEF x
  <2>5. at[x] \in image(D) /\ image(rest) = image(D) \ {at[x]}
    BY <2>2, <2>4
  <2>6. Total(a, rest) <= Total(b, image(rest))
    BY <2>1, <2>2, <2>4
  <2> HIDE DEF bad, image
  <2>7. \A t \in image(D) : b[t] \in Int
    BY <1>0, <2>2
  <2>8. Total(b, image(D)) = b[at[x]] + Total(b, image(D) \ {at[x]})
    BY <1>0, <2>2, <2>5, <2>7, TotalStep
  <2>9. Total(a, rest) \in Int /\ Total(b, image(rest)) \in Int
    <3>1. IsFiniteSet(rest) /\ rest \in SUBSET S
      BY <2>2, FS_Subset
    <3>2. \A c \in rest : a[c] \in Int
      BY <3>1
    <3>3. IsFiniteSet(image(rest)) /\ \A t \in image(rest) : b[t] \in Int
      BY <1>0, <3>1
    <3>4. QED  BY <3>1, <3>2, <3>3, TotalType
  <2>10. a[x] \in Int /\ b[at[x]] \in Int /\ a[x] <= b[at[x]]
    BY <2>2, <2>4
  <2> HIDE DEF rest
  <2>11. Total(b, image(rest)) = Total(b, image(D) \ {at[x]})
    BY <2>5
  <2>12. QED  BY <2>2, <2>4, <2>6, <2>8, <2>9, <2>10, <2>11
<1>2. Total(a, S) <= Total(b, image(S))
  BY <1>1
<1>3. Total(b, image(S)) <= Total(b, T)
  <2>1. image(S) \in SUBSET T
    BY <1>0
  <2> HIDE DEF image
  <2>2. QED  BY <2>1, TotalSubset
<1>4. Total(a, S) \in Int /\ Total(b, image(S)) \in Int /\ Total(b, T) \in Int
  <2>1. IsFiniteSet(image(S)) /\ image(S) \subseteq T
    BY <1>0
  <2> HIDE DEF image
  <2>2. QED  BY <2>1, TotalType
<1>5. QED  BY <1>2, <1>3, <1>4

-----------------------------------------------------------------------------
(* Sums along a sequence.                                                  *)

\* A set of natural numbers has a least one.
LEMMA LeastNumber ==
  ASSUME NEW T \in SUBSET Nat, T # {}
  PROVE  \E n \in T : \A m \in T : ~(m < n)
<1>1. PICK n \in T : \A m \in T : ~(<<m, n>> \in OpToRel(<, Nat))
  BY NatLessThanWellFounded, WFMin
<1>2. \A m \in T : m < n => <<m, n>> \in OpToRel(<, Nat)
  BY DEF OpToRel
<1>3. QED  BY <1>1, <1>2

\* The partial sums of the first n amounts.
Runs(f, a, n) == f = [i \in 0..n |-> IF i = 0 THEN 0 ELSE f[i - 1] + a[i]]

\* What the first n amounts add up to.
Along(a, n) == (CHOOSE f : Runs(f, a, n))[n]

\* Partial sums agree as far as the amounts do.
LEMMA RunsAgree ==
  ASSUME NEW a, NEW b, NEW m \in Nat, NEW n \in Nat, NEW f, NEW g, Runs(f, a, m), Runs(g, b, n),
         NEW k \in Nat, k <= m, k <= n, \A i \in 1..k : a[i] = b[i]
  PROVE  f[k] = g[k]
<1> DEFINE bad == {j \in 0..k : f[j] # g[j]}
<1> SUFFICES ASSUME k \in bad PROVE FALSE
  OBVIOUS
<1>1. PICK j \in bad : \A i \in bad : ~(i < j)
  <2>1. bad \in SUBSET Nat /\ bad # {}
    OBVIOUS
  <2> HIDE DEF bad
  <2>2. QED  BY <2>1, LeastNumber
<1>2. /\ f[j] = IF j = 0 THEN 0 ELSE f[j - 1] + a[j]
      /\ g[j] = IF j = 0 THEN 0 ELSE g[j - 1] + b[j]
  BY <1>1 DEF Runs
<1>3. j # 0 /\ j \in 1..k
  BY <1>1, <1>2
<1>4. j - 1 \in 0..k /\ j - 1 < j
  BY <1>3
<1>5. f[j - 1] = g[j - 1]
  BY <1>1, <1>4
<1>6. QED  BY <1>1, <1>2, <1>3, <1>5

\* There are partial sums.
LEMMA RunsExist ==
  ASSUME NEW a, NEW n \in Nat
  PROVE  \E f : Runs(f, a, n)
<1> DEFINE bad == {j \in Nat : ~\E f : Runs(f, a, j)}
<1> SUFFICES ASSUME n \in bad PROVE FALSE
  OBVIOUS
<1>1. PICK j \in bad : \A i \in bad : ~(i < j)
  <2>1. bad \in SUBSET Nat /\ bad # {}
    OBVIOUS
  <2> HIDE DEF bad
  <2>2. QED  BY <2>1, LeastNumber
<1>2. CASE j = 0
  <2>1. Runs([i \in 0..0 |-> 0], a, 0)
    BY DEF Runs
  <2>2. QED  BY <1>1, <1>2, <2>1
<1>3. CASE j # 0
  <2>1. j \in Nat /\ j - 1 \in Nat /\ j - 1 < j
    BY <1>1, <1>3
  <2>2. PICK f : Runs(f, a, j - 1)
    BY <1>1, <2>1
  <2> DEFINE g == [i \in 0..j |-> IF i = j THEN f[j - 1] + a[j] ELSE f[i]]
  <2>3. ASSUME NEW i \in 0..j
        PROVE  g[i] = IF i = 0 THEN 0 ELSE g[i - 1] + a[i]
    <3>1. CASE i = j
      <4>1. j - 1 \in 0..j /\ j - 1 # j
        BY <2>1
      <4>2. QED  BY <1>3, <3>1, <4>1
    <3>2. CASE i # j
      <4>1. i \in 0..(j - 1) /\ (i # 0 => i - 1 \in 0..j /\ i - 1 # j)
        BY <2>1, <3>2
      <4>2. f[i] = IF i = 0 THEN 0 ELSE f[i - 1] + a[i]
        BY <2>2, <4>1 DEF Runs
      <4>3. QED  BY <3>2, <4>1, <4>2
    <3>3. QED  BY <3>1, <3>2
  <2>4. g = [i \in 0..j |-> IF i = 0 THEN 0 ELSE g[i - 1] + a[i]]
    <3>1. g = [i \in 0..j |-> g[i]]
      OBVIOUS
    <3> HIDE DEF g
    <3>2. QED  BY <2>3, <3>1
  <2> HIDE DEF g
  <2>5. Runs(g, a, j)
    BY <2>4 DEF Runs
  <2>6. QED  BY <1>1, <2>5
<1>4. QED  BY <1>2, <1>3

\* Whatever the partial sums are, this is the last of them.
LEMMA AlongRuns ==
  ASSUME NEW a, NEW n \in Nat, NEW f, Runs(f, a, n)
  PROVE  Along(a, n) = f[n]
<1> DEFINE g == CHOOSE h : Runs(h, a, n)
<1>1. Runs(g, a, n)
  BY RunsExist
<1>2. Along(a, n) = g[n]
  BY DEF Along
<1> HIDE DEF g
<1>3. g[n] = f[n]
  BY <1>1, RunsAgree
<1>4. QED  BY <1>2, <1>3

\* One amount more, or none.
LEMMA AlongStep ==
  ASSUME NEW a, NEW n \in Nat
  PROVE  Along(a, 0) = 0 /\ (n # 0 => Along(a, n) = Along(a, n - 1) + a[n])
<1>1. Along(a, 0) = 0
  <2>1. PICK f : Runs(f, a, 0)
    BY RunsExist
  <2>2. Along(a, 0) = f[0]
    BY <2>1, AlongRuns
  <2>3. f[0] = 0
    BY <2>1 DEF Runs
  <2>4. QED  BY <2>2, <2>3
<1>2. ASSUME n # 0 PROVE Along(a, n) = Along(a, n - 1) + a[n]
  <2>1. n - 1 \in Nat /\ n - 1 <= n /\ n - 1 <= n - 1
    BY <1>2
  <2>2. PICK f : Runs(f, a, n)
    BY RunsExist
  <2>3. PICK g : Runs(g, a, n - 1)
    BY <2>1, RunsExist
  <2>4. f[n] = f[n - 1] + a[n]
    BY <1>2, <2>2 DEF Runs
  <2>5. f[n - 1] = g[n - 1]
    BY <2>1, <2>2, <2>3, RunsAgree
  <2>6. Along(a, n) = f[n] /\ Along(a, n - 1) = g[n - 1]
    BY <2>1, <2>2, <2>3, AlongRuns
  <2>7. QED  BY <2>4, <2>5, <2>6
<1>3. QED  BY <1>1, <1>2

LEMMA AlongSame ==
  ASSUME NEW a, NEW b, NEW n \in Nat, \A i \in 1..n : a[i] = b[i]
  PROVE  Along(a, n) = Along(b, n)
<1>1. PICK f : Runs(f, a, n)
  BY RunsExist
<1>2. PICK g : Runs(g, b, n)
  BY RunsExist
<1>3. n <= n
  OBVIOUS
<1>4. f[n] = g[n]
  BY <1>1, <1>2, <1>3, RunsAgree
<1>5. QED  BY <1>1, <1>2, <1>4, AlongRuns

\* Integers add up to an integer, and those that do not grow to one that does not.
LEMMA AlongType ==
  ASSUME NEW a, NEW n \in Nat, \A i \in 1..n : a[i] \in Int
  PROVE  /\ Along(a, n) \in Int
         /\ (\A i \in 1..n : a[i] <= 0) => Along(a, n) <= 0
         /\ (\A i \in 1..n : a[i] >= 0) => Along(a, n) >= 0
<1> DEFINE Good(j) == /\ Along(a, j) \in Int
                      /\ (\A i \in 1..n : a[i] <= 0) => Along(a, j) <= 0
                      /\ (\A i \in 1..n : a[i] >= 0) => Along(a, j) >= 0
           bad == {j \in 0..n : ~Good(j)}
<1> SUFFICES ASSUME n \in bad PROVE FALSE
  OBVIOUS
<1>1. PICK j \in bad : \A i \in bad : ~(i < j)
  <2>1. bad \in SUBSET Nat /\ bad # {}
    OBVIOUS
  <2> HIDE DEF bad
  <2>2. QED  BY <2>1, LeastNumber
<1>2. j \in Nat /\ j <= n /\ j # 0
  <2>1. Good(0)
    BY AlongStep
  <2>2. QED  BY <1>1, <2>1
<1>3. j - 1 \in 0..n /\ j - 1 < j /\ j \in 1..n
  BY <1>2
<1>4. Good(j - 1)
  BY <1>1, <1>3
<1>5. Along(a, j) = Along(a, j - 1) + a[j] /\ a[j] \in Int
  BY <1>2, <1>3, AlongStep
<1>6. Good(j)
  BY <1>3, <1>4, <1>5
<1>7. QED  BY <1>1, <1>6

\* What is not below zero adds up to at least each of its amounts.
LEMMA AlongMember ==
  ASSUME NEW a, NEW n \in Nat, \A i \in 1..n : a[i] \in Int /\ a[i] >= 0, NEW i \in 1..n
  PROVE  Along(a, n) >= a[i]
<1> DEFINE bad == {j \in i..n : ~(Along(a, j) >= a[i])}
<1> SUFFICES ASSUME n \in bad PROVE FALSE
  OBVIOUS
<1>1. PICK j \in bad : \A k \in bad : ~(k < j)
  <2>1. bad \in SUBSET Nat /\ bad # {}
    OBVIOUS
  <2> HIDE DEF bad
  <2>2. QED  BY <2>1, LeastNumber
<1>2. j \in 1..n /\ j \in Nat /\ j # 0 /\ i <= j /\ j - 1 \in Nat
  BY <1>1
<1>3. Along(a, j) = Along(a, j - 1) + a[j] /\ a[j] \in Int /\ a[j] >= 0 /\ a[i] \in Int
  BY <1>2, AlongStep
<1>4. Along(a, j - 1) \in Int /\ Along(a, j - 1) >= 0
  <2>1. \A k \in 1..(j - 1) : a[k] \in Int /\ a[k] >= 0
    BY <1>2
  <2>2. QED  BY <1>2, <2>1, AlongType
<1>5. CASE i = j
  BY <1>1, <1>3, <1>4, <1>5
<1>6. CASE i # j
  <2>1. j - 1 \in i..n /\ j - 1 < j
    BY <1>2, <1>6
  <2>2. Along(a, j - 1) >= a[i]
    BY <1>1, <2>1
  <2>3. QED  BY <1>1, <1>3, <1>4, <2>2
<1>7. QED  BY <1>5, <1>6

\* The first amount may be taken first.
LEMMA AlongTail ==
  ASSUME NEW a, NEW b, NEW n \in Nat, \A i \in 1..(n + 1) : a[i] \in Int,
         \A i \in 1..n : b[i] = a[i + 1]
  PROVE  Along(a, n + 1) = a[1] + Along(b, n)
<1> DEFINE bad == {j \in 0..n : Along(a, j + 1) # a[1] + Along(b, j)}
<1> SUFFICES ASSUME n \in bad PROVE FALSE
  OBVIOUS
<1>1. PICK j \in bad : \A i \in bad : ~(i < j)
  <2>1. bad \in SUBSET Nat /\ bad # {}
    OBVIOUS
  <2> HIDE DEF bad
  <2>2. QED  BY <2>1, LeastNumber
<1>2. j \in Nat /\ j <= n /\ j + 1 \in 1..(n + 1) /\ j + 1 \in Nat /\ j + 1 # 0 /\ (j + 1) - 1 = j
  BY <1>1
<1>3. Along(a, j + 1) = Along(a, j) + a[j + 1] /\ a[1] \in Int /\ a[j + 1] \in Int
  BY <1>2, AlongStep
<1>4. CASE j = 0
  <2>1. Along(a, 0) = 0 /\ Along(b, 0) = 0
    BY AlongStep
  <2>2. QED  BY <1>1, <1>3, <1>4, <2>1
<1>5. CASE j # 0
  <2>1. j \in 1..n /\ j - 1 \in 0..n /\ j - 1 < j /\ (j - 1) + 1 = j /\ j - 1 \in Nat
    BY <1>2, <1>5
  <2>2. Along(a, j) = a[1] + Along(b, j - 1)
    BY <1>1, <2>1
  <2>3. Along(b, j) = Along(b, j - 1) + b[j] /\ b[j] = a[j + 1]
    BY <1>2, <1>5, <2>1, AlongStep
  <2>4. Along(b, j - 1) \in Int
    <3>1. \A i \in 1..(j - 1) : b[i] \in Int
      <4>1. \A i \in 1..(j - 1) : i \in 1..n /\ i + 1 \in 1..(n + 1)
        BY <1>2
      <4>2. QED  BY <4>1
    <3>2. QED  BY <2>1, <3>1, AlongType
  <2>5. Along(a, j + 1) = a[1] + Along(b, j)
    BY <1>3, <2>2, <2>3, <2>4
  <2>6. QED  BY <1>1, <2>5
<1>6. QED  BY <1>4, <1>5

\* One amount taken out.
LEMMA AlongRemoved ==
  ASSUME NEW a, NEW b, NEW n \in Nat, NEW i \in 1..(n + 1), \A j \in 1..(n + 1) : a[j] \in Int,
         \A j \in 1..n : b[j] = IF j < i THEN a[j] ELSE a[j + 1]
  PROVE  Along(b, n) = Along(a, n + 1) - a[i]
<1> DEFINE Good(m) == Along(b, m) = IF m < i THEN Along(a, m) ELSE Along(a, m + 1) - a[i]
           bad == {m \in 0..n : ~Good(m)}
<1>1. \A m \in 0..(n + 1) : Along(a, m) \in Int
  <2> SUFFICES ASSUME NEW m \in 0..(n + 1)
               PROVE  Along(a, m) \in Int
    OBVIOUS
  <2>1. m \in Nat /\ \A j \in 1..m : a[j] \in Int
    OBVIOUS
  <2> QED BY <2>1, AlongType
<1>2. ASSUME n \in bad PROVE FALSE
  <2>1. PICK m \in bad : \A k \in bad : ~(k < m)
    <3>1. bad \in SUBSET Nat /\ bad # {}
      BY <1>2
    <3> HIDE DEF bad
    <3> QED BY <3>1, LeastNumber
  <2>2. m \in 0..n /\ ~Good(m)
    BY <2>1
  <2>3. m # 0
    <3>1. Along(b, 0) = 0 /\ Along(a, 0) = 0
      BY AlongStep
    <3> QED BY <2>2, <3>1
  <2>4. m - 1 \in 0..n /\ m - 1 < m /\ m \in 1..n /\ m \in Nat /\ m + 1 \in Nat
    BY <2>2, <2>3
  <2>5. Good(m - 1)
    BY <2>1, <2>4
  <2>6. /\ Along(b, m) = Along(b, m - 1) + b[m] /\ Along(a, m) = Along(a, m - 1) + a[m]
        /\ Along(a, m + 1) = Along(a, m) + a[m + 1]
    <3>1. m + 1 # 0 /\ (m + 1) - 1 = m
      BY <2>4
    <3>2. Along(a, m + 1) = Along(a, (m + 1) - 1) + a[m + 1]
      BY <2>4, <3>1, AlongStep
    <3> QED BY <2>3, <2>4, <3>1, <3>2, AlongStep
  <2>7. /\ a[m] \in Int /\ a[m + 1] \in Int /\ a[i] \in Int
        /\ Along(a, m - 1) \in Int /\ Along(a, m) \in Int /\ Along(a, m + 1) \in Int
    BY <1>1, <2>4
  <2>8. CASE m < i
    BY <2>2, <2>4, <2>5, <2>6, <2>7, <2>8
  <2>9. CASE m = i
    BY <2>2, <2>4, <2>5, <2>6, <2>7, <2>9
  <2>10. CASE m > i
    BY <2>2, <2>4, <2>5, <2>6, <2>7, <2>10
  <2> QED BY <2>4, <2>8, <2>9, <2>10
<1>3. Good(n)
  BY <1>2
<1>4. CASE n < i
  <2>1. i = n + 1 /\ n + 1 # 0 /\ (n + 1) - 1 = n /\ n + 1 \in Nat
    BY <1>4
  <2>2. Along(a, n + 1) = Along(a, (n + 1) - 1) + a[n + 1]
    BY <2>1, AlongStep
  <2>3. Along(a, n) \in Int /\ a[n + 1] \in Int
    BY <1>1
  <2> QED BY <1>3, <1>4, <2>1, <2>2, <2>3
<1>5. CASE ~(n < i)
  BY <1>3, <1>5
<1> QED BY <1>4, <1>5

LEMMA AlongGrows ==
  ASSUME NEW a, NEW b, NEW n \in Nat, \A i \in 1..n : a[i] \in Int /\ b[i] \in Int /\ a[i] <= b[i]
  PROVE  Along(a, n) <= Along(b, n)
<1> DEFINE bad == {j \in 0..n : ~(Along(a, j) <= Along(b, j))}
<1> SUFFICES ASSUME n \in bad PROVE FALSE
  OBVIOUS
<1>1. PICK j \in bad : \A i \in bad : ~(i < j)
  <2>1. bad \in SUBSET Nat /\ bad # {}
    OBVIOUS
  <2> HIDE DEF bad
  <2>2. QED  BY <2>1, LeastNumber
<1>2. j \in 0..n /\ ~(Along(a, j) <= Along(b, j))
  BY <1>1
<1>3. j # 0
  BY <1>2, AlongStep
<1>4. j \in Nat /\ j \in 1..n /\ j - 1 \in Nat /\ j - 1 \in 0..n /\ j - 1 < j
  BY <1>2, <1>3
<1>5. Along(a, j) = Along(a, j - 1) + a[j] /\ Along(b, j) = Along(b, j - 1) + b[j]
  BY <1>3, <1>4, AlongStep
<1>6. Along(a, j - 1) <= Along(b, j - 1)
  BY <1>1, <1>4
<1>7. Along(a, j - 1) \in Int /\ Along(b, j - 1) \in Int
  <2>1. \A i \in 1..(j - 1) : a[i] \in Int /\ b[i] \in Int
    BY <1>4
  <2>2. QED  BY <1>4, <2>1, AlongType
<1>8. QED  BY <1>2, <1>4, <1>5, <1>6, <1>7

LEMMA AlongNegated ==
  ASSUME NEW a, NEW n \in Nat, \A i \in 1..n : a[i] \in Int
  PROVE  Along([i \in 1..n |-> -a[i]], n) = -Along(a, n)
<1> DEFINE b == [i \in 1..n |-> -a[i]]
           bad == {j \in 0..n : Along(b, j) # -Along(a, j)}
<1> SUFFICES ASSUME n \in bad PROVE FALSE
  OBVIOUS
<1>1. PICK j \in bad : \A i \in bad : ~(i < j)
  <2>1. bad \in SUBSET Nat /\ bad # {}
    BY SMTT(30)
  <2> HIDE DEF bad
  <2>2. QED  BY <2>1, LeastNumber
<1>2. j \in 0..n /\ Along(b, j) # -Along(a, j)
  BY <1>1
<1>3. \A i \in 1..n : b[i] = -a[i]
  OBVIOUS
<1> HIDE DEF b
<1>4. j # 0
  <2>1. Along(a, 0) = 0 /\ Along(b, 0) = 0
    BY AlongStep
  <2>2. QED  BY <1>2, <2>1
<1>5. j \in Nat /\ j \in 1..n /\ j - 1 \in Nat /\ j - 1 \in 0..n /\ j - 1 < j
  BY <1>2, <1>4
<1>6. Along(a, j) = Along(a, j - 1) + a[j] /\ Along(b, j) = Along(b, j - 1) + b[j]
  BY <1>4, <1>5, AlongStep
<1>7. Along(b, j - 1) = -Along(a, j - 1)
  BY <1>1, <1>5
<1>8. Along(a, j - 1) \in Int
  <2>1. \A i \in 1..(j - 1) : a[i] \in Int
    BY <1>5
  <2>2. QED  BY <1>5, <2>1, AlongType
<1>9. b[j] = -a[j] /\ a[j] \in Int
  BY <1>3, <1>5
<1>10. QED  BY <1>2, <1>6, <1>7, <1>8, <1>9

\* A sum along a sequence is the total, over the owners, of what is theirs of it.
Share(a, who, n, c) == [i \in 1..n |-> IF who[i] = c THEN a[i] ELSE 0]
Shares(a, who, n, S) == [c \in S |-> Along(Share(a, who, n, c), n)]

LEMMA AlongByOwner ==
  ASSUME NEW a, NEW who, NEW n \in Nat, NEW S, IsFiniteSet(S),
         \A i \in 1..n : a[i] \in Int /\ who[i] \in S
  PROVE  Along(a, n) = Total(Shares(a, who, n, S), S)
<1> DEFINE share == [c \in S |-> Share(a, who, n, c)]
           part(j) == [c \in S |-> Along(share[c], j)]
           bad == {j \in 0..n : Along(a, j) # Total(part(j), S)}
<1> SUFFICES ASSUME n \in bad PROVE FALSE
  <2>1. Along(a, n) = Total(part(n), S)
    OBVIOUS
  <2>2. part(n) = Shares(a, who, n, S)
    BY DEF Shares
  <2> HIDE DEF part, bad
  <2>3. QED  BY <2>1, <2>2
<1>0. \A c \in S : \A i \in 1..n : share[c][i] = IF who[i] = c THEN a[i] ELSE 0
  BY DEF Share
<1> HIDE DEF share
<1>1. PICK j \in bad : \A i \in bad : ~(i < j)
  <2>1. bad \in SUBSET Nat /\ bad # {}
    OBVIOUS
  <2> HIDE DEF bad
  <2>2. QED  BY <2>1, LeastNumber
<1>2. j \in 0..n /\ Along(a, j) # Total(part(j), S)
  BY <1>1
<1>3. ASSUME NEW k \in 0..n, NEW c \in S PROVE part(k)[c] \in Int /\ part(k)[c] = Along(share[c], k)
  <2>1. k \in Nat /\ \A i \in 1..k : i \in 1..n
    OBVIOUS
  <2>2. \A i \in 1..k : share[c][i] \in Int
    BY <1>0, <2>1
  <2>3. Along(share[c], k) \in Int
    BY <2>1, <2>2, AlongType
  <2>4. QED  BY <2>3
<1>4. CASE j = 0
  <2>1. \A c \in S : part(0)[c] = 0
    BY AlongStep
  <2>2. \A c \in S : part(0)[c] \in Int
    BY <2>1
  <2> HIDE DEF part
  <2>3. Total(part(0), S) = 0
    BY <2>1, <2>2, TotalType
  <2>4. Along(a, 0) = 0
    BY AlongStep
  <2>5. QED  BY <1>2, <1>4, <2>3, <2>4
<1>5. CASE j # 0
  <2>1. j \in Nat /\ j \in 1..n /\ j - 1 \in Nat /\ j - 1 \in 0..n /\ j - 1 < j
    BY <1>2, <1>5
  <2>2. Along(a, j) = Along(a, j - 1) + a[j] /\ a[j] \in Int /\ who[j] \in S
    BY <1>5, <2>1, AlongStep
  <2>3. Along(a, j - 1) = Total(part(j - 1), S)
    BY <1>1, <2>1
  <2>4. \A c \in S : part(j)[c] = part(j - 1)[c] + (IF who[j] = c THEN a[j] ELSE 0)
    <3>1. ASSUME NEW c \in S
          PROVE  part(j)[c] = part(j - 1)[c] + (IF who[j] = c THEN a[j] ELSE 0)
      <4>1. Along(share[c], j) = Along(share[c], j - 1) + share[c][j]
        BY <1>5, <2>1, AlongStep
      <4>2. share[c][j] = IF who[j] = c THEN a[j] ELSE 0
        BY <1>0, <2>1
      <4>3. QED  BY <4>1, <4>2
    <3>2. QED  BY <3>1
  <2>5. \A c \in S : part(j)[c] \in Int /\ part(j - 1)[c] \in Int
    BY <1>2, <1>3, <2>1
  <2> HIDE DEF part, bad
  <2>6. \A c \in S \ {who[j]} : part(j)[c] = part(j - 1)[c]
    BY <2>4, <2>5
  <2>7. Total(part(j), S) = Total(part(j - 1), S) - part(j - 1)[who[j]] + part(j)[who[j]]
    BY <2>2, <2>5, <2>6, TotalChange
  <2>8. Total(part(j - 1), S) \in Int
    BY <2>5, TotalType
  <2>9. part(j)[who[j]] = part(j - 1)[who[j]] + a[j]
    BY <2>2, <2>4
  <2>10. QED  BY <1>2, <2>2, <2>3, <2>5, <2>7, <2>8, <2>9
<1>6. QED  BY <1>4, <1>5

\* What the trades of a queue add up to.
Flow(q) ==
  LET sum[i \in 0..Len(q)] == IF i = 0 THEN 0 ELSE sum[i - 1] + q[i].qty
  IN  sum[Len(q)]

Qtys(q) == [i \in 1..Len(q) |-> q[i].qty]

LEMMA FlowAlong ==
  ASSUME NEW q, Len(q) \in Nat
  PROVE  Flow(q) = Along(Qtys(q), Len(q))
<1> DEFINE n == Len(q)
           P(f) == f = [i \in 0..n |-> IF i = 0 THEN 0 ELSE f[i - 1] + q[i].qty]
           g == CHOOSE f : P(f)
<1>1. ASSUME NEW f PROVE P(f) <=> Runs(f, Qtys(q), n)
  <2>1. ASSUME NEW i \in 0..n
        PROVE  (IF i = 0 THEN 0 ELSE f[i - 1] + q[i].qty) = (IF i = 0 THEN 0 ELSE f[i - 1] + Qtys(q)[i])
    BY DEF Qtys
  <2>2. [i \in 0..n |-> IF i = 0 THEN 0 ELSE f[i - 1] + q[i].qty]
          = [i \in 0..n |-> IF i = 0 THEN 0 ELSE f[i - 1] + Qtys(q)[i]]
    BY <2>1
  <2>3. QED  BY <2>2 DEF Runs
<1>2. Flow(q) = g[n]
  BY DEF Flow
<1> HIDE DEF n
<1>3. P(g)
  <2>1. PICK f : Runs(f, Qtys(q), n)
    BY RunsExist DEF n
  <2>2. P(f)
    BY <1>1, <2>1
  <2> HIDE DEF P
  <2>3. QED  BY <2>2
<1> HIDE DEF P, g
<1>4. Runs(g, Qtys(q), n)
  BY <1>1, <1>3
<1>5. Along(Qtys(q), n) = g[n]
  BY <1>4, AlongRuns DEF n
<1>6. QED  BY <1>2, <1>5 DEF n

\* An empty queue adds up to nothing, and trades of one side to no more than that.
LEMMA FlowType ==
  ASSUME NEW T, NEW q \in Seq(T), \A t \in T : t.qty \in Int
  PROVE  /\ Flow(q) \in Int
         /\ q = <<>> => Flow(q) = 0
         /\ (\A i \in DOMAIN q : q[i].qty <= 0) => Flow(q) <= 0
         /\ (\A i \in DOMAIN q : q[i].qty >= 0) => Flow(q) >= 0
<1>1. Len(q) \in Nat /\ DOMAIN q = 1..Len(q) /\ \A i \in 1..Len(q) : q[i] \in T
  OBVIOUS
<1>2. Flow(q) = Along(Qtys(q), Len(q))
  BY <1>1, FlowAlong
<1>3. \A i \in 1..Len(q) : Qtys(q)[i] = q[i].qty /\ Qtys(q)[i] \in Int
  BY <1>1 DEF Qtys
<1>4. /\ Along(Qtys(q), Len(q)) \in Int
      /\ (\A i \in 1..Len(q) : Qtys(q)[i] <= 0) => Along(Qtys(q), Len(q)) <= 0
      /\ (\A i \in 1..Len(q) : Qtys(q)[i] >= 0) => Along(Qtys(q), Len(q)) >= 0
  BY <1>1, <1>3, AlongType
<1>5. q = <<>> => Len(q) = 0
  OBVIOUS
<1>6. Along(Qtys(q), 0) = 0
  BY AlongStep
<1>7. QED  BY <1>1, <1>2, <1>3, <1>4, <1>5, <1>6

\* The head of a queue goes first.
LEMMA FlowTail ==
  ASSUME NEW T, NEW q \in Seq(T), \A t \in T : t.qty \in Int, q # <<>>
  PROVE  Flow(q) = Head(q).qty + Flow(Tail(q))
<1> DEFINE n == Len(q) - 1
<1>1. /\ n \in Nat /\ Len(q) = n + 1 /\ Len(Tail(q)) = n
      /\ \A i \in 1..(n + 1) : q[i] \in T
      /\ \A i \in 1..n : Tail(q)[i] = q[i + 1]
      /\ Head(q) = q[1]
  OBVIOUS
<1> HIDE DEF n
<1>2. Flow(q) = Along(Qtys(q), n + 1) /\ Flow(Tail(q)) = Along(Qtys(Tail(q)), n)
  <2>1. Len(q) \in Nat /\ Len(Tail(q)) \in Nat
    BY <1>1
  <2>2. Flow(q) = Along(Qtys(q), Len(q)) /\ Flow(Tail(q)) = Along(Qtys(Tail(q)), Len(Tail(q)))
    BY <2>1, FlowAlong
  <2>3. QED  BY <1>1, <2>2
<1>3. \A i \in 1..(n + 1) : Qtys(q)[i] = q[i].qty /\ Qtys(q)[i] \in Int
  BY <1>1 DEF Qtys
<1>4. \A i \in 1..n : Qtys(Tail(q))[i] = Qtys(q)[i + 1]
  BY <1>1 DEF Qtys
<1>5. Along(Qtys(q), n + 1) = Qtys(q)[1] + Along(Qtys(Tail(q)), n)
  BY <1>1, <1>3, <1>4, AlongTail
<1>6. Qtys(q)[1] = Head(q).qty
  BY <1>1, <1>3
<1>7. QED  BY <1>2, <1>5, <1>6

\* A new trade goes last.
LEMMA FlowAppend ==
  ASSUME NEW T, NEW q \in Seq(T), \A t \in T : t.qty \in Int, NEW e \in T
  PROVE  Flow(Append(q, e)) = Flow(q) + e.qty
<1> DEFINE n == Len(q)
           r == Append(q, e)
<1>1. /\ n \in Nat /\ n + 1 \in Nat /\ n + 1 # 0 /\ (n + 1) - 1 = n
      /\ Len(r) = n + 1 /\ r[n + 1] = e /\ \A i \in 1..n : r[i] = q[i]
  OBVIOUS
<1> HIDE DEF r
<1>2. Flow(q) = Along(Qtys(q), n) /\ Flow(r) = Along(Qtys(r), n + 1)
  BY <1>1, FlowAlong
<1> HIDE DEF n
<1>3. Along(Qtys(r), n + 1) = Along(Qtys(r), n) + Qtys(r)[n + 1]
  BY <1>1, AlongStep
<1>4. \A i \in 1..n : Qtys(r)[i] = Qtys(q)[i]
  BY <1>1 DEF Qtys, n
<1>5. Along(Qtys(r), n) = Along(Qtys(q), n)
  BY <1>1, <1>4, AlongSame
<1>6. Qtys(r)[n + 1] = e.qty
  BY <1>1 DEF Qtys
<1>7. QED  BY <1>2, <1>3, <1>5, <1>6 DEF r

LEMMA FlowMember ==
  ASSUME NEW T, NEW q \in Seq(T), \A t \in T : t.qty \in Int /\ t.qty >= 0, NEW i \in DOMAIN q
  PROVE  Flow(q) >= q[i].qty
<1>1. Len(q) \in Nat /\ DOMAIN q = 1..Len(q) /\ \A j \in 1..Len(q) : q[j] \in T
  OBVIOUS
<1>2. Flow(q) = Along(Qtys(q), Len(q))
  BY <1>1, FlowAlong
<1>3. \A j \in 1..Len(q) : Qtys(q)[j] = q[j].qty /\ Qtys(q)[j] \in Int /\ Qtys(q)[j] >= 0
  BY <1>1 DEF Qtys
<1>4. Along(Qtys(q), Len(q)) >= Qtys(q)[i]
  BY <1>1, <1>3, AlongMember
<1>5. QED  BY <1>1, <1>2, <1>3, <1>4
=============================================================================
