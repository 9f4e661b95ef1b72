------------------------- MODULE BookkeepingProofs --------------------------
(***************************************************************************)
(* Proofs about the office's books, whatever is uploaded, decided,         *)
(* corrected and exported in any order, and about the import batches, in   *)
(* which an upload is many calls that may overlap and fail.  A sum is      *)
(* reasoned about one member at a time: were the claim wrong of a set, it  *)
(* would be wrong of a smallest one.                                       *)
(***************************************************************************)
EXTENDS Bookkeeping, ImportBatches, FiniteSetTheorems, WellFoundedInduction, TLAPS


----------------------------------------------------------------------------
(* Sums over finite sets, by a smallest counterexample.                    *)

\* A set of numbers has a least one.
LEMMA LeastOf ==
  ASSUME NEW T \in SUBSET Nat, T # {}
  PROVE  \E m \in T : \A k \in T : m <= k
<1>1. PICK m \in T : \A k \in T : <<k, m>> \notin OpToRel(<, Nat)
  BY NatLessThanWellFounded, WFMin
<1>2. \A k \in T : ~(k < m)
  BY <1>1 DEF OpToRel
<1> QED BY <1>2

\* Of the sets that have a property one has no smaller one within it.
LEMMA SmallestOf ==
  ASSUME NEW S, IsFiniteSet(S), NEW B \in SUBSET SUBSET S, B # {}
  PROVE  \E R \in B : \A T \in SUBSET R : T # R => T \notin B
<1>1. B \subseteq FiniteSubsetsOf(S)
  BY FS_FiniteSubsetsOfFinite
<1>2. PICK R \in B : \A T \in B : <<T, R>> \notin StrictSubsetOrdering(S)
  BY <1>1, FS_StrictSubsetOrderingWellFounded, WFMin
<1>3. R \in SUBSET S
  OBVIOUS
<1> QED BY <1>2, <1>3 DEF StrictSubsetOrdering

Pick(s) == CHOOSE x \in s : TRUE

\* f adds up the numbers that w has for the members of a subset of S.
Adds(f, S, w) ==
  f = [s \in SUBSET S |-> IF s = {} THEN 0 ELSE w[Pick(s)] + f[s \ {Pick(s)}]]

LEMMA Picked == ASSUME NEW s, s # {} PROVE Pick(s) \in s
BY DEF Pick

UpTo(S, n) == {s \in SUBSET S : Cardinality(s) <= n}

\* The recursion is over ever smaller sets, so there is such a function ...
LEMMA AddsExists ==
  ASSUME NEW S, IsFiniteSet(S), NEW w
  PROVE  \E f : Adds(f, S, w)
<1> DEFINE Part(f, n) == f = [s \in UpTo(S, n) |->
                           IF s = {} THEN 0 ELSE w[Pick(s)] + f[s \ {Pick(s)}]]
           Bad == {n \in Nat : ~\E f : Part(f, n)}
<1>0. \A s \in SUBSET S : IsFiniteSet(s) /\ Cardinality(s) \in Nat
  BY FS_Subset, FS_CardinalityType
<1>1. Bad = {}
  <2> SUFFICES ASSUME Bad # {} PROVE FALSE
    OBVIOUS
  <2>1. PICK n \in Bad : \A k \in Bad : n <= k
    BY LeastOf
  <2>2. CASE n = 0
    <3>1. UpTo(S, 0) = {{}}
      BY <1>0, FS_EmptySet DEF UpTo
    <3>2. Part([s \in {{}} |-> 0], 0)
      BY <3>1
    <3> QED BY <2>1, <2>2, <3>2
  <2>3. CASE n # 0
    <3>1. n - 1 \in Nat /\ n - 1 \notin Bad
      <4>1. n \in Nat
        BY <2>1
      <4>2. n - 1 \in Nat /\ ~(n <= n - 1)
        BY <2>3, <4>1
      <4> HIDE DEF Bad
      <4> QED BY <2>1, <4>2
    <3>2. PICK f : Part(f, n - 1)
      BY <3>1
    <3> DEFINE g == [s \in UpTo(S, n) |->
                       IF s = {} THEN 0 ELSE w[Pick(s)] + f[s \ {Pick(s)}]]
    <3>3. \A s \in UpTo(S, n - 1) : g[s] = f[s] /\ s \in UpTo(S, n)
      <4>1. n \in Nat
        BY <2>1
      <4>2. \A s \in UpTo(S, n - 1) : s \in UpTo(S, n)
        BY <1>0, <4>1 DEF UpTo
      <4> QED BY <3>2, <4>2
    <3>4. ASSUME NEW s \in UpTo(S, n), s # {}
          PROVE  s \ {Pick(s)} \in UpTo(S, n - 1)
      <4>1. s \in SUBSET S /\ IsFiniteSet(s) /\ Cardinality(s) <= n /\ Pick(s) \in s
        BY <1>0, <3>4, Picked DEF UpTo
      <4>2. Cardinality(s \ {Pick(s)}) = Cardinality(s) - 1
        BY <4>1, FS_RemoveElement
      <4> QED BY <1>0, <2>1, <4>1, <4>2 DEF UpTo
    <3>5. Part(g, n)
      BY <3>3, <3>4
    <3> QED BY <2>1, <3>5
  <2> QED BY <2>2, <2>3
<1>2. Cardinality(S) \in Nat /\ UpTo(S, Cardinality(S)) = SUBSET S
  BY <1>0, FS_Subset DEF UpTo
<1>3. PICK f : Part(f, Cardinality(S))
  BY <1>1, <1>2
<1> QED BY <1>2, <1>3 DEF Adds

\* ... and whichever member is taken away first, the sum is the same.
LEMMA AddsAny ==
  ASSUME NEW S, IsFiniteSet(S), NEW w \in [S -> Int], NEW f, Adds(f, S, w)
  PROVE  /\ f[{}] = 0
         /\ \A s \in SUBSET S : f[s] \in Int
         /\ \A s \in SUBSET S : \A x \in s : f[s] = w[x] + f[s \ {x}]
<1>1. f[{}] = 0
  BY DEF Adds
<1>2. \A s \in SUBSET S : s # {} =>
        /\ Pick(s) \in s /\ w[Pick(s)] \in Int
        /\ f[s] = w[Pick(s)] + f[s \ {Pick(s)}]
  BY Picked DEF Adds
<1>3. \A s \in SUBSET S : f[s] \in Int
  <2> DEFINE Bad == {s \in SUBSET S : f[s] \notin Int}
  <2> SUFFICES ASSUME Bad # {} PROVE FALSE
    OBVIOUS
  <2>1. PICK s \in Bad : \A x \in s : s \ {x} \notin Bad
    <3>0. Bad \in SUBSET SUBSET S
      OBVIOUS
    <3> HIDE DEF Bad
    <3>1. PICK s \in Bad : \A t \in SUBSET s : t # s => t \notin Bad
      BY <3>0, SmallestOf
    <3> QED BY <3>1
  <2>2. s \in SUBSET S /\ ~(f[s] \in Int)
    BY <2>1
  <2>3. s # {}
    <3>1. 0 \in Int
      OBVIOUS
    <3> QED BY <1>1, <2>2, <3>1, Zenon
  <2>4. PICK c \in s : c = Pick(s) /\ w[c] \in Int /\ f[s] = w[c] + f[s \ {c}]
    BY <1>2, <2>2, <2>3
  <2>5. f[s \ {c}] \in Int
    <3>1. s \ {c} \in SUBSET S /\ s \ {c} \notin Bad
      BY <2>1, <2>2
    <3> QED BY <3>1
  <2>6. w[c] + f[s \ {c}] \in Int
    BY <2>4, <2>5
  <2> QED BY <2>2, <2>4, <2>6, Zenon
<1>4. \A s \in SUBSET S : \A x \in s : f[s] = w[x] + f[s \ {x}]
  <2> DEFINE Bad == {s \in SUBSET S : \E x \in s : f[s] # w[x] + f[s \ {x}]}
  <2> SUFFICES ASSUME Bad # {} PROVE FALSE
    OBVIOUS
  <2>1. PICK s \in Bad : \A x \in s : s \ {x} \notin Bad
    <3>0. Bad \in SUBSET SUBSET S
      OBVIOUS
    <3> HIDE DEF Bad
    <3>1. PICK s \in Bad : \A t \in SUBSET s : t # s => t \notin Bad
      BY <3>0, SmallestOf
    <3> QED BY <3>1
  <2>2. PICK x \in s : f[s] # w[x] + f[s \ {x}]
    BY <2>1
  <2>3. s \in SUBSET S /\ s # {}
    BY <2>2
  <2>4. PICK c \in s : c = Pick(s) /\ f[s] = w[c] + f[s \ {c}]
    BY <1>2, <2>3
  <2>5. c # x
    BY <2>2, <2>4
  <2>6. f[s \ {c}] = w[x] + f[(s \ {c}) \ {x}]
    <3>1. s \ {c} \in SUBSET S /\ s \ {c} \notin Bad /\ x \in s \ {c}
      BY <2>1, <2>2, <2>3, <2>5
    <3> QED BY <3>1
  <2>7. f[s \ {x}] = w[c] + f[(s \ {x}) \ {c}]
    <3>1. s \ {x} \in SUBSET S /\ s \ {x} \notin Bad /\ c \in s \ {x}
      BY <2>1, <2>2, <2>3, <2>5
    <3> QED BY <3>1
  <2>8. (s \ {c}) \ {x} = (s \ {x}) \ {c}
    OBVIOUS
  <2>9. w[x] \in Int /\ w[c] \in Int /\ f[(s \ {x}) \ {c}] \in Int
    BY <1>3, <2>3
  <2> DEFINE t == f[(s \ {x}) \ {c}]
  <2>10. w[c] + (w[x] + t) = w[x] + (w[c] + t)
    BY <2>9
  <2>11. f[s] = w[c] + (w[x] + t)
    BY <2>4, <2>6, <2>8
  <2> QED BY <2>2, <2>7, <2>10, <2>11
<1> QED BY <1>1, <1>3, <1>4

\* The members of R with the date and amount of l, on side z.
Like(R, d, a, s, l, z) == {k \in R : d[k] = d[l] /\ a[k] = a[l] /\ s[k] = z}

Paired(R, d, a, s) ==
  \A l \in R : Cardinality(Like(R, d, a, s, l, "S")) = Cardinality(Like(R, d, a, s, l, "H"))

\* Without two that balance each other, the rest still pairs.

\* Two that add up the same numbers agree.
LEMMA AddsSame ==
  ASSUME NEW S, IsFiniteSet(S), NEW T \in SUBSET S, NEW w, NEW v, NEW f, NEW h,
         Adds(f, S, w), Adds(h, T, v), \A x \in T : v[x] = w[x]
  PROVE  \A s \in SUBSET T : f[s] = h[s]
<1> DEFINE Bad == {s \in SUBSET T : f[s] # h[s]}
<1> SUFFICES ASSUME Bad # {} PROVE FALSE
  OBVIOUS
<1>1. PICK s \in Bad : \A x \in s : s \ {x} \notin Bad
  <2>0. Bad \in SUBSET SUBSET T /\ IsFiniteSet(T)
    BY FS_Subset
  <2> HIDE DEF Bad
  <2>1. PICK s \in Bad : \A t \in SUBSET s : t # s => t \notin Bad
    BY <2>0, SmallestOf
  <2> QED BY <2>1
<1>2. s \in SUBSET T /\ s \in SUBSET S /\ f[s] # h[s]
  BY <1>1
<1>3. s # {}
  BY <1>2 DEF Adds
<1>4. Pick(s) \in s /\ v[Pick(s)] = w[Pick(s)]
  BY <1>2, <1>3, Picked
<1>5. f[s \ {Pick(s)}] = h[s \ {Pick(s)}]
  <2>1. s \ {Pick(s)} \in SUBSET T /\ s \ {Pick(s)} \notin Bad
    BY <1>1, <1>2, <1>4
  <2> QED BY <2>1
<1>6. f[s] = w[Pick(s)] + f[s \ {Pick(s)}]
  BY <1>2, <1>3 DEF Adds
<1>7. h[s] = v[Pick(s)] + h[s \ {Pick(s)}]
  BY <1>2, <1>3 DEF Adds
<1> QED BY <1>2, <1>4, <1>5, <1>6, <1>7

\* SumFunction is such a sum.
LEMMA SumAdds ==
  ASSUME NEW w, IsFiniteSet(DOMAIN w)
  PROVE  \E g : Adds(g, DOMAIN w, w) /\ SumFunction(w) = g[DOMAIN w]
<1> DEFINE S == DOMAIN w
           g == CHOOSE f : f = [s \in SUBSET S |-> IF s = {} THEN 0
                  ELSE LET x == CHOOSE x \in s : TRUE IN w[x] + f[s \ {x}]]
<1>2. \E f : Adds(f, S, w)
  BY AddsExists
<1>3. Adds(g, S, w)
  <2>1. PICK f : Adds(f, S, w)
    BY <1>2
  <2>2. f = [s \in SUBSET S |-> IF s = {} THEN 0
               ELSE LET x == CHOOSE x \in s : TRUE IN w[x] + f[s \ {x}]]
    BY <2>1 DEF Adds, Pick
  <2>3. g = [s \in SUBSET S |-> IF s = {} THEN 0
               ELSE LET x == CHOOSE x \in s : TRUE IN w[x] + g[s \ {x}]]
    BY <2>2
  <2> HIDE DEF g
  <2> QED BY <2>3 DEF Adds, Pick
<1>4. SumFunction(w) = g[S]
  BY Zenon DEF SumFunction, SumFunctionOnSet, FoldFunctionOnSet, MapThenFoldSet
<1> QED BY <1>3, <1>4

\* The sum over a part of what w gives numbers to.
Total(S, w) == SumFunction([x \in S |-> w[x]])

LEMMA Sums ==
  ASSUME NEW S, IsFiniteSet(S), NEW w \in [S -> Int]
  PROVE  /\ SumFunction(w) = Total(S, w)
         /\ Total({}, w) = 0
         /\ \A s \in SUBSET S : Total(s, w) \in Int
         /\ \A s \in SUBSET S : \A x \in s : Total(s, w) = w[x] + Total(s \ {x}, w)
<1>1. PICK g : Adds(g, S, w)
  BY AddsExists
<1>2. ASSUME NEW s \in SUBSET S
      PROVE  Total(s, w) = g[s]
  <2> DEFINE v == [x \in s |-> w[x]]
  <2>1. DOMAIN v = s /\ IsFiniteSet(s) /\ \A x \in s : v[x] = w[x]
    BY FS_Subset
  <2> HIDE DEF v
  <2>2. PICK h : Adds(h, s, v) /\ SumFunction(v) = h[s]
    BY <2>1, SumAdds
  <2>3. g[s] = h[s]
    BY <1>1, <2>1, <2>2, AddsSame
  <2>4. Total(s, w) = SumFunction(v)
    BY DEF Total, v
  <2> QED BY <2>2, <2>3, <2>4
<1>3. /\ g[{}] = 0
      /\ \A s \in SUBSET S : g[s] \in Int
      /\ \A s \in SUBSET S : \A x \in s : g[s] = w[x] + g[s \ {x}]
  BY <1>1, AddsAny
<1>4. w = [x \in S |-> w[x]]
  OBVIOUS
<1>5. SumFunction(w) = Total(S, w)
  BY <1>4, Zenon DEF Total
<1>6. \A s \in SUBSET S : \A x \in s : s \ {x} \in SUBSET S
  OBVIOUS
<1>7. Total({}, w) = 0
  BY <1>2, <1>3
<1>8. \A s \in SUBSET S : Total(s, w) \in Int
  BY <1>2, <1>3
<1>9. \A s \in SUBSET S : \A x \in s : Total(s, w) = w[x] + Total(s \ {x}, w)
  BY <1>2, <1>3, <1>6
<1> QED BY <1>5, <1>7, <1>8, <1>9

\* Among sets of which the empty one is not there is one that is no longer
\* among them without one of its members: a sum is proved one by one.
LEMMA OneLess ==
  ASSUME NEW S, IsFiniteSet(S), NEW B \in SUBSET SUBSET S, B # {}, {} \notin B
  PROVE  \E s \in B : \E x \in s :
           s \in SUBSET S /\ x \in S /\ s \ {x} \in SUBSET S /\ s \ {x} \notin B
<1>1. PICK s \in B : \A t \in SUBSET s : t # s => t \notin B
  BY SmallestOf
<1>2. PICK x \in s : TRUE
  BY <1>1
<1>3. s \in SUBSET S /\ x \in S /\ s \ {x} \in SUBSET S /\ s \ {x} \notin B
  BY <1>1, <1>2
<1> QED BY <1>1, <1>2, <1>3

\* Greater numbers make a greater sum.
LEMMA SumLess ==
  ASSUME NEW S, IsFiniteSet(S), NEW u \in [S -> Int], NEW w \in [S -> Int],
         \A x \in S : u[x] <= w[x]
  PROVE  Total(S, u) <= Total(S, w)
<1> DEFINE B == {s \in SUBSET S : ~(Total(s, u) <= Total(s, w))}
<1> SUFFICES ASSUME B # {} PROVE FALSE
  <2>1. S \in SUBSET S /\ S \notin B => Total(S, u) <= Total(S, w)
    OBVIOUS
  <2> QED BY <2>1
<1>1. {} \notin B
  BY Sums
<1>2. B \in SUBSET SUBSET S
  OBVIOUS
<1>3. PICK s \in B : \E x \in s :
        s \in SUBSET S /\ x \in S /\ s \ {x} \in SUBSET S /\ s \ {x} \notin B
  <2> HIDE DEF B
  <2> QED BY <1>1, <1>2, OneLess
<1>x. PICK x \in s : s \in SUBSET S /\ x \in S /\ s \ {x} \in SUBSET S /\ s \ {x} \notin B
  BY <1>3
<1>4. Total(s \ {x}, u) <= Total(s \ {x}, w) /\ ~(Total(s, u) <= Total(s, w))
  BY <1>x
<1>5. /\ Total(s, u) = u[x] + Total(s \ {x}, u) /\ Total(s \ {x}, u) \in Int
      /\ Total(s, w) = w[x] + Total(s \ {x}, w) /\ Total(s \ {x}, w) \in Int
  <2>1. Total(s, u) = u[x] + Total(s \ {x}, u) /\ Total(s \ {x}, u) \in Int
    BY <1>x, Sums
  <2>2. Total(s, w) = w[x] + Total(s \ {x}, w) /\ Total(s \ {x}, w) \in Int
    BY <1>x, Sums
  <2> QED BY <2>1, <2>2
<1>6. u[x] <= w[x] /\ u[x] \in Int /\ w[x] \in Int
  BY <1>x
<1> HIDE DEF B
<1> QED BY <1>4, <1>5, <1>6

\* The sum of sums.
LEMMA SumPlus ==
  ASSUME NEW S, IsFiniteSet(S), NEW u \in [S -> Int], NEW v \in [S -> Int],
         NEW w \in [S -> Int], \A x \in S : w[x] = u[x] + v[x]
  PROVE  Total(S, w) = Total(S, u) + Total(S, v)
<1> DEFINE B == {s \in SUBSET S : Total(s, w) # Total(s, u) + Total(s, v)}
<1> SUFFICES ASSUME B # {} PROVE FALSE
  <2>1. S \in SUBSET S /\ S \notin B => Total(S, w) = Total(S, u) + Total(S, v)
    OBVIOUS
  <2> QED BY <2>1
<1>1. {} \notin B
  BY Sums
<1>2. B \in SUBSET SUBSET S
  OBVIOUS
<1>3. PICK s \in B : \E x \in s :
        s \in SUBSET S /\ x \in S /\ s \ {x} \in SUBSET S /\ s \ {x} \notin B
  <2> HIDE DEF B
  <2> QED BY <1>1, <1>2, OneLess
<1>x. PICK x \in s : s \in SUBSET S /\ x \in S /\ s \ {x} \in SUBSET S /\ s \ {x} \notin B
  BY <1>3
<1>4. /\ Total(s \ {x}, w) = Total(s \ {x}, u) + Total(s \ {x}, v)
      /\ Total(s, w) # Total(s, u) + Total(s, v)
  BY <1>x
<1>5. /\ Total(s, u) = u[x] + Total(s \ {x}, u) /\ Total(s \ {x}, u) \in Int
      /\ Total(s, v) = v[x] + Total(s \ {x}, v) /\ Total(s \ {x}, v) \in Int
      /\ Total(s, w) = w[x] + Total(s \ {x}, w)
  <2>1. Total(s, u) = u[x] + Total(s \ {x}, u) /\ Total(s \ {x}, u) \in Int
    BY <1>x, Sums
  <2>2. Total(s, v) = v[x] + Total(s \ {x}, v) /\ Total(s \ {x}, v) \in Int
    BY <1>x, Sums
  <2>3. Total(s, w) = w[x] + Total(s \ {x}, w)
    BY <1>x, Sums
  <2> QED BY <2>1, <2>2, <2>3
<1>6. w[x] = u[x] + v[x] /\ u[x] \in Int /\ v[x] \in Int
  BY <1>x
<1> HIDE DEF B
<1> QED BY <1>4, <1>5, <1>6

\* Zeros do not count.
LEMMA SumWithin ==
  ASSUME NEW S, IsFiniteSet(S), NEW w \in [S -> Int], NEW T \in SUBSET S,
         \A x \in S \ T : w[x] = 0
  PROVE  Total(S, w) = Total(T, w)
<1> DEFINE B == {s \in SUBSET S : Total(s, w) # Total(s \cap T, w)}
<1> SUFFICES ASSUME B # {} PROVE FALSE
  <2>1. S \in SUBSET S /\ S \cap T = T
    OBVIOUS
  <2>2. S \notin B
    OBVIOUS
  <2> QED BY <2>1, <2>2
<1>1. {} \notin B
  <2>1. {} \cap T = {}
    OBVIOUS
  <2> QED BY <2>1
<1>2. B \in SUBSET SUBSET S
  OBVIOUS
<1>3. PICK s \in B : \E x \in s :
        s \in SUBSET S /\ x \in S /\ s \ {x} \in SUBSET S /\ s \ {x} \notin B
  <2> HIDE DEF B
  <2> QED BY <1>1, <1>2, OneLess
<1>x. PICK x \in s : s \in SUBSET S /\ x \in S /\ s \ {x} \in SUBSET S /\ s \ {x} \notin B
  BY <1>3
<1>4. Total(s \ {x}, w) = Total((s \ {x}) \cap T, w) /\ Total(s, w) # Total(s \cap T, w)
  BY <1>x
<1>5. Total(s, w) = w[x] + Total(s \ {x}, w) /\ Total(s \ {x}, w) \in Int /\ w[x] \in Int
  BY <1>x, Sums
<1>6. CASE x \in T
  <2>1. (s \ {x}) \cap T = (s \cap T) \ {x} /\ x \in s \cap T /\ s \cap T \in SUBSET S
    BY <1>x, <1>6
  <2> DEFINE t == s \cap T
  <2>2. \A r \in SUBSET S : \A y \in r : Total(r, w) = w[y] + Total(r \ {y}, w)
    BY Sums
  <2>3. x \in t /\ t \in SUBSET S
    BY <2>1
  <2> HIDE DEF t
  <2>4. Total(t, w) = w[x] + Total(t \ {x}, w)
    BY <2>2, <2>3
  <2>5. Total(s \ {x}, w) = Total(t \ {x}, w) /\ Total(s, w) # Total(t, w)
    BY <1>4, <2>1 DEF t
  <2> QED BY <1>5, <2>4, <2>5
<1>7. CASE x \notin T
  <2>1. (s \ {x}) \cap T = s \cap T
    BY <1>7
  <2>2. w[x] = 0
    BY <1>x, <1>7
  <2>3. Total(s \ {x}, w) = Total(s \cap T, w)
    BY <1>4, <2>1
  <2> HIDE DEF B
  <2> QED BY <1>4, <1>5, <2>2, <2>3
<1> QED BY <1>6, <1>7

\* The sum of one number.
LEMMA SumOne ==
  ASSUME NEW S, IsFiniteSet(S), NEW w \in [S -> Int], NEW x \in S,
         \A y \in S \ {x} : w[y] = 0
  PROVE  Total(S, w) = w[x]
<1>1. Total(S, w) = Total({x}, w)
  BY SumWithin, {x} \in SUBSET S
<1>2. Total({x}, w) = w[x] + Total({x} \ {x}, w) /\ {x} \ {x} = {} /\ w[x] \in Int
  BY Sums, {x} \in SUBSET S
<1> QED BY <1>1, <1>2, Sums

\* What is given to the members of N adds up to what is given.
LEMMA SumSpread ==
  ASSUME NEW S, IsFiniteSet(S), NEW N, IsFiniteSet(N), NEW a \in [S -> Int],
         NEW k \in [S -> N]
  PROVE  Total(N, [n \in N |-> Total(S, [x \in S |-> IF k[x] = n THEN a[x] ELSE 0])]) = Total(S, a)
<1> DEFINE g(n) == [x \in S |-> IF k[x] = n THEN a[x] ELSE 0]
           all(s) == [n \in N |-> Total(s, g(n))]
           B == {s \in SUBSET S : Total(N, all(s)) # Total(s, a)}
<1>0. \A n \in N : g(n) \in [S -> Int]
  OBVIOUS
<1>1. \A s \in SUBSET S : all(s) \in [N -> Int]
  <2> HIDE DEF g
  <2>1. \A n \in N, s \in SUBSET S : Total(s, g(n)) \in Int
    BY <1>0, Sums
  <2> QED BY <2>1
<1> SUFFICES ASSUME B # {} PROVE FALSE
  <2>1. S \in SUBSET S
    OBVIOUS
  <2>2. S \notin B
    OBVIOUS
  <2>3. Total(N, all(S)) = Total(S, a)
    BY <2>1, <2>2
  <2> QED BY <2>3
<1>2. {} \notin B
  <2>1. all({}) = [n \in N |-> 0]
    <3> HIDE DEF g
    <3>1. \A n \in N : Total({}, g(n)) = 0
      BY <1>0, Sums
    <3> QED BY <3>1
  <2>2. Total(N, [n \in N |-> 0]) = Total({}, [n \in N |-> 0])
    BY SumWithin, {} \in SUBSET N
  <2>3. Total({}, [n \in N |-> 0]) = 0 /\ Total({}, a) = 0
    BY Sums
  <2> QED BY <2>1, <2>2, <2>3
<1>3. B \in SUBSET SUBSET S
  OBVIOUS
<1>4. PICK s \in B : \E x \in s :
        s \in SUBSET S /\ x \in S /\ s \ {x} \in SUBSET S /\ s \ {x} \notin B
  <2> HIDE DEF B
  <2> QED BY <1>2, <1>3, OneLess
<1>x. PICK x \in s : s \in SUBSET S /\ x \in S /\ s \ {x} \in SUBSET S /\ s \ {x} \notin B
  BY <1>4
<1> DEFINE one == [n \in N |-> IF k[x] = n THEN a[x] ELSE 0]
<1>5. Total(N, all(s \ {x})) = Total(s \ {x}, a) /\ Total(N, all(s)) # Total(s, a)
  BY <1>x
<1>6. Total(s, a) = a[x] + Total(s \ {x}, a) /\ Total(s \ {x}, a) \in Int /\ a[x] \in Int
  BY <1>x, Sums
<1>7. one \in [N -> Int]
  BY <1>x
<1>8. \A n \in N : all(s)[n] = one[n] + all(s \ {x})[n]
  <2> SUFFICES ASSUME NEW n \in N PROVE Total(s, g(n)) = one[n] + Total(s \ {x}, g(n))
    OBVIOUS
  <2>1. g(n)[x] = one[n]
    BY <1>x
  <2>2. g(n) \in [S -> Int]
    BY <1>0
  <2> HIDE DEF g, one
  <2> QED BY <1>x, <2>1, <2>2, Sums
<1>9. Total(N, one) = a[x]
  <2>1. k[x] \in N /\ one[k[x]] = a[x] /\ \A n \in N \ {k[x]} : one[n] = 0
    BY <1>x
  <2> HIDE DEF one
  <2> QED BY <1>7, <2>1, SumOne
<1>10. Total(N, all(s)) = Total(N, one) + Total(N, all(s \ {x}))
  <2>1. all(s) \in [N -> Int] /\ all(s \ {x}) \in [N -> Int]
    BY <1>1, <1>x
  <2> HIDE DEF all, one
  <2> QED BY <1>7, <1>8, <2>1, SumPlus
<1> HIDE DEF B, all, one
<1> QED BY <1>5, <1>6, <1>9, <1>10

----------------------------------------------------------------------------
(* What an upload stores.                                                  *)

\* g[i] is what is known after i of the n rows that are read.
Stores(g, read, batch, n) ==
  g = [i \in 0..n |-> IF i = 0 THEN txs ELSE Stored(g[i - 1], read[i], batch)]

LEMMA StoresExist ==
  ASSUME NEW read, NEW batch, NEW n \in Nat
  PROVE  \E g : Stores(g, read, batch, n)
<1> DEFINE Bad == {k \in Nat : ~\E g : Stores(g, read, batch, k)}
<1> SUFFICES ASSUME Bad # {} PROVE FALSE
  OBVIOUS
<1>1. PICK k \in Bad : \A j \in Bad : k <= j
  BY LeastOf
<1>2. k \in Nat /\ ~\E g : Stores(g, read, batch, k)
  BY <1>1
<1>3. CASE k = 0
  <2>1. Stores([i \in 0..0 |-> txs], read, batch, 0)
    BY DEF Stores
  <2> QED BY <1>2, <1>3, <2>1
<1>4. CASE k # 0
  <2>1. k - 1 \in Nat /\ ~(k <= k - 1)
    BY <1>2, <1>4
  <2>2. k - 1 \notin Bad
    <3> HIDE DEF Bad
    <3> QED BY <1>1, <2>1
  <2>3. PICK g : Stores(g, read, batch, k - 1)
    BY <2>1, <2>2
  <2> DEFINE h == [i \in 0..k |-> IF i = 0 THEN txs ELSE Stored(g[i - 1], read[i], batch)]
  <2>4. \A i \in 0..k - 1 : h[i] = g[i]
    BY <1>2, <2>3 DEF Stores
  <2>5. \A i \in 0..k : i # 0 => h[i - 1] = g[i - 1]
    <3> HIDE DEF h
    <3> QED BY <1>2, <2>4
  <2>6. h = [i \in 0..k |-> IF i = 0 THEN txs ELSE Stored(h[i - 1], read[i], batch)]
    BY <2>5, Zenon
  <2>7. Stores(h, read, batch, k)
    BY <2>6, Zenon DEF Stores
  <2> QED BY <1>2, <2>7
<1> QED BY <1>3, <1>4

LEMMA StoreIsLast ==
  ASSUME NEW read, NEW batch, Len(read) \in Nat
  PROVE  \E g : Stores(g, read, batch, Len(read)) /\ StoreTransactions(read, batch) = g[Len(read)]
<1> DEFINE g == CHOOSE f : f = [i \in 0..Len(read) |-> IF i = 0 THEN txs ELSE Stored(f[i - 1], read[i], batch)]
<1>1. PICK f : Stores(f, read, batch, Len(read))
  BY StoresExist
<1>2. g = [i \in 0..Len(read) |-> IF i = 0 THEN txs ELSE Stored(g[i - 1], read[i], batch)]
  BY <1>1 DEF Stores
<1>3. StoreTransactions(read, batch) = g[Len(read)]
  BY Zenon DEF StoreTransactions
<1> HIDE DEF g
<1> QED BY <1>2, <1>3 DEF Stores

\* What was stored stays, and each fingerprint that is new gets one row of
\* those that have it.
New(f, read, batch, n, t) ==
  \E j \in 1..n : read[j].fingerprint = f /\ t[f] = Created(read[j], batch, ImportVerdict(read[j]))

StoredFrom(t, read, batch, n) ==
  /\ DOMAIN t = DOMAIN txs \cup {read[j].fingerprint : j \in 1..n}
  /\ \A f \in DOMAIN txs : t[f] = txs[f]
  /\ \A f \in DOMAIN t \ DOMAIN txs : New(f, read, batch, n, t)

LEMMA StoredNext ==
  ASSUME NEW read, NEW batch, NEW n \in Nat \ {0}, NEW t, StoredFrom(t, read, batch, n - 1)
  PROVE  StoredFrom(Stored(t, read[n], batch), read, batch, n)
<1> DEFINE u == Stored(t, read[n], batch)
           p == read[n].fingerprint
           c == Created(read[n], batch, ImportVerdict(read[n]))
<1>1. 1..n = (1..n - 1) \cup {n} /\ n \in 1..n /\ 1..n - 1 \subseteq 1..n
  OBVIOUS
<1>2. CASE p \in DOMAIN t
  <2>1. u = t
    BY <1>2 DEF Stored
  <2>2. DOMAIN t = DOMAIN txs \cup {read[j].fingerprint : j \in 1..n}
    BY <1>1, <1>2 DEF StoredFrom
  <2>3. \A f \in DOMAIN t \ DOMAIN txs : New(f, read, batch, n, t)
    BY <1>1 DEF StoredFrom, New
  <2> QED BY <2>1, <2>2, <2>3 DEF StoredFrom
<1>3. CASE p \notin DOMAIN t
  <2>1. u = [f \in DOMAIN t \cup {p} |-> IF f \in DOMAIN t THEN t[f] ELSE c]
    BY <1>3 DEF Stored
  <2> HIDE DEF u, c
  <2>2. DOMAIN u = DOMAIN t \cup {p} /\ u[p] = c /\ \A f \in DOMAIN t : u[f] = t[f]
    BY <1>3, <2>1
  <2>3. DOMAIN u = DOMAIN txs \cup {read[j].fingerprint : j \in 1..n}
    BY <1>1, <2>2 DEF StoredFrom
  <2>4. \A f \in DOMAIN txs : u[f] = txs[f]
    BY <2>2 DEF StoredFrom
  <2>5. ASSUME NEW f \in DOMAIN u \ DOMAIN txs
        PROVE  New(f, read, batch, n, u)
    <3>1. CASE f = p
      BY <1>1, <2>2, <3>1 DEF New, c
    <3>2. CASE f # p
      <4>1. f \in DOMAIN t \ DOMAIN txs /\ u[f] = t[f]
        BY <2>2, <2>5, <3>2
      <4>2. PICK j \in 1..n - 1 : read[j].fingerprint = f
                                  /\ t[f] = Created(read[j], batch, ImportVerdict(read[j]))
        BY <4>1 DEF StoredFrom, New
      <4> QED BY <1>1, <4>1, <4>2 DEF New
    <3> QED BY <3>1, <3>2
  <2> QED BY <2>3, <2>4, <2>5 DEF StoredFrom, u
<1> QED BY <1>2, <1>3

LEMMA StoredAll ==
  ASSUME NEW read, NEW batch, Len(read) \in Nat
  PROVE  StoredFrom(StoreTransactions(read, batch), read, batch, Len(read))
<1>1. PICK g : Stores(g, read, batch, Len(read)) /\ StoreTransactions(read, batch) = g[Len(read)]
  BY StoreIsLast
<1> DEFINE Bad == {k \in 0..Len(read) : ~StoredFrom(g[k], read, batch, k)}
<1> SUFFICES ASSUME Bad # {} PROVE FALSE
  <2>1. Len(read) \in 0..Len(read) /\ Len(read) \notin Bad
    OBVIOUS
  <2> QED BY <1>1, <2>1
<1>2. PICK k \in Bad : \A j \in Bad : k <= j
  <2>1. Bad \in SUBSET Nat
    OBVIOUS
  <2> HIDE DEF Bad
  <2> QED BY <2>1, LeastOf
<1>3. k \in 0..Len(read) /\ ~StoredFrom(g[k], read, batch, k)
  BY <1>2
<1>4. CASE k = 0
  <2>1. g[0] = txs
    BY <1>1 DEF Stores
  <2>2. 1..0 = {}
    OBVIOUS
  <2>3. StoredFrom(txs, read, batch, 0)
    BY <2>2 DEF StoredFrom
  <2> QED BY <1>3, <1>4, <2>1, <2>3
<1>5. CASE k # 0
  <2>1. k \in Nat \ {0} /\ k - 1 \in 0..Len(read) /\ ~(k <= k - 1)
    BY <1>3, <1>5
  <2>2. k - 1 \notin Bad
    <3> HIDE DEF Bad
    <3> QED BY <1>2, <2>1
  <2>3. StoredFrom(g[k - 1], read, batch, k - 1)
    BY <2>1, <2>2
  <2>4. g[k] = Stored(g[k - 1], read[k], batch)
    BY <1>1, <1>3, <1>5, <2>1 DEF Stores
  <2>5. StoredFrom(g[k], read, batch, k)
    BY <2>1, <2>3, <2>4, StoredNext
  <2> QED BY <1>3, <2>5
<1> QED BY <1>4, <1>5

----------------------------------------------------------------------------
(* The transactions stay well formed, whatever the rules and the policy.   *)

IsBooking(b) ==
  /\ b = [konto |-> b.konto, gegenkonto |-> b.gegenkonto, side |-> b.side]
  /\ b.konto # Null => b.side \in {"S", "H"}

IsVerdict(v) ==
  /\ v = [status |-> v.status, booking |-> v.booking, system |-> v.system, ruleIds |-> v.ruleIds]
  /\ IsBooking(v.booking)

IsTx(tx) ==
  /\ tx = [row |-> tx.row, batch |-> tx.batch, by |-> tx.by, status |-> tx.status,
           booking |-> tx.booking, ruleIds |-> tx.ruleIds, system |-> tx.system]
  /\ tx.row \in AllRows
  /\ IsBooking(tx.booking)

BooksOK ==
  /\ config \in DOMAIN Configs
  /\ IsFiniteSet(DOMAIN txs)
  /\ \A f \in DOMAIN txs : IsTx(txs[f])

LEMMA UnmatchedIsVerdict == ASSUME NEW s PROVE IsVerdict(Unmatched(s))
BY DEF IsVerdict, IsBooking, Unmatched, NoBooking

LEMMA RowSide == ASSUME NEW row PROVE SideOf(row) \in {"S", "H"}
BY DEF SideOf

LEMMA HumanIsVerdict ==
  ASSUME NEW row, NEW rules, NEW policy, NEW day
  PROVE  IsVerdict(ApplyHumanRules(row, rules, policy, day))
<1>1. ASSUME NEW ids, NEW v, v = [Unmatched("conflict") EXCEPT !.ruleIds = ids] PROVE IsVerdict(v)
  <2>1. v = [status |-> v.status, booking |-> v.booking, system |-> v.system, ruleIds |-> v.ruleIds]
    BY <1>1 DEF Unmatched
  <2>2. v.booking = NoBooking
    BY <1>1 DEF Unmatched
  <2> QED BY <2>1, <2>2 DEF IsVerdict, IsBooking, NoBooking
<1>2. ASSUME NEW konto, NEW contra, NEW ids
      PROVE  IsVerdict([status |-> "matched", ruleIds |-> ids, system |-> FALSE,
                        booking |-> [konto |-> konto, gegenkonto |-> contra, side |-> SideOf(row)]])
  BY RowSide DEF IsVerdict, IsBooking
<1>3. ASSUME NEW r PROVE IsVerdict(OneRule(row, r, policy))
  BY <1>2, UnmatchedIsVerdict DEF OneRule
<1> QED BY <1>1, <1>3, UnmatchedIsVerdict DEF ApplyHumanRules

LEMMA AdjustedIsVerdict ==
  ASSUME NEW v, IsVerdict(v), NEW source, NEW policy
  PROVE  IsVerdict(AdjustInventory(v, source, policy))
BY DEF IsVerdict, IsBooking, AdjustInventory

LEMMA SystemIsVerdict ==
  ASSUME NEW row PROVE IsVerdict(SystemVerdict(row))
BY RowSide DEF IsVerdict, IsBooking, SystemVerdict, ClearingBooking

\* What is found in a row, as the commands look it up.
LEMMA FoundIs ==
  ASSUME NEW c \in DOMAIN Configs, NEW r \in AllRows
  PROVE  /\ Found[c][r].transfer = IsBankPaypalTransfer(r, Configs[c].policy)
         /\ Found[c][r].parked = (IsMarketplacePayout(r, Configs[c].policy) \/ NeedsHuman(r, Configs[c].policy))
         /\ Found[c][r].dry = DryRun(r, Configs[c].rules)
         /\ \A day \in {Today, r.day} : Found[c][r].rules[day] =
              ApplyHumanRules(r, Configs[c].rules, Configs[c].policy, day)
<1>1. Found[c][r] = FindIn(r, Configs[c].rules, Configs[c].policy)
  BY FoundAssumption DEF FindAll
<1> QED BY <1>1 DEF FindIn

LEMMA PipelinesGiveVerdicts ==
  ASSUME config \in DOMAIN Configs, NEW row \in AllRows
  PROVE  /\ IsVerdict(ImportVerdict(row))
         /\ IsVerdict(Reprocessed(row, Found[config][row]))
         /\ \A tx : \/ Reapplied(tx, row, Found[config][row]) = tx
                    \/ IsVerdict(Reapplied(tx, row, Found[config][row]))
<1> DEFINE found == Found[config][row]
<1>1. \A day \in {Today, row.day} :
        IsVerdict(AdjustInventory(found.rules[day], row.source, Policy))
  BY FoundIs, HumanIsVerdict, AdjustedIsVerdict
<1> HIDE DEF found
<1>2. IsVerdict(Import(row, found))
  BY <1>1, UnmatchedIsVerdict, SystemIsVerdict DEF Import
<1>3. IsVerdict(Reprocessed(row, found))
  BY <1>1, UnmatchedIsVerdict, SystemIsVerdict DEF Reprocessed, ReprocessByRules
<1>4. ASSUME NEW tx
      PROVE  Reapplied(tx, row, found) = tx \/ IsVerdict(Reapplied(tx, row, found))
  BY <1>1, UnmatchedIsVerdict, SystemIsVerdict DEF Reapplied
<1> QED BY <1>2, <1>3, <1>4 DEF found, ImportVerdict

LEMMA CreatedIsTx ==
  ASSUME NEW row \in AllRows, NEW batch, NEW v, IsVerdict(v)
  PROVE  IsTx(Created(row, batch, v))
BY DEF IsTx, IsVerdict, Created

LEMMA DecidedIsTx ==
  ASSUME NEW tx, IsTx(tx), NEW v, v = tx \/ IsVerdict(v)
  PROVE  IsTx(Decided(tx, v)) /\ Decided(tx, v).row = tx.row
<1>1. CASE v = tx
  BY <1>1 DEF Decided
<1>2. CASE v # tx
  <2>1. Decided(tx, v) = [row |-> tx.row, batch |-> tx.batch, by |-> config, status |-> v.status,
                          booking |-> v.booking, ruleIds |-> v.ruleIds, system |-> v.system]
    BY <1>2 DEF IsTx, Decided
  <2> QED BY <1>2, <2>1 DEF IsTx, IsVerdict
<1> QED BY <1>1, <1>2

\* A command that decides transactions again keeps the rest of them.
LEMMA ReclassifiedOK ==
  ASSUME BooksOK, NEW selected, NEW v,
         txs' = [f \in DOMAIN txs |-> IF f \in selected THEN Decided(txs[f], v[f]) ELSE txs[f]],
         \A f \in DOMAIN txs \cap selected : v[f] = txs[f] \/ IsVerdict(v[f]),
         UNCHANGED config
  PROVE  BooksOK'
<1>1. \A f \in DOMAIN txs : IsTx(txs[f])
  BY DEF BooksOK
<1>2. \A f \in DOMAIN txs \cap selected : IsTx(Decided(txs[f], v[f]))
  BY <1>1, DecidedIsTx
<1>3. DOMAIN txs' = DOMAIN txs
  OBVIOUS
<1>4. \A f \in DOMAIN txs' : IsTx(txs'[f])
  BY <1>1, <1>2, <1>3
<1>5. \A f \in DOMAIN txs' : IsTx(txs[f])'
  BY <1>4 DEF IsTx, IsBooking
<1> QED BY <1>3, <1>5 DEF BooksOK

LEMMA UploadOK ==
  ASSUME BooksOK, NEW u \in CashFiles, UploadStatement(u)
  PROVE  BooksOK'
<1> DEFINE read == Parse[u][config].rows
           batch == Len(batches) + 1
<1>1. read \in Seq(AllRows) /\ config \in DOMAIN Configs
  BY RowsAssumption DEF BooksOK
<1>2. StoredFrom(txs', read, batch, Len(read))
  BY <1>1, StoredAll DEF UploadStatement
<1>3. ASSUME NEW f \in DOMAIN txs' PROVE IsTx(txs'[f])
  <2>1. CASE f \in DOMAIN txs
    BY <1>2, <2>1 DEF StoredFrom, BooksOK
  <2>2. CASE f \notin DOMAIN txs
    <3>1. PICK j \in 1..Len(read) : txs'[f] = Created(read[j], batch, ImportVerdict(read[j]))
      BY <1>2, <2>2 DEF StoredFrom, New
    <3>2. read[j] \in AllRows
      BY <1>1
    <3> QED BY <1>1, <3>1, <3>2, PipelinesGiveVerdicts, CreatedIsTx
  <2> QED BY <2>1, <2>2
<1>4. IsFiniteSet(DOMAIN txs')
  <2> DEFINE n == Len(read)
  <2>1. n \in Nat /\ StoredFrom(txs', read, batch, n)
    BY <1>1, <1>2
  <2> HIDE DEF read, n
  <2>2. IsFiniteSet({read[j].fingerprint : j \in 1..n})
    <3>1. IsFiniteSet(1..n)
      BY <2>1, FS_Interval
    <3> DEFINE T == {read[j].fingerprint : j \in 1..n}
               g == [j \in 1..n |-> read[j].fingerprint]
    <3>2. g \in Surjection(1..n, T)
      BY DEF Surjection
    <3> HIDE DEF g, T
    <3>3. IsFiniteSet(T)
      BY <3>1, <3>2, FS_Surjection DEF ExistsSurjection
    <3> QED BY <3>3 DEF T
  <2>3. DOMAIN txs' = DOMAIN txs \cup {read[j].fingerprint : j \in 1..n}
    BY <2>1 DEF StoredFrom
  <2> QED BY <2>2, <2>3, FS_Union DEF BooksOK
<1>5. \A f \in DOMAIN txs' : IsTx(txs[f])'
  BY <1>3 DEF IsTx, IsBooking
<1>6. config' = config
  BY DEF UploadStatement
<1> QED BY <1>1, <1>4, <1>5, <1>6 DEF BooksOK

LEMMA ReprocessOK ==
  ASSUME BooksOK, NEW b, Reprocess(b)
  PROVE  BooksOK'
<1> DEFINE v == [f \in DOMAIN txs |-> ReprocessVerdict(txs[f])]
           of == {f \in DOMAIN txs : /\ txs[f].batch = b
                                     /\ txs[f].status \notin {"exported", "skipped"}
                                     /\ txs[f].row.bookability # "skipped"}
           selected == {f \in of : ~txs[f].system}
<1>1. /\ txs' = [f \in DOMAIN txs |-> IF f \in selected
                                      THEN Decided(txs[f], ReprocessVerdict(txs[f])) ELSE txs[f]]
      /\ config' = config
  BY DEF Reprocess, Reclassify
<1>2. txs' = [f \in DOMAIN txs |-> IF f \in selected THEN Decided(txs[f], v[f]) ELSE txs[f]]
  BY <1>1
<1>3. \A f \in DOMAIN txs \cap selected : v[f] = txs[f] \/ IsVerdict(v[f])
  BY PipelinesGiveVerdicts DEF BooksOK, IsTx, ReprocessVerdict
<1> HIDE DEF v, selected
<1> QED BY <1>1, <1>2, <1>3, ReclassifiedOK

LEMMA ApplyOK ==
  ASSUME BooksOK, NEW ids, ApplyRules(ids)
  PROVE  BooksOK'
<1> DEFINE v == [f \in DOMAIN txs |-> ApplyVerdict(txs[f])]
           of == IF ids # {} THEN ids
                 ELSE {f \in DOMAIN txs :
                         txs[f].status \in {"open", "imported", "conflict", "matched", "suggested"}}
           selected == {f \in of : /\ txs[f].status \notin {"exported", "reviewed"}
                                   /\ txs[f].row.bookability # "skipped"
                                   /\ ~txs[f].system}
<1>1. /\ txs' = [f \in DOMAIN txs |-> IF f \in selected
                                      THEN Decided(txs[f], ApplyVerdict(txs[f])) ELSE txs[f]]
      /\ config' = config
  BY DEF ApplyRules, Reclassify
<1>2. txs' = [f \in DOMAIN txs |-> IF f \in selected THEN Decided(txs[f], v[f]) ELSE txs[f]]
  BY <1>1
<1>3. \A f \in DOMAIN txs \cap selected : v[f] = txs[f] \/ IsVerdict(v[f])
  BY PipelinesGiveVerdicts DEF BooksOK, IsTx, ApplyVerdict
<1> HIDE DEF v, selected
<1> QED BY <1>1, <1>2, <1>3, ReclassifiedOK

LEMMA MarkedIsTx ==
  ASSUME NEW tx, IsTx(tx), NEW s, NEW n, NEW w, w = [tx EXCEPT !.status = s, !.by = n]
  PROVE  /\ IsTx(w)
         /\ w.row = tx.row /\ w.booking = tx.booking /\ w.ruleIds = tx.ruleIds
         /\ w.status = s /\ w.by = n
<1>1. w = [row |-> w.row, batch |-> w.batch, by |-> w.by, status |-> w.status,
           booking |-> w.booking, ruleIds |-> w.ruleIds, system |-> w.system]
  BY DEF IsTx
<1>2. /\ w.row = tx.row /\ w.booking = tx.booking /\ w.ruleIds = tx.ruleIds
      /\ w.status = s /\ w.by = n
  BY DEF IsTx
<1> QED BY <1>1, <1>2 DEF IsTx

Rebooked(tx, b) == [tx EXCEPT !.status = "reviewed", !.by = Null, !.booking = b]

LEMMA RebookedIsTx ==
  ASSUME NEW tx, IsTx(tx), NEW b, IsBooking(b)
  PROVE  LET w == Rebooked(tx, b)
         IN  IsTx(w) /\ w.row = tx.row /\ w.booking = b /\ w.status = "reviewed" /\ w.by = Null
<1> DEFINE w == Rebooked(tx, b)
<1>0. w = [tx EXCEPT !.status = "reviewed", !.by = Null, !.booking = b]
  BY DEF Rebooked
<1> HIDE DEF w
<1>1. w = [row |-> w.row, batch |-> w.batch, by |-> w.by, status |-> w.status,
           booking |-> w.booking, ruleIds |-> w.ruleIds, system |-> w.system]
  BY <1>0 DEF IsTx
<1>2. w.row = tx.row /\ w.booking = b /\ w.status = "reviewed" /\ w.by = Null
  BY <1>0 DEF IsTx
<1> QED BY <1>1, <1>2 DEF IsTx, w

LEMMA AssignOK ==
  ASSUME BooksOK, NEW f \in DOMAIN txs, NEW pair, Assign(f, pair)
  PROVE  BooksOK'
<1> DEFINE b == [konto |-> pair[1], gegenkonto |-> pair[2], side |-> SideOf(txs[f].row)]
<1>1. txs' = [txs EXCEPT ![f] = Rebooked(txs[f], b)] /\ config' = config
  BY DEF Assign, Rebooked
<1>2. IsBooking(b)
  BY RowSide DEF IsBooking
<1> HIDE DEF b
<1>3. IsTx(Rebooked(txs[f], b))
  BY <1>2, RebookedIsTx DEF BooksOK
<1>4. DOMAIN txs' = DOMAIN txs /\ \A g \in DOMAIN txs : IsTx(txs'[g])
  BY <1>1, <1>3 DEF BooksOK
<1>5. \A g \in DOMAIN txs' : IsTx(txs[g])'
  BY <1>4 DEF IsTx, IsBooking
<1> QED BY <1>1, <1>4, <1>5 DEF BooksOK

LEMMA SetStatusOK ==
  ASSUME BooksOK, NEW f \in DOMAIN txs, NEW mark, SetStatus(f, mark)
  PROVE  BooksOK'
<1> DEFINE tx == [txs[f] EXCEPT !.status = mark, !.by = Null]
<1>1. txs' = [txs EXCEPT ![f] = tx] /\ config' = config
  BY DEF SetStatus
<1>2. IsTx(tx)
  BY MarkedIsTx DEF BooksOK
<1> HIDE DEF tx
<1>3. DOMAIN txs' = DOMAIN txs /\ \A g \in DOMAIN txs : IsTx(txs'[g])
  BY <1>1, <1>2 DEF BooksOK
<1>4. \A g \in DOMAIN txs' : IsTx(txs[g])'
  BY <1>3 DEF IsTx, IsBooking
<1> QED BY <1>1, <1>3, <1>4 DEF BooksOK

\* An export marks what it selects, and nothing else changes.
LEMMA Exported ==
  ASSUME BooksOK, NEW f \in DOMAIN txs
  PROVE  LET tx == [txs[f] EXCEPT !.status = "exported"]
         IN  /\ IsTx(tx) /\ tx.status = "exported"
             /\ tx.row = txs[f].row /\ tx.booking = txs[f].booking /\ tx.by = txs[f].by
<1>1. IsTx(txs[f])
  BY DEF BooksOK
<1>2. [txs[f] EXCEPT !.status = "exported"] =
        [row |-> txs[f].row, batch |-> txs[f].batch, by |-> txs[f].by, status |-> "exported",
         booking |-> txs[f].booking, ruleIds |-> txs[f].ruleIds, system |-> txs[f].system]
  BY <1>1 DEF IsTx
<1> QED BY <1>1, <1>2 DEF IsTx

LEMMA ExportOK ==
  ASSUME BooksOK, NEW p, CreateExport(p)
  PROVE  BooksOK'
<1>1. /\ txs' = [f \in DOMAIN txs |-> IF f \in Exportable(p)
                                      THEN [txs[f] EXCEPT !.status = "exported"] ELSE txs[f]]
      /\ config' = config
  BY DEF CreateExport
<1>2. DOMAIN txs' = DOMAIN txs /\ \A f \in DOMAIN txs : IsTx(txs'[f])
  BY <1>1, Exported DEF BooksOK
<1>3. \A f \in DOMAIN txs' : IsTx(txs[f])'
  BY <1>2 DEF IsTx, IsBooking
<1> QED BY <1>1, <1>2, <1>3 DEF BooksOK

LEMMA BooksInit == Init => BooksOK
<1> SUFFICES ASSUME Init PROVE BooksOK
  OBVIOUS
<1>1. txs = <<>> /\ config = InForce
  BY DEF Init, CashInit
<1>2. DOMAIN txs = {}
  BY <1>1
<1> QED BY <1>1, <1>2, CashAssumption, FS_EmptySet DEF BooksOK

LEMMA BooksNext == BooksOK /\ [Next]_vars => BooksOK'
<1> SUFFICES ASSUME BooksOK, [Next]_vars PROVE BooksOK'
  OBVIOUS
<1>1. CASE UNCHANGED <<txs, config>>
  BY <1>1 DEF BooksOK, IsTx, IsBooking
<1>2. CASE CashStep
  <2>1. ASSUME NEW f \in CashFiles, UploadStatement(f) PROVE BooksOK'
    BY <2>1, UploadOK
  <2>2. ASSUME NEW b \in DOMAIN batches, Reprocess(b) PROVE BooksOK'
    BY <2>2, ReprocessOK
  <2>3. ASSUME NEW ids \in {{}, DOMAIN txs}, ApplyRules(ids) PROVE BooksOK'
    BY <2>3, ApplyOK
  <2>4. ASSUME NEW c \in DOMAIN Configs, ChangeConfig(c) PROVE BooksOK'
    BY <2>4 DEF ChangeConfig, BooksOK, IsTx, IsBooking
  <2>5. ASSUME NEW f \in DOMAIN txs, NEW pair \in Assigned, Assign(f, pair) PROVE BooksOK'
    BY <2>5, AssignOK
  <2>6. ASSUME NEW f \in DOMAIN txs, NEW s \in Marks, SetStatus(f, s) PROVE BooksOK'
    BY <2>6, SetStatusOK
  <2>7. ASSUME NEW p \in Periods, CreateExport(p) PROVE BooksOK'
    BY <2>7, ExportOK
  <2> QED BY <1>2, <2>1, <2>2, <2>3, <2>4, <2>5, <2>6, <2>7 DEF CashStep
<1>3. CASE MarketStep /\ UNCHANGED cash
  BY <1>1, <1>3 DEF cash
<1>4. CASE UNCHANGED vars
  BY <1>1, <1>4 DEF vars
<1> QED BY <1>2, <1>3, <1>4 DEF Next

\* A transaction has a row that was read, a booking with a side or none at all,
\* and a policy is in force, whatever the commands and their order.
THEOREM WellFormed == Spec => []BooksOK
BY BooksInit, BooksNext, PTL DEF Spec

----------------------------------------------------------------------------
(* An export balances the summary of its period.                           *)

\* What begins on the last day, or before, is in the period.
LEMMA StartsWithin ==
  ASSUME NEW p \in Periods, NEW row \in AllRows, WithinStart(row, p)
  PROVE  Within(row, p)
<1>1. /\ row.day \in Int /\ row.time \in Nat
      /\ p.from \in Int /\ p.to \in Int
  BY RowsAssumption, CashAssumption
<1> DEFINE d == row.day
           t == row.time
           l == p.to
<1>2. d \in Int /\ t \in Nat /\ l \in Int /\ d * 1440 + t <= l * 1440
  BY <1>1 DEF WithinStart
<1> HIDE DEF d, t, l
<1>3. d <= l
  BY <1>2
<1> QED BY <1>1, <1>3 DEF d, l, WithinStart, Within

\* Amounts, dates and bookability are those of the row, whatever becomes of
\* the transaction.
LEMMA ExportKeepsRows ==
  ASSUME BooksOK, NEW p, CreateExport(p)
  PROVE  /\ DOMAIN txs' = DOMAIN txs
         /\ \A f \in DOMAIN txs : txs'[f].row = txs[f].row
         /\ \A f \in DOMAIN txs : txs'[f].booking = txs[f].booking /\ txs'[f].by = txs[f].by
         /\ \A f \in Exportable(p) : txs'[f].status = "exported"
<1>1. txs' = [f \in DOMAIN txs |-> IF f \in Exportable(p)
                                   THEN [txs[f] EXCEPT !.status = "exported"] ELSE txs[f]]
  BY DEF CreateExport
<1>2. Exportable(p) \subseteq DOMAIN txs
  BY DEF Exportable
<1>3. \A f \in DOMAIN txs : txs'[f] = IF f \in Exportable(p)
                                      THEN [txs[f] EXCEPT !.status = "exported"] ELSE txs[f]
  BY <1>1
<1>4. \A f \in DOMAIN txs : /\ txs'[f].row = txs[f].row
                            /\ txs'[f].booking = txs[f].booking /\ txs'[f].by = txs[f].by
  BY <1>3, Exported
<1>5. \A f \in Exportable(p) : txs'[f].status = "exported"
  BY <1>2, <1>3, Exported
<1> QED BY <1>1, <1>4, <1>5

LEMMA ExportBalancesStep ==
  ASSUME BooksOK, NEW p \in Periods, CreateExport(p),
         \A f \in DOMAIN txs : Within(txs[f].row, p) /\ Bookable(txs[f]) =>
            WithinStart(txs[f].row, p) /\ f \in Exportable(p)
  PROVE  Summary(p)'.status = "balanced" /\ Summary(p)'.missing = 0
<1> DEFINE in == Summarised(p)
<1>1. \A f \in in : f \in Exportable(p)
  BY StartsWithin DEF Summarised, BooksOK, IsTx
<1>2. in # {}
  <2>1. PICK f \in Exportable(p) : TRUE
    BY DEF CreateExport
  <2> QED BY <2>1 DEF Summarised, Exportable
<1>3. Summarised(p)' = in
  BY ExportKeepsRows DEF Summarised, Bookable
<1>4. \A f \in in : txs'[f].status = "exported"
  BY <1>1, ExportKeepsRows
<1> DEFINE left == {f \in in : txs'[f].status \notin {"exported", "skipped"}}
           done == {f \in in : txs'[f].status = "exported"}
<1>5. left = {} /\ done = in
  BY <1>4
<1>6. Cardinality(left) = 0
  BY <1>5, FS_EmptySet
<1>7. SumFunction([f \in in |-> txs'[f].row.cents]) = SumFunction([f \in done |-> txs'[f].row.cents])
  BY <1>5
<1>8. \A f \in in : txs'[f].status \notin {"open", "conflict"}
  BY <1>4
<1>9. /\ Summary(p)'.missing = Cardinality(left)
      /\ Summary(p)'.status =
           IF in = {} THEN "pending"
           ELSE IF /\ SumFunction([f \in in |-> txs'[f].row.cents])
                        = SumFunction([f \in done |-> txs'[f].row.cents])
                   /\ \A f \in in : txs'[f].status \notin {"open", "conflict"}
           THEN "balanced" ELSE "unbalanced"
  <2> HIDE DEF in
  <2> QED BY <1>3 DEF Summary
<1> HIDE DEF in, left, done
<1> QED BY <1>2, <1>6, <1>7, <1>8, <1>9

\* An export of all that is bookable in its period balances the summary of it:
\* CreateExport leaves amounts and dates alone and marks what it selects.
THEOREM ExportsBalance == Spec => ExportBalances
<1>1. BooksOK /\ [Next]_vars =>
        [\A p \in Periods :
           /\ CreateExport(p)
           /\ \A f \in DOMAIN txs : Within(txs[f].row, p) /\ Bookable(txs[f]) =>
                WithinStart(txs[f].row, p) /\ f \in Exportable(p)
           => Summary(p)'.status = "balanced" /\ Summary(p)'.missing = 0]_vars
  BY ExportBalancesStep
<1> QED BY <1>1, WellFormed, PTL DEF Spec, ExportBalances

----------------------------------------------------------------------------
(* The reports agree.                                                      *)

\* The cents of the payments in the books, and those of them an account has
\* on one of its sides.
Account(tx, side) == IF tx.booking.side = side THEN tx.booking.konto ELSE tx.booking.gegenkonto
Cents(p) == [f \in InBooks(p) |-> AbsCents(txs[f].row)]
OnSide(n, side, p) ==
  [f \in InBooks(p) |-> IF Account(txs[f], side) = n THEN AbsCents(txs[f].row) ELSE 0]

LEMMA AbsIs ==
  ASSUME NEW row \in AllRows
  PROVE  AbsCents(row) \in Nat /\ row.cents \in Int
         /\ AbsCents(row) = IF row.cents < 0 THEN -row.cents ELSE row.cents
<1>1. row.cents \in Int
  BY RowsAssumption
<1> QED BY <1>1 DEF AbsCents

LEMMA InBooksAre ==
  ASSUME BooksOK, NEW p
  PROVE  /\ IsFiniteSet(InBooks(p))
         /\ \A f \in InBooks(p) :
              /\ f \in DOMAIN txs /\ txs[f].row \in AllRows
              /\ txs[f].booking.side \in {"S", "H"}
              /\ txs[f].booking.konto # Null /\ txs[f].booking.gegenkonto # Null
              /\ AbsCents(txs[f].row) \in Nat
<1>1. InBooks(p) \subseteq DOMAIN txs
  BY DEF InBooks
<1>2. IsFiniteSet(InBooks(p))
  BY <1>1, FS_Subset DEF BooksOK
<1>3. ASSUME NEW f \in InBooks(p)
      PROVE  /\ f \in DOMAIN txs /\ txs[f].row \in AllRows
             /\ txs[f].booking.side \in {"S", "H"}
             /\ txs[f].booking.konto # Null /\ txs[f].booking.gegenkonto # Null
  BY <1>1 DEF InBooks, Complete, BooksOK, IsTx, IsBooking
<1> QED BY <1>2, <1>3, AbsIs

LEMMA SidesAre ==
  ASSUME BooksOK, NEW p, NEW n, NEW s
  PROVE  OnSide(n, s, p) \in [InBooks(p) -> Int] /\ Cents(p) \in [InBooks(p) -> Int]
BY InBooksAre DEF OnSide, Cents

LEMMA BalanceIs ==
  ASSUME BooksOK, NEW p, NEW n, NEW s \in {"S", "H"}
  PROVE  TrialBalance(n, s, p) = Total(InBooks(p), OnSide(n, s, p))
<1> DEFINE Put(b, side, k, row) == IF b = k /\ side = s THEN AbsCents(row) ELSE 0
           w == [f \in InBooks(p) |->
                  Put(txs[f].booking.konto, txs[f].booking.side, n, txs[f].row)
                    + Put(txs[f].booking.gegenkonto, OtherSide(txs[f].booking.side), n, txs[f].row)]
<1>1. ASSUME NEW f \in InBooks(p) PROVE w[f] = OnSide(n, s, p)[f]
  <2> DEFINE a == AbsCents(txs[f].row)
             b == txs[f].booking
  <2>1. a \in Nat /\ b.side \in {"S", "H"}
    BY InBooksAre
  <2>2. w[f] = (IF b.konto = n /\ b.side = s THEN a ELSE 0)
                 + (IF b.gegenkonto = n /\ OtherSide(b.side) = s THEN a ELSE 0)
    OBVIOUS
  <2>3. OnSide(n, s, p)[f] = IF (IF b.side = s THEN b.konto ELSE b.gegenkonto) = n THEN a ELSE 0
    BY DEF OnSide, Account
  <2>4. OtherSide(b.side) = s <=> b.side # s
    BY <2>1 DEF OtherSide
  <2> HIDE DEF a, b, w
  <2>5. CASE b.side = s
    BY <2>1, <2>2, <2>3, <2>4, <2>5
  <2>6. CASE b.side # s
    BY <2>1, <2>2, <2>3, <2>4, <2>6
  <2> QED BY <2>5, <2>6
<1>2. w = OnSide(n, s, p)
  <2>1. w = [f \in InBooks(p) |-> w[f]] /\ OnSide(n, s, p) = [f \in InBooks(p) |-> OnSide(n, s, p)[f]]
    BY DEF OnSide
  <2> HIDE DEF w
  <2> QED BY <1>1, <2>1
<1>3. TrialBalance(n, s, p) = SumFunction(w)
  BY DEF TrialBalance
<1> HIDE DEF w
<1> QED BY <1>2, <1>3, SidesAre, InBooksAre, Sums

LEMMA ImageFinite ==
  ASSUME NEW S, IsFiniteSet(S), NEW g
  PROVE  IsFiniteSet({g[x] : x \in S})
<1> DEFINE T == {g[x] : x \in S}
           h == [x \in S |-> g[x]]
<1>1. h \in Surjection(S, T)
  BY DEF Surjection
<1> HIDE DEF h, T
<1>2. IsFiniteSet(T)
  BY <1>1, FS_Surjection
<1> QED BY <1>2 DEF T

LEMMA NumbersFinite ==
  ASSUME BooksOK PROVE IsFiniteSet(Numbers)
<1> DEFINE k == [f \in DOMAIN txs |-> txs[f].booking.konto]
           g == [f \in DOMAIN txs |-> txs[f].booking.gegenkonto]
           K == {k[f] : f \in DOMAIN txs}
           G == {g[f] : f \in DOMAIN txs}
<1>1. IsFiniteSet(DOMAIN txs)
  BY DEF BooksOK
<1>2. Numbers = K \cup G
  BY DEF Numbers
<1> HIDE DEF k, g
<1>3. IsFiniteSet(K) /\ IsFiniteSet(G)
  BY <1>1, ImageFinite
<1> HIDE DEF K, G
<1> QED BY <1>2, <1>3, FS_Union

\* Each side of the trial balance adds up to what is in the books.
LEMMA SideAddsUp ==
  ASSUME BooksOK, NEW p, NEW s \in {"S", "H"}
  PROVE  SumFunction([n \in Numbers |-> TrialBalance(n, s, p)]) = Total(InBooks(p), Cents(p))
<1> DEFINE S == InBooks(p)
           a == Cents(p)
           k == [f \in S |-> Account(txs[f], s)]
           w == [n \in Numbers |-> Total(S, [x \in S |-> IF k[x] = n THEN a[x] ELSE 0])]
<1>1. k \in [S -> Numbers]
  BY InBooksAre DEF Account, Numbers
<1>2. \A n : [x \in S |-> IF k[x] = n THEN a[x] ELSE 0] = OnSide(n, s, p)
  BY DEF OnSide, Cents
<1>3. [n \in Numbers |-> TrialBalance(n, s, p)] = w
  BY <1>2, BalanceIs
<1>4. a \in [S -> Int] /\ IsFiniteSet(S) /\ IsFiniteSet(Numbers)
  BY SidesAre, InBooksAre, NumbersFinite
<1> HIDE DEF k, a, S
<1>5. Total(Numbers, w) = Total(S, a)
  BY <1>1, <1>4, SumSpread
<1>6. [n \in Numbers |-> w[n]] = w
  OBVIOUS
<1> HIDE DEF w
<1> QED BY <1>3, <1>5, <1>6 DEF Total, S, a

\* The ledger lists for an account what the trial balance has in it.
LEMMA LedgerIs ==
  ASSUME BooksOK, NEW p, NEW n, NEW s \in {"S", "H"},
         \A f \in InBooks(p) : txs[f].booking.konto # txs[f].booking.gegenkonto
  PROVE  TrialBalance(n, s, p) = AccountLedger(n, s, p)
<1> DEFINE of == {f \in InBooks(p) :
                    /\ n \in {txs[f].booking.konto, txs[f].booking.gegenkonto}
                    /\ SideForAccount(txs[f].booking, n) = s}
           w == OnSide(n, s, p)
<1>1. \A f \in InBooks(p) : f \in of <=> Account(txs[f], s) = n
  BY InBooksAre DEF SideForAccount, OtherSide, Account
<1>2. of \in SUBSET InBooks(p) /\ \A f \in InBooks(p) \ of : w[f] = 0
  BY <1>1 DEF OnSide
<1>3. [f \in of |-> w[f]] = [f \in of |-> AbsCents(txs[f].row)]
  BY <1>1 DEF OnSide
<1>4. AccountLedger(n, s, p) = SumFunction([f \in of |-> AbsCents(txs[f].row)])
  BY DEF AccountLedger
<1> HIDE DEF of, w
<1>5. AccountLedger(n, s, p) = Total(of, w)
  BY <1>3, <1>4 DEF Total
<1>6. w \in [InBooks(p) -> Int] /\ TrialBalance(n, s, p) = Total(InBooks(p), w)
  BY SidesAre, BalanceIs DEF w
<1> QED BY <1>2, <1>5, <1>6, InBooksAre, SumWithin

\* A part of what is not negative is not more than the whole.
LEMMA SumPart ==
  ASSUME NEW S, IsFiniteSet(S), NEW w \in [S -> Nat], NEW T \in SUBSET S
  PROVE  Total(T, w) <= Total(S, w)
<1> DEFINE v == [x \in S |-> IF x \in T THEN w[x] ELSE 0]
<1>1. v \in [S -> Int] /\ w \in [S -> Int] /\ \A x \in S : v[x] <= w[x]
  OBVIOUS
<1>2. \A x \in S \ T : v[x] = 0
  OBVIOUS
<1>3. [x \in T |-> v[x]] = [x \in T |-> w[x]]
  OBVIOUS
<1> HIDE DEF v
<1>4. Total(S, v) <= Total(S, w)
  BY <1>1, SumLess
<1>5. Total(S, v) = Total(T, v)
  BY <1>1, <1>2, SumWithin
<1>6. Total(T, v) = Total(T, w)
  BY <1>3 DEF Total
<1> QED BY <1>4, <1>5, <1>6

\* What both sides of the trial balance have in an account.
OnBoth(n, p) == [f \in InBooks(p) |-> OnSide(n, "S", p)[f] + OnSide(n, "H", p)[f]]

LEMMA BothIs ==
  ASSUME BooksOK, NEW p, NEW n
  PROVE  /\ OnBoth(n, p) \in [InBooks(p) -> Nat]
         /\ \A f \in InBooks(p) :
              OnBoth(n, p)[f] = (IF txs[f].booking.konto = n THEN AbsCents(txs[f].row) ELSE 0)
                                  + (IF txs[f].booking.gegenkonto = n THEN AbsCents(txs[f].row) ELSE 0)
         /\ TrialBalance(n, "S", p) + TrialBalance(n, "H", p) = Total(InBooks(p), OnBoth(n, p))
<1>1. ASSUME NEW f \in InBooks(p)
      PROVE  /\ OnBoth(n, p)[f] \in Nat
             /\ OnBoth(n, p)[f] = (IF txs[f].booking.konto = n THEN AbsCents(txs[f].row) ELSE 0)
                                  + (IF txs[f].booking.gegenkonto = n THEN AbsCents(txs[f].row) ELSE 0)
  <2> DEFINE a == AbsCents(txs[f].row)
             b == txs[f].booking
  <2>1. a \in Nat /\ b.side \in {"S", "H"}
    BY InBooksAre
  <2>2. OnBoth(n, p)[f] = (IF (IF b.side = "S" THEN b.konto ELSE b.gegenkonto) = n THEN a ELSE 0)
                          + (IF (IF b.side = "H" THEN b.konto ELSE b.gegenkonto) = n THEN a ELSE 0)
    BY DEF OnBoth, OnSide, Account
  <2> HIDE DEF a
  <2>3. /\ OnBoth(n, p)[f] \in Nat
        /\ OnBoth(n, p)[f] = (IF b.konto = n THEN a ELSE 0) + (IF b.gegenkonto = n THEN a ELSE 0)
    <3>1. CASE b.side = "S"
      BY <2>1, <2>2, <3>1
    <3>2. CASE b.side = "H"
      BY <2>1, <2>2, <3>2
    <3> QED BY <2>1, <3>1, <3>2
  <2> QED BY <2>3 DEF a
<1>2. OnBoth(n, p) \in [InBooks(p) -> Nat]
  BY <1>1 DEF OnBoth
<1>3. Total(InBooks(p), OnBoth(n, p)) =
        Total(InBooks(p), OnSide(n, "S", p)) + Total(InBooks(p), OnSide(n, "H", p))
  <2> DEFINE S == InBooks(p)
             w == OnBoth(n, p)
             u == OnSide(n, "S", p)
             v == OnSide(n, "H", p)
  <2>1. \A f \in S : w[f] = u[f] + v[f]
    BY DEF OnBoth
  <2>2. w \in [S -> Int] /\ u \in [S -> Int] /\ v \in [S -> Int] /\ IsFiniteSet(S)
    BY <1>2, SidesAre, InBooksAre
  <2> HIDE DEF S, u, v, w
  <2>3. Total(S, w) = Total(S, u) + Total(S, v)
    BY <2>1, <2>2, SumPlus
  <2> QED BY <2>3 DEF S, u, v, w
<1> QED BY <1>1, <1>2, <1>3, BalanceIs

\* An export would record no more for an account than the books have moved.
LEMMA TotalsWithin ==
  ASSUME BooksOK, NEW p, NEW n
  PROVE  TotalsByAccount(Exportable(p), n) <= Total(InBooks(p), OnBoth(n, p))
<1> DEFINE E == Exportable(p)
           w == OnBoth(n, p)
<1>1. E \in SUBSET InBooks(p)
  BY DEF Exportable, InBooks, Approved
<1>2. ASSUME NEW f \in E
      PROVE  w[f] = (IF txs[f].booking.konto = n THEN AbsCents(txs[f].row) ELSE 0)
                    + (IF txs[f].booking.gegenkonto = n THEN AbsCents(txs[f].row) ELSE 0)
  BY <1>1, BothIs
<1>3. TotalsByAccount(E, n) =
        SumFunction([f \in E |->
          (IF txs[f].booking.konto = n THEN AbsCents(txs[f].row) ELSE 0)
            + (IF txs[f].booking.gegenkonto = n THEN AbsCents(txs[f].row) ELSE 0)])
  BY DEF TotalsByAccount, DatevRow
<1>4. w \in [InBooks(p) -> Nat] /\ IsFiniteSet(InBooks(p))
  BY BothIs, InBooksAre
<1> HIDE DEF E, w
<1>5. TotalsByAccount(E, n) = Total(E, w)
  BY <1>2, <1>3 DEF Total
<1>6. Total(E, w) <= Total(InBooks(p), w)
  BY <1>1, <1>4, SumPart
<1> QED BY <1>5, <1>6 DEF E, w

\* Nor does the overview show more, when no payment has a konto alone.
LEMMA OverviewWithin ==
  ASSUME BooksOK, NEW p \in Periods, NEW n, n # Null,
         \A f \in DOMAIN txs : txs[f].booking.gegenkonto = Null => txs[f].booking.konto = Null
  PROVE  AccountOverview(n, p).credit - AccountOverview(n, p).debit <= Total(InBooks(p), OnBoth(n, p))
<1> DEFINE S == InBooks(p)
           of == {f \in DOMAIN txs : /\ WithinStart(txs[f].row, p) /\ Bookable(txs[f])
                                     /\ txs[f].booking.konto = n
                                     /\ txs[f].status \in {"matched", "reviewed", "exported"}}
           c == [f \in S |-> txs[f].row.cents]
           out == {f \in of : txs[f].row.cents < 0}
           in == {f \in of : txs[f].row.cents > 0}
           debits == [f \in S |-> IF f \in out THEN c[f] ELSE 0]
           credits == [f \in S |-> IF f \in in THEN c[f] ELSE 0]
           moved == [f \in S |-> IF f \in of THEN AbsCents(txs[f].row) ELSE 0]
           w == OnBoth(n, p)
<1>1. of \subseteq S
  BY StartsWithin DEF BooksOK, IsTx, InBooks, Complete
<1>2. IsFiniteSet(S) /\ \A f \in S : txs[f].row \in AllRows
  BY InBooksAre
<1>3. \A f \in S : /\ c[f] \in Int /\ AbsCents(txs[f].row) \in Nat
                   /\ c[f] = txs[f].row.cents
                   /\ AbsCents(txs[f].row) = IF c[f] < 0 THEN -c[f] ELSE c[f]
  BY <1>2, AbsIs
<1>4. /\ AccountOverview(n, p).credit = SumFunction([f \in in |-> txs[f].row.cents])
      /\ AccountOverview(n, p).debit = SumFunction([f \in out |-> txs[f].row.cents])
  BY DEF AccountOverview
<1>5. out \in SUBSET S /\ in \in SUBSET S
  BY <1>1
<1>6. /\ [f \in in |-> txs[f].row.cents] = [f \in in |-> credits[f]]
      /\ [f \in out |-> txs[f].row.cents] = [f \in out |-> debits[f]]
  BY <1>5
<1>7. /\ debits \in [S -> Int] /\ \A f \in S \ out : debits[f] = 0
      /\ credits \in [S -> Int] /\ \A f \in S \ in : credits[f] = 0
  BY <1>3
<1>8. moved \in [S -> Int]
  BY <1>3
<1>9. ASSUME NEW f \in S PROVE credits[f] = moved[f] + debits[f]
  <2>1. f \in out <=> f \in of /\ c[f] < 0
    OBVIOUS
  <2>2. f \in in <=> f \in of /\ c[f] > 0
    OBVIOUS
  <2>3. /\ credits[f] = IF f \in in THEN c[f] ELSE 0
        /\ debits[f] = IF f \in out THEN c[f] ELSE 0
        /\ moved[f] = IF f \in of THEN AbsCents(txs[f].row) ELSE 0
    OBVIOUS
  <2>4. c[f] \in Int /\ AbsCents(txs[f].row) = IF c[f] < 0 THEN -c[f] ELSE c[f]
    BY <1>3
  <2> HIDE DEF in, out, of, c, credits, debits, moved
  <2> QED BY <2>1, <2>2, <2>3, <2>4
<1>10. \A f \in S : moved[f] <= w[f] /\ w[f] \in Int
  <2> SUFFICES ASSUME NEW f \in S PROVE moved[f] <= w[f] /\ w[f] \in Int
    OBVIOUS
  <2> DEFINE a == AbsCents(txs[f].row)
  <2>1. /\ w[f] = (IF txs[f].booking.konto = n THEN a ELSE 0)
                    + (IF txs[f].booking.gegenkonto = n THEN a ELSE 0)
        /\ a \in Nat
    BY BothIs, <1>3
  <2>2. moved[f] = IF f \in of THEN a ELSE 0
    OBVIOUS
  <2>3. f \in of => txs[f].booking.konto = n
    OBVIOUS
  <2> HIDE DEF a, moved, of, w
  <2> QED BY <2>1, <2>2, <2>3
<1>11. w \in [S -> Int]
  BY <1>10 DEF OnBoth
<1> HIDE DEF S, of, c, in, out, debits, credits, moved, w
<1>12. AccountOverview(n, p).credit = Total(S, credits)
  BY <1>2, <1>4, <1>5, <1>6, <1>7, SumWithin DEF Total
<1>13. AccountOverview(n, p).debit = Total(S, debits)
  BY <1>2, <1>4, <1>5, <1>6, <1>7, SumWithin DEF Total
<1>14. Total(S, credits) = Total(S, moved) + Total(S, debits)
  BY <1>2, <1>7, <1>8, <1>9, SumPlus
<1>15. Total(S, moved) <= Total(S, w)
  BY <1>2, <1>8, <1>10, <1>11, SumLess
<1>16. Total(S, moved) \in Int /\ Total(S, debits) \in Int /\ Total(S, w) \in Int
  BY <1>2, <1>7, <1>8, <1>11, Sums
<1>17. AccountOverview(n, p).credit - AccountOverview(n, p).debit <= Total(S, w)
  BY <1>12, <1>13, <1>14, <1>15, <1>16
<1> QED BY <1>17 DEF S, w

LEMMA SizeOfTwo ==
  ASSUME NEW S, IsFiniteSet(S), NEW T, IsFiniteSet(T), S \cap T = {}
  PROVE  /\ IsFiniteSet(S \cup T)
         /\ Cardinality(S \cup T) = Cardinality(S) + Cardinality(T)
         /\ Cardinality(S) \in Nat /\ Cardinality(T) \in Nat
<1>1. Cardinality(S \cup T) = Cardinality(S) + Cardinality(T) - Cardinality(S \cap T)
  BY FS_Union
<1>2. Cardinality(S \cap T) = 0
  BY FS_EmptySet
<1>3. Cardinality(S) \in Nat /\ Cardinality(T) \in Nat
  BY FS_CardinalityType
<1>4. IsFiniteSet(S \cup T)
  BY FS_Union
<1>5. Cardinality(S \cup T) = Cardinality(S) + Cardinality(T)
  BY <1>1, <1>2, <1>3
<1> QED BY <1>3, <1>4, <1>5

\* The preview has one place for every payment.
LEMMA OnePlace ==
  ASSUME BooksOK, NEW p
  PROVE  LET x == Exclusions(p)
         IN  x.inPeriodBookable = x.eligible + x.alreadyExported + x.notApproved + x.incompleteBooking
<1> DEFINE all == {f \in DOMAIN txs : Within(txs[f].row, p) /\ Bookable(txs[f])}
           A == Exportable(p)
           B == {f \in all : txs[f].status \in {"exported"}}
           C == {f \in all : txs[f].status \notin Approved \cup {"exported"}}
           D == {f \in all : txs[f].status \in Approved /\ ~Complete(txs[f])}
<1>1. A = {f \in all : txs[f].status \in Approved /\ Complete(txs[f])}
  BY DEF Exportable
<1>2. "exported" \notin Approved
  BY DEF Approved
<1>3. IsFiniteSet(all)
  BY FS_Subset DEF BooksOK
<1>4. /\ Exclusions(p).inPeriodBookable = Cardinality(all)
      /\ Exclusions(p).eligible = Cardinality(A)
      /\ Exclusions(p).alreadyExported = Cardinality(B)
      /\ Exclusions(p).notApproved = Cardinality(C)
      /\ Exclusions(p).incompleteBooking = Cardinality(D)
  BY DEF Exclusions
<1>5. all = ((A \cup B) \cup C) \cup D
  BY <1>1
<1>6. A \cap B = {} /\ (A \cup B) \cap C = {} /\ ((A \cup B) \cup C) \cap D = {}
  BY <1>1, <1>2
<1>7. A \in SUBSET all /\ B \in SUBSET all /\ C \in SUBSET all /\ D \in SUBSET all
  BY <1>1
<1> HIDE DEF all, A, B, C, D
<1>8. IsFiniteSet(A) /\ IsFiniteSet(B) /\ IsFiniteSet(C) /\ IsFiniteSet(D)
  BY <1>3, <1>7, FS_Subset
<1> DEFINE AB == A \cup B
           ABC == AB \cup C
<1>9. /\ IsFiniteSet(AB) /\ Cardinality(AB) = Cardinality(A) + Cardinality(B)
      /\ Cardinality(A) \in Nat /\ Cardinality(B) \in Nat
  BY <1>6, <1>8, SizeOfTwo
<1>10. AB \cap C = {} /\ ABC \cap D = {} /\ all = ABC \cup D
  BY <1>5, <1>6
<1> HIDE DEF AB
<1>11. /\ IsFiniteSet(ABC) /\ Cardinality(ABC) = Cardinality(AB) + Cardinality(C)
       /\ Cardinality(C) \in Nat
  BY <1>8, <1>9, <1>10, SizeOfTwo
<1> HIDE DEF ABC
<1>12. Cardinality(all) = Cardinality(ABC) + Cardinality(D) /\ Cardinality(D) \in Nat
  BY <1>8, <1>10, <1>11, SizeOfTwo
<1>13. Cardinality(all) = Cardinality(A) + Cardinality(B) + Cardinality(C) + Cardinality(D)
  BY <1>9, <1>11, <1>12
<1> QED BY <1>4, <1>13

LEMMA Agree == BooksOK => BooksAgree
<1> SUFFICES ASSUME BooksOK PROVE BooksAgree
  OBVIOUS
<1>1. ASSUME NEW p \in Periods
      PROVE  SumFunction([n \in Numbers |-> TrialBalance(n, "S", p)]) =
               SumFunction([n \in Numbers |-> TrialBalance(n, "H", p)])
  BY SideAddsUp
<1>2. ASSUME NEW p \in Periods,
             \A f \in InBooks(p) : txs[f].booking.konto # txs[f].booking.gegenkonto,
             NEW n \in Numbers, NEW s \in {"S", "H"}
      PROVE  TrialBalance(n, s, p) = AccountLedger(n, s, p)
  BY <1>2, LedgerIs
<1>3. ASSUME NEW p \in Periods, NEW n \in Numbers \ {Null},
             \A f \in DOMAIN txs : txs[f].booking.gegenkonto = Null => txs[f].booking.konto = Null,
             NEW cents \in Moved(n, p)
      PROVE  cents <= TrialBalance(n, "S", p) + TrialBalance(n, "H", p)
  BY <1>3, BothIs, TotalsWithin, OverviewWithin DEF Moved
<1>4. ASSUME NEW p \in Periods
      PROVE  LET x == Exclusions(p) IN
             x.inPeriodBookable = x.eligible + x.alreadyExported + x.notApproved + x.incompleteBooking
  BY OnePlace
<1> QED BY <1>1, <1>2, <1>3, <1>4 DEF BooksAgree

\* Trial balance, ledger, overview, export and preview agree on any books that
\* are well formed, for any accounts and any period.
THEOREM ReportsOfTheBooksAgree == Spec => []BooksAgree
BY WellFormed, Agree, PTL

----------------------------------------------------------------------------
(* What a machine decided is decided again in the same way.                *)

\* The system's verdict, and the rules', under the policy and rules named c.
SystemsOf(c, row) ==
  [status |-> "matched", ruleIds |-> {}, system |-> TRUE,
   booking |-> ClearingBooking(row, Configs[c].policy)]
RulesOf(c, row, day) ==
  AdjustInventory(Found[c][row].rules[day], row.source, Configs[c].policy)

\* Every verdict there may be: the rules are asked by the date of today or of
\* the booking, and without one that is enabled nobody asks them.
Verdicts(c, row) ==
  IF Found[c][row].transfer THEN {SystemsOf(c, row)}
  ELSE IF Found[c][row].parked THEN {Unmatched("open")}
  ELSE {RulesOf(c, row, Today), RulesOf(c, row, row.day)}
         \cup {v \in {Unmatched("open")} : {r \in Configs[c].rules : r.enabled} = {}}

AsIn(tx, v) == v.status = tx.status /\ v.booking = tx.booking /\ v.ruleIds = tx.ruleIds

\* A transaction is as its machine has decided, but for its status once it is
\* exported.
Trusted(tx) ==
  tx.by # Null =>
    /\ tx.by \in DOMAIN Configs
    /\ tx.row.bookability # "skipped" =>
         \E v \in Verdicts(tx.by, tx.row) :
           tx.booking = v.booking /\ (tx.status = "exported" \/ AsIn(tx, v))

AllTrusted == \A f \in DOMAIN txs : Trusted(txs[f])

LEMMA PipelinesAgree ==
  ASSUME NEW row
  PROVE  /\ row.bookability # "skipped" => ImportVerdict(row) \in Verdicts(config, row)
         /\ Reprocessed(row, Found[config][row]) \in Verdicts(config, row)
         /\ \A tx : \/ Reapplied(tx, row, Found[config][row]) = tx
                    \/ Reapplied(tx, row, Found[config][row]) \in Verdicts(config, row)
<1> DEFINE found == Found[config][row]
<1>1. SystemVerdict(row) = SystemsOf(config, row)
  BY DEF SystemVerdict, SystemsOf, Policy
<1>2. \A day : AdjustInventory(found.rules[day], row.source, Policy) = RulesOf(config, row, day)
  BY DEF RulesOf, Policy
<1>3. row.bookability # "skipped" => ImportVerdict(row) \in Verdicts(config, row)
  BY <1>1, <1>2 DEF ImportVerdict, Import, Verdicts
<1>4. Reprocessed(row, Found[config][row]) \in Verdicts(config, row)
  BY <1>1, <1>2 DEF Reprocessed, ReprocessByRules, Verdicts
<1>5. ASSUME NEW tx
      PROVE  \/ Reapplied(tx, row, Found[config][row]) = tx
             \/ Reapplied(tx, row, Found[config][row]) \in Verdicts(config, row)
  BY <1>1, <1>2 DEF Reapplied, Verdicts, Rules
<1> QED BY <1>3, <1>4, <1>5

LEMMA CreatedTrusted ==
  ASSUME NEW row, NEW batch, config \in DOMAIN Configs,
         row.bookability # "skipped" => ImportVerdict(row) \in Verdicts(config, row)
  PROVE  Trusted(Created(row, batch, ImportVerdict(row)))
BY DEF Created, Trusted, AsIn

LEMMA DecidedTrusted ==
  ASSUME config \in DOMAIN Configs, NEW tx, IsTx(tx), Trusted(tx), NEW v, v = tx \/ v \in Verdicts(config, tx.row)
  PROVE  Trusted(Decided(tx, v))
<1>1. CASE v = tx
  BY <1>1 DEF Decided
<1>2. CASE v # tx
  <2> DEFINE w == Decided(tx, v)
  <2>1. w = [row |-> tx.row, batch |-> tx.batch, by |-> config, status |-> v.status,
             booking |-> v.booking, ruleIds |-> v.ruleIds, system |-> v.system]
    BY <1>2 DEF IsTx, Decided
  <2> HIDE DEF w
  <2>2. w.row = tx.row /\ w.by = config /\ AsIn(w, v)
    BY <2>1 DEF AsIn
  <2> QED BY <1>2, <2>2 DEF Trusted, AsIn, w
<1> QED BY <1>1, <1>2

LEMMA ReclassifiedTrusted ==
  ASSUME BooksOK, AllTrusted, NEW selected, NEW v,
         txs' = [f \in DOMAIN txs |-> IF f \in selected THEN Decided(txs[f], v[f]) ELSE txs[f]],
         \A f \in DOMAIN txs \cap selected : v[f] = txs[f] \/ v[f] \in Verdicts(config, txs[f].row)
  PROVE  AllTrusted'
<1>1. \A f \in DOMAIN txs : IsTx(txs[f]) /\ Trusted(txs[f])
  BY DEF BooksOK, AllTrusted
<1>2. \A f \in DOMAIN txs \cap selected : Trusted(Decided(txs[f], v[f]))
  BY <1>1, DecidedTrusted DEF BooksOK
<1>3. DOMAIN txs' = DOMAIN txs
  OBVIOUS
<1>4. \A f \in DOMAIN txs' : Trusted(txs'[f])
  BY <1>1, <1>2, <1>3
<1> QED BY <1>4 DEF AllTrusted, Trusted, AsIn, Verdicts, SystemsOf, RulesOf

LEMMA UploadTrusted ==
  ASSUME BooksOK, AllTrusted, NEW u \in CashFiles, UploadStatement(u)
  PROVE  AllTrusted'
<1> DEFINE read == Parse[u][config].rows
           batch == Len(batches) + 1
<1>1. read \in Seq(AllRows) /\ config \in DOMAIN Configs
  BY RowsAssumption DEF BooksOK
<1>2. StoredFrom(txs', read, batch, Len(read))
  BY <1>1, StoredAll DEF UploadStatement
<1>3. ASSUME NEW f \in DOMAIN txs' PROVE Trusted(txs'[f])
  <2>1. CASE f \in DOMAIN txs
    BY <1>2, <2>1 DEF StoredFrom, AllTrusted
  <2>2. CASE f \notin DOMAIN txs
    <3>1. PICK j \in 1..Len(read) : txs'[f] = Created(read[j], batch, ImportVerdict(read[j]))
      BY <1>2, <2>2 DEF StoredFrom, New
    <3> QED BY <1>1, <3>1, PipelinesAgree, CreatedTrusted
  <2> QED BY <2>1, <2>2
<1> QED BY <1>3 DEF AllTrusted, Trusted, AsIn, Verdicts, SystemsOf, RulesOf

\* Transactions nobody but humans and exports have touched.
LEMMA OneTrusted ==
  ASSUME AllTrusted, NEW f \in DOMAIN txs, NEW w, txs' = [txs EXCEPT ![f] = w], w.by = Null
  PROVE  AllTrusted'
<1>1. Trusted(w)
  BY CashAssumption DEF Trusted
<1>2. DOMAIN txs' = DOMAIN txs /\ \A g \in DOMAIN txs' : Trusted(txs'[g])
  BY <1>1 DEF AllTrusted
<1> QED BY <1>2 DEF AllTrusted, Trusted, AsIn, Verdicts, SystemsOf, RulesOf

LEMMA ExportTrusted ==
  ASSUME BooksOK, AllTrusted, NEW p, CreateExport(p)
  PROVE  AllTrusted'
<1>1. txs' = [f \in DOMAIN txs |-> IF f \in Exportable(p)
                                   THEN [txs[f] EXCEPT !.status = "exported"] ELSE txs[f]]
  BY DEF CreateExport
<1>2. ASSUME NEW f \in DOMAIN txs PROVE Trusted(txs'[f])
  <2>1. CASE f \in Exportable(p)
    <3>1. /\ txs'[f].status = "exported" /\ txs'[f].row = txs[f].row
          /\ txs'[f].booking = txs[f].booking /\ txs'[f].by = txs[f].by
      BY <2>1, ExportKeepsRows
    <3> QED BY <3>1 DEF AllTrusted, Trusted
  <2>2. CASE f \notin Exportable(p)
    <3>1. txs'[f] = txs[f]
      BY <1>1, <2>2
    <3> QED BY <3>1 DEF AllTrusted
  <2> QED BY <2>1, <2>2
<1>3. \A f \in DOMAIN txs' : Trusted(txs'[f])
  BY <1>1, <1>2
<1> QED BY <1>3 DEF AllTrusted, Trusted, AsIn, Verdicts, SystemsOf, RulesOf

LEMMA TrustedNext == BooksOK /\ AllTrusted /\ [Next]_vars => AllTrusted'
<1> SUFFICES ASSUME BooksOK, AllTrusted, [Next]_vars PROVE AllTrusted'
  OBVIOUS
<1>1. CASE UNCHANGED txs
  BY <1>1 DEF AllTrusted, Trusted, AsIn, Verdicts, SystemsOf, RulesOf
<1>2. CASE CashStep
  <2>1. ASSUME NEW u \in CashFiles, UploadStatement(u) PROVE AllTrusted'
    BY <2>1, UploadTrusted
  <2>2. ASSUME NEW b \in DOMAIN batches, Reprocess(b) PROVE AllTrusted'
    <3> DEFINE v == [f \in DOMAIN txs |-> ReprocessVerdict(txs[f])]
               of == {f \in DOMAIN txs : /\ txs[f].batch = b
                                         /\ txs[f].status \notin {"exported", "skipped"}
                                         /\ txs[f].row.bookability # "skipped"}
               selected == {f \in of : ~txs[f].system}
    <3>1. txs' = [f \in DOMAIN txs |-> IF f \in selected
                                       THEN Decided(txs[f], ReprocessVerdict(txs[f])) ELSE txs[f]]
      BY <2>2 DEF Reprocess, Reclassify
    <3>2. txs' = [f \in DOMAIN txs |-> IF f \in selected THEN Decided(txs[f], v[f]) ELSE txs[f]]
      BY <3>1
    <3>3. \A f \in DOMAIN txs \cap selected : v[f] = txs[f] \/ v[f] \in Verdicts(config, txs[f].row)
      BY PipelinesAgree DEF ReprocessVerdict
    <3> HIDE DEF v, selected
    <3> QED BY <3>2, <3>3, ReclassifiedTrusted
  <2>3. ASSUME NEW ids \in {{}, DOMAIN txs}, ApplyRules(ids) PROVE AllTrusted'
    <3> DEFINE v == [f \in DOMAIN txs |-> ApplyVerdict(txs[f])]
               of == IF ids # {} THEN ids
                     ELSE {f \in DOMAIN txs :
                             txs[f].status \in {"open", "imported", "conflict", "matched", "suggested"}}
               selected == {f \in of : /\ txs[f].status \notin {"exported", "reviewed"}
                                       /\ txs[f].row.bookability # "skipped"
                                       /\ ~txs[f].system}
    <3>1. txs' = [f \in DOMAIN txs |-> IF f \in selected
                                       THEN Decided(txs[f], ApplyVerdict(txs[f])) ELSE txs[f]]
      BY <2>3 DEF ApplyRules, Reclassify
    <3>2. txs' = [f \in DOMAIN txs |-> IF f \in selected THEN Decided(txs[f], v[f]) ELSE txs[f]]
      BY <3>1
    <3>3. \A f \in DOMAIN txs \cap selected : v[f] = txs[f] \/ v[f] \in Verdicts(config, txs[f].row)
      BY PipelinesAgree DEF ApplyVerdict
    <3> HIDE DEF v, selected
    <3> QED BY <3>2, <3>3, ReclassifiedTrusted
  <2>4. ASSUME NEW c \in DOMAIN Configs, ChangeConfig(c) PROVE AllTrusted'
    BY <1>1, <2>4 DEF ChangeConfig
  <2>5. ASSUME NEW f \in DOMAIN txs, NEW pair \in Assigned, Assign(f, pair) PROVE AllTrusted'
    <3> DEFINE b == [konto |-> pair[1], gegenkonto |-> pair[2], side |-> SideOf(txs[f].row)]
    <3>1. txs' = [txs EXCEPT ![f] = Rebooked(txs[f], b)]
      BY <2>5 DEF Assign, Rebooked
    <3>2. IsBooking(b)
      BY RowSide DEF IsBooking
    <3> HIDE DEF b
    <3>3. Rebooked(txs[f], b).by = Null
      BY <3>2, RebookedIsTx DEF BooksOK
    <3> QED BY <3>1, <3>3, OneTrusted
  <2>6. ASSUME NEW f \in DOMAIN txs, NEW s \in Marks, SetStatus(f, s) PROVE AllTrusted'
    <3> DEFINE w == [txs[f] EXCEPT !.status = s, !.by = Null]
    <3>1. txs' = [txs EXCEPT ![f] = w]
      BY <2>6 DEF SetStatus
    <3>2. w.by = Null
      BY DEF BooksOK, IsTx
    <3> HIDE DEF w
    <3> QED BY <3>1, <3>2, OneTrusted
  <2>7. ASSUME NEW p \in Periods, CreateExport(p) PROVE AllTrusted'
    BY <2>7, ExportTrusted
  <2> QED BY <1>2, <2>1, <2>2, <2>3, <2>4, <2>5, <2>6, <2>7 DEF CashStep
<1>3. CASE MarketStep /\ UNCHANGED cash
  BY <1>1, <1>3 DEF cash
<1>4. CASE UNCHANGED vars
  BY <1>1, <1>4 DEF vars
<1> QED BY <1>2, <1>3, <1>4 DEF Next

LEMMA AdjustKeeps ==
  ASSUME NEW v, IsVerdict(v), NEW source, NEW policy
  PROVE  AdjustInventory(v, source, policy).ruleIds = v.ruleIds
BY DEF IsVerdict, AdjustInventory

\* The rules that are found are those of the dry run on that day, unless the
\* only one books nothing.
LEMMA DryRunShows ==
  ASSUME NEW row, NEW rules, IsFiniteSet(rules), NEW policy
  PROVE  LET ids == ApplyHumanRules(row, rules, policy, row.day).ruleIds
         IN  \/ ids = DryRun(row, rules)
             \/ /\ ids = {}
                /\ \E r \in rules : /\ r.id \in DryRun(row, {r}) /\ DryRun(row, rules) = {r.id}
                                    /\ OneRule(row, r, policy).ruleIds = {}
<1> DEFINE found == {r \in rules : RuleMatches(row, r, row.day)}
           h == ApplyHumanRules(row, rules, policy, row.day)
<1>1. DryRun(row, rules) = {r.id : r \in found}
  BY DEF DryRun
<1>2. h = IF found = {} THEN Unmatched("open")
          ELSE IF Cardinality(found) >= 2
          THEN [Unmatched("conflict") EXCEPT !.ruleIds = {r.id : r \in found}]
          ELSE OneRule(row, CHOOSE r \in found : TRUE, policy)
  BY DEF ApplyHumanRules
<1>3. IsFiniteSet(found)
  BY FS_Subset
<1>4. CASE found = {}
  BY <1>1, <1>2, <1>4 DEF Unmatched
<1>5. CASE found # {} /\ Cardinality(found) >= 2
  <2>1. h = [Unmatched("conflict") EXCEPT !.ruleIds = {r.id : r \in found}]
    BY <1>2, <1>5
  <2> HIDE DEF h, found
  <2>2. h.ruleIds = {r.id : r \in found}
    BY <2>1 DEF Unmatched
  <2> QED BY <1>1, <2>2 DEF h
<1>6. CASE found # {} /\ ~(Cardinality(found) >= 2)
  <2> DEFINE x == CHOOSE r \in found : TRUE
  <2>1. x \in found /\ h = OneRule(row, x, policy)
    BY <1>2, <1>6
  <2>2. found = {x}
    <3> HIDE DEF found
    <3>1. Cardinality(found) \in Nat /\ Cardinality(found) # 0
      BY <1>3, <1>6, FS_CardinalityType, FS_EmptySet
    <3>2. Cardinality(found) = 1
      BY <1>6, <3>1
    <3> QED BY <1>3, <2>1, <3>2, FS_Singleton
  <2>3. x \in rules /\ RuleMatches(row, x, row.day)
    BY <2>1
  <2> HIDE DEF x, found, h
  <2>4. DryRun(row, rules) = {x.id}
    BY <1>1, <2>2
  <2>5. x.id \in DryRun(row, {x})
    BY <2>3 DEF DryRun
  <2>6. h.ruleIds = {x.id} \/ h.ruleIds = {}
    BY <2>1 DEF OneRule, Unmatched
  <2> QED BY <2>1, <2>3, <2>4, <2>5, <2>6 DEF h
<1> QED BY <1>4, <1>5, <1>6

LEMMA SameWhenActive ==
  ASSUME NEW row, NEW rules, NEW policy, NEW day,
         \A r \in rules : RuleActive(r, day) <=> RuleActive(r, row.day)
  PROVE  ApplyHumanRules(row, rules, policy, day) = ApplyHumanRules(row, rules, policy, row.day)
<1> DEFINE Found1(d) == {r \in rules : RuleMatches(row, r, d)}
           H(F) == IF F = {} THEN Unmatched("open")
                   ELSE IF Cardinality(F) >= 2
                   THEN [Unmatched("conflict") EXCEPT !.ruleIds = {r.id : r \in F}]
                   ELSE OneRule(row, CHOOSE r \in F : TRUE, policy)
<1>1. Found1(day) = Found1(row.day)
  BY DEF RuleMatches
<1>2. \A d : ApplyHumanRules(row, rules, policy, d) = H(Found1(d))
  BY DEF ApplyHumanRules
<1> HIDE DEF H, Found1
<1> QED BY <1>1, <1>2

LEMMA Settles ==
  ASSUME BooksOK, AllTrusted PROVE ReapplySettled
<1> SUFFICES ASSUME NEW f \in DOMAIN txs,
                    txs[f].by = config, txs[f].row.bookability # "skipped",
                    txs[f].status # "exported",
                    \A r \in Rules : RuleActive(r, Today) <=> RuleActive(r, txs[f].row.day)
             PROVE  SettledBy(txs[f], Found[config][txs[f].row])
  BY DEF ReapplySettled
<1> DEFINE tx == txs[f]
           row == tx.row
           found == Found[config][row]
           h == ApplyHumanRules(row, Rules, Policy, row.day)
           v == IF found.transfer THEN SystemsOf(config, row)
                ELSE IF found.parked THEN Unmatched("open")
                ELSE RulesOf(config, row, row.day)
<1>1. config \in DOMAIN Configs /\ row \in AllRows
  BY DEF BooksOK, IsTx
<1>2. /\ \A day \in {Today, row.day} : found.rules[day] = ApplyHumanRules(row, Rules, Policy, day)
      /\ found.dry = DryRun(row, Rules)
  BY <1>1, FoundIs DEF Rules, Policy
<1>3. RulesOf(config, row, Today) = RulesOf(config, row, row.day)
  BY <1>2, SameWhenActive DEF RulesOf
<1>4. ASSUME {r \in Rules : r.enabled} = {} PROVE RulesOf(config, row, row.day) = Unmatched("open")
  <2>1. {r \in Rules : RuleMatches(row, r, row.day)} = {}
    BY <1>4 DEF RuleMatches
  <2>2. found.rules[row.day] = Unmatched("open")
    BY <1>2, <2>1 DEF ApplyHumanRules
  <2>3. Unmatched("open").booking.konto # Configs[config].policy.accounts.privateInventory
    BY <1>1, CashAssumption DEF Unmatched, NoBooking
  <2> QED BY <2>2, <2>3 DEF RulesOf, AdjustInventory
<1>5. Verdicts(config, row) = {v}
  BY <1>3, <1>4 DEF Verdicts, Rules
<1>6. AsIn(tx, v)
  BY <1>1, <1>5, CashAssumption DEF AllTrusted, Trusted
<1>7. Reprocessed(row, found) = v
  BY <1>5, PipelinesAgree
<1>8. Reapplied(tx, row, found) \in {tx, v}
  BY <1>5, PipelinesAgree
<1>9. ASSUME ~found.transfer, ~found.parked
      PROVE  \/ tx.ruleIds = found.dry
             \/ tx.ruleIds = {} /\ \E r \in Rules : BooksNothing(row, r) /\ found.dry = {r.id}
  <2>1. IsFiniteSet(Rules)
    BY <1>1, CashAssumption DEF Rules
  <2>2. tx.ruleIds = h.ruleIds
    <3>1. v = AdjustInventory(h, row.source, Policy)
      BY <1>2, <1>9 DEF RulesOf, Policy
    <3>2. IsVerdict(h)
      BY HumanIsVerdict
    <3> HIDE DEF v, h
    <3>3. v.ruleIds = h.ruleIds
      BY <3>1, <3>2, AdjustKeeps
    <3> QED BY <1>6, <3>3 DEF AsIn
  <2>3. \/ h.ruleIds = DryRun(row, Rules)
        \/ /\ h.ruleIds = {}
           /\ \E r \in Rules : /\ r.id \in DryRun(row, {r}) /\ DryRun(row, Rules) = {r.id}
                                /\ OneRule(row, r, Policy).ruleIds = {}
    BY <2>1, DryRunShows
  <2>4. found.dry = DryRun(row, Rules)
    BY <1>2
  <2> HIDE DEF h, row, found, tx
  <2> QED BY <2>2, <2>3, <2>4 DEF BooksNothing
<1> HIDE DEF tx, found, v
<1>10. SettledBy(tx, found)
  BY <1>6, <1>7, <1>8, <1>9 DEF SettledBy, AsIn
<1> QED BY <1>10 DEF tx, found

LEMMA AlwaysTrusted == Spec => []AllTrusted
<1>1. Init => AllTrusted
  BY DEF Init, CashInit, AllTrusted
<1> QED BY <1>1, TrustedNext, WellFormed, PTL DEF Spec

\* The pipelines agree: what a machine has decided is what every pipeline
\* would decide, whatever has been uploaded, changed and decided since.
THEOREM PipelinesSettle == Spec => []ReapplySettled
BY AlwaysTrusted, Settles, WellFormed, PTL

----------------------------------------------------------------------------
(* Every payment is in the books once.                                     *)

\* A sum does not depend on what its numbers are known by.
LEMMA SumKnownBy ==
  ASSUME NEW S, IsFiniteSet(S), NEW T, IsFiniteSet(T), NEW w \in [T -> Int],
         NEW g \in [S -> T], \A x, y \in S : g[x] = g[y] => x = y,
         \A t \in T : \E x \in S : g[x] = t
  PROVE  Total(S, [x \in S |-> w[g[x]]]) = Total(T, w)
<1> DEFINE v == [x \in S |-> w[g[x]]]
           Of(s) == {g[x] : x \in s}
           B == {s \in SUBSET S : Total(s, v) # Total(Of(s), w)}
<1>1. Of(S) = T /\ Of({}) = {}
  OBVIOUS
<1>2. v \in [S -> Int] /\ \A x \in S : v[x] = w[g[x]]
  OBVIOUS
<1>3. \A s \in SUBSET S : Of(s) \in SUBSET T
  OBVIOUS
<1>4. \A s \in SUBSET S : \A x \in s : g[x] \in Of(s) /\ Of(s \ {x}) = Of(s) \ {g[x]}
  OBVIOUS
<1> HIDE DEF v, Of
<1> SUFFICES ASSUME B # {} PROVE FALSE
  <2>1. S \notin B
    OBVIOUS
  <2>2. Total(S, v) = Total(T, w)
    BY <1>1, <2>1
  <2> QED BY <2>2 DEF v
<1>5. {} \notin B
  BY <1>1, <1>2, Sums
<1>6. B \in SUBSET SUBSET S
  OBVIOUS
<1>7. PICK s \in B : \E x \in s :
        s \in SUBSET S /\ x \in S /\ s \ {x} \in SUBSET S /\ s \ {x} \notin B
  <2> HIDE DEF B
  <2> QED BY <1>5, <1>6, OneLess
<1>8. PICK x \in s : s \in SUBSET S /\ x \in S /\ s \ {x} \in SUBSET S /\ s \ {x} \notin B
  BY <1>7
<1>9. Total(s \ {x}, v) = Total(Of(s \ {x}), w) /\ Total(s, v) # Total(Of(s), w)
  BY <1>8
<1>10. Total(s, v) = v[x] + Total(s \ {x}, v)
  <2>1. s \in SUBSET S /\ x \in s
    BY <1>8
  <2> HIDE DEF B
  <2>2. \A t \in SUBSET S : \A y \in t : Total(t, v) = v[y] + Total(t \ {y}, v)
    BY <1>2, Sums
  <2> QED BY <2>1, <2>2
<1>11. Of(s) \in SUBSET T /\ g[x] \in Of(s) /\ Of(s \ {x}) = Of(s) \ {g[x]}
  BY <1>3, <1>4, <1>8
<1>12. Total(Of(s), w) = w[g[x]] + Total(Of(s) \ {g[x]}, w)
  <2> DEFINE r == Of(s)
             y == g[x]
  <2>1. r \in SUBSET T /\ y \in r
    BY <1>11
  <2> HIDE DEF r, y
  <2>2. Total(r, w) = w[y] + Total(r \ {y}, w)
    BY <2>1, Sums
  <2> QED BY <2>2 DEF r, y
<1>13. v[x] = w[g[x]]
  BY <1>2, <1>8
<1> HIDE DEF B
<1> QED BY <1>9, <1>10, <1>11, <1>12, <1>13

(* What is assumed of the statements: there are only so many payments, and *)
(* whatever the policy, the rows that are read of a file are those of the  *)
(* payments it shows, with their amounts, and print[p] is the fingerprint  *)
(* of the payment p and of no other.                                       *)
PrintsTell(print) ==
  /\ IsFiniteSet(DOMAIN Payments)
  /\ \A p, q \in DOMAIN Payments : print[p] = print[q] => p = q
  /\ \A u \in CashFiles, c \in DOMAIN Configs :
       /\ \A j \in 1..Len(Parse[u][c].rows) :
            \E p \in DOMAIN Payments :
              /\ u \in Payments[p].files
              /\ Parse[u][c].rows[j].fingerprint = print[p]
              /\ Parse[u][c].rows[j].cents = Payments[p].cents
       /\ \A p \in DOMAIN Payments :
            u \in Payments[p].files =>
              \E j \in 1..Len(Parse[u][c].rows) : Parse[u][c].rows[j].fingerprint = print[p]

(* The batches are a sequence of documents.                                *)
IsBatch(b) ==
  b = [file |-> b.file, rows |-> b.rows, created |-> b.created, skipped |-> b.skipped,
       matched |-> b.matched, open |-> b.open, conflict |-> b.conflict,
       guthaben |-> b.guthaben, duplicates |-> b.duplicates, status |-> b.status]

BatchesAre(q) == q \in Seq(Range(q)) /\ \A i \in DOMAIN q : IsBatch(q[i])

\* The files of batches.
FilesOf(q) == {q[i].file : i \in DOMAIN q}

LEMMA OneMore ==
  ASSUME NEW q, BatchesAre(q), NEW b, IsBatch(b)
  PROVE  BatchesAre(Append(q, b)) /\ FilesOf(Append(q, b)) = FilesOf(q) \cup {b.file}
<1> DEFINE r == Append(q, b)
           S == Range(q) \cup {b}
<1>1. q \in Seq(S) /\ b \in S /\ DOMAIN q = 1..Len(q) /\ Len(q) \in Nat
  BY DEF BatchesAre, Range
<1> HIDE DEF S
<1>2. /\ r \in Seq(S) /\ Len(r) = Len(q) + 1 /\ DOMAIN r = 1..Len(r)
      /\ \A i \in 1..Len(q) : r[i] = q[i]
      /\ r[Len(q) + 1] = b
  BY <1>1
<1> HIDE DEF r
<1>3. r \in Seq(Range(r))
  BY <1>2 DEF Range
<1>4. \A i \in DOMAIN r : i \in DOMAIN q \/ i = Len(q) + 1
  BY <1>1, <1>2
<1>5. \A i \in DOMAIN r : IsBatch(r[i])
  BY <1>1, <1>2, <1>4 DEF BatchesAre
<1>6. FilesOf(r) = FilesOf(q) \cup {b.file}
  <2>1. \A i \in DOMAIN q : i \in DOMAIN r /\ r[i].file = q[i].file
    BY <1>1, <1>2
  <2>2. Len(q) + 1 \in DOMAIN r /\ r[Len(q) + 1].file = b.file
    BY <1>1, <1>2
  <2> QED BY <1>4, <2>1, <2>2 DEF FilesOf
<1> QED BY <1>3, <1>5, <1>6 DEF BatchesAre, r

\* A batch with new numbers.
Counted(old, m, o, c) == [old EXCEPT !.matched = m, !.open = o, !.conflict = c]

LEMMA FunctionIsSeq ==
  ASSUME NEW z, NEW S, NEW n \in Nat, z \in [1..n -> S]
  PROVE  z \in Seq(S)
OBVIOUS

LEMMA BatchCounted ==
  ASSUME NEW old, IsBatch(old), NEW m, NEW o, NEW c
  PROVE  IsBatch(Counted(old, m, o, c)) /\ Counted(old, m, o, c).file = old.file
<1> DEFINE b1 == [old EXCEPT !.matched = m]
           b2 == [b1 EXCEPT !.open = o]
           b3 == [b2 EXCEPT !.conflict = c]
<1>1. Counted(old, m, o, c) = b3
  BY DEF Counted
<1>2. IsBatch(b1) /\ b1.file = old.file
  BY DEF IsBatch
<1> HIDE DEF b1
<1>3. IsBatch(b2) /\ b2.file = old.file
  BY <1>2 DEF IsBatch
<1> HIDE DEF b2
<1>4. IsBatch(b3) /\ b3.file = old.file
  BY <1>3 DEF IsBatch
<1> QED BY <1>1, <1>4

LEMMA OneChanged ==
  ASSUME NEW q, BatchesAre(q), NEW k \in DOMAIN q,
         NEW b, IsBatch(b), b.file = q[k].file, NEW z, z = [q EXCEPT ![k] = b]
  PROVE  BatchesAre(z) /\ FilesOf(z) = FilesOf(q)
<1>1. DOMAIN q = 1..Len(q) /\ Len(q) \in Nat
  BY DEF BatchesAre
<1>2. DOMAIN z = 1..Len(q) /\ \A i \in DOMAIN q : z[i] = IF i = k THEN b ELSE q[i]
  BY <1>1
<1>3. z \in Seq(Range(z))
  <2> DEFINE S == Range(z)
  <2>1. z = [i \in 1..Len(q) |-> z[i]]
    BY <1>1, <1>2
  <2>2. \A i \in 1..Len(q) : z[i] \in S
    BY <1>2 DEF Range
  <2> HIDE DEF S
  <2>3. z \in [1..Len(q) -> S]
    BY <2>1, <2>2
  <2>4. z \in Seq(S)
    BY <1>1, <2>3, FunctionIsSeq, Zenon
  <2> QED BY <2>4 DEF S
<1>4. \A i \in DOMAIN z : IsBatch(z[i])
  BY <1>1, <1>2 DEF BatchesAre
<1>5. \A i \in DOMAIN q : z[i].file = q[i].file
  BY <1>2
<1>6. FilesOf(z) = FilesOf(q)
  BY <1>1, <1>2, <1>5 DEF FilesOf
<1> QED BY <1>3, <1>4, <1>6 DEF BatchesAre

LEMMA UploadBatch ==
  ASSUME NEW f, NEW parsed, NEW mine
  PROVE  IsBatch(ImportBatch(f, parsed, mine)) /\ ImportBatch(f, parsed, mine).file = f
BY DEF ImportBatch, IsBatch

LEMMA FilesNext ==
  ASSUME BatchesAre(batches), [Next]_vars
  PROVE  /\ BatchesAre(batches)'
         /\ \/ UNCHANGED txs /\ Uploaded' = Uploaded
            \/ \E u \in CashFiles : UploadStatement(u) /\ Uploaded' = Uploaded \cup {u}
            \/ \E b : Reprocess(b) /\ Uploaded' = Uploaded
            \/ \E ids : ApplyRules(ids) /\ Uploaded' = Uploaded
            \/ \E f \in DOMAIN txs : \E pair : Assign(f, pair) /\ Uploaded' = Uploaded
            \/ \E f \in DOMAIN txs : \E s : SetStatus(f, s) /\ Uploaded' = Uploaded
            \/ \E p \in Periods : CreateExport(p) /\ Uploaded' = Uploaded
<1>0. /\ \A q : q = batches' => FilesOf(q) = Uploaded' /\ (BatchesAre(q) => BatchesAre(batches)')
      /\ FilesOf(batches) = Uploaded
  BY DEF FilesOf, Uploaded, BatchesAre, IsBatch
<1>1. CASE UNCHANGED batches
  <2>1. Uploaded' = Uploaded /\ BatchesAre(batches)'
    BY <1>0, <1>1
  <2>2. \/ UNCHANGED txs
        \/ \E ids : ApplyRules(ids)
        \/ \E f \in DOMAIN txs : \E pair : Assign(f, pair)
        \/ \E f \in DOMAIN txs : \E s : SetStatus(f, s)
        \/ \E p \in Periods : CreateExport(p)
        \/ \E u \in CashFiles : UploadStatement(u)
        \/ \E b \in DOMAIN batches : Reprocess(b)
    BY DEF Next, CashStep, ChangeConfig, cash, vars
  <2>3. ASSUME NEW u \in CashFiles, UploadStatement(u) PROVE Uploaded' = Uploaded \cup {u}
    <3>1. PICK b : batches' = Append(batches, b) /\ IsBatch(b) /\ b.file = u
      BY <2>3, UploadBatch DEF UploadStatement
    <3> QED BY <3>1, <1>0, OneMore
  <2> QED BY <2>1, <2>2, <2>3
<1>2. ASSUME NEW u \in CashFiles, UploadStatement(u)
      PROVE  BatchesAre(batches)' /\ Uploaded' = Uploaded \cup {u}
  <2>1. PICK b : batches' = Append(batches, b) /\ IsBatch(b) /\ b.file = u
    BY <1>2, UploadBatch DEF UploadStatement
  <2> QED BY <2>1, <1>0, OneMore
<1>3. ASSUME NEW b \in DOMAIN batches, Reprocess(b)
      PROVE  BatchesAre(batches)' /\ Uploaded' = Uploaded
  <2>1. PICK m, o, c : batches' = [batches EXCEPT ![b].matched = m, ![b].open = o, ![b].conflict = c]
    BY <1>3 DEF Reprocess
  <2> DEFINE old == batches[b]
             new == Counted(old, m, o, c)
  <2>2. batches' = [batches EXCEPT ![b] = new]
    BY <2>1 DEF Counted
  <2>3. IsBatch(old)
    BY <1>3 DEF BatchesAre
  <2>4. IsBatch(new) /\ new.file = old.file
    <3> HIDE DEF old
    <3> QED BY <2>3, BatchCounted
  <2> HIDE DEF new
  <2>5. BatchesAre(batches') /\ FilesOf(batches') = FilesOf(batches)
    BY <1>3, <2>2, <2>4, OneChanged
  <2> QED BY <2>5, <1>0
<1>4. \/ UNCHANGED batches
      \/ \E u \in CashFiles : UploadStatement(u)
      \/ \E b \in DOMAIN batches : Reprocess(b)
  BY DEF Next, CashStep, ChangeConfig, ApplyRules, Assign, SetStatus, CreateExport, cash, vars
<1> QED BY <1>1, <1>2, <1>3, <1>4

\* What the statements show is stored, and nothing else.
PaymentsStored(print) ==
  /\ BatchesAre(batches)
  /\ DOMAIN txs = {print[p] : p \in Shown}
  /\ \A p \in Shown : /\ txs[print[p]].row.cents = Payments[p].cents
                      /\ txs[print[p]].row.fingerprint = print[p]

\* Whatever is decided of a transaction, it keeps its row.
LEMMA DecidedKeepsRow ==
  ASSUME BooksOK, NEW selected, NEW v,
         txs' = [f \in DOMAIN txs |-> IF f \in selected THEN Decided(txs[f], v[f]) ELSE txs[f]],
         \A f \in DOMAIN txs \cap selected : v[f] = txs[f] \/ IsVerdict(v[f])
  PROVE  DOMAIN txs' = DOMAIN txs /\ \A f \in DOMAIN txs : txs'[f].row = txs[f].row
<1>1. DOMAIN txs' = DOMAIN txs
  OBVIOUS
<1>2. \A f \in DOMAIN txs \cap selected : Decided(txs[f], v[f]).row = txs[f].row
  BY DecidedIsTx DEF BooksOK
<1>3. \A f \in DOMAIN txs : txs'[f].row = txs[f].row
  BY <1>2
<1> QED BY <1>1, <1>3

LEMMA RowsKept ==
  ASSUME BooksOK,
         \/ UNCHANGED txs
         \/ \E b : Reprocess(b)
         \/ \E ids : ApplyRules(ids)
         \/ \E f \in DOMAIN txs : \E pair : Assign(f, pair)
         \/ \E f \in DOMAIN txs : \E s : SetStatus(f, s)
         \/ \E p \in Periods : CreateExport(p)
  PROVE  DOMAIN txs' = DOMAIN txs /\ \A f \in DOMAIN txs : txs'[f].row = txs[f].row
<1>1. ASSUME NEW b, Reprocess(b)
      PROVE  DOMAIN txs' = DOMAIN txs /\ \A f \in DOMAIN txs : txs'[f].row = txs[f].row
  <2> DEFINE v == [f \in DOMAIN txs |-> ReprocessVerdict(txs[f])]
             of == {f \in DOMAIN txs : /\ txs[f].batch = b
                                       /\ txs[f].status \notin {"exported", "skipped"}
                                       /\ txs[f].row.bookability # "skipped"}
             selected == {f \in of : ~txs[f].system}
  <2>1. txs' = [f \in DOMAIN txs |-> IF f \in selected
                                     THEN Decided(txs[f], ReprocessVerdict(txs[f])) ELSE txs[f]]
    BY <1>1 DEF Reprocess, Reclassify
  <2>2. txs' = [f \in DOMAIN txs |-> IF f \in selected THEN Decided(txs[f], v[f]) ELSE txs[f]]
    BY <2>1
  <2>3. \A f \in DOMAIN txs \cap selected : v[f] = txs[f] \/ IsVerdict(v[f])
    BY PipelinesGiveVerdicts DEF BooksOK, IsTx, ReprocessVerdict
  <2> HIDE DEF v, selected
  <2> QED BY <2>2, <2>3, DecidedKeepsRow
<1>2. ASSUME NEW ids, ApplyRules(ids)
      PROVE  DOMAIN txs' = DOMAIN txs /\ \A f \in DOMAIN txs : txs'[f].row = txs[f].row
  <2> DEFINE v == [f \in DOMAIN txs |-> ApplyVerdict(txs[f])]
             of == IF ids # {} THEN ids
                   ELSE {f \in DOMAIN txs :
                           txs[f].status \in {"open", "imported", "conflict", "matched", "suggested"}}
             selected == {f \in of : /\ txs[f].status \notin {"exported", "reviewed"}
                                     /\ txs[f].row.bookability # "skipped"
                                     /\ ~txs[f].system}
  <2>1. txs' = [f \in DOMAIN txs |-> IF f \in selected
                                     THEN Decided(txs[f], ApplyVerdict(txs[f])) ELSE txs[f]]
    BY <1>2 DEF ApplyRules, Reclassify
  <2>2. txs' = [f \in DOMAIN txs |-> IF f \in selected THEN Decided(txs[f], v[f]) ELSE txs[f]]
    BY <2>1
  <2>3. \A f \in DOMAIN txs \cap selected : v[f] = txs[f] \/ IsVerdict(v[f])
    BY PipelinesGiveVerdicts DEF BooksOK, IsTx, ApplyVerdict
  <2> HIDE DEF v, selected
  <2> QED BY <2>2, <2>3, DecidedKeepsRow
<1>3. ASSUME NEW f \in DOMAIN txs, NEW w, txs' = [txs EXCEPT ![f] = w], w.row = txs[f].row
      PROVE  DOMAIN txs' = DOMAIN txs /\ \A g \in DOMAIN txs : txs'[g].row = txs[g].row
  BY <1>3
<1>4. ASSUME NEW f \in DOMAIN txs, NEW pair, Assign(f, pair)
      PROVE  DOMAIN txs' = DOMAIN txs /\ \A g \in DOMAIN txs : txs'[g].row = txs[g].row
  <2> DEFINE b == [konto |-> pair[1], gegenkonto |-> pair[2], side |-> SideOf(txs[f].row)]
  <2>1. txs' = [txs EXCEPT ![f] = Rebooked(txs[f], b)]
    BY <1>4 DEF Assign, Rebooked
  <2>2. IsBooking(b)
    BY RowSide DEF IsBooking
  <2> HIDE DEF b
  <2>3. Rebooked(txs[f], b).row = txs[f].row
    BY <2>2, RebookedIsTx DEF BooksOK
  <2> QED BY <1>3, <2>1, <2>3
<1>5. ASSUME NEW f \in DOMAIN txs, NEW s, SetStatus(f, s)
      PROVE  DOMAIN txs' = DOMAIN txs /\ \A g \in DOMAIN txs : txs'[g].row = txs[g].row
  <2> DEFINE w == [txs[f] EXCEPT !.status = s, !.by = Null]
  <2>1. txs' = [txs EXCEPT ![f] = w]
    BY <1>5 DEF SetStatus
  <2>2. w.row = txs[f].row
    BY DEF BooksOK, IsTx
  <2> HIDE DEF w
  <2> QED BY <1>3, <2>1, <2>2
<1> QED BY <1>1, <1>2, <1>4, <1>5, ExportKeepsRows

LEMMA StoredNext2 ==
  ASSUME NEW print, PrintsTell(print), BooksOK, PaymentsStored(print), [Next]_vars
  PROVE  PaymentsStored(print)'
<1>1. ASSUME DOMAIN txs' = DOMAIN txs, \A f \in DOMAIN txs : txs'[f].row = txs[f].row,
             Uploaded' = Uploaded, BatchesAre(batches)'
      PROVE  PaymentsStored(print)'
  <2>1. Shown' = Shown
    BY <1>1 DEF Shown
  <2> QED BY <1>1, <2>1 DEF PaymentsStored
<1>2. ASSUME NEW u \in CashFiles, UploadStatement(u), Uploaded' = Uploaded \cup {u}, BatchesAre(batches)'
      PROVE  PaymentsStored(print)'
  <2> DEFINE read == Parse[u][config].rows
             batch == Len(batches) + 1
             n == Len(read)
  <2>1. read \in Seq(AllRows) /\ config \in DOMAIN Configs
    BY RowsAssumption DEF BooksOK
  <2>2. n \in Nat /\ StoredFrom(txs', read, batch, n)
    BY <1>2, <2>1, StoredAll DEF UploadStatement
  <2>3. /\ \A j \in 1..n : \E p \in DOMAIN Payments :
             u \in Payments[p].files /\ read[j].fingerprint = print[p] /\ read[j].cents = Payments[p].cents
        /\ \A p \in DOMAIN Payments : u \in Payments[p].files => \E j \in 1..n : read[j].fingerprint = print[p]
        /\ \A p, q \in DOMAIN Payments : print[p] = print[q] => p = q
    BY <2>1 DEF PrintsTell
  <2> HIDE DEF read, n
  <2>4. Shown' = Shown \cup {p \in DOMAIN Payments : u \in Payments[p].files}
    BY <1>2 DEF Shown
  <2>5. Shown \subseteq DOMAIN Payments /\ Shown' \subseteq DOMAIN Payments
    BY <2>4 DEF Shown
  <2>6. DOMAIN txs' = {print[p] : p \in Shown'}
    BY <2>2, <2>3, <2>4 DEF StoredFrom, PaymentsStored
  <2>7. ASSUME NEW p \in Shown'
        PROVE  /\ txs'[print[p]].row.cents = Payments[p].cents
               /\ txs'[print[p]].row.fingerprint = print[p]
    <3>1. CASE print[p] \in DOMAIN txs
      <4>1. PICK q \in Shown : print[p] = print[q]
        BY <3>1 DEF PaymentsStored
      <4>2. p = q
        BY <2>3, <2>5, <2>7, <4>1
      <4> QED BY <2>2, <3>1, <4>1, <4>2 DEF StoredFrom, PaymentsStored
    <3>2. CASE print[p] \notin DOMAIN txs
      <4>1. print[p] \in DOMAIN txs'
        BY <2>6
      <4>2. PICK j \in 1..n : /\ read[j].fingerprint = print[p]
                              /\ txs'[print[p]] = Created(read[j], batch, ImportVerdict(read[j]))
        BY <2>2, <3>2, <4>1 DEF StoredFrom, New
      <4>3. txs'[print[p]].row = read[j]
        BY <4>2 DEF Created
      <4>4. PICK q \in DOMAIN Payments : read[j].fingerprint = print[q] /\ read[j].cents = Payments[q].cents
        BY <2>3
      <4>5. p = q
        BY <2>3, <2>5, <4>2, <4>4
      <4> QED BY <4>2, <4>3, <4>4, <4>5
    <3> QED BY <3>1, <3>2
  <2> QED BY <1>2, <2>6, <2>7 DEF PaymentsStored
<1>3. BatchesAre(batches)
  BY DEF PaymentsStored
<1> QED BY <1>1, <1>2, <1>3, FilesNext, RowsKept

LEMMA OnceEach ==
  ASSUME NEW print, PrintsTell(print), BooksOK, PaymentsStored(print)
  PROVE  EveryPaymentOnce
<1> DEFINE S == Shown
           T == DOMAIN txs
           g == [p \in S |-> print[p]]
           w == [f \in T |-> txs[f].row.cents]
<1>1. IsFiniteSet(S) /\ IsFiniteSet(T)
  BY FS_Subset DEF PrintsTell, Shown, BooksOK
<1>2. S \subseteq DOMAIN Payments
  BY DEF Shown
<1>3. /\ g \in [S -> T]
      /\ \A x, y \in S : g[x] = g[y] => x = y
      /\ \A t \in T : \E x \in S : g[x] = t
  BY <1>2 DEF PrintsTell, PaymentsStored
<1>4. w \in [T -> Int]
  BY RowsAssumption DEF BooksOK, IsTx
<1>5. [x \in S |-> w[g[x]]] = [p \in S |-> Payments[p].cents]
  BY <1>3 DEF PaymentsStored
<1> HIDE DEF S, T, g, w
<1>6. Cardinality(T) = Cardinality(S)
  <2>1. g \in Bijection(S, T)
    BY <1>3 DEF Bijection, Injection, Surjection, IsInjective
  <2> QED BY <1>1, <2>1, FS_Bijection DEF ExistsBijection
<1>7. Total(S, [x \in S |-> w[g[x]]]) = Total(T, w)
  BY <1>1, <1>3, <1>4, SumKnownBy
<1>8. [x \in S |-> w[g[x]]] \in [S -> Int]
  BY <1>3, <1>4
<1>9. SumFunction([x \in S |-> w[g[x]]]) = SumFunction(w)
  BY <1>1, <1>4, <1>7, <1>8, Sums
<1> QED BY <1>5, <1>6, <1>9 DEF EveryPaymentOnce, S, T, w

LEMMA AlwaysStored ==
  ASSUME NEW CONSTANT print, PrintsTell(print)
  PROVE  Spec => []PaymentsStored(print)
<1>1. Init => PaymentsStored(print)
  <2> SUFFICES ASSUME Init PROVE PaymentsStored(print)
    OBVIOUS
  <2>1. txs = <<>> /\ batches = <<>>
    BY DEF Init, CashInit
  <2>2. Shown = {}
    BY <2>1 DEF Shown, Uploaded
  <2>3. DOMAIN txs = {}
    BY <2>1
  <2>4. BatchesAre(batches)
    BY <2>1 DEF BatchesAre, Range
  <2> QED BY <2>2, <2>3, <2>4 DEF PaymentsStored
<1>2. BooksOK /\ PaymentsStored(print) /\ [Next]_vars => PaymentsStored(print)'
  BY StoredNext2
<1> QED BY <1>1, <1>2, WellFormed, PTL DEF Spec

\* However the statements overlap and whatever happens in between, each payment
\* they show is stored once, if its fingerprint is its own.
THEOREM PaymentsOnce ==
  ASSUME NEW CONSTANT print, PrintsTell(print)
  PROVE  Spec => []EveryPaymentOnce
<1>1. BooksOK /\ PaymentsStored(print) => EveryPaymentOnce
  BY OnceEach
<1> QED BY <1>1, AlwaysStored, WellFormed, PTL

----------------------------------------------------------------------------
(* The clearing account is empty.                                          *)

\* The payments that are the two ends of one transfer.
Mates(p, q) == <<p, q>> \in TwoEnds \/ <<q, p>> \in TwoEnds
Transferred == {p \in DOMAIN Payments : \E q : Mates(p, q)}

(* What is assumed of transfers: each payment is an end of one at most, and *)
(* what leaves at one end arrives at the other; under every policy they use *)
(* the same clearing account, which no rule and no source has for its own;  *)
(* and their rows, in no period's future, are recognised, and no others.    *)
TransfersTell(print, clearing) ==
  /\ \A t \in TwoEnds :
       /\ t \in (DOMAIN Payments) \X (DOMAIN Payments)
       /\ Payments[t[1]].cents \in Int /\ Payments[t[2]].cents = -Payments[t[1]].cents
  /\ \A p, q, r : Mates(p, q) /\ Mates(p, r) => q = r
  /\ clearing # Null
  /\ \A c \in DOMAIN Configs :
       LET accounts == Configs[c].policy.accounts
       IN /\ accounts.clearing = clearing
          /\ accounts.bank \notin {clearing, Null} /\ accounts.paypal \notin {clearing, Null}
          /\ \A x \in Configs[c].rules : clearing \notin {x.konto, x.gegenkonto}
  /\ \A r \in AllRows, c \in DOMAIN Configs, p \in DOMAIN Payments :
       r.fingerprint = print[p] =>
         IF p \in Transferred
         THEN /\ IsBankPaypalTransfer(r, Configs[c].policy)
              /\ r.bookability = "bookable" /\ r.day \in 0..Today
         ELSE ~IsBankPaypalTransfer(r, Configs[c].policy)

Avoids(clearing, v) == clearing \notin {v.booking.konto, v.booking.gegenkonto}

LEMMA OpenAvoids == ASSUME NEW n, n # Null, NEW s PROVE Avoids(n, Unmatched(s))
BY DEF Avoids, Unmatched, NoBooking

\* What rules decide of a row does not touch the clearing account.
LEMMA RulesAvoid ==
  ASSUME NEW n, n # Null, NEW row, NEW rules, NEW policy, NEW day,
         policy.accounts.bank # n, policy.accounts.paypal # n,
         \A x \in rules : n \notin {x.konto, x.gegenkonto}
  PROVE  Avoids(n, AdjustInventory(ApplyHumanRules(row, rules, policy, day), row.source, policy))
<1> DEFINE h == ApplyHumanRules(row, rules, policy, day)
<1>1. \A source : DefaultGegenkonto(source, policy) # n
  BY DEF DefaultGegenkonto
<1>2. ASSUME NEW r \in rules PROVE Avoids(n, OneRule(row, r, policy))
  <2>1. n \notin {r.konto, r.gegenkonto}
    OBVIOUS
  <2> QED BY <1>1, <2>1, OpenAvoids DEF OneRule, Avoids
<1>3. \A ids : Avoids(n, [Unmatched("conflict") EXCEPT !.ruleIds = ids])
  BY DEF Avoids, Unmatched, NoBooking
<1>4. Avoids(n, h)
  <2> DEFINE found == {r \in rules : RuleMatches(row, r, day)}
             x == CHOOSE r \in found : TRUE
  <2>1. found # {} => x \in rules
    OBVIOUS
  <2>2. h = IF found = {} THEN Unmatched("open")
            ELSE IF Cardinality(found) >= 2
            THEN [Unmatched("conflict") EXCEPT !.ruleIds = {r.id : r \in found}]
            ELSE OneRule(row, x, policy)
    BY DEF ApplyHumanRules
  <2> HIDE DEF h, x, found
  <2> QED BY <1>2, <1>3, <2>1, <2>2, OpenAvoids
<1>5. IsVerdict(h)
  BY HumanIsVerdict
<1> HIDE DEF h
<1>6. Avoids(n, AdjustInventory(h, row.source, policy))
  BY <1>1, <1>4, <1>5 DEF Avoids, AdjustInventory, IsVerdict, IsBooking
<1> QED BY <1>6 DEF h

\* A machine books the ends of a transfer on the clearing account, and nothing
\* else.
LEMMA ClearedAs ==
  ASSUME NEW print, PrintsTell(print), NEW n, TransfersTell(print, n),
         BooksOK, AllTrusted, PaymentsStored(print),
         NEW p \in Shown, txs[print[p]].by # Null
  PROVE  LET tx == txs[print[p]]
         IN  IF p \in Transferred
             THEN /\ tx.status # "skipped" /\ Bookable(tx) /\ tx.row.day \in 0..Today
                  /\ tx.booking.konto = n /\ tx.booking.gegenkonto \notin {n, Null}
                  /\ tx.booking.side = SideOf(tx.row)
             ELSE tx.row.bookability # "skipped" => Avoids(n, tx)
<1> DEFINE tx == txs[print[p]]
           row == tx.row
           c == tx.by
<1>1. print[p] \in DOMAIN txs /\ p \in DOMAIN Payments
  BY DEF PaymentsStored, Shown
<1>2. /\ IsTx(tx) /\ row \in AllRows /\ row.fingerprint = print[p] /\ c \in DOMAIN Configs
      /\ row.bookability # "skipped" =>
           \E v \in Verdicts(c, row) : tx.booking = v.booking /\ (tx.status = "exported" \/ AsIn(tx, v))
  BY <1>1 DEF BooksOK, IsTx, AllTrusted, Trusted, PaymentsStored
<1>3. Found[c][row].transfer = IsBankPaypalTransfer(row, Configs[c].policy)
  BY <1>2, FoundIs
<1>4. /\ Configs[c].policy.accounts.clearing = n /\ n # Null
      /\ Configs[c].policy.accounts.bank \notin {n, Null}
      /\ Configs[c].policy.accounts.paypal \notin {n, Null}
      /\ \A x \in Configs[c].rules : n \notin {x.konto, x.gegenkonto}
  BY <1>2 DEF TransfersTell
<1>5. IF p \in Transferred
      THEN /\ IsBankPaypalTransfer(row, Configs[c].policy)
           /\ row.bookability = "bookable" /\ row.day \in 0..Today
      ELSE ~IsBankPaypalTransfer(row, Configs[c].policy)
  BY <1>1, <1>2 DEF TransfersTell
<1>6. CASE p \in Transferred
  <2>1. Verdicts(c, row) = {SystemsOf(c, row)}
    BY <1>3, <1>5, <1>6 DEF Verdicts
  <2>2. tx.booking = ClearingBooking(row, Configs[c].policy)
        /\ (tx.status = "exported" \/ tx.status = "matched")
    BY <1>2, <1>5, <1>6, <2>1 DEF SystemsOf, AsIn
  <2>3. /\ tx.booking.konto = n /\ tx.booking.gegenkonto \notin {n, Null}
        /\ tx.booking.side = SideOf(row)
    BY <1>4, <2>2 DEF ClearingBooking, DefaultGegenkonto
  <2> QED BY <1>5, <1>6, <2>2, <2>3 DEF Bookable
<1>7. CASE p \notin Transferred
  <2> SUFFICES ASSUME row.bookability # "skipped" PROVE Avoids(n, tx)
    BY <1>7
  <2>1. \A day \in {Today, row.day} : Avoids(n, RulesOf(c, row, day))
    <3> SUFFICES ASSUME NEW day \in {Today, row.day} PROVE Avoids(n, RulesOf(c, row, day))
      OBVIOUS
    <3>1. Found[c][row].rules[day] = ApplyHumanRules(row, Configs[c].rules, Configs[c].policy, day)
      BY <1>2, FoundIs
    <3> HIDE DEF row, c
    <3> QED BY <1>4, <3>1, RulesAvoid DEF RulesOf
  <2>2. \A v \in Verdicts(c, row) : Avoids(n, v)
    BY <1>3, <1>4, <1>5, <1>7, <2>1, OpenAvoids DEF Verdicts
  <2> QED BY <1>2, <2>2 DEF Avoids
<1> QED BY <1>6, <1>7

LEMMA Clears ==
  ASSUME NEW print, PrintsTell(print), NEW n, TransfersTell(print, n),
         BooksOK, AllTrusted, PaymentsStored(print)
  PROVE  ClearingNets
<1> DEFINE always == [from |-> 0, to |-> Today]
<1> SUFFICES ASSUME \A t \in TwoEnds : t[1] \in Shown <=> t[2] \in Shown,
                    \A f \in DOMAIN txs : txs[f].by # Null
             PROVE  TrialBalance(n, "S", always) = TrialBalance(n, "H", always)
  <2>1. Policy.accounts.clearing = n
    BY DEF TransfersTell, BooksOK, Policy
  <2> QED BY <2>1 DEF ClearingNets
<1> DEFINE S == InBooks(always)
           P == Shown \cap Transferred
           T == {print[p] : p \in P}
           u == OnSide(n, "S", always)
           v == OnSide(n, "H", always)
           Of(f) == CHOOSE p \in P : print[p] = f
           Mate(p) == CHOOSE q : Mates(p, q)
           m == [f \in T |-> print[Mate(Of(f))]]
<1>1. Shown \subseteq DOMAIN Payments /\ DOMAIN txs = {print[p] : p \in Shown}
  BY DEF Shown, PaymentsStored
<1>2. \A p, q \in DOMAIN Payments : print[p] = print[q] => p = q
  BY DEF PrintsTell
<1>3. ASSUME NEW p \in P
      PROVE  LET tx == txs[print[p]]
             IN  /\ tx.status # "skipped" /\ Bookable(tx) /\ tx.row.day \in 0..Today
                 /\ tx.booking.konto = n /\ tx.booking.gegenkonto \notin {n, Null}
                 /\ tx.booking.side = SideOf(tx.row) /\ tx.row.cents = Payments[p].cents
  <2>1. print[p] \in DOMAIN txs
    BY <1>1
  <2> QED BY <2>1, ClearedAs DEF PaymentsStored
<1>4. T \subseteq S
  <2> SUFFICES ASSUME NEW p \in P PROVE print[p] \in S
    OBVIOUS
  <2>1. print[p] \in DOMAIN txs
    BY <1>1
  <2>2. n # Null
    BY DEF TransfersTell
  <2> HIDE DEF P
  <2> QED BY <1>3, <2>1, <2>2 DEF InBooks, Within, Complete
<1>5. \A f \in S \ T : u[f] = 0 /\ v[f] = 0
  <2> SUFFICES ASSUME NEW f \in S \ T PROVE u[f] = 0 /\ v[f] = 0
    OBVIOUS
  <2>1. f \in DOMAIN txs /\ Bookable(txs[f])
    BY DEF InBooks
  <2>2. PICK p \in Shown : f = print[p]
    BY <1>1, <2>1
  <2>3. p \notin Transferred
    BY <2>2
  <2>4. Avoids(n, txs[f])
    BY <2>1, <2>2, <2>3, ClearedAs DEF Bookable
  <2> QED BY <2>4 DEF Avoids, OnSide, Account
<1>6. \A p \in P :
        /\ Payments[p].cents \in Int
        /\ u[print[p]] = IF Payments[p].cents < 0 THEN -Payments[p].cents ELSE 0
        /\ v[print[p]] = IF Payments[p].cents < 0 THEN 0 ELSE Payments[p].cents
  <2> SUFFICES ASSUME NEW p \in P
               PROVE  /\ Payments[p].cents \in Int
                      /\ u[print[p]] = IF Payments[p].cents < 0 THEN -Payments[p].cents ELSE 0
                      /\ v[print[p]] = IF Payments[p].cents < 0 THEN 0 ELSE Payments[p].cents
    OBVIOUS
  <2> DEFINE tx == txs[print[p]]
  <2>1. print[p] \in S
    BY <1>4
  <2>2. tx.row \in AllRows
    BY <2>1, InBooksAre
  <2>3. tx.row.cents \in Int /\ AbsCents(tx.row) = IF tx.row.cents < 0 THEN -tx.row.cents ELSE tx.row.cents
    BY <2>2, AbsIs
  <2>4. /\ tx.booking.konto = n /\ tx.booking.gegenkonto # n
        /\ tx.booking.side = (IF tx.row.cents < 0 THEN "S" ELSE "H")
        /\ tx.row.cents = Payments[p].cents
    BY <1>3 DEF SideOf
  <2>5. /\ u[print[p]] = IF Account(tx, "S") = n THEN AbsCents(tx.row) ELSE 0
        /\ v[print[p]] = IF Account(tx, "H") = n THEN AbsCents(tx.row) ELSE 0
    BY <2>1 DEF OnSide
  <2> HIDE DEF tx, u, v, P, S
  <2> QED BY <2>3, <2>4, <2>5 DEF Account
<1>7. \A p \in P : /\ Mates(p, Mate(p)) /\ Mate(p) \in P /\ Mate(Mate(p)) = p
                   /\ Payments[Mate(p)].cents = -Payments[p].cents
  <2> SUFFICES ASSUME NEW p \in P
               PROVE  /\ Mates(p, Mate(p)) /\ Mate(p) \in P /\ Mate(Mate(p)) = p
                      /\ Payments[Mate(p)].cents = -Payments[p].cents
    OBVIOUS
  <2> DEFINE q == Mate(p)
  <2>1. Mates(p, q)
    BY DEF Transferred
  <2>2. Mates(q, p)
    BY <2>1 DEF Mates
  <2>3. Mates(q, Mate(q))
    BY <2>2
  <2> HIDE DEF q, Mate
  <2>4. Mate(q) = p
    BY <2>2, <2>3 DEF TransfersTell
  <2>5. <<p, q>> \in TwoEnds \/ <<q, p>> \in TwoEnds
    BY <2>1 DEF Mates
  <2>6. \A a, b : <<a, b>> \in TwoEnds =>
          /\ a \in DOMAIN Payments /\ b \in DOMAIN Payments
          /\ Payments[a].cents \in Int /\ Payments[b].cents = -Payments[a].cents
          /\ (a \in Shown <=> b \in Shown)
    BY DEF TransfersTell
  <2>7. q \in Shown /\ q \in DOMAIN Payments
    BY <2>5, <2>6
  <2>8. Payments[q].cents = -Payments[p].cents
    BY <2>5, <2>6
  <2>9. q \in P
    BY <2>2, <2>7 DEF Transferred
  <2> QED BY <2>1, <2>4, <2>8, <2>9 DEF q
<1>8. \A p \in P : Of(print[p]) = p
  BY <1>1, <1>2
<1>9. \A p \in P : m[print[p]] = print[Mate(p)] /\ Mate(p) \in P
  <2> HIDE DEF P, Of, Mate
  <2> QED BY <1>7, <1>8
<1>10. u \in [S -> Int] /\ v \in [S -> Int] /\ IsFiniteSet(S)
  BY SidesAre, InBooksAre
<1> HIDE DEF S, P, u, v, Of, Mate
<1>11. m \in [T -> T]
  BY <1>9
<1>12. \A x, y \in T : m[x] = m[y] => x = y
  <2> SUFFICES ASSUME NEW p \in P, NEW q \in P, m[print[p]] = m[print[q]] PROVE p = q
    OBVIOUS
  <2>1. Mate(p) = Mate(q)
    BY <1>1, <1>2, <1>9 DEF P
  <2> QED BY <1>7, <2>1
<1>13. \A y \in T : \E x \in T : m[x] = y
  <2> SUFFICES ASSUME NEW p \in P PROVE \E x \in T : m[x] = print[p]
    OBVIOUS
  <2>1. Mate(p) \in P /\ m[print[Mate(p)]] = print[p]
    BY <1>7, <1>9
  <2> QED BY <2>1
<1>14. \A x \in T : v[m[x]] = u[x]
  <2> SUFFICES ASSUME NEW p \in P PROVE v[m[print[p]]] = u[print[p]]
    OBVIOUS
  <2>1. v[m[print[p]]] = v[print[Mate(p)]]
    BY <1>9
  <2>2. Payments[Mate(p)].cents = -Payments[p].cents /\ Mate(p) \in P
    BY <1>7
  <2> HIDE DEF m, T
  <2> QED BY <1>6, <2>1, <2>2
<1>15. IsFiniteSet(T)
  BY <1>4, <1>10, FS_Subset
<1> HIDE DEF m, T
<1>16. Total(S, u) = Total(T, u) /\ Total(S, v) = Total(T, v)
  BY <1>4, <1>5, <1>10, SumWithin
<1> DEFINE w == [x \in T |-> v[x]]
<1>17. w \in [T -> Int] /\ \A x \in T : w[x] = v[x]
  BY <1>4, <1>10
<1>18. [x \in T |-> w[m[x]]] = [x \in T |-> u[x]] /\ [x \in T |-> w[x]] = [x \in T |-> v[x]]
  BY <1>11, <1>14, <1>17
<1> HIDE DEF w
<1>19. Total(T, [x \in T |-> w[m[x]]]) = Total(T, w)
  BY <1>11, <1>12, <1>13, <1>15, <1>17, SumKnownBy
<1>20. Total(T, [x \in T |-> u[x]]) = Total(T, u)
  BY DEF Total
<1>21. Total(T, w) = Total(T, v)
  BY <1>18 DEF Total
<1>22. Total(S, u) = Total(S, v)
  BY <1>16, <1>18, <1>19, <1>20, <1>21
<1> QED BY <1>22, BalanceIs DEF S, u, v

\* Whatever the machines have decided and decided again under one policy and
\* another, and whatever has been exported: once both ends of every transfer
\* are read, nothing is left in the clearing account.
THEOREM TransfersClear ==
  ASSUME NEW CONSTANT print, PrintsTell(print),
         NEW CONSTANT clearing, TransfersTell(print, clearing)
  PROVE  Spec => []ClearingNets
<1>1. BooksOK /\ AllTrusted /\ PaymentsStored(print) => ClearingNets
  BY Clears
<1> QED BY <1>1, WellFormed, AlwaysTrusted, AlwaysStored, PTL

----------------------------------------------------------------------------
(* Every row of the reports is kept once.                                  *)

(* The documents of the accrual books.                                     *)
IsMarket(m) ==
  /\ m = [lines |-> m.lines, records |-> m.records, events |-> m.events,
          exceptions |-> m.exceptions, batches |-> m.batches]
  /\ \A k \in DOMAIN m.lines : "cents" \in DOMAIN m.lines[k]
  /\ \A k \in DOMAIN m.records : {"cents", "number"} \subseteq DOMAIN m.records[k]

\* n has the rows of m, whatever has become of their events.
SameRows(m, n) ==
  /\ IsMarket(n)
  /\ n.batches = m.batches
  /\ DOMAIN n.lines = DOMAIN m.lines
  /\ \A k \in DOMAIN m.lines : n.lines[k].cents = m.lines[k].cents
  /\ DOMAIN n.records = DOMAIN m.records
  /\ \A k \in DOMAIN m.records : /\ n.records[k].cents = m.records[k].cents
                                 /\ n.records[k].number = m.records[k].number

LEMMA SameSame ==
  ASSUME NEW l, NEW m, NEW n, SameRows(l, m), SameRows(m, n)
  PROVE  SameRows(l, n)
BY DEF SameRows

LEMMA ExceptionsSame ==
  ASSUME NEW m, IsMarket(m), NEW exceptions
  PROVE  SameRows(m, [m EXCEPT !.exceptions = exceptions])
BY DEF SameRows, IsMarket

LEMMA RaisedSame ==
  ASSUME NEW m, IsMarket(m), NEW condition, NEW kind, NEW order, NEW about
  PROVE  /\ SameRows(m, Raise(m, kind, order, about))
         /\ SameRows(m, RaiseIf(condition, m, kind, order, about))
<1>1. SameRows(m, m)
  BY DEF SameRows
<1> DEFINE all == m.exceptions \cup {[kind |-> kind, order |-> order, about |-> about]}
<1>2. SameRows(m, Raise(m, kind, order, about))
  <2>1. Raise(m, kind, order, about) = [m EXCEPT !.exceptions = all]
    BY DEF Raise
  <2> HIDE DEF all
  <2> QED BY <2>1, ExceptionsSame
<1> QED BY <1>1, <1>2, Zenon DEF RaiseIf

LEMMA ResolvedSame ==
  ASSUME NEW m, IsMarket(m), NEW order
  PROVE  SameRows(m, ResolveOpenForOrder(m, order))
<1> DEFINE left == {x \in m.exceptions : \/ x.order # order
     \/ x.kind \notin {"MISSING_INVOICE", "MISSING_JTL_ORDER", "UNMATCHED_MARKETPLACE_EVENT"}}
<1>1. ResolveOpenForOrder(m, order) = [m EXCEPT !.exceptions = left]
  BY DEF ResolveOpenForOrder
<1> HIDE DEF left
<1> QED BY <1>1, ExceptionsSame

LEMMA EventsSame ==
  ASSUME NEW m, IsMarket(m), NEW events
  PROVE  SameRows(m, [m EXCEPT !.events = events])
BY DEF SameRows, IsMarket

LEMMA LinkedSame ==
  ASSUME NEW m, IsMarket(m), NEW key, NEW id, NEW event
  PROVE  /\ SameRows(m, [CreateEvent(m, id, event) EXCEPT !.lines[key].event = id])
         /\ SameRows(m, [CreateEvent(m, id, event) EXCEPT !.records[key].event = id])
<1> DEFINE events == Saved(m.events, id, event)
           n == [m EXCEPT !.events = events]
<1>1. CreateEvent(m, id, event) = n
  BY DEF CreateEvent
<1>2. IsMarket(n) /\ SameRows(m, n)
  <2> HIDE DEF events
  <2> QED BY EventsSame DEF SameRows
<1> HIDE DEF n
<1>3. SameRows(n, [n EXCEPT !.lines[key].event = id])
  BY <1>2 DEF SameRows, IsMarket
<1>4. SameRows(n, [n EXCEPT !.records[key].event = id])
  BY <1>2 DEF SameRows, IsMarket
<1> QED BY <1>1, <1>2, <1>3, <1>4, SameSame

LEMMA UpsertedLineSame ==
  ASSUME NEW m, IsMarket(m), NEW line
  PROVE  SameRows(m, UpsertFromLine(m, line))
<1> DEFINE key == BuildMarketplaceTxnKey(line)
           first == IF line.cancelled /\ line.kind = "order" THEN "CANCELLATION"
                    ELSE MarketplaceTxnToEventType(line.kind)
           id == <<first, line.marketplace, line.order, line.id>>
           jtl == RecordsOf(m, line.order)
           invoiced == \E r \in jtl : IsInvoice(r)
           waits == first = "ORDER_CREATED" /\ line.shipped /\ ~invoiced
           type == IF first = "ORDER_CREATED" /\ line.shipped /\ invoiced THEN "SALE" ELSE first
           standing == IF line.cancelled THEN "void"
                       ELSE IF waits THEN "invoice_pending"
                       ELSE IF jtl # {} THEN "matched"
                       ELSE IF line.order # <<>> THEN "pending_match" ELSE "draft"
           event == Event(type, "marketplace", line, line.order, standing, line.eur)
           created == [CreateEvent(m, id, event) EXCEPT !.lines[key].event = id]
           missed == RaiseIf(waits, created, "MISSING_INVOICE", line.order, line.id)
           lonely == type = "ORDER_CREATED" /\ ~waits /\ jtl = {} /\ line.order # <<>>
           alone == RaiseIf(lonely, missed, "MISSING_JTL_ORDER", line.order, line.id)
           foreign == line.currency # <<"eur">> /\ line.eur \in {Null, 0}
<1>1. UpsertFromLine(m, line) =
        IF id \in DOMAIN m.events THEN Raise(m, "DUPLICATE_SOURCE_RECORD", <<>>, line.id)
        ELSE RaiseIf(foreign, alone, "FX_REVIEW", line.order, line.id)
  BY Zenon DEF UpsertFromLine
<1>2. SameRows(m, created)
  <2> HIDE DEF event, id, key
  <2> QED BY LinkedSame
<1> HIDE DEF created, waits, lonely, foreign
<1>3. SameRows(m, missed)
  BY <1>2, RaisedSame, SameSame DEF SameRows
<1> HIDE DEF missed
<1>4. SameRows(m, alone)
  BY <1>3, RaisedSame, SameSame DEF SameRows
<1> HIDE DEF alone
<1>5. SameRows(m, RaiseIf(foreign, alone, "FX_REVIEW", line.order, line.id))
  BY <1>4, RaisedSame, SameSame DEF SameRows
<1>6. SameRows(m, Raise(m, "DUPLICATE_SOURCE_RECORD", <<>>, line.id))
  BY RaisedSame
<1> HIDE DEF id
<1> QED BY <1>1, <1>5, <1>6

LEMMA UpsertedRecordSame ==
  ASSUME NEW m, IsMarket(m), NEW record, NEW key, NEW online
  PROVE  SameRows(m, UpsertFromRecord(m, record, key, online))
<1> DEFINE order == Upper(record.order)
           eur == Resolve(record, Null, online)
           matched == LinesOf(m, order) # {}
           type == JtlRecordToEventType(record.kind, matched)
           id == <<type, record.marketplace, order, record.id>>
           blocked == <<"CANCELLATION", record.marketplace, order, <<"jtl-cancel-blocked", record.id>>>>
           standing == IF matched THEN "matched" ELSE IF order # <<>> THEN "pending_match" ELSE "draft"
           Linked(k, e) == [CreateEvent(m, k, e) EXCEPT !.records[key].event = k]
           event == Event(type, "jtl", record, order, standing, eur)
           created == Linked(id, event)
           m1 == RaiseIf(eur = Null, created, "FX_REVIEW", order, record.id)
           m2 == RaiseIf(record.review, m1, "VAT_REVIEW", order, record.id)
           c3 == record.kind = "invoice_correction" /\ record.related # <<>>
           m3 == RaiseIf(c3, m2, "FEE_INVOICE_MISMATCH", order, record.id)
           c4 == record.channel # <<>> /\ record.marketplace = Null /\ ~record.review
           m4 == RaiseIf(c4, m3, "UNKNOWN_TRANSACTION_TYPE", order, record.id)
           c5 == ~matched /\ order # <<>>
           amazon == IF record.marketplace = Null
                     THEN [record EXCEPT !.marketplace = "amazon"] ELSE record
           void == Event("CANCELLATION", "jtl", amazon, order, "void", eur)
<1>1. UpsertFromRecord(m, record, key, online) =
        IF AmazonStatus(m, order).cancelled
        THEN IF blocked \in DOMAIN m.events THEN m ELSE Linked(blocked, void)
        ELSE IF id \in DOMAIN m.events THEN Raise(m, "DUPLICATE_SOURCE_RECORD", <<>>, record.id)
        ELSE RaiseIf(c5, m4, "UNMATCHED_MARKETPLACE_EVENT", order, record.id)
  BY Zenon DEF UpsertFromRecord
<1>2. SameRows(m, created) /\ SameRows(m, Linked(blocked, void))
  <2> HIDE DEF id, event, blocked, void
  <2> QED BY LinkedSame
<1>3. SameRows(m, m)
  BY DEF SameRows
<1> HIDE DEF created, c3, c4, c5, Linked, order
<1>4. SameRows(m, m1)
  BY <1>2, RaisedSame, SameSame DEF SameRows
<1> HIDE DEF m1
<1>5. SameRows(m, m2)
  BY <1>4, RaisedSame, SameSame DEF SameRows
<1> HIDE DEF m2
<1>6. SameRows(m, m3)
  BY <1>5, RaisedSame, SameSame DEF SameRows
<1> HIDE DEF m3
<1>7. SameRows(m, m4)
  BY <1>6, RaisedSame, SameSame DEF SameRows
<1> HIDE DEF m4
<1>8. SameRows(m, RaiseIf(c5, m4, "UNMATCHED_MARKETPLACE_EVENT", order, record.id))
  BY <1>7, RaisedSame, SameSame DEF SameRows
<1>9. SameRows(m, Raise(m, "DUPLICATE_SOURCE_RECORD", <<>>, record.id))
  BY RaisedSame
<1> HIDE DEF id, blocked, void
<1> QED BY <1>1, <1>2, <1>3, <1>8, <1>9

LEMMA RematchedSame ==
  ASSUME NEW m, IsMarket(m), NEW text
  PROVE  SameRows(m, RematchIf(m, text))
<1> DEFINE order == Upper(text)
           amazon == AmazonStatus(m, order)
           jtl == RecordsOf(m, order)
           mp == LinesOf(m, order)
           invoiced == \E r \in jtl : IsInvoice(r)
           Patched(i, e) ==
             IF \E r \in jtl : r.event = i
             THEN MatchedRecord(e, CHOOSE r \in jtl : r.event = i, invoiced)
             ELSE IF \E l \in mp : l.event = i
             THEN MatchedLine(e, CHOOSE l \in mp : l.event = i, amazon.shipped, invoiced)
             ELSE e
           void == [i \in DOMAIN m.events |->
                      IF \E d \in jtl \cup mp : d.event = i
                      THEN [m.events[i] EXCEPT !.type = "CANCELLATION", !.status = "void"]
                      ELSE m.events[i]]
           matched == [i \in DOMAIN m.events |-> Patched(i, m.events[i])]
           voided == [m EXCEPT !.events = void]
           patched == IF jtl = {} \/ mp = {} THEN m ELSE [m EXCEPT !.events = matched]
<1>1. Rematch(m, text) = IF amazon.cancelled THEN ResolveOpenForOrder(voided, order)
                         ELSE IF invoiced THEN ResolveOpenForOrder(patched, order) ELSE patched
  BY Zenon DEF Rematch
<1>2. SameRows(m, m)
  BY DEF SameRows
<1>3. SameRows(m, voided)
  <2> HIDE DEF void
  <2> QED BY EventsSame
<1>4. SameRows(m, patched)
  <2> HIDE DEF matched, jtl, mp
  <2> QED BY <1>2, EventsSame
<1> HIDE DEF voided, patched, order, invoiced, amazon
<1>5. SameRows(m, ResolveOpenForOrder(voided, order))
  BY <1>3, ResolvedSame, SameSame DEF SameRows
<1>6. SameRows(m, ResolveOpenForOrder(patched, order))
  BY <1>4, ResolvedSame, SameSame DEF SameRows
<1>7. SameRows(m, Rematch(m, text))
  BY <1>1, <1>4, <1>5, <1>6
<1> QED BY <1>2, <1>7 DEF RematchIf

\* t is m with a line of that key, if there was none.
LineAdded(m, t, key, cents) ==
  /\ IsMarket(t)
  /\ t.batches = m.batches
  /\ DOMAIN t.lines = DOMAIN m.lines \cup {key}
  /\ \A k \in DOMAIN m.lines : t.lines[k].cents = m.lines[k].cents
  /\ key \notin DOMAIN m.lines => t.lines[key].cents = cents
  /\ DOMAIN t.records = DOMAIN m.records
  /\ \A k \in DOMAIN m.records : /\ t.records[k].cents = m.records[k].cents
                                 /\ t.records[k].number = m.records[k].number

LEMMA LineImported ==
  ASSUME NEW m, IsMarket(m), NEW line, "cents" \in DOMAIN line, NEW online
  PROVE  LineAdded(m, ImportLine(m, line, online), BuildMarketplaceTxnKey(line), line.cents)
<1> DEFINE key == BuildMarketplaceTxnKey(line)
           eur == Resolve(line, line.eur, online)
           stored == [line EXCEPT !.eur = eur]
           doc == Unlinked(stored)
           lines == Saved(m.lines, key, doc)
           new == [m EXCEPT !.lines = lines]
<1>1. ImportLine(m, line, online) =
        IF key \in DOMAIN m.lines THEN m ELSE RematchIf(UpsertFromLine(new, stored), line.order)
  BY Zenon DEF ImportLine
<1>2. "cents" \in DOMAIN stored /\ stored.cents = line.cents
  <2> HIDE DEF eur
  <2> QED OBVIOUS
<1> HIDE DEF stored
<1>3. "cents" \in DOMAIN doc /\ doc.cents = line.cents
  BY <1>2 DEF Unlinked
<1> HIDE DEF doc
<1>4. ASSUME key \notin DOMAIN m.lines
      PROVE  LineAdded(m, new, key, line.cents)
  <2>1. /\ DOMAIN lines = DOMAIN m.lines \cup {key} /\ lines[key] = doc
        /\ \A k \in DOMAIN m.lines : lines[k] = m.lines[k]
    <3> HIDE DEF key
    <3> QED BY <1>4 DEF Saved
  <2> HIDE DEF lines
  <2>2. /\ new.lines = lines /\ new.records = m.records /\ new.batches = m.batches
        /\ new = [lines |-> new.lines, records |-> new.records, events |-> new.events,
                  exceptions |-> new.exceptions, batches |-> new.batches]
    BY DEF IsMarket
  <2> HIDE DEF new, key
  <2> QED BY <1>3, <1>4, <2>1, <2>2 DEF LineAdded, IsMarket
<1> HIDE DEF new, key
<1>5. ASSUME NEW n, LineAdded(m, n, key, line.cents), NEW t, SameRows(n, t)
      PROVE  LineAdded(m, t, key, line.cents)
  BY <1>5 DEF LineAdded, SameRows
<1>6. ASSUME key \notin DOMAIN m.lines
      PROVE  LineAdded(m, RematchIf(UpsertFromLine(new, stored), line.order), key, line.cents)
  <2>1. SameRows(new, UpsertFromLine(new, stored))
    BY <1>4, <1>6, UpsertedLineSame DEF LineAdded
  <2>2. SameRows(UpsertFromLine(new, stored), RematchIf(UpsertFromLine(new, stored), line.order))
    BY <2>1, RematchedSame DEF SameRows
  <2> QED BY <1>4, <1>5, <1>6, <2>1, <2>2, SameSame
<1>7. key \in DOMAIN m.lines => LineAdded(m, m, key, line.cents)
  BY DEF LineAdded
<1> QED BY <1>1, <1>6, <1>7 DEF key

\* after[i] are the books after i of the n lines.
LinesAfter(after, m, rows, online, n) ==
  after = [i \in 0..n |-> IF i = 0 THEN m ELSE ImportLine(after[i - 1], rows[i], online)]

LEMMA LinesAfterExist ==
  ASSUME NEW m, NEW rows, NEW online, NEW n \in Nat
  PROVE  \E g : LinesAfter(g, m, rows, online, n)
<1> DEFINE Bad == {k \in Nat : ~\E g : LinesAfter(g, m, rows, online, k)}
<1> SUFFICES ASSUME Bad # {} PROVE FALSE
  OBVIOUS
<1>1. PICK k \in Bad : \A j \in Bad : k <= j
  BY LeastOf
<1>2. k \in Nat /\ ~\E g : LinesAfter(g, m, rows, online, k)
  BY <1>1
<1>3. CASE k = 0
  <2>1. LinesAfter([i \in 0..0 |-> m], m, rows, online, 0)
    BY DEF LinesAfter
  <2> QED BY <1>2, <1>3, <2>1
<1>4. CASE k # 0
  <2>1. k - 1 \in Nat /\ ~(k <= k - 1)
    BY <1>2, <1>4
  <2>2. k - 1 \notin Bad
    <3> HIDE DEF Bad
    <3> QED BY <1>1, <2>1
  <2>3. PICK g : LinesAfter(g, m, rows, online, k - 1)
    BY <2>1, <2>2
  <2> DEFINE h == [i \in 0..k |-> IF i = 0 THEN m ELSE ImportLine(g[i - 1], rows[i], online)]
  <2>4. \A i \in 0..k - 1 : h[i] = g[i]
    <3>1. \A i \in 0..k - 1 : g[i] = IF i = 0 THEN m ELSE ImportLine(g[i - 1], rows[i], online)
      BY <2>3, Zenon DEF LinesAfter
    <3>2. \A i \in 0..k - 1 : i \in 0..k
      BY <1>2
    <3> QED BY <3>1, <3>2, Zenon
  <2>5. \A i \in 0..k : i # 0 => h[i - 1] = g[i - 1]
    <3> HIDE DEF h
    <3> QED BY <1>2, <2>4
  <2>6. h = [i \in 0..k |-> IF i = 0 THEN m ELSE ImportLine(h[i - 1], rows[i], online)]
    BY <2>5, Zenon
  <2>7. LinesAfter(h, m, rows, online, k)
    BY <2>6, Zenon DEF LinesAfter
  <2> QED BY <1>2, <2>7
<1> QED BY <1>3, <1>4

LEMMA LinesAfterIsLast ==
  ASSUME NEW m, NEW rows, NEW online, Len(rows) \in Nat
  PROVE  \E g : LinesAfter(g, m, rows, online, Len(rows)) /\ StoreLines(m, rows, online) = g[Len(rows)]
<1> DEFINE g == CHOOSE f : f = [i \in 0..Len(rows) |->
                                  IF i = 0 THEN m ELSE ImportLine(f[i - 1], rows[i], online)]
<1>1. PICK f : LinesAfter(f, m, rows, online, Len(rows))
  BY LinesAfterExist
<1>2. g = [i \in 0..Len(rows) |-> IF i = 0 THEN m ELSE ImportLine(g[i - 1], rows[i], online)]
  BY <1>1 DEF LinesAfter
<1>3. StoreLines(m, rows, online) = g[Len(rows)]
  BY Zenon DEF StoreLines
<1> HIDE DEF g
<1> QED BY <1>2, <1>3 DEF LinesAfter

\* t is m with the first n lines.
LinesFrom(t, m, rows, n) ==
  /\ IsMarket(t)
  /\ t.batches = m.batches
  /\ DOMAIN t.lines = DOMAIN m.lines \cup {BuildMarketplaceTxnKey(rows[j]) : j \in 1..n}
  /\ \A k \in DOMAIN m.lines : t.lines[k].cents = m.lines[k].cents
  /\ \A k \in DOMAIN t.lines \ DOMAIN m.lines :
       \E j \in 1..n : k = BuildMarketplaceTxnKey(rows[j]) /\ t.lines[k].cents = rows[j].cents
  /\ DOMAIN t.records = DOMAIN m.records
  /\ \A k \in DOMAIN m.records : /\ t.records[k].cents = m.records[k].cents
                                 /\ t.records[k].number = m.records[k].number

LEMMA LinesNext ==
  ASSUME NEW m, NEW rows, NEW n \in Nat \ {0}, NEW t, LinesFrom(t, m, rows, n - 1),
         NEW u, LineAdded(t, u, BuildMarketplaceTxnKey(rows[n]), rows[n].cents)
  PROVE  LinesFrom(u, m, rows, n)
<1> DEFINE key == [j \in 1..n |-> BuildMarketplaceTxnKey(rows[j])]
<1>1. 1..n = (1..n - 1) \cup {n} /\ n \in 1..n /\ 1..n - 1 \subseteq 1..n
  OBVIOUS
<1>k. \A j \in 1..n : BuildMarketplaceTxnKey(rows[j]) = key[j]
  OBVIOUS
<1>2. /\ {BuildMarketplaceTxnKey(rows[j]) : j \in 1..n} = {key[j] : j \in 1..n}
      /\ {BuildMarketplaceTxnKey(rows[j]) : j \in 1..n - 1} = {key[j] : j \in 1..n - 1}
      /\ \A j \in 1..n : BuildMarketplaceTxnKey(rows[j]) = key[j]
  <2> HIDE DEF key
  <2> QED BY <1>1, <1>k
<1>3. key[n] = BuildMarketplaceTxnKey(rows[n])
  BY <1>1, <1>k
<1> HIDE DEF key
<1>4. IsMarket(u) /\ u.batches = m.batches
  BY DEF LinesFrom, LineAdded
<1>5. DOMAIN t.lines = DOMAIN m.lines \cup {key[j] : j \in 1..n - 1}
  BY <1>2 DEF LinesFrom
<1>6. DOMAIN u.lines = DOMAIN t.lines \cup {key[n]}
  BY <1>3 DEF LineAdded
<1>7. DOMAIN u.lines = DOMAIN m.lines \cup {key[j] : j \in 1..n}
  BY <1>1, <1>5, <1>6
<1>8. \A k \in DOMAIN m.lines : u.lines[k].cents = m.lines[k].cents
  BY <1>5 DEF LinesFrom, LineAdded
<1>9. ASSUME NEW k \in DOMAIN u.lines \ DOMAIN m.lines
      PROVE  \E j \in 1..n : k = key[j] /\ u.lines[k].cents = rows[j].cents
  <2>1. CASE k \in DOMAIN t.lines
    <3>1. PICK j \in 1..n - 1 : k = BuildMarketplaceTxnKey(rows[j]) /\ t.lines[k].cents = rows[j].cents
      BY <1>9, <2>1 DEF LinesFrom
    <3>2. u.lines[k].cents = t.lines[k].cents
      BY <2>1 DEF LineAdded
    <3> QED BY <1>1, <1>2, <3>1, <3>2
  <2>2. CASE k \notin DOMAIN t.lines
    <3>1. k = key[n]
      BY <1>6, <1>9, <2>2
    <3>2. u.lines[k].cents = rows[n].cents
      BY <1>3, <2>2, <3>1 DEF LineAdded
    <3> QED BY <1>1, <3>1, <3>2
  <2> QED BY <2>1, <2>2
<1>10. \A k \in DOMAIN u.lines \ DOMAIN m.lines :
         \E j \in 1..n : k = BuildMarketplaceTxnKey(rows[j]) /\ u.lines[k].cents = rows[j].cents
  BY <1>2, <1>9
<1>11. /\ DOMAIN u.records = DOMAIN m.records
       /\ \A k \in DOMAIN m.records : /\ u.records[k].cents = m.records[k].cents
                                      /\ u.records[k].number = m.records[k].number
  BY DEF LinesFrom, LineAdded
<1> QED BY <1>2, <1>4, <1>7, <1>8, <1>10, <1>11 DEF LinesFrom

LEMMA LinesStored ==
  ASSUME NEW m, IsMarket(m), NEW rows, Len(rows) \in Nat, NEW online,
         \A j \in 1..Len(rows) : "cents" \in DOMAIN rows[j]
  PROVE  LinesFrom(StoreLines(m, rows, online), m, rows, Len(rows))
<1>1. PICK g : LinesAfter(g, m, rows, online, Len(rows)) /\ StoreLines(m, rows, online) = g[Len(rows)]
  BY LinesAfterIsLast
<1> DEFINE Bad == {k \in 0..Len(rows) : ~LinesFrom(g[k], m, rows, k)}
<1> SUFFICES ASSUME Bad # {} PROVE FALSE
  <2>1. Len(rows) \in 0..Len(rows) /\ Len(rows) \notin Bad
    OBVIOUS
  <2> QED BY <1>1, <2>1
<1>2. PICK k \in Bad : \A j \in Bad : k <= j
  <2>1. Bad \in SUBSET Nat
    OBVIOUS
  <2> HIDE DEF Bad
  <2> QED BY <2>1, LeastOf
<1>3. k \in 0..Len(rows) /\ ~LinesFrom(g[k], m, rows, k)
  BY <1>2
<1>4. CASE k = 0
  <2>1. g[0] = m
    BY <1>1 DEF LinesAfter
  <2>2. 1..0 = {}
    OBVIOUS
  <2>3. LinesFrom(m, m, rows, 0)
    BY <2>2 DEF LinesFrom
  <2> QED BY <1>3, <1>4, <2>1, <2>3
<1>5. CASE k # 0
  <2>1. k \in Nat \ {0} /\ k - 1 \in 0..Len(rows) /\ ~(k <= k - 1) /\ k \in 1..Len(rows)
    BY <1>3, <1>5
  <2>2. k - 1 \notin Bad
    <3> HIDE DEF Bad
    <3> QED BY <1>2, <2>1
  <2>3. LinesFrom(g[k - 1], m, rows, k - 1)
    BY <2>1, <2>2
  <2>4. g[k] = ImportLine(g[k - 1], rows[k], online)
    BY <1>1, <1>3, <1>5, <2>1 DEF LinesAfter
  <2>5. LineAdded(g[k - 1], g[k], BuildMarketplaceTxnKey(rows[k]), rows[k].cents)
    BY <2>1, <2>3, <2>4, LineImported DEF LinesFrom
  <2> QED BY <1>3, <2>1, <2>3, <2>5, LinesNext
<1> QED BY <1>4, <1>5

RecordKey(row) == <<row.id, row.kind>>

IsRecord(row) ==
  /\ {"id", "kind", "number", "cents", "marketplace", "channel"} \subseteq DOMAIN row
  /\ row.kind \in {"order", "invoice", "sale", "invoice_correction"}

\* A number that an invoice has is no other record's.
NumbersTell(all) ==
  \A r, s \in all : IsInvoice(r) /\ r.number # <<>> /\ r.number = s.number => RecordKey(r) = RecordKey(s)

\* The records are those of some rows.
RecordsOfRows(m, all) ==
  \A k \in DOMAIN m.records : \E r \in all : RecordKey(r) = k /\ m.records[k].number = r.number

\* t is m with a record of that key, if there was none.
RecordAdded(m, t, key, row) ==
  /\ IsMarket(t)
  /\ t.batches = m.batches
  /\ DOMAIN t.lines = DOMAIN m.lines
  /\ \A k \in DOMAIN m.lines : t.lines[k].cents = m.lines[k].cents
  /\ DOMAIN t.records = DOMAIN m.records \cup {key}
  /\ \A k \in DOMAIN m.records : /\ t.records[k].cents = m.records[k].cents
                                 /\ t.records[k].number = m.records[k].number
  /\ key \notin DOMAIN m.records => t.records[key].cents = row.cents /\ t.records[key].number = row.number

\* The shop of a record is not what it is known by.
LEMMA ShoppedKeeps ==
  ASSUME NEW row, IsRecord(row), NEW m, NEW shops
  PROVE  LET new == Shopped(m, shops, row)
         IN /\ DOMAIN new = DOMAIN row
            /\ new.id = row.id /\ new.kind = row.kind
            /\ new.number = row.number /\ new.cents = row.cents
<1> DEFINE order == Upper(row.order)
           prior == {r \in RecordsOf(m, order) : r.marketplace # Null}
           Named(shop) == [row EXCEPT !.marketplace = shop.marketplace, !.channel = OrElse(@, shop.channel)]
           known == CHOOSE r \in prior : TRUE
<1>1. Shopped(m, shops, row) =
        IF order = <<>> \/ row.marketplace # Null \/ row.review THEN row
        ELSE IF order \in DOMAIN shops THEN Named(shops[order])
        ELSE IF prior # {} THEN Named(known) ELSE row
  BY Zenon DEF Shopped
<1>2. ASSUME NEW shop
      PROVE  /\ DOMAIN Named(shop) = DOMAIN row
             /\ Named(shop).id = row.id /\ Named(shop).kind = row.kind
             /\ Named(shop).number = row.number /\ Named(shop).cents = row.cents
  BY DEF IsRecord
<1> HIDE DEF order, prior, known, Named
<1> QED BY <1>1, <1>2

LEMMA RecordImported ==
  ASSUME NEW m, IsMarket(m), NEW all, NumbersTell(all), RecordsOfRows(m, all),
         NEW read \in all, IsRecord(read), NEW shops, NEW online
  PROVE  RecordAdded(m, ImportRecord(m, shops, read, online), RecordKey(read), read)
<1> DEFINE row == Shopped(m, shops, read)
           key == RecordKey(read)
           same == {r \in Values(m.records) : r.number = row.number}
           taxes == {r.tax : r \in same} \ {<<>>}
           known == row.number # <<>> /\ IsInvoice(row) /\ same # {}
           taxed == row.tax # <<>> /\ taxes # {} /\ row.tax \notin taxes
           doc == Unlinked(row)
           kept == Saved(m.records, key, doc)
           new == [m EXCEPT !.records = kept]
           upserted == UpsertFromRecord(new, row, key, online)
           done == RematchIf(upserted, row.order)
<1>1. /\ DOMAIN row = DOMAIN read /\ row.id = read.id /\ row.kind = read.kind
      /\ row.number = read.number /\ row.cents = read.cents
  BY ShoppedKeeps
<1> HIDE DEF row
<1>2. <<row.id, row.kind>> = key
  BY <1>1 DEF RecordKey
<1>3. ImportRecord(m, shops, read, online) =
        IF known THEN RaiseIf(taxed, m, "MULTIPLE_TAX_CODES", row.order, row.id)
        ELSE IF key \in DOMAIN m.records THEN m ELSE done
  <2> DEFINE id == <<row.id, row.kind>>
  <2>1. ImportRecord(m, shops, read, online) =
          IF known THEN RaiseIf(taxed, m, "MULTIPLE_TAX_CODES", row.order, row.id)
          ELSE IF id \in DOMAIN m.records THEN m
          ELSE RematchIf(UpsertFromRecord([m EXCEPT !.records = Saved(@, id, Unlinked(row))], row, id, online), row.order)
    BY Zenon DEF ImportRecord, row
  <2>2. id = key
    BY <1>2
  <2> HIDE DEF id, key, known, taxed
  <2> QED BY <2>1, <2>2, Zenon
<1>4. known => key \in DOMAIN m.records
  <2> SUFFICES ASSUME known PROVE key \in DOMAIN m.records
    OBVIOUS
  <2>1. PICK k \in DOMAIN m.records : m.records[k].number = row.number
    BY DEF Values
  <2>2. PICK r \in all : RecordKey(r) = k /\ m.records[k].number = r.number
    BY <2>1 DEF RecordsOfRows
  <2>3. IsInvoice(read) /\ read.number # <<>> /\ read.number = r.number
    BY <1>1, <2>1, <2>2 DEF IsInvoice
  <2>4. RecordKey(read) = RecordKey(r)
    BY <2>3 DEF NumbersTell
  <2> QED BY <2>2, <2>4
<1>5. {"cents", "number"} \subseteq DOMAIN doc /\ doc.cents = read.cents /\ doc.number = read.number
  BY <1>1 DEF Unlinked, IsRecord
<1> HIDE DEF doc, known, taxed
<1>6. ASSUME key \notin DOMAIN m.records
      PROVE  RecordAdded(m, new, key, read)
  <2>1. /\ DOMAIN kept = DOMAIN m.records \cup {key} /\ kept[key] = doc
        /\ \A k \in DOMAIN m.records : kept[k] = m.records[k]
    <3> HIDE DEF key
    <3> QED BY <1>6 DEF Saved
  <2> HIDE DEF kept
  <2>2. /\ new.records = kept /\ new.lines = m.lines /\ new.batches = m.batches
        /\ new = [lines |-> new.lines, records |-> new.records, events |-> new.events,
                  exceptions |-> new.exceptions, batches |-> new.batches]
    BY DEF IsMarket
  <2> HIDE DEF new, key
  <2> QED BY <1>5, <1>6, <2>1, <2>2 DEF RecordAdded, IsMarket
<1> HIDE DEF new, key
<1>7. ASSUME NEW n, RecordAdded(m, n, key, read), NEW t, SameRows(n, t)
      PROVE  RecordAdded(m, t, key, read)
  BY <1>7 DEF RecordAdded, SameRows
<1>8. ASSUME key \notin DOMAIN m.records
      PROVE  RecordAdded(m, done, key, read)
  <2>1. SameRows(new, upserted)
    BY <1>6, <1>8, UpsertedRecordSame DEF RecordAdded
  <2> HIDE DEF upserted
  <2>2. SameRows(upserted, done)
    BY <2>1, RematchedSame DEF SameRows
  <2> HIDE DEF done
  <2> QED BY <1>6, <1>7, <1>8, <2>1, <2>2, SameSame
<1>9. ASSUME NEW t, SameRows(m, t), key \in DOMAIN m.records
      PROVE  RecordAdded(m, t, key, read)
  BY <1>9 DEF RecordAdded, SameRows
<1>10. SameRows(m, m) /\ SameRows(m, RaiseIf(taxed, m, "MULTIPLE_TAX_CODES", row.order, row.id))
  BY RaisedSame DEF SameRows
<1> HIDE DEF done
<1> QED BY <1>3, <1>4, <1>8, <1>9, <1>10 DEF key

\* after[i] are the books after those of a rank among the first i of n records.
RankAfter(after, m, rows, rank, shops, online, n) ==
  after = [i \in 0..n |-> IF i = 0 THEN m
                          ELSE IF RecordRank(rows[i].kind) # rank THEN after[i - 1]
                          ELSE ImportRecord(after[i - 1], shops, rows[i], online)]

LEMMA RankAfterExists ==
  ASSUME NEW m, NEW rows, NEW rank, NEW shops, NEW online, NEW n \in Nat
  PROVE  \E g : RankAfter(g, m, rows, rank, shops, online, n)
<1> DEFINE Bad == {k \in Nat : ~\E g : RankAfter(g, m, rows, rank, shops, online, k)}
<1> SUFFICES ASSUME Bad # {} PROVE FALSE
  OBVIOUS
<1>1. PICK k \in Bad : \A j \in Bad : k <= j
  BY LeastOf
<1>2. k \in Nat /\ ~\E g : RankAfter(g, m, rows, rank, shops, online, k)
  BY <1>1
<1>3. CASE k = 0
  <2>1. RankAfter([i \in 0..0 |-> m], m, rows, rank, shops, online, 0)
    BY DEF RankAfter
  <2> QED BY <1>2, <1>3, <2>1
<1>4. CASE k # 0
  <2>1. k - 1 \in Nat /\ ~(k <= k - 1)
    BY <1>2, <1>4
  <2>2. k - 1 \notin Bad
    <3> HIDE DEF Bad
    <3> QED BY <1>1, <2>1
  <2>3. PICK g : RankAfter(g, m, rows, rank, shops, online, k - 1)
    BY <2>1, <2>2
  <2> DEFINE h == [i \in 0..k |-> IF i = 0 THEN m
                                  ELSE IF RecordRank(rows[i].kind) # rank THEN g[i - 1]
                                  ELSE ImportRecord(g[i - 1], shops, rows[i], online)]
  <2>4. \A i \in 0..k - 1 : h[i] = g[i]
    <3>1. \A i \in 0..k - 1 : g[i] = IF i = 0 THEN m
                                     ELSE IF RecordRank(rows[i].kind) # rank THEN g[i - 1]
                                     ELSE ImportRecord(g[i - 1], shops, rows[i], online)
      BY <2>3, Zenon DEF RankAfter
    <3>2. \A i \in 0..k - 1 : i \in 0..k
      BY <1>2
    <3> QED BY <3>1, <3>2, Zenon
  <2>5. \A i \in 0..k : i # 0 => h[i - 1] = g[i - 1]
    <3> HIDE DEF h
    <3> QED BY <1>2, <2>4
  <2>6. h = [i \in 0..k |-> IF i = 0 THEN m
                            ELSE IF RecordRank(rows[i].kind) # rank THEN h[i - 1]
                            ELSE ImportRecord(h[i - 1], shops, rows[i], online)]
    BY <2>5, Zenon
  <2>7. RankAfter(h, m, rows, rank, shops, online, k)
    BY <2>6, Zenon DEF RankAfter
  <2> QED BY <1>2, <2>7
<1> QED BY <1>3, <1>4

LEMMA RankAfterIsLast ==
  ASSUME NEW m, NEW rows, NEW rank, NEW shops, NEW online, Len(rows) \in Nat
  PROVE  \E g : /\ RankAfter(g, m, rows, rank, shops, online, Len(rows))
                /\ StoreRank(m, rows, rank, shops, online) = g[Len(rows)]
<1> DEFINE g == CHOOSE f : f = [i \in 0..Len(rows) |->
                    IF i = 0 THEN m
                    ELSE IF RecordRank(rows[i].kind) # rank THEN f[i - 1]
                    ELSE ImportRecord(f[i - 1], shops, rows[i], online)]
<1>1. PICK f : RankAfter(f, m, rows, rank, shops, online, Len(rows))
  BY RankAfterExists
<1>2. g = [i \in 0..Len(rows) |-> IF i = 0 THEN m
                                  ELSE IF RecordRank(rows[i].kind) # rank THEN g[i - 1]
                                  ELSE ImportRecord(g[i - 1], shops, rows[i], online)]
  BY <1>1 DEF RankAfter
<1>3. StoreRank(m, rows, rank, shops, online) = g[Len(rows)]
  BY Zenon DEF StoreRank
<1> HIDE DEF g
<1> QED BY <1>2, <1>3 DEF RankAfter

\* t is m with the records at some positions of the file.
RecordsFrom(t, m, rows, done) ==
  /\ IsMarket(t)
  /\ t.batches = m.batches
  /\ DOMAIN t.lines = DOMAIN m.lines
  /\ \A k \in DOMAIN m.lines : t.lines[k].cents = m.lines[k].cents
  /\ DOMAIN t.records = DOMAIN m.records \cup {RecordKey(rows[j]) : j \in done}
  /\ \A k \in DOMAIN m.records : /\ t.records[k].cents = m.records[k].cents
                                 /\ t.records[k].number = m.records[k].number
  /\ \A k \in DOMAIN t.records \ DOMAIN m.records :
       \E j \in done : /\ k = RecordKey(rows[j])
                       /\ t.records[k].cents = rows[j].cents
                       /\ t.records[k].number = rows[j].number

LEMMA RecordsTogether ==
  ASSUME NEW m, NEW rows, NEW done, NEW more,
         NEW t, RecordsFrom(t, m, rows, done), NEW u, RecordsFrom(u, t, rows, more)
  PROVE  RecordsFrom(u, m, rows, done \cup more)
<1> DEFINE keys(s) == {RecordKey(rows[j]) : j \in s}
<1>1. keys(done \cup more) = keys(done) \cup keys(more)
  OBVIOUS
<1>2. DOMAIN t.records = DOMAIN m.records \cup keys(done)
  BY DEF RecordsFrom
<1>3. DOMAIN u.records = DOMAIN t.records \cup keys(more)
  BY DEF RecordsFrom
<1> HIDE DEF keys
<1>4. DOMAIN u.records = DOMAIN m.records \cup keys(done \cup more)
  BY <1>1, <1>2, <1>3
<1>5. \A k \in DOMAIN m.records : /\ u.records[k].cents = m.records[k].cents
                                  /\ u.records[k].number = m.records[k].number
  BY <1>2 DEF RecordsFrom
<1>6. ASSUME NEW k \in DOMAIN u.records \ DOMAIN m.records
      PROVE  \E j \in done \cup more : /\ k = RecordKey(rows[j])
                                       /\ u.records[k].cents = rows[j].cents
                                       /\ u.records[k].number = rows[j].number
  <2>1. CASE k \in DOMAIN t.records
    <3>1. u.records[k].cents = t.records[k].cents /\ u.records[k].number = t.records[k].number
      BY <2>1 DEF RecordsFrom
    <3>2. PICK j \in done : /\ k = RecordKey(rows[j])
                            /\ t.records[k].cents = rows[j].cents
                            /\ t.records[k].number = rows[j].number
      BY <1>6, <2>1 DEF RecordsFrom
    <3> QED BY <3>1, <3>2
  <2>2. CASE k \notin DOMAIN t.records
    <3>1. PICK j \in more : /\ k = RecordKey(rows[j])
                            /\ u.records[k].cents = rows[j].cents
                            /\ u.records[k].number = rows[j].number
      BY <1>6, <2>2 DEF RecordsFrom
    <3> QED BY <3>1
  <2> QED BY <2>1, <2>2
<1>7. /\ IsMarket(u) /\ u.batches = m.batches /\ DOMAIN u.lines = DOMAIN m.lines
      /\ \A k \in DOMAIN m.lines : u.lines[k].cents = m.lines[k].cents
  BY DEF RecordsFrom
<1> QED BY <1>4, <1>5, <1>6, <1>7 DEF RecordsFrom, keys

LEMMA RecordsOfMore ==
  ASSUME NEW m, NEW all, RecordsOfRows(m, all), NEW rows, NEW done, \A j \in done : rows[j] \in all,
         NEW t, RecordsFrom(t, m, rows, done)
  PROVE  RecordsOfRows(t, all)
<1> SUFFICES ASSUME NEW k \in DOMAIN t.records
             PROVE  \E r \in all : RecordKey(r) = k /\ t.records[k].number = r.number
  BY DEF RecordsOfRows
<1>1. CASE k \in DOMAIN m.records
  <2>1. t.records[k].number = m.records[k].number
    BY <1>1 DEF RecordsFrom
  <2> QED BY <1>1, <2>1 DEF RecordsOfRows
<1>2. CASE k \notin DOMAIN m.records
  BY <1>2 DEF RecordsFrom
<1> QED BY <1>1, <1>2

\* The positions of one rank among the first n.
OfRank(rows, rank, n) == {j \in 1..n : RecordRank(rows[j].kind) = rank}

LEMMA RankStored ==
  ASSUME NEW m, IsMarket(m), NEW all, NumbersTell(all), RecordsOfRows(m, all),
         NEW rows, Len(rows) \in Nat, \A j \in 1..Len(rows) : rows[j] \in all /\ IsRecord(rows[j]),
         NEW rank, NEW shops, NEW online
  PROVE  RecordsFrom(StoreRank(m, rows, rank, shops, online), m, rows, OfRank(rows, rank, Len(rows)))
<1>1. PICK g : /\ RankAfter(g, m, rows, rank, shops, online, Len(rows))
               /\ StoreRank(m, rows, rank, shops, online) = g[Len(rows)]
  BY RankAfterIsLast
<1> DEFINE Bad == {k \in 0..Len(rows) : ~RecordsFrom(g[k], m, rows, OfRank(rows, rank, k))}
<1> SUFFICES ASSUME Bad # {} PROVE FALSE
  <2>1. Len(rows) \in 0..Len(rows) /\ Len(rows) \notin Bad
    OBVIOUS
  <2> QED BY <1>1, <2>1
<1>2. PICK k \in Bad : \A j \in Bad : k <= j
  <2>1. Bad \in SUBSET Nat
    OBVIOUS
  <2> HIDE DEF Bad
  <2> QED BY <2>1, LeastOf
<1>3. k \in 0..Len(rows) /\ ~RecordsFrom(g[k], m, rows, OfRank(rows, rank, k))
  BY <1>2
<1>4. CASE k = 0
  <2>1. g[0] = m
    BY <1>1 DEF RankAfter
  <2>2. OfRank(rows, rank, 0) = {}
    BY DEF OfRank
  <2>3. RecordsFrom(m, m, rows, {})
    BY DEF RecordsFrom
  <2> QED BY <1>3, <1>4, <2>1, <2>2, <2>3
<1>5. CASE k # 0
  <2>1. k \in Nat \ {0} /\ k - 1 \in 0..Len(rows) /\ ~(k <= k - 1) /\ k \in 1..Len(rows)
    BY <1>3, <1>5
  <2>2. k - 1 \notin Bad
    <3> HIDE DEF Bad
    <3> QED BY <1>2, <2>1
  <2> DEFINE done == OfRank(rows, rank, k - 1)
  <2>3. RecordsFrom(g[k - 1], m, rows, done)
    BY <2>1, <2>2
  <2>4. g[k] = IF RecordRank(rows[k].kind) # rank THEN g[k - 1]
               ELSE ImportRecord(g[k - 1], shops, rows[k], online)
    BY <1>1, <1>3, <1>5, <2>1 DEF RankAfter
  <2>5. OfRank(rows, rank, k) = IF RecordRank(rows[k].kind) # rank THEN done ELSE done \cup {k}
    <3>1. 1..k = (1..k - 1) \cup {k}
      BY <2>1
    <3> QED BY <3>1 DEF OfRank
  <2>6. RecordsOfRows(g[k - 1], all)
    <3>1. \A j \in done : rows[j] \in all
      BY <2>1 DEF OfRank
    <3> HIDE DEF done
    <3> QED BY <2>3, <3>1, RecordsOfMore
  <2> HIDE DEF done
  <2>7. RecordAdded(g[k - 1], ImportRecord(g[k - 1], shops, rows[k], online), RecordKey(rows[k]), rows[k])
    BY <2>1, <2>3, <2>6, RecordImported DEF RecordsFrom
  <2>8. RecordsFrom(ImportRecord(g[k - 1], shops, rows[k], online), g[k - 1], rows, {k})
    BY <2>7 DEF RecordAdded, RecordsFrom
  <2>9. RecordsFrom(ImportRecord(g[k - 1], shops, rows[k], online), m, rows, done \cup {k})
    BY <2>3, <2>8, RecordsTogether
  <2> QED BY <1>3, <2>3, <2>4, <2>5, <2>9
<1> QED BY <1>4, <1>5

\* The three passes, one after the other.
LEMMA RecordsInPasses ==
  ASSUME NEW m, NEW rows, NEW shops, NEW online
  PROVE  StoreRecords(m, rows, shops, online) =
           StoreRank(StoreRank(StoreRank(m, rows, 0, shops, online), rows, 1, shops, online),
                     rows, 2, shops, online)
<1> DEFINE of(rank, t) == StoreRank(t, rows, rank, shops, online)
           g == CHOOSE f : f = [n \in 0..3 |-> IF n = 0 THEN m
                                  ELSE StoreRank(f[n - 1], rows, n - 1, shops, online)]
           h == [n \in 0..3 |-> IF n = 0 THEN m ELSE IF n = 1 THEN of(0, m)
                                ELSE IF n = 2 THEN of(1, of(0, m)) ELSE of(2, of(1, of(0, m)))]
<1>1. \A n \in 0..3 : h[n] = IF n = 0 THEN m ELSE of(n - 1, h[n - 1])
  <2>1. /\ h[0] = m /\ h[1] = of(0, m) /\ h[2] = of(1, of(0, m)) /\ h[3] = of(2, of(1, of(0, m)))
    <3> HIDE DEF of
    <3> QED OBVIOUS
  <2> HIDE DEF h, of
  <2>2. 0..3 = {0, 1, 2, 3} /\ 1 - 1 = 0 /\ 2 - 1 = 1 /\ 3 - 1 = 2
    OBVIOUS
  <2> QED BY <2>1, <2>2
<1>2. h = [n \in 0..3 |-> IF n = 0 THEN m ELSE StoreRank(h[n - 1], rows, n - 1, shops, online)]
  <2>1. \A n \in 0..3 : h[n] = IF n = 0 THEN m ELSE StoreRank(h[n - 1], rows, n - 1, shops, online)
    BY <1>1, Zenon DEF of
  <2>2. h = [n \in 0..3 |-> h[n]]
    OBVIOUS
  <2> HIDE DEF h
  <2> QED BY <2>1, <2>2, Zenon
<1>3. g = [n \in 0..3 |-> IF n = 0 THEN m ELSE StoreRank(g[n - 1], rows, n - 1, shops, online)]
  <2> HIDE DEF h
  <2> QED BY <1>2
<1>4. StoreRecords(m, rows, shops, online) = g[3]
  BY Zenon DEF StoreRecords
<1> HIDE DEF g, h
<1>5. g[0] = m /\ g[1] = of(0, g[0]) /\ g[2] = of(1, g[1]) /\ g[3] = of(2, g[2])
  <2>1. \A n \in 0..3 : g[n] = IF n = 0 THEN m ELSE of(n - 1, g[n - 1])
    BY <1>3, Zenon DEF of
  <2> HIDE DEF of
  <2> QED BY <2>1
<1> QED BY <1>4, <1>5, Zenon DEF of

LEMMA RecordsStored ==
  ASSUME NEW m, IsMarket(m), NEW all, NumbersTell(all), RecordsOfRows(m, all),
         NEW rows, Len(rows) \in Nat, \A j \in 1..Len(rows) : rows[j] \in all /\ IsRecord(rows[j]),
         NEW shops, NEW online
  PROVE  RecordsFrom(StoreRecords(m, rows, shops, online), m, rows, 1..Len(rows))
<1> DEFINE n == Len(rows)
           of(rank) == OfRank(rows, rank, n)
           orders == StoreRank(m, rows, 0, shops, online)
           invoices == StoreRank(orders, rows, 1, shops, online)
           all3 == StoreRank(invoices, rows, 2, shops, online)
<1>1. StoreRecords(m, rows, shops, online) = all3
  BY RecordsInPasses
<1>2. \A rank : \A j \in of(rank) : rows[j] \in all
  BY DEF OfRank
<1>3. RecordsFrom(orders, m, rows, of(0))
  BY RankStored
<1> HIDE DEF orders
<1>4. IsMarket(orders) /\ RecordsOfRows(orders, all)
  <2> HIDE DEF of, n
  <2>1. RecordsOfRows(orders, all)
    <3>1. \A j \in of(0) : rows[j] \in all
      BY <1>2
    <3> QED BY <1>3, <3>1, RecordsOfMore
  <2> QED BY <1>3, <2>1 DEF RecordsFrom
<1>5. RecordsFrom(invoices, orders, rows, of(1))
  BY <1>4, RankStored
<1>6. IsMarket(invoices) /\ RecordsOfRows(invoices, all)
  <2> HIDE DEF of, n, invoices
  <2>1. RecordsOfRows(invoices, all)
    <3>1. \A j \in of(1) : rows[j] \in all
      BY <1>2
    <3> QED BY <1>4, <1>5, <3>1, RecordsOfMore
  <2> QED BY <1>5, <2>1 DEF RecordsFrom
<1> HIDE DEF invoices
<1>7. RecordsFrom(all3, invoices, rows, of(2))
  BY <1>6, RankStored
<1> HIDE DEF all3
<1>8. RecordsFrom(all3, m, rows, (of(0) \cup of(1)) \cup of(2))
  BY <1>3, <1>5, <1>7, RecordsTogether
<1>9. (of(0) \cup of(1)) \cup of(2) = 1..n
  <2>1. \A j \in 1..n : RecordRank(rows[j].kind) \in {0, 1, 2}
    BY DEF IsRecord, RecordRank
  <2> QED BY <2>1 DEF OfRank
<1> QED BY <1>1, <1>8, <1>9

RowsRead(f) == {Reading[f].rows[j] : j \in 1..Len(Reading[f].rows)}
JtlRows == UNION {RowsRead(f) : f \in {x \in DOMAIN Reports : IsJtl(x)}}
RowKey(f, row) == IF IsJtl(f) THEN RecordKey(row) ELSE BuildMarketplaceTxnKey(row)
IsJtlDeed(d) == \E f \in Deeds[d].files : IsJtl(f)

(* What is assumed of the reports: there are only so many deeds, each shown *)
(* by reports of marketplaces or by exports of JTL; the rows that are read  *)
(* of a file are those of the deeds it shows, with their amounts; key[d] is *)
(* what such a row is known by, and of no other deed; and an invoice has a  *)
(* number of its own.                                                       *)
RowsTell(key) ==
  /\ IsFiniteSet(DOMAIN Deeds)
  /\ \A d \in DOMAIN Deeds : /\ Deeds[d].cents \in Int
                             /\ \A f, g \in Deeds[d].files : IsJtl(f) = IsJtl(g)
  /\ \A d, e \in DOMAIN Deeds : key[d] = key[e] => d = e
  /\ \A f \in DOMAIN Reports :
       /\ Reading[f].rows \in Seq(RowsRead(f))
       /\ \A r \in RowsRead(f) :
            /\ "cents" \in DOMAIN r
            /\ IsJtl(f) => IsRecord(r)
            /\ \E d \in DOMAIN Deeds :
                 f \in Deeds[d].files /\ RowKey(f, r) = key[d] /\ r.cents = Deeds[d].cents
       /\ \A d \in DOMAIN Deeds :
            f \in Deeds[d].files => \E r \in RowsRead(f) : RowKey(f, r) = key[d]
  /\ NumbersTell(JtlRows)

ReportedLines == {d \in Reported : ~IsJtlDeed(d)}
ReportedRecords == {d \in Reported : IsJtlDeed(d)}

\* What the reports show is stored, and nothing else.
RowsStored(key) ==
  /\ IsMarket(market)
  /\ DOMAIN market.lines = {key[d] : d \in ReportedLines}
  /\ \A d \in ReportedLines : market.lines[key[d]].cents = Deeds[d].cents
  /\ DOMAIN market.records = {key[d] : d \in ReportedRecords}
  /\ \A d \in ReportedRecords : market.records[key[d]].cents = Deeds[d].cents
  /\ RecordsOfRows(market, JtlRows)

LEMMA SameRowsStored ==
  ASSUME NEW key, RowsStored(key), SameRows(market, market')
  PROVE  RowsStored(key)'
<1>1. Reported' = Reported
  BY DEF Reported, SameRows
<1>2. ReportedLines' = ReportedLines /\ ReportedRecords' = ReportedRecords
  BY <1>1 DEF ReportedLines, ReportedRecords
<1>3. RecordsOfRows(market', JtlRows)
  BY DEF RowsStored, SameRows, RecordsOfRows
<1> DEFINE m == market'
<1>4. /\ IsMarket(m)
      /\ DOMAIN m.lines = {key[d] : d \in ReportedLines}
      /\ \A d \in ReportedLines : m.lines[key[d]].cents = Deeds[d].cents
      /\ DOMAIN m.records = {key[d] : d \in ReportedRecords}
      /\ \A d \in ReportedRecords : m.records[key[d]].cents = Deeds[d].cents
  BY DEF RowsStored, SameRows
<1> QED BY <1>2, <1>3, <1>4 DEF RowsStored

\* What is read of a file and stored is what the file shows.
LEMMA LinesShown ==
  ASSUME NEW key, RowsTell(key), RowsStored(key),
         NEW f \in DOMAIN Reports, ~IsJtl(f), NEW s, LinesFrom(s, market, Reading[f].rows, Len(Reading[f].rows))
  PROVE  /\ DOMAIN s.lines = {key[d] : d \in ReportedLines \cup {x \in DOMAIN Deeds : f \in Deeds[x].files}}
         /\ \A d \in ReportedLines \cup {x \in DOMAIN Deeds : f \in Deeds[x].files} :
              s.lines[key[d]].cents = Deeds[d].cents
<1> DEFINE rows == Reading[f].rows
           n == Len(rows)
           of == {x \in DOMAIN Deeds : f \in Deeds[x].files}
           keys == {BuildMarketplaceTxnKey(rows[j]) : j \in 1..n}
<1>1. \A j \in 1..n : rows[j] \in RowsRead(f)
  BY DEF RowsRead
<1>2. \A r \in RowsRead(f) : \E j \in 1..n : r = rows[j]
  BY DEF RowsRead
<1>3. \A r \in RowsRead(f) : RowKey(f, r) = BuildMarketplaceTxnKey(r)
  BY DEF RowKey
<1>4. \A j \in 1..n : \E d \in of : BuildMarketplaceTxnKey(rows[j]) = key[d] /\ rows[j].cents = Deeds[d].cents
  BY <1>1, <1>3 DEF RowsTell
<1>5. ASSUME NEW d \in of
      PROVE  \E j \in 1..n : BuildMarketplaceTxnKey(rows[j]) = key[d]
  <2>1. PICK r \in RowsRead(f) : RowKey(f, r) = key[d]
    BY DEF RowsTell
  <2> HIDE DEF rows, n
  <2> QED BY <1>2, <1>3, <2>1
<1>6. ReportedLines \subseteq DOMAIN Deeds /\ of \subseteq DOMAIN Deeds
  BY DEF ReportedLines, Reported
<1>7. \A d, e \in DOMAIN Deeds : key[d] = key[e] => d = e
  BY DEF RowsTell
<1>8. /\ DOMAIN s.lines = DOMAIN market.lines \cup keys
      /\ \A k \in DOMAIN market.lines : s.lines[k].cents = market.lines[k].cents
      /\ \A k \in DOMAIN s.lines \ DOMAIN market.lines :
           \E j \in 1..n : k = BuildMarketplaceTxnKey(rows[j]) /\ s.lines[k].cents = rows[j].cents
  BY DEF LinesFrom
<1>9. /\ DOMAIN market.lines = {key[d] : d \in ReportedLines}
      /\ \A d \in ReportedLines : market.lines[key[d]].cents = Deeds[d].cents
  BY DEF RowsStored
<1> HIDE DEF rows, n, of
<1>10. keys = {key[d] : d \in of}
  <2>1. \A k \in keys : k \in {key[d] : d \in of}
    BY <1>4
  <2>2. \A d \in of : key[d] \in keys
    BY <1>5
  <2> HIDE DEF keys
  <2> QED BY <2>1, <2>2
<1>11. DOMAIN s.lines = {key[d] : d \in ReportedLines \cup of}
  BY <1>8, <1>9, <1>10
<1>12. ASSUME NEW d \in ReportedLines \cup of
       PROVE  s.lines[key[d]].cents = Deeds[d].cents
  <2>1. CASE key[d] \in DOMAIN market.lines
    <3>1. PICK e \in ReportedLines : key[d] = key[e]
      BY <1>9, <2>1
    <3>2. d = e
      BY <1>6, <1>7, <3>1
    <3> QED BY <1>8, <1>9, <2>1, <3>1, <3>2
  <2>2. CASE key[d] \notin DOMAIN market.lines
    <3>1. PICK j \in 1..n : key[d] = BuildMarketplaceTxnKey(rows[j]) /\ s.lines[key[d]].cents = rows[j].cents
      BY <1>8, <1>11, <2>2
    <3>2. PICK e \in of : BuildMarketplaceTxnKey(rows[j]) = key[e] /\ rows[j].cents = Deeds[e].cents
      BY <1>4
    <3>3. d = e
      BY <1>6, <1>7, <3>1, <3>2
    <3> QED BY <3>1, <3>2, <3>3
  <2> QED BY <2>1, <2>2
<1> QED BY <1>11, <1>12 DEF of

LEMMA RecordsShown ==
  ASSUME NEW key, RowsTell(key), RowsStored(key),
         NEW f \in DOMAIN Reports, IsJtl(f),
         NEW s, RecordsFrom(s, market, Reading[f].rows, 1..Len(Reading[f].rows))
  PROVE  /\ DOMAIN s.records = {key[d] : d \in ReportedRecords \cup {x \in DOMAIN Deeds : f \in Deeds[x].files}}
         /\ \A d \in ReportedRecords \cup {x \in DOMAIN Deeds : f \in Deeds[x].files} :
              s.records[key[d]].cents = Deeds[d].cents
<1> DEFINE rows == Reading[f].rows
           n == Len(rows)
           of == {x \in DOMAIN Deeds : f \in Deeds[x].files}
           keys == {RecordKey(rows[j]) : j \in 1..n}
<1>1. \A j \in 1..n : rows[j] \in RowsRead(f)
  BY DEF RowsRead
<1>2. \A r \in RowsRead(f) : \E j \in 1..n : r = rows[j]
  BY DEF RowsRead
<1>3. \A r \in RowsRead(f) : RowKey(f, r) = RecordKey(r)
  BY DEF RowKey
<1>4. \A j \in 1..n : \E d \in of : RecordKey(rows[j]) = key[d] /\ rows[j].cents = Deeds[d].cents
  BY <1>1, <1>3 DEF RowsTell
<1>5. ASSUME NEW d \in of
      PROVE  \E j \in 1..n : RecordKey(rows[j]) = key[d]
  <2>1. PICK r \in RowsRead(f) : RowKey(f, r) = key[d]
    BY DEF RowsTell
  <2> HIDE DEF rows, n
  <2> QED BY <1>2, <1>3, <2>1
<1>6. ReportedRecords \subseteq DOMAIN Deeds /\ of \subseteq DOMAIN Deeds
  BY DEF ReportedRecords, Reported
<1>7. \A d, e \in DOMAIN Deeds : key[d] = key[e] => d = e
  BY DEF RowsTell
<1>8. /\ DOMAIN s.records = DOMAIN market.records \cup keys
      /\ \A k \in DOMAIN market.records : s.records[k].cents = market.records[k].cents
      /\ \A k \in DOMAIN s.records \ DOMAIN market.records :
           \E j \in 1..n : k = RecordKey(rows[j]) /\ s.records[k].cents = rows[j].cents
  BY DEF RecordsFrom
<1>9. /\ DOMAIN market.records = {key[d] : d \in ReportedRecords}
      /\ \A d \in ReportedRecords : market.records[key[d]].cents = Deeds[d].cents
  BY DEF RowsStored
<1> HIDE DEF rows, n, of
<1>10. keys = {key[d] : d \in of}
  <2>1. \A k \in keys : k \in {key[d] : d \in of}
    BY <1>4
  <2>2. \A d \in of : key[d] \in keys
    BY <1>5
  <2> HIDE DEF keys
  <2> QED BY <2>1, <2>2
<1>11. DOMAIN s.records = {key[d] : d \in ReportedRecords \cup of}
  BY <1>8, <1>9, <1>10
<1>12. ASSUME NEW d \in ReportedRecords \cup of
       PROVE  s.records[key[d]].cents = Deeds[d].cents
  <2>1. CASE key[d] \in DOMAIN market.records
    <3>1. PICK e \in ReportedRecords : key[d] = key[e]
      BY <1>9, <2>1
    <3>2. d = e
      BY <1>6, <1>7, <3>1
    <3> QED BY <1>8, <1>9, <2>1, <3>1, <3>2
  <2>2. CASE key[d] \notin DOMAIN market.records
    <3>1. PICK j \in 1..n : key[d] = RecordKey(rows[j]) /\ s.records[key[d]].cents = rows[j].cents
      BY <1>8, <1>11, <2>2
    <3>2. PICK e \in of : RecordKey(rows[j]) = key[e] /\ rows[j].cents = Deeds[e].cents
      BY <1>4
    <3>3. d = e
      BY <1>6, <1>7, <3>1, <3>2
    <3> QED BY <3>1, <3>2, <3>3
  <2> QED BY <2>1, <2>2
<1> QED BY <1>11, <1>12 DEF of

LEMMA ReportStored ==
  ASSUME NEW key, RowsTell(key), RowsStored(key), NEW f \in DOMAIN Reports, UploadReport(f)
  PROVE  RowsStored(key)'
<1> DEFINE rows == Reading[f].rows
           of == {x \in DOMAIN Deeds : f \in Deeds[x].files}
<1>1. PICK online \in BOOLEAN : market' = ImportFile(market, f, online)
  BY DEF UploadReport
<1> DEFINE s == StoreRows(market, f, rows, online)
           batch == [begins |-> Begins(rows), rows |-> Len(rows),
                     kind |-> IF IsJtl(f) THEN "jtl" ELSE ResolveReportKind(Reports[f])]
           batches2 == Saved(s.batches, f, batch)
           known == f \in DOMAIN market.batches \/ (Reports[f].channel = "xlsx" /\ rows = <<>>)
<1>2. market' = IF known THEN market ELSE [s EXCEPT !.batches = batches2]
  BY <1>1, Zenon DEF ImportFile, ImportRows
<1>3. Len(rows) \in Nat /\ \A j \in 1..Len(rows) : rows[j] \in RowsRead(f) /\ "cents" \in DOMAIN rows[j]
  <2>1. rows \in Seq(RowsRead(f))
    BY DEF RowsTell
  <2>2. \A j \in 1..Len(rows) : rows[j] \in RowsRead(f)
    BY DEF RowsRead
  <2> QED BY <2>1, <2>2 DEF RowsTell
<1>4. IsMarket(market) /\ RecordsOfRows(market, JtlRows)
  BY DEF RowsStored
<1>5. \A d \in of : IsJtlDeed(d) <=> IsJtl(f)
  BY DEF RowsTell, IsJtlDeed
<1> HIDE DEF batch, s, known
<1>6. ASSUME known
      PROVE  RowsStored(key)'
  <2>1. SameRows(market, market')
    BY <1>2, <1>4, <1>6 DEF SameRows
  <2> QED BY <2>1, SameRowsStored
<1>7. ASSUME ~known, IsMarket(s), s.batches = market.batches
      PROVE  /\ IsMarket(market') /\ market'.lines = s.lines /\ market'.records = s.records
             /\ Reported' = Reported \cup of
  <2> DEFINE new == [s EXCEPT !.batches = batches2]
  <2>1. DOMAIN batches2 = DOMAIN market.batches \cup {f}
    BY <1>7 DEF Saved
  <2> HIDE DEF batches2
  <2>2. /\ new.lines = s.lines /\ new.records = s.records /\ new.batches = batches2
        /\ new = [lines |-> new.lines, records |-> new.records, events |-> new.events,
                  exceptions |-> new.exceptions, batches |-> new.batches]
    BY <1>7 DEF IsMarket
  <2> HIDE DEF new
  <2>3. IsMarket(new)
    BY <1>7, <2>2 DEF IsMarket
  <2>4. market' = new
    BY <1>2, <1>7 DEF new
  <2>5. Reported' = {d \in DOMAIN Deeds : Deeds[d].files \cap (DOMAIN market.batches \cup {f}) # {}}
    BY <2>1, <2>2, <2>4 DEF Reported
  <2> QED BY <2>2, <2>3, <2>4, <2>5 DEF Reported
<1>8. ASSUME ~known, ~IsJtl(f)
      PROVE  RowsStored(key)'
  <2>1. s = StoreLines(market, rows, online)
    BY <1>8 DEF StoreRows, s
  <2>2. LinesFrom(s, market, rows, Len(rows))
    BY <1>3, <1>4, <2>1, LinesStored
  <2>3. /\ DOMAIN s.lines = {key[d] : d \in ReportedLines \cup of}
        /\ \A d \in ReportedLines \cup of : s.lines[key[d]].cents = Deeds[d].cents
    BY <1>8, <2>2, LinesShown
  <2>4. /\ IsMarket(market') /\ market'.lines = s.lines /\ market'.records = s.records
        /\ Reported' = Reported \cup of
    BY <1>7, <1>8, <2>2 DEF LinesFrom
  <2>5. ReportedLines' = ReportedLines \cup of /\ ReportedRecords' = ReportedRecords
    BY <1>5, <1>8, <2>4 DEF ReportedLines, ReportedRecords
  <2>6. /\ DOMAIN s.records = DOMAIN market.records
        /\ \A k \in DOMAIN market.records : /\ s.records[k].cents = market.records[k].cents
                                            /\ s.records[k].number = market.records[k].number
    BY <2>2 DEF LinesFrom
  <2>7. RecordsOfRows(market', JtlRows)
    BY <1>4, <2>4, <2>6 DEF RecordsOfRows
  <2>8. /\ DOMAIN s.records = {key[d] : d \in ReportedRecords}
        /\ \A d \in ReportedRecords : s.records[key[d]].cents = Deeds[d].cents
    BY <2>6 DEF RowsStored
  <2> HIDE DEF of
  <2> QED BY <2>3, <2>4, <2>5, <2>7, <2>8 DEF RowsStored
<1>9. ASSUME ~known, IsJtl(f)
      PROVE  RowsStored(key)'
  <2> DEFINE shops == ShopByOrder(rows)
  <2>1. s = StoreRecords(market, rows, shops, online)
    BY <1>9, Zenon DEF StoreRows, s
  <2>2. NumbersTell(JtlRows) /\ \A j \in 1..Len(rows) : rows[j] \in JtlRows /\ IsRecord(rows[j])
    BY <1>3, <1>9 DEF RowsTell, JtlRows
  <2> HIDE DEF shops
  <2>3. RecordsFrom(s, market, rows, 1..Len(rows))
    BY <1>3, <1>4, <2>1, <2>2, RecordsStored
  <2>4. /\ DOMAIN s.records = {key[d] : d \in ReportedRecords \cup of}
        /\ \A d \in ReportedRecords \cup of : s.records[key[d]].cents = Deeds[d].cents
    BY <1>9, <2>3, RecordsShown
  <2>5. /\ IsMarket(market') /\ market'.lines = s.lines /\ market'.records = s.records
        /\ Reported' = Reported \cup of
    BY <1>7, <1>9, <2>3 DEF RecordsFrom
  <2>6. ReportedRecords' = ReportedRecords \cup of /\ ReportedLines' = ReportedLines
    BY <1>5, <1>9, <2>5 DEF ReportedLines, ReportedRecords
  <2>7. RecordsOfRows(s, JtlRows)
    BY <1>4, <2>2, <2>3, RecordsOfMore
  <2>8. RecordsOfRows(market', JtlRows)
    BY <2>5, <2>7 DEF RecordsOfRows
  <2>9. /\ DOMAIN s.lines = {key[d] : d \in ReportedLines}
        /\ \A d \in ReportedLines : s.lines[key[d]].cents = Deeds[d].cents
    BY <2>3 DEF RowsStored, RecordsFrom
  <2> HIDE DEF of
  <2> QED BY <2>4, <2>5, <2>6, <2>8, <2>9 DEF RowsStored
<1> QED BY <1>6, <1>8, <1>9

LEMMA RowsNext ==
  ASSUME NEW key, RowsTell(key), RowsStored(key), [Next]_vars
  PROVE  RowsStored(key)'
<1>1. IsMarket(market)
  BY DEF RowsStored
<1>2. CASE UNCHANGED market
  <2>1. SameRows(market, market')
    BY <1>1, <1>2 DEF SameRows
  <2> QED BY <2>1, SameRowsStored
<1>3. ASSUME NEW events, market' = [market EXCEPT !.events = events]
      PROVE  RowsStored(key)'
  BY <1>1, <1>3, EventsSame, SameRowsStored
<1>4. ASSUME NEW i, NEW t, SetTreatment(i, t)
      PROVE  RowsStored(key)'
  <2> DEFINE events == [market.events EXCEPT ![i].treatment = t]
  <2>1. market' = [market EXCEPT !.events = events]
    BY <1>4 DEF SetTreatment
  <2> HIDE DEF events
  <2> QED BY <1>3, <2>1
<1>5. ASSUME NEW i, NEW p, MatchPayout(i, p)
      PROVE  RowsStored(key)'
  <2> DEFINE one == [market.events EXCEPT ![i].status = "matched"]
             events == [one EXCEPT ![i].linked = p]
  <2>1. market' = [market EXCEPT !.events = events]
    BY <1>5 DEF MatchPayout
  <2> HIDE DEF events
  <2> QED BY <1>3, <2>1
<1>6. \/ UNCHANGED market
      \/ \E f \in DOMAIN Reports : UploadReport(f)
      \/ \E i, t : SetTreatment(i, t)
      \/ \E i, p : MatchPayout(i, p)
  BY DEF Next, MarketStep, vars
<1> QED BY <1>2, <1>4, <1>5, <1>6, ReportStored

\* What has different keys: as many as the members of S, and as much.
LEMMA KnownBy ==
  ASSUME NEW S, IsFiniteSet(S), NEW key, \A d, e \in S : key[d] = key[e] => d = e,
         NEW w \in [S -> Int], NEW T, NEW u \in [T -> Int],
         \A d \in S : key[d] \in T /\ u[key[d]] = w[d],
         \A t \in T : \E d \in S : key[d] = t
  PROVE  /\ Cardinality(T) = Cardinality(S)
         /\ SumFunction(u) = Total(S, w)
<1> DEFINE g == [d \in S |-> key[d]]
<1>1. /\ g \in [S -> T]
      /\ \A x, y \in S : g[x] = g[y] => x = y
      /\ \A t \in T : \E x \in S : g[x] = t
  OBVIOUS
<1>2. \A x \in S : u[g[x]] = w[x]
  OBVIOUS
<1> HIDE DEF g
<1>4. g \in Bijection(S, T)
  BY <1>1 DEF Bijection, Injection, Surjection, IsInjective
<1>5. IsFiniteSet(T) /\ Cardinality(T) = Cardinality(S)
  <2>1. ExistsBijection(S, T)
    BY <1>4 DEF ExistsBijection
  <2> QED BY <2>1, FS_Bijection
<1>6. Total(S, [x \in S |-> u[g[x]]]) = Total(T, u)
  BY <1>1, <1>5, SumKnownBy
<1>7. [x \in S |-> u[g[x]]] = w
  BY <1>2
<1>8. SumFunction(u) = Total(T, u)
  BY <1>5, Sums
<1> QED BY <1>5, <1>6, <1>7, <1>8

\* A sum is that of the two parts of a set.
LEMMA SumParts ==
  ASSUME NEW S, IsFiniteSet(S), NEW w \in [S -> Int], NEW A, NEW B, A \cup B = S, A \cap B = {}
  PROVE  Total(S, w) = Total(A, w) + Total(B, w)
<1> DEFINE u == [x \in S |-> IF x \in A THEN w[x] ELSE 0]
           v == [x \in S |-> IF x \in B THEN w[x] ELSE 0]
<1>1. /\ u \in [S -> Int] /\ v \in [S -> Int] /\ \A x \in S : w[x] = u[x] + v[x]
      /\ \A x \in S \ A : u[x] = 0
      /\ \A x \in S \ B : v[x] = 0
  OBVIOUS
<1>2. [x \in A |-> u[x]] = [x \in A |-> w[x]] /\ [x \in B |-> v[x]] = [x \in B |-> w[x]]
  OBVIOUS
<1> HIDE DEF u, v
<1>3. Total(S, w) = Total(S, u) + Total(S, v)
  BY <1>1, SumPlus
<1>4. Total(S, u) = Total(A, u) /\ Total(S, v) = Total(B, v)
  BY <1>1, SumWithin
<1>5. Total(A, u) = Total(A, w) /\ Total(B, v) = Total(B, w)
  BY <1>2 DEF Total
<1> QED BY <1>3, <1>4, <1>5

LEMMA RowsOnceEach ==
  ASSUME NEW key, RowsTell(key), RowsStored(key)
  PROVE  EveryRowOnce
<1> DEFINE S == Reported
           A == ReportedLines
           B == ReportedRecords
           w == [d \in S |-> Deeds[d].cents]
           wA == [d \in A |-> Deeds[d].cents]
           wB == [d \in B |-> Deeds[d].cents]
<1>1. /\ A \cup B = S /\ A \cap B = {} /\ S \subseteq DOMAIN Deeds
      /\ \A d, e \in DOMAIN Deeds : key[d] = key[e] => d = e
  BY DEF ReportedLines, ReportedRecords, Reported, RowsTell
<1>2. IsFiniteSet(S) /\ IsFiniteSet(A) /\ IsFiniteSet(B)
  <2>1. IsFiniteSet(DOMAIN Deeds)
    BY DEF RowsTell
  <2> HIDE DEF S, A, B
  <2> QED BY <1>1, <2>1, FS_Subset
<1>3. \A d \in DOMAIN Deeds : Deeds[d].cents \in Int
  BY DEF RowsTell
<1>4. w \in [S -> Int] /\ wA \in [A -> Int] /\ wB \in [B -> Int]
  <2> HIDE DEF S, A, B
  <2> QED BY <1>1, <1>3
<1>5. /\ Cardinality(DOMAIN market.lines) = Cardinality(A)
      /\ SumFunction([k \in DOMAIN market.lines |-> market.lines[k].cents]) = Total(A, wA)
  <2> DEFINE T == DOMAIN market.lines
             u == [k \in T |-> market.lines[k].cents]
  <2>1. T = {key[d] : d \in A} /\ \A d \in A : u[key[d]] = wA[d]
    BY DEF RowsStored
  <2>a. /\ \A d \in A : key[d] \in T /\ u[key[d]] = wA[d]
        /\ \A t \in T : \E d \in A : key[d] = t
    <3> HIDE DEF S, A, B, wA, T, u
    <3> QED BY <2>1
  <2>2. \A d, e \in A : key[d] = key[e] => d = e
    BY <1>1
  <2>3. u \in [T -> Int]
    <3>1. DOMAIN u = T /\ u = [k \in T |-> u[k]]
      OBVIOUS
    <3>2. \A k \in T : u[k] \in Int
      <4> HIDE DEF S, A, B, wA, wB, T, u
      <4> QED BY <1>4, <2>a
    <3> HIDE DEF T, u
    <3> QED BY <3>1, <3>2
  <2> HIDE DEF S, A, B, wA, T, u
  <2>4. Cardinality(T) = Cardinality(A) /\ SumFunction(u) = Total(A, wA)
    BY <1>2, <1>4, <2>a, <2>2, <2>3, KnownBy
  <2> QED BY <2>4 DEF T, u
<1>6. /\ Cardinality(DOMAIN market.records) = Cardinality(B)
      /\ SumFunction([k \in DOMAIN market.records |-> market.records[k].cents]) = Total(B, wB)
  <2> DEFINE T == DOMAIN market.records
             u == [k \in T |-> market.records[k].cents]
  <2>1. T = {key[d] : d \in B} /\ \A d \in B : u[key[d]] = wB[d]
    BY DEF RowsStored
  <2>a. /\ \A d \in B : key[d] \in T /\ u[key[d]] = wB[d]
        /\ \A t \in T : \E d \in B : key[d] = t
    <3> HIDE DEF S, A, B, wB, T, u
    <3> QED BY <2>1
  <2>2. \A d, e \in B : key[d] = key[e] => d = e
    BY <1>1
  <2>3. u \in [T -> Int]
    <3>1. DOMAIN u = T /\ u = [k \in T |-> u[k]]
      OBVIOUS
    <3>2. \A k \in T : u[k] \in Int
      <4> HIDE DEF S, A, B, wA, wB, T, u
      <4> QED BY <1>4, <2>a
    <3> HIDE DEF T, u
    <3> QED BY <3>1, <3>2
  <2> HIDE DEF S, A, B, wB, T, u
  <2>4. Cardinality(T) = Cardinality(B) /\ SumFunction(u) = Total(B, wB)
    BY <1>2, <1>4, <2>a, <2>2, <2>3, KnownBy
  <2> QED BY <2>4 DEF T, u
<1>7. [x \in A |-> w[x]] = [x \in A |-> wA[x]] /\ [x \in B |-> w[x]] = [x \in B |-> wB[x]]
  <2> HIDE DEF S, A, B
  <2> QED BY <1>1
<1> HIDE DEF S, A, B, wA, wB
<1>8. SumFunction(w) = Total(S, w)
  BY <1>2, <1>4, Sums
<1> HIDE DEF w
<1>9. Total(S, w) = Total(A, w) + Total(B, w)
  BY <1>1, <1>2, <1>4, SumParts
<1>10. Total(A, w) = Total(A, wA) /\ Total(B, w) = Total(B, wB)
  BY <1>7 DEF Total
<1>11. Cardinality(A) + Cardinality(B) = Cardinality(S)
  <2>1. Cardinality(A \cup B) = Cardinality(A) + Cardinality(B) - Cardinality({})
    BY <1>1, <1>2, FS_Union
  <2>2. Cardinality(A) \in Nat /\ Cardinality(B) \in Nat /\ Cardinality({}) = 0
    BY <1>2, FS_EmptySet, FS_CardinalityType
  <2>3. Cardinality(A \cup B) = Cardinality(A) + Cardinality(B)
    BY <2>1, <2>2
  <2> QED BY <1>1, <2>3
<1> QED BY <1>5, <1>6, <1>8, <1>9, <1>10, <1>11 DEF EveryRowOnce, S, w

\* Whatever reports are uploaded, in whatever order and with the rates at hand
\* or not, and whatever matching makes of the events: each row they show is
\* stored once, if its key, or the number of an invoice, is its own.
THEOREM RowsOnce ==
  ASSUME NEW CONSTANT key, RowsTell(key)
  PROVE  Spec => []EveryRowOnce
<1>1. Init => RowsStored(key)
  <2> SUFFICES ASSUME Init PROVE RowsStored(key)
    OBVIOUS
  <2>1. market = NoMarket
    BY DEF Init
  <2>2. IsMarket(market) /\ DOMAIN market.lines = {} /\ DOMAIN market.records = {}
    BY <2>1 DEF NoMarket, IsMarket
  <2>3. Reported = {}
    BY <2>1 DEF NoMarket, Reported
  <2> QED BY <2>2, <2>3 DEF RowsStored, RecordsOfRows, ReportedLines, ReportedRecords
<1>2. RowsStored(key) /\ [Next]_vars => RowsStored(key)'
  BY RowsNext
<1>3. RowsStored(key) => EveryRowOnce
  BY RowsOnceEach
<1> QED BY <1>1, <1>2, <1>3, PTL DEF Spec

\* Both books hold what the uploaded files show, once.
THEOREM RecordsOnce ==
  ASSUME NEW CONSTANT print, PrintsTell(print), NEW CONSTANT key, RowsTell(key)
  PROVE  Spec => []EveryRecordOnce
<1>1. EveryPaymentOnce /\ EveryRowOnce => EveryRecordOnce
  BY DEF EveryRecordOnce
<1>2. Spec => []EveryPaymentOnce
  BY PaymentsOnce
<1>3. Spec => []EveryRowOnce
  BY RowsOnce
<1> QED BY <1>1, <1>2, <1>3, PTL

----------------------------------------------------------------------------
(* Nothing escapes the office.                                             *)

LineFields == {"marketplace", "kind", "id", "order", "day", "currency", "cents", "eur",
               "cancelled", "shipped"}
LineKinds == {"order", "fee", "refund", "settlement", "payout", "adjustment", "unknown"}

IsLine(l) ==
  /\ LineFields \subseteq DOMAIN l
  /\ l.kind \in LineKinds /\ l.cancelled \in BOOLEAN /\ l.shipped \in BOOLEAN

JtlIds == {r.id : r \in JtlRows}

\* The documents of the books, as the reports rely on them: an event has its
\* amounts, and comes from a file that was uploaded.
EventOf(e, files) ==
  /\ {"type", "source", "marketplace", "order", "day", "cents", "eur", "status",
      "treatment", "linked"} \subseteq DOMAIN e
  /\ e.cents \in Int /\ e.eur \in Int \cup {Null}
  /\ \/ e.source = "jtl" /\ \E f \in files : IsJtl(f)
     \/ e.source = "marketplace" /\ \E f \in files : ~IsJtl(f) /\ e.marketplace = Reports[f].channel

Documents(m, files) ==
  /\ IsMarket(m)
  /\ IsFiniteSet(m.exceptions) /\ IsFiniteSet(DOMAIN m.events) /\ <<>> \notin DOMAIN m.events
  /\ \A k \in DOMAIN m.lines : /\ IsLine(m.lines[k]) /\ "event" \in DOMAIN m.lines[k]
                               /\ k = BuildMarketplaceTxnKey(m.lines[k])
                               /\ m.lines[k].event \in DOMAIN m.events \cup {<<>>}
  /\ \A k \in DOMAIN m.records : {"order", "kind", "event"} \subseteq DOMAIN m.records[k]
  /\ \A i \in DOMAIN m.events : EventOf(m.events[i], files)

\* An event that waits was made for an order of a marketplace; an event that
\* is one, for such a row or for a record of JTL.
Linked(m) ==
  /\ \A k \in DOMAIN m.lines :
       LET l == m.lines[k] IN
       l.event \in DOMAIN m.events =>
         /\ m.events[l.event].order = l.order
         /\ m.events[l.event].type = "ORDER_CREATED" => l.kind = "order" /\ ~l.cancelled
  /\ \A i \in DOMAIN m.events :
       m.events[i].status = "invoice_pending" =>
         m.events[i].type = "ORDER_CREATED" /\ \E k \in DOMAIN m.lines : m.lines[k].event = i
  /\ \A i \in DOMAIN m.events :
       i[1] = "ORDER_CREATED" => <<i[2], i[4], "order">> \in DOMAIN m.lines \/ i[4] \in JtlIds

Invoiced(m, order) == \E r \in RecordsOf(m, order) : IsInvoice(r)
Cancelled(m, order) == AmazonStatus(m, order).cancelled
Missed(m, order) == \E x \in m.exceptions : x.kind = "MISSING_INVOICE" /\ x.order = order

\* What waits has its exception, and so has what will wait once it is matched.
Awaited(m) ==
  /\ \A i \in DOMAIN m.events :
       m.events[i].status = "invoice_pending" => Missed(m, m.events[i].order)
  /\ \A k \in DOMAIN m.lines :
       LET l == m.lines[k] IN
       /\ l.kind = "order" /\ l.shipped /\ ~l.cancelled
       /\ ~Invoiced(m, l.order) /\ ~Cancelled(m, l.order)
       => Missed(m, l.order)

InStep(m, files) == Documents(m, files) /\ Linked(m) /\ Awaited(m)

LEMMA InvoicedRecord ==
  ASSUME NEW m, NEW order
  PROVE  Invoiced(m, order) <=> \E k \in DOMAIN m.records :
           order # <<>> /\ m.records[k].order = order /\ IsInvoice(m.records[k])
BY DEF Invoiced, RecordsOf, Values

LEMMA AmazonLines ==
  ASSUME NEW m, NEW order
  PROVE  /\ AmazonStatus(m, order).cancelled <=>
              \E k \in DOMAIN m.lines :
                /\ order # <<>> /\ m.lines[k].order = order /\ m.lines[k].marketplace = "amazon"
                /\ m.lines[k].kind = "order" /\ m.lines[k].cancelled
         /\ AmazonStatus(m, order).shipped <=>
              \E k \in DOMAIN m.lines :
                /\ order # <<>> /\ m.lines[k].order = order /\ m.lines[k].marketplace = "amazon"
                /\ m.lines[k].kind = "order" /\ m.lines[k].shipped
<1> DEFINE rows == {l \in LinesOf(m, order) : l.marketplace = "amazon" /\ l.kind = "order"}
           c == \E l \in rows : l.cancelled
           s == \E l \in rows : l.shipped
<1>1. \A l : l \in rows <=> \E k \in DOMAIN m.lines :
        /\ l = m.lines[k] /\ order # <<>> /\ l.order = order
        /\ l.marketplace = "amazon" /\ l.kind = "order"
  BY DEF LinesOf, Values
<1>2. AmazonStatus(m, order) = [cancelled |-> c, shipped |-> s]
  BY Zenon DEF AmazonStatus
<1> HIDE DEF c, s
<1>3. AmazonStatus(m, order).cancelled = c /\ AmazonStatus(m, order).shipped = s
  BY <1>2
<1> HIDE DEF rows
<1>4. /\ AmazonStatus(m, order).cancelled <=> \E l \in rows : l.cancelled
      /\ AmazonStatus(m, order).shipped <=> \E l \in rows : l.shipped
  BY <1>3, Zenon DEF c, s
<1> DEFINE row(k) == m.lines[k]
           of(k) == /\ order # <<>> /\ row(k).order = order /\ row(k).marketplace = "amazon"
                    /\ row(k).kind = "order"
<1>5. /\ \A l \in rows : \E k \in DOMAIN m.lines : l = row(k) /\ of(k)
      /\ \A k \in DOMAIN m.lines : of(k) => row(k) \in rows
  BY <1>1
<1> HIDE DEF row, of
<1>6. /\ (\E l \in rows : l.cancelled) <=> \E k \in DOMAIN m.lines : of(k) /\ row(k).cancelled
      /\ (\E l \in rows : l.shipped) <=> \E k \in DOMAIN m.lines : of(k) /\ row(k).shipped
  BY <1>5
<1> QED BY <1>4, <1>6 DEF row, of

\* The books of m with other exceptions, as long as nobody misses one.
LEMMA ExceptionsInStep ==
  ASSUME NEW m, NEW files, InStep(m, files), NEW exceptions, IsFiniteSet(exceptions),
         LET n == [m EXCEPT !.exceptions = exceptions]
         IN \A order : Missed(m, order) => Missed(n, order)
  PROVE  InStep([m EXCEPT !.exceptions = exceptions], files)
<1> DEFINE n == [m EXCEPT !.exceptions = exceptions]
<1>1. /\ IsMarket(n) /\ n.lines = m.lines /\ n.records = m.records /\ n.events = m.events
      /\ n.exceptions = exceptions
  BY DEF InStep, Documents, IsMarket
<1>2. \A order : Missed(m, order) => Missed(n, order)
  OBVIOUS
<1> HIDE DEF n
<1>3. \A order : (Invoiced(n, order) <=> Invoiced(m, order)) /\ (Cancelled(n, order) <=> Cancelled(m, order))
  BY <1>1, InvoicedRecord, AmazonLines DEF Cancelled
<1>4. Documents(n, files)
  BY <1>1 DEF InStep, Documents
<1>5. Linked(n)
  BY <1>1 DEF InStep, Linked
<1>6. Awaited(n)
  BY <1>1, <1>2, <1>3 DEF InStep, Awaited
<1> QED BY <1>4, <1>5, <1>6 DEF InStep, n

LEMMA RaisedInStep ==
  ASSUME NEW m, NEW files, InStep(m, files), NEW condition, NEW kind, NEW order, NEW about
  PROVE  /\ InStep(Raise(m, kind, order, about), files)
         /\ InStep(RaiseIf(condition, m, kind, order, about), files)
<1> DEFINE all == m.exceptions \cup {[kind |-> kind, order |-> order, about |-> about]}
           n == [m EXCEPT !.exceptions = all]
<1>1. IsFiniteSet(all)
  BY FS_Singleton, FS_Union DEF InStep, Documents
<1>2. n.exceptions = all
  BY DEF InStep, Documents, IsMarket
<1>3. \A o : Missed(m, o) => Missed(n, o)
  BY <1>2 DEF Missed
<1>4. Raise(m, kind, order, about) = n
  BY DEF Raise
<1> HIDE DEF all
<1>5. InStep(n, files)
  BY <1>1, <1>3, ExceptionsInStep
<1> QED BY <1>4, <1>5, Zenon DEF RaiseIf

\* n has what m has, and a line of that key, with an event of its own or none.
LineOf(n, m, key, line, i, event) ==
  /\ IsMarket(n)
  /\ DOMAIN n.lines = DOMAIN m.lines \cup {key}
  /\ \A k \in DOMAIN m.lines : n.lines[k] = m.lines[k]
  /\ LineFields \cup {"event"} \subseteq DOMAIN n.lines[key]
  /\ \A x \in LineFields : n.lines[key][x] = line[x]
  /\ n.records = m.records
  /\ IsFiniteSet(n.exceptions) /\ m.exceptions \subseteq n.exceptions
  /\ \/ i \in DOMAIN m.events /\ n.events = m.events /\ n.lines[key].event = <<>>
     \/ i \notin DOMAIN m.events /\ n.events = Saved(m.events, i, event) /\ n.lines[key].event = i

LEMMA NewLineInStep ==
  ASSUME NEW m, NEW files, InStep(m, files), NEW line, IsLine(line),
         NEW key, key = <<line.marketplace, line.id, line.kind>>, key \notin DOMAIN m.lines,
         line.id \notin JtlIds,
         NEW first, first = "ORDER_CREATED" <=> line.kind = "order" /\ ~line.cancelled,
         NEW event, EventOf(event, files), event.order = line.order,
         event.type = "ORDER_CREATED" => first = "ORDER_CREATED",
         NEW n, LineOf(n, m, key, line, <<first, line.marketplace, line.order, line.id>>, event),
         NEW waits, waits <=> first = "ORDER_CREATED" /\ line.shipped /\ ~Invoiced(m, line.order),
         event.status = "invoice_pending" => waits /\ event.type = "ORDER_CREATED",
         n.events # m.events /\ waits => Missed(n, line.order)
  PROVE  InStep(n, files)
<1> DEFINE i == <<first, line.marketplace, line.order, line.id>>
           l == n.lines[key]
<1>1. /\ DOMAIN n.lines = DOMAIN m.lines \cup {key} /\ n.records = m.records
      /\ \A k \in DOMAIN m.lines : n.lines[k] = m.lines[k]
      /\ m.exceptions \subseteq n.exceptions
  BY DEF LineOf
<1>2. /\ l.order = line.order /\ l.kind = line.kind /\ l.cancelled = line.cancelled
      /\ l.shipped = line.shipped /\ l.marketplace = line.marketplace /\ l.id = line.id
      /\ IsLine(l) /\ "event" \in DOMAIN l
  BY DEF LineOf, LineFields, IsLine
<1>3. key = BuildMarketplaceTxnKey(l)
  BY <1>2, Zenon DEF BuildMarketplaceTxnKey
<1>4. \/ i \in DOMAIN m.events /\ n.events = m.events /\ l.event = <<>>
      \/ i \notin DOMAIN m.events /\ n.events = Saved(m.events, i, event) /\ l.event = i
  BY Zenon DEF LineOf
<1>5. i # <<>> /\ i[1] = first
  OBVIOUS
<1>6. first = "ORDER_CREATED" => i \notin DOMAIN m.events
  <2>1. first = "ORDER_CREATED" /\ i \in DOMAIN m.events => <<line.marketplace, line.id, "order">> \in DOMAIN m.lines
    BY DEF InStep, Linked
  <2> QED BY <2>1
<1> HIDE DEF i, l
<1>7. /\ \A j \in DOMAIN m.events : j \in DOMAIN n.events /\ n.events[j] = m.events[j]
      /\ \A j \in DOMAIN n.events : j \in DOMAIN m.events \/ (j = i /\ n.events[j] = event /\ l.event = i)
      /\ l.event = i => i \in DOMAIN n.events /\ n.events[i] = event
      /\ l.event \in DOMAIN n.events \cup {<<>>}
      /\ <<>> \notin DOMAIN n.events
      /\ IsFiniteSet(DOMAIN n.events)
      /\ l.event \in DOMAIN n.events => l.event = i
  <2>1. <<>> \notin DOMAIN m.events /\ IsFiniteSet(DOMAIN m.events)
    BY DEF InStep, Documents
  <2>2. CASE i \in DOMAIN m.events
    BY <1>4, <1>5, <2>1, <2>2
  <2>3. CASE i \notin DOMAIN m.events
    <3>1. /\ DOMAIN n.events = DOMAIN m.events \cup {i} /\ n.events[i] = event
          /\ \A j \in DOMAIN m.events : n.events[j] = m.events[j]
      BY <1>4, <2>3 DEF Saved
    <3>2. IsFiniteSet(DOMAIN n.events)
      BY <2>1, <3>1, FS_AddElement
    <3> QED BY <1>4, <1>5, <2>1, <2>3, <3>1, <3>2
  <2> QED BY <2>2, <2>3
<1>8. Documents(n, files)
  <2>1. ASSUME NEW k \in DOMAIN n.lines
        PROVE  /\ IsLine(n.lines[k]) /\ "event" \in DOMAIN n.lines[k]
               /\ k = BuildMarketplaceTxnKey(n.lines[k])
               /\ n.lines[k].event \in DOMAIN n.events \cup {<<>>}
    <3>1. CASE k = key
      BY <1>2, <1>3, <1>7, <3>1 DEF l
    <3>2. CASE k # key
      BY <1>1, <1>7, <3>2 DEF InStep, Documents
    <3> QED BY <3>1, <3>2
  <2>2. \A j \in DOMAIN n.events : EventOf(n.events[j], files)
    BY <1>7 DEF InStep, Documents
  <2>3. \A k \in DOMAIN n.records : {"order", "kind", "event"} \subseteq DOMAIN n.records[k]
    BY <1>1 DEF InStep, Documents
  <2> QED BY <1>7, <2>1, <2>2, <2>3 DEF Documents, LineOf
<1>9. \A order : Missed(m, order) => Missed(n, order)
  BY <1>1 DEF Missed
<1>10. \A order : (Invoiced(n, order) <=> Invoiced(m, order)) /\ (Cancelled(m, order) => Cancelled(n, order))
  BY <1>1, InvoicedRecord, AmazonLines DEF Cancelled
<1>11. Linked(n)
  <2>1. ASSUME NEW k \in DOMAIN n.lines, n.lines[k].event \in DOMAIN n.events
        PROVE  LET e == n.events[n.lines[k].event] IN
               /\ e.order = n.lines[k].order
               /\ e.type = "ORDER_CREATED" => n.lines[k].kind = "order" /\ ~n.lines[k].cancelled
    <3>1. CASE k = key
      <4>1. n.lines[k].event = i /\ n.events[i] = event
        BY <1>7, <2>1, <3>1 DEF l
      <4> QED BY <1>2, <3>1, <4>1 DEF l
    <3>2. CASE k # key
      <4>1. k \in DOMAIN m.lines /\ n.lines[k] = m.lines[k]
        BY <1>1, <3>2
      <4>2. m.lines[k].event \in DOMAIN m.events
        BY <1>7, <2>1, <4>1 DEF InStep, Documents
      <4> QED BY <1>7, <4>1, <4>2 DEF InStep, Linked
    <3> QED BY <3>1, <3>2
  <2>2. ASSUME NEW j \in DOMAIN n.events, n.events[j].status = "invoice_pending"
        PROVE  n.events[j].type = "ORDER_CREATED" /\ \E k \in DOMAIN n.lines : n.lines[k].event = j
    <3>1. CASE j \in DOMAIN m.events
      <4>1. n.events[j] = m.events[j]
        BY <1>7, <3>1
      <4> QED BY <1>1, <2>2, <3>1, <4>1 DEF InStep, Linked
    <3>2. CASE j \notin DOMAIN m.events
      BY <1>1, <1>7, <2>2, <3>2 DEF l
    <3> QED BY <3>1, <3>2
  <2>3. ASSUME NEW j \in DOMAIN n.events, j[1] = "ORDER_CREATED"
        PROVE  <<j[2], j[4], "order">> \in DOMAIN n.lines \/ j[4] \in JtlIds
    <3>1. CASE j \in DOMAIN m.events
      BY <1>1, <2>3, <3>1 DEF InStep, Linked
    <3>2. CASE j \notin DOMAIN m.events
      <4>1. first = "ORDER_CREATED" /\ j[2] = line.marketplace /\ j[4] = line.id
        BY <1>7, <2>3, <3>2 DEF i
      <4> QED BY <1>1, <4>1
    <3> QED BY <3>1, <3>2
  <2> QED BY <2>1, <2>2, <2>3 DEF Linked
<1>12. Awaited(n)
  <2>1. ASSUME NEW j \in DOMAIN n.events, n.events[j].status = "invoice_pending"
        PROVE  Missed(n, n.events[j].order)
    <3>1. CASE j \in DOMAIN m.events
      <4>1. n.events[j] = m.events[j]
        BY <1>7, <3>1
      <4> QED BY <1>9, <2>1, <3>1, <4>1 DEF InStep, Awaited
    <3>2. CASE j \notin DOMAIN m.events
      <4>1. n.events # m.events /\ n.events[j] = event
        BY <1>7, <3>2
      <4> QED BY <2>1, <4>1
    <3> QED BY <3>1, <3>2
  <2>2. ASSUME NEW k \in DOMAIN n.lines,
               n.lines[k].kind = "order", n.lines[k].shipped, ~n.lines[k].cancelled,
               ~Invoiced(n, n.lines[k].order), ~Cancelled(n, n.lines[k].order)
        PROVE  Missed(n, n.lines[k].order)
    <3>1. CASE k = key
      <4>1. first = "ORDER_CREATED" /\ line.shipped /\ ~Invoiced(m, line.order)
        BY <1>2, <1>10, <2>2, <3>1 DEF l
      <4>2. n.events # m.events
        BY <1>4, <1>6, <1>7, <4>1
      <4> QED BY <1>2, <3>1, <4>1, <4>2 DEF l
    <3>2. CASE k # key
      <4>1. k \in DOMAIN m.lines /\ n.lines[k] = m.lines[k]
        BY <1>1, <3>2
      <4> QED BY <1>9, <1>10, <2>2, <4>1 DEF InStep, Awaited
    <3> QED BY <3>1, <3>2
  <2> QED BY <2>1, <2>2 DEF Awaited
<1> QED BY <1>8, <1>11, <1>12 DEF InStep


\* What a document of a row has.
LEMMA UnlinkedHas ==
  ASSUME NEW line
  PROVE  /\ DOMAIN Unlinked(line) = DOMAIN line \cup {"event"}
         /\ Unlinked(line).event = <<>>
         /\ \A x \in DOMAIN line : x # "event" => Unlinked(line)[x] = line[x]
BY DEF Unlinked

LEMMA EventHas ==
  ASSUME NEW type, NEW source, NEW row, NEW order, NEW state, NEW eur
  PROVE  LET e == Event(type, source, row, order, state, eur)
         IN /\ {"type", "source", "marketplace", "order", "day", "cents", "eur", "status",
                "treatment", "linked"} \subseteq DOMAIN e
            /\ e.type = type /\ e.source = source /\ e.marketplace = row.marketplace
            /\ e.order = order /\ e.cents = row.cents /\ e.eur = eur /\ e.status = state
BY DEF Event

\* Documents of which one has been given an event.
EventGiven(new, old, key, id) ==
  /\ DOMAIN new = DOMAIN old
  /\ \A k \in DOMAIN old : k # key => new[k] = old[k]
  /\ DOMAIN new[key] = DOMAIN old[key] /\ new[key].event = id
  /\ \A x \in DOMAIN old[key] : x # "event" => new[key][x] = old[key][x]

LineGiven(m, key, id, event) == [CreateEvent(m, id, event) EXCEPT !.lines[key].event = id]
RecordGiven(m, key, id, event) == [CreateEvent(m, id, event) EXCEPT !.records[key].event = id]

\* The books with a new event of a line.
LEMMA LineIsGiven ==
  ASSUME NEW m, IsMarket(m), NEW key \in DOMAIN m.lines, "event" \in DOMAIN m.lines[key],
         NEW id, NEW event
  PROVE  LET n == LineGiven(m, key, id, event)
         IN /\ IsMarket(n) /\ EventGiven(n.lines, m.lines, key, id)
            /\ n.records = m.records /\ n.events = Saved(m.events, id, event)
            /\ n.exceptions = m.exceptions
<1> DEFINE n == LineGiven(m, key, id, event)
           events == Saved(m.events, id, event)
           more == [m EXCEPT !.events = events]
           given == [m.lines EXCEPT ![key].event = id]
<1>1. n = [CreateEvent(m, id, event) EXCEPT !.lines[key].event = id]
  BY DEF LineGiven
<1>2. CreateEvent(m, id, event) = more
  BY DEF CreateEvent
<1> HIDE DEF events, n
<1>3. /\ more.lines = m.lines /\ more.records = m.records /\ more.events = events
      /\ more.exceptions = m.exceptions /\ IsMarket(more)
  BY DEF IsMarket
<1> HIDE DEF more
<1>4. n = [more EXCEPT !.lines = given]
  BY <1>1, <1>2, <1>3
<1>5. \A k \in DOMAIN given : "cents" \in DOMAIN given[k]
  BY DEF IsMarket
<1>6. EventGiven(given, m.lines, key, id)
  BY DEF EventGiven
<1> HIDE DEF given
<1>7. /\ IsMarket(n) /\ n.lines = given
      /\ n.records = m.records /\ n.events = events /\ n.exceptions = m.exceptions
  BY <1>3, <1>4, <1>5 DEF IsMarket
<1> QED BY <1>6, <1>7 DEF n, events

\* The same, of a record.
LEMMA RecordIsGiven ==
  ASSUME NEW m, IsMarket(m), NEW key \in DOMAIN m.records, "event" \in DOMAIN m.records[key],
         NEW id, NEW event
  PROVE  LET n == RecordGiven(m, key, id, event)
         IN /\ IsMarket(n) /\ EventGiven(n.records, m.records, key, id)
            /\ n.lines = m.lines /\ n.events = Saved(m.events, id, event)
            /\ n.exceptions = m.exceptions
<1> DEFINE n == RecordGiven(m, key, id, event)
           events == Saved(m.events, id, event)
           more == [m EXCEPT !.events = events]
           given == [m.records EXCEPT ![key].event = id]
<1>1. n = [CreateEvent(m, id, event) EXCEPT !.records[key].event = id]
  BY DEF RecordGiven
<1>2. CreateEvent(m, id, event) = more
  BY DEF CreateEvent
<1> HIDE DEF events, n
<1>3. /\ more.records = m.records /\ more.lines = m.lines /\ more.events = events
      /\ more.exceptions = m.exceptions /\ IsMarket(more)
  BY DEF IsMarket
<1> HIDE DEF more
<1>4. n = [more EXCEPT !.records = given]
  BY <1>1, <1>2, <1>3
<1>5. \A k \in DOMAIN given : {"cents", "number"} \subseteq DOMAIN given[k]
  BY DEF IsMarket
<1>6. EventGiven(given, m.records, key, id)
  BY DEF EventGiven
<1> HIDE DEF given
<1>7. /\ IsMarket(n) /\ n.records = given
      /\ n.lines = m.lines /\ n.events = events /\ n.exceptions = m.exceptions
  BY <1>3, <1>4, <1>5 DEF IsMarket
<1> QED BY <1>6, <1>7 DEF n, events

\* The books with the document of a row that has no event yet.
LineStored(new, m, key, line) ==
  /\ IsMarket(new) /\ DOMAIN new.lines = DOMAIN m.lines \cup {key}
  /\ \A k \in DOMAIN m.lines : new.lines[k] = m.lines[k]
  /\ LineFields \cup {"event"} \subseteq DOMAIN new.lines[key]
  /\ \A x \in LineFields : new.lines[key][x] = line[x]
  /\ new.lines[key].event = <<>>
  /\ new.records = m.records /\ new.events = m.events /\ new.exceptions = m.exceptions

RecordStored(new, m, key) ==
  /\ IsMarket(new) /\ new.lines = m.lines
  /\ DOMAIN new.records = DOMAIN m.records \cup {key}
  /\ \A k \in DOMAIN m.records : new.records[k] = m.records[k]
  /\ {"order", "kind", "event"} \subseteq DOMAIN new.records[key]
  /\ new.events = m.events /\ new.exceptions = m.exceptions

LEMMA LineIsStored ==
  ASSUME NEW m, IsMarket(m), NEW line, IsLine(line), "cents" \in DOMAIN line,
         NEW key, key \notin DOMAIN m.lines
  PROVE  LET new == [m EXCEPT !.lines = Saved(m.lines, key, Unlinked(line))]
         IN LineStored(new, m, key, line) /\ new.batches = m.batches
<1> DEFINE doc == Unlinked(line)
           kept == Saved(m.lines, key, doc)
           new == [m EXCEPT !.lines = kept]
<1>1. /\ DOMAIN kept = DOMAIN m.lines \cup {key} /\ kept[key] = doc
      /\ \A k \in DOMAIN m.lines : kept[k] = m.lines[k]
  <2> HIDE DEF doc
  <2> QED BY DEF Saved
<1>2. /\ LineFields \cup {"event"} \subseteq DOMAIN doc /\ doc.event = <<>>
      /\ \A x \in LineFields : doc[x] = line[x]
  <2>1. LineFields \subseteq DOMAIN line /\ "event" \notin LineFields
    BY DEF IsLine, LineFields
  <2> QED BY <2>1, UnlinkedHas
<1> HIDE DEF kept, doc
<1>3. \A k \in DOMAIN kept : "cents" \in DOMAIN kept[k]
  BY <1>1, <1>2 DEF IsMarket, LineFields
<1>4. /\ IsMarket(new) /\ new.lines = kept /\ new.records = m.records
      /\ new.events = m.events /\ new.exceptions = m.exceptions /\ new.batches = m.batches
  BY <1>3 DEF IsMarket
<1> HIDE DEF new
<1>5. LineStored(new, m, key, line) /\ new.batches = m.batches
  BY <1>1, <1>2, <1>4 DEF LineStored
<1> QED BY <1>5 DEF new, kept, doc

LEMMA RecordIsStored ==
  ASSUME NEW m, IsMarket(m), NEW row, {"order", "kind", "cents", "number"} \subseteq DOMAIN row,
         NEW key, key \notin DOMAIN m.records
  PROVE  LET new == [m EXCEPT !.records = Saved(m.records, key, Unlinked(row))]
         IN RecordStored(new, m, key) /\ new.batches = m.batches
<1> DEFINE doc == Unlinked(row)
           kept == Saved(m.records, key, doc)
           new == [m EXCEPT !.records = kept]
<1>1. /\ DOMAIN kept = DOMAIN m.records \cup {key} /\ kept[key] = doc
      /\ \A k \in DOMAIN m.records : kept[k] = m.records[k]
  <2> HIDE DEF doc
  <2> QED BY DEF Saved
<1>2. {"order", "kind", "event", "cents", "number"} \subseteq DOMAIN doc
  BY UnlinkedHas
<1> HIDE DEF kept, doc
<1>3. \A k \in DOMAIN kept : {"cents", "number"} \subseteq DOMAIN kept[k]
  BY <1>1, <1>2 DEF IsMarket
<1>4. /\ IsMarket(new) /\ new.records = kept /\ new.lines = m.lines
      /\ new.events = m.events /\ new.exceptions = m.exceptions /\ new.batches = m.batches
  BY <1>3 DEF IsMarket
<1> HIDE DEF new
<1>5. RecordStored(new, m, key) /\ new.batches = m.batches
  BY <1>1, <1>2, <1>4 DEF RecordStored
<1> QED BY <1>5 DEF new, kept, doc

\* MatchingService.upsertEventFromMarketplaceTxn: a shipped order that no
\* invoice is known of waits, and says so.
LEMMA UpsertedLineInStep ==
  ASSUME NEW m, NEW files, InStep(m, files), NEW line, IsLine(line),
         line.cents \in Int, line.eur \in Int \cup {Null}, line.id \notin JtlIds,
         \E f \in files : ~IsJtl(f) /\ line.marketplace = Reports[f].channel,
         BuildMarketplaceTxnKey(line) \notin DOMAIN m.lines, NEW new,
         LineStored(new, m, BuildMarketplaceTxnKey(line), line)
  PROVE  InStep(UpsertFromLine(new, line), files)
<1> DEFINE key == BuildMarketplaceTxnKey(line)
           first == IF line.cancelled /\ line.kind = "order" THEN "CANCELLATION"
                    ELSE MarketplaceTxnToEventType(line.kind)
           id == <<first, line.marketplace, line.order, line.id>>
           jtl == RecordsOf(new, line.order)
           invoiced == \E r \in jtl : IsInvoice(r)
           waits == first = "ORDER_CREATED" /\ line.shipped /\ ~invoiced
           type == IF first = "ORDER_CREATED" /\ line.shipped /\ invoiced THEN "SALE" ELSE first
           standing == IF line.cancelled THEN "void"
                     ELSE IF waits THEN "invoice_pending"
                     ELSE IF jtl # {} THEN "matched"
                     ELSE IF line.order # <<>> THEN "pending_match" ELSE "draft"
           event == Event(type, "marketplace", line, line.order, standing, line.eur)
           created == [CreateEvent(new, id, event) EXCEPT !.lines[key].event = id]
           missed == RaiseIf(waits, created, "MISSING_INVOICE", line.order, line.id)
           lonely == type = "ORDER_CREATED" /\ ~waits /\ jtl = {} /\ line.order # <<>>
           alone == RaiseIf(lonely, missed, "MISSING_JTL_ORDER", line.order, line.id)
           foreign == line.currency # <<"eur">> /\ line.eur \in {Null, 0}
<1>1. UpsertFromLine(new, line) =
        IF id \in DOMAIN new.events THEN Raise(new, "DUPLICATE_SOURCE_RECORD", <<>>, line.id)
        ELSE RaiseIf(foreign, alone, "FX_REVIEW", line.order, line.id)
  BY Zenon DEF UpsertFromLine
<1>k. key \notin DOMAIN m.lines /\ LineStored(new, m, key, line)
  OBVIOUS
<1>2. /\ key = <<line.marketplace, line.id, line.kind>>
      /\ first = "ORDER_CREATED" <=> line.kind = "order" /\ ~line.cancelled
  BY DEF BuildMarketplaceTxnKey, MarketplaceTxnToEventType, IsLine, LineKinds
<1> HIDE DEF key
<1>3. /\ event.order = line.order /\ event.type = type /\ event.status = standing
      /\ EventOf(event, files)
  <2>1. /\ {"type", "source", "marketplace", "order", "day", "cents", "eur", "status",
            "treatment", "linked"} \subseteq DOMAIN event
        /\ event.type = type /\ event.source = "marketplace"
        /\ event.marketplace = line.marketplace /\ event.order = line.order
        /\ event.cents = line.cents /\ event.eur = line.eur /\ event.status = standing
    <3> HIDE DEF type, standing
    <3> QED BY EventHas
  <2> HIDE DEF event, type, standing
  <2> QED BY <2>1 DEF EventOf
<1>4. /\ event.type = "ORDER_CREATED" => first = "ORDER_CREATED"
      /\ event.status = "invoice_pending" => waits /\ event.type = "ORDER_CREATED"
  BY <1>3
<1> HIDE DEF event, standing, type, first
<1>5. /\ IsMarket(new) /\ DOMAIN new.lines = DOMAIN m.lines \cup {key}
      /\ \A k \in DOMAIN m.lines : new.lines[k] = m.lines[k]
      /\ LineFields \cup {"event"} \subseteq DOMAIN new.lines[key]
      /\ \A x \in LineFields : new.lines[key][x] = line[x]
      /\ new.lines[key].event = <<>>
      /\ new.records = m.records /\ new.events = m.events /\ new.exceptions = m.exceptions
  BY <1>k DEF LineStored
<1>6. invoiced <=> Invoiced(m, line.order)
  <2>1. invoiced <=> Invoiced(new, line.order)
    BY DEF Invoiced
  <2>2. Invoiced(new, line.order) <=> Invoiced(m, line.order)
    BY <1>5, InvoicedRecord
  <2> QED BY <2>1, <2>2
<1> HIDE DEF invoiced
<1>7. IsFiniteSet(m.exceptions)
  BY DEF InStep, Documents
<1>8. ASSUME id \in DOMAIN m.events
      PROVE  InStep(Raise(new, "DUPLICATE_SOURCE_RECORD", <<>>, line.id), files)
  <2>1. LineOf(new, m, key, line, id, event)
    <3> HIDE DEF id
    <3>1. id \in DOMAIN m.events /\ new.events = m.events /\ new.lines[key].event = <<>>
      BY <1>5, <1>8
    <3> QED BY <1>5, <1>7, <3>1, Zenon DEF LineOf
  <2>2. waits <=> first = "ORDER_CREATED" /\ line.shipped /\ ~Invoiced(m, line.order)
    BY <1>6
  <2> HIDE DEF waits
  <2>3. InStep(new, files)
    BY <1>k, <1>2, <1>3, <1>4, <1>5, <2>1, <2>2, NewLineInStep
  <2> QED BY <2>3, RaisedInStep
<1>9. ASSUME id \notin DOMAIN m.events
      PROVE  InStep(missed, files)
  <2>1. /\ EventGiven(created.lines, new.lines, key, id) /\ IsMarket(created)
        /\ created.events = Saved(m.events, id, event)
        /\ created.records = m.records /\ created.exceptions = m.exceptions
    <3> HIDE DEF id
    <3>1. key \in DOMAIN new.lines /\ "event" \in DOMAIN new.lines[key]
      BY <1>5
    <3>2. created = LineGiven(new, key, id, event)
      BY DEF LineGiven
    <3> HIDE DEF created
    <3> QED BY <1>5, <3>1, <3>2, LineIsGiven
  <2> DEFINE x == [kind |-> "MISSING_INVOICE", order |-> line.order, about |-> line.id]
             exceptions == IF waits THEN m.exceptions \cup {x} ELSE m.exceptions
  <2>2. missed = [created EXCEPT !.exceptions = exceptions]
    <3> HIDE DEF created, waits, x
    <3> QED BY <2>1 DEF RaiseIf, Raise, IsMarket, x
  <2>3. /\ missed.lines = created.lines /\ missed.records = m.records
        /\ missed.events = Saved(m.events, id, event) /\ missed.exceptions = exceptions
        /\ IsMarket(missed)
    <3> HIDE DEF created, missed, exceptions, id
    <3> QED BY <2>1, <2>2 DEF IsMarket
  <2> HIDE DEF missed, created
  <2>4. IsFiniteSet(exceptions) /\ m.exceptions \subseteq exceptions
    BY <1>7, FS_AddElement
  <2>5. waits => Missed(missed, line.order)
    <3>1. /\ waits => x \in exceptions
          /\ x.kind = "MISSING_INVOICE" /\ x.order = line.order
      OBVIOUS
    <3> HIDE DEF x, exceptions, waits
    <3> QED BY <2>3, <3>1 DEF Missed
  <2> HIDE DEF exceptions
  <2>6. LineOf(missed, m, key, line, id, event)
    <3>1. /\ DOMAIN missed.lines = DOMAIN m.lines \cup {key}
          /\ \A k \in DOMAIN m.lines : missed.lines[k] = m.lines[k]
          /\ LineFields \cup {"event"} \subseteq DOMAIN missed.lines[key]
          /\ \A y \in LineFields : missed.lines[key][y] = line[y]
          /\ missed.lines[key].event = id
      <4> HIDE DEF id
      <4>1. "event" \notin LineFields
        BY DEF LineFields
      <4> DEFINE given == missed.lines
      <4>2. EventGiven(given, new.lines, key, id)
        BY <2>1, <2>3
      <4> HIDE DEF given
      <4>3. \A y \in LineFields : given[key][y] = line[y]
        BY <1>5, <4>1, <4>2 DEF EventGiven
      <4>4. /\ DOMAIN given = DOMAIN new.lines /\ given[key].event = id
            /\ DOMAIN given[key] = DOMAIN new.lines[key]
            /\ \A k \in DOMAIN new.lines : k # key => given[k] = new.lines[k]
        BY <4>2 DEF EventGiven
      <4> QED BY <1>5, <1>k, <4>3, <4>4 DEF given
    <3> HIDE DEF id
    <3> QED BY <1>9, <2>3, <2>4, <3>1 DEF LineOf
  <2> HIDE DEF waits
  <2>7. /\ waits <=> first = "ORDER_CREATED" /\ line.shipped /\ ~Invoiced(m, line.order)
    BY <1>6 DEF waits
  <2> QED BY <1>k, <1>2, <1>3, <1>4, <2>5, <2>6, <2>7, NewLineInStep
<1>10. ASSUME id \notin DOMAIN m.events
       PROVE  InStep(RaiseIf(foreign, alone, "FX_REVIEW", line.order, line.id), files)
  <2> HIDE DEF missed, lonely, foreign
  <2>1. InStep(alone, files)
    BY <1>9, <1>10, RaisedInStep
  <2> QED BY <2>1, RaisedInStep
<1> HIDE DEF id, alone, foreign
<1> QED BY <1>1, <1>5, <1>8, <1>10

\* n has what m has, a record of that key, and an event of it or none.
RecordOf(n, m, key, i, event) ==
  /\ IsMarket(n)
  /\ n.lines = m.lines
  /\ DOMAIN n.records = DOMAIN m.records \cup {key}
  /\ \A k \in DOMAIN m.records : n.records[k] = m.records[k]
  /\ {"order", "kind", "event"} \subseteq DOMAIN n.records[key]
  /\ IsFiniteSet(n.exceptions) /\ m.exceptions \subseteq n.exceptions
  /\ n.events # m.events => i \notin DOMAIN m.events /\ n.events = Saved(m.events, i, event)

LEMMA NewRecordInStep ==
  ASSUME NEW m, NEW files, InStep(m, files), NEW key, key \notin DOMAIN m.records,
         NEW i, i # <<>>, i[1] = "ORDER_CREATED" => i[4] \in JtlIds,
         NEW event, EventOf(event, files), event.status # "invoice_pending",
         NEW n, RecordOf(n, m, key, i, event)
  PROVE  InStep(n, files)
<1>1. /\ DOMAIN n.records = DOMAIN m.records \cup {key} /\ n.lines = m.lines
      /\ \A k \in DOMAIN m.records : n.records[k] = m.records[k]
      /\ m.exceptions \subseteq n.exceptions
  BY DEF RecordOf
<1>2. <<>> \notin DOMAIN m.events /\ IsFiniteSet(DOMAIN m.events)
  BY DEF InStep, Documents
<1>3. /\ \A j \in DOMAIN m.events : j \in DOMAIN n.events /\ n.events[j] = m.events[j]
      /\ \A j \in DOMAIN n.events : j \in DOMAIN m.events \/ (j = i /\ n.events[j] = event)
      /\ i \in DOMAIN n.events => i \in DOMAIN m.events \/ n.events[i] = event
      /\ <<>> \notin DOMAIN n.events
      /\ IsFiniteSet(DOMAIN n.events)
  <2>1. CASE n.events = m.events
    BY <1>2, <2>1
  <2>2. CASE n.events # m.events
    <3>1. i \notin DOMAIN m.events /\ n.events = Saved(m.events, i, event)
      BY <2>2 DEF RecordOf
    <3>2. /\ DOMAIN n.events = DOMAIN m.events \cup {i} /\ n.events[i] = event
          /\ \A j \in DOMAIN m.events : j # i => n.events[j] = m.events[j]
      BY <3>1 DEF Saved
    <3>3. IsFiniteSet(DOMAIN n.events)
      BY <1>2, <3>2, FS_AddElement
    <3> QED BY <1>2, <3>1, <3>2, <3>3
  <2> QED BY <2>1, <2>2
<1>4. \A k \in DOMAIN m.lines : m.lines[k].event \in DOMAIN n.events => m.lines[k].event \in DOMAIN m.events
  BY <1>3 DEF InStep, Documents
<1>5. Documents(n, files)
  <2>1. \A k \in DOMAIN n.records : {"order", "kind", "event"} \subseteq DOMAIN n.records[k]
    BY <1>1 DEF RecordOf, InStep, Documents
  <2>2. \A j \in DOMAIN n.events : EventOf(n.events[j], files)
    BY <1>3 DEF InStep, Documents
  <2>3. \A k \in DOMAIN n.lines : /\ IsLine(n.lines[k]) /\ "event" \in DOMAIN n.lines[k]
                                  /\ k = BuildMarketplaceTxnKey(n.lines[k])
                                  /\ n.lines[k].event \in DOMAIN n.events \cup {<<>>}
    BY <1>1, <1>3 DEF InStep, Documents
  <2> QED BY <1>3, <2>1, <2>2, <2>3 DEF Documents, RecordOf
<1>6. Linked(n)
  <2>1. \A k \in DOMAIN n.lines :
          n.lines[k].event \in DOMAIN n.events =>
            /\ n.events[n.lines[k].event].order = n.lines[k].order
            /\ n.events[n.lines[k].event].type = "ORDER_CREATED" => n.lines[k].kind = "order" /\ ~n.lines[k].cancelled
    BY <1>1, <1>3, <1>4 DEF InStep, Linked
  <2>2. \A j \in DOMAIN n.events :
          n.events[j].status = "invoice_pending" =>
            n.events[j].type = "ORDER_CREATED" /\ \E k \in DOMAIN n.lines : n.lines[k].event = j
    BY <1>1, <1>3 DEF InStep, Linked
  <2>3. \A j \in DOMAIN n.events :
          j[1] = "ORDER_CREATED" => <<j[2], j[4], "order">> \in DOMAIN n.lines \/ j[4] \in JtlIds
    BY <1>1, <1>3 DEF InStep, Linked
  <2> QED BY <2>1, <2>2, <2>3 DEF Linked
<1>7. \A order : Missed(m, order) => Missed(n, order)
  BY <1>1 DEF Missed
<1>8. \A order : (Invoiced(m, order) => Invoiced(n, order)) /\ (Cancelled(m, order) <=> Cancelled(n, order))
  BY <1>1, InvoicedRecord, AmazonLines DEF Cancelled
<1>9. Awaited(n)
  <2>1. \A j \in DOMAIN n.events : n.events[j].status = "invoice_pending" => Missed(n, n.events[j].order)
    BY <1>3, <1>7 DEF InStep, Awaited
  <2>2. \A k \in DOMAIN n.lines :
          /\ n.lines[k].kind = "order" /\ n.lines[k].shipped /\ ~n.lines[k].cancelled
          /\ ~Invoiced(n, n.lines[k].order) /\ ~Cancelled(n, n.lines[k].order)
          => Missed(n, n.lines[k].order)
    BY <1>1, <1>7, <1>8 DEF InStep, Awaited
  <2> QED BY <2>1, <2>2 DEF Awaited
<1> QED BY <1>5, <1>6, <1>9 DEF InStep

\* Days that are not after some day have a last one.
LEMMA LastOf ==
  ASSUME NEW day \in Int, NEW S \in SUBSET Int, S # {}, \A d \in S : d <= day
  PROVE  Max(S) \in S
<1> DEFINE ago == {day - d : d \in S}
<1>1. ago \in SUBSET Nat /\ ago # {}
  <2>1. \A d \in S : day - d \in Nat
    OBVIOUS
  <2>2. PICK d \in S : TRUE
    OBVIOUS
  <2>3. day - d \in ago
    OBVIOUS
  <2> QED BY <2>1, <2>3
<1>2. PICK n \in ago : \A k \in ago : n <= k
  <2> HIDE DEF ago
  <2> QED BY <1>1, LeastOf
<1>3. PICK last \in S : n = day - last
  OBVIOUS
<1>4. \A d \in S : last >= d
  BY <1>2, <1>3
<1> QED BY <1>4 DEF Max

\* FxService.resolve: an amount, or none.
LEMMA ResolvedIsAmount ==
  ASSUME NEW row, row.cents \in Int, row.day \in Int \cup {Null}, NEW eur \in Int \cup {Null}, NEW online
  PROVE  Resolve(row, eur, online) \in Int \cup {Null}
<1> DEFINE day == IF row.day = Null THEN Today ELSE row.day
           quoted == {d \in day - 11..day : <<row.currency, d>> \in DOMAIN Rates}
           rate == EcbRate(row.currency, day, online)
<1>1. day \in Int
  BY CashAssumption
<1> HIDE DEF day
<1>2. quoted # {} => Max(quoted) \in quoted
  <2>1. quoted \in SUBSET Int /\ \A d \in quoted : d <= day
    BY <1>1
  <2> HIDE DEF quoted
  <2> QED BY <1>1, <2>1, LastOf
<1>3. rate \in Int \cup {Null}
  <2>1. rate = IF row.currency = <<"eur">> THEN 10000
               ELSE IF ~online \/ quoted = {} THEN Null ELSE Rates[<<row.currency, Max(quoted)>>]
    BY Zenon DEF EcbRate
  <2>2. quoted # {} => Rates[<<row.currency, Max(quoted)>>] \in Nat \ {0}
    <3>1. quoted # {} => <<row.currency, Max(quoted)>> \in DOMAIN Rates
      BY <1>2
    <3> HIDE DEF quoted
    <3> QED BY <3>1, RatesAssumption
  <2> HIDE DEF quoted, rate
  <2> QED BY <2>1, <2>2
<1>4. Resolve(row, eur, online) =
        IF row.currency # <<"eur">> /\ eur # Null THEN eur
        ELSE IF row.currency = <<"eur">> THEN row.cents
        ELSE IF rate = Null THEN Null ELSE (row.cents * rate + 5000) \div 10000
  BY Zenon DEF Resolve, day
<1> HIDE DEF rate
<1>5. rate \in Int => (row.cents * rate + 5000) \div 10000 \in Int
  <2>1. rate \in Int => row.cents * rate \in Int
    OBVIOUS
  <2> DEFINE x == row.cents * rate
  <2> HIDE DEF x
  <2>2. x \in Int => (x + 5000) \div 10000 \in Int
    OBVIOUS
  <2> QED BY <2>1, <2>2 DEF x
<1> QED BY <1>3, <1>4, <1>5

\* A row of JTL, with or without the shop that another row names.
RecordFields == {"id", "kind", "number", "cents", "marketplace", "channel", "order", "tax",
                 "review", "related", "day", "currency"}

IsJtlRow(r) ==
  /\ RecordFields \subseteq DOMAIN r
  /\ r.kind \in {"order", "invoice", "sale", "invoice_correction"}
  /\ r.cents \in Int /\ r.day \in Int \cup {Null}

\* MatchingService.upsertEventFromJtlRecord: an event of JTL never waits.
LEMMA UpsertedRecordInStep ==
  ASSUME NEW m, NEW files, InStep(m, files), NEW record, IsJtlRow(record), record.id \in JtlIds,
         \E f \in files : IsJtl(f),
         NEW key, key \notin DOMAIN m.records, NEW online, NEW new, RecordStored(new, m, key)
  PROVE  InStep(UpsertFromRecord(new, record, key, online), files)
<1> DEFINE order == Upper(record.order)
           eur == Resolve(record, Null, online)
           matched == LinesOf(new, order) # {}
           type == JtlRecordToEventType(record.kind, matched)
           id == <<type, record.marketplace, order, record.id>>
           blocked == <<"CANCELLATION", record.marketplace, order, <<"jtl-cancel-blocked", record.id>>>>
           standing == IF matched THEN "matched" ELSE IF order # <<>> THEN "pending_match" ELSE "draft"
           WithEvent(k, e) == [CreateEvent(new, k, e) EXCEPT !.records[key].event = k]
           event == Event(type, "jtl", record, order, standing, eur)
           created == WithEvent(id, event)
           m1 == RaiseIf(eur = Null, created, "FX_REVIEW", order, record.id)
           m2 == RaiseIf(record.review, m1, "VAT_REVIEW", order, record.id)
           c3 == record.kind = "invoice_correction" /\ record.related # <<>>
           m3 == RaiseIf(c3, m2, "FEE_INVOICE_MISMATCH", order, record.id)
           c4 == record.channel # <<>> /\ record.marketplace = Null /\ ~record.review
           m4 == RaiseIf(c4, m3, "UNKNOWN_TRANSACTION_TYPE", order, record.id)
           c5 == ~matched /\ order # <<>>
           amazon == IF record.marketplace = Null
                     THEN [record EXCEPT !.marketplace = "amazon"] ELSE record
           void == Event("CANCELLATION", "jtl", amazon, order, "void", eur)
<1>1. UpsertFromRecord(new, record, key, online) =
        IF AmazonStatus(new, order).cancelled
        THEN IF blocked \in DOMAIN new.events THEN new ELSE WithEvent(blocked, void)
        ELSE IF id \in DOMAIN new.events THEN Raise(new, "DUPLICATE_SOURCE_RECORD", <<>>, record.id)
        ELSE RaiseIf(c5, m4, "UNMATCHED_MARKETPLACE_EVENT", order, record.id)
  BY Zenon DEF UpsertFromRecord
<1>2. eur \in Int \cup {Null}
  BY ResolvedIsAmount DEF IsJtlRow
<1>3. EventOf(event, files) /\ event.status # "invoice_pending"
  <2>1. /\ {"type", "source", "marketplace", "order", "day", "cents", "eur", "status",
            "treatment", "linked"} \subseteq DOMAIN event
        /\ event.source = "jtl" /\ event.cents = record.cents /\ event.eur = eur
        /\ event.status = standing
    <3> HIDE DEF type, standing, eur, order
    <3> QED BY EventHas
  <2>2. standing # "invoice_pending"
    OBVIOUS
  <2> HIDE DEF event, standing, eur
  <2> QED BY <1>2, <2>1, <2>2 DEF EventOf, IsJtlRow
<1>4. EventOf(void, files) /\ void.status # "invoice_pending"
  <2>1. amazon.cents = record.cents
    BY DEF IsJtlRow, RecordFields
  <2>2. /\ {"type", "source", "marketplace", "order", "day", "cents", "eur", "status",
            "treatment", "linked"} \subseteq DOMAIN void
        /\ void.source = "jtl" /\ void.cents = record.cents /\ void.eur = eur
        /\ void.status = "void"
    <3> HIDE DEF amazon, eur, order
    <3> QED BY <2>1, EventHas
  <2> HIDE DEF void, eur
  <2> QED BY <1>2, <2>2 DEF EventOf, IsJtlRow
<1>5. /\ id # <<>> /\ id[4] \in JtlIds
      /\ blocked # <<>> /\ blocked[1] # "ORDER_CREATED"
  <2> HIDE DEF type, order
  <2> QED OBVIOUS
<1>6. key \notin DOMAIN m.records
  OBVIOUS
<1> HIDE DEF event, void, id, blocked
<1>7. /\ IsMarket(new) /\ new.lines = m.lines
      /\ DOMAIN new.records = DOMAIN m.records \cup {key}
      /\ \A k \in DOMAIN m.records : new.records[k] = m.records[k]
      /\ {"order", "kind", "event"} \subseteq DOMAIN new.records[key]
      /\ new.events = m.events /\ new.exceptions = m.exceptions
  BY DEF RecordStored
<1>8. IsFiniteSet(m.exceptions)
  BY DEF InStep, Documents
<1>9. InStep(new, files)
  <2>1. RecordOf(new, m, key, id, event)
    BY <1>7, <1>8 DEF RecordOf
  <2> QED BY <1>6, <1>3, <1>5, <2>1, NewRecordInStep
<1>10. ASSUME NEW i, i # <<>>, i[1] = "ORDER_CREATED" => i[4] \in JtlIds, i \notin DOMAIN m.events,
              NEW e, EventOf(e, files), e.status # "invoice_pending"
       PROVE  InStep(WithEvent(i, e), files)
  <2> DEFINE n == WithEvent(i, e)
  <2>1. key \in DOMAIN new.records /\ "event" \in DOMAIN new.records[key]
    BY <1>7
  <2>2. n = RecordGiven(new, key, i, e)
    BY DEF RecordGiven
  <2> HIDE DEF n
  <2>3. /\ IsMarket(n) /\ EventGiven(n.records, new.records, key, i) /\ n.lines = new.lines
        /\ n.events = Saved(new.events, i, e) /\ n.exceptions = new.exceptions
    BY <1>7, <2>1, <2>2, RecordIsGiven
  <2>4. RecordOf(n, m, key, i, e)
    BY <1>6, <1>7, <1>8, <1>10, <2>3 DEF RecordOf, EventGiven
  <2>5. InStep(n, files)
    BY <1>6, <1>10, <2>4, NewRecordInStep
  <2> QED BY <2>5 DEF n
<1>11. ASSUME blocked \notin DOMAIN m.events PROVE InStep(WithEvent(blocked, void), files)
  BY <1>4, <1>5, <1>10, <1>11
<1>12. ASSUME id \notin DOMAIN m.events
       PROVE  InStep(RaiseIf(c5, m4, "UNMATCHED_MARKETPLACE_EVENT", order, record.id), files)
  <2>1. InStep(created, files)
    BY <1>3, <1>5, <1>10, <1>12
  <2> HIDE DEF created, c3, c4, c5, order
  <2>2. InStep(m1, files)
    BY <2>1, RaisedInStep
  <2> HIDE DEF m1
  <2>3. InStep(m2, files)
    BY <2>2, RaisedInStep
  <2> HIDE DEF m2
  <2>4. InStep(m3, files)
    BY <2>3, RaisedInStep
  <2> HIDE DEF m3
  <2>5. InStep(m4, files)
    BY <2>4, RaisedInStep
  <2> HIDE DEF m4
  <2> QED BY <2>5, RaisedInStep
<1>13. InStep(Raise(new, "DUPLICATE_SOURCE_RECORD", <<>>, record.id), files)
  BY <1>9, RaisedInStep
<1> HIDE DEF WithEvent, c5, m4, order
<1> QED BY <1>1, <1>7, <1>9, <1>11, <1>12, <1>13

\* The books with other events: whatever waits now is an order that is missed.
LEMMA RewrittenInStep ==
  ASSUME NEW m, NEW files, InStep(m, files), NEW events, DOMAIN events = DOMAIN m.events,
         \A i \in DOMAIN events :
           LET new == events[i]
               old == m.events[i]
           IN /\ EventOf(new, files) /\ new.order = old.order
              /\ new.type = "ORDER_CREATED" => old.type = "ORDER_CREATED"
              /\ new.status = "invoice_pending" =>
                   /\ new.type = "ORDER_CREATED" /\ \E k \in DOMAIN m.lines : m.lines[k].event = i
                   /\ Missed(m, new.order)
  PROVE  InStep([m EXCEPT !.events = events], files)
<1> DEFINE n == [m EXCEPT !.events = events]
<1>1. /\ n.lines = m.lines /\ n.records = m.records /\ n.events = events
      /\ n.exceptions = m.exceptions /\ IsMarket(n)
  BY DEF InStep, Documents, IsMarket
<1> HIDE DEF n
<1>2. \A order : (Invoiced(n, order) <=> Invoiced(m, order)) /\ (Cancelled(n, order) <=> Cancelled(m, order))
  BY <1>1, InvoicedRecord, AmazonLines DEF Cancelled
<1>3. \A order : Missed(n, order) <=> Missed(m, order)
  BY <1>1 DEF Missed
<1>4. Documents(n, files)
  BY <1>1 DEF InStep, Documents
<1>5. Linked(n)
  <2>1. \A k \in DOMAIN n.lines :
          n.lines[k].event \in DOMAIN n.events =>
            /\ n.events[n.lines[k].event].order = n.lines[k].order
            /\ n.events[n.lines[k].event].type = "ORDER_CREATED" => n.lines[k].kind = "order" /\ ~n.lines[k].cancelled
    BY <1>1 DEF InStep, Linked
  <2>2. \A j \in DOMAIN n.events :
          n.events[j].status = "invoice_pending" =>
            n.events[j].type = "ORDER_CREATED" /\ \E k \in DOMAIN n.lines : n.lines[k].event = j
    BY <1>1
  <2>3. \A j \in DOMAIN n.events :
          j[1] = "ORDER_CREATED" => <<j[2], j[4], "order">> \in DOMAIN n.lines \/ j[4] \in JtlIds
    BY <1>1 DEF InStep, Linked
  <2> QED BY <2>1, <2>2, <2>3 DEF Linked
<1>6. Awaited(n)
  <2>1. \A j \in DOMAIN n.events : n.events[j].status = "invoice_pending" => Missed(n, n.events[j].order)
    BY <1>1, <1>3
  <2>2. \A k \in DOMAIN n.lines :
          /\ n.lines[k].kind = "order" /\ n.lines[k].shipped /\ ~n.lines[k].cancelled
          /\ ~Invoiced(n, n.lines[k].order) /\ ~Cancelled(n, n.lines[k].order)
          => Missed(n, n.lines[k].order)
    BY <1>1, <1>2, <1>3 DEF InStep, Awaited
  <2> QED BY <2>1, <2>2 DEF Awaited
<1> QED BY <1>4, <1>5, <1>6 DEF InStep, n

\* The exceptions of an order are closed once it is invoiced or cancelled and
\* none of its events waits.
LEMMA ClosedInStep ==
  ASSUME NEW m, NEW files, InStep(m, files), NEW order,
         Invoiced(m, order) \/ Cancelled(m, order),
         \A i \in DOMAIN m.events : m.events[i].order = order => m.events[i].status # "invoice_pending"
  PROVE  InStep(ResolveOpenForOrder(m, order), files)
<1> DEFINE left == {x \in m.exceptions : \/ x.order # order
                      \/ x.kind \notin {"MISSING_INVOICE", "MISSING_JTL_ORDER", "UNMATCHED_MARKETPLACE_EVENT"}}
           n == [m EXCEPT !.exceptions = left]
<1>1. ResolveOpenForOrder(m, order) = n
  BY DEF ResolveOpenForOrder
<1>2. IsFiniteSet(left)
  BY FS_Subset DEF InStep, Documents
<1>3. \A x \in m.exceptions : x.order # order => x \in left
  OBVIOUS
<1> HIDE DEF left
<1>4. /\ n.lines = m.lines /\ n.records = m.records /\ n.events = m.events
      /\ n.exceptions = left /\ IsMarket(n)
  BY DEF InStep, Documents, IsMarket
<1> HIDE DEF n
<1>5. \A o : (Invoiced(n, o) <=> Invoiced(m, o)) /\ (Cancelled(n, o) <=> Cancelled(m, o))
  BY <1>4, InvoicedRecord, AmazonLines DEF Cancelled
<1>6. \A o : o # order /\ Missed(m, o) => Missed(n, o)
  BY <1>3, <1>4 DEF Missed
<1>7. Documents(n, files)
  BY <1>2, <1>4 DEF InStep, Documents
<1>8. Linked(n)
  BY <1>4 DEF InStep, Linked
<1>9. Awaited(n)
  <2>1. \A j \in DOMAIN n.events : n.events[j].status = "invoice_pending" => Missed(n, n.events[j].order)
    BY <1>4, <1>6 DEF InStep, Awaited
  <2>2. \A k \in DOMAIN n.lines :
          /\ n.lines[k].kind = "order" /\ n.lines[k].shipped /\ ~n.lines[k].cancelled
          /\ ~Invoiced(n, n.lines[k].order) /\ ~Cancelled(n, n.lines[k].order)
          => Missed(n, n.lines[k].order)
    BY <1>4, <1>5, <1>6 DEF InStep, Awaited
  <2> QED BY <2>1, <2>2 DEF Awaited
<1> QED BY <1>1, <1>7, <1>8, <1>9 DEF InStep

\* What matching makes of an event.
LEMMA RecordMatched ==
  ASSUME NEW e, NEW files, EventOf(e, files), NEW doc, NEW invoiced,
         NEW new, new = MatchedRecord(e, doc, invoiced)
  PROVE  /\ EventOf(new, files) /\ new.order = e.order /\ new.status = "matched"
         /\ new.type = "ORDER_CREATED" => e.type = "ORDER_CREATED"
<1> DEFINE type == IF e.type = "ORDER_CREATED" /\ doc.kind # "order" /\ invoiced THEN "SALE" ELSE e.type
<1>1. new = [e EXCEPT !.status = "matched", !.type = type]
  BY DEF MatchedRecord
<1>2. type = "ORDER_CREATED" => e.type = "ORDER_CREATED"
  OBVIOUS
<1> HIDE DEF type
<1> QED BY <1>1, <1>2 DEF EventOf

LEMMA LineMatched ==
  ASSUME NEW e, NEW files, EventOf(e, files), NEW doc, NEW invoiced, NEW shipped,
         NEW new, new = MatchedLine(e, doc, shipped, invoiced)
  PROVE  /\ EventOf(new, files) /\ new.order = e.order
         /\ new.type = "ORDER_CREATED" => e.type = "ORDER_CREATED" \/ e.status = "invoice_pending"
         /\ new.status = "invoice_pending" /\ (e.status = "invoice_pending" => e.type = "ORDER_CREATED") =>
              new.type = "ORDER_CREATED" /\ ~invoiced /\ (shipped \/ doc.shipped)
<1> DEFINE orders == e.type \notin {"SETTLEMENT", "PAYOUT"}
                       /\ (e.type = "ORDER_CREATED" \/ e.status = "invoice_pending")
           sale == [e EXCEPT !.status = "matched", !.type = "SALE"]
           waits == [e EXCEPT !.status = "invoice_pending", !.type = "ORDER_CREATED"]
           matched == [e EXCEPT !.status = "matched"]
<1>1. new = IF e.type = "CANCELLATION" \/ e.status = "void" THEN e
            ELSE IF orders /\ invoiced THEN sale
            ELSE IF orders /\ (shipped \/ doc.shipped) THEN waits ELSE matched
  BY Zenon DEF MatchedLine
<1>2. EventOf(sale, files) /\ sale.order = e.order /\ sale.type = "SALE" /\ sale.status = "matched"
  BY DEF EventOf
<1>3. /\ EventOf(waits, files) /\ waits.order = e.order /\ waits.type = "ORDER_CREATED"
      /\ waits.status = "invoice_pending"
  BY DEF EventOf
<1>4. EventOf(matched, files) /\ matched.order = e.order /\ matched.type = e.type /\ matched.status = "matched"
  BY DEF EventOf
<1> HIDE DEF sale, waits, matched
<1>5. CASE e.type = "CANCELLATION" \/ e.status = "void"
  BY <1>1, <1>5
<1>6. CASE ~(e.type = "CANCELLATION" \/ e.status = "void") /\ orders /\ invoiced
  BY <1>1, <1>2, <1>6
<1>7. CASE ~(e.type = "CANCELLATION" \/ e.status = "void") /\ orders /\ ~invoiced /\ (shipped \/ doc.shipped)
  BY <1>1, <1>3, <1>7
<1>8. CASE /\ ~(e.type = "CANCELLATION" \/ e.status = "void")
           /\ ~(orders /\ invoiced) /\ ~(orders /\ (shipped \/ doc.shipped))
  BY <1>1, <1>4, <1>8
<1> QED BY <1>5, <1>6, <1>7, <1>8

\* The line of an event that waits.
LEMMA WaitingLine ==
  ASSUME NEW m, NEW files, InStep(m, files), NEW i \in DOMAIN m.events,
         m.events[i].status = "invoice_pending", m.events[i].order # <<>>
  PROVE  \E l \in LinesOf(m, m.events[i].order) : l.event = i
<1>1. PICK k \in DOMAIN m.lines : m.lines[k].event = i
  BY DEF InStep, Linked
<1>2. m.events[i].order = m.lines[k].order
  BY <1>1 DEF InStep, Linked
<1> QED BY <1>1, <1>2 DEF LinesOf, Values

\* MatchingService.rematchByOrderId: an order that waits after it is shipped,
\* not invoiced and not cancelled, and was missed before; what it closes has
\* nothing left to wait for.
LEMMA RematchedInStep ==
  ASSUME NEW m, NEW files, InStep(m, files), NEW text
  PROVE  InStep(RematchIf(m, text), files)
<1> DEFINE order == Upper(text)
           amazon == AmazonStatus(m, order)
           jtl == RecordsOf(m, order)
           mp == LinesOf(m, order)
           invoiced == \E r \in jtl : IsInvoice(r)
           record(i) == CHOOSE r \in jtl : r.event = i
           line(i) == CHOOSE l \in mp : l.event = i
           Patched(i, e) ==
             IF \E r \in jtl : r.event = i THEN MatchedRecord(e, record(i), invoiced)
             ELSE IF \E l \in mp : l.event = i THEN MatchedLine(e, line(i), amazon.shipped, invoiced)
             ELSE e
           none(i) == [m.events[i] EXCEPT !.type = "CANCELLATION", !.status = "void"]
           void == [i \in DOMAIN m.events |->
                      IF \E d \in jtl \cup mp : d.event = i THEN none(i) ELSE m.events[i]]
           matched == [i \in DOMAIN m.events |-> Patched(i, m.events[i])]
           voided == [m EXCEPT !.events = void]
           rematched == [m EXCEPT !.events = matched]
           patched == IF jtl = {} \/ mp = {} THEN m ELSE rematched
<1>1. Rematch(m, text) = IF amazon.cancelled THEN ResolveOpenForOrder(voided, order)
                         ELSE IF invoiced THEN ResolveOpenForOrder(patched, order) ELSE patched
  BY Zenon DEF Rematch
<1>2. IsMarket(m)
  BY DEF InStep, Documents
<1>3. /\ invoiced <=> Invoiced(m, order)
      /\ amazon.cancelled <=> Cancelled(m, order)
      /\ invoiced => order # <<>> /\ jtl # {}
      /\ amazon.cancelled => order # <<>>
  <2>1. invoiced => order # <<>> /\ jtl # {}
    BY DEF RecordsOf
  <2>2. amazon.cancelled => order # <<>>
    BY AmazonLines
  <2> QED BY <2>1, <2>2 DEF Invoiced, Cancelled
<1>4. \A i \in DOMAIN m.events :
        /\ EventOf(m.events[i], files)
        /\ m.events[i].status = "invoice_pending" =>
             /\ m.events[i].type = "ORDER_CREATED" /\ Missed(m, m.events[i].order)
             /\ \E k \in DOMAIN m.lines : m.lines[k].event = i
  BY DEF InStep, Documents, Linked, Awaited
<1>5. \A i \in DOMAIN m.events :
        m.events[i].status = "invoice_pending" /\ m.events[i].order = order /\ order # <<>> =>
          \E l \in mp : l.event = i
  BY WaitingLine
<1>6. \A l \in mp : /\ order # <<>> /\ l.order = order
                    /\ \E k \in DOMAIN m.lines : l = m.lines[k]
  BY DEF LinesOf, Values
<1>7. ASSUME ~amazon.cancelled, ~invoiced, NEW k \in DOMAIN m.lines,
             m.lines[k].order = order, m.lines[k].kind = "order", m.lines[k].shipped, ~m.lines[k].cancelled
      PROVE  Missed(m, order)
  BY <1>3, <1>7 DEF InStep, Awaited
<1>8. ASSUME ~amazon.cancelled, ~invoiced, amazon.shipped
      PROVE  Missed(m, order)
  <2>1. PICK k \in DOMAIN m.lines :
          /\ order # <<>> /\ m.lines[k].order = order /\ m.lines[k].marketplace = "amazon"
          /\ m.lines[k].kind = "order" /\ m.lines[k].shipped
    BY <1>8, AmazonLines
  <2>2. ~m.lines[k].cancelled
    BY <1>8, <2>1, AmazonLines
  <2> QED BY <1>7, <1>8, <2>1, <2>2
<1>9. ASSUME NEW i \in DOMAIN m.events, ~amazon.cancelled
      PROVE  LET new == Patched(i, m.events[i])
             IN /\ EventOf(new, files) /\ new.order = m.events[i].order
                /\ new.type = "ORDER_CREATED" => m.events[i].type = "ORDER_CREATED"
                /\ new.status = "invoice_pending" =>
                     /\ new.type = "ORDER_CREATED" /\ \E k \in DOMAIN m.lines : m.lines[k].event = i
                     /\ Missed(m, new.order)
                     /\ invoiced => new.order # order
  <2> DEFINE e == m.events[i]
  <2>1. CASE \E r \in jtl : r.event = i
    <3> DEFINE new == MatchedRecord(e, record(i), invoiced)
    <3>1. Patched(i, e) = new
      BY <2>1
    <3>2. /\ EventOf(new, files) /\ new.order = e.order /\ new.status = "matched"
          /\ new.type = "ORDER_CREATED" => e.type = "ORDER_CREATED"
      <4> DEFINE doc == record(i)
      <4>1. new = MatchedRecord(e, doc, invoiced)
        OBVIOUS
      <4>2. EventOf(e, files)
        BY <1>4
      <4> HIDE DEF new, doc, invoiced, e
      <4> QED BY <4>1, <4>2, RecordMatched
    <3> HIDE DEF new, Patched
    <3> QED BY <3>1, <3>2
  <2>2. CASE ~(\E r \in jtl : r.event = i) /\ \E l \in mp : l.event = i
    <3> DEFINE new == MatchedLine(e, line(i), amazon.shipped, invoiced)
               l == line(i)
    <3>1. Patched(i, e) = new
      BY <2>2
    <3>2. l \in mp /\ l.event = i
      BY <2>2
    <3>3. PICK k \in DOMAIN m.lines : l = m.lines[k]
      BY <1>6, <3>2
    <3>4. /\ order # <<>> /\ l.order = order /\ e.order = order
          /\ e.type = "ORDER_CREATED" => l.kind = "order" /\ ~l.cancelled
      BY <1>6, <3>2, <3>3 DEF InStep, Linked
    <3> HIDE DEF l, Patched
    <3>5. /\ EventOf(new, files) /\ new.order = e.order
          /\ new.type = "ORDER_CREATED" => e.type = "ORDER_CREATED" \/ e.status = "invoice_pending"
          /\ new.status = "invoice_pending" /\ (e.status = "invoice_pending" => e.type = "ORDER_CREATED") =>
               new.type = "ORDER_CREATED" /\ ~invoiced /\ (amazon.shipped \/ l.shipped)
      <4> DEFINE shipped == amazon.shipped
      <4>1. new = MatchedLine(e, l, shipped, invoiced)
        BY DEF l
      <4>2. EventOf(e, files)
        BY <1>4
      <4> HIDE DEF new, invoiced, shipped, e
      <4>3. /\ EventOf(new, files) /\ new.order = e.order
            /\ new.type = "ORDER_CREATED" => e.type = "ORDER_CREATED" \/ e.status = "invoice_pending"
            /\ new.status = "invoice_pending" /\ (e.status = "invoice_pending" => e.type = "ORDER_CREATED") =>
                 new.type = "ORDER_CREATED" /\ ~invoiced /\ (shipped \/ l.shipped)
        BY <4>1, <4>2, LineMatched
      <4> QED BY <4>3 DEF shipped
    <3> HIDE DEF new, invoiced
    <3>6. new.type = "ORDER_CREATED" => e.type = "ORDER_CREATED"
      BY <1>4, <3>5
    <3>7. new.status = "invoice_pending" =>
            /\ new.type = "ORDER_CREATED" /\ ~invoiced /\ l.kind = "order" /\ ~l.cancelled
            /\ amazon.shipped \/ l.shipped
      BY <1>4, <3>4, <3>5, <3>6
    <3>8. new.status = "invoice_pending" => Missed(m, order)
      BY <1>7, <1>8, <1>9, <3>3, <3>4, <3>7
    <3> HIDE DEF e
    <3> QED BY <3>1, <3>2, <3>3, <3>4, <3>5, <3>6, <3>7, <3>8 DEF e
  <2>3. CASE ~(\E r \in jtl : r.event = i) /\ ~\E l \in mp : l.event = i
    <3>1. Patched(i, e) = e
      BY <2>3
    <3> HIDE DEF Patched, mp, jtl, order
    <3>2. e.status = "invoice_pending" /\ invoiced => e.order # order
      BY <1>3, <1>5, <2>3
    <3> QED BY <1>4, <3>1, <3>2
  <2> QED BY <2>1, <2>2, <2>3
<1>10. ASSUME ~amazon.cancelled
       PROVE  InStep(rematched, files)
  <2>1. DOMAIN matched = DOMAIN m.events /\ \A i \in DOMAIN matched : matched[i] = Patched(i, m.events[i])
    <3> HIDE DEF Patched
    <3> QED OBVIOUS
  <2> HIDE DEF matched, Patched
  <2> QED BY <1>9, <1>10, <2>1, RewrittenInStep
<1>11. InStep(patched, files) \/ amazon.cancelled
  <2> HIDE DEF rematched, jtl, mp, amazon
  <2> QED BY <1>10
<1>12. ASSUME ~amazon.cancelled, invoiced
       PROVE  InStep(ResolveOpenForOrder(patched, order), files)
  <2>1. Invoiced(patched, order)
    <3>1. rematched.records = m.records
      <4> HIDE DEF matched
      <4> QED BY <1>2 DEF IsMarket
    <3>2. Invoiced(m, order)
      BY <1>3, <1>12
    <3> HIDE DEF rematched, order, jtl, mp
    <3> QED BY <3>1, <3>2, InvoicedRecord
  <2>2. ASSUME NEW i \in DOMAIN patched.events, patched.events[i].order = order,
               patched.events[i].status = "invoice_pending"
        PROVE  FALSE
    <3>1. CASE mp = {}
      <4>1. patched = m
        <5> HIDE DEF rematched
        <5> QED BY <3>1
      <4> HIDE DEF patched, order, invoiced, mp, jtl
      <4> QED BY <1>3, <1>5, <1>12, <2>2, <3>1, <4>1
    <3>2. CASE mp # {}
      <4>1. patched = rematched
        <5> HIDE DEF rematched, order, mp, invoiced
        <5> QED BY <1>3, <1>12, <3>2
      <4>2. rematched.events = matched
        <5> HIDE DEF matched
        <5> QED BY <1>2 DEF IsMarket
      <4>3. i \in DOMAIN m.events /\ patched.events[i] = Patched(i, m.events[i])
        <5> HIDE DEF patched, rematched, Patched
        <5> QED BY <2>2, <4>1, <4>2
      <4> HIDE DEF patched, Patched, invoiced, order, amazon
      <4> QED BY <1>9, <1>12, <2>2, <4>3
    <3> QED BY <3>1, <3>2
  <2> HIDE DEF patched, order, invoiced, amazon
  <2> QED BY <1>11, <1>12, <2>1, <2>2, ClosedInStep
<1>13. ASSUME amazon.cancelled
       PROVE  InStep(ResolveOpenForOrder(voided, order), files)
  <2>1. DOMAIN void = DOMAIN m.events
        /\ \A i \in DOMAIN void : void[i] = IF \E d \in jtl \cup mp : d.event = i THEN none(i) ELSE m.events[i]
    <3> HIDE DEF none, jtl, mp
    <3> QED OBVIOUS
  <2>2. \A i \in DOMAIN m.events : /\ EventOf(none(i), files) /\ none(i).order = m.events[i].order
                                   /\ none(i).type = "CANCELLATION" /\ none(i).status = "void"
    BY <1>4 DEF EventOf
  <2> HIDE DEF void, none, jtl, mp, order
  <2>3. InStep(voided, files)
    BY <1>4, <2>1, <2>2, RewrittenInStep
  <2>4. /\ voided.lines = m.lines /\ voided.events = void
    BY <1>2 DEF IsMarket
  <2> HIDE DEF voided, amazon
  <2>5. Cancelled(voided, order)
    BY <1>3, <1>13, <2>4, AmazonLines DEF Cancelled
  <2>6. \A i \in DOMAIN voided.events :
          voided.events[i].order = order => voided.events[i].status # "invoice_pending"
    BY <1>3, <1>5, <1>13, <2>1, <2>2, <2>4
  <2> QED BY <2>3, <2>5, <2>6, ClosedInStep
<1> HIDE DEF voided, patched, order, invoiced, amazon
<1>14. InStep(Rematch(m, text), files)
  BY <1>1, <1>11, <1>12, <1>13
<1> QED BY <1>14 DEF RematchIf

\* n is m with more documents: both are in step, and the batches are the same.
StepsOn(m, n, files) == InStep(n, files) /\ n.batches = m.batches

LEMMA LineInStep ==
  ASSUME NEW m, NEW files, InStep(m, files), NEW line, IsLine(line),
         line.cents \in Int, line.eur \in Int \cup {Null}, line.day \in Int \cup {Null},
         line.id \notin JtlIds, \E f \in files : ~IsJtl(f) /\ line.marketplace = Reports[f].channel,
         NEW online
  PROVE  StepsOn(m, ImportLine(m, line, online), files)
<1> DEFINE key == BuildMarketplaceTxnKey(line)
           eur == Resolve(line, line.eur, online)
           stored == [line EXCEPT !.eur = eur]
           new == [m EXCEPT !.lines = Saved(m.lines, key, Unlinked(stored))]
           upserted == UpsertFromLine(new, stored)
           done == RematchIf(upserted, line.order)
<1>1. ImportLine(m, line, online) = IF key \in DOMAIN m.lines THEN m ELSE done
  BY Zenon DEF ImportLine
<1>2. eur \in Int \cup {Null}
  BY ResolvedIsAmount
<1> HIDE DEF eur
<1>3. /\ IsLine(stored) /\ stored.cents = line.cents /\ stored.eur = eur /\ stored.id = line.id
      /\ stored.marketplace = line.marketplace /\ stored.kind = line.kind
  BY DEF IsLine, LineFields
<1> HIDE DEF stored
<1>4. key = BuildMarketplaceTxnKey(stored)
  BY <1>3, Zenon DEF BuildMarketplaceTxnKey
<1> HIDE DEF key
<1>5. ASSUME key \notin DOMAIN m.lines
      PROVE  StepsOn(m, done, files)
  <2>1. LineStored(new, m, key, stored) /\ new.batches = m.batches
    <3>1. IsMarket(m) /\ "cents" \in DOMAIN stored
      BY <1>3 DEF InStep, Documents, IsLine, LineFields
    <3> QED BY <1>3, <1>5, <3>1, LineIsStored
  <2> HIDE DEF new
  <2>2. InStep(upserted, files)
    BY <1>2, <1>3, <1>4, <1>5, <2>1, UpsertedLineInStep
  <2>3. SameRows(new, upserted)
    BY <2>1, UpsertedLineSame DEF LineStored
  <2> HIDE DEF upserted
  <2>4. InStep(done, files)
    BY <2>2, RematchedInStep
  <2>5. SameRows(upserted, done)
    BY <2>3, RematchedSame DEF SameRows
  <2> HIDE DEF done
  <2> QED BY <2>1, <2>3, <2>4, <2>5 DEF SameRows, StepsOn
<1> HIDE DEF done
<1> QED BY <1>1, <1>5 DEF StepsOn

LEMMA ShoppedIsJtlRow ==
  ASSUME NEW row, IsJtlRow(row), NEW m, NEW shops
  PROVE  IsJtlRow(Shopped(m, shops, row)) /\ Shopped(m, shops, row).id = row.id
<1> DEFINE order == Upper(row.order)
           prior == {r \in RecordsOf(m, order) : r.marketplace # Null}
           Named(shop) == [row EXCEPT !.marketplace = shop.marketplace, !.channel = OrElse(@, shop.channel)]
           known == CHOOSE r \in prior : TRUE
<1>1. Shopped(m, shops, row) =
        IF order = <<>> \/ row.marketplace # Null \/ row.review THEN row
        ELSE IF order \in DOMAIN shops THEN Named(shops[order])
        ELSE IF prior # {} THEN Named(known) ELSE row
  BY Zenon DEF Shopped
<1>2. ASSUME NEW shop
      PROVE  IsJtlRow(Named(shop)) /\ Named(shop).id = row.id
  BY DEF IsJtlRow, RecordFields
<1> HIDE DEF order, prior, known, Named
<1> QED BY <1>1, <1>2

LEMMA RecordInStep ==
  ASSUME NEW m, NEW files, InStep(m, files), NEW read, IsJtlRow(read), read.id \in JtlIds,
         \E f \in files : IsJtl(f), NEW shops, NEW online
  PROVE  StepsOn(m, ImportRecord(m, shops, read, online), files)
<1> DEFINE row == Shopped(m, shops, read)
           key == <<row.id, row.kind>>
           same == {r \in Values(m.records) : r.number = row.number}
           taxes == {r.tax : r \in same} \ {<<>>}
           known == row.number # <<>> /\ IsInvoice(row) /\ same # {}
           taxed == row.tax # <<>> /\ taxes # {} /\ row.tax \notin taxes
           new == [m EXCEPT !.records = Saved(m.records, key, Unlinked(row))]
           upserted == UpsertFromRecord(new, row, key, online)
           done == RematchIf(upserted, row.order)
<1>1. ImportRecord(m, shops, read, online) =
        IF known THEN RaiseIf(taxed, m, "MULTIPLE_TAX_CODES", row.order, row.id)
        ELSE IF key \in DOMAIN m.records THEN m ELSE done
  BY Zenon DEF ImportRecord
<1>2. IsJtlRow(row) /\ row.id \in JtlIds
  BY ShoppedIsJtlRow
<1> HIDE DEF row, key, known, taxed
<1>3. ASSUME key \notin DOMAIN m.records
      PROVE  StepsOn(m, done, files)
  <2>1. RecordStored(new, m, key) /\ new.batches = m.batches
    <3>1. IsMarket(m) /\ {"order", "kind", "cents", "number"} \subseteq DOMAIN row
      BY <1>2 DEF InStep, Documents, IsJtlRow, RecordFields
    <3> QED BY <1>3, <3>1, RecordIsStored
  <2> HIDE DEF new
  <2>2. InStep(upserted, files)
    BY <1>2, <1>3, <2>1, UpsertedRecordInStep
  <2>3. SameRows(new, upserted)
    BY <2>1, UpsertedRecordSame DEF RecordStored
  <2> HIDE DEF upserted
  <2>4. InStep(done, files)
    BY <2>2, RematchedInStep
  <2>5. SameRows(upserted, done)
    BY <2>3, RematchedSame DEF SameRows
  <2> HIDE DEF done
  <2> QED BY <2>1, <2>3, <2>4, <2>5 DEF SameRows, StepsOn
<1>5. StepsOn(m, RaiseIf(taxed, m, "MULTIPLE_TAX_CODES", row.order, row.id), files)
  <2>1. IsMarket(m)
    BY DEF InStep, Documents
  <2> QED BY <2>1, RaisedInStep, RaisedSame DEF StepsOn, SameRows
<1> HIDE DEF done
<1> QED BY <1>1, <1>3, <1>5 DEF StepsOn

\* A row of a file, as its parser leaves it.
RowRead(f, r) ==
  IF IsJtl(f) THEN IsJtlRow(r)
  ELSE /\ IsLine(r) /\ r.marketplace = Reports[f].channel
       /\ r.cents \in Int /\ r.eur \in Int \cup {Null} /\ r.day \in Int \cup {Null}
       /\ r.id \notin JtlIds

LEMMA LinesInStep ==
  ASSUME NEW m, NEW files, InStep(m, files), NEW f \in files, ~IsJtl(f), NEW rows, Len(rows) \in Nat,
         \A j \in 1..Len(rows) : RowRead(f, rows[j]), NEW online
  PROVE  StepsOn(m, StoreLines(m, rows, online), files)
<1>1. PICK g : LinesAfter(g, m, rows, online, Len(rows)) /\ StoreLines(m, rows, online) = g[Len(rows)]
  BY LinesAfterIsLast
<1> DEFINE Bad == {k \in 0..Len(rows) : ~StepsOn(m, g[k], files)}
<1> SUFFICES ASSUME Bad # {} PROVE FALSE
  <2>1. Len(rows) \in 0..Len(rows) /\ Len(rows) \notin Bad
    OBVIOUS
  <2> QED BY <1>1, <2>1
<1>2. PICK k \in Bad : \A j \in Bad : k <= j
  <2>1. Bad \in SUBSET Nat
    OBVIOUS
  <2> HIDE DEF Bad
  <2> QED BY <2>1, LeastOf
<1>3. k \in 0..Len(rows) /\ ~StepsOn(m, g[k], files)
  BY <1>2
<1>4. CASE k = 0
  <2>1. g[0] = m
    BY <1>1 DEF LinesAfter
  <2> QED BY <1>3, <1>4, <2>1 DEF StepsOn
<1>5. CASE k # 0
  <2>1. k - 1 \in 0..Len(rows) /\ ~(k <= k - 1) /\ k \in 1..Len(rows)
    BY <1>3, <1>5
  <2>2. k - 1 \notin Bad
    <3> HIDE DEF Bad
    <3> QED BY <1>2, <2>1
  <2>3. StepsOn(m, g[k - 1], files)
    BY <2>1, <2>2
  <2>4. g[k] = ImportLine(g[k - 1], rows[k], online)
    BY <1>1, <1>3, <1>5, <2>1 DEF LinesAfter
  <2>5. StepsOn(g[k - 1], g[k], files)
    BY <2>1, <2>3, <2>4, LineInStep DEF StepsOn, RowRead
  <2> QED BY <1>3, <2>3, <2>5 DEF StepsOn
<1> QED BY <1>4, <1>5

LEMMA RankInStep ==
  ASSUME NEW m, NEW files, InStep(m, files), NEW f \in files, IsJtl(f), NEW rows, Len(rows) \in Nat,
         \A j \in 1..Len(rows) : RowRead(f, rows[j]) /\ rows[j].id \in JtlIds,
         NEW rank, NEW shops, NEW online
  PROVE  StepsOn(m, StoreRank(m, rows, rank, shops, online), files)
<1>1. PICK g : /\ RankAfter(g, m, rows, rank, shops, online, Len(rows))
               /\ StoreRank(m, rows, rank, shops, online) = g[Len(rows)]
  BY RankAfterIsLast
<1> DEFINE Bad == {k \in 0..Len(rows) : ~StepsOn(m, g[k], files)}
<1> SUFFICES ASSUME Bad # {} PROVE FALSE
  <2>1. Len(rows) \in 0..Len(rows) /\ Len(rows) \notin Bad
    OBVIOUS
  <2> QED BY <1>1, <2>1
<1>2. PICK k \in Bad : \A j \in Bad : k <= j
  <2>1. Bad \in SUBSET Nat
    OBVIOUS
  <2> HIDE DEF Bad
  <2> QED BY <2>1, LeastOf
<1>3. k \in 0..Len(rows) /\ ~StepsOn(m, g[k], files)
  BY <1>2
<1>4. CASE k = 0
  <2>1. g[0] = m
    BY <1>1 DEF RankAfter
  <2> QED BY <1>3, <1>4, <2>1 DEF StepsOn
<1>5. CASE k # 0
  <2>1. k - 1 \in 0..Len(rows) /\ ~(k <= k - 1) /\ k \in 1..Len(rows)
    BY <1>3, <1>5
  <2>2. k - 1 \notin Bad
    <3> HIDE DEF Bad
    <3> QED BY <1>2, <2>1
  <2>3. StepsOn(m, g[k - 1], files)
    BY <2>1, <2>2
  <2>4. g[k] = IF RecordRank(rows[k].kind) # rank THEN g[k - 1]
               ELSE ImportRecord(g[k - 1], shops, rows[k], online)
    BY <1>1, <1>3, <1>5, <2>1 DEF RankAfter
  <2>5. StepsOn(g[k - 1], ImportRecord(g[k - 1], shops, rows[k], online), files)
    BY <2>1, <2>3, RecordInStep DEF StepsOn, RowRead
  <2> QED BY <1>3, <2>3, <2>4, <2>5 DEF StepsOn
<1> QED BY <1>4, <1>5

LEMMA RecordsInStep ==
  ASSUME NEW m, NEW files, InStep(m, files), NEW f \in files, IsJtl(f), NEW rows, Len(rows) \in Nat,
         \A j \in 1..Len(rows) : RowRead(f, rows[j]) /\ rows[j].id \in JtlIds,
         NEW shops, NEW online
  PROVE  StepsOn(m, StoreRecords(m, rows, shops, online), files)
<1> DEFINE orders == StoreRank(m, rows, 0, shops, online)
           invoices == StoreRank(orders, rows, 1, shops, online)
           all3 == StoreRank(invoices, rows, 2, shops, online)
<1>1. StoreRecords(m, rows, shops, online) = all3
  BY RecordsInPasses
<1>2. StepsOn(m, orders, files)
  BY RankInStep
<1> HIDE DEF orders
<1>3. StepsOn(orders, invoices, files)
  BY <1>2, RankInStep DEF StepsOn
<1> HIDE DEF invoices
<1>4. StepsOn(invoices, all3, files)
  BY <1>3, RankInStep DEF StepsOn
<1> HIDE DEF all3
<1> QED BY <1>1, <1>2, <1>3, <1>4 DEF StepsOn

\* What is read in the reports: rows as the parsers leave them, of the shop the
\* report is of.  No row of a marketplace has the id of a record of JTL.
ReportsRead ==
  \A f \in DOMAIN Reports :
    /\ Reading[f].rows \in Seq(RowsRead(f))
    /\ \A r \in RowsRead(f) : RowRead(f, r)
    /\ ~IsJtl(f) => /\ Reports[f].channel \in MARKETPLACES \ {"kaufland"}
                    /\ ResolveReportKind(Reports[f]) \in {"order", "financial"}

BatchesKnown ==
  /\ IsFiniteSet(DOMAIN market.batches)
  /\ \A f \in DOMAIN market.batches :
       /\ f \in DOMAIN Reports
       /\ market.batches[f].kind = IF IsJtl(f) THEN "jtl" ELSE ResolveReportKind(Reports[f])

OfficeOK == InStep(market, DOMAIN market.batches) /\ BatchesKnown

LEMMA MoreFilesInStep ==
  ASSUME NEW m, NEW files, InStep(m, files), NEW more, files \subseteq more
  PROVE  InStep(m, more)
<1>1. \A e : EventOf(e, files) => EventOf(e, more)
  BY DEF EventOf
<1>2. Documents(m, more)
  BY <1>1 DEF InStep, Documents
<1> QED BY <1>2 DEF InStep

LEMMA BatchesInStep ==
  ASSUME NEW m, NEW files, InStep(m, files), NEW all
  PROVE  InStep([m EXCEPT !.batches = all], files) /\ [m EXCEPT !.batches = all].batches = all
<1> DEFINE n == [m EXCEPT !.batches = all]
<1>1. /\ IsMarket(n) /\ n.lines = m.lines /\ n.records = m.records /\ n.events = m.events
      /\ n.exceptions = m.exceptions /\ n.batches = all
  BY DEF InStep, Documents, IsMarket
<1> HIDE DEF n
<1>2. \A order : (Invoiced(n, order) <=> Invoiced(m, order)) /\ (Cancelled(n, order) <=> Cancelled(m, order))
  BY <1>1, InvoicedRecord, AmazonLines DEF Cancelled
<1>3. \A order : Missed(n, order) <=> Missed(m, order)
  BY <1>1 DEF Missed
<1>4. Documents(n, files)
  BY <1>1 DEF InStep, Documents
<1>5. Linked(n)
  BY <1>1 DEF InStep, Linked
<1>6. Awaited(n)
  BY <1>1, <1>2, <1>3 DEF InStep, Awaited
<1> QED BY <1>1, <1>4, <1>5, <1>6 DEF InStep, n

LEMMA UploadInStep ==
  ASSUME ReportsRead, OfficeOK, NEW f \in DOMAIN Reports, UploadReport(f)
  PROVE  OfficeOK'
<1> DEFINE rows == Reading[f].rows
           files == DOMAIN market.batches \cup {f}
<1>1. PICK online \in BOOLEAN : market' = ImportFile(market, f, online)
  BY DEF UploadReport
<1> DEFINE s == StoreRows(market, f, rows, online)
           kind == IF IsJtl(f) THEN "jtl" ELSE ResolveReportKind(Reports[f])
           batch == [begins |-> Begins(rows), rows |-> Len(rows), kind |-> kind]
           more == Saved(s.batches, f, batch)
           known == f \in DOMAIN market.batches \/ (Reports[f].channel = "xlsx" /\ rows = <<>>)
<1>2. market' = IF known THEN market ELSE [s EXCEPT !.batches = more]
  BY <1>1, Zenon DEF ImportFile, ImportRows
<1>3. /\ Len(rows) \in Nat
      /\ \A j \in 1..Len(rows) : RowRead(f, rows[j]) /\ (IsJtl(f) => rows[j].id \in JtlIds)
  <2>1. rows \in Seq(RowsRead(f)) /\ \A r \in RowsRead(f) : RowRead(f, r)
    BY DEF ReportsRead
  <2>2. \A j \in 1..Len(rows) : rows[j] \in RowsRead(f)
    BY DEF RowsRead
  <2>3. \A r \in RowsRead(f) : IsJtl(f) => r.id \in JtlIds
    BY DEF JtlIds, JtlRows
  <2> QED BY <2>1, <2>2, <2>3
<1>4. InStep(market, files) /\ f \in files
  BY MoreFilesInStep DEF OfficeOK
<1>5. batch.kind = kind
  OBVIOUS
<1> HIDE DEF rows, files, batch
<1>6. StepsOn(market, s, files)
  <2>1. CASE IsJtl(f)
    <3> DEFINE shops == ShopByOrder(rows)
    <3>1. s = StoreRecords(market, rows, shops, online)
      BY <2>1, Zenon DEF StoreRows
    <3> HIDE DEF shops, s
    <3> QED BY <1>3, <1>4, <2>1, <3>1, RecordsInStep
  <2>2. CASE ~IsJtl(f)
    <3>1. s = StoreLines(market, rows, online)
      BY <2>2, Zenon DEF StoreRows
    <3> HIDE DEF s
    <3> QED BY <1>3, <1>4, <2>2, <3>1, LinesInStep
  <2> QED BY <2>1, <2>2
<1> HIDE DEF s, known
<1>7. CASE known
  <2>1. market' = market
    BY <1>2, <1>7
  <2> QED BY <2>1 DEF OfficeOK, BatchesKnown
<1>8. CASE ~known
  <2>1. market' = [s EXCEPT !.batches = more]
    BY <1>2, <1>8
  <2>2. /\ DOMAIN more = files /\ more[f] = batch
        /\ \A g \in DOMAIN market.batches : g # f => more[g] = market.batches[g]
    BY <1>6 DEF Saved, StepsOn, files
  <2> HIDE DEF more
  <2>3. InStep(market', files) /\ market'.batches = more
    BY <1>6, <2>1, BatchesInStep DEF StepsOn
  <2>4. IsFiniteSet(files)
    BY FS_AddElement DEF OfficeOK, BatchesKnown, files
  <2>5. \A g \in files : /\ g \in DOMAIN Reports
                         /\ more[g].kind = IF IsJtl(g) THEN "jtl" ELSE ResolveReportKind(Reports[g])
    BY <1>5, <2>2 DEF OfficeOK, BatchesKnown, files
  <2> QED BY <2>2, <2>3, <2>4, <2>5 DEF OfficeOK, BatchesKnown
<1> QED BY <1>7, <1>8

\* A human's answer: the event is what it was, and nothing new waits.
LEMMA AnsweredInStep ==
  ASSUME OfficeOK, NEW i \in DOMAIN market.events, NEW event,
         \A files : EventOf(market.events[i], files) => EventOf(event, files),
         event.order = market.events[i].order, event.type = market.events[i].type,
         event.status \in {"matched", market.events[i].status},
         market' = [market EXCEPT !.events = [market.events EXCEPT ![i] = event]]
  PROVE  OfficeOK'
<1> DEFINE files == DOMAIN market.batches
           events == [market.events EXCEPT ![i] = event]
<1>1. /\ DOMAIN events = DOMAIN market.events /\ events[i] = event
      /\ \A j \in DOMAIN market.events : j # i => events[j] = market.events[j]
  OBVIOUS
<1>2. market' = [market EXCEPT !.events = events]
  OBVIOUS
<1> HIDE DEF events
<1>3. \A j \in DOMAIN market.events :
        /\ EventOf(market.events[j], files)
        /\ market.events[j].status = "invoice_pending" =>
             /\ market.events[j].type = "ORDER_CREATED" /\ Missed(market, market.events[j].order)
             /\ \E k \in DOMAIN market.lines : market.lines[k].event = j
  BY DEF OfficeOK, InStep, Documents, Linked, Awaited
<1>4. \A j \in DOMAIN events :
        LET new == events[j]
            old == market.events[j]
        IN /\ EventOf(new, files) /\ new.order = old.order
           /\ new.type = "ORDER_CREATED" => old.type = "ORDER_CREATED"
           /\ new.status = "invoice_pending" =>
                /\ new.type = "ORDER_CREATED" /\ \E k \in DOMAIN market.lines : market.lines[k].event = j
                /\ Missed(market, new.order)
  <2>1. CASE event.status = market.events[i].status
    BY <1>1, <1>3, <2>1
  <2>2. CASE event.status = "matched"
    BY <1>1, <1>3, <2>2
  <2> QED BY <2>1, <2>2
<1>5. InStep(market', files)
  BY <1>1, <1>2, <1>4, RewrittenInStep DEF OfficeOK
<1>6. market'.batches = market.batches
  BY <1>2 DEF OfficeOK, InStep, Documents, IsMarket
<1> QED BY <1>5, <1>6 DEF OfficeOK, BatchesKnown

LEMMA OfficeNext == ReportsRead /\ OfficeOK /\ [Next]_vars => OfficeOK'
<1> SUFFICES ASSUME ReportsRead, OfficeOK, [Next]_vars PROVE OfficeOK'
  OBVIOUS
<1>1. CASE UNCHANGED market
  BY <1>1 DEF OfficeOK, BatchesKnown
<1>2. ASSUME NEW i \in DOMAIN market.events, NEW t, SetTreatment(i, t)
      PROVE  OfficeOK'
  <2> DEFINE e == market.events[i]
             event == [e EXCEPT !.treatment = t]
  <2>1. market' = [market EXCEPT !.events = [market.events EXCEPT ![i] = event]]
    BY <1>2 DEF SetTreatment, OfficeOK, InStep, Documents, IsMarket
  <2>2. EventOf(e, DOMAIN market.batches)
    BY DEF OfficeOK, InStep, Documents
  <2>3. /\ \A files : EventOf(e, files) => EventOf(event, files)
        /\ event.order = e.order /\ event.type = e.type /\ event.status = e.status
    BY <2>2 DEF EventOf
  <2> HIDE DEF event
  <2> QED BY <2>1, <2>3, AnsweredInStep
<1>3. ASSUME NEW i \in DOMAIN market.events, NEW p, MatchPayout(i, p)
      PROVE  OfficeOK'
  <2> DEFINE e == market.events[i]
             event == [e EXCEPT !.status = "matched", !.linked = p]
  <2>1. market' = [market EXCEPT !.events = [market.events EXCEPT ![i] = event]]
    BY <1>3 DEF MatchPayout, OfficeOK, InStep, Documents, IsMarket
  <2>2. EventOf(e, DOMAIN market.batches)
    BY DEF OfficeOK, InStep, Documents
  <2>3. /\ \A files : EventOf(e, files) => EventOf(event, files)
        /\ event.order = e.order /\ event.type = e.type /\ event.status = "matched"
    BY <2>2 DEF EventOf
  <2> HIDE DEF event
  <2> QED BY <2>1, <2>3, AnsweredInStep
<1>4. \/ UNCHANGED market
      \/ \E f \in DOMAIN Reports : UploadReport(f)
      \/ \E i \in DOMAIN market.events, t \in Treatments : SetTreatment(i, t)
      \/ \E i \in DOMAIN market.events, p \in DOMAIN txs : MatchPayout(i, p)
  BY DEF Next, MarketStep, vars, Candidates
<1> QED BY <1>1, <1>2, <1>3, <1>4, UploadInStep

LEMMA OfficeInit == Init => OfficeOK
<1> SUFFICES ASSUME market = NoMarket PROVE OfficeOK
  BY DEF Init
<1>1. /\ market.lines = <<>> /\ market.records = <<>> /\ market.events = <<>>
      /\ market.exceptions = {} /\ market.batches = <<>>
      /\ market = [lines |-> market.lines, records |-> market.records, events |-> market.events,
                   exceptions |-> market.exceptions, batches |-> market.batches]
  BY DEF NoMarket
<1>2. DOMAIN <<>> = {}
  OBVIOUS
<1>3. IsFiniteSet({})
  BY FS_EmptySet
<1> QED BY <1>1, <1>2, <1>3 DEF OfficeOK, BatchesKnown, InStep, Documents, IsMarket, Linked, Awaited

LEMMA SomeOf ==
  ASSUME NEW S, IsFiniteSet(S)
  PROVE  (Cardinality(S) = 0 <=> S = {}) /\ (Cardinality(S) > 0 <=> S # {})
<1>1. Cardinality(S) \in Nat /\ (Cardinality(S) = 0 <=> S = {})
  BY FS_CardinalityType, FS_EmptySet
<1> QED BY <1>1

\* Of a file of a source that has an event the coverage knows.
LEMMA NothingMissing ==
  ASSUME ReportsRead, OfficeOK, NEW p, Today \in p.from..p.to, NEW i \in DOMAIN market.events
  PROVE  LET gaps == PeriodCoverage(p).gaps
             e == market.events[i]
         IN /\ e.source = "jtl" => "jtl" \notin gaps
            /\ e.source # "jtl" => /\ e.marketplace \notin gaps
                                   /\ e.marketplace = "amazon" =>
                                        ~({"amazon order", "amazon financial"} \subseteq gaps)
<1> DEFINE files == DOMAIN market.batches
           Kind(f) == market.batches[f].kind
           Of(channels, kinds) == {f \in Covered(p) : Reports[f].channel \in channels /\ Kind(f) \in kinds}
           gaps == PeriodCoverage(p).gaps
           e == market.events[i]
           any == {"order", "financial"}
<1>1. Covered(p) = files
  BY DEF Covered
<1>2. \A channels, kinds :
        Cardinality(Of(channels, kinds)) = 0 <=>
          ~\E f \in files : Reports[f].channel \in channels /\ Kind(f) \in kinds
  <2> TAKE channels, kinds
  <2>1. IsFiniteSet(Of(channels, kinds))
    BY <1>1, FS_Subset DEF OfficeOK, BatchesKnown
  <2>2. Of(channels, kinds) = {} <=> ~\E f \in files : Reports[f].channel \in channels /\ Kind(f) \in kinds
    BY <1>1
  <2> HIDE DEF Of
  <2> QED BY <2>1, <2>2, SomeOf
<1>3. gaps = (IF Cardinality(Of({"jtl", "xlsx"}, {"jtl"})) = 0 THEN {"jtl"} ELSE {})
               \cup (IF Cardinality(Of({"amazon"}, {"order"})) = 0 THEN {"amazon order"} ELSE {})
               \cup (IF Cardinality(Of({"amazon"}, {"financial"})) = 0 THEN {"amazon financial"} ELSE {})
               \cup {mp \in {"backmarket", "refurbed"} : Cardinality(Of({mp}, any)) = 0}
  BY Zenon DEF PeriodCoverage
<1>4. /\ "jtl" \in gaps <=> Cardinality(Of({"jtl", "xlsx"}, {"jtl"})) = 0
      /\ "amazon order" \in gaps <=> Cardinality(Of({"amazon"}, {"order"})) = 0
      /\ "amazon financial" \in gaps <=> Cardinality(Of({"amazon"}, {"financial"})) = 0
      /\ "amazon" \notin gaps
      /\ \A mp \in {"backmarket", "refurbed"} : mp \in gaps <=> Cardinality(Of({mp}, any)) = 0
  <2> HIDE DEF Of, gaps, any
  <2> QED BY <1>3
<1> HIDE DEF Of, gaps
<1>5. \A f \in files : /\ f \in DOMAIN Reports
                       /\ Kind(f) = IF IsJtl(f) THEN "jtl" ELSE ResolveReportKind(Reports[f])
                       /\ ~IsJtl(f) => /\ Reports[f].channel \in {"amazon", "backmarket", "refurbed"}
                                       /\ ResolveReportKind(Reports[f]) \in any
  BY DEF OfficeOK, BatchesKnown, ReportsRead, MARKETPLACES
<1>6. \/ e.source = "jtl" /\ \E f \in files : IsJtl(f)
      \/ e.source = "marketplace" /\ \E f \in files : ~IsJtl(f) /\ e.marketplace = Reports[f].channel
  BY DEF OfficeOK, InStep, Documents, EventOf
<1>7. CASE e.source = "jtl"
  <2>1. PICK f \in files : IsJtl(f)
    BY <1>6, <1>7
  <2>2. Reports[f].channel \in {"jtl", "xlsx"} /\ Kind(f) \in {"jtl"}
    BY <1>5, <2>1 DEF IsJtl
  <2>3. "jtl" \notin gaps
    <3> HIDE DEF Kind, files
    <3> QED BY <1>2, <1>4, <2>2
  <2> QED BY <1>7, <2>3 DEF gaps
<1>8. CASE e.source # "jtl"
  <2>1. PICK f \in files : ~IsJtl(f) /\ e.marketplace = Reports[f].channel
    BY <1>6, <1>8
  <2>2. /\ Reports[f].channel \in {"amazon", "backmarket", "refurbed"}
        /\ Kind(f) \in any
    BY <1>5, <2>1
  <2>3. \A kinds : Kind(f) \in kinds => ~(Cardinality(Of({e.marketplace}, kinds)) = 0)
    <3> HIDE DEF Kind, files
    <3> QED BY <1>2, <2>1
  <2> HIDE DEF Kind
  <2>4. e.marketplace \notin gaps
    BY <1>4, <2>1, <2>2, <2>3
  <2>5. e.marketplace = "amazon" => ~({"amazon order", "amazon financial"} \subseteq gaps)
    <3>1. Kind(f) \in {"order"} \/ Kind(f) \in {"financial"}
      BY <2>2
    <3> QED BY <1>4, <2>3, <3>1
  <2> QED BY <1>8, <2>4, <2>5 DEF gaps
<1> QED BY <1>7, <1>8

LEMMA NothingEscapesOffice == ReportsRead /\ OfficeOK => NothingEscapes
<1> SUFFICES ASSUME ReportsRead, OfficeOK, NEW p \in Periods
             PROVE  /\ Today \in p.from..p.to =>
                         LET gaps == PeriodCoverage(p).gaps
                             Missing(e) == \/ e.source = "jtl" /\ "jtl" \in gaps
                                           \/ e.source # "jtl" /\ e.marketplace \in gaps
                                           \/ /\ e.source # "jtl" /\ e.marketplace = "amazon"
                                              /\ {"amazon order", "amazon financial"} \subseteq gaps
                         IN EventsWhere(p, Missing) = {}
                    /\ Today \in p.from..p.to =>
                         LET inbox == Inbox(p)
                             about == {x.order : x \in inbox.exceptions}
                         IN \A i \in inbox.pending :
                              market.events[i].status = "invoice_pending" => market.events[i].order \in about
                    /\ Decisions(p).invoicePending > 0 => Decisions(p).openExceptions > 0
  BY Zenon DEF NothingEscapes
<1>1. ASSUME Today \in p.from..p.to
      PROVE  LET gaps == PeriodCoverage(p).gaps
                 Missing(e) == \/ e.source = "jtl" /\ "jtl" \in gaps
                               \/ e.source # "jtl" /\ e.marketplace \in gaps
                               \/ /\ e.source # "jtl" /\ e.marketplace = "amazon"
                                  /\ {"amazon order", "amazon financial"} \subseteq gaps
             IN EventsWhere(p, Missing) = {}
  <2> DEFINE gaps == PeriodCoverage(p).gaps
             Missing(e) == \/ e.source = "jtl" /\ "jtl" \in gaps
                           \/ e.source # "jtl" /\ e.marketplace \in gaps
                           \/ /\ e.source # "jtl" /\ e.marketplace = "amazon"
                              /\ {"amazon order", "amazon financial"} \subseteq gaps
  <2> HIDE DEF gaps
  <2>1. \A i \in DOMAIN market.events : ~Missing(market.events[i])
    BY <1>1, NothingMissing DEF gaps
  <2> HIDE DEF Missing
  <2>2. EventsWhere(p, Missing) = {}
    BY <2>1 DEF EventsWhere
  <2> QED BY <2>2 DEF gaps, Missing
<1>2. \A i \in DOMAIN market.events :
        market.events[i].status = "invoice_pending" => Missed(market, market.events[i].order)
  BY DEF OfficeOK, InStep, Awaited
<1>3. ASSUME Today \in p.from..p.to
      PROVE  LET inbox == Inbox(p)
                 about == {x.order : x \in inbox.exceptions}
             IN \A i \in inbox.pending :
                  market.events[i].status = "invoice_pending" => market.events[i].order \in about
  <2>1. Inbox(p).exceptions = market.exceptions /\ Inbox(p).pending \subseteq DOMAIN market.events
    BY <1>3 DEF Inbox, EventsWhere
  <2> QED BY <1>2, <2>1 DEF Missed
<1>4. Decisions(p).invoicePending > 0 => Decisions(p).openExceptions > 0
  <2> DEFINE waiting == {i \in DOMAIN market.events : market.events[i].status = "invoice_pending"}
  <2>1. /\ Decisions(p).invoicePending = Cardinality(waiting)
        /\ Decisions(p).openExceptions = Cardinality(market.exceptions)
    BY DEF Decisions
  <2>2. IsFiniteSet(waiting) /\ IsFiniteSet(market.exceptions)
    BY FS_Subset DEF OfficeOK, InStep, Documents
  <2>3. waiting # {} => market.exceptions # {}
    BY <1>2 DEF Missed
  <2> HIDE DEF waiting
  <2> QED BY <2>1, <2>2, <2>3, SomeOf
<1> QED BY <1>1, <1>3, <1>4

----------------------------------------------------------------------------
(* The figures of the reports.                                             *)

\* The sum of the opposite.
LEMMA SumOpposite ==
  ASSUME NEW S, IsFiniteSet(S), NEW u \in [S -> Int], NEW v \in [S -> Int],
         \A x \in S : v[x] = -u[x]
  PROVE  Total(S, v) = -Total(S, u)
<1> DEFINE w == [x \in S |-> 0]
<1>1. w \in [S -> Int] /\ \A x \in S : w[x] = u[x] + v[x] /\ w[x] = 0
  OBVIOUS
<1> HIDE DEF w
<1>2. Total(S, w) = Total(S, u) + Total(S, v)
  BY <1>1, SumPlus
<1>3. Total(S, w) = Total({}, w)
  BY <1>1, SumWithin, {} \in SUBSET S
<1>5. Total({}, w) = 0
  BY <1>1, Sums
<1>4. Total(S, u) \in Int /\ Total(S, v) \in Int
  BY Sums, S \in SUBSET S
<1> QED BY <1>2, <1>3, <1>4, <1>5

LEMMA CentsAreNumbers ==
  ASSUME OfficeOK, NEW set \in SUBSET DOMAIN market.events
  PROVE  /\ IsFiniteSet(set)
         /\ [i \in set |-> EventCents(i)] \in [set -> Int]
         /\ SumCents(set) \in Int
<1>1. IsFiniteSet(set)
  BY FS_Subset DEF OfficeOK, InStep, Documents
<1>2. \A i \in set : EventCents(i) \in Int
  BY DEF OfficeOK, InStep, Documents, EventOf, EventCents
<1> DEFINE w == [i \in set |-> EventCents(i)]
<1>3. w \in [set -> Int]
  BY <1>2
<1>4. SumFunction(w) = Total(set, w) /\ Total(set, w) \in Int
  <2> HIDE DEF w
  <2> QED BY <1>1, <1>3, Sums, set \in SUBSET set
<1>5. SumCents(set) = SumFunction(w)
  BY DEF SumCents
<1> HIDE DEF w
<1>6. SumCents(set) \in Int
  BY <1>4, <1>5
<1> QED BY <1>1, <1>3, <1>6 DEF w

LEMMA PayoutsAgree ==
  ASSUME OfficeOK, NEW p, NEW mp
  PROVE  LET overview == Overview(mp, p)
             payout == ExpectedVsActual(mp, p)
         IN /\ payout.actual = overview.actual
            /\ ~payout.fallback => payout.expected = overview.expected
            /\ payout.status = "reconciled" /\ ~payout.fallback => overview.difference = 0
<1> DEFINE Of(type) == SumCents(EventsOf(mp, type, p))
           owed == Of("SETTLEMENT") + Of("FEE") + Of("REFUND") + Of("ADJUSTMENT")
           net == Of("SALE") + Of("REFUND") + Of("FEE") + Of("ADJUSTMENT")
           expected == IF owed # 0 THEN owed ELSE net
           actual == Of("PAYOUT")
           any == \E type \in {"SALE", "REFUND", "FEE", "SETTLEMENT", "PAYOUT"} : EventsOf(mp, type, p) # {}
           standing == IF ~any THEN "no_data"
                     ELSE IF expected = actual /\ actual # 0 THEN "reconciled"
                     ELSE IF expected = 0 /\ actual = 0 THEN "zero" ELSE "open"
           overview == Overview(mp, p)
           payout == ExpectedVsActual(mp, p)
<1>1. overview = [sales |-> Of("SALE"), fees |-> Of("FEE"), expected |-> owed, actual |-> actual,
                  difference |-> owed - actual, net |-> Of("SALE") + Of("REFUND")]
  BY Zenon DEF Overview
<1>2. payout = [expected |-> expected, fallback |-> owed = 0, actual |-> actual, status |-> standing]
  BY Zenon DEF ExpectedVsActual
<1>3. \A type : EventsOf(mp, type, p) \in SUBSET DOMAIN market.events
  BY DEF EventsOf, EventsWhere
<1>4. \A type : Of(type) \in Int
  BY <1>3, CentsAreNumbers
<1>5. actual \in Int /\ owed \in Int
  <2> HIDE DEF Of
  <2> QED BY <1>4
<1> HIDE DEF Of, owed, actual, net, any, overview, payout
<1>6. overview.expected = owed /\ overview.actual = actual /\ overview.difference = owed - actual
  BY <1>1
<1>7. /\ payout.actual = actual /\ payout.expected = expected /\ payout.status = standing
      /\ payout.fallback <=> owed = 0
  <2> DEFINE zero == owed = 0
  <2>1. payout = [expected |-> expected, fallback |-> zero, actual |-> actual, status |-> standing]
    BY <1>2
  <2> HIDE DEF zero, expected, standing
  <2>2. payout.actual = actual /\ payout.expected = expected /\ payout.status = standing /\ payout.fallback = zero
    BY <2>1
  <2> QED BY <2>2 DEF zero
<1>8. ~payout.fallback => payout.expected = overview.expected
  BY <1>6, <1>7
<1>9. payout.status = "reconciled" => payout.expected = actual
  <2>1. standing = "reconciled" => expected = actual
    <3> HIDE DEF expected
    <3> QED OBVIOUS
  <2> QED BY <1>7, <2>1
<1>10. payout.status = "reconciled" /\ ~payout.fallback => overview.difference = 0
  BY <1>5, <1>6, <1>8, <1>9
<1> QED BY <1>6, <1>7, <1>8, <1>10 DEF overview, payout

LEMMA FeesAgree ==
  ASSUME OfficeOK, NEW p, NEW mp,
         \A i \in EventsWhere(p, LAMBDA e : e.type = "FEE" /\ e.marketplace = mp) :
           market.events[i].status # "void" /\ EventCents(i) <= 0
  PROVE  FeePreview(mp, p).net = -Overview(mp, p).fees
<1> DEFINE fees == EventsWhere(p, LAMBDA e : e.type = "FEE" /\ e.marketplace = mp)
           u == [i \in fees |-> EventCents(i)]
           v == [i \in fees |-> Magnitude(EventCents(i))]
<1>1. fees \in SUBSET DOMAIN market.events
  BY DEF EventsWhere
<1>2. EventsOf(mp, "FEE", p) = fees
  BY DEF EventsOf, EventsWhere
<1>3. \A i \in fees : EventCents(i) <= 0
  OBVIOUS
<1>4. FeePreview(mp, p).net = SumFunction(v)
  BY DEF FeePreview
<1>5. Overview(mp, p).fees = SumCents(EventsOf(mp, "FEE", p))
  BY DEF Overview
<1> HIDE DEF fees
<1>6. IsFiniteSet(fees) /\ u \in [fees -> Int]
  BY <1>1, CentsAreNumbers
<1>7. \A i \in fees : u[i] = EventCents(i) /\ u[i] \in Int
  BY <1>6
<1>8. v \in [fees -> Int] /\ \A i \in fees : v[i] = -u[i]
  BY <1>3, <1>7 DEF Magnitude
<1>9. SumCents(EventsOf(mp, "FEE", p)) = SumFunction(u)
  BY <1>2 DEF SumCents
<1> HIDE DEF u, v
<1>10. SumFunction(u) = Total(fees, u) /\ SumFunction(v) = Total(fees, v)
  BY <1>6, <1>8, Sums
<1>11. Total(fees, v) = -Total(fees, u)
  BY <1>6, <1>8, SumOpposite
<1> QED BY <1>4, <1>5, <1>9, <1>10, <1>11

LEMMA FiguresAgreeOffice == OfficeOK => FiguresAgree
<1> SUFFICES ASSUME OfficeOK, NEW p \in Periods, NEW mp \in MARKETPLACES
             PROVE  LET overview == Overview(mp, p)
                        payout == ExpectedVsActual(mp, p)
                        fees == EventsWhere(p, LAMBDA e : e.type = "FEE" /\ e.marketplace = mp)
                    IN /\ payout.actual = overview.actual
                       /\ ~payout.fallback => payout.expected = overview.expected
                       /\ payout.status = "reconciled" /\ ~payout.fallback => overview.difference = 0
                       /\ (\A i \in fees : market.events[i].status # "void" /\ EventCents(i) <= 0) =>
                            FeePreview(mp, p).net = -overview.fees
  BY Zenon DEF FiguresAgree
<1>1. LET overview == Overview(mp, p)
          payout == ExpectedVsActual(mp, p)
      IN /\ payout.actual = overview.actual
         /\ ~payout.fallback => payout.expected = overview.expected
         /\ payout.status = "reconciled" /\ ~payout.fallback => overview.difference = 0
  BY PayoutsAgree
<1>2. LET fees == EventsWhere(p, LAMBDA e : e.type = "FEE" /\ e.marketplace = mp)
      IN (\A i \in fees : market.events[i].status # "void" /\ EventCents(i) <= 0) =>
           FeePreview(mp, p).net = -Overview(mp, p).fees
  BY FeesAgree
<1> QED BY <1>1, <1>2, Zenon

\* Where the rows of the reports are whole, the reports of the accruals agree:
\* the payouts and the fees of the overview are those of the reconciliation
\* and of the VAT preview, no source with events in it is called missing, and
\* what waits for its invoice has its exception in the inbox, whatever is
\* uploaded in whatever order and however the events are treated or matched.
THEOREM ReportsOfTheAccrualsAgree ==
  ASSUME ReportsRead
  PROVE  Spec => []ReportsAgree
<1>1. Init => OfficeOK
  BY OfficeInit
<1>2. OfficeOK /\ [Next]_vars => OfficeOK'
  BY OfficeNext
<1>3. OfficeOK => ReportsAgree
  BY NothingEscapesOffice, FiguresAgreeOffice DEF ReportsAgree
<1> QED BY <1>1, <1>2, <1>3, PTL DEF Spec


----------------------------------------------------------------------------
(* The import batches: what one upload is in the requests behind it.       *)

(***************************************************************************)
(* From the creation of its batch on, an upload is about that batch and    *)
(* its file, and accounts for every row of the file: it is stored, still   *)
(* to do, or the one about to be stored.                                   *)
(***************************************************************************)
Importing == {"rows", "store", "handle", "finish", "audit"}

Accounts(w) ==
  \A k \in FileRows[w.file] :
    docs[k] # {} \/ k \in w.todo \/ (w.pc = "store" /\ w.cur = k)

WorkOK(w) ==
  /\ w.pc \in {"supersede", "create"} => w.file \in Files
  /\ w.pc \in Importing =>
       /\ w.file \in Files
       /\ w.batch \in Batches
       /\ status[w.batch] # "none"
       /\ file[w.batch] = w.file
       /\ w.todo \subseteq FileRows[w.file]
       /\ Accounts(w)
  /\ w.pc \in {"store", "handle"} => w.cur \in FileRows[w.file]
  /\ w.pc \in {"finish", "audit"} => w.todo = {}
  /\ w.pc \in {"supersede", "failing", "retry"} =>
       w.batch \in Batches /\ status[w.batch] # "none"

(***************************************************************************)
(* A batch that was created has a file; the watchdog marks such only.      *)
(***************************************************************************)
BatchesOK ==
  /\ \A b \in Batches : status[b] # "none" => file[b] \in Files
  /\ \A b \in watch : status[b] # "none"
  /\ CompletedStored

ImportsOK ==
  /\ TypeOK
  /\ BatchesOK
  /\ \A u \in Uploads : WorkOK(req[u])

----------------------------------------------------------------------------

(* What stays true of the stored state in every step: batches and files    *)
(* are not forgotten, documents are not deleted.                           *)
Kept ==
  /\ \A b \in Batches :
       status[b] # "none" => status'[b] # "none" /\ file'[b] = file[b]
  /\ \A k \in Keys : docs[k] # {} => docs'[k] # {}

(* A request that a step leaves alone keeps its word.                      *)
LEMMA OthersKept ==
  ASSUME Kept, NEW u \in Uploads, req'[u] = req[u], WorkOK(req[u])
  PROVE  WorkOK(req[u])'
<1>1. ASSUME req[u].pc \in Importing, NEW k \in FileRows[req[u].file]
      PROVE  docs[k] # {} => docs'[k] # {}
  <2>1. k \in Keys
    BY <1>1, FilesOK DEF WorkOK
  <2>2. QED BY <2>1 DEF Kept
<1>2. req[u].pc \in Importing => Accounts(req[u])'
  BY <1>1 DEF WorkOK, Accounts
<1>3. QED BY <1>2 DEF WorkOK, Kept

(* The idle record is one a request can hold.                              *)
LEMMA IdleIsWork == Idle \in Work /\ Idle.pc = "idle"
BY DEF Idle, Work, Phases

(* No batch loses a row when none becomes completed.                       *)
LEMMA CompletedKept ==
  ASSUME ImportsOK, Kept,
         \A b \in Batches : status'[b] = "completed" => status[b] = "completed"
  PROVE  CompletedStored'
<1>1. ASSUME NEW b \in Batches, status'[b] = "completed", NEW k \in FileRows[file'[b]]
      PROVE  docs'[k] # {}
  <2>1. status[b] = "completed" /\ file'[b] = file[b] /\ file[b] \in Files
    BY <1>1 DEF BatchesOK, Kept, ImportsOK
  <2>2. k \in Keys /\ docs[k] # {}
    BY <1>1, <2>1, FilesOK DEF BatchesOK, ImportsOK, CompletedStored
  <2>3. QED BY <2>2 DEF Kept
<1>2. QED BY <1>1 DEF CompletedStored

(* A step of one request.                                                  *)
LEMMA OneStep ==
  ASSUME ImportsOK, NEW u \in Uploads, NEW w \in Work, Step(u, w), Kept, TypeOK',
         WorkOK(req[u])', BatchesOK'
  PROVE  ImportsOK'
<1>1. \A v \in Uploads \ {u} : req'[v] = req[v]
  BY DEF Step, ImportsOK, TypeOK
<1>2. \A v \in Uploads : WorkOK(req[v])'
  BY <1>1, OthersKept DEF ImportsOK
<1>3. QED BY <1>2 DEF ImportsOK, BatchesOK

(* A step of one request that only reads.                                  *)
LEMMA QuietStep ==
  ASSUME ImportsOK, NEW u \in Uploads, NEW w \in Work, Step(u, w),
         req'[u] = w => WorkOK(req[u])',
         UNCHANGED <<status, file, superseded, docs, handled, watch>>,
         stale' \in [Batches -> BOOLEAN], groups' \subseteq SUBSET Keys,
         failures' \in 0..MaxFailures
  PROVE  ImportsOK'
<1>1. req' \in [Uploads -> Work] /\ req'[u] = w
  BY DEF Step, ImportsOK, TypeOK
<1>2. TypeOK'
  BY <1>1 DEF ImportsOK, TypeOK
<1>3. Kept
  BY DEF Kept
<1>4. BatchesOK'
  BY DEF ImportsOK, BatchesOK, CompletedStored
<1>5. QED BY <1>1, <1>2, <1>3, <1>4, OneStep

(* Before anything is uploaded.                                            *)
LEMMA ImportsInit == ImportInit => ImportsOK
<1> SUFFICES ASSUME ImportInit PROVE ImportsOK
  OBVIOUS
<1>1. TypeOK
  BY IdleIsWork, FilesOK DEF ImportInit, TypeOK
<1>2. \A u \in Uploads : WorkOK(req[u])
  BY DEF ImportInit, WorkOK, Importing, Idle
<1>3. QED BY <1>1, <1>2 DEF BatchesOK, ImportInit, ImportsOK, CompletedStored

(* The start of a request, and the calls that only free a hash.            *)
LEMMA BeginStep ==
  ASSUME ImportsOK, NEW u \in Uploads,
         FindFile(u) \/ FailAccrualBatch(u) \/ RetryAccrualBatch(u)
  PROVE  ImportsOK'
<1>1. CASE FindFile(u)
  <2>1. PICK f \in Files, b \in Batches \cup {NoBatch} :
          \/ Step(u, [Idle EXCEPT !.pc = "create", !.file = f])
          \/ /\ b \in Batches /\ status[b] = "failed"
             /\ Step(u, [Idle EXCEPT !.pc = "supersede", !.file = f, !.batch = b])
    BY <1>1 DEF FindFile
  <2>2. CASE Step(u, [Idle EXCEPT !.pc = "create", !.file = f])
    <3> DEFINE w == [Idle EXCEPT !.pc = "create", !.file = f]
    <3>1. w \in Work /\ w.pc = "create" /\ w.file = f
      BY DEF Work, Phases, Idle
    <3>2. QED BY <1>1, <2>2, <3>1, QuietStep
              DEF FindFile, rowDocs, ImportsOK, TypeOK, WorkOK, Importing
  <2>3. CASE /\ b \in Batches /\ status[b] = "failed"
             /\ Step(u, [Idle EXCEPT !.pc = "supersede", !.file = f, !.batch = b])
    <3> DEFINE w == [Idle EXCEPT !.pc = "supersede", !.file = f, !.batch = b]
    <3>1. w \in Work /\ w.pc = "supersede" /\ w.batch = b /\ w.file = f
      BY DEF Work, Phases, Idle
    <3>2. QED BY <1>1, <2>3, <3>1, QuietStep
              DEF FindFile, rowDocs, ImportsOK, TypeOK, WorkOK, Importing
  <2>4. QED BY <2>1, <2>2, <2>3
<1>2. ASSUME NEW pc \in {"failing", "retry"}, NEW b \in Batches, status[b] # "none",
             Step(u, [Idle EXCEPT !.pc = pc, !.batch = b]),
             UNCHANGED <<status, file, superseded, stale, rowDocs, watch, failures>>
      PROVE  ImportsOK'
  <2> DEFINE w == [Idle EXCEPT !.pc = pc, !.batch = b]
  <2>1. w \in Work /\ w.pc = pc /\ w.batch = b
    BY DEF Work, Phases, Idle
  <2>2. QED BY <1>2, <2>1, QuietStep DEF rowDocs, ImportsOK, TypeOK, WorkOK, Importing
<1>3. CASE FailAccrualBatch(u)
  BY <1>2, <1>3 DEF FailAccrualBatch
<1>4. CASE RetryAccrualBatch(u)
  BY <1>2, <1>4 DEF RetryAccrualBatch
<1>5. QED BY <1>1, <1>3, <1>4

(* Freeing the hash of a failed batch.                                     *)
LEMMA SupersedeStep ==
  ASSUME ImportsOK, NEW u \in Uploads, Supersede(u) \/ SupersedeRetried(u)
  PROVE  ImportsOK'
<1> DEFINE w == IF req[u].pc = "retry" THEN Idle
                ELSE [req[u] EXCEPT !.pc = "create", !.batch = NoBatch]
<1>1. req[u] \in Work /\ WorkOK(req[u])
  BY DEF ImportsOK, TypeOK
<1>2. w \in Work /\ w.pc \in {"idle", "create"}
  BY <1>1, IdleIsWork DEF Work, Phases
<1>3. Step(u, w)
  BY DEF Supersede, SupersedeRetried, At
<1>4. superseded' \in [Batches -> BOOLEAN] /\ req' \in [Uploads -> Work] /\ req'[u] = w
  BY <1>2, <1>3 DEF Supersede, SupersedeRetried, ImportsOK, TypeOK, Step
<1>5. TypeOK'
  BY <1>4 DEF Supersede, SupersedeRetried, ImportsOK, TypeOK, rowDocs
<1>6. Kept /\ BatchesOK'
  BY DEF Supersede, SupersedeRetried, Kept, rowDocs, ImportsOK, BatchesOK, CompletedStored
<1>7. WorkOK(req[u])'
  <2>1. w.pc = "create" => w.file \in Files
    <3>1. CASE req[u].pc = "retry"
      BY <3>1, IdleIsWork
    <3>2. CASE req[u].pc # "retry"
      BY <1>1, <3>2 DEF Supersede, SupersedeRetried, At, WorkOK, Work
    <3>3. QED BY <3>1, <3>2
  <2>2. QED BY <1>2, <1>4, <2>1 DEF WorkOK, Importing
<1>8. QED BY <1>2, <1>3, <1>5, <1>6, <1>7, OneStep

(* The batch is created under an id nobody has used.                       *)
LEMMA CreateStep ==
  ASSUME ImportsOK, NEW u \in Uploads, CreateBatch(u)
  PROVE  ImportsOK'
<1>1. PICK b \in Batches :
        /\ status[b] = "none"
        /\ status' = [status EXCEPT ![b] = "processing"]
        /\ file' = [file EXCEPT ![b] = req[u].file]
        /\ Step(u, [req[u] EXCEPT !.pc = "rows", !.batch = b,
                                  !.todo = FileRows[req[u].file]])
  BY DEF CreateBatch
<1> DEFINE f == req[u].file
           t == FileRows[f]
           w == [req[u] EXCEPT !.pc = "rows", !.batch = b, !.todo = t]
<1>2. req[u] \in Work /\ f \in Files /\ t \subseteq Keys
  BY FilesOK DEF ImportsOK, TypeOK, WorkOK, CreateBatch, At
<1>3. w \in Work /\ w.pc = "rows" /\ w.batch = b /\ w.todo = t /\ w.file = f
  <2> HIDE DEF t, f
  <2>1. w \in Work
    BY <1>2 DEF Work, Phases
  <2>2. w.pc = "rows"
    BY <1>2 DEF Work
  <2>3. w.batch = b
    BY <1>2 DEF Work
  <2>4. w.todo = t
    BY <1>2 DEF Work
  <2>5. w.file = req[u].file
    BY <1>2 DEF Work
  <2>6. QED BY <2>1, <2>2, <2>3, <2>4, <2>5 DEF f
<1>4. Step(u, w)
  BY <1>1
<1> HIDE DEF w
<1>5. req' \in [Uploads -> Work] /\ req'[u] = w
  BY <1>3, <1>4 DEF ImportsOK, TypeOK, Step
<1>6. TypeOK'
  BY <1>1, <1>2, <1>5 DEF CreateBatch, ImportsOK, TypeOK, rowDocs
<1>7. /\ status' \in [Batches -> {"none", "processing", "completed", "failed"}]
      /\ status'[b] = "processing" /\ file'[b] = f
      /\ \A c \in Batches \ {b} : status'[c] = status[c] /\ file'[c] = file[c]
  BY <1>1, <1>6 DEF ImportsOK, TypeOK
<1>8. Kept
  BY <1>1, <1>7 DEF CreateBatch, rowDocs, Kept
<1>9. BatchesOK'
  <2>1. CompletedStored'
    BY <1>7, <1>8, CompletedKept
  <2>2. QED BY <1>2, <1>7, <2>1 DEF CreateBatch, ImportsOK, BatchesOK, TypeOK
<1>10. WorkOK(req[u])'
  <2>1. t = FileRows[f]
    OBVIOUS
  <2> HIDE DEF t
  <2>2. QED BY <1>2, <1>3, <1>5, <1>7, <2>1 DEF WorkOK, Importing, Accounts
<1>11. QED BY <1>3, <1>4, <1>6, <1>8, <1>9, <1>10, OneStep

(* A row is looked up: it is a duplicate, or the next to store.            *)
LEMMA NextRowStep ==
  ASSUME ImportsOK, NEW u \in Uploads, NextRow(u)
  PROVE  ImportsOK'
<1>1. req[u] \in Work /\ WorkOK(req[u]) /\ req[u].pc = "rows"
  BY DEF ImportsOK, TypeOK, NextRow, At
<1>2. stale' \in [Batches -> BOOLEAN]
  BY DEF ImportsOK, TypeOK, NextRow
<1>3. PICK k \in req[u].todo :
        IF docs[k] # {}
        THEN Step(u, [req[u] EXCEPT !.todo = @ \ {k},
                        !.dups = IF IsAccrual(req[u].file) THEN @ ELSE @ \cup {k}])
        ELSE Step(u, [req[u] EXCEPT !.pc = "store", !.cur = k, !.todo = @ \ {k}])
  BY DEF NextRow
<1>4. k \in Keys /\ k \in FileRows[req[u].file]
  BY <1>1 DEF Work, WorkOK, Importing
<1> DEFINE t == req[u].todo \ {k}
           d == IF IsAccrual(req[u].file) THEN req[u].dups ELSE req[u].dups \cup {k}
<1>5. t \subseteq Keys /\ d \subseteq Keys
  BY <1>1, <1>4 DEF Work
<1>6. CASE docs[k] # {}
  <2> DEFINE w == [req[u] EXCEPT !.todo = t, !.dups = d]
  <2>1. Step(u, w)
    BY <1>1, <1>3, <1>6 DEF Work
  <2> HIDE DEF t, d
  <2>2. w \in Work /\ w.pc = "rows" /\ w.file = req[u].file /\ w.batch = req[u].batch
    BY <1>1, <1>5 DEF Work
  <2>3. w.todo = t
    BY <1>1 DEF Work
  <2> HIDE DEF w
  <2>4. req'[u] = w => WorkOK(req[u])'
    BY <1>1, <1>6, <2>2, <2>3 DEF WorkOK, Importing, Accounts, NextRow, rowDocs, t
  <2>5. QED BY <1>2, <2>1, <2>2, <2>4, QuietStep DEF NextRow, rowDocs, ImportsOK, TypeOK
<1>7. CASE docs[k] = {}
  <2> DEFINE w == [req[u] EXCEPT !.pc = "store", !.cur = k, !.todo = t]
  <2>1. Step(u, w)
    BY <1>1, <1>3, <1>7 DEF Work
  <2> HIDE DEF t
  <2>2. w \in Work
    BY <1>1, <1>4, <1>5 DEF Work, Phases
  <2>3. w.pc = "store" /\ w.file = req[u].file /\ w.batch = req[u].batch /\ w.cur = k
    BY <1>1 DEF Work
  <2>4. w.todo = t
    BY <1>1 DEF Work
  <2> HIDE DEF w
  <2>5. req'[u] = w => WorkOK(req[u])'
    BY <1>1, <1>4, <2>3, <2>4 DEF WorkOK, Importing, Accounts, NextRow, rowDocs, t
  <2>6. QED BY <1>2, <2>1, <2>2, <2>5, QuietStep DEF NextRow, rowDocs, ImportsOK, TypeOK
<1>8. QED BY <1>6, <1>7

(* A call that rejects: the import is failing, or over.                    *)
LEMMA RejectedWork ==
  ASSUME ImportsOK, NEW u \in Uploads, Rejected(u)
  PROVE  \E w \in Work :
           /\ Step(u, w)
           /\ \/ w.pc = "idle"
              \/ /\ w.pc = "failing" /\ w.batch \in Batches
                 /\ status[w.batch] # "none"
<1> DEFINE w == [req[u] EXCEPT !.pc = "failing"]
<1>1. req[u] \in Work /\ WorkOK(req[u])
  BY DEF ImportsOK, TypeOK
<1>2. w \in Work /\ w.pc = "failing" /\ w.batch = req[u].batch
  BY <1>1 DEF Work, Phases
<1>3. CASE req[u].pc \in Importing /\ IsAccrual(req[u].file)
  <2>1. Step(u, w)
    BY <1>3 DEF Rejected, Importing
  <2>2. w.batch \in Batches /\ status[w.batch] # "none"
    BY <1>1, <1>2, <1>3 DEF WorkOK
  <2>3. QED BY <1>2, <2>1, <2>2
<1>4. CASE ~(req[u].pc \in Importing /\ IsAccrual(req[u].file))
  BY <1>4, IdleIsWork DEF Rejected, Importing
<1>5. QED BY <1>3, <1>4

LEMMA RejectedStep ==
  ASSUME ImportsOK, NEW u \in Uploads, Rejected(u), failures' \in 0..MaxFailures,
         UNCHANGED <<status, file, superseded, stale, docs, handled, groups, watch>>
  PROVE  ImportsOK'
<1>1. PICK w \in Work :
        /\ Step(u, w)
        /\ \/ w.pc = "idle"
           \/ /\ w.pc = "failing" /\ w.batch \in Batches
              /\ status[w.batch] # "none"
  BY RejectedWork
<1>2. req'[u] = w => WorkOK(req[u])'
  BY <1>1 DEF WorkOK, Importing
<1>3. QED BY <1>1, <1>2, QuietStep DEF ImportsOK, TypeOK

(* The document of a row is stored, once or, without an index, again.      *)
LEMMA StoreStep ==
  ASSUME ImportsOK, NEW u \in Uploads, StoreRow(u)
  PROVE  ImportsOK'
<1> DEFINE k == req[u].cur
           again == IsAccrual(req[u].file) \/ k \notin Unbookable
           w == IF again THEN [req[u] EXCEPT !.pc = "handle", !.made = TRUE]
                ELSE [req[u] EXCEPT !.pc = "rows", !.cur = NoKey]
<1>1. /\ req[u] \in Work /\ WorkOK(req[u]) /\ req[u].pc = "store"
      /\ k \in FileRows[req[u].file]
  BY DEF ImportsOK, TypeOK, StoreRow, At, WorkOK
<1>2. CASE Rejected(u) /\ UNCHANGED docs
  BY <1>2, RejectedStep DEF StoreRow, ImportsOK, TypeOK
<1>3. CASE docs' = [docs EXCEPT ![k] = @ \cup {req[u].batch}] /\ Step(u, w)
  <2>1. k \in Keys /\ req[u].batch \in Batches
    BY <1>1, FilesOK DEF WorkOK, Importing
  <2>2. w \in Work /\ w.pc \in {"rows", "handle"} /\ w.file = req[u].file
        /\ w.batch = req[u].batch /\ w.todo = req[u].todo
        /\ (w.pc = "handle" => w.cur = k)
    <3> HIDE DEF again
    <3>1. CASE again
      BY <1>1, <3>1 DEF Work, Phases
    <3>2. CASE ~again
      BY <1>1, <3>2 DEF Work, Phases
    <3>3. QED BY <3>1, <3>2
  <2>3. Step(u, w)
    BY <1>3
  <2> HIDE DEF w
  <2>4. req' \in [Uploads -> Work] /\ req'[u] = w
    BY <2>2, <2>3 DEF ImportsOK, TypeOK, Step
  <2>5. docs' \in [Keys -> SUBSET Batches] /\ docs'[k] # {} /\ Kept
    BY <1>3, <2>1 DEF StoreRow, Kept, ImportsOK, TypeOK
  <2>6. TypeOK'
    BY <2>4, <2>5 DEF StoreRow, ImportsOK, TypeOK
  <2>7. BatchesOK'
    <3>1. CompletedStored'
      BY <2>5, CompletedKept DEF StoreRow
    <3>2. QED BY <3>1 DEF StoreRow, ImportsOK, BatchesOK
  <2>8. WorkOK(req[u])'
    <3>1. ASSUME NEW i \in FileRows[w.file] PROVE docs'[i] # {} \/ i \in w.todo
      <4>1. i \in Keys
        BY <1>1, <2>2, FilesOK DEF WorkOK, Importing
      <4>2. docs[i] # {} \/ i \in w.todo \/ i = k
        BY <1>1, <2>2 DEF WorkOK, Importing, Accounts
      <4>3. QED BY <2>5, <4>1, <4>2 DEF Kept
    <3>2. QED BY <1>1, <2>2, <2>4, <3>1 DEF WorkOK, Importing, Accounts, StoreRow
  <2>9. QED BY <2>2, <2>3, <2>5, <2>6, <2>7, <2>8, OneStep
<1>4. QED BY <1>2, <1>3 DEF StoreRow

(* Its second write, and the next row.                                     *)
LEMMA HandleStep ==
  ASSUME ImportsOK, NEW u \in Uploads, HandleRow(u)
  PROVE  ImportsOK'
<1> DEFINE w == [req[u] EXCEPT !.pc = "rows", !.cur = NoKey]
<1>1. /\ req[u] \in Work /\ WorkOK(req[u]) /\ req[u].pc = "handle"
      /\ req[u].cur \in Keys
  BY FilesOK DEF ImportsOK, TypeOK, HandleRow, At, WorkOK, Importing
<1>2. w \in Work /\ w.pc = "rows" /\ w.file = req[u].file
      /\ w.batch = req[u].batch /\ w.todo = req[u].todo
  BY <1>1 DEF Work, Phases
<1>3. Step(u, w)
  BY DEF HandleRow
<1> HIDE DEF w
<1>4. req' \in [Uploads -> Work] /\ req'[u] = w
  BY <1>2, <1>3 DEF ImportsOK, TypeOK, Step
<1>5. TypeOK'
  BY <1>1, <1>4 DEF HandleRow, ImportsOK, TypeOK
<1>6. Kept /\ BatchesOK'
  BY DEF HandleRow, Kept, ImportsOK, BatchesOK, CompletedStored
<1>7. WorkOK(req[u])'
  BY <1>1, <1>2, <1>4 DEF WorkOK, Importing, Accounts, HandleRow
<1>8. QED BY <1>2, <1>3, <1>5, <1>6, <1>7, OneStep

(* All rows are done.                                                      *)
LEMMA EndRowsStep ==
  ASSUME ImportsOK, NEW u \in Uploads, EndRows(u)
  PROVE  ImportsOK'
<1> DEFINE w == [req[u] EXCEPT !.pc = "finish"]
<1>1. req[u] \in Work /\ WorkOK(req[u]) /\ req[u].pc = "rows" /\ req[u].todo = {}
  BY DEF ImportsOK, TypeOK, EndRows, At
<1>2. w \in Work /\ w.pc = "finish" /\ w.file = req[u].file
      /\ w.batch = req[u].batch /\ w.todo = req[u].todo
  BY <1>1 DEF Work, Phases
<1>3. Step(u, w) /\ groups' \subseteq SUBSET Keys
  BY <1>1 DEF EndRows, ImportsOK, TypeOK, Work
<1> HIDE DEF w
<1>4. req'[u] = w => WorkOK(req[u])'
  BY <1>1, <1>2 DEF WorkOK, Importing, Accounts, EndRows
<1>5. QED BY <1>2, <1>3, <1>4, QuietStep DEF EndRows, ImportsOK, TypeOK

(* The outcome: the batch of a request that has come so far has all its    *)
(* rows.                                                                   *)
LEMMA FinishStep ==
  ASSUME ImportsOK, NEW u \in Uploads, Finish(u)
  PROVE  ImportsOK'
<1> DEFINE b == req[u].batch
           w == IF IsAccrual(req[u].file) THEN [req[u] EXCEPT !.pc = "audit"] ELSE Idle
<1>1. /\ req[u] \in Work /\ WorkOK(req[u]) /\ req[u].pc = "finish" /\ b \in Batches
      /\ status[b] # "none" /\ file[b] = req[u].file
  BY DEF ImportsOK, TypeOK, Finish, At, WorkOK, Importing
<1>2. w \in Work /\ \/ w.pc = "idle"
                     \/ /\ w.pc = "audit" /\ w.file = req[u].file
                        /\ w.batch = b /\ w.todo = req[u].todo
  BY <1>1, IdleIsWork DEF Work, Phases
<1>3. Step(u, w)
  BY DEF Finish
<1> HIDE DEF w
<1>4. req' \in [Uploads -> Work] /\ req'[u] = w
  BY <1>2, <1>3 DEF ImportsOK, TypeOK, Step
<1>5. PICK o \in {"failed", "completed"} : status' = [status EXCEPT ![b] = o]
  BY DEF Finish
<1>6. /\ status' \in [Batches -> {"none", "processing", "completed", "failed"}]
      /\ status'[b] = o /\ \A c \in Batches \ {b} : status'[c] = status[c]
  BY <1>1, <1>5 DEF ImportsOK, TypeOK
<1>7. TypeOK'
  BY <1>4, <1>6 DEF Finish, ImportsOK, TypeOK, rowDocs
<1>8. Kept
  BY <1>1, <1>6 DEF Finish, Kept, rowDocs
<1>9. BatchesOK'
  <2>1. \A k \in FileRows[file[b]] : docs[k] # {}
    BY <1>1 DEF WorkOK, Importing, Accounts
  <2>2. CompletedStored'
    BY <1>6, <2>1 DEF BatchesOK, Finish, rowDocs, CompletedStored, ImportsOK
  <2>3. QED BY <1>1, <1>6, <2>2 DEF Finish, ImportsOK, BatchesOK, TypeOK
<1>10. WorkOK(req[u])'
  BY <1>1, <1>2, <1>4, <1>6 DEF WorkOK, Importing, Accounts, Finish, rowDocs
<1>11. QED BY <1>2, <1>3, <1>7, <1>8, <1>9, <1>10, OneStep

(* A batch is marked failed, by its import or an administrator.            *)
LEMMA MarkFailedStep ==
  ASSUME ImportsOK, NEW u \in Uploads, MarkFailed(u)
  PROVE  ImportsOK'
<1> DEFINE b == req[u].batch
<1>1. b \in Batches /\ status[b] # "none"
  BY DEF ImportsOK, MarkFailed, At, WorkOK
<1>2. Step(u, Idle) /\ req' \in [Uploads -> Work] /\ req'[u] = Idle
  BY IdleIsWork DEF ImportsOK, TypeOK, Step, MarkFailed
<1>3. /\ status' \in [Batches -> {"none", "processing", "completed", "failed"}]
      /\ status'[b] = "failed" /\ \A c \in Batches \ {b} : status'[c] = status[c]
  BY <1>1 DEF ImportsOK, TypeOK, MarkFailed
<1>4. TypeOK'
  BY <1>2, <1>3 DEF MarkFailed, ImportsOK, TypeOK, rowDocs
<1>5. Kept
  BY <1>1, <1>3 DEF MarkFailed, Kept, rowDocs
<1>6. BatchesOK'
  <2>1. CompletedStored'
    BY <1>3, <1>5, CompletedKept
  <2>2. QED BY <1>1, <1>3, <2>1 DEF MarkFailed, ImportsOK, BatchesOK, TypeOK
<1>7. WorkOK(req[u])'
  BY <1>2, IdleIsWork DEF WorkOK, Importing
<1>8. QED BY <1>2, <1>4, <1>5, <1>6, <1>7, IdleIsWork, OneStep

(* Time, and the watchdog.                                                 *)
LEMMA WatchStep ==
  ASSUME ImportsOK, (\E b \in Batches : Age(b)) \/ WatchScan \/ WatchMark
  PROVE  ImportsOK'
<1>1. CASE WatchMark
  <2>1. PICK b \in watch :
          /\ watch' = watch \ {b}
          /\ IF IsAccrual(file[b])
             THEN /\ status' = [status EXCEPT ![b] = "failed"]
                  /\ stale' = [stale EXCEPT ![b] = FALSE]
             ELSE UNCHANGED <<status, stale>>
    BY <1>1 DEF WatchMark
  <2>2. b \in Batches /\ status[b] # "none"
    BY DEF BatchesOK, ImportsOK, TypeOK
  <2>3. /\ status' \in [Batches -> {"none", "processing", "completed", "failed"}]
        /\ status'[b] # "none"
        /\ \A c \in Batches : status'[c] \in {status[c], "failed"}
        /\ \A c \in Batches \ {b} : status'[c] = status[c]
    BY <2>1, <2>2 DEF ImportsOK, TypeOK
  <2>4. TypeOK'
    BY <1>1, <2>1, <2>3 DEF WatchMark, ImportsOK, TypeOK, rowDocs
  <2>5. Kept
    BY <1>1, <2>2, <2>3 DEF WatchMark, Kept, rowDocs
  <2>6. CompletedStored'
    BY <2>3, <2>5, CompletedKept
  <2>7. \A u \in Uploads : WorkOK(req[u])'
    BY <1>1, <2>5, OthersKept DEF WatchMark, ImportsOK
  <2>8. QED BY <1>1, <2>1, <2>2, <2>3, <2>4, <2>6, <2>7 DEF BatchesOK, WatchMark, ImportsOK, TypeOK
<1>2. ASSUME UNCHANGED <<status, file, superseded, rowDocs, req, failures>>,
             stale' \in [Batches -> BOOLEAN], watch' \subseteq Batches,
             \A b \in watch' : status[b] # "none"
      PROVE  ImportsOK'
  <2>1. TypeOK'
    BY <1>2 DEF ImportsOK, TypeOK, rowDocs
  <2>2. Kept
    BY <1>2 DEF Kept, rowDocs
  <2>3. \A u \in Uploads : WorkOK(req[u])'
    BY <1>2, <2>2, OthersKept DEF ImportsOK
  <2>4. QED BY <1>2, <2>1, <2>3 DEF BatchesOK, ImportsOK, CompletedStored, rowDocs
<1>3. CASE \E b \in Batches : Age(b)
  BY <1>2, <1>3 DEF BatchesOK, Age, ImportsOK, TypeOK
<1>4. CASE WatchScan
  BY <1>2, <1>4 DEF WatchScan, ImportsOK, TypeOK
<1>5. QED BY <1>1, <1>3, <1>4

(* The process dies: documents stay, requests do not.                      *)
LEMMA CrashStep ==
  ASSUME ImportsOK, Crash
  PROVE  ImportsOK'
<1>1. failures' \in 0..MaxFailures
  BY FilesOK DEF Crash, ImportsOK, TypeOK
<1>2. TypeOK'
  BY <1>1, IdleIsWork DEF Crash, ImportsOK, TypeOK, rowDocs
<1>3. \A u \in Uploads : WorkOK(req[u])'
  BY IdleIsWork DEF Crash, WorkOK, Importing
<1>4. QED BY <1>2, <1>3 DEF BatchesOK, Crash, ImportsOK, CompletedStored, rowDocs

(* Every step keeps the invariant.                                         *)
LEMMA ImportsNext == ImportsOK /\ [ImportNext]_importVars => ImportsOK'
<1> SUFFICES ASSUME ImportsOK, [ImportNext]_importVars PROVE ImportsOK'
  OBVIOUS
<1>1. CASE UNCHANGED importVars
  BY <1>1 DEF BatchesOK, importVars, rowDocs, ImportsOK, TypeOK, CompletedStored, WorkOK, Accounts
<1>2. ASSUME NEW u \in Uploads, Proceed(u) PROVE ImportsOK'
  <2>1. CASE Audit(u)
    <3>1. req'[u] = Idle => WorkOK(req[u])'
      BY IdleIsWork DEF WorkOK, Importing
    <3>2. QED BY <2>1, <3>1, IdleIsWork, QuietStep DEF Audit, rowDocs, ImportsOK, TypeOK
  <2>2. QED BY <1>2, <2>1, SupersedeStep, CreateStep, NextRowStep, StoreStep, HandleStep,
            EndRowsStep, FinishStep, MarkFailedStep DEF Proceed
<1>3. ASSUME NEW u \in Uploads, Reject(u) PROVE ImportsOK'
  <2>1. failures' \in 0..MaxFailures
    BY <1>3, FilesOK DEF Reject, ImportsOK, TypeOK
  <2>2. QED BY <1>3, <2>1, RejectedStep DEF Reject, rowDocs
<1>4. QED BY <1>1, <1>2, <1>3, BeginStep, WatchStep, CrashStep DEF ImportNext

----------------------------------------------------------------------------

(* The rows whose documents are to have an event.                          *)
AccrualRow(k) == \E f \in Files : IsAccrual(f) /\ k \in FileRows[f]

(* A step keeps the promise of an event when no request forgets one it has *)
(* still to create and every document it stores is followed by one.        *)
LEMMA Followed ==
  ASSUME ImportsOK, EventsFollow, failures' = 0 => failures = 0, handled \subseteq handled',
         \A u \in Uploads : At(u, "handle") /\ failures' = 0 =>
           req'[u] = req[u] \/ req[u].cur \in handled',
         \A k \in Keys : AccrualRow(k) /\ docs'[k] # {} =>
           docs[k] # {} \/ (\E u \in Uploads : At(u, "handle")' /\ req'[u].cur = k)
  PROVE  EventsFollow'
<1>1. ASSUME failures' = 0, NEW f \in Files, NEW k \in FileRows[f],
             IsAccrual(f), docs'[k] # {}, k \notin handled'
      PROVE  \E u \in Uploads : At(u, "handle")' /\ req'[u].cur = k
  <2>1. k \in Keys /\ AccrualRow(k)
    BY <1>1, FilesOK DEF AccrualRow
  <2>2. CASE docs[k] # {}
    <3>1. PICK u \in Uploads : At(u, "handle") /\ req[u].cur = k
      BY <1>1, <2>2 DEF EventsFollow
    <3>2. req'[u] = req[u]
      BY <1>1, <3>1
    <3>3. QED BY <3>1, <3>2 DEF At
  <2>3. CASE docs[k] = {}
    BY <1>1, <2>1, <2>3
  <2>4. QED BY <2>2, <2>3
<1>2. QED BY <1>1 DEF EventsFollow, IsAccrual

(* The file of a request with a row of an accrual file is an accrual file. *)
LEMMA OneKind ==
  ASSUME NEW f \in Files, NEW k \in FileRows[f], AccrualRow(k)
  PROVE  IsAccrual(f)
<1>1. PICK g \in Files : IsAccrual(g) /\ k \in FileRows[g]
  BY DEF AccrualRow
<1>2. Source[f] = "bank" <=> Source[g] = "bank"
  BY <1>1, KeysApart
<1>3. QED BY <1>1, <1>2, FilesOK DEF IsAccrual

(* Every step keeps the promise of an event: only creating it, a rejected  *)
(* call or a crash ends the phase a request is in after storing.           *)
LEMMA EventsNext == ImportsOK /\ EventsFollow /\ [ImportNext]_importVars => EventsFollow'
<1> SUFFICES ASSUME ImportsOK, EventsFollow, [ImportNext]_importVars PROVE EventsFollow'
  OBVIOUS
<1> USE DEF rowDocs
<1>1. CASE UNCHANGED importVars
  BY <1>1 DEF importVars, EventsFollow, At
<1>2. ASSUME NEW u \in Uploads, ~At(u, "handle"), NEW w, Step(u, w),
             UNCHANGED <<docs, handled, failures>>
      PROVE  EventsFollow'
  <2>1. \A v \in Uploads : At(v, "handle") => req'[v] = req[v]
    BY <1>2 DEF Step, At, ImportsOK, TypeOK
  <2>2. QED BY <1>2, <2>1, Followed
<1>3. ASSUME NEW u \in Uploads, Proceed(u) PROVE EventsFollow'
  <2>1. CASE Supersede(u)
    BY <1>2, <2>1 DEF Supersede, At
  <2>2. CASE CreateBatch(u)
    BY <1>2, <2>2 DEF CreateBatch, At
  <2>3. CASE NextRow(u)
    BY <1>2, <2>3 DEF NextRow, At
  <2>4. CASE StoreRow(u)
    <3> DEFINE k == req[u].cur
               made == IsAccrual(req[u].file) \/ k \notin Unbookable
               w == IF made THEN [req[u] EXCEPT !.pc = "handle", !.made = TRUE]
                    ELSE [req[u] EXCEPT !.pc = "rows", !.cur = NoKey]
    <3>1. CASE Rejected(u) /\ UNCHANGED docs
      BY <1>2, <2>4, <3>1 DEF StoreRow, Rejected, At
    <3>2. CASE docs' = [docs EXCEPT ![k] = @ \cup {req[u].batch}] /\ Step(u, w)
      <4>1. /\ req[u] \in Work /\ req[u].pc = "store" /\ req[u].file \in Files
            /\ k \in FileRows[req[u].file]
        BY <2>4 DEF StoreRow, At, ImportsOK, TypeOK, WorkOK, Importing
      <4>2. req'[u] = w /\ \A v \in Uploads \ {u} : req'[v] = req[v]
        BY <3>2 DEF Step, ImportsOK, TypeOK
      <4>3. \A v \in Uploads : At(v, "handle") => req'[v] = req[v]
        BY <4>1, <4>2 DEF At
      <4>4. ASSUME AccrualRow(k) PROVE At(u, "handle")' /\ req'[u].cur = k
        <5>1. made
          BY <4>1, <4>4, OneKind
        <5>2. QED BY <4>1, <4>2, <5>1 DEF At, Work
      <4>5. \A i \in Keys : i # k => docs'[i] = docs[i]
        BY <3>2 DEF ImportsOK, TypeOK
      <4>6. handled' = handled /\ failures' = failures
        BY <2>4 DEF StoreRow
      <4>7. QED BY <4>3, <4>4, <4>5, <4>6, Followed
    <3>3. QED BY <2>4, <3>1, <3>2 DEF StoreRow
  <2>5. CASE HandleRow(u)
    <3>1. \A v \in Uploads \ {u} : req'[v] = req[v]
      BY <2>5 DEF HandleRow, Step, ImportsOK, TypeOK
    <3>2. handled' = handled \cup {req[u].cur} /\ UNCHANGED <<docs, failures>>
      BY <2>5 DEF HandleRow
    <3>3. QED BY <3>1, <3>2, Followed
  <2>6. CASE EndRows(u)
    BY <1>2, <2>6 DEF EndRows, At
  <2>7. CASE Finish(u)
    BY <1>2, <2>7 DEF Finish, At
  <2>8. CASE Audit(u)
    BY <1>2, <2>8 DEF Audit, At
  <2>9. CASE MarkFailed(u)
    BY <1>2, <2>9 DEF MarkFailed, At
  <2>10. CASE SupersedeRetried(u)
    BY <1>2, <2>10 DEF SupersedeRetried, At
  <2>11. QED BY <1>3, <2>1, <2>2, <2>3, <2>4, <2>5, <2>6, <2>7, <2>8, <2>9, <2>10
         DEF Proceed
<1>4. ASSUME NEW u \in Uploads, FindFile(u) \/ FailAccrualBatch(u) \/ RetryAccrualBatch(u)
      PROVE  EventsFollow'
  BY <1>2, <1>4 DEF FindFile, FailAccrualBatch, RetryAccrualBatch, At
<1>5. CASE (\E b \in Batches : Age(b)) \/ WatchScan \/ WatchMark
  BY <1>5 DEF Age, WatchScan, WatchMark, EventsFollow, At
<1>6. ASSUME failures' = failures + 1 PROVE EventsFollow'
  <2>1. failures' # 0
    BY <1>6, FilesOK DEF ImportsOK, TypeOK
  <2>2. QED BY <2>1 DEF EventsFollow
<1>7. QED BY <1>1, <1>3, <1>4, <1>5, <1>6 DEF ImportNext, Reject, Crash

----------------------------------------------------------------------------

(* The inductive invariant holds of every behaviour of the imports.        *)
THEOREM ImportsInvariance == ImportSpec => []ImportsOK
BY ImportsInit, ImportsNext, PTL DEF ImportSpec

(* Every variable has its type: requests and the watchdog refer only to    *)
(* files, rows and batches there are, for any number of them.              *)
THEOREM ImportsTyped == ImportSpec => []TypeOK
<1>1. ImportsOK => TypeOK
  BY DEF ImportsOK
<1>2. QED BY <1>1, ImportsInvariance, PTL

(* Whatever uploads overlap, fail, time out or are retried, a batch that   *)
(* says completed has a document for every row of its file.                *)
THEOREM CompletedHasAll == ImportSpec => []CompletedStored
<1>1. ImportsOK => CompletedStored
  BY DEF BatchesOK, ImportsOK
<1>2. QED BY <1>1, ImportsInvariance, PTL

(* As long as no call fails, a stored accrual record has its event or the  *)
(* request that stored it is about to create it, however uploads overlap.  *)
THEOREM EventPerRecord == ImportSpec => []EventsFollow
<1>1. ImportInit => EventsFollow
  BY FilesOK DEF ImportInit, EventsFollow
<1>2. QED BY <1>1, ImportsInvariance, EventsNext, PTL DEF ImportSpec
=============================================================================
