----------------------------- MODULE QueueLemmas -----------------------------
(* Loops, sums over a slab, and queues: what the proofs about both halves of *)
(* the connection rest on.                                                   *)
EXTENDS Queues, FiniteSetTheorems, WellFoundedInduction, TLAPS

-----------------------------------------------------------------------------
(* Loops and sums.  Induction comes from the well-foundedness of the strict  *)
(* subset order: a set of good subsets, or of good rounds, is all of them.   *)


\* Induction over the subsets of a finite set, from the well-foundedness of
\* the strict subset order.
LEMMA SubsetInduction ==
  ASSUME NEW D, IsFiniteSet(D), NEW Good,
         \A s \in SUBSET D : (\A t \in SUBSET s : t # s => t \in Good) => s \in Good
  PROVE  \A s \in SUBSET D : s \in Good
<1> DEFINE Bad == {s \in SUBSET D : s \notin Good}
<1>1. SUFFICES ASSUME Bad # {} PROVE FALSE
  OBVIOUS
<1>2. Bad \subseteq FiniteSubsetsOf(D)
  BY FS_Subset DEF FiniteSubsetsOf
<1>3. IsWellFoundedOn(StrictSubsetOrdering(D), FiniteSubsetsOf(D))
  BY FS_StrictSubsetOrderingWellFounded, Zenon
<1> HIDE DEF Bad
<1>4. PICK s \in Bad : \A t \in Bad : ~(<<t, s>> \in StrictSubsetOrdering(D))
  BY <1>1, <1>2, <1>3, WFMin
<1>5. \A t \in SUBSET s : t # s => t \in Good
  BY <1>4 DEF StrictSubsetOrdering, Bad
<1>6. QED BY <1>4, <1>5 DEF Bad

\* What a fold over the subsets of D is built from.
CanFold(D, V, base, pick, g) ==
  /\ IsFiniteSet(D) /\ base \in V
  /\ \A s \in SUBSET D : s # {} => pick[s] \in s
  /\ \A v \in V, x \in D : g[<<v, x>>] \in V

\* f is the fold of g over the subsets of D, taking elements as pick chooses.
Folds(D, V, base, pick, g, f) ==
  /\ f \in [SUBSET D -> V] /\ f[{}] = base
  /\ \A s \in SUBSET D : s # {} => f[s] = g[<<f[s \ {pick[s]}], pick[s]>>]

\* Such a fold exists.
LEMMA SubsetRecursion ==
  ASSUME NEW D, NEW V, NEW base, NEW pick, NEW g, CanFold(D, V, base, pick, g)
  PROVE  \E f : Folds(D, V, base, pick, g, f)
<1> USE DEF CanFold, Folds
<1> DEFINE IsRec(E, f) == /\ f \in [SUBSET E -> V]
                          /\ \A s \in SUBSET E : f[s] = IF s = {} THEN base ELSE g[<<f[s \ {pick[s]}], pick[s]>>]
           Good == {E \in SUBSET D : \E f \in [SUBSET E -> V] : IsRec(E, f)}
<1>1. ASSUME NEW E \in SUBSET D, NEW F \in SUBSET E, NEW f, NEW h, IsRec(E, f), IsRec(F, h)
      PROVE \A s \in SUBSET F : f[s] = h[s]
  <2> DEFINE Alike == {s \in SUBSET F : f[s] = h[s]}
  <2>1. \A s \in SUBSET F : (\A t \in SUBSET s : t # s => t \in Alike) => s \in Alike
    <3>1. TAKE s \in SUBSET F
    <3>2. HAVE \A t \in SUBSET s : t # s => t \in Alike
    <3>3. CASE s = {}
      BY <3>3, <1>1
    <3>4. CASE s # {}
      <4>1. pick[s] \in s BY <3>4
      <4>2. s \ {pick[s]} \in Alike BY <4>1, <3>2
      <4>3. QED BY <4>1, <4>2, <1>1
    <3>5. QED BY <3>3, <3>4
  <2>2. IsFiniteSet(F) BY FS_Subset
  <2> HIDE DEF Alike
  <2>3. \A s \in SUBSET F : s \in Alike BY <2>1, <2>2, SubsetInduction
  <2>4. QED BY <2>3 DEF Alike
<1>2. ASSUME NEW E \in SUBSET D, \A F \in SUBSET E : F # E => F \in Good
      PROVE  E \in Good
  <2> DEFINE part == [F \in SUBSET E |-> CHOOSE h : IsRec(F, h)]
             f == [s \in SUBSET E |-> IF s = {} THEN base ELSE g[<<part[s \ {pick[s]}][s \ {pick[s]}], pick[s]>>]]
  <2>1. \A F \in SUBSET E : F # E => IsRec(F, part[F])
    BY <1>2
  <2> HIDE DEF part
  <2>2. \A s \in SUBSET E : s # {} => /\ pick[s] \in s /\ pick[s] \in D /\ s \ {pick[s]} \in SUBSET E
                                       /\ s \ {pick[s]} # E
    OBVIOUS
  <2>3. \A s \in SUBSET E : s # {} => part[s \ {pick[s]}][s \ {pick[s]}] \in V
    <3>1. TAKE s \in SUBSET E
    <3>2. HAVE s # {}
    <3>3. IsRec(s \ {pick[s]}, part[s \ {pick[s]}]) BY <2>1, <2>2, <3>2
    <3>4. QED BY <3>3
  <2>4. f \in [SUBSET E -> V]
    BY <2>2, <2>3
  <2>5. ASSUME NEW F \in SUBSET E, F # E PROVE \A s \in SUBSET F : part[F][s] = f[s]
    <3>1. IsRec(F, part[F]) BY <2>1, <2>5
    <3>2. SUFFICES ASSUME NEW s \in SUBSET F, s # {} PROVE part[F][s] = f[s]
      BY <3>1
    <3> DEFINE r == s \ {pick[s]}
    <3>3. r \in SUBSET F /\ r # E /\ r \in SUBSET E BY <2>2, <3>2
    <3>4. IsRec(r, part[r]) BY <2>1, <3>3
    <3>5. F \in SUBSET D OBVIOUS
    <3> HIDE DEF part, r, IsRec
    <3>6. \A q \in SUBSET r : part[F][q] = part[r][q] BY <1>1, <3>1, <3>4, <3>3, <3>5
    <3>7. part[F][s] = g[<<part[F][r], pick[s]>>] BY <3>1, <3>2 DEF IsRec, r
    <3>8. QED BY <3>6, <3>7, <3>2 DEF r
  <2>6. \A s \in SUBSET E : s # {} => f[s \ {pick[s]}] = part[s \ {pick[s]}][s \ {pick[s]}]
    <3>1. TAKE s \in SUBSET E
    <3>2. HAVE s # {}
    <3> HIDE DEF part, f
    <3>3. QED BY <2>2, <3>2, <2>5
  <2>7. IsRec(E, f)
    <3> HIDE DEF part
    <3>1. QED BY <2>4, <2>6
  <2> HIDE DEF part, f
  <2>8. QED BY <2>7
<1> HIDE DEF Good
<1>3. D \in Good
  BY <1>2, SubsetInduction
<1>4. PICK f : IsRec(D, f)
  BY <1>3 DEF Good
<1>5. QED BY <1>4

\* Induction up to a number, stated with a set.
LEMMA NatSetInduction ==
  ASSUME NEW n \in Nat, NEW Good, 0 \in Good,
         \A k \in 1 .. n : k - 1 \in Good => k \in Good
  PROVE  \A k \in 0 .. n : k \in Good
<1> DEFINE Bad == {k \in 0 .. n : k \notin Good}
<1>1. SUFFICES ASSUME Bad # {} PROVE FALSE
  OBVIOUS
<1>2. Bad \subseteq Nat
  OBVIOUS
<1>3. IsWellFoundedOn(OpToRel(<, Nat), Nat)
  BY NatLessThanWellFounded
<1> HIDE DEF Bad
<1>4. PICK k \in Bad : \A j \in Bad : ~(<<j, k>> \in OpToRel(<, Nat))
  BY <1>1, <1>2, <1>3, WFMin
<1>5. \A j \in Bad : ~(j < k)
  BY <1>4, <1>2 DEF OpToRel
<1>6. k \in 0 .. n /\ k \notin Good
  BY DEF Bad
<1>7. k \in 1 .. n
  BY <1>6
<1>8. k - 1 \notin Bad
  BY <1>5, <1>7
<1>9. k - 1 \in Good
  BY <1>7, <1>8 DEF Bad
<1>10. QED BY <1>6, <1>7, <1>9

\* A loop over 1 .. n, the values in W at each stage.
CanLoop(n, W, base, g) ==
  /\ n \in Nat /\ <<0, base>> \in W
  /\ \A k \in 1 .. n : \A v : <<k - 1, v>> \in W => <<k, g[<<k, v>>]>> \in W

\* f is the run of a loop of n rounds with body g.
Loops(n, base, g, f) == f = [k \in 0 .. n |-> IF k = 0 THEN base ELSE g[<<k, f[k - 1]>>]]

\* Such a run exists, and keeps what every round keeps.
LEMMA LoopRecursion ==
  ASSUME NEW n, NEW W, NEW base, NEW g, CanLoop(n, W, base, g)
  PROVE  \E f : Loops(n, base, g, f) /\ \A k \in 0 .. n : <<k, f[k]>> \in W
<1> USE DEF CanLoop, Loops
<1> DEFINE IsRec(j, f) == f = [k \in 0 .. j |-> IF k = 0 THEN base ELSE g[<<k, f[k - 1]>>]]
           Good == {j \in 0 .. n : \E f : IsRec(j, f)}
<1>1. 0 \in Good
  <2>1. IsRec(0, [k \in 0 .. 0 |-> base])
    OBVIOUS
  <2> HIDE DEF IsRec
  <2>2. QED BY <2>1
<1>2. ASSUME NEW k \in 1 .. n, k - 1 \in Good PROVE k \in Good
  <2>1. PICK f : IsRec(k - 1, f)
    BY <1>2
  <2> DEFINE h == [i \in 0 .. k |-> IF i = k THEN g[<<k, f[k - 1]>>] ELSE f[i]]
  <2>2. \A i \in 0 .. k : h[i] = IF i = 0 THEN base ELSE g[<<i, h[i - 1]>>]
    <3>1. TAKE i \in 0 .. k
    <3>2. CASE i = k
      <4>1. k # 0 /\ k - 1 \in 0 .. k /\ k - 1 # k OBVIOUS
      <4>2. h[k] = g[<<k, f[k - 1]>>] /\ h[k - 1] = f[k - 1] BY <4>1
      <4> HIDE DEF h
      <4>3. QED BY <3>2, <4>1, <4>2
    <3>3. CASE i # k
      <4>1. i \in 0 .. k - 1 /\ (i # 0 => i - 1 \in 0 .. k - 1) BY <3>3
      <4>2. h[i] = f[i] /\ (i # 0 => h[i - 1] = f[i - 1]) BY <3>3, <4>1
      <4> HIDE DEF h
      <4>3. QED BY <2>1, <4>1, <4>2
    <3>4. QED BY <3>2, <3>3
  <2>3. IsRec(k, h)
    <3> HIDE DEF h
    <3>1. h = [i \in 0 .. k |-> h[i]] BY DEF h
    <3>2. QED BY <2>2, <3>1
  <2>4. QED
    <3> HIDE DEF h, IsRec
    <3> QED BY <2>3
<1> HIDE DEF Good
<1>3. n \in Good
  BY <1>1, <1>2, NatSetInduction
<1>4. PICK f : IsRec(n, f)
  BY <1>3 DEF Good
<1> DEFINE Holds == {k \in 0 .. n : <<k, f[k]>> \in W}
<1>5. 0 \in Holds
  BY <1>4
<1>6. ASSUME NEW k \in 1 .. n, k - 1 \in Holds PROVE k \in Holds
  <2>1. <<k - 1, f[k - 1]>> \in W BY <1>6
  <2>2. f[k] = g[<<k, f[k - 1]>>] BY <1>4
  <2>3. QED BY <2>1, <2>2
<1>7. \A k \in 0 .. n : k \in Holds
  <2> HIDE DEF Holds
  <2> QED BY <1>5, <1>6, NatSetInduction
<1>8. QED BY <1>4, <1>7

-----------------------------------------------------------------------------

\* f is the running sum of a over the subsets of D.
IsSum(a, D, f) ==
  /\ f \in [SUBSET D -> Int]
  /\ \A s \in SUBSET D : f[s] = IF s = {} THEN 0 ELSE a[CHOOSE x \in s : TRUE] + f[s \ {CHOOSE x \in s : TRUE}]

\* The library's SumFunctionOnSet is such a running sum.
LEMMA SumDefined ==
  ASSUME NEW D, IsFiniteSet(D), NEW a, \A x \in D : a[x] \in Int
  PROVE  \E f : IsSum(a, D, f) /\ SumFunctionOnSet(a, D) = f[D]
<1> DEFINE pick == [s \in SUBSET D |-> CHOOSE x \in s : TRUE]
           g == [p \in Int \X D |-> a[p[2]] + p[1]]
           Body(f) == [s \in SUBSET D |-> IF s = {} THEN 0 ELSE a[CHOOSE x \in s : TRUE] + f[s \ {CHOOSE x \in s : TRUE}]]
           sum == CHOOSE f : f = Body(f)
<1>1. \A s \in SUBSET D : s # {} => pick[s] \in s
  OBVIOUS
<1>2. \A v \in Int, x \in D : g[<<v, x>>] \in Int
  OBVIOUS
<1>3. PICK f : Folds(D, Int, 0, pick, g, f)
  <2>1. CanFold(D, Int, 0, pick, g)
    BY <1>1, <1>2 DEF CanFold
  <2> HIDE DEF pick, g
  <2>2. QED BY <2>1, SubsetRecursion
<1>4. /\ f \in [SUBSET D -> Int] /\ f[{}] = 0
      /\ \A s \in SUBSET D : s # {} => f[s] = g[<<f[s \ {pick[s]}], pick[s]>>]
  <2> HIDE DEF pick, g
  <2> QED BY <1>3 DEF Folds
<1>5. \A s \in SUBSET D : s # {} => f[s] = a[CHOOSE x \in s : TRUE] + f[s \ {CHOOSE x \in s : TRUE}]
  <2>1. TAKE s \in SUBSET D
  <2>2. HAVE s # {}
  <2>3. pick[s] = CHOOSE x \in s : TRUE OBVIOUS
  <2>4. s \ {pick[s]} \in SUBSET D /\ pick[s] \in D BY <1>1, <2>2
  <2>5. f[s \ {pick[s]}] \in Int BY <2>4, <1>4
  <2>6. g[<<f[s \ {pick[s]}], pick[s]>>] = a[pick[s]] + f[s \ {pick[s]}]
    <3> HIDE DEF pick
    <3> QED BY <2>4, <2>5
  <2>7. QED BY <1>4, <2>2, <2>3, <2>6
<1>6. f = Body(f)
  BY <1>4, <1>5
<1>7. sum = Body(sum)
  <2> HIDE DEF Body
  <2> QED BY <1>6
<1>8. SumFunctionOnSet(a, D) = sum[D]
  BY DEF SumFunctionOnSet, FoldFunctionOnSet, MapThenFoldSet
<1>9. IsSum(a, D, sum)
  <2> HIDE DEF sum
  <2>1. \A s \in SUBSET D : sum[s] = IF s = {} THEN 0 ELSE a[CHOOSE x \in s : TRUE] + sum[s \ {CHOOSE x \in s : TRUE}]
    BY <1>7
  <2> DEFINE Good == {s \in SUBSET D : sum[s] \in Int}
  <2>2. ASSUME NEW s \in SUBSET D, \A t \in SUBSET s : t # s => t \in Good PROVE s \in Good
    <3>1. CASE s = {}
      <4>1. sum[s] = 0 BY <3>1, <2>1
      <4> HIDE DEF sum
      <4>2. QED BY <4>1
    <3>2. CASE s # {}
      <4> DEFINE x == CHOOSE y \in s : TRUE
      <4>1. x \in s /\ s \ {x} \in SUBSET s /\ s \ {x} # s /\ s \ {x} \in SUBSET D BY <3>2
      <4>2. sum[s] = a[x] + sum[s \ {x}] BY <2>1, <3>2
      <4> HIDE DEF x
      <4>3. sum[s \ {x}] \in Int BY <4>1, <2>2
      <4>4. QED BY <4>1, <4>2, <4>3
    <3>3. QED BY <3>1, <3>2
  <2>3. \A s \in SUBSET D : s \in Good
    <3> HIDE DEF Good
    <3> QED BY <2>2, SubsetInduction
  <2>4. sum = [s \in SUBSET D |-> sum[s]]
    BY <1>7
  <2>5. sum \in [SUBSET D -> Int] BY <2>3, <2>4
  <2>6. QED BY <2>1, <2>5 DEF IsSum
<1> HIDE DEF sum
<1>10. QED BY <1>8, <1>9

\* Any element may be the first that is added.
LEMMA SumAnyOrder ==
  ASSUME NEW D, IsFiniteSet(D), NEW a, \A x \in D : a[x] \in Int, NEW f, IsSum(a, D, f)
  PROVE  \A s \in SUBSET D : \A x \in s : f[s] = a[x] + f[s \ {x}]
<1> DEFINE Good == {s \in SUBSET D : \A x \in s : f[s] = a[x] + f[s \ {x}]}
<1>1. ASSUME NEW s \in SUBSET D, \A t \in SUBSET s : t # s => t \in Good PROVE s \in Good
  <2>1. SUFFICES ASSUME NEW x \in s PROVE f[s] = a[x] + f[s \ {x}]
    OBVIOUS
  <2> DEFINE y == CHOOSE z \in s : TRUE
  <2>2. y \in s BY <2>1
  <2>3. f[s] = a[y] + f[s \ {y}] BY <2>1 DEF IsSum
  <2> HIDE DEF y
  <2>4. CASE x = y BY <2>3, <2>4
  <2>5. CASE x # y
    <3>1. f[s \ {y}] = a[x] + f[(s \ {y}) \ {x}]
      BY <2>5, <2>2, <2>1, <1>1
    <3>2. f[s \ {x}] = a[y] + f[(s \ {x}) \ {y}]
      BY <2>5, <2>2, <2>1, <1>1
    <3>3. (s \ {x}) \ {y} = (s \ {y}) \ {x} OBVIOUS
    <3>4. f[(s \ {y}) \ {x}] \in Int /\ a[x] \in Int /\ a[y] \in Int
      BY <2>1, <2>2 DEF IsSum
    <3> HIDE DEF Good
    <3>5. f[s] = a[y] + (a[x] + f[(s \ {y}) \ {x}])
      BY <3>1, <2>3
    <3>6. f[s \ {x}] = a[y] + f[(s \ {y}) \ {x}]
      BY <3>2, <3>3
    <3>7. f[s] = a[x] + (a[y] + f[(s \ {y}) \ {x}])
      <4> DEFINE r == f[(s \ {y}) \ {x}]
      <4>1. r \in Int BY <3>4
      <4>2. f[s] = a[y] + (a[x] + r) BY <3>5
      <4> HIDE DEF r
      <4>3. f[s] = a[x] + (a[y] + r) BY <4>1, <4>2, <3>4
      <4>4. QED BY <4>3 DEF r
    <3>8. QED BY <3>6, <3>7
  <2>6. QED BY <2>4, <2>5
<1>2. QED
  <2> HIDE DEF Good
  <2>1. \A s \in SUBSET D : s \in Good BY <1>1, SubsetInduction
  <2>2. QED BY <2>1 DEF Good

\* Two running sums of functions that agree on a set agree on its subsets.
LEMMA SumUnique ==
  ASSUME NEW D, IsFiniteSet(D), NEW a, NEW f, IsSum(a, D, f),
         NEW E \in SUBSET D, NEW b, NEW h, IsSum(b, E, h), \A x \in E : a[x] = b[x]
  PROVE  \A s \in SUBSET E : f[s] = h[s]
<1> DEFINE Good == {s \in SUBSET E : f[s] = h[s]}
<1>1. ASSUME NEW s \in SUBSET E, \A t \in SUBSET s : t # s => t \in Good PROVE s \in Good
  <2>1. CASE s = {} BY <2>1 DEF IsSum
  <2>2. CASE s # {}
    <3> DEFINE x == CHOOSE y \in s : TRUE
    <3>1. x \in s BY <2>2
    <3>2. f[s] = a[x] + f[s \ {x}] /\ h[s] = b[x] + h[s \ {x}]
      BY <2>2 DEF IsSum
    <3> HIDE DEF x
    <3>3. f[s \ {x}] = h[s \ {x}] BY <3>1, <1>1
    <3>4. QED BY <3>1, <3>2, <3>3
  <2>3. QED BY <2>1, <2>2
<1>2. IsFiniteSet(E) BY FS_Subset
<1>3. \A s \in SUBSET E : s \in Good
  <2> HIDE DEF Good
  <2> QED BY <1>1, <1>2, SubsetInduction
<1>4. QED BY <1>3

\* What can be summed: a function with a finite domain and integer values.
IsSummable(a) == IsFiniteSet(DOMAIN a) /\ \A x \in DOMAIN a : a[x] \in Int

\* The empty sum is zero.
LEMMA SumEmpty ==
  ASSUME NEW a, DOMAIN a = {} PROVE SumFunction(a) = 0
<1>1. IsFiniteSet({}) BY FS_EmptySet
<1>2. PICK f : IsSum(a, {}, f) /\ SumFunctionOnSet(a, {}) = f[{}]
  BY <1>1, SumDefined
<1>3. QED BY <1>2 DEF IsSum, SumFunction, SumFunctionOnSet

\* A sum of integers is an integer.
LEMMA SumIsInt ==
  ASSUME NEW a, IsSummable(a) PROVE SumFunction(a) \in Int
<1>1. PICK f : IsSum(a, DOMAIN a, f) /\ SumFunctionOnSet(a, DOMAIN a) = f[DOMAIN a]
  BY SumDefined DEF IsSummable
<1>2. QED BY <1>1 DEF IsSum, SumFunction, SumFunctionOnSet

\* Leaving out one element takes its value from the sum.
LEMMA SumDrop ==
  ASSUME NEW a, IsSummable(a), NEW x \in DOMAIN a,
         NEW b, DOMAIN b = DOMAIN a \ {x}, \A y \in DOMAIN b : b[y] = a[y]
  PROVE  SumFunction(a) = a[x] + SumFunction(b)
<1> DEFINE D == DOMAIN a
<1>1. PICK f : IsSum(a, D, f) /\ SumFunctionOnSet(a, D) = f[D]
  BY SumDefined DEF IsSummable
<1>2. IsFiniteSet(DOMAIN b) /\ \A y \in DOMAIN b : b[y] \in Int
  BY FS_Subset DEF IsSummable
<1>3. PICK h : IsSum(b, DOMAIN b, h) /\ SumFunctionOnSet(b, DOMAIN b) = h[DOMAIN b]
  BY <1>2, SumDefined
<1>4. f[D] = a[x] + f[D \ {x}]
  BY <1>1, SumAnyOrder DEF IsSummable
<1>5. f[D \ {x}] = h[DOMAIN b]
  BY <1>1, <1>3, SumUnique DEF IsSummable
<1>6. SumFunction(a) = f[D] /\ SumFunction(b) = h[DOMAIN b]
  BY <1>1, <1>3 DEF SumFunction, SumFunctionOnSet
<1>7. QED BY <1>4, <1>5, <1>6

\* Changing one value changes the sum by the difference.
LEMMA SumChange ==
  ASSUME NEW a, IsSummable(a), NEW x \in DOMAIN a,
         NEW b, DOMAIN b = DOMAIN a, b[x] \in Int, \A y \in DOMAIN a : y # x => b[y] = a[y]
  PROVE  SumFunction(b) = SumFunction(a) + (b[x] - a[x])
<1> DEFINE c == [y \in DOMAIN a \ {x} |-> a[y]]
<1>1. IsSummable(b) BY DEF IsSummable
<1>2. IsSummable(c) BY FS_Subset DEF IsSummable
<1>3. DOMAIN c = DOMAIN a \ {x} /\ \A y \in DOMAIN c : c[y] = a[y] /\ c[y] = b[y]
  OBVIOUS
<1> HIDE DEF c
<1>4. SumFunction(a) = a[x] + SumFunction(c) BY <1>3, SumDrop
<1>5. SumFunction(b) = b[x] + SumFunction(c) BY <1>1, <1>3, SumDrop
<1>6. SumFunction(c) \in Int BY <1>2, SumIsInt
<1>7. a[x] \in Int BY DEF IsSummable
<1>8. QED BY <1>4, <1>5, <1>6, <1>7

\* Functions that agree have the same sum.
LEMMA SumSame ==
  ASSUME NEW a, IsSummable(a), NEW b, DOMAIN b = DOMAIN a, \A y \in DOMAIN a : b[y] = a[y]
  PROVE  SumFunction(b) = SumFunction(a)
<1>1. PICK f : IsSum(a, DOMAIN a, f) /\ SumFunctionOnSet(a, DOMAIN a) = f[DOMAIN a]
  BY SumDefined DEF IsSummable
<1>2. PICK h : IsSum(b, DOMAIN b, h) /\ SumFunctionOnSet(b, DOMAIN b) = h[DOMAIN b]
  BY SumDefined DEF IsSummable
<1>3. f[DOMAIN a] = h[DOMAIN b]
  BY <1>1, <1>2, SumUnique DEF IsSummable
<1>4. QED BY <1>1, <1>2, <1>3 DEF SumFunction, SumFunctionOnSet

\* No part of a sum of natural numbers is more than the whole.
LEMMA SumPart ==
  ASSUME NEW a, IsSummable(a), \A y \in DOMAIN a : a[y] >= 0
  PROVE  SumFunction(a) >= 0 /\ \A x \in DOMAIN a : a[x] <= SumFunction(a)
<1> DEFINE D == DOMAIN a
<1>1. PICK f : IsSum(a, D, f) /\ SumFunctionOnSet(a, D) = f[D]
  BY SumDefined DEF IsSummable
<1> DEFINE Good == {s \in SUBSET D : f[s] >= 0}
<1>2. ASSUME NEW s \in SUBSET D, \A t \in SUBSET s : t # s => t \in Good PROVE s \in Good
  <2>1. CASE s = {} BY <2>1, <1>1 DEF IsSum
  <2>2. CASE s # {}
    <3> DEFINE x == CHOOSE y \in s : TRUE
    <3>1. x \in s BY <2>2
    <3>2. f[s] = a[x] + f[s \ {x}]
      BY <2>2, <1>1 DEF IsSum
    <3> HIDE DEF x
    <3>3. f[s \ {x}] >= 0 BY <3>1, <1>2
    <3>4. f[s \ {x}] \in Int /\ a[x] \in Int /\ a[x] >= 0
      BY <3>1, <1>1 DEF IsSum, IsSummable
    <3>5. QED BY <3>1, <3>2, <3>3, <3>4
  <2>3. QED BY <2>1, <2>2
<1>3. \A s \in SUBSET D : s \in Good
  <2>1. IsFiniteSet(D) BY DEF IsSummable
  <2> HIDE DEF Good, D
  <2> QED BY <1>2, <2>1, SubsetInduction
<1>4. f[D] >= 0 BY <1>3
<1>5. SumFunction(a) = f[D] BY <1>1 DEF SumFunction, SumFunctionOnSet
<1>6. ASSUME NEW x \in D PROVE a[x] <= f[D]
  <2>1. f[D] = a[x] + f[D \ {x}]
    BY <1>1, SumAnyOrder DEF IsSummable
  <2>2. f[D \ {x}] >= 0 BY <1>3
  <2>3. f[D \ {x}] \in Int /\ a[x] \in Int BY <1>1 DEF IsSum, IsSummable
  <2>4. QED BY <2>1, <2>2, <2>3
<1>7. QED BY <1>4, <1>5, <1>6

\* A sum of nothing but zeros.
LEMMA SumZero ==
  ASSUME NEW a, IsSummable(a), \A y \in DOMAIN a : a[y] = 0
  PROVE  SumFunction(a) = 0
<1> DEFINE D == DOMAIN a
<1>1. PICK f : IsSum(a, D, f) /\ SumFunctionOnSet(a, D) = f[D]
  BY SumDefined DEF IsSummable
<1> DEFINE Good == {s \in SUBSET D : f[s] = 0}
<1>2. ASSUME NEW s \in SUBSET D, \A t \in SUBSET s : t # s => t \in Good PROVE s \in Good
  <2>1. CASE s = {} BY <2>1, <1>1 DEF IsSum
  <2>2. CASE s # {}
    <3> DEFINE x == CHOOSE y \in s : TRUE
    <3>1. x \in s BY <2>2
    <3>2. f[s] = a[x] + f[s \ {x}]
      BY <2>2, <1>1 DEF IsSum
    <3> HIDE DEF x
    <3>3. f[s \ {x}] = 0 BY <3>1, <1>2
    <3>4. QED BY <3>1, <3>2, <3>3
  <2>3. QED BY <2>1, <2>2
<1>3. \A s \in SUBSET D : s \in Good
  <2>1. IsFiniteSet(D) BY DEF IsSummable
  <2> HIDE DEF Good, D
  <2> QED BY <1>2, <2>1, SubsetInduction
<1>4. QED BY <1>1, <1>3 DEF SumFunction, SumFunctionOnSet

\* What holds before a loop and is kept by every round holds after it.
LEMMA LoopHolds ==
  ASSUME NEW n \in Nat, NEW W, NEW f, <<0, f[0]>> \in W,
         \A k \in 1 .. n : <<k - 1, f[k - 1]>> \in W => <<k, f[k]>> \in W
  PROVE  <<n, f[n]>> \in W
<1> DEFINE Good == {k \in 0 .. n : <<k, f[k]>> \in W}
<1>1. 0 \in Good OBVIOUS
<1>2. \A k \in 1 .. n : k - 1 \in Good => k \in Good OBVIOUS
<1> HIDE DEF Good
<1>3. n \in Good BY <1>1, <1>2, NatSetInduction
<1>4. QED BY <1>3 DEF Good

-----------------------------------------------------------------------------
(* Queues.                                                                   *)

\* A queue of streams of S, each at most once.
IsQueue(q, S) == q \in Seq(S) /\ IsInjective(q)

\* Sequences of the same length and entries are equal.
LEMMA SeqEqual ==
  ASSUME NEW S, NEW a \in Seq(S), NEW b \in Seq(S), Len(a) = Len(b),
         \A i \in 1 .. Len(a) : a[i] = b[i]
  PROVE  a = b
OBVIOUS

\* What is queued is a stream of the slab.
LEMMA QueuedIn ==
  ASSUME NEW S, NEW q, IsQueue(q, S), NEW s, Queued(q, s)
  PROVE  s \in S
BY DEF IsQueue, Queued, Contains

\* The empty sequence is a queue of nobody.
LEMMA EmptyQueue ==
  ASSUME NEW S
  PROVE  IsQueue(<<>>, S) /\ \A s : ~Queued(<<>>, s)
BY DEF IsQueue, IsInjective, Queued, Contains

\* Appending a stream that is not queued makes a queue of one more.
LEMMA QueueAppend ==
  ASSUME NEW S, NEW q, IsQueue(q, S), NEW s \in S, ~Queued(q, s)
  PROVE  /\ IsQueue(Append(q, s), S) /\ Len(Append(q, s)) = Len(q) + 1
         /\ \A t : Queued(Append(q, s), t) <=> Queued(q, t) \/ t = s
<1> DEFINE r == Append(q, s)
<1>1. q \in Seq(S) /\ Len(q) \in Nat BY DEF IsQueue
<1>2. /\ r \in Seq(S) /\ Len(r) = Len(q) + 1 /\ r[Len(q) + 1] = s
      /\ \A i \in 1 .. Len(q) : r[i] = q[i]
  BY <1>1
<1> HIDE DEF r
<1>3. IsInjective(r)
  BY <1>1, <1>2 DEF IsQueue, IsInjective, Queued, Contains
<1>4. ASSUME NEW t PROVE Queued(r, t) <=> Queued(q, t) \/ t = s
  <2>1. Queued(q, t) => Queued(r, t) BY <1>1, <1>2 DEF Queued, Contains
  <2>2. Queued(r, s) BY <1>1, <1>2 DEF Queued, Contains
  <2>3. Queued(r, t) => Queued(q, t) \/ t = s BY <1>1, <1>2 DEF Queued, Contains
  <2>4. QED BY <2>1, <2>2, <2>3
<1>5. QED BY <1>2, <1>3, <1>4 DEF IsQueue, r

\* Queue::push keeps a queue a queue and adds one stream.
LEMMA QueuePush ==
  ASSUME NEW S, NEW q, IsQueue(q, S), NEW s \in S
  PROVE  /\ IsQueue(PushOnce(q, s), S)
         /\ \A t : Queued(PushOnce(q, s), t) <=> Queued(q, t) \/ t = s
BY QueueAppend DEF PushOnce

\* Queue::pop takes the first stream, and nothing else changes.
LEMMA QueueTail ==
  ASSUME NEW S, NEW q, IsQueue(q, S), q # <<>>
  PROVE  /\ Head(q) \in S /\ Queued(q, Head(q)) /\ Len(Tail(q)) = Len(q) - 1
         /\ IsQueue(Tail(q), S)
         /\ \A t : Queued(Tail(q), t) <=> Queued(q, t) /\ t # Head(q)
<1> DEFINE r == Tail(q)
<1>1. q \in Seq(S) /\ Len(q) \in Nat /\ Len(q) > 0 /\ Head(q) = q[1]
  BY DEF IsQueue
<1>2. r \in Seq(S) /\ Len(r) = Len(q) - 1 /\ \A i \in 1 .. Len(r) : r[i] = q[i + 1]
  BY <1>1
<1> HIDE DEF r
<1>3. IsInjective(r)
  BY <1>1, <1>2 DEF IsQueue, IsInjective
<1>4. ASSUME NEW t PROVE Queued(r, t) <=> Queued(q, t) /\ t # Head(q)
  <2>1. Queued(r, t) => Queued(q, t) /\ t # Head(q)
    <3>1. SUFFICES ASSUME NEW i \in 1 .. Len(r), r[i] = t PROVE Queued(q, t) /\ t # Head(q)
      BY DEF Queued, Contains
    <3>2. i + 1 \in 1 .. Len(q) /\ q[i + 1] = t /\ i + 1 # 1 BY <1>1, <1>2, <3>1
    <3>3. QED BY <1>1, <3>2 DEF Queued, Contains, IsQueue, IsInjective
  <2>2. Queued(q, t) /\ t # Head(q) => Queued(r, t)
    <3>1. SUFFICES ASSUME NEW i \in 1 .. Len(q), q[i] = t, i # 1 PROVE Queued(r, t)
      BY <1>1 DEF Queued, Contains
    <3>2. i - 1 \in 1 .. Len(r) /\ r[i - 1] = t BY <1>1, <1>2, <3>1
    <3>3. QED BY <3>2 DEF Queued, Contains
  <2>3. QED BY <2>1, <2>2
<1>5. Head(q) \in S /\ Queued(q, Head(q))
  BY <1>1 DEF Queued, Contains
<1>6. QED BY <1>2, <1>3, <1>4, <1>5 DEF IsQueue, r

\* A queue is still one without a stream it does not name.
LEMMA QueueForget ==
  ASSUME NEW S, NEW q, IsQueue(q, S), NEW s, ~Queued(q, s)
  PROVE  IsQueue(q, S \ {s})
<1>1. q \in Seq(S) /\ \A i \in 1 .. Len(q) : q[i] \in S \ {s}
  BY DEF IsQueue, Queued, Contains
<1>2. q \in Seq(S \ {s})
  BY <1>1
<1>3. QED BY <1>2 DEF IsQueue

\* A queue is one of any larger slab.
LEMMA QueueWiden ==
  ASSUME NEW S, NEW q, IsQueue(q, S), NEW T, S \subseteq T
  PROVE  IsQueue(q, T)
<1>1. q \in Seq(S) /\ \A i \in 1 .. Len(q) : q[i] \in T
  BY DEF IsQueue
<1>2. q \in Seq(T)
  BY <1>1
<1>3. QED BY <1>2 DEF IsQueue

\* A stream is queued in two queues if it is in one of them.
LEMMA QueuedConcat ==
  ASSUME NEW S, NEW q \in Seq(S), NEW r \in Seq(S), NEW s
  PROVE  q \o r \in Seq(S) /\ (Queued(q \o r, s) <=> Queued(q, s) \/ Queued(r, s))
<1> DEFINE c == q \o r
<1>1. /\ c \in Seq(S) /\ Len(c) = Len(q) + Len(r) /\ Len(q) \in Nat /\ Len(r) \in Nat
      /\ \A i \in 1 .. Len(q) : c[i] = q[i]
      /\ \A i \in 1 .. Len(r) : c[Len(q) + i] = r[i]
  OBVIOUS
<1> HIDE DEF c
<1>2. Queued(q, s) => Queued(c, s) BY <1>1 DEF Queued, Contains
<1>3. Queued(r, s) => Queued(c, s)
  <2>1. SUFFICES ASSUME NEW i \in 1 .. Len(r), r[i] = s PROVE Queued(c, s)
    BY DEF Queued, Contains
  <2>2. Len(q) + i \in 1 .. Len(c) /\ c[Len(q) + i] = s BY <1>1, <2>1
  <2>3. QED BY <2>2 DEF Queued, Contains
<1>4. Queued(c, s) => Queued(q, s) \/ Queued(r, s)
  <2>1. SUFFICES ASSUME NEW i \in 1 .. Len(c), c[i] = s, ~(i \in 1 .. Len(q)) PROVE Queued(r, s)
    BY <1>1 DEF Queued, Contains
  <2>2. i - Len(q) \in 1 .. Len(r) /\ Len(q) + (i - Len(q)) = i BY <1>1, <2>1
  <2>3. r[i - Len(q)] = s BY <1>1, <2>1, <2>2
  <2>4. QED BY <2>2, <2>3 DEF Queued, Contains
<1>5. QED BY <1>1, <1>2, <1>3, <1>4 DEF c

\* What is left of a queue after its first k entries.
After(q, k) == SubSeq(q, k + 1, Len(q))

\* Before the first round everything is left, after the last nothing.
LEMMA AfterNone ==
  ASSUME NEW S, NEW q \in Seq(S)
  PROVE  After(q, 0) = q /\ After(q, Len(q)) = <<>>
BY DEF After

\* One round takes the first of what is left.
LEMMA AfterOne ==
  ASSUME NEW S, NEW q \in Seq(S), NEW k \in 1 .. Len(q)
  PROVE  /\ After(q, k - 1) # <<>> /\ Head(After(q, k - 1)) = q[k]
         /\ Tail(After(q, k - 1)) = After(q, k)
<1> DEFINE r == After(q, k - 1)
<1>1. Len(q) \in Nat /\ k \in Int /\ 1 <= k /\ k <= Len(q) OBVIOUS
<1>2. r \in Seq(S) /\ Len(r) = Len(q) - k + 1 /\ \A i \in 1 .. Len(r) : r[i] = q[k - 1 + i]
  BY <1>1 DEF After
<1>3. /\ After(q, k) \in Seq(S) /\ Len(After(q, k)) = Len(q) - k
      /\ \A i \in 1 .. Len(q) - k : After(q, k)[i] = q[k + i]
  BY <1>1 DEF After
<1> HIDE DEF r
<1>4. r # <<>> /\ Head(r) = q[k] BY <1>1, <1>2
<1>5. Tail(r) \in Seq(S) /\ Len(Tail(r)) = Len(q) - k /\ \A i \in 1 .. Len(q) - k : Tail(r)[i] = q[k + i]
  BY <1>1, <1>2
<1>6. Tail(r) = After(q, k)
  <2> DEFINE a == Tail(r)
             b == After(q, k)
  <2>1. /\ a \in Seq(S) /\ b \in Seq(S) /\ Len(a) = Len(b)
        /\ \A i \in 1 .. Len(a) : a[i] = b[i]
    BY <1>1, <1>3, <1>5
  <2> HIDE DEF a, b
  <2>2. a = b BY <2>1, SeqEqual
  <2>3. QED BY <2>2 DEF a, b
<1>7. QED BY <1>4, <1>6 DEF r

\* Unlinking a stream: the last one takes its place.
LEMMA UnlinkQueue ==
  ASSUME NEW S, NEW q, IsQueue(q, S), NEW s, Queued(q, s)
  PROVE  LET moved == [i \in 1 .. Len(q) |-> IF q[i] = s THEN Last(q) ELSE q[i]]
         IN  /\ IsQueue(Front(moved), S)
             /\ \A t : Queued(Front(moved), t) <=> Queued(q, t) /\ t # s
<1> DEFINE moved == [i \in 1 .. Len(q) |-> IF q[i] = s THEN Last(q) ELSE q[i]]
           n == Len(q)
           r == Front(moved)
<1>1. q \in Seq(S) /\ n \in Nat /\ Last(q) = q[n] /\ \A i, j \in 1 .. n : q[i] = q[j] => i = j
  BY DEF IsQueue, IsInjective, Last
<1>2. PICK p \in 1 .. n : q[p] = s
  BY DEF Queued, Contains
<1>3. n >= 1 /\ n - 1 \in Nat BY <1>1, <1>2
<1>4. moved \in Seq(S) /\ Len(moved) = n BY <1>1, <1>2
<1>5. r = [i \in 1 .. n - 1 |-> moved[i]]
  BY <1>3, <1>4 DEF Front
<1>6. r \in Seq(S) /\ Len(r) = n - 1 /\ \A i \in 1 .. n - 1 : r[i] = IF i = p THEN q[n] ELSE q[i]
  <2>1. \A i \in 1 .. n - 1 : moved[i] = IF i = p THEN q[n] ELSE q[i]
    BY <1>1, <1>2, <1>3
  <2>2. \A i \in 1 .. n - 1 : moved[i] \in S
    BY <1>1, <1>2, <1>3, <2>1
  <2> HIDE DEF r, moved, n
  <2>3. QED BY <1>3, <1>5, <2>1, <2>2
<1> HIDE DEF r, moved, n
<1>7. IsInjective(r)
  BY <1>1, <1>2, <1>3, <1>6 DEF IsInjective
<1>8. ASSUME NEW t PROVE Queued(r, t) <=> Queued(q, t) /\ t # s
  <2>1. Queued(r, t) => Queued(q, t) /\ t # s
    BY <1>1, <1>2, <1>3, <1>6 DEF Queued, Contains, n
  <2>2. ASSUME Queued(q, t), t # s PROVE Queued(r, t)
    <3>1. PICK i \in 1 .. n : q[i] = t BY <2>2 DEF Queued, Contains, n
    <3>2. CASE i # n BY <3>1, <3>2, <2>2, <1>1, <1>2, <1>3, <1>6 DEF Queued, Contains
    <3>3. CASE i = n
      <4>1. p \in 1 .. n - 1 /\ r[p] = t BY <3>1, <3>3, <2>2, <1>1, <1>2, <1>3, <1>6
      <4>2. QED BY <4>1, <1>6 DEF Queued, Contains
    <3>4. QED BY <3>2, <3>3
  <2>3. QED BY <2>1, <2>2
<1>9. QED BY <1>6, <1>7, <1>8 DEF IsQueue, r, moved, n

\* The library's sequence of the elements of a set names each of them once.
LEMMA SetToSeqIs ==
  ASSUME NEW S, IsFiniteSet(S)
  PROVE  /\ IsQueue(SetToSeq(S), S)
         /\ \A x \in S : \E i \in 1 .. Len(SetToSeq(S)) : SetToSeq(S)[i] = x
<1> DEFINE n == Cardinality(S)
           f == SetToSeq(S)
<1>1. n \in Nat /\ ExistsBijection(1 .. n, S) BY FS_CardinalityType
<1>2. PICK g : g \in Bijection(1 .. n, S) BY <1>1 DEF ExistsBijection
<1>3. g \in [1 .. n -> S] /\ IsInjective(g) BY <1>2 DEF Bijection, Injection
<1>4. f \in [1 .. n -> S] /\ IsInjective(f) BY <1>3 DEF SetToSeq
<1> HIDE DEF f
<1>5. Cardinality(1 .. n) = n /\ IsFiniteSet(1 .. n)
  <2>1. 1 \in Int /\ n \in Int BY <1>1
  <2> HIDE DEF n
  <2>2. QED BY <1>1, <2>1, FS_Interval
<1>6. f \in Surjection(1 .. n, S)
  <2>1. f \in Injection(1 .. n, S) BY <1>4 DEF Injection
  <2>2. QED BY <1>5, <2>1, FS_Injection
<1>7. \A x \in S : \E i \in 1 .. n : f[i] = x BY <1>6 DEF Surjection
<1>8. f \in Seq(S) /\ Len(f) = n
  <2> HIDE DEF n
  <2>1. f = [i \in 1 .. n |-> f[i]] BY <1>4
  <2>2. \A i \in 1 .. n : f[i] \in S BY <1>4
  <2>3. QED BY <1>1, <2>1, <2>2
<1>9. QED BY <1>4, <1>7, <1>8 DEF IsQueue, f
=============================================================================
