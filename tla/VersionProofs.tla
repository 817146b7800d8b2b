--------------------------- MODULE VersionProofs ---------------------------
(***************************************************************************)
(* Version vectors, and the flags that the files table derives from them.  *)
(*                                                                         *)
(* The loops of lib/protocol/vector.go compute the order and the join of   *)
(* VersionOrder for any vectors, and devices that use them never replace   *)
(* a version that they have not seen.  The flags of the files table are    *)
(* well formed whatever the versions and times are, and up to date where   *)
(* fileRow.Compare has no circles.                                         *)
(***************************************************************************)
EXTENDS FolderDB, VersionVector, SequenceTheorems, FiniteSetTheorems,
        WellFoundedInduction, TLAPS

\* A set of natural numbers that is not empty has a least element.
LEMMA LeastElement ==
  ASSUME NEW T, T \subseteq Nat, T # {}
  PROVE  \E x \in T : \A y \in T : x <= y
<1>1. PICK x \in T : \A y \in T : ~ (<<y, x>> \in OpToRel(<, Nat))
  BY NatLessThanWellFounded, WFMin
<1>2. \A y \in T : ~ (y < x)
  BY <1>1 DEF OpToRel
<1> QED BY <1>2

\* Induction over the natural numbers, in a form that needs no operator: a set
\* with 0 that is closed under successors has them all.
LEMMA Induction ==
  ASSUME NEW T, T \subseteq Nat, 0 \in T, \A n \in T : n + 1 \in T
  PROVE  T = Nat
<1> SUFFICES ASSUME Nat \ T # {} PROVE FALSE
  OBVIOUS
<1>1. PICK x \in Nat \ T : \A y \in Nat \ T : x <= y
  BY LeastElement
<1>2. x - 1 \in Nat /\ x - 1 \in T
  BY <1>1
<1> QED BY <1>1, <1>2

----------------------------------------------------------------------------
(***************************************************************************)
(* Iterate satisfies the equations of its definition.                      *)
(***************************************************************************)

\* F has the first n + 1 states of the loop.
Run(step, x, F, n) ==
  /\ F = [i \in 0..n |-> F[i]] /\ F[0] = x
  /\ \A i \in 1..n : F[i] = step[F[i - 1]]

\* Every number of turns has a run.
LEMMA RunExists ==
  ASSUME NEW step, NEW x
  PROVE  \A n \in Nat : \E F : Run(step, x, F, n)
<1> DEFINE T == {n \in Nat : \E F : Run(step, x, F, n)}
<1>1. 0 \in T
  <2> DEFINE F == [i \in 0..0 |-> x]
  <2>1. F = [i \in 0..0 |-> F[i]] /\ F[0] = x
    OBVIOUS
  <2>2. Run(step, x, F, 0)
    BY <2>1 DEF Run
  <2> QED BY <2>2
<1>2. ASSUME NEW n \in T PROVE n + 1 \in T
  <2>1. PICK F : Run(step, x, F, n)
    OBVIOUS
  <2> DEFINE G == [i \in 0..(n + 1) |-> IF i = n + 1 THEN step[F[n]] ELSE F[i]]
  <2>2. G = [i \in 0..(n + 1) |-> G[i]]
    OBVIOUS
  <2>3. G[0] = x
    BY <2>1 DEF Run
  <2>4. \A i \in 1..(n + 1) : G[i] = step[G[i - 1]]
    <3> TAKE i \in 1..(n + 1)
    <3>1. i - 1 \in 0..n /\ i \in 0..(n + 1) /\ i - 1 \in 0..(n + 1) /\ n \in Nat
      OBVIOUS
    <3>2. G[i - 1] = F[i - 1]
      BY <3>1
    <3>3. CASE i = n + 1
      BY <3>1, <3>2, <3>3
    <3>4. CASE i # n + 1
      <4>1. i \in 1..n
        BY <3>1, <3>4
      <4>2. F[i] = step[F[i - 1]] /\ G[i] = F[i]
        BY <2>1, <4>1, <3>4, <3>1 DEF Run
      <4> QED BY <4>2, <3>2
    <3> QED BY <3>3, <3>4
  <2> HIDE DEF G
  <2>5. Run(step, x, G, n + 1)
    BY <2>2, <2>3, <2>4 DEF Run
  <2> QED BY <2>5
<1> HIDE DEF T
<1>3. T = Nat
  <2>1. T \subseteq Nat
    BY DEF T
  <2> QED BY <1>1, <1>2, <2>1, Induction
<1> QED BY <1>3 DEF T

\* Two runs agree on the turns that both have.
LEMMA RunsAgree ==
  ASSUME NEW step, NEW x, NEW m \in Nat, NEW F, Run(step, x, F, m), NEW k \in Nat, NEW G, Run(step, x, G, k)
  PROVE  \A n \in Nat : n <= m /\ n <= k => F[n] = G[n]
<1> DEFINE T == {n \in Nat : n <= m /\ n <= k => F[n] = G[n]}
<1>1. 0 \in T
  BY DEF Run
<1>2. ASSUME NEW n \in T PROVE n + 1 \in T
  <2> SUFFICES ASSUME n + 1 <= m, n + 1 <= k PROVE F[n + 1] = G[n + 1]
    OBVIOUS
  <2>1. F[n] = G[n]
    OBVIOUS
  <2>2. n + 1 \in 1..m /\ n + 1 \in 1..k /\ (n + 1) - 1 = n
    OBVIOUS
  <2>3. F[n + 1] = step[F[n]] /\ G[n + 1] = step[G[n]]
    BY <2>2 DEF Run
  <2> QED BY <2>1, <2>3
<1> HIDE DEF T
<1>3. T = Nat
  <2>1. T \subseteq Nat
    BY DEF T
  <2> QED BY <1>1, <1>2, <2>1, Induction
<1> QED BY <1>3 DEF T

\* Iterate is the sequence of states that its recursive definition asks for.
LEMMA IterateFacts ==
  ASSUME NEW S, NEW step, \A y \in S : step[y] \in S, NEW x \in S
  PROVE  /\ \A n \in Nat : Iterate(step, x)[n] \in S
         /\ Iterate(step, x)[0] = x
         /\ \A n \in Nat : Iterate(step, x)[n + 1] = step[Iterate(step, x)[n]]
<1> DEFINE f == [n \in Nat |-> (CHOOSE F : Run(step, x, F, n))[n]]
           Body(g) == [n \in Nat |-> IF n = 0 THEN x ELSE step[g[n - 1]]]
<1>1. \A n \in Nat : Run(step, x, CHOOSE F : Run(step, x, F, n), n)
  BY RunExists
<1>2. f[0] = x
  BY <1>1 DEF Run
<1>3. \A n \in Nat : f[n + 1] = step[f[n]]
  <2> TAKE n \in Nat
  <2> DEFINE F == CHOOSE F : Run(step, x, F, n)
             G == CHOOSE G : Run(step, x, G, n + 1)
  <2>1. Run(step, x, F, n) /\ Run(step, x, G, n + 1)
    BY <1>1
  <2> HIDE DEF F, G
  <2> DEFINE m == n + 1
  <2>a. m \in Nat /\ n <= n /\ n <= m /\ m \in 1..m /\ m - 1 = n
    OBVIOUS
  <2>b. Run(step, x, G, m)
    BY <2>1
  <2>2. F[n] = G[n]
    <3> HIDE DEF m
    <3>1. \A l \in Nat : l <= n /\ l <= m => F[l] = G[l]
      BY ONLY <2>1, <2>a, <2>b, n \in Nat, RunsAgree
    <3> QED BY <3>1, <2>a
  <2>3. G[n + 1] = step[G[n]]
    <3> HIDE DEF m
    <3>1. G[m] = step[G[m - 1]]
      BY <2>a, <2>b DEF Run
    <3> QED BY <3>1, <2>a DEF m
  <2>4. f[n] = F[n] /\ f[n + 1] = G[n + 1]
    BY DEF F, G
  <2> QED BY <2>2, <2>3, <2>4
<1>4. DOMAIN f = Nat /\ f = [n \in Nat |-> f[n]]
  OBVIOUS
<1> HIDE DEF f
<1>5. f = Body(f)
  <2>1. \A n \in Nat : f[n] = IF n = 0 THEN x ELSE step[f[n - 1]]
    <3> TAKE n \in Nat
    <3>1. CASE n = 0
      BY <3>1, <1>2
    <3>2. CASE n # 0
      <4>1. n - 1 \in Nat /\ (n - 1) + 1 = n
        BY <3>2
      <4>2. f[(n - 1) + 1] = step[f[n - 1]]
        BY <4>1, <1>3
      <4> QED BY <3>2, <4>1, <4>2
    <3> QED BY <3>1, <3>2
  <2> QED BY <1>4, <2>1
<1> DEFINE g == CHOOSE g : g = Body(g)
<1>6. g = Body(g)
  BY <1>5
<1>7. Iterate(step, x) = g
  BY DEF Iterate
<1> HIDE DEF g
<1>8. g[0] = x
  BY <1>6
<1>9. \A n \in Nat : g[n + 1] = step[g[n]]
  <2> TAKE n \in Nat
  <2>1. n + 1 \in Nat /\ n + 1 # 0 /\ (n + 1) - 1 = n
    OBVIOUS
  <2>2. g[n + 1] = step[g[(n + 1) - 1]]
    BY <1>6, <2>1
  <2> QED BY <2>1, <2>2
<1> DEFINE T == {n \in Nat : g[n] \in S}
<1>10. 0 \in T /\ \A n \in T : n + 1 \in T
  BY <1>8, <1>9
<1> HIDE DEF T
<1>11. T = Nat
  <2>1. T \subseteq Nat
    BY DEF T
  <2> QED BY <1>10, <2>1, Induction
<1> QED BY <1>7, <1>8, <1>9, <1>11 DEF T

\* A loop that deals with something in every turn ends within as many turns as
\* there is to deal with.
LEMMA LoopEnds ==
  ASSUME NEW S, NEW Done, NEW rest, NEW step, NEW x \in S,
         \A y \in S : step[y] \in S /\ rest[y] \in Nat,
         \A y \in S : y \in Done => step[y] = y,
         \A y \in S : y \notin Done => step[y] \in Done \/ rest[step[y]] <= rest[y] - 1,
         \A y \in S : rest[y] = 0 => y \in Done
  PROVE  LET e == Iterate(step, x)[rest[x]] IN e \in S /\ e \in Done
<1> DEFINE it == Iterate(step, x)
           n  == rest[x]
           T  == {k \in Nat : it[k] \in Done \/ rest[it[k]] <= n - k}
<1>1. /\ \A k \in Nat : it[k] \in S
      /\ it[0] = x
      /\ \A k \in Nat : it[k + 1] = step[it[k]]
  <2>1. \A y \in S : step[y] \in S
    OBVIOUS
  <2>2. x \in S
    OBVIOUS
  <2> QED BY ONLY <2>1, <2>2, IterateFacts
<1> HIDE DEF it
<1>2. n \in Nat
  OBVIOUS
<1>3. 0 \in T
  BY <1>1, <1>2
<1>4. ASSUME NEW k \in T PROVE k + 1 \in T
  <2> DEFINE s == it[k]
             t == it[k + 1]
             p == rest[s]
             q == rest[t]
  <2>1. t = step[s] /\ s \in S /\ t \in S /\ k \in Nat
    BY <1>1
  <2>2. p \in Nat /\ q \in Nat
    BY <2>1
  <2>3. s \in Done \/ p <= n - k
    OBVIOUS
  <2>4. (s \in Done => t = s) /\ (s \notin Done => t \in Done \/ q <= p - 1)
    BY <2>1
  <2>5. (s \in Done /\ t = s) \/ t \in Done \/ (p <= n - k /\ q <= p - 1)
    BY <2>3, <2>4
  <2>6. t \in Done \/ q <= n - (k + 1)
    <3> HIDE DEF s, t, p, q, n
    <3>1. p <= n - k /\ q <= p - 1 => q <= n - (k + 1)
      BY <1>2, <2>1, <2>2
    <3> QED BY <2>5, <3>1
  <2>7. k + 1 \in Nat
    BY <2>1
  <2> QED BY <2>6, <2>7
<1> HIDE DEF T
<1>5. T = Nat
  <2>1. T \subseteq Nat
    BY DEF T
  <2> QED BY <1>3, <1>4, <2>1, Induction
<1>6. it[n] \in Done \/ rest[it[n]] <= n - n
  BY <1>2, <1>5 DEF T
<1>7. it[n] \in S /\ rest[it[n]] \in Nat
  BY <1>1, <1>2
<1>8. it[n] \in Done
  <2> DEFINE q == rest[it[n]]
  <2> HIDE DEF n
  <2>1. q \in Nat /\ (q <= n - n => q = 0)
    BY <1>2, <1>7
  <2> QED BY <1>6, <1>7, <2>1
<1> QED BY <1>7, <1>8 DEF it

----------------------------------------------------------------------------
(***************************************************************************)
(* Slices of counters in the order of their IDs, each ID once.             *)
(***************************************************************************)
Sorted(v) == \A i, j \in 1..Len(v) : i < j => v[i].id < v[j].id

Vecs == {v \in Slices : Sorted(v)}

\* The types of the counters of a slice.
LEMMA SliceFacts ==
  ASSUME NEW v \in Slices
  PROVE  /\ Len(v) \in Nat
         /\ \A k \in 1..Len(v) : v[k] \in [id : Ids, value : Nat]
         /\ \A k \in 1..Len(v) : v[k].id \in Ids /\ v[k].value \in Nat
         /\ Ids \subseteq Nat \ {0}
<1>1. Len(v) \in Nat /\ \A k \in 1..Len(v) : v[k] \in [id : Ids, value : Nat]
  BY ElementOfSeq, LenProperties DEF Slices
<1>2. Ids \subseteq Nat \ {0}
  BY NumIdsAssumption DEF Ids
<1> QED BY <1>1, <1>2

\* In a sorted slice the counter of an ID is at one place only.
LEMMA PlaceFacts ==
  ASSUME NEW v \in Vecs, NEW k \in 1..Len(v)
  PROVE  Has(v, v[k].id) /\ Place(v, v[k].id) = k /\ Counter(v, v[k].id) = v[k].value
<1>1. v \in Slices /\ Sorted(v)
  BY DEF Vecs
<1>2. Has(v, v[k].id)
  BY DEF Has
<1>3. Place(v, v[k].id) \in 1..Len(v) /\ v[Place(v, v[k].id)].id = v[k].id
  BY <1>2 DEF Has, Place
<1>4. Place(v, v[k].id) = k
  <2> DEFINE p == Place(v, v[k].id)
  <2>1. p \in 1..Len(v) /\ v[p].id = v[k].id
    BY <1>3
  <2> HIDE DEF p
  <2>2. Len(v) \in Nat /\ v[k].id \in Nat
    BY <1>1, SliceFacts
  <2>3. ~(p < k) /\ ~(k < p)
    BY <1>1, <2>1, <2>2 DEF Sorted
  <2>4. p = k
    BY <2>1, <2>2, <2>3
  <2> QED BY <2>4 DEF p
<1> QED BY <1>2, <1>4 DEF Counter

\* Counter is a number: the value at a place with the ID, or zero.
LEMMA CounterFacts ==
  ASSUME NEW v \in Vecs, NEW i
  PROVE  /\ Counter(v, i) \in Nat
         /\ ~Has(v, i) => Counter(v, i) = 0
         /\ Has(v, i) => \E k \in 1..Len(v) : /\ v[k].id = i /\ Counter(v, i) = v[k].value
<1>1. v \in Slices
  BY DEF Vecs
<1>2. CASE ~Has(v, i)
  BY <1>2 DEF Counter
<1>3. CASE Has(v, i)
  <2>1. PICK k \in 1..Len(v) : v[k].id = i
    BY <1>3 DEF Has
  <2>2. Counter(v, i) = v[k].value
    BY <2>1, PlaceFacts
  <2> QED BY <1>1, <1>3, <2>1, <2>2, SliceFacts
<1> QED BY <1>2, <1>3

\* What Inserted does, place by place.
LEMMA InsertedFacts ==
  ASSUME NEW S, NEW v \in Seq(S), NEW c \in S, NEW i \in 1..(Len(v) + 1)
  PROVE  /\ Inserted(v, i, c) \in Seq(S)
         /\ Len(Inserted(v, i, c)) = Len(v) + 1
         /\ Inserted(v, i, c)[i] = c
         /\ \A k \in 1..Len(v) : k < i => Inserted(v, i, c)[k] = v[k]
         /\ \A k \in 1..Len(v) : k >= i => Inserted(v, i, c)[k + 1] = v[k]
<1> DEFINE a == SubSeq(v, 1, i - 1)
           z == SubSeq(v, i, Len(v))
           m == a \o <<c>>
<1>1. Len(v) \in Nat /\ i \in Nat /\ i >= 1 /\ i <= Len(v) + 1
  OBVIOUS
<1>2. /\ a \in Seq(S) /\ Len(a) = i - 1
      /\ \A k \in 1..(i - 1) : a[k] = v[k]
  <2>1. \A k \in 1..(i - 1) : v[k] \in S
    BY <1>1, ElementOfSeq
  <2> QED BY <1>1, <2>1, SubSeqProperties
<1>3. /\ z \in Seq(S) /\ Len(z) = Len(v) - i + 1
      /\ \A k \in 1..(Len(v) - i + 1) : z[k] = v[i + k - 1]
  <2>1. \A k \in i..Len(v) : v[k] \in S
    BY <1>1, ElementOfSeq
  <2> QED BY <1>1, <2>1, SubSeqProperties
<1> HIDE DEF a, z
<1>4. /\ m \in Seq(S) /\ Len(m) = i
      /\ \A k \in 1..i : m[k] = IF k < i THEN v[k] ELSE c
  <2>1. <<c>> \in Seq(S) /\ Len(<<c>>) = 1 /\ <<c>>[1] = c
    OBVIOUS
  <2>2. /\ m \in Seq(S) /\ Len(m) = Len(a) + 1
        /\ \A k \in 1..(Len(a) + 1) : m[k] = IF k <= Len(a) THEN a[k] ELSE <<c>>[k - Len(a)]
    BY <1>2, <2>1, ConcatProperties
  <2> QED BY <1>1, <1>2, <2>1, <2>2
<1> HIDE DEF m
<1> DEFINE w == m \o z
<1>5. /\ w \in Seq(S) /\ Len(w) = Len(m) + Len(z)
      /\ \A k \in 1..(Len(m) + Len(z)) : w[k] = IF k <= Len(m) THEN m[k] ELSE z[k - Len(m)]
  BY <1>3, <1>4, ConcatProperties
<1> HIDE DEF w
<1>6. Inserted(v, i, c) = w
  BY DEF Inserted, a, z, m, w
<1>7. w \in Seq(S) /\ Len(w) = Len(v) + 1
  BY <1>1, <1>3, <1>4, <1>5
<1>8. w[i] = c
  BY <1>1, <1>3, <1>4, <1>5
<1>9. \A k \in 1..Len(v) : k < i => w[k] = v[k]
  BY <1>1, <1>3, <1>4, <1>5
<1>10. ASSUME NEW k \in 1..Len(v), k >= i PROVE w[k + 1] = v[k]
  <2>1. /\ k + 1 - i \in 1..(Len(v) - i + 1) /\ i + (k + 1 - i) - 1 = k
        /\ k + 1 \in 1..(Len(m) + Len(z)) /\ ~(k + 1 <= Len(m)) /\ Len(m) = i
    BY <1>1, <1>3, <1>4, <1>10
  <2>2. w[k + 1] = z[k + 1 - i]
    BY <1>5, <2>1
  <2> QED BY <1>3, <2>1, <2>2
<1> QED BY <1>6, <1>7, <1>8, <1>9, <1>10

\* A counter is the same in two vectors when it is in both or in neither.
LEMMA SameCounter ==
  ASSUME NEW v \in Vecs, NEW w \in Vecs, NEW i,
         \A k \in 1..Len(w) : w[k].id = i => \E l \in 1..Len(v) : v[l] = w[k],
         \A l \in 1..Len(v) : v[l].id = i => \E k \in 1..Len(w) : w[k] = v[l]
  PROVE  Counter(w, i) = Counter(v, i)
<1>1. CASE Has(w, i)
  <2>1. PICK k \in 1..Len(w) : w[k].id = i
    BY <1>1 DEF Has
  <2>2. PICK l \in 1..Len(v) : v[l] = w[k]
    BY <2>1
  <2>3. Counter(w, i) = w[k].value /\ Counter(v, i) = v[l].value
    BY <2>1, <2>2, PlaceFacts
  <2> QED BY <2>2, <2>3
<1>2. CASE ~Has(w, i)
  <2>1. ~Has(v, i)
    BY <1>2 DEF Has
  <2> QED BY <1>2, <2>1, CounterFacts
<1> QED BY <1>1, <1>2

\* A counter is inserted in its place.
LEMMA InsertSorted ==
  ASSUME NEW v \in Vecs, NEW c \in [id : Ids, value : Nat], NEW pos \in 1..(Len(v) + 1),
         \A k \in 1..Len(v) : k < pos => v[k].id < c.id,
         \A k \in 1..Len(v) : pos <= k => c.id < v[k].id
  PROVE  /\ Inserted(v, pos, c) \in Vecs
         /\ Counter(Inserted(v, pos, c), c.id) = c.value
         /\ Counter(v, c.id) = 0
         /\ \A i \in Ids \ {c.id} : Counter(Inserted(v, pos, c), i) = Counter(v, i)
<1> DEFINE w == Inserted(v, pos, c)
           C == [id : Ids, value : Nat]
<1>1. /\ v \in Slices /\ v \in Seq(C) /\ Sorted(v) /\ Len(v) \in Nat /\ c.id \in Nat
      /\ \A k \in 1..Len(v) : v[k] \in C /\ v[k].id \in Nat /\ v[k].value \in Nat
      /\ c \in C
  BY SliceFacts DEF Vecs, Slices
<1> HIDE DEF C
<1>2. /\ w \in Seq(C) /\ Len(w) = Len(v) + 1
      /\ w[pos] = c
      /\ \A k \in 1..Len(v) : k < pos => w[k] = v[k]
      /\ \A k \in 1..Len(v) : k >= pos => w[k + 1] = v[k]
  BY <1>1, InsertedFacts
<1> HIDE DEF w
<1>3. \A k \in 1..Len(w) : k > pos => k - 1 \in 1..Len(v) /\ k - 1 >= pos /\ w[k] = v[k - 1]
  <2> SUFFICES ASSUME NEW k \in 1..Len(w), k > pos
               PROVE  k - 1 \in 1..Len(v) /\ k - 1 >= pos /\ w[k] = v[k - 1]
    OBVIOUS
  <2>1. k - 1 \in 1..Len(v) /\ k - 1 >= pos /\ (k - 1) + 1 = k
    BY <1>1, <1>2
  <2>2. w[(k - 1) + 1] = v[k - 1]
    BY <1>2, <2>1
  <2> QED BY <2>1, <2>2
<1>4. \A k \in 1..Len(w) : k < pos => k \in 1..Len(v) /\ w[k] = v[k]
  BY <1>1, <1>2
<1>5. Sorted(w)
  <2> SUFFICES ASSUME NEW k \in 1..Len(w), NEW l \in 1..Len(w), k < l
               PROVE  w[k].id < w[l].id
    BY DEF Sorted
  <2>0. k \in Nat /\ l \in Nat /\ pos \in Nat
    BY <1>1, <1>2
  <2>1. CASE l < pos
    <3>1. k < pos
      BY <2>0, <2>1
    <3> QED BY <2>1, <3>1, <1>1, <1>4 DEF Sorted
  <2>2. CASE k < pos /\ l = pos
    BY <2>0, <2>2, <1>2, <1>4
  <2>3. CASE k < pos /\ l > pos
    <3>1. k < l - 1
      BY <2>0, <2>3
    <3> QED BY <3>1, <2>3, <1>1, <1>3, <1>4 DEF Sorted
  <2>4. CASE k = pos
    <3>1. l > pos
      BY <2>4
    <3> QED BY <2>4, <3>1, <1>2, <1>3
  <2>5. CASE k > pos
    <3>1. k - 1 < l - 1 /\ l > pos
      BY <2>0, <2>5
    <3> QED BY <3>1, <2>5, <1>1, <1>3 DEF Sorted
  <2> QED BY <2>0, <2>1, <2>2, <2>3, <2>4, <2>5
<1>6. w \in Vecs
  BY <1>2, <1>5 DEF Vecs, Slices, C
<1>7. Counter(w, c.id) = c.value
  <2>1. pos \in 1..Len(w)
    BY <1>1, <1>2
  <2> QED BY <1>2, <1>6, <2>1, PlaceFacts
<1>8. Counter(v, c.id) = 0
  <2>1. \A k \in 1..Len(v) : v[k].id # c.id
    BY <1>1
  <2>2. ~Has(v, c.id)
    BY <2>1 DEF Has
  <2> QED BY <2>2, CounterFacts
<1>9. ASSUME NEW i \in Ids \ {c.id} PROVE Counter(w, i) = Counter(v, i)
  <2>1. ASSUME NEW k \in 1..Len(w), w[k].id = i PROVE \E l \in 1..Len(v) : v[l] = w[k]
    <3>1. k # pos
      BY <2>1, <1>2
    <3>2. k < pos \/ k > pos
      BY <3>1, <1>1, <1>2
    <3> QED BY <3>2, <1>3, <1>4
  <2>2. ASSUME NEW l \in 1..Len(v) PROVE \E k \in 1..Len(w) : w[k] = v[l]
    <3>1. CASE l < pos
      <4>1. l \in 1..Len(w)
        BY <1>1, <1>2
      <4>2. w[l] = v[l]
        BY <3>1, <1>2
      <4> QED BY <4>1, <4>2
    <3>2. CASE l >= pos
      <4>1. l + 1 \in 1..Len(w)
        BY <1>1, <1>2
      <4>2. w[l + 1] = v[l]
        BY <3>2, <1>2
      <4> QED BY <4>1, <4>2
    <3> QED BY <3>1, <3>2, <1>1
  <2> QED BY <1>6, <2>1, <2>2, SameCounter
<1> QED BY <1>6, <1>7, <1>8, <1>9 DEF w

\* A counter is replaced by another one of the same ID.
LEMMA ReplaceSorted ==
  ASSUME NEW v \in Vecs, NEW c \in [id : Ids, value : Nat], NEW pos \in 1..Len(v),
         v[pos].id = c.id
  PROVE  /\ [v EXCEPT ![pos] = c] \in Vecs
         /\ Counter([v EXCEPT ![pos] = c], c.id) = c.value
         /\ Counter(v, c.id) = v[pos].value
         /\ \A i \in Ids \ {c.id} : Counter([v EXCEPT ![pos] = c], i) = Counter(v, i)
<1> DEFINE w == [v EXCEPT ![pos] = c]
           C == [id : Ids, value : Nat]
<1>1. v \in Slices /\ v \in Seq(C) /\ Sorted(v) /\ Len(v) \in Nat
  BY SliceFacts DEF Vecs, Slices
<1>2. /\ w \in Seq(C) /\ Len(w) = Len(v)
      /\ \A k \in 1..Len(v) : w[k] = IF k = pos THEN c ELSE v[k]
  BY <1>1, ExceptSeq
<1> HIDE DEF w
<1>3. w[pos] = c /\ \A k \in 1..Len(v) : w[k].id = v[k].id
  BY <1>2
<1>4. Sorted(w)
  BY <1>1, <1>2, <1>3 DEF Sorted
<1>5. w \in Vecs
  BY <1>2, <1>4 DEF Vecs, Slices
<1>6. Counter(w, c.id) = c.value
  <2>1. pos \in 1..Len(w)
    BY <1>2
  <2>2. Counter(w, w[pos].id) = w[pos].value
    BY <1>5, <2>1, PlaceFacts
  <2> QED BY <2>2, <1>3
<1>7. Counter(v, c.id) = v[pos].value
  BY PlaceFacts
<1>8. ASSUME NEW i \in Ids \ {c.id} PROVE Counter(w, i) = Counter(v, i)
  <2>1. \A k \in 1..Len(w) : w[k].id = i => w[k] = v[k]
    BY <1>2
  <2>2. \A k \in 1..Len(v) : v[k].id = i => w[k] = v[k]
    BY <1>2
  <2> QED BY <1>2, <1>5, <2>1, <2>2, SameCounter
<1> QED BY <1>5, <1>6, <1>7, <1>8 DEF w

\* updateWithNow raises one counter and keeps the order.
LEMMA UpdatedFacts ==
  ASSUME NEW v \in Vecs, NEW id \in Ids, NEW now \in Nat
  PROVE  /\ Updated(v, id, now) \in Vecs
         /\ Counter(Updated(v, id, now), id) = MaxOf(Counter(v, id) + 1, now)
         /\ \A i \in Ids \ {id} : Counter(Updated(v, id, now), i) = Counter(v, i)
<1> DEFINE at  == {i \in 1..Len(v) : v[i].id >= id}
           pos == IF at = {} THEN Len(v) + 1 ELSE CHOOSE i \in at : \A j \in at : i <= j
           c   == [id |-> id, value |-> MaxOf(1, now)]
           r   == [id |-> id, value |-> MaxOf(v[pos].value + 1, now)]
           w   == Updated(v, id, now)
           C   == [id : Ids, value : Nat]
<1>1. /\ v \in Slices /\ v \in Seq(C) /\ Sorted(v) /\ Len(v) \in Nat /\ id \in Nat
      /\ \A k \in 1..Len(v) : v[k] \in C /\ v[k].id \in Nat /\ v[k].value \in Nat
  BY SliceFacts DEF Vecs, Slices
<1>2. /\ pos \in 1..(Len(v) + 1)
      /\ \A k \in 1..Len(v) : k < pos => v[k].id < id
      /\ pos <= Len(v) => v[pos].id >= id
  <2>1. CASE at = {}
    BY <1>1, <2>1
  <2>2. CASE at # {}
    <3>1. at \subseteq Nat
      OBVIOUS
    <3>2. \E i \in at : \A j \in at : i <= j
      BY <2>2, <3>1, LeastElement
    <3>3. pos \in at /\ \A j \in at : pos <= j
      BY <2>2, <3>2
    <3> HIDE DEF pos
    <3>4. pos \in 1..Len(v) /\ v[pos].id >= id
      BY <3>3
    <3>5. ASSUME NEW k \in 1..Len(v), k < pos PROVE v[k].id < id
      <4>1. k \notin at
        BY <3>3, <3>4, <3>5, <1>1
      <4> QED BY <4>1, <1>1
    <3> QED BY <1>1, <3>4, <3>5
  <2> QED BY <2>1, <2>2
<1>3. CASE pos <= Len(v) /\ v[pos].id = id
  <2>1. w = [v EXCEPT ![pos].value = MaxOf(v[pos].value + 1, now)]
    BY <1>3 DEF Updated
  <2> HIDE DEF pos, w
  <2>2. pos \in 1..Len(v)
    BY <1>1, <1>2, <1>3
  <2>3. v[pos] \in C
    BY <1>1, <2>2
  <2>4. [v[pos] EXCEPT !.value = MaxOf(v[pos].value + 1, now)] = r
    BY <1>3, <2>3
  <2>5. w = [v EXCEPT ![pos] = r]
    BY <2>1, <2>4
  <2>6. r \in C /\ r.id = id /\ r.value = MaxOf(v[pos].value + 1, now)
    BY <1>1, <2>2 DEF MaxOf
  <2> HIDE DEF r
  <2>7. r \in [id : Ids, value : Nat] /\ v[pos].id = r.id
    BY <1>3, <2>6
  <2>8. LET u == [v EXCEPT ![pos] = r] IN
        /\ u \in Vecs /\ Counter(u, r.id) = r.value /\ Counter(v, r.id) = v[pos].value
        /\ \A i \in Ids \ {r.id} : Counter(u, i) = Counter(v, i)
    BY <2>2, <2>7, ReplaceSorted
  <2>9. /\ w \in Vecs /\ Counter(w, id) = r.value /\ Counter(v, id) = v[pos].value
        /\ \A i \in Ids \ {id} : Counter(w, i) = Counter(v, i)
    BY <2>5, <2>6, <2>8
  <2> QED BY <2>6, <2>9 DEF w
<1>4. CASE ~(pos <= Len(v) /\ v[pos].id = id)
  <2>1. w = Inserted(v, pos, c)
    BY <1>4 DEF Updated
  <2> HIDE DEF pos, w
  <2>2. c \in C /\ c.id = id /\ c.value = MaxOf(1, now)
    BY <1>1 DEF MaxOf
  <2>3. ASSUME NEW k \in 1..Len(v), pos <= k PROVE id < v[k].id
    <3>1. pos \in 1..Len(v) /\ v[pos].id > id
      BY <1>1, <1>2, <1>4, <2>3
    <3>2. k = pos \/ v[pos].id < v[k].id
      BY <1>1, <2>3, <3>1 DEF Sorted
    <3> QED BY <1>1, <3>1, <3>2
  <2> HIDE DEF c
  <2>4. /\ w \in Vecs /\ Counter(w, id) = MaxOf(1, now) /\ Counter(v, id) = 0
        /\ \A i \in Ids \ {id} : Counter(w, i) = Counter(v, i)
    BY <1>2, <2>1, <2>2, <2>3, InsertSorted
  <2>5. MaxOf(Counter(v, id) + 1, now) = MaxOf(1, now)
    BY <2>4
  <2> QED BY <2>4, <2>5 DEF w
<1> QED BY <1>3, <1>4

\* DropOthers leaves one counter.
LEMMA DropFacts ==
  ASSUME NEW v \in Vecs, NEW id \in Ids
  PROVE  /\ DropOthers(v, id) \in Vecs
         /\ Counter(DropOthers(v, id), id) = Counter(v, id)
         /\ \A i \in Ids \ {id} : Counter(DropOthers(v, id), i) = 0
<1> DEFINE w == DropOthers(v, id)
           C == [id : Ids, value : Nat]
<1>1. CASE ~Has(v, id)
  <2>1. w = <<>>
    BY <1>1 DEF DropOthers
  <2>2. w \in Seq(C) /\ Len(w) = 0
    BY <2>1
  <2>3. w \in Vecs
    BY <2>2 DEF Vecs, Slices, Sorted
  <2>4. \A i : ~Has(w, i)
    BY <2>2 DEF Has
  <2> QED BY <1>1, <2>3, <2>4, CounterFacts
<1>2. CASE Has(v, id)
  <2>1. PICK k \in 1..Len(v) : v[k].id = id
    BY <1>2 DEF Has
  <2>2. w = <<v[k]>> /\ Counter(v, id) = v[k].value
    BY <1>2, <2>1, PlaceFacts DEF DropOthers
  <2>3. v[k] \in C
    BY SliceFacts DEF Vecs
  <2> HIDE DEF w
  <2>4. w \in Seq(C) /\ Len(w) = 1 /\ w[1] = v[k]
    BY <2>2, <2>3
  <2>5. w \in Vecs
    <3>1. Sorted(w)
      BY <2>4 DEF Sorted
    <3> QED BY <2>4, <3>1 DEF Vecs, Slices
  <2>6. Counter(w, id) = v[k].value
    BY <2>1, <2>4, <2>5, PlaceFacts
  <2>7. \A i \in Ids \ {id} : ~Has(w, i)
    BY <2>1, <2>4 DEF Has
  <2> QED BY <2>2, <2>5, <2>6, <2>7, CounterFacts DEF w
<1> QED BY <1>1, <1>2

----------------------------------------------------------------------------
(***************************************************************************)
(* The loop of Merge.                                                      *)
(***************************************************************************)

\* Counters with greater IDs are appended.
LEMMA ConcatSorted ==
  ASSUME NEW v \in Vecs, NEW b \in Vecs, NEW m \in 1..Len(b),
         \A k \in 1..Len(v), j \in 1..Len(b) : m <= j => v[k].id < b[j].id
  PROVE  LET w == v \o SubSeq(b, m, Len(b)) IN
         /\ w \in Vecs
         /\ Len(w) = Len(v) + (Len(b) - m + 1)
         /\ \A k \in 1..Len(v) : Counter(v, v[k].id) = Counter(w, v[k].id)
         /\ \A j \in 1..Len(b) : m <= j => Counter(w, b[j].id) = b[j].value
         /\ \A i : /\ ~Has(v, i) /\ ~(\E j \in 1..Len(b) : m <= j /\ b[j].id = i)
                   => Counter(w, i) = 0
<1> DEFINE C == [id : Ids, value : Nat]
           z == SubSeq(b, m, Len(b))
           w == v \o z
<1>1. /\ v \in Seq(C) /\ Sorted(v) /\ Len(v) \in Nat
      /\ \A k \in 1..Len(v) : v[k] \in C /\ v[k].id \in Nat
      /\ b \in Seq(C) /\ Sorted(b) /\ Len(b) \in Nat
      /\ \A k \in 1..Len(b) : b[k] \in C /\ b[k].id \in Nat
  BY SliceFacts DEF Vecs, Slices
<1> HIDE DEF C
<1>2. /\ z \in Seq(C) /\ Len(z) = Len(b) - m + 1
      /\ \A k \in 1..(Len(b) - m + 1) : z[k] = b[m + k - 1]
  BY <1>1, SubSeqProperties
<1> HIDE DEF z
<1>3. /\ w \in Seq(C) /\ Len(w) = Len(v) + Len(z)
      /\ \A k \in 1..(Len(v) + Len(z)) : w[k] = IF k <= Len(v) THEN v[k] ELSE z[k - Len(v)]
  BY <1>1, <1>2, ConcatProperties
<1> HIDE DEF w
<1>4. Len(w) = Len(v) + (Len(b) - m + 1)
  BY <1>2, <1>3
<1>5. ASSUME NEW k \in 1..Len(v) PROVE k \in 1..Len(w) /\ w[k] = v[k]
  <2>1. k \in 1..(Len(v) + Len(z)) /\ k <= Len(v) /\ k \in 1..Len(w)
    BY <1>1, <1>2, <1>3
  <2> QED BY <1>3, <2>1
<1>6. ASSUME NEW k \in 1..Len(w), k > Len(v)
      PROVE  k - Len(v) + m - 1 \in 1..Len(b) /\ m <= k - Len(v) + m - 1
             /\ w[k] = b[k - Len(v) + m - 1]
  <2>1. k - Len(v) \in 1..(Len(b) - m + 1) /\ k - Len(v) + m - 1 = m + (k - Len(v)) - 1
    BY <1>1, <1>4, <1>6
  <2>2. w[k] = z[k - Len(v)]
    BY <1>1, <1>2, <1>3, <1>6
  <2> QED BY <1>1, <1>2, <2>1, <2>2
<1>7. ASSUME NEW j \in 1..Len(b), m <= j
      PROVE  Len(v) + j - m + 1 \in 1..Len(w) /\ w[Len(v) + j - m + 1] = b[j]
  <2>1. /\ Len(v) + j - m + 1 \in 1..Len(w) /\ Len(v) + j - m + 1 > Len(v)
        /\ (Len(v) + j - m + 1) - Len(v) + m - 1 = j
    BY <1>1, <1>4, <1>7
  <2> QED BY <1>6, <2>1
<1>8. Sorted(w)
  <2> SUFFICES ASSUME NEW k \in 1..Len(w), NEW l \in 1..Len(w), k < l
               PROVE  w[k].id < w[l].id
    BY DEF Sorted
  <2>0. k \in Nat /\ l \in Nat
    BY <1>1, <1>4
  <2>1. CASE l <= Len(v)
    <3>1. k \in 1..Len(v) /\ l \in 1..Len(v)
      BY <1>1, <2>0, <2>1
    <3> QED BY <1>1, <1>5, <3>1 DEF Sorted
  <2>2. CASE k <= Len(v) /\ l > Len(v)
    <3>1. k \in 1..Len(v)
      BY <1>1, <2>0, <2>2
    <3> QED BY <1>1, <1>5, <1>6, <2>2, <3>1
  <2>3. CASE k > Len(v)
    <3>1. k - Len(v) + m - 1 < l - Len(v) + m - 1 /\ l > Len(v)
      BY <1>1, <2>0, <2>3
    <3>2. /\ w[k] = b[k - Len(v) + m - 1] /\ k - Len(v) + m - 1 \in 1..Len(b)
          /\ w[l] = b[l - Len(v) + m - 1] /\ l - Len(v) + m - 1 \in 1..Len(b)
      BY <1>6, <2>3, <3>1
    <3> QED BY <1>1, <3>1, <3>2 DEF Sorted
  <2> QED BY <1>1, <2>0, <2>1, <2>2, <2>3
<1>9. w \in Vecs
  BY <1>3, <1>8 DEF Vecs, Slices, C
<1>10. \A k \in 1..Len(v) : Counter(v, v[k].id) = Counter(w, v[k].id)
  <2> TAKE k \in 1..Len(v)
  <2>1. Counter(v, v[k].id) = v[k].value
    BY PlaceFacts
  <2>2. Counter(w, w[k].id) = w[k].value
    BY <1>5, <1>9, PlaceFacts
  <2> QED BY <1>5, <2>1, <2>2
<1>11. ASSUME NEW j \in 1..Len(b), m <= j PROVE Counter(w, b[j].id) = b[j].value
  <2> DEFINE k == Len(v) + j - m + 1
  <2>1. k \in 1..Len(w) /\ w[k] = b[j]
    BY <1>7, <1>11
  <2> HIDE DEF k
  <2> QED BY <1>9, <2>1, PlaceFacts
<1>12. ASSUME NEW i, ~Has(v, i), ~(\E j \in 1..Len(b) : m <= j /\ b[j].id = i)
       PROVE  Counter(w, i) = 0
  <2>1. ~Has(w, i)
    <3> SUFFICES ASSUME NEW k \in 1..Len(w), w[k].id = i PROVE FALSE
      BY DEF Has
    <3>1. CASE k <= Len(v)
      <4>1. k \in 1..Len(v)
        BY <1>1, <1>4, <3>1
      <4> QED BY <1>5, <1>12, <4>1 DEF Has
    <3>2. CASE k > Len(v)
      BY <1>6, <1>12, <3>2
    <3> QED BY <1>1, <1>4, <3>1, <3>2
  <2> QED BY <1>9, <2>1, CounterFacts
<1> QED BY <1>4, <1>9, <1>10, <1>11, <1>12 DEF w, z

\* The value of a counter among the first n - 1 counters of b.
Prefix(b, n, i) == IF \E j \in 1..Len(b) : j < n /\ b[j].id = i THEN Counter(b, i) ELSE 0

\* One counter more in the prefix changes the value of its ID only.
LEMMA PrefixFacts ==
  ASSUME NEW b \in Vecs, NEW n \in 1..Len(b)
  PROVE  /\ \A i : Prefix(b, n, i) \in Nat
         /\ Prefix(b, n, b[n].id) = 0
         /\ Prefix(b, n + 1, b[n].id) = b[n].value
         /\ \A i : i # b[n].id => Prefix(b, n + 1, i) = Prefix(b, n, i)
<1>1. Sorted(b) /\ Len(b) \in Nat /\ \A k \in 1..Len(b) : b[k].id \in Nat
  BY SliceFacts DEF Vecs
<1>2. \A i : Prefix(b, n, i) \in Nat
  BY CounterFacts DEF Prefix
<1>3. Prefix(b, n, b[n].id) = 0
  <2>1. ~\E j \in 1..Len(b) : j < n /\ b[j].id = b[n].id
    BY <1>1 DEF Sorted
  <2> QED BY <2>1 DEF Prefix
<1>4. Prefix(b, n + 1, b[n].id) = b[n].value
  <2>1. n < n + 1 /\ Counter(b, b[n].id) = b[n].value
    BY <1>1, PlaceFacts
  <2> QED BY <2>1 DEF Prefix
<1>5. ASSUME NEW i, i # b[n].id PROVE Prefix(b, n + 1, i) = Prefix(b, n, i)
  <2>1. \A j \in 1..Len(b) : j < n + 1 /\ b[j].id = i <=> j < n /\ b[j].id = i
    BY <1>1, <1>5
  <2> QED BY <2>1 DEF Prefix
<1> QED BY <1>2, <1>3, <1>4, <1>5

\* What is true at the top of the loop: what lies behind is below what b still
\* has, and w is v merged with the counters of b that lie behind.
MergeInv(v, b, s) ==
  /\ s \in MergeStates /\ s.v \in Vecs
  /\ s.vi <= Len(s.v) + 1 /\ s.bi <= Len(b) + 1
  /\ \A k \in 1..Len(s.v), j \in 1..Len(b) : k < s.vi /\ s.bi <= j => s.v[k].id < b[j].id
  /\ \A i \in Ids : Counter(s.v, i) = MaxOf(Counter(v, i), Prefix(b, s.bi, i))

MergeRest(b, s) == (Len(s.v) + 1 - s.vi) + (Len(b) + 1 - s.bi)

\* A turn of the loop of Merge keeps its invariant and leaves less to do.
LEMMA MergeStepOK ==
  ASSUME NEW v \in Vecs, NEW b \in Vecs, NEW s, MergeInv(v, b, s), s.bi <= Len(b)
  PROVE  LET t == MergeStep(b)[s] IN
         /\ MergeInv(v, b, t)
         /\ t.bi > Len(b) \/ MergeRest(b, t) <= MergeRest(b, s) - 1
<1> DEFINE t == MergeStep(b)[s]
           c == b[s.bi]
           C == [id : Ids, value : Nat]
<1>1. /\ s \in MergeStates /\ s.v \in Vecs /\ s.vi \in Nat \ {0} /\ s.bi \in 1..Len(b)
      /\ s.vi <= Len(s.v) + 1 /\ Len(s.v) \in Nat /\ Len(b) \in Nat
      /\ Sorted(s.v) /\ Sorted(b) /\ c \in C /\ c.id \in Ids /\ c.id \in Nat /\ c.value \in Nat
      /\ \A k \in 1..Len(s.v) : s.v[k].id \in Nat /\ s.v[k].value \in Nat
      /\ \A k \in 1..Len(b) : b[k].id \in Nat /\ b[k].value \in Nat
  BY SliceFacts DEF MergeInv, MergeStates, Vecs
<1>2. \A k \in 1..Len(s.v), j \in 1..Len(b) : k < s.vi /\ s.bi <= j => s.v[k].id < b[j].id
  BY DEF MergeInv
<1>3. /\ \A i \in Ids : Counter(s.v, i) = MaxOf(Counter(v, i), Prefix(b, s.bi, i))
      /\ \A i \in Ids : Counter(v, i) \in Nat /\ Prefix(b, s.bi, i) \in Nat
  BY <1>1, CounterFacts, PrefixFacts DEF MergeInv
<1>4. /\ Prefix(b, s.bi, c.id) = 0 /\ Prefix(b, s.bi + 1, c.id) = c.value
      /\ \A i : i # c.id => Prefix(b, s.bi + 1, i) = Prefix(b, s.bi, i)
  BY <1>1, PrefixFacts
<1>5. \A w, n, m : [v |-> w, vi |-> n, bi |-> m] \in MergeStates
                     <=> w \in Slices /\ n \in Nat \ {0} /\ m \in Nat \ {0}
  BY DEF MergeStates
<1>6. CASE s.vi > Len(s.v)
  <2> DEFINE w == s.v \o SubSeq(b, s.bi, Len(b))
  <2>1. t = [s EXCEPT !.v = w, !.bi = Len(b) + 1]
    BY <1>1, <1>6 DEF MergeStep
  <2>2. t = [v |-> w, vi |-> s.vi, bi |-> Len(b) + 1]
    BY <1>1, <2>1 DEF MergeStates
  <2>3. \A k \in 1..Len(s.v), j \in 1..Len(b) : s.bi <= j => s.v[k].id < b[j].id
    BY <1>1, <1>2, <1>6
  <2>4. /\ w \in Vecs /\ Len(w) = Len(s.v) + (Len(b) - s.bi + 1)
        /\ \A k \in 1..Len(s.v) : Counter(s.v, s.v[k].id) = Counter(w, s.v[k].id)
        /\ \A j \in 1..Len(b) : s.bi <= j => Counter(w, b[j].id) = b[j].value
        /\ \A i : /\ ~Has(s.v, i) /\ ~(\E j \in 1..Len(b) : s.bi <= j /\ b[j].id = i)
                  => Counter(w, i) = 0
    BY <1>1, <2>3, ConcatSorted
  <2> HIDE DEF w, t
  <2>5. ASSUME NEW i \in Ids
        PROVE  Counter(w, i) = MaxOf(Counter(v, i), Prefix(b, Len(b) + 1, i))
    <3>1. CASE \E j \in 1..Len(b) : s.bi <= j /\ b[j].id = i
      <4>1. PICK j \in 1..Len(b) : s.bi <= j /\ b[j].id = i
        BY <3>1
      <4>2. Counter(w, i) = b[j].value /\ Counter(b, i) = b[j].value
        BY <2>4, <4>1, PlaceFacts
      <4>3. ~Has(s.v, i)
        BY <1>1, <2>3, <4>1 DEF Has
      <4>4. Counter(s.v, i) = 0
        BY <1>1, <4>3, CounterFacts
      <4>5. Counter(v, i) = 0
        BY <1>3, <4>4 DEF MaxOf
      <4>6. j < Len(b) + 1
        BY <1>1
      <4>7. Prefix(b, Len(b) + 1, i) = b[j].value
        BY <4>1, <4>2, <4>6 DEF Prefix
      <4> QED BY <1>1, <4>2, <4>5, <4>7 DEF MaxOf
    <3>2. CASE ~\E j \in 1..Len(b) : s.bi <= j /\ b[j].id = i
      <4>1. \A j \in 1..Len(b) : j < Len(b) + 1 /\ b[j].id = i <=> j < s.bi /\ b[j].id = i
        BY <1>1, <3>2
      <4>2. Prefix(b, Len(b) + 1, i) = Prefix(b, s.bi, i)
        BY <4>1 DEF Prefix
      <4>3. Counter(w, i) = Counter(s.v, i)
        <5>1. CASE Has(s.v, i)
          BY <2>4, <5>1 DEF Has
        <5>2. CASE ~Has(s.v, i)
          BY <1>1, <2>4, <3>2, <5>2, CounterFacts
        <5> QED BY <5>1, <5>2
      <4> QED BY <1>3, <4>2, <4>3
    <3> QED BY <3>1, <3>2
  <2>6. t \in MergeStates /\ t.v = w /\ t.vi = s.vi /\ t.bi = Len(b) + 1
    <3>1. w \in Slices /\ Len(b) + 1 \in Nat \ {0}
      BY <1>1, <2>4 DEF Vecs
    <3> QED BY <1>1, <1>5, <2>2, <3>1
  <2>7. t.vi <= Len(t.v) + 1 /\ t.bi <= Len(b) + 1 /\ t.bi > Len(b)
    <3>1. s.vi <= Len(w) + 1
      <4> DEFINE lv == Len(s.v)
                 d == Len(b) - s.bi + 1
                 x == s.vi
      <4>1. d \in Nat /\ x \in Nat /\ lv \in Nat /\ x <= lv + 1 /\ Len(w) = lv + d
        BY <1>1, <2>4
      <4> HIDE DEF lv, d, x
      <4>2. x <= Len(w) + 1
        BY <4>1
      <4> QED BY <4>2 DEF x
    <3> QED BY <1>1, <2>6, <3>1
  <2>8. MergeInv(v, b, t)
    <3>1. \A k \in 1..Len(t.v), j \in 1..Len(b) : k < t.vi /\ t.bi <= j => t.v[k].id < b[j].id
      BY <1>1, <2>6
    <3> QED BY <2>4, <2>5, <2>6, <2>7, <3>1 DEF MergeInv
  <2> QED BY <2>7, <2>8 DEF t
<1>7. CASE s.vi <= Len(s.v)
  <2> DEFINE inserted == IF s.v[s.vi].id > c.id THEN Inserted(s.v, s.vi, c) ELSE s.v
             same == inserted[s.vi].id = c.id
             w == IF same /\ c.value > inserted[s.vi].value
                  THEN [inserted EXCEPT ![s.vi] = c] ELSE inserted
             m == IF same THEN s.bi + 1 ELSE s.bi
  <2>1. t = [v |-> w, vi |-> s.vi + 1, bi |-> m]
    BY <1>1, <1>7 DEF MergeStep
  <2>2. s.vi \in 1..Len(s.v) /\ s.vi \in 1..(Len(s.v) + 1)
    BY <1>1, <1>7
  <2> HIDE DEF t
  \* The rest follows from what the three cases have in common.
  <2>3. ASSUME w \in Vecs, m \in {s.bi, s.bi + 1}, s.vi + 1 <= Len(w) + 1,
               Len(w) <= Len(s.v) + (m - s.bi),
               \A k \in 1..Len(w), j \in 1..Len(b) : k <= s.vi /\ m <= j => w[k].id < b[j].id,
               \A i \in Ids : Counter(w, i) = MaxOf(Counter(v, i), Prefix(b, m, i))
        PROVE  MergeInv(v, b, t) /\ MergeRest(b, t) <= MergeRest(b, s) - 1
    <3> HIDE DEF w, m
    <3>1. t.v = w /\ t.vi = s.vi + 1 /\ t.bi = m
      BY <2>1
    <3>2. m \in Nat \ {0} /\ m <= Len(b) + 1 /\ s.vi + 1 \in Nat \ {0} /\ Len(w) \in Nat
      <4>1. Len(w) \in Nat
        BY <2>3, SliceFacts DEF Vecs
      <4>2. m \in Nat \ {0} /\ m <= Len(b) + 1
        <5> DEFINE y == s.bi
                   lb == Len(b)
        <5>1. y \in 1..lb /\ lb \in Nat /\ (m = y \/ m = y + 1)
          BY <1>1, <2>3
        <5> HIDE DEF y, lb
        <5>2. m \in Nat \ {0} /\ m <= lb + 1
          BY <5>1
        <5> QED BY <5>2 DEF lb
      <4> QED BY <1>1, <4>1, <4>2
    <3>3. t \in MergeStates
      BY <1>5, <2>1, <2>3, <3>2 DEF Vecs
    <3>4. \A k \in 1..Len(t.v), j \in 1..Len(b) : k < t.vi /\ t.bi <= j => t.v[k].id < b[j].id
      <4> SUFFICES ASSUME NEW k \in 1..Len(w), NEW j \in 1..Len(b), k < s.vi + 1, m <= j
                   PROVE  w[k].id < b[j].id
        BY <3>1
      <4>1. k <= s.vi
        BY <1>1, <3>2
      <4> QED BY <2>3, <4>1
    <3>5. MergeInv(v, b, t)
      BY <2>3, <3>1, <3>2, <3>3, <3>4 DEF MergeInv
    <3>6. MergeRest(b, t) <= MergeRest(b, s) - 1
      <4> DEFINE lw == Len(w)
                 lv == Len(s.v)
                 lb == Len(b)
                 x == s.vi
                 y == s.bi
      <4>1. /\ lw \in Nat /\ lv \in Nat /\ lb \in Nat /\ x \in Nat /\ y \in Nat
            /\ m \in Nat /\ lw <= lv + (m - y)
        BY <1>1, <2>3, <3>2
      <4>2. MergeRest(b, t) = (lw + 1 - (x + 1)) + (lb + 1 - m)
        BY <3>1 DEF MergeRest
      <4>3. MergeRest(b, s) = (lv + 1 - x) + (lb + 1 - y)
        BY DEF MergeRest
      <4> HIDE DEF lw, lv, lb, x, y
      <4> QED BY <4>1, <4>2, <4>3
    <3> QED BY <3>5, <3>6
  <2>4. CASE s.v[s.vi].id > c.id
    <3>1. inserted = Inserted(s.v, s.vi, c)
      BY <2>4
    <3>2. \A k \in 1..Len(s.v) : k < s.vi => s.v[k].id < c.id
      <4>1. s.bi \in 1..Len(b) /\ s.bi <= s.bi
        BY <1>1
      <4> QED BY <1>2, <4>1
    <3>3. ASSUME NEW k \in 1..Len(s.v), s.vi <= k PROVE c.id < s.v[k].id
      <4>1. k = s.vi \/ s.v[s.vi].id < s.v[k].id
        BY <1>1, <2>2, <3>3 DEF Sorted
      <4> QED BY <1>1, <2>2, <2>4, <4>1
    <3> DEFINE u == Inserted(s.v, s.vi, c)
    <3>4. /\ u \in Vecs /\ Counter(u, c.id) = c.value /\ Counter(s.v, c.id) = 0
          /\ \A i \in Ids \ {c.id} : Counter(u, i) = Counter(s.v, i)
      BY <1>1, <2>2, <3>2, <3>3, InsertSorted
    <3>5. /\ u[s.vi] = c /\ Len(u) = Len(s.v) + 1
          /\ \A k \in 1..Len(s.v) : k < s.vi => u[k] = s.v[k]
      <4>1. s.v \in Seq(C) /\ c \in C
        BY <1>1 DEF Vecs, Slices
      <4> HIDE DEF C, c
      <4>2. /\ Inserted(s.v, s.vi, c)[s.vi] = c /\ Len(Inserted(s.v, s.vi, c)) = Len(s.v) + 1
            /\ \A k \in 1..Len(s.v) : k < s.vi => Inserted(s.v, s.vi, c)[k] = s.v[k]
        BY <2>2, <4>1, InsertedFacts
      <4> QED BY <4>2
    <3>6. inserted = u
      BY <3>1
    <3> HIDE DEF u, inserted
    <3>7. w = u /\ m = s.bi + 1
      BY <1>1, <3>5, <3>6
    <3> HIDE DEF w, m
    <3>8. ASSUME NEW k \in 1..Len(u), NEW j \in 1..Len(b), k <= s.vi, s.bi + 1 <= j
          PROVE  u[k].id < b[j].id
      <4>1. CASE k = s.vi
        BY <1>1, <3>5, <3>8, <4>1 DEF Sorted
      <4>2. CASE k # s.vi
        <5>1. k < s.vi /\ k \in 1..Len(s.v) /\ s.bi <= j
          BY <1>1, <2>2, <3>5, <3>8, <4>2
        <5> QED BY <1>2, <3>5, <5>1
      <4> QED BY <4>1, <4>2
    <3>9. ASSUME NEW i \in Ids
          PROVE  Counter(u, i) = MaxOf(Counter(v, i), Prefix(b, s.bi + 1, i))
      <4>1. CASE i = c.id
        <5>1. Counter(v, i) = 0
          BY <1>3, <3>4, <4>1 DEF MaxOf
        <5> QED BY <1>1, <1>4, <3>4, <4>1, <5>1 DEF MaxOf
      <4>2. CASE i # c.id
        BY <1>3, <1>4, <3>4, <4>2
      <4> QED BY <4>1, <4>2
    <3>10. s.vi + 1 <= Len(u) + 1 /\ Len(u) <= Len(s.v) + (m - s.bi)
      BY <1>1, <2>2, <3>5, <3>7
    <3>11. MergeInv(v, b, t) /\ MergeRest(b, t) <= MergeRest(b, s) - 1
      BY <2>3, <3>4, <3>7, <3>8, <3>9, <3>10
    <3> QED BY <3>11 DEF t
  <2>5. CASE s.v[s.vi].id = c.id
    <3>1. inserted = s.v /\ same /\ m = s.bi + 1
      BY <1>1, <2>5
    <3>2. w = IF c.value > s.v[s.vi].value THEN [s.v EXCEPT ![s.vi] = c] ELSE s.v
      BY <3>1
    <3> HIDE DEF w, m, inserted
    <3>3. /\ w \in Vecs /\ Counter(w, c.id) = MaxOf(s.v[s.vi].value, c.value)
          /\ Counter(s.v, c.id) = s.v[s.vi].value
          /\ \A i \in Ids \ {c.id} : Counter(w, i) = Counter(s.v, i)
          /\ Len(w) = Len(s.v) /\ \A k \in 1..Len(w) : w[k].id = s.v[k].id
      <4>1. CASE c.value > s.v[s.vi].value
        <5> DEFINE u == [s.v EXCEPT ![s.vi] = c]
        <5>1. /\ u \in Vecs /\ Counter(u, c.id) = c.value
              /\ Counter(s.v, c.id) = s.v[s.vi].value
              /\ \A i \in Ids \ {c.id} : Counter(u, i) = Counter(s.v, i)
          BY <1>1, <2>2, <2>5, ReplaceSorted
        <5>2. Len(u) = Len(s.v) /\ \A k \in 1..Len(u) : u[k].id = s.v[k].id
          <6>1. s.v \in Seq(C)
            BY <1>1 DEF Vecs, Slices
          <6> QED BY <1>1, <2>2, <2>5, <6>1, ExceptSeq
        <5>3. w = u
          BY <3>2, <4>1
        <5> HIDE DEF u
        <5>4. MaxOf(s.v[s.vi].value, c.value) = c.value
          BY <1>1, <2>2, <4>1 DEF MaxOf
        <5> QED BY <5>1, <5>2, <5>3, <5>4
      <4>2. CASE ~(c.value > s.v[s.vi].value)
        <5>1. w = s.v
          BY <3>2, <4>2
        <5>2. Counter(s.v, c.id) = s.v[s.vi].value
          BY <1>1, <2>2, <2>5, PlaceFacts
        <5>3. MaxOf(s.v[s.vi].value, c.value) = s.v[s.vi].value
          BY <1>1, <2>2, <4>2 DEF MaxOf
        <5> QED BY <1>1, <5>1, <5>2, <5>3
      <4> QED BY <4>1, <4>2
    <3>4. ASSUME NEW k \in 1..Len(w), NEW j \in 1..Len(b), k <= s.vi, m <= j
          PROVE  w[k].id < b[j].id
      <4>1. w[k].id = s.v[k].id /\ k \in 1..Len(s.v) /\ s.bi < j
        BY <1>1, <3>1, <3>3, <3>4
      <4>2. CASE k = s.vi
        <5>1. b[s.bi].id < b[j].id
          BY <1>1, <4>1 DEF Sorted
        <5> QED BY <2>5, <4>1, <4>2, <5>1
      <4>3. CASE k # s.vi
        <5>1. k < s.vi /\ s.bi <= j
          BY <1>1, <3>4, <4>1, <4>3
        <5> QED BY <1>2, <4>1, <5>1
      <4> QED BY <4>2, <4>3
    <3>5. ASSUME NEW i \in Ids
          PROVE  Counter(w, i) = MaxOf(Counter(v, i), Prefix(b, m, i))
      <4>1. CASE i = c.id
        <5>1. s.v[s.vi].value = Counter(v, i)
          BY <1>3, <1>4, <3>3, <4>1 DEF MaxOf
        <5> QED BY <1>4, <3>1, <3>3, <4>1, <5>1
      <4>2. CASE i # c.id
        BY <1>3, <1>4, <3>1, <3>3, <4>2
      <4> QED BY <4>1, <4>2
    <3>6. s.vi + 1 <= Len(w) + 1 /\ Len(w) <= Len(s.v) + (m - s.bi)
      BY <1>1, <2>2, <3>1, <3>3
    <3>7. MergeInv(v, b, t) /\ MergeRest(b, t) <= MergeRest(b, s) - 1
      BY <2>3, <3>1, <3>3, <3>4, <3>5, <3>6
    <3> QED BY <3>7 DEF t
  <2>6. CASE s.v[s.vi].id < c.id
    <3>1. inserted = s.v /\ ~same
      BY <1>1, <2>2, <2>6
    <3>2. w = s.v /\ m = s.bi
      BY <3>1
    <3> HIDE DEF w, m, inserted
    <3>3. ASSUME NEW k \in 1..Len(w), NEW j \in 1..Len(b), k <= s.vi, m <= j
          PROVE  w[k].id < b[j].id
      <4>1. CASE k = s.vi
        <5>1. s.bi <= j /\ s.bi \in Nat /\ j \in Nat
          BY <1>1, <3>2, <3>3
        <5>2. j = s.bi \/ c.id < b[j].id
          BY <1>1, <5>1 DEF Sorted
        <5> QED BY <1>1, <2>6, <3>2, <4>1, <5>2
      <4>2. CASE k # s.vi
        BY <1>1, <1>2, <3>2, <3>3, <4>2
      <4> QED BY <4>1, <4>2
    <3>4. s.vi + 1 <= Len(w) + 1 /\ Len(w) <= Len(s.v) + (m - s.bi)
      BY <1>1, <2>2, <3>2
    <3>5. MergeInv(v, b, t) /\ MergeRest(b, t) <= MergeRest(b, s) - 1
      BY <1>1, <1>3, <2>3, <3>2, <3>3, <3>4
    <3> QED BY <3>5 DEF t
  <2> QED BY <1>1, <2>2, <2>4, <2>5, <2>6
<1> QED BY <1>1, <1>6, <1>7

\* Merge is sorted and has the greater of the two values of each counter.
LEMMA MergeFacts ==
  ASSUME NEW v \in Vecs, NEW b \in Vecs
  PROVE  /\ Merge(v, b) \in Vecs
         /\ \A i \in Ids : Counter(Merge(v, b), i) = MaxOf(Counter(v, i), Counter(b, i))
<1> DEFINE S  == {s \in MergeStates : MergeInv(v, b, s)}
           x  == [v |-> v, vi |-> 1, bi |-> 1]
<1>1. Len(v) \in Nat /\ Len(b) \in Nat
  BY SliceFacts DEF Vecs
<1>2. x \in S
  <2>1. x \in MergeStates
    BY DEF MergeStates, Vecs
  <2>2. \A i \in Ids : Counter(v, i) = MaxOf(Counter(v, i), Prefix(b, 1, i))
    <3> TAKE i \in Ids
    <3>1. Prefix(b, 1, i) = 0
      BY <1>1 DEF Prefix
    <3>2. Counter(v, i) \in Nat
      BY CounterFacts
    <3> QED BY <3>1, <3>2 DEF MaxOf
  <2>3. \A k \in 1..Len(v), j \in 1..Len(b) : k < 1 /\ 1 <= j => v[k].id < b[j].id
    BY <1>1
  <2> QED BY <1>1, <2>1, <2>2, <2>3 DEF MergeInv
<1>3. ASSUME NEW s \in S PROVE MergeStep(b)[s] \in S
  <2>1. CASE s.bi > Len(b)
    BY <2>1 DEF MergeStep
  <2>2. CASE ~(s.bi > Len(b))
    <3>1. s.bi <= Len(b)
      BY <1>1, <2>2 DEF MergeStates
    <3>2. MergeInv(v, b, MergeStep(b)[s])
      BY <3>1, MergeStepOK
    <3> QED BY <3>2 DEF MergeInv
  <2> QED BY <2>1, <2>2
<1> DEFINE Done == {s \in MergeStates : s.bi > Len(b)}
           rest == [s \in S |-> MergeRest(b, s)]
           step == MergeStep(b)
<1>4. \A s \in S : rest[s] \in Nat
  <2> TAKE s \in S
  <2> DEFINE le == Len(s.v)
             lb == Len(b)
             p == s.vi
             q == s.bi
  <2>1. /\ le \in Nat /\ lb \in Nat /\ p \in Nat /\ q \in Nat /\ p <= le + 1 /\ q <= lb + 1
    BY <1>1, SliceFacts DEF MergeStates, MergeInv
  <2>2. rest[s] = (le + 1 - p) + (lb + 1 - q)
    BY DEF MergeRest
  <2> HIDE DEF le, lb, p, q, rest
  <2> QED BY <2>1, <2>2
<1>5. \A s \in S : s \in Done => step[s] = s
  BY DEF MergeStep
<1>6. ASSUME NEW s \in S, s \notin Done
      PROVE  step[s] \in Done \/ rest[step[s]] <= rest[s] - 1
  <2>1. s.bi <= Len(b)
    BY <1>1, <1>6 DEF MergeStates
  <2>2. step[s] \in S
    BY <1>3
  <2>3. step[s].bi > Len(b) \/ MergeRest(b, step[s]) <= MergeRest(b, s) - 1
    BY <2>1, MergeStepOK
  <2>4. rest[s] = MergeRest(b, s) /\ rest[step[s]] = MergeRest(b, step[s])
    BY <2>2
  <2> HIDE DEF step, rest
  <2> QED BY <2>2, <2>3, <2>4
<1>7. ASSUME NEW s \in S, rest[s] = 0 PROVE s \in Done
  <2> DEFINE le == Len(s.v)
             lb == Len(b)
             p == s.vi
             q == s.bi
  <2>1. /\ le \in Nat /\ lb \in Nat /\ p \in Nat /\ q \in Nat /\ p <= le + 1 /\ q <= lb + 1
    BY <1>1, SliceFacts DEF MergeStates, MergeInv
  <2>2. rest[s] = (le + 1 - p) + (lb + 1 - q)
    BY DEF MergeRest
  <2>3. q > lb
    <3> HIDE DEF le, lb, p, q, rest
    <3> QED BY <1>7, <2>1, <2>2
  <2> QED BY <2>3
<1> DEFINE e == Iterate(step, x)[rest[x]]
<1>8. e \in S /\ e \in Done
  <2> HIDE DEF S, Done, rest, step, x
  <2>1. \A s \in S : step[s] \in S
    BY <1>3 DEF step
  <2> QED BY <1>2, <1>4, <1>5, <1>6, <1>7, <2>1, LoopEnds
<1>9. Merge(v, b) = e.v
  <2>1. rest[x] = (Len(v) + 1 - 1) + (Len(b) + 1 - 1)
    BY <1>2 DEF MergeRest
  <2>2. rest[x] = Len(v) + Len(b)
    BY <1>1, <2>1
  <2> HIDE DEF rest
  <2> QED BY <2>2 DEF Merge
<1> HIDE DEF e
<1>10. MergeInv(v, b, e) /\ e \in MergeStates /\ e.bi > Len(b)
  BY <1>8
<1>11. e.bi = Len(b) + 1
  BY <1>1, <1>10 DEF MergeInv, MergeStates
<1>12. ASSUME NEW i \in Ids PROVE Prefix(b, Len(b) + 1, i) = Counter(b, i)
  <2>1. CASE Has(b, i)
    BY <1>1, <2>1 DEF Has, Prefix
  <2>2. CASE ~Has(b, i)
    BY <2>2, CounterFacts DEF Prefix
  <2> QED BY <2>1, <2>2
<1> QED BY <1>9, <1>10, <1>11, <1>12 DEF MergeInv

----------------------------------------------------------------------------
(***************************************************************************)
(* Compare walks the two vectors in step, in the order of the IDs.         *)
(***************************************************************************)

\* What the result of Compare says when the counters in P have been compared.
Verdict(A, B, P, result) ==
  /\ result = "Equal"   => \A i \in P : A[i] = B[i]
  /\ result = "Greater" => (\A i \in P : A[i] >= B[i]) /\ \E i \in P : A[i] > B[i]
  /\ result = "Lesser"  => (\A i \in P : B[i] >= A[i]) /\ \E i \in P : B[i] > A[i]
  /\ result = "ConcurrentGreater" =>
       /\ \E i \in Ids : A[i] > B[i] /\ \A j \in Ids : j < i => A[j] >= B[j]
       /\ \E i \in Ids : B[i] > A[i]
  /\ result = "ConcurrentLesser" =>
       /\ \E i \in Ids : B[i] > A[i] /\ \A j \in Ids : j < i => B[j] >= A[j]
       /\ \E i \in Ids : A[i] > B[i]

Way(A, B, m, result) ==
  IF A[m] > B[m] THEN "Greater" ELSE IF B[m] > A[m] THEN "Lesser" ELSE result

\* One counter more, m, is compared.
LEMMA VerdictStep ==
  ASSUME NEW A \in Vectors, NEW B \in Vectors, NEW P \in SUBSET Ids, NEW Q \in SUBSET Ids,
         NEW m \in Ids, P \subseteq Q, m \in Q,
         \A i \in P : i < m,
         \A i \in Ids : i < m => i \in Q,
         \A i \in Q : i \notin P => i = m \/ (A[i] = 0 /\ B[i] = 0),
         NEW r \in {"Equal", "Greater", "Lesser"}, Verdict(A, B, P, r)
  PROVE  Verdict(A, B, Q, Outcome(r, Way(A, B, m, r)))
<1>1. Ids \subseteq Nat
  BY NumIdsAssumption DEF Ids
<1>2. \A i \in Ids : A[i] \in Nat /\ B[i] \in Nat
  BY DEF Vectors
<1>3. \A i \in Q : i \in P \/ i = m \/ A[i] = B[i]
  OBVIOUS
<1>4. \A i \in Ids : i < m => i \in P \/ A[i] = B[i]
  BY <1>1
<1>5. CASE A[m] > B[m]
  <2>1. Way(A, B, m, r) = "Greater"
    BY <1>5 DEF Way
  <2>2. CASE r = "Lesser"
    <3>1. Outcome(r, Way(A, B, m, r)) = "ConcurrentLesser"
      BY <2>1, <2>2 DEF Outcome
    <3>2. PICK i \in P : B[i] > A[i]
      BY <2>2 DEF Verdict
    <3>3. \A j \in P : B[j] >= A[j]
      BY <2>2 DEF Verdict
    <3>4. ASSUME NEW j \in Ids, j < i PROVE B[j] >= A[j]
      <4>1. j < m
        BY <1>1, <3>2, <3>4
      <4> QED BY <1>2, <1>4, <3>3, <4>1
    <3> QED BY <1>5, <3>1, <3>2, <3>4 DEF Verdict
  <2>3. CASE r # "Lesser"
    <3>1. Outcome(r, Way(A, B, m, r)) = "Greater"
      BY <2>1, <2>3 DEF Outcome
    <3>2. \A i \in P : A[i] >= B[i]
      BY <1>2, <2>3 DEF Verdict
    <3>3. \A i \in Q : A[i] >= B[i]
      BY <1>2, <1>3, <1>5, <3>2
    <3> QED BY <1>5, <3>1, <3>3 DEF Verdict
  <2> QED BY <2>2, <2>3
<1>6. CASE B[m] > A[m]
  <2>1. Way(A, B, m, r) = "Lesser"
    BY <1>2, <1>6 DEF Way
  <2>2. CASE r = "Greater"
    <3>1. Outcome(r, Way(A, B, m, r)) = "ConcurrentGreater"
      BY <2>1, <2>2 DEF Outcome
    <3>2. PICK i \in P : A[i] > B[i]
      BY <2>2 DEF Verdict
    <3>3. \A j \in P : A[j] >= B[j]
      BY <2>2 DEF Verdict
    <3>4. ASSUME NEW j \in Ids, j < i PROVE A[j] >= B[j]
      <4>1. j < m
        BY <1>1, <3>2, <3>4
      <4> QED BY <1>2, <1>4, <3>3, <4>1
    <3> QED BY <1>6, <3>1, <3>2, <3>4 DEF Verdict
  <2>3. CASE r # "Greater"
    <3>1. Outcome(r, Way(A, B, m, r)) = "Lesser"
      BY <2>1, <2>3 DEF Outcome
    <3>2. \A i \in P : B[i] >= A[i]
      BY <1>2, <2>3 DEF Verdict
    <3>3. \A i \in Q : B[i] >= A[i]
      BY <1>2, <1>3, <1>6, <3>2
    <3> QED BY <1>6, <3>1, <3>3 DEF Verdict
  <2> QED BY <2>2, <2>3
<1>7. CASE A[m] = B[m]
  <2>1. Way(A, B, m, r) = r /\ Outcome(r, r) = r
    BY <1>2, <1>7 DEF Way, Outcome
  <2>2. \A i \in Q : i \in P \/ A[i] = B[i]
    BY <1>3, <1>7
  <2> QED BY <1>2, <2>1, <2>2 DEF Verdict
<1> QED BY <1>2, <1>5, <1>6, <1>7

\* All counters have been compared, or enough of them.
LEMMA VerdictIsOrder ==
  ASSUME NEW A \in Vectors, NEW B \in Vectors, NEW P \in SUBSET Ids,
         NEW r \in {"Equal", "Greater", "Lesser"} \cup Settled, Verdict(A, B, P, r),
         r \in Settled \/ P = Ids
  PROVE  r = Ordering(A, B)
<1>1. Ids \subseteq Nat
  BY NumIdsAssumption DEF Ids
<1>2. \A i \in Ids : A[i] \in Nat /\ B[i] \in Nat
  BY DEF Vectors
<1>3. ASSUME NEW F \in Vectors, NEW G \in Vectors,
             \E i \in Ids : F[i] > G[i] /\ \A j \in Ids : j < i => F[j] >= G[j]
      PROVE  FirstGreater(F, G) /\ ~FirstGreater(G, F)
  <2>1. \A i \in Ids : F[i] \in Nat /\ G[i] \in Nat
    BY DEF Vectors
  <2>2. PICK i \in Ids : F[i] > G[i] /\ \A j \in Ids : j < i => F[j] >= G[j]
    BY <1>3
  <2> DEFINE D == {j \in Ids : F[j] # G[j]}
  <2>3. D \subseteq Nat /\ i \in D
    <3>1. F[i] # G[i]
      BY <2>1, <2>2
    <3> QED BY <1>1, <3>1
  <2>4. PICK l \in D : \A j \in D : l <= j
    BY <2>3, LeastElement
  <2>5. l <= i /\ l \in Ids /\ l \in Nat /\ i \in Nat
    BY <1>1, <2>3, <2>4
  <2>6. \A j \in Ids : j < l => F[j] = G[j]
    BY <1>1, <2>4, <2>5
  <2>7. F[l] > G[l]
    <3>1. l = i \/ l < i
      BY <2>5
    <3> QED BY <2>1, <2>2, <2>4, <2>5, <3>1
  <2>8. FirstGreater(F, G)
    BY <2>5, <2>6, <2>7 DEF FirstGreater
  <2>9. ASSUME FirstGreater(G, F) PROVE FALSE
    <3>1. PICK k \in Ids : G[k] > F[k] /\ \A j \in Ids : j < k => G[j] = F[j]
      BY <2>9 DEF FirstGreater
    <3>2. l < k \/ k < l \/ k = l
      BY <1>1, <2>5
    <3> QED BY <2>1, <2>5, <2>6, <2>7, <3>1, <3>2
  <2> QED BY <2>8, <2>9
<1>4. A = B <=> \A i \in Ids : A[i] = B[i]
  BY DEF Vectors
<1>5. CASE r = "Equal"
  BY <1>4, <1>5 DEF Verdict, Ordering, Settled
<1>6. CASE r = "Greater"
  <2>1. P = Ids /\ (\A i \in Ids : A[i] >= B[i]) /\ \E i \in Ids : A[i] > B[i]
    BY <1>6 DEF Verdict, Settled
  <2>2. A # B
    BY <1>2, <2>1
  <2> QED BY <1>6, <2>1, <2>2 DEF Ordering, GreaterEqual
<1>7. CASE r = "Lesser"
  <2>1. P = Ids /\ (\A i \in Ids : B[i] >= A[i]) /\ \E i \in Ids : B[i] > A[i]
    BY <1>7 DEF Verdict, Settled
  <2>2. ~GreaterEqual(A, B) /\ GreaterEqual(B, A)
    BY <1>2, <2>1 DEF GreaterEqual
  <2>3. A # B
    BY <1>2, <2>1
  <2> QED BY <1>7, <2>2, <2>3 DEF Ordering
<1>8. ASSUME \E i \in Ids : A[i] > B[i], \E i \in Ids : B[i] > A[i]
      PROVE  A # B /\ ~GreaterEqual(A, B) /\ ~GreaterEqual(B, A)
  BY <1>2, <1>8 DEF GreaterEqual
<1>9. CASE r = "ConcurrentGreater"
  <2>1. FirstGreater(A, B)
    BY <1>3, <1>9 DEF Verdict
  <2>2. A # B /\ ~GreaterEqual(A, B) /\ ~GreaterEqual(B, A)
    BY <1>8, <1>9 DEF Verdict
  <2> QED BY <1>9, <2>1, <2>2 DEF Ordering
<1>10. CASE r = "ConcurrentLesser"
  <2>1. ~FirstGreater(A, B)
    BY <1>3, <1>10 DEF Verdict
  <2>2. A # B /\ ~GreaterEqual(A, B) /\ ~GreaterEqual(B, A)
    BY <1>8, <1>10 DEF Verdict
  <2> QED BY <1>10, <2>1, <2>2 DEF Ordering
<1> QED BY <1>5, <1>6, <1>7, <1>9, <1>10 DEF Settled

\* The IDs before the ones that remain in both vectors.
Dealt(v, b, ai, bi) ==
  {i \in Ids : /\ \A k \in 1..Len(v) : ai <= k => i < v[k].id
               /\ \A j \in 1..Len(b) : bi <= j => i < b[j].id}

CompareInv(v, b, s) ==
  /\ s \in CompareStates /\ s.ai <= Len(v) + 1 /\ s.bi <= Len(b) + 1
  /\ \A k \in 1..Len(v), j \in 1..Len(b) : k < s.ai /\ s.bi <= j => v[k].id < b[j].id
  /\ \A k \in 1..Len(v), j \in 1..Len(b) : s.ai <= k /\ j < s.bi => b[j].id < v[k].id
  /\ Verdict(AsVector(v), AsVector(b), Dealt(v, b, s.ai, s.bi), s.result)

\* A sorted slice as a vector of VersionOrder.
LEMMA AsVectorFacts ==
  ASSUME NEW v \in Vecs
  PROVE  AsVector(v) \in Vectors /\ \A i \in Ids : AsVector(v)[i] = Counter(v, i)
BY CounterFacts DEF AsVector, Vectors

\* A turn that deals with m, the least ID that remains.
LEMMA CompareTurn ==
  ASSUME NEW v \in Vecs, NEW b \in Vecs, NEW s, CompareInv(v, b, s), s.result \notin Settled,
         NEW m \in Ids, NEW x \in {s.ai, s.ai + 1}, NEW y \in {s.bi, s.bi + 1},
         x <= Len(v) + 1, y <= Len(b) + 1, x # s.ai \/ y # s.bi,
         \A k \in 1..Len(v) : x <= k => m < v[k].id,
         \A j \in 1..Len(b) : y <= j => m < b[j].id,
         x # s.ai => v[s.ai].id = m,
         y # s.bi => b[s.bi].id = m,
         NEW t, t = [ai |-> x, bi |-> y,
                     result |-> Outcome(s.result, Way(AsVector(v), AsVector(b), m, s.result))]
  PROVE  CompareInv(v, b, t)
<1> DEFINE A == AsVector(v)
           B == AsVector(b)
           P == Dealt(v, b, s.ai, s.bi)
           Q == Dealt(v, b, x, y)
           r == s.result
           p == s.ai
           q == s.bi
<1>1. /\ Len(v) \in Nat /\ Len(b) \in Nat /\ Sorted(v) /\ Sorted(b)
      /\ \A k \in 1..Len(v) : v[k].id \in Nat /\ v[k].id \in Ids
      /\ \A k \in 1..Len(b) : b[k].id \in Nat /\ b[k].id \in Ids
      /\ Ids \subseteq Nat
  BY SliceFacts DEF Vecs
<1>2. /\ p \in Nat \ {0} /\ q \in Nat \ {0} /\ r \in {"Equal", "Greater", "Lesser"}
      /\ p <= Len(v) + 1 /\ q <= Len(b) + 1
      /\ \A k \in 1..Len(v), j \in 1..Len(b) : k < p /\ q <= j => v[k].id < b[j].id
      /\ \A k \in 1..Len(v), j \in 1..Len(b) : p <= k /\ j < q => b[j].id < v[k].id
      /\ Verdict(A, B, P, r)
  BY DEF CompareInv, CompareStates
<1>3. A \in Vectors /\ B \in Vectors /\ \A i \in Ids : A[i] = Counter(v, i) /\ B[i] = Counter(b, i)
  BY AsVectorFacts
<1>4. /\ x \in {p, p + 1} /\ y \in {q, q + 1} /\ (x # p \/ y # q)
      /\ (x # p => v[p].id = m) /\ (y # q => b[q].id = m)
      /\ t = [ai |-> x, bi |-> y, result |-> Outcome(r, Way(A, B, m, r))]
  OBVIOUS
<1> HIDE DEF A, B, r, p, q
<1>5. P = Dealt(v, b, p, q)
  BY DEF p, q
<1> HIDE DEF P
<1>6. x \in Nat \ {0} /\ y \in Nat \ {0} /\ p <= x /\ q <= y
  BY <1>2, <1>4
<1>7. (x # p => x = p + 1 /\ p \in 1..Len(v)) /\ (y # q => y = q + 1 /\ q \in 1..Len(b))
  BY <1>1, <1>2, <1>4
<1>8. P \subseteq Ids /\ Q \subseteq Ids /\ m \in Q
  BY <1>5 DEF Dealt
<1>9. P \subseteq Q
  <2> SUFFICES ASSUME NEW i \in P PROVE i \in Q
    OBVIOUS
  <2>1. i \in Ids /\ (\A k \in 1..Len(v) : p <= k => i < v[k].id)
        /\ (\A j \in 1..Len(b) : q <= j => i < b[j].id)
    BY <1>5 DEF Dealt
  <2>2. (\A k \in 1..Len(v) : x <= k => p <= k) /\ (\A j \in 1..Len(b) : y <= j => q <= j)
    BY <1>1, <1>2, <1>6
  <2> QED BY <2>1, <2>2 DEF Dealt
<1>10. ASSUME NEW i \in P PROVE i < m
  <2>1. i \in Ids /\ (\A k \in 1..Len(v) : p <= k => i < v[k].id)
        /\ (\A j \in 1..Len(b) : q <= j => i < b[j].id)
    BY <1>5 DEF Dealt
  <2>2. CASE x # p
    BY <1>2, <1>4, <1>7, <2>1, <2>2
  <2>3. CASE y # q
    BY <1>2, <1>4, <1>7, <2>1, <2>3
  <2> QED BY <1>4, <2>2, <2>3
<1>11. ASSUME NEW i \in Ids, i < m PROVE i \in Q
  BY <1>1, <1>11 DEF Dealt
<1>12. ASSUME NEW i \in Q, i \notin P, i # m PROVE A[i] = 0 /\ B[i] = 0
  <2>0. i \in Ids /\ i \in Nat /\ (\A k \in 1..Len(v) : x <= k => i < v[k].id)
        /\ (\A j \in 1..Len(b) : y <= j => i < b[j].id)
    BY <1>1 DEF Dealt
  <2>1. ASSUME Has(v, i) PROVE FALSE
    <3>1. PICK k \in 1..Len(v) : v[k].id = i
      BY <2>1 DEF Has
    <3>2. ~(x <= k)
      BY <1>1, <2>0, <3>1
    <3>3. k # p
      BY <1>4, <1>12, <3>1, <3>2, <1>2
    <3>4. k < p
      BY <1>2, <1>4, <3>2, <3>3
    <3>5. \A l \in 1..Len(v) : p <= l => i < v[l].id
      BY <1>1, <1>2, <3>1, <3>4 DEF Sorted
    <3>6. \A j \in 1..Len(b) : q <= j => i < b[j].id
      BY <1>2, <3>1, <3>4
    <3> QED BY <1>5, <1>12, <2>0, <3>5, <3>6 DEF Dealt
  <2>2. ASSUME Has(b, i) PROVE FALSE
    <3>1. PICK k \in 1..Len(b) : b[k].id = i
      BY <2>2 DEF Has
    <3>2. ~(y <= k)
      BY <1>1, <2>0, <3>1
    <3>3. k # q
      BY <1>4, <1>12, <3>1, <3>2, <1>2
    <3>4. k < q
      BY <1>2, <1>4, <3>2, <3>3
    <3>5. \A l \in 1..Len(b) : q <= l => i < b[l].id
      BY <1>1, <1>2, <3>1, <3>4 DEF Sorted
    <3>6. \A j \in 1..Len(v) : p <= j => i < v[j].id
      BY <1>2, <3>1, <3>4
    <3> QED BY <1>5, <1>12, <2>0, <3>5, <3>6 DEF Dealt
  <2>3. Counter(v, i) = 0 /\ Counter(b, i) = 0
    BY <2>1, <2>2, CounterFacts
  <2> QED BY <1>3, <2>0, <2>3
<1> DEFINE o == Outcome(r, Way(A, B, m, r))
<1>13. Verdict(A, B, Q, o)
  <2> HIDE DEF Q
  <2>1. P \in SUBSET Ids /\ Q \in SUBSET Ids
    BY <1>8
  <2>2. \A i \in Q : i \notin P => i = m \/ (A[i] = 0 /\ B[i] = 0)
    BY <1>12
  <2> QED BY <1>2, <1>3, <1>8, <1>9, <1>10, <1>11, <2>1, <2>2, VerdictStep
<1>14. o \in {"Equal", "Greater", "Lesser"} \cup Settled
  BY <1>2 DEF Outcome, Way, Settled
<1> HIDE DEF o
<1>15. t \in CompareStates /\ t.ai = x /\ t.bi = y /\ t.result = o
  BY <1>4, <1>6, <1>14 DEF CompareStates, o
<1>16. ASSUME NEW k \in 1..Len(v), NEW j \in 1..Len(b), k < x, y <= j PROVE v[k].id < b[j].id
  <2>1. CASE k < p
    BY <1>1, <1>2, <1>6, <1>16, <2>1
  <2>2. CASE ~(k < p)
    <3>1. k = p /\ x # p
      BY <1>2, <1>4, <1>16, <2>2
    <3> QED BY <1>4, <1>16, <3>1
  <2> QED BY <2>1, <2>2
<1>17. ASSUME NEW k \in 1..Len(v), NEW j \in 1..Len(b), x <= k, j < y PROVE b[j].id < v[k].id
  <2>1. CASE j < q
    BY <1>1, <1>2, <1>6, <1>17, <2>1
  <2>2. CASE ~(j < q)
    <3>1. j = q /\ y # q
      BY <1>2, <1>4, <1>17, <2>2
    <3> QED BY <1>4, <1>17, <3>1
  <2> QED BY <2>1, <2>2
<1> QED BY <1>13, <1>15, <1>16, <1>17 DEF CompareInv, A, B

CompareDone(v, b) ==
  {s \in CompareStates : (s.ai > Len(v) /\ s.bi > Len(b)) \/ s.result \in Settled}

CompareRest(v, b, s) == (Len(v) + 1 - s.ai) + (Len(b) + 1 - s.bi)

\* A turn of the loop of Compare keeps its invariant and leaves less to do.
LEMMA CompareStepOK ==
  ASSUME NEW v \in Vecs, NEW b \in Vecs, NEW s, CompareInv(v, b, s),
         s \notin CompareDone(v, b)
  PROVE  LET t == CompareStep(v, b)[s] IN
         /\ CompareInv(v, b, t)
         /\ CompareRest(v, b, t) <= CompareRest(v, b, s) - 1
<1> DEFINE p == s.ai
           q == s.bi
           r == s.result
           aMissing == p > Len(v)
           bMissing == q > Len(b)
           av  == IF aMissing THEN [id |-> 0, value |-> 0] ELSE v[p]
           bv  == IF bMissing THEN [id |-> 0, value |-> 0] ELSE b[q]
           way == IF av.id = bv.id
                  THEN IF av.value > bv.value THEN "Greater"
                       ELSE IF av.value < bv.value THEN "Lesser" ELSE r
                  ELSE IF bMissing \/ (~aMissing /\ av.id < bv.id)
                  THEN IF av.value > 0 THEN "Greater" ELSE r
                  ELSE IF bv.value > 0 THEN "Lesser" ELSE r
           x == IF ~aMissing /\ (av.id <= bv.id \/ bMissing) THEN p + 1 ELSE p
           y == IF ~bMissing /\ (bv.id <= av.id \/ aMissing) THEN q + 1 ELSE q
           t == CompareStep(v, b)[s]
           A == AsVector(v)
           B == AsVector(b)
<1>1. /\ Len(v) \in Nat /\ Len(b) \in Nat /\ Sorted(v) /\ Sorted(b)
      /\ \A k \in 1..Len(v) : v[k].id \in Nat \ {0} /\ v[k].id \in Ids /\ v[k].value \in Nat
      /\ \A k \in 1..Len(b) : b[k].id \in Nat \ {0} /\ b[k].id \in Ids /\ b[k].value \in Nat
      /\ Ids \subseteq Nat
  BY SliceFacts DEF Vecs
<1>2. /\ s \in CompareStates /\ p \in Nat \ {0} /\ q \in Nat \ {0}
      /\ r \notin Settled /\ ~(p > Len(v) /\ q > Len(b))
      /\ p <= Len(v) + 1 /\ q <= Len(b) + 1
      /\ \A k \in 1..Len(v), j \in 1..Len(b) : k < p /\ q <= j => v[k].id < b[j].id
      /\ \A k \in 1..Len(v), j \in 1..Len(b) : p <= k /\ j < q => b[j].id < v[k].id
  BY DEF CompareInv, CompareStates, CompareDone
<1>3. t = [ai |-> x, bi |-> y, result |-> Outcome(r, way)]
  BY <1>2 DEF CompareStep
<1>4. \A i \in Ids : A[i] = Counter(v, i) /\ B[i] = Counter(b, i)
  BY AsVectorFacts
<1> HIDE DEF t, A, B
<1>5. (~aMissing => p \in 1..Len(v) /\ av = v[p]) /\ (~bMissing => q \in 1..Len(b) /\ bv = b[q])
  BY <1>1, <1>2
\* The counters up to p, and up to q, are the least that remain.
<1>6. /\ \A k \in 1..Len(v) : p <= k => ~aMissing /\ v[p].id <= v[k].id
      /\ \A k \in 1..Len(v) : p + 1 <= k => ~aMissing /\ v[p].id < v[k].id
      /\ \A k \in 1..Len(b) : q <= k => ~bMissing /\ b[q].id <= b[k].id
      /\ \A k \in 1..Len(b) : q + 1 <= k => ~bMissing /\ b[q].id < b[k].id
  <2>1. ASSUME NEW k \in 1..Len(v) PROVE /\ p <= k => ~aMissing /\ v[p].id <= v[k].id
                                         /\ p + 1 <= k => ~aMissing /\ v[p].id < v[k].id
    <3>1. p <= k => p \in 1..Len(v) /\ ~aMissing /\ (p = k \/ p < k)
      BY <1>1, <1>2
    <3>2. p + 1 <= k => p < k /\ p <= k
      BY <1>1, <1>2
    <3>3. p < k /\ p \in 1..Len(v) => v[p].id < v[k].id
      BY <1>1 DEF Sorted
    <3>4. p \in 1..Len(v) => v[p].id \in Nat /\ v[k].id \in Nat
      BY <1>1
    <3> QED BY <3>1, <3>2, <3>3, <3>4
  <2>2. ASSUME NEW k \in 1..Len(b) PROVE /\ q <= k => ~bMissing /\ b[q].id <= b[k].id
                                         /\ q + 1 <= k => ~bMissing /\ b[q].id < b[k].id
    <3>1. q <= k => q \in 1..Len(b) /\ ~bMissing /\ (q = k \/ q < k)
      BY <1>1, <1>2
    <3>2. q + 1 <= k => q < k /\ q <= k
      BY <1>1, <1>2
    <3>3. q < k /\ q \in 1..Len(b) => b[q].id < b[k].id
      BY <1>1 DEF Sorted
    <3>4. q \in 1..Len(b) => b[q].id \in Nat /\ b[k].id \in Nat
      BY <1>1
    <3> QED BY <3>1, <3>2, <3>3, <3>4
  <2> QED BY <2>1, <2>2
\* The rest follows from what the three cases have in common.
<1>7. ASSUME NEW m \in Ids, x \in {p, p + 1}, y \in {q, q + 1},
             x # p => ~aMissing /\ v[p].id = m,
             y # q => ~bMissing /\ b[q].id = m,
             x # p \/ y # q,
             \A k \in 1..Len(v) : x <= k => m < v[k].id,
             \A j \in 1..Len(b) : y <= j => m < b[j].id,
             way = Way(A, B, m, r)
      PROVE  CompareInv(v, b, t) /\ CompareRest(v, b, t) <= CompareRest(v, b, s) - 1
  <2>1. x <= Len(v) + 1 /\ y <= Len(b) + 1
    BY <1>1, <1>2, <1>5, <1>7
  <2> HIDE DEF x, y, way
  <2>2. CompareInv(v, b, t)
    <3>1. t = [ai |-> x, bi |-> y, result |-> Outcome(s.result, Way(AsVector(v), AsVector(b), m, s.result))]
      BY <1>3, <1>7 DEF A, B
    <3>2. /\ x \in {s.ai, s.ai + 1} /\ y \in {s.bi, s.bi + 1} /\ s.result \notin Settled
          /\ (x # s.ai \/ y # s.bi) /\ (x # s.ai => v[s.ai].id = m) /\ (y # s.bi => b[s.bi].id = m)
      BY <1>2, <1>7
    <3> QED BY <1>7, <2>1, <3>1, <3>2, CompareTurn
  <2>3. CompareRest(v, b, t) <= CompareRest(v, b, s) - 1
    <3> DEFINE la == Len(v)
               lb == Len(b)
    <3>1. CompareRest(v, b, t) = (la + 1 - x) + (lb + 1 - y)
      BY <1>3 DEF CompareRest
    <3>2. CompareRest(v, b, s) = (la + 1 - p) + (lb + 1 - q)
      BY DEF CompareRest
    <3>3. la \in Nat /\ lb \in Nat /\ p \in Nat /\ q \in Nat
      BY <1>1, <1>2
    <3>4. (x = p \/ x = p + 1) /\ (y = q \/ y = q + 1) /\ (x # p \/ y # q)
      BY <1>7
    <3> HIDE DEF la, lb, p, q
    <3> QED BY <3>1, <3>2, <3>3, <3>4
  <2> QED BY <2>2, <2>3
<1>8. CASE ~aMissing /\ ~bMissing /\ v[p].id = b[q].id
  <2> DEFINE m == v[p].id
  <2>1. /\ m \in Ids /\ m \in Nat /\ b[q].id = m /\ av = v[p] /\ bv = b[q]
        /\ v[p].value \in Nat /\ b[q].value \in Nat
    BY <1>1, <1>5, <1>8
  <2>2. A[m] = v[p].value /\ B[m] = b[q].value
    BY <1>4, <1>5, <1>8, <2>1, PlaceFacts
  <2>3. x = p + 1 /\ y = q + 1
    BY <1>8, <2>1
  <2>4. way = Way(A, B, m, r)
    BY <2>1, <2>2 DEF Way
  <2>5. /\ \A k \in 1..Len(v) : p + 1 <= k => m < v[k].id
        /\ \A j \in 1..Len(b) : q + 1 <= j => m < b[j].id
    BY <1>6, <2>1
  <2>6. p + 1 # p
    BY <1>2
  <2> HIDE DEF x, y, way, m
  <2> QED BY <1>7, <1>8, <2>1, <2>3, <2>4, <2>5, <2>6 DEF t, m
<1>9. CASE ~aMissing /\ (bMissing \/ v[p].id < b[q].id)
  <2> DEFINE m == v[p].id
  <2>1. /\ m \in Ids /\ m \in Nat /\ m # 0 /\ av = v[p] /\ v[p].value \in Nat
        /\ ~bMissing => bv = b[q] /\ b[q].id \in Nat /\ m < b[q].id
        /\ bMissing => bv.id = 0
    BY <1>1, <1>5, <1>9
  <2>2. \A j \in 1..Len(b) : q <= j => m < b[j].id
    <3> TAKE j \in 1..Len(b)
    <3>1. q <= j => ~bMissing /\ b[q].id <= b[j].id /\ m < b[q].id
      BY <1>6, <2>1
    <3>2. q <= j => b[q].id \in Nat /\ b[j].id \in Nat
      BY <1>1, <1>5, <1>6
    <3> QED BY <2>1, <3>1, <3>2
  <2>3. ~Has(b, m)
    <3> SUFFICES ASSUME NEW j \in 1..Len(b), b[j].id = m PROVE FALSE
      BY DEF Has
    <3>1. ~(q <= j)
      BY <2>1, <2>2
    <3>2. j < q /\ p \in 1..Len(v) /\ p <= p
      BY <1>1, <1>2, <1>5, <1>9, <3>1
    <3>3. b[j].id < v[p].id
      BY <1>2, <3>2
    <3> QED BY <2>1, <3>3
  <2>4. A[m] = v[p].value /\ B[m] = 0
    <3>1. Counter(v, m) = v[p].value
      BY <1>5, <1>9, PlaceFacts
    <3>2. Counter(b, m) = 0
      BY <2>3, CounterFacts
    <3> QED BY <1>4, <2>1, <3>1, <3>2
  <2>5. x = p + 1 /\ y = q
    BY <1>9, <2>1
  <2>6. way = Way(A, B, m, r)
    <3>1. way = IF av.value > 0 THEN "Greater" ELSE r
      BY <1>9, <2>1
    <3> QED BY <2>1, <2>4, <3>1 DEF Way
  <2>7. \A k \in 1..Len(v) : p + 1 <= k => m < v[k].id
    BY <1>6
  <2>8. p + 1 # p
    BY <1>2
  <2> HIDE DEF x, y, way, m
  <2> QED BY <1>7, <1>9, <2>1, <2>2, <2>5, <2>6, <2>7, <2>8 DEF t, m
<1>10. CASE ~bMissing /\ (aMissing \/ b[q].id < v[p].id)
  <2> DEFINE m == b[q].id
  <2>1. /\ m \in Ids /\ m \in Nat /\ m # 0 /\ bv = b[q] /\ b[q].value \in Nat
        /\ ~aMissing => av = v[p] /\ v[p].id \in Nat /\ m < v[p].id
        /\ aMissing => av.id = 0
    BY <1>1, <1>5, <1>10
  <2>2. \A j \in 1..Len(v) : p <= j => m < v[j].id
    <3> TAKE j \in 1..Len(v)
    <3>1. p <= j => ~aMissing /\ v[p].id <= v[j].id /\ m < v[p].id
      BY <1>6, <2>1
    <3>2. p <= j => v[p].id \in Nat /\ v[j].id \in Nat
      BY <1>1, <1>5, <1>6
    <3> QED BY <2>1, <3>1, <3>2
  <2>3. ~Has(v, m)
    <3> SUFFICES ASSUME NEW j \in 1..Len(v), v[j].id = m PROVE FALSE
      BY DEF Has
    <3>1. ~(p <= j)
      BY <2>1, <2>2
    <3>2. j < p /\ q \in 1..Len(b) /\ q <= q
      BY <1>1, <1>2, <1>5, <1>10, <3>1
    <3>3. v[j].id < b[q].id
      BY <1>2, <3>2
    <3> QED BY <2>1, <3>3
  <2>4. B[m] = b[q].value /\ A[m] = 0
    <3>1. Counter(b, m) = b[q].value
      BY <1>5, <1>10, PlaceFacts
    <3>2. Counter(v, m) = 0
      BY <2>3, CounterFacts
    <3> QED BY <1>4, <2>1, <3>1, <3>2
  <2>5. x = p /\ y = q + 1
    BY <1>10, <2>1
  <2>6. way = Way(A, B, m, r)
    <3>1. way = IF bv.value > 0 THEN "Lesser" ELSE r
      BY <1>10, <2>1
    <3> QED BY <2>1, <2>4, <3>1 DEF Way
  <2>7. \A k \in 1..Len(b) : q + 1 <= k => m < b[k].id
    BY <1>6
  <2>8. q + 1 # q
    BY <1>2
  <2> HIDE DEF x, y, way, m
  <2> QED BY <1>7, <1>10, <2>1, <2>2, <2>5, <2>6, <2>7, <2>8 DEF t, m
<1>11. ~aMissing /\ ~bMissing => v[p].id < b[q].id \/ v[p].id = b[q].id \/ b[q].id < v[p].id
  <2> SUFFICES ASSUME ~aMissing, ~bMissing
               PROVE  v[p].id < b[q].id \/ v[p].id = b[q].id \/ b[q].id < v[p].id
    OBVIOUS
  <2>1. v[p].id \in Nat /\ b[q].id \in Nat
    BY <1>1, <1>5
  <2> QED BY <2>1
<1> QED BY <1>2, <1>8, <1>9, <1>10, <1>11

\* The loop of Compare decides the order of the vectors as functions.
LEMMA CompareFacts ==
  ASSUME NEW v \in Vecs, NEW b \in Vecs
  PROVE  Compare(v, b) = Ordering(AsVector(v), AsVector(b))
<1> DEFINE S == {s \in CompareStates : CompareInv(v, b, s)}
           x == [ai |-> 1, bi |-> 1, result |-> "Equal"]
           Done == CompareDone(v, b)
           rest == [s \in S |-> CompareRest(v, b, s)]
           step == CompareStep(v, b)
<1>1. Len(v) \in Nat /\ Len(b) \in Nat /\ Sorted(v) /\ Sorted(b) /\ Ids \subseteq Nat
  BY SliceFacts DEF Vecs
<1>2. x \in S
  <2>1. x \in CompareStates
    BY DEF CompareStates
  <2>2. ASSUME NEW i \in Dealt(v, b, 1, 1) PROVE AsVector(v)[i] = AsVector(b)[i]
    <3>1. /\ i \in Ids /\ i \in Nat
          /\ \A k \in 1..Len(v) : i < v[k].id
          /\ \A k \in 1..Len(b) : i < b[k].id
      <4>1. (\A k \in 1..Len(v) : 1 <= k) /\ \A k \in 1..Len(b) : 1 <= k
        BY <1>1
      <4> QED BY <1>1, <4>1 DEF Dealt
    <3>2. ~Has(v, i) /\ ~Has(b, i)
      BY <3>1 DEF Has
    <3> QED BY <3>1, <3>2, CounterFacts, AsVectorFacts
  <2>3. Verdict(AsVector(v), AsVector(b), Dealt(v, b, 1, 1), "Equal")
    BY <2>2 DEF Verdict
  <2>4. \A k \in 1..Len(v), j \in 1..Len(b) : ~(k < 1) /\ ~(j < 1)
    BY <1>1
  <2> QED BY <1>1, <2>1, <2>3, <2>4 DEF CompareInv
<1>3. ASSUME NEW s \in S PROVE step[s] \in S
  <2>1. CASE s \in Done
    BY <2>1 DEF CompareStep, CompareDone
  <2>2. CASE s \notin Done
    <3>1. CompareInv(v, b, step[s])
      BY <2>2, CompareStepOK
    <3> QED BY <3>1 DEF CompareInv
  <2> QED BY <2>1, <2>2
<1>4. ASSUME NEW s \in S PROVE rest[s] \in Nat /\ (rest[s] = 0 => s \in Done)
  <2> DEFINE la == Len(v)
             lb == Len(b)
             p == s.ai
             q == s.bi
  <2>1. /\ la \in Nat /\ lb \in Nat /\ p \in Nat /\ q \in Nat /\ p <= la + 1 /\ q <= lb + 1
    BY <1>1 DEF CompareStates, CompareInv
  <2>2. rest[s] = (la + 1 - p) + (lb + 1 - q)
    BY DEF CompareRest
  <2>3. rest[s] \in Nat /\ (rest[s] = 0 => p > la /\ q > lb)
    <3> HIDE DEF la, lb, p, q, rest
    <3> QED BY <2>1, <2>2
  <2> QED BY <2>3 DEF CompareDone
<1>5. \A s \in S : s \in Done => step[s] = s
  BY DEF CompareStep, CompareDone
<1>6. ASSUME NEW s \in S, s \notin Done
      PROVE  step[s] \in Done \/ rest[step[s]] <= rest[s] - 1
  <2>1. step[s] \in S
    BY <1>3
  <2>2. CompareRest(v, b, step[s]) <= CompareRest(v, b, s) - 1
    BY <1>6, CompareStepOK
  <2>3. rest[s] = CompareRest(v, b, s) /\ rest[step[s]] = CompareRest(v, b, step[s])
    BY <2>1
  <2> HIDE DEF step, rest
  <2> QED BY <2>2, <2>3
<1> DEFINE e == Iterate(step, x)[rest[x]]
<1>7. e \in S /\ e \in Done
  <2> HIDE DEF S, Done, rest, step, x
  <2>1. \A s \in S : step[s] \in S /\ rest[s] \in Nat
    BY <1>3, <1>4
  <2>2. \A s \in S : rest[s] = 0 => s \in Done
    BY <1>4
  <2> QED BY <1>2, <1>5, <1>6, <2>1, <2>2, LoopEnds
<1>8. Compare(v, b) = e.result
  <2>1. rest[x] = (Len(v) + 1 - 1) + (Len(b) + 1 - 1)
    BY <1>2 DEF CompareRest
  <2>2. rest[x] = Len(v) + Len(b)
    BY <1>1, <2>1
  <2> HIDE DEF rest
  <2> QED BY <2>2 DEF Compare
<1> HIDE DEF e
<1> DEFINE P == Dealt(v, b, e.ai, e.bi)
<1>9. /\ e \in CompareStates /\ Verdict(AsVector(v), AsVector(b), P, e.result)
      /\ (e.ai > Len(v) /\ e.bi > Len(b)) \/ e.result \in Settled
  BY <1>7 DEF CompareInv, CompareDone
<1>10. P \in SUBSET Ids /\ (e.ai > Len(v) /\ e.bi > Len(b) => P = Ids)
  <2>1. e.ai \in Nat /\ e.bi \in Nat
    BY <1>9 DEF CompareStates
  <2>2. e.ai > Len(v) /\ e.bi > Len(b)
          => (\A k \in 1..Len(v) : ~(e.ai <= k)) /\ \A k \in 1..Len(b) : ~(e.bi <= k)
    BY <1>1, <2>1
  <2> QED BY <2>2 DEF Dealt
<1>11. e.result \in {"Equal", "Greater", "Lesser"} \cup Settled
  BY <1>9 DEF CompareStates
<1> HIDE DEF P
<1> QED BY <1>8, <1>9, <1>10, <1>11, AsVectorFacts, VerdictIsOrder

----------------------------------------------------------------------------
(***************************************************************************)
(* The devices that change the file.                                       *)
(***************************************************************************)
Records == [version : Vecs, change : Nat \ {0}, past : SUBSET Nat]

\* Sorted vectors with bounded counters, one record for each change, and what
\* happened before a change has a smaller number.
ChangesOK ==
  /\ IsFiniteSet(made) /\ Cardinality(made) <= MaxChanges /\ made \subseteq Records
  /\ cur \in [Ids -> Vecs]
  /\ seen \in [Ids -> SUBSET (1..Cardinality(made))]
  /\ \A m \in made : /\ m.change \in 1..Cardinality(made)
                     /\ m.past \subseteq 1..m.change /\ m.change \in m.past
  /\ \A m, k \in made : m.change = k.change => m = k
  /\ \A d \in Ids : cur[d] = <<>> \/ \E m \in made : m.version = cur[d]
  /\ \A m \in made, i \in Ids : Counter(m.version, i) <= MaxNow + Cardinality(made)

\* The empty slice is a vector in which all counters are zero.
LEMMA EmptyVector ==
  <<>> \in Vecs /\ \A i : Counter(<<>>, i) = 0
<1>1. <<>> \in Slices /\ Len(<<>>) = 0
  BY DEF Slices
<1>2. <<>> \in Vecs
  BY <1>1 DEF Vecs, Sorted
<1>3. \A i : ~Has(<<>>, i)
  BY <1>1 DEF Has
<1> QED BY <1>2, <1>3 DEF Counter

\* The version that a device has is as bounded as the announced ones.
LEMMA CurBounded ==
  ASSUME ChangesOK, NEW d \in Ids, NEW i \in Ids
  PROVE  Counter(cur[d], i) <= MaxNow + Cardinality(made)
<1>1. Cardinality(made) \in Nat
  BY FS_CardinalityType DEF ChangesOK
<1>2. CASE cur[d] = <<>>
  BY <1>1, <1>2, EmptyVector, VectorAssumption
<1>3. CASE cur[d] # <<>>
  BY <1>3 DEF ChangesOK
<1> QED BY <1>2, <1>3

\* Announcing a sorted vector with bounded counters keeps ChangesOK.
LEMMA AnnounceKeeps ==
  ASSUME ChangesOK, NEW d \in Ids, NEW v \in Vecs, NEW past,
         past \subseteq 1..Cardinality(made), Announce(d, v, past),
         \A i \in Ids : Counter(v, i) <= MaxNow + Cardinality(made) + 1
  PROVE  /\ ChangesOK' /\ Cardinality(made') = Cardinality(made) + 1
         /\ made' = made \cup {[version |-> v, change |-> Cardinality(made) + 1,
                                past |-> past \cup {Cardinality(made) + 1}]}
<1> DEFINE n == Cardinality(made)
           r == [version |-> v, change |-> n + 1, past |-> past \cup {n + 1}]
<1>1. n \in Nat /\ n + 1 \in Nat /\ n < MaxChanges /\ MaxChanges \in Nat /\ MaxNow \in Nat
  BY FS_CardinalityType, VectorAssumption DEF ChangesOK, Announce
<1>2. /\ cur' = [cur EXCEPT ![d] = v] /\ seen' = [seen EXCEPT ![d] = past \cup {n + 1}]
      /\ made' = made \cup {r}
  BY DEF Announce
<1>3. /\ IsFiniteSet(made) /\ made \subseteq Records /\ cur \in [Ids -> Vecs]
      /\ seen \in [Ids -> SUBSET (1..n)]
      /\ \A m \in made : m.change \in 1..n /\ m.past \subseteq 1..m.change /\ m.change \in m.past
      /\ \A m, k \in made : m.change = k.change => m = k
      /\ \A e \in Ids : cur[e] = <<>> \/ \E m \in made : m.version = cur[e]
      /\ \A m \in made, i \in Ids : Counter(m.version, i) <= MaxNow + n
  BY DEF ChangesOK
<1>4. past \subseteq 1..n /\ \A i \in Ids : Counter(v, i) <= MaxNow + n + 1
  OBVIOUS
<1> HIDE DEF n
<1>5. r.version = v /\ r.change = n + 1 /\ r.past = past \cup {n + 1}
  OBVIOUS
<1>6. past \cup {n + 1} \subseteq 1..(n + 1) /\ 1..n \subseteq 1..(n + 1) /\ n + 1 \in 1..(n + 1)
  BY <1>1, <1>4
<1>7. r \in Records
  BY <1>1, <1>6 DEF Records
<1> HIDE DEF r
<1>8. r \notin made
  BY <1>1, <1>3, <1>5
<1>9. IsFiniteSet(made') /\ Cardinality(made') = n + 1
  BY <1>2, <1>3, <1>8, FS_AddElement DEF n
<1>10. cur' \in [Ids -> Vecs] /\ made' \subseteq Records
  BY <1>2, <1>3, <1>7
<1>11. seen' \in [Ids -> SUBSET (1..(n + 1))]
  BY <1>2, <1>3, <1>6
<1>12. \A m \in made' : /\ m.change \in 1..(n + 1)
                        /\ m.past \subseteq 1..m.change /\ m.change \in m.past
  BY <1>2, <1>3, <1>5, <1>6
<1>13. \A m, k \in made' : m.change = k.change => m = k
  <2>1. \A m \in made : m.change # r.change
    BY <1>1, <1>3, <1>5
  <2> QED BY <1>2, <1>3, <2>1
<1>14. \A e \in Ids : cur'[e] = <<>> \/ \E m \in made' : m.version = cur'[e]
  BY <1>2, <1>3, <1>5
<1>15. ASSUME NEW m \in made', NEW i \in Ids PROVE Counter(m.version, i) <= MaxNow + (n + 1)
  <2>1. CASE m \in made
    <3>1. m.version \in Vecs
      BY <1>3, <2>1 DEF Records
    <3>2. Counter(m.version, i) \in Nat /\ Counter(m.version, i) <= MaxNow + n
      BY <1>3, <2>1, <3>1, CounterFacts
    <3> QED BY <1>1, <3>2
  <2>2. CASE m = r
    <3>1. Counter(v, i) \in Nat
      BY CounterFacts
    <3> QED BY <1>1, <1>4, <1>5, <2>2, <3>1
  <2> QED BY <1>2, <2>1, <2>2
<1>16. n + 1 <= MaxChanges
  BY <1>1
<1>17. ChangesOK'
  BY <1>9, <1>10, <1>11, <1>12, <1>13, <1>14, <1>15, <1>16 DEF ChangesOK
<1> QED BY <1>2, <1>9, <1>17 DEF r, n

\* The version that each action announces.
LEMMA AnnouncedVersion ==
  ASSUME ChangesOK, NEW d \in Ids, NEW v \in Vecs, NEW now \in 0..MaxNow,
         \A i \in Ids : Counter(v, i) <= MaxNow + Cardinality(made)
  PROVE  LET w == Updated(v, d, now) IN
         /\ w \in Vecs /\ Counter(w, d) > 0
         /\ Counter(w, d) = MaxOf(Counter(v, d) + 1, now)
         /\ \A i \in Ids \ {d} : Counter(w, i) = Counter(v, i)
         /\ \A i \in Ids : Counter(w, i) <= MaxNow + Cardinality(made) + 1
<1> DEFINE w == Updated(v, d, now)
<1>1. Cardinality(made) \in Nat /\ now \in Nat /\ now <= MaxNow /\ MaxNow \in Nat
  BY FS_CardinalityType, VectorAssumption DEF ChangesOK
<1>2. /\ w \in Vecs /\ Counter(w, d) = MaxOf(Counter(v, d) + 1, now)
      /\ \A i \in Ids \ {d} : Counter(w, i) = Counter(v, i)
  BY <1>1, UpdatedFacts
<1> HIDE DEF w
<1>3. \A i \in Ids : Counter(v, i) \in Nat
  BY CounterFacts
<1>4. Counter(w, d) > 0 /\ Counter(w, d) <= MaxNow + Cardinality(made) + 1
  BY <1>1, <1>2, <1>3 DEF MaxOf
<1>5. ASSUME NEW i \in Ids PROVE Counter(w, i) <= MaxNow + Cardinality(made) + 1
  <2>1. CASE i = d
    BY <1>4, <2>1
  <2>2. CASE i # d
    BY <1>1, <1>2, <1>3, <2>2
  <2> QED BY <2>1, <2>2
<1> QED BY <1>2, <1>4, <1>5 DEF w

\* The version that Override changes.
LEMMA MergedVersion ==
  ASSUME ChangesOK, NEW d \in Ids, NEW m \in made
  PROVE  LET w == Merge(cur[d], m.version) IN
         /\ w \in Vecs
         /\ \A i \in Ids : Counter(w, i) = MaxOf(Counter(cur[d], i), Counter(m.version, i))
         /\ \A i \in Ids : Counter(w, i) <= MaxNow + Cardinality(made)
<1>1. cur[d] \in Vecs /\ m.version \in Vecs
  BY DEF ChangesOK, Records
<1>2. \A i \in Ids : /\ Counter(cur[d], i) <= MaxNow + Cardinality(made)
                     /\ Counter(m.version, i) <= MaxNow + Cardinality(made)
  BY CurBounded DEF ChangesOK
<1> QED BY <1>1, <1>2, MergeFacts DEF MaxOf

\* What Change, ChangeInvalid and Override have in common: the counters of other
\* devices in the new version come from versions whose changes are in its past,
\* and the device's own counter is new.
Announced(d, v, past) ==
  /\ Announce(d, v, past)
  /\ v \in Vecs /\ past \subseteq 1..Cardinality(made) /\ seen[d] \subseteq past
  /\ \A i \in Ids : Counter(v, i) <= MaxNow + Cardinality(made) + 1
  /\ Counter(v, d) > 0
  /\ \A i \in Ids \ {d} : \/ Counter(v, i) = 0 \/ Counter(v, i) <= Counter(cur[d], i)
                          \/ \E m \in made : /\ m.past \subseteq past
                                             /\ Counter(v, i) <= Counter(m.version, i)
  /\ AnyClock \/ \A m \in made : Counter(m.version, d) < Counter(v, d)

\* A counter that ClockMovedOn compares is less than the updated one.
LEMMA NewCounter ==
  ASSUME ChangesOK, NEW d \in Ids, NEW v \in Vecs, NEW now \in 0..MaxNow,
         ClockMovedOn(d, v, now)
  PROVE  AnyClock \/ \A m \in made : Counter(m.version, d) < MaxOf(Counter(v, d) + 1, now)
<1> SUFFICES ASSUME ~AnyClock, NEW m \in made
             PROVE  Counter(m.version, d) < MaxOf(Counter(v, d) + 1, now)
  OBVIOUS
<1>1. Counter(m.version, d) \in Nat /\ Counter(v, d) \in Nat /\ now \in Nat
  BY CounterFacts, VectorAssumption DEF ChangesOK, Records
<1>2. Counter(m.version, d) <= Counter(v, d) \/ Counter(m.version, d) < now
  BY DEF ClockMovedOn
<1> QED BY <1>1, <1>2 DEF MaxOf

\* A step announces a sorted, bounded vector or takes over an announced one.
LEMMA StepCases ==
  ASSUME ChangesOK, VectorNext
  PROVE  \/ \E d \in Ids : \E v, past : Announced(d, v, past)
         \/ \E d \in Ids : \E m \in made : Take(d, m)
<1>1. \A d \in Ids : cur[d] \in Vecs /\ seen[d] \subseteq 1..Cardinality(made)
  BY DEF ChangesOK
<1>2. Cardinality(made) \in Nat
  BY FS_CardinalityType DEF ChangesOK
<1>3. ASSUME NEW d \in Ids, NEW now \in 0..MaxNow, Change(d, now)
      PROVE  \E v, past : Announced(d, v, past)
  <2> DEFINE w == Updated(cur[d], d, now)
  <2>1. \A i \in Ids : Counter(cur[d], i) <= MaxNow + Cardinality(made)
    BY CurBounded
  <2>2. /\ w \in Vecs /\ Counter(w, d) > 0
        /\ Counter(w, d) = MaxOf(Counter(cur[d], d) + 1, now)
        /\ \A i \in Ids \ {d} : Counter(w, i) = Counter(cur[d], i)
        /\ \A i \in Ids : Counter(w, i) <= MaxNow + Cardinality(made) + 1
    BY <1>1, <2>1, AnnouncedVersion
  <2>3. Announce(d, w, seen[d]) /\ ClockMovedOn(d, cur[d], now)
    BY <1>3 DEF Change
  <2> HIDE DEF w
  <2>4. AnyClock \/ \A m \in made : Counter(m.version, d) < Counter(w, d)
    BY <1>1, <2>2, <2>3, NewCounter
  <2>5. \A i \in Ids \ {d} : Counter(w, i) <= Counter(cur[d], i)
    BY <1>1, <2>2, CounterFacts
  <2>6. Announced(d, w, seen[d])
    BY <1>1, <2>2, <2>3, <2>4, <2>5 DEF Announced
  <2> QED BY <2>6
<1>4. ASSUME NEW d \in Ids, NEW now \in 0..MaxNow, ChangeInvalid(d, now)
      PROVE  \E v, past : Announced(d, v, past)
  <2> DEFINE u == Updated(cur[d], d, now)
             w == DropOthers(u, d)
  <2>1. \A i \in Ids : Counter(cur[d], i) <= MaxNow + Cardinality(made)
    BY CurBounded
  <2>2. /\ u \in Vecs /\ Counter(u, d) > 0
        /\ Counter(u, d) = MaxOf(Counter(cur[d], d) + 1, now)
        /\ \A i \in Ids : Counter(u, i) <= MaxNow + Cardinality(made) + 1
    BY <1>1, <2>1, AnnouncedVersion
  <2>3. Announce(d, w, seen[d]) /\ ClockMovedOn(d, cur[d], now)
    BY <1>4 DEF ChangeInvalid
  <2> HIDE DEF u
  <2>4. /\ w \in Vecs /\ Counter(w, d) = Counter(u, d)
        /\ \A i \in Ids \ {d} : Counter(w, i) = 0
    BY <2>2, DropFacts
  <2> HIDE DEF w
  <2>5. AnyClock \/ \A m \in made : Counter(m.version, d) < Counter(w, d)
    BY <1>1, <2>2, <2>3, <2>4, NewCounter
  <2>6. ASSUME NEW i \in Ids PROVE Counter(w, i) <= MaxNow + Cardinality(made) + 1
    BY <1>2, <2>2, <2>4, VectorAssumption
  <2>7. Announced(d, w, seen[d])
    BY <1>1, <2>2, <2>3, <2>4, <2>5, <2>6 DEF Announced
  <2> QED BY <2>7
<1>5. ASSUME NEW d \in Ids, NEW now \in 0..MaxNow, NEW m \in made, Override(d, m, now)
      PROVE  \E v, past : Announced(d, v, past)
  <2> DEFINE u == Merge(cur[d], m.version)
             w == Updated(u, d, now)
             past == seen[d] \cup m.past
  <2>1. /\ u \in Vecs
        /\ \A i \in Ids : Counter(u, i) = MaxOf(Counter(cur[d], i), Counter(m.version, i))
        /\ \A i \in Ids : Counter(u, i) <= MaxNow + Cardinality(made)
    BY MergedVersion
  <2>2. Announce(d, w, past) /\ ClockMovedOn(d, u, now)
    BY <1>5 DEF Override
  <2> HIDE DEF u
  <2>3. /\ w \in Vecs /\ Counter(w, d) > 0
        /\ Counter(w, d) = MaxOf(Counter(u, d) + 1, now)
        /\ \A i \in Ids \ {d} : Counter(w, i) = Counter(u, i)
        /\ \A i \in Ids : Counter(w, i) <= MaxNow + Cardinality(made) + 1
    BY <2>1, AnnouncedVersion
  <2> HIDE DEF w
  <2>4. AnyClock \/ \A k \in made : Counter(k.version, d) < Counter(w, d)
    BY <2>1, <2>2, <2>3, NewCounter
  <2>5. ASSUME NEW i \in Ids \ {d}
        PROVE  Counter(w, i) <= Counter(cur[d], i) \/ Counter(w, i) <= Counter(m.version, i)
    <3>1. Counter(cur[d], i) \in Nat /\ Counter(m.version, i) \in Nat
      BY <1>1, CounterFacts DEF ChangesOK, Records
    <3> QED BY <2>1, <2>3, <3>1 DEF MaxOf
  <2>6. past \subseteq 1..Cardinality(made) /\ seen[d] \subseteq past /\ m.past \subseteq past
    <3>1. m.past \subseteq 1..m.change /\ m.change \in 1..Cardinality(made)
      BY DEF ChangesOK
    <3> QED BY <1>1, <1>2, <3>1
  <2> HIDE DEF past
  <2>7. Announced(d, w, past)
    BY <2>2, <2>3, <2>4, <2>5, <2>6 DEF Announced
  <2> QED BY <2>7
<1> QED BY <1>3, <1>4, <1>5 DEF VectorNext

\* ChangesOK is inductive.
LEMMA ChangesOKNext ==
  ASSUME ChangesOK, [VectorNext]_vectorVars
  PROVE  ChangesOK'
<1>1. ASSUME NEW d \in Ids, NEW v, NEW past, Announced(d, v, past) PROVE ChangesOK'
  BY <1>1, AnnounceKeeps DEF Announced
<1>2. ASSUME NEW d \in Ids, NEW m \in made, Take(d, m) PROVE ChangesOK'
  <2>1. /\ cur' = [cur EXCEPT ![d] = m.version] /\ made' = made
        /\ seen' = [seen EXCEPT ![d] = @ \cup m.past]
    BY <1>2 DEF Take
  <2>2. cur' \in [Ids -> Vecs]
    BY <2>1 DEF ChangesOK, Records
  <2>3. m.past \subseteq 1..Cardinality(made)
    <3>1. Cardinality(made) \in Nat /\ m.past \subseteq 1..m.change /\ m.change \in 1..Cardinality(made)
      BY FS_CardinalityType DEF ChangesOK
    <3> QED BY <3>1
  <2>4. seen' \in [Ids -> SUBSET (1..Cardinality(made))]
    <3> DEFINE U == 1..Cardinality(made)
    <3>1. seen \in [Ids -> SUBSET U] /\ m.past \subseteq U
      BY <2>3 DEF ChangesOK
    <3> HIDE DEF U
    <3>2. seen' \in [Ids -> SUBSET U]
      BY <2>1, <3>1
    <3> QED BY <3>2 DEF U
  <2>5. \A e \in Ids : cur'[e] = <<>> \/ \E k \in made : k.version = cur'[e]
    BY <2>1 DEF ChangesOK
  <2> QED BY <2>1, <2>2, <2>4, <2>5 DEF ChangesOK
<1>3. CASE UNCHANGED vectorVars
  BY <1>3 DEF vectorVars, ChangesOK
<1> QED BY <1>1, <1>2, <1>3, StepCases

\* ChangesOK holds before the first change.
LEMMA ChangesOKInit ==
  ASSUME VectorInit
  PROVE  ChangesOK
<1>1. IsFiniteSet(made) /\ Cardinality(made) = 0 /\ made = {}
  BY FS_EmptySet DEF VectorInit
<1>2. cur \in [Ids -> Vecs] /\ \A d \in Ids : cur[d] = <<>>
  BY EmptyVector DEF VectorInit
<1>3. seen \in [Ids -> SUBSET (1..0)]
  BY DEF VectorInit
<1> QED BY <1>1, <1>2, <1>3, VectorAssumption DEF ChangesOK

\* Whatever the devices do, Update, Merge and DropOthers keep vectors sorted and
\* their counters bounded, and a change has only earlier ones in its past.
THEOREM ChangesOKAlways == VectorSpec => []ChangesOK
BY ChangesOKInit, ChangesOKNext, PTL DEF VectorSpec

\* The versions in use are sorted vectors with bounded counters.
LEMMA InUse ==
  ASSUME ChangesOK, NEW v \in VersionsInUse
  PROVE  v \in Vecs /\ \A i \in Ids : Counter(v, i) <= MaxNow + MaxChanges
<1>1. /\ Cardinality(made) \in Nat /\ Cardinality(made) <= MaxChanges
      /\ MaxNow \in Nat /\ MaxChanges \in Nat
  BY FS_CardinalityType, VectorAssumption DEF ChangesOK
<1>2. v \in Vecs /\ \A i \in Ids : Counter(v, i) <= MaxNow + Cardinality(made)
  BY CurBounded DEF VersionsInUse, ChangesOK, Records
<1>3. \A i \in Ids : Counter(v, i) \in Nat
  BY <1>2, CounterFacts
<1> QED BY <1>1, <1>2, <1>3

\* The vectors that devices announce or have are sorted by ID.
THEOREM VectorsSortedAlways == VectorSpec => []VectorsSorted
<1>1. ASSUME ChangesOK PROVE VectorsSorted
  <2>1. ASSUME NEW v \in VersionsInUse PROVE v \in Seq(Counters)
    <3>1. /\ v \in Vecs /\ v \in Slices /\ v \in Seq([id : Ids, value : Nat])
          /\ \A i \in Ids : Counter(v, i) <= MaxNow + MaxChanges
      BY <1>1, InUse DEF Vecs, Slices
    <3>2. ASSUME NEW k \in 1..Len(v) PROVE v[k] \in Counters
      <4>1. v[k] \in [id : Ids, value : Nat] /\ v[k].id \in Ids /\ Counter(v, v[k].id) = v[k].value
        BY <3>1, SliceFacts, PlaceFacts
      <4>2. v[k].value <= MaxNow + MaxChanges
        BY <3>1, <4>1
      <4>3. v[k].value \in 0..(MaxNow + MaxChanges)
        BY <4>1, <4>2, VectorAssumption
      <4> QED BY <4>1, <4>3 DEF Counters
    <3>3. v = [k \in 1..Len(v) |-> v[k]] /\ Len(v) \in Nat
      BY <3>1
    <3> HIDE DEF Counters
    <3> QED BY <3>2, <3>3, IsASeq
  <2>2. ASSUME NEW v \in VersionsInUse, NEW i \in 1..(Len(v) - 1) PROVE v[i].id < v[i + 1].id
    <3>1. Sorted(v) /\ Len(v) \in Nat
      BY <1>1, InUse, SliceFacts DEF Vecs
    <3>2. i \in 1..Len(v) /\ i + 1 \in 1..Len(v) /\ i < i + 1
      BY <3>1
    <3> QED BY <3>1, <3>2 DEF Sorted
  <2>3. seen \in [Ids -> SUBSET (1..MaxChanges)]
    <3>1. 1..Cardinality(made) \subseteq 1..MaxChanges
      BY <1>1, FS_CardinalityType, VectorAssumption DEF ChangesOK
    <3> QED BY <1>1, <3>1 DEF ChangesOK
  <2> QED BY <2>1, <2>2, <2>3 DEF VectorsSorted
<1> QED BY <1>1, ChangesOKAlways, PTL

\* The loop of Compare decides the documented order.
THEOREM CompareIsOrderAlways == VectorSpec => []CompareIsOrder
<1>1. ASSUME ChangesOK PROVE CompareIsOrder
  BY <1>1, InUse, CompareFacts DEF CompareIsOrder
<1> QED BY <1>1, ChangesOKAlways, PTL

\* The loop of Merge computes the least upper bound.
THEOREM MergeIsLeastAlways == VectorSpec => []MergeIsLeast
<1>1. ASSUME ChangesOK PROVE MergeIsLeast
  <2> SUFFICES ASSUME NEW v \in VersionsInUse, NEW w \in VersionsInUse
               PROVE  AsVector(Merge(v, w)) = Join(AsVector(v), AsVector(w))
    BY DEF MergeIsLeast
  <2>1. \A i \in Ids : Counter(Merge(v, w), i) = MaxOf(Counter(v, i), Counter(w, i))
    BY <1>1, InUse, MergeFacts
  <2>2. \A i \in Ids : MaxOf(Counter(v, i), Counter(w, i))
                       = IF AsVector(v)[i] >= AsVector(w)[i] THEN AsVector(v)[i] ELSE AsVector(w)[i]
    BY DEF MaxOf, AsVector
  <2> QED BY <2>1, <2>2 DEF Join, AsVector
<1> QED BY <1>1, ChangesOKAlways, PTL

\* Whoever has d's counter of k has seen the change k, and so has d.
Proves(k, d) ==
  LET c == Counter(k.version, d) IN
    /\ c > 0 /\ k.change \in seen[d]
    /\ \A m \in made : Counter(m.version, d) >= c => k.change \in m.past
    /\ \A e \in Ids : Counter(cur[e], d) >= c => k.change \in seen[e]

\* Each change has a counter that proves it: the one of the device that made it.
ChangesProved == \A k \in made : \E d \in Ids : Proves(k, d)

\* A counter that proves a change goes on doing so, as the clock of a device that
\* has lost its own counter has moved on before it gets a new one.
LEMMA ChangesProvedNext ==
  ASSUME ChangesOK, ChangesProved, ~AnyClock, [VectorNext]_vectorVars
  PROVE  ChangesProved'
<1>1. /\ \A d \in Ids : cur[d] \in Vecs /\ seen[d] \subseteq 1..Cardinality(made)
      /\ \A m \in made : m.version \in Vecs /\ m.change \in 1..Cardinality(made)
  BY DEF ChangesOK, Records
<1>2. \A i \in Ids : /\ \A d \in Ids : Counter(cur[d], i) \in Nat
                     /\ \A m \in made : Counter(m.version, i) \in Nat
  BY <1>1, CounterFacts
<1>3. ASSUME NEW e \in Ids, NEW v, NEW past, Announced(e, v, past) PROVE ChangesProved'
  <2>0. PICK n : n = Cardinality(made) + 1
    OBVIOUS
  <2> DEFINE r == [version |-> v, change |-> n, past |-> past \cup {n}]
  <2>1. /\ cur' = [cur EXCEPT ![e] = v] /\ seen' = [seen EXCEPT ![e] = past \cup {n}]
        /\ made' = made \cup {r}
    BY <1>3, <2>0 DEF Announced, Announce
  <2>2. r.version = v /\ r.change = n /\ r.past = past \cup {n}
    OBVIOUS
  <2> HIDE DEF r
  <2>3. /\ v \in Vecs /\ seen[e] \subseteq past /\ Counter(v, e) > 0
        /\ \A i \in Ids \ {e} : \/ Counter(v, i) = 0 \/ Counter(v, i) <= Counter(cur[e], i)
                                \/ \E m \in made : /\ m.past \subseteq past
                                                   /\ Counter(v, i) <= Counter(m.version, i)
        /\ \A m \in made : Counter(m.version, e) < Counter(v, e)
    BY <1>3 DEF Announced
  <2>4. \A i \in Ids : Counter(v, i) \in Nat
    BY <2>3, CounterFacts
  <2>5. cur \in [Ids -> Vecs] /\ DOMAIN seen = Ids
    BY DEF ChangesOK
  <2>6. /\ cur'[e] = v /\ seen'[e] = past \cup {n}
        /\ \A d \in Ids : d # e => cur'[d] = cur[d] /\ seen'[d] = seen[d]
    BY <2>1, <2>5
  <2>7. ASSUME NEW k \in made PROVE \E d \in Ids : Proves(k, d)'
    <3>1. PICK d \in Ids : Proves(k, d)
      BY DEF ChangesProved
    <3> DEFINE c == Counter(k.version, d)
    <3>2. /\ c \in Nat /\ c > 0 /\ k.change \in seen[d]
          /\ \A m \in made : Counter(m.version, d) >= c => k.change \in m.past
          /\ \A f \in Ids : Counter(cur[f], d) >= c => k.change \in seen[f]
      BY <1>2, <3>1 DEF Proves
    <3>3. ASSUME Counter(v, d) >= c PROVE k.change \in past
      <4>1. CASE d = e
        BY <2>3, <3>2, <4>1
      <4>2. CASE d # e
        <5>1. d \in Ids \ {e}
          BY <4>2
        <5>2. CASE Counter(v, d) = 0
          BY <3>2, <3>3, <5>2
        <5>3. CASE Counter(v, d) <= Counter(cur[e], d)
          <6>1. Counter(cur[e], d) >= c
            BY <1>2, <2>4, <3>2, <3>3, <5>3
          <6> QED BY <2>3, <3>2, <6>1
        <5>4. CASE \E m \in made : m.past \subseteq past /\ Counter(v, d) <= Counter(m.version, d)
          <6>1. PICK m \in made : m.past \subseteq past /\ Counter(v, d) <= Counter(m.version, d)
            BY <5>4
          <6>2. Counter(m.version, d) >= c
            BY <1>2, <2>4, <3>2, <3>3, <6>1
          <6> QED BY <3>2, <6>1, <6>2
        <5> QED BY <2>3, <5>1, <5>2, <5>3, <5>4
      <4> QED BY <4>1, <4>2
    <3> HIDE DEF c
    <3>4. \A m \in made' : Counter(m.version, d) >= c => k.change \in m.past
      BY <2>1, <2>2, <3>2, <3>3
    <3>5. \A f \in Ids : Counter(cur'[f], d) >= c => k.change \in seen'[f]
      BY <2>6, <3>2, <3>3
    <3>6. k.change \in seen'[d]
      BY <2>3, <2>6, <3>2
    <3>7. Proves(k, d)'
      BY <3>2, <3>4, <3>5, <3>6 DEF Proves, c
    <3> QED BY <3>7
  <2>8. \E d \in Ids : Proves(r, d)'
    <3> DEFINE c == Counter(v, e)
    <3>1. \A m \in made' : Counter(m.version, e) >= c => n \in m.past
      <4>1. \A m \in made : ~(Counter(m.version, e) >= c)
        BY <1>2, <2>3, <2>4
      <4> QED BY <2>1, <2>2, <4>1
    <3>2. \A f \in Ids : Counter(cur'[f], e) >= c => n \in seen'[f]
      <4> TAKE f \in Ids
      <4>1. CASE f = e
        BY <2>6, <4>1
      <4>2. CASE f # e
        <5>1. Counter(cur[f], e) < c
          <6>1. CASE cur[f] = <<>>
            BY <2>3, <6>1, EmptyVector
          <6>2. CASE cur[f] # <<>>
            BY <2>3, <6>2 DEF ChangesOK
          <6> QED BY <6>1, <6>2
        <5>2. ~(Counter(cur[f], e) >= c)
          BY <1>2, <2>4, <5>1
        <5> QED BY <2>6, <4>2, <5>2
      <4> QED BY <4>1, <4>2
    <3>3. n \in seen'[e] /\ c > 0
      BY <2>3, <2>6
    <3> HIDE DEF c
    <3>4. Proves(r, e)'
      BY <2>2, <3>1, <3>2, <3>3 DEF Proves, c
    <3> QED BY <3>4
  <2> QED BY <2>1, <2>7, <2>8 DEF ChangesProved
<1>4. ASSUME NEW e \in Ids, NEW t \in made, Take(e, t) PROVE ChangesProved'
  <2>1. /\ cur' = [cur EXCEPT ![e] = t.version] /\ made' = made
        /\ seen' = [seen EXCEPT ![e] = @ \cup t.past]
    BY <1>4 DEF Take
  <2>2. cur \in [Ids -> Vecs] /\ DOMAIN seen = Ids
    BY DEF ChangesOK
  <2>3. /\ cur'[e] = t.version /\ seen'[e] = seen[e] \cup t.past
        /\ \A d \in Ids : d # e => cur'[d] = cur[d] /\ seen'[d] = seen[d]
    BY <2>1, <2>2
  <2>4. ASSUME NEW k \in made PROVE \E d \in Ids : Proves(k, d)'
    <3>1. PICK d \in Ids : Proves(k, d)
      BY DEF ChangesProved
    <3> DEFINE c == Counter(k.version, d)
    <3>2. /\ c > 0 /\ k.change \in seen[d]
          /\ \A m \in made : Counter(m.version, d) >= c => k.change \in m.past
          /\ \A f \in Ids : Counter(cur[f], d) >= c => k.change \in seen[f]
      BY <3>1 DEF Proves
    <3> HIDE DEF c
    <3>3. \A f \in Ids : Counter(cur'[f], d) >= c => k.change \in seen'[f]
      BY <2>3, <3>2
    <3>4. k.change \in seen'[d]
      BY <2>3, <3>2
    <3>5. Proves(k, d)'
      BY <2>1, <3>2, <3>3, <3>4 DEF Proves, c
    <3> QED BY <3>5
  <2> QED BY <2>1, <2>4 DEF ChangesProved
<1>5. CASE UNCHANGED vectorVars
  BY <1>5 DEF vectorVars, ChangesProved, Proves
<1> QED BY <1>3, <1>4, <1>5, StepCases

\* As long as a device's clock has moved on when it has lost its own counter, a
\* greater version was made by a device that had seen the other one, and no two
\* changes get equal vectors.
THEOREM NoSilentLossAlways ==
  ASSUME ~AnyClock
  PROVE  VectorSpec => []NoSilentLoss
<1>1. VectorInit => ChangesProved
  BY DEF VectorInit, ChangesProved
<1>2. ChangesOK /\ ChangesProved /\ [VectorNext]_vectorVars => ChangesProved'
  BY ChangesProvedNext
<1>3. ASSUME ChangesOK, ChangesProved PROVE NoSilentLoss
  <2>1. \A m \in made : m.version \in Vecs /\ m.version \in VersionsInUse
    BY <1>3 DEF ChangesOK, Records, VersionsInUse
  <2>2. ASSUME NEW m \in made, NEW k \in made,
               \A i \in Ids : Counter(m.version, i) >= Counter(k.version, i)
        PROVE  k.change \in m.past
    BY <1>3, <2>2 DEF ChangesProved, Proves
  <2>3. ASSUME NEW m \in made, NEW k \in made
        PROVE  /\ Compare(m.version, k.version) = Ordering(AsVector(m.version), AsVector(k.version))
               /\ \A i \in Ids : /\ AsVector(m.version)[i] = Counter(m.version, i)
                                 /\ AsVector(k.version)[i] = Counter(k.version, i)
                                 /\ Counter(m.version, i) \in Nat
    BY <2>1, CompareFacts, AsVectorFacts, CounterFacts
  <2>4. ASSUME NEW m \in made, NEW k \in made, Compare(m.version, k.version) = "Greater"
        PROVE  k.change \in m.past
    <3>1. Ordering(AsVector(m.version), AsVector(k.version)) = "Greater"
      BY <2>3, <2>4
    <3>2. GreaterEqual(AsVector(m.version), AsVector(k.version))
      BY <3>1 DEF Ordering
    <3>3. \A i \in Ids : Counter(m.version, i) >= Counter(k.version, i)
      BY <2>3, <3>2 DEF GreaterEqual
    <3> QED BY <2>2, <3>3
  <2>5. ASSUME NEW m \in made, NEW k \in made, Compare(m.version, k.version) = "Equal"
        PROVE  m = k
    <3>1. Ordering(AsVector(m.version), AsVector(k.version)) = "Equal"
      BY <2>3, <2>5
    <3>2. AsVector(m.version) = AsVector(k.version)
      BY <3>1 DEF Ordering
    <3>3. \A i \in Ids : Counter(m.version, i) = Counter(k.version, i) /\ Counter(m.version, i) \in Nat
      BY <2>3, <3>2
    <3>4. k.change \in m.past /\ m.change \in k.past
      BY <2>2, <3>3
    <3>5. /\ m.past \subseteq 1..m.change /\ k.past \subseteq 1..k.change
          /\ m.change \in Nat /\ k.change \in Nat
      BY <1>3 DEF ChangesOK, Records
    <3>6. m.change = k.change
      BY <3>4, <3>5
    <3> QED BY <1>3, <3>6 DEF ChangesOK
  <2> QED BY <2>4, <2>5 DEF NoSilentLoss
<1> QED BY <1>1, <1>2, <1>3, ChangesOKAlways, PTL DEF VectorSpec

----------------------------------------------------------------------------
(***************************************************************************)
(* The files table.  First what holds for any number of devices, any names,*)
(* versions, modification times and orders in which the query returns the  *)
(* rows, also where fileRow.Compare is not a total order.                  *)
(***************************************************************************)
Tables == [Devices -> [Names -> Rows \cup {NoRow}]]

\* The invariant is inductive as it stands; its parts need one another.
FlagsInv == TypeOK /\ OneGlobal /\ NeedOnRemoteGlobal /\ NeedIsReal

----------------------------------------------------------------------------
\* The devices with a row for n are finitely many.
LEMMA HoldersFinite ==
  ASSUME NEW fs, NEW n
  PROVE  /\ IsFiniteSet(Holders(fs, n)) /\ Cardinality(Holders(fs, n)) \in Nat
         /\ Holders(fs, n) # {} => Cardinality(Holders(fs, n)) >= 1
<1>1. IsFiniteSet(Devices)
  BY FS_Interval, DatabaseAssumption DEF Devices
<1>2. IsFiniteSet(Holders(fs, n))
  BY <1>1, FS_Subset DEF Holders
<1> QED BY <1>2, FS_CardinalityType, FS_EmptySet

\* A sorted list has the rows of the name, and the global row is one of them.
LEMMA SortedFacts ==
  ASSUME NEW fs, NEW n, Holders(fs, n) # {}, NEW es \in SortedRows(fs, n)
  PROVE  /\ DOMAIN es \subseteq Nat
         /\ GlobalPosition(fs, n, es) \in DOMAIN es
         /\ \A i \in DOMAIN es : es[i] \in Holders(fs, n)
         /\ \A d \in Holders(fs, n) : \E i \in DOMAIN es : es[i] = d
<1> DEFINE H == Holders(fs, n)
<1>1. /\ es \in [1..Cardinality(H) -> H]
      /\ \A d \in H : \E i \in 1..Cardinality(H) : es[i] = d
  BY DEF SortedRows
<1>2. DOMAIN es = 1..Cardinality(H)
  BY <1>1
<1>3. 1 \in DOMAIN es /\ DOMAIN es \subseteq Nat
  BY <1>2, HoldersFinite
<1>4. GlobalPosition(fs, n, es) \in DOMAIN es
  <2> DEFINE valid == {i \in DOMAIN es : ~fs[es[i]][n].invalid}
  <2>1. CASE valid = {}
    BY <1>3, <2>1 DEF GlobalPosition
  <2>2. CASE valid # {}
    <3>1. \E i \in valid : \A j \in valid : i <= j
      BY <1>3, <2>2, LeastElement
    <3>2. (CHOOSE i \in valid : \A j \in valid : i <= j) \in valid
      BY <3>1
    <3> QED BY <2>2, <3>2 DEF GlobalPosition
  <2> QED BY <2>1, <2>2
<1> QED BY <1>1, <1>2, <1>3, <1>4

\* The row that recalcGlobalForFile chooses exists; when it is needed, it is
\* valid, another device's, and not what the local device has.
LEMMA WinnerFacts ==
  ASSUME NEW fs, NEW n, Holders(fs, n) # {}, NEW es \in SortedRows(fs, n),
         NEW g, g = es[GlobalPosition(fs, n, es)]
  PROVE  /\ g \in Devices /\ fs[g][n] # NoRow
         /\ ~HasLocal(fs, n, es) =>
              /\ g # Local
              /\ IF fs[Local][n] = NoRow THEN fs[g][n].version \notin Deleted
                 ELSE fs[Local][n].version # fs[g][n].version
<1> DEFINE p == GlobalPosition(fs, n, es)
<1>1. p \in DOMAIN es /\ p \in Nat /\ g \in Holders(fs, n)
  BY SortedFacts
<1>2. g \in Devices /\ fs[g][n] # NoRow
  BY <1>1 DEF Holders
<1>3. ASSUME ~HasLocal(fs, n, es) PROVE g # Local
  BY <1>1, <1>3 DEF HasLocal
<1>4. ASSUME ~HasLocal(fs, n, es), fs[Local][n] = NoRow
      PROVE  fs[g][n].version \notin Deleted
  BY <1>4 DEF HasLocal
<1>5. ASSUME ~HasLocal(fs, n, es), fs[Local][n] # NoRow
      PROVE  fs[Local][n].version # fs[g][n].version
  <2>1. Local \in Holders(fs, n)
    BY <1>5, DatabaseAssumption DEF Holders, Local, Devices
  <2>2. PICK i \in DOMAIN es : es[i] = Local
    BY <2>1, SortedFacts
  <2> QED BY <1>5, <2>2 DEF HasLocal
<1> QED BY <1>2, <1>3, <1>4, <1>5

----------------------------------------------------------------------------
\* The flags glob and need are right for the names that are not in ns.
RightElsewhere(fs, ns, glob, need) ==
  /\ glob \in SUBSET (Devices \X Names) /\ need \in SUBSET (Devices \X Names)
  /\ \A p \in glob \cup need : p[2] \notin ns => fs[p[1]][p[2]] # NoRow
  /\ \A n \in Names \ ns : Holders(fs, n) # {} =>
       \E d \in Devices : \A k \in Devices : <<k, n>> \in glob <=> k = d
  /\ \A p \in need : p[2] \notin ns =>
       /\ p \in glob /\ p[1] # Local /\ ~fs[p[1]][p[2]].invalid
       /\ IF fs[Local][p[2]] = NoRow THEN fs[p[1]][p[2]].version \notin Deleted
          ELSE fs[Local][p[2]].version # fs[p[1]][p[2]].version

\* Recalculating the names ns makes their flags right and leaves the flags of
\* the other names, which were right, alone.
LEMMA RecalculateStep ==
  ASSUME NEW fs \in Tables, NEW ns \in SUBSET Names,
         \A n \in ns : Holders(fs, n) # {},
         NEW glob, NEW need, RightElsewhere(fs, ns, glob, need),
         files' = fs, RecalculateSome(fs, ns, glob, need)
  PROVE  FlagsInv'
<1>0. /\ glob \in SUBSET (Devices \X Names) /\ need \in SUBSET (Devices \X Names)
      /\ \A p \in glob \cup need : p[2] \notin ns => fs[p[1]][p[2]] # NoRow
      /\ \A n \in Names \ ns : Holders(fs, n) # {} =>
           \E d \in Devices : \A k \in Devices : <<k, n>> \in glob <=> k = d
      /\ \A p \in need : p[2] \notin ns =>
           /\ p \in glob /\ p[1] # Local /\ ~fs[p[1]][p[2]].invalid
           /\ IF fs[Local][p[2]] = NoRow THEN fs[p[1]][p[2]].version \notin Deleted
              ELSE fs[Local][p[2]].version # fs[p[1]][p[2]].version
  BY DEF RightElsewhere
<1>1. PICK es \in [ns -> UNION {SortedRows(fs, n) : n \in ns}] :
        /\ \A n \in ns : es[n] \in SortedRows(fs, n)
        /\ Recalculate(fs, ns, es, glob, need)
  BY DEF RecalculateSome
<1> DEFINE winner(n) == es[n][GlobalPosition(fs, n, es[n])]
           wanted    == {n \in ns : /\ ~HasLocal(fs, n, es[n])
                                    /\ ~fs[winner(n)][n].invalid}
<1>2. /\ global' = {p \in glob : p[2] \notin ns} \cup {<<winner(n), n>> : n \in ns}
      /\ needed' = {p \in need : p[2] \notin ns} \cup {<<winner(n), n>> : n \in wanted}
  BY <1>1 DEF Recalculate
<1>3. \A n \in ns : winner(n) \in Devices /\ fs[winner(n)][n] # NoRow
  BY <1>1, WinnerFacts
<1>4. \A n \in wanted :
        /\ n \in ns /\ ~fs[winner(n)][n].invalid /\ winner(n) # Local
        /\ IF fs[Local][n] = NoRow THEN fs[winner(n)][n].version \notin Deleted
           ELSE fs[Local][n].version # fs[winner(n)][n].version
  BY <1>1, WinnerFacts
<1> HIDE DEF winner, wanted
<1>5. TypeOK'
  BY <1>0, <1>2, <1>3, <1>4 DEF TypeOK, Tables
<1>6. OneGlobal'
  <2>1. \A p \in global' \cup needed' : fs[p[1]][p[2]] # NoRow
    BY <1>0, <1>2, <1>3, <1>4
  <2>2. ASSUME NEW n \in Names, Holders(fs, n) # {}
        PROVE  \E d \in Devices : \A k \in Devices : <<k, n>> \in global' <=> k = d
    <3>1. CASE n \in ns
      <4>1. \A k \in Devices : <<k, n>> \in global' <=> k = winner(n)
        BY <1>2, <3>1
      <4> QED BY <1>3, <3>1, <4>1
    <3>2. CASE n \notin ns
      <4>1. \A k \in Devices : <<k, n>> \in global' <=> <<k, n>> \in glob
        BY <1>2, <3>2
      <4> QED BY <1>0, <2>2, <3>2, <4>1
    <3> QED BY <3>1, <3>2
  <2> QED BY <2>1, <2>2 DEF OneGlobal
<1>7. NeedOnRemoteGlobal'
  <2>1. needed' \subseteq global'
    BY <1>0, <1>2, <1>4
  <2>2. \A n \in Names : <<Local, n>> \notin needed'
    BY <1>0, <1>2, <1>4
  <2> QED BY <2>1, <2>2 DEF NeedOnRemoteGlobal
<1>8. NeedIsReal'
  <2> SUFFICES ASSUME NEW p \in needed'
               PROVE  /\ p[1] # Local /\ ~fs[p[1]][p[2]].invalid
                      /\ IF fs[Local][p[2]] = NoRow
                         THEN fs[p[1]][p[2]].version \notin Deleted
                         ELSE fs[Local][p[2]].version # fs[p[1]][p[2]].version
    BY DEF NeedIsReal
  <2>1. CASE p \in need /\ p[2] \notin ns
    BY <1>0, <2>1
  <2>2. CASE \E n \in wanted : p = <<winner(n), n>>
    <3>1. PICK n \in wanted : p = <<winner(n), n>>
      BY <2>2
    <3>2. p[1] = winner(n) /\ p[2] = n
      BY <3>1
    <3> QED BY <1>4, <3>2
  <2> QED BY <1>2, <2>1, <2>2
<1> QED BY <1>5, <1>6, <1>7, <1>8 DEF FlagsInv

----------------------------------------------------------------------------
\* A row is inserted or replaced.
LEMMA UpdateStep ==
  ASSUME FlagsInv, NEW d \in Devices, NEW n \in Names, NEW r \in Rows, Update(d, n, r)
  PROVE  FlagsInv'
<1> DEFINE fs == [files EXCEPT ![d][n] = r]
<1>1. fs \in Tables /\ fs[d][n] = r /\ r # NoRow
  BY DatabaseAssumption DEF FlagsInv, TypeOK, Tables
<1>2. \A k \in Devices, m \in Names : m # n => fs[k][m] = files[k][m]
  BY DEF FlagsInv, TypeOK
<1>3. files' = fs /\ RecalculateSome(fs, {n}, global \ {<<d, n>>}, needed \ {<<d, n>>})
  BY DEF Update
<1>4. \A m \in Names : m # n => Holders(fs, m) = Holders(files, m)
  BY <1>2 DEF Holders
<1>5. d \in Holders(fs, n)
  BY <1>1 DEF Holders
<1>6. Local \in Devices
  BY DatabaseAssumption DEF Local, Devices
<1> HIDE DEF fs
<1>7. \A p \in global \cup needed : p[1] \in Devices /\ p[2] \in Names
  BY DEF FlagsInv, TypeOK
<1>8. \A p \in (global \ {<<d, n>>}) \cup (needed \ {<<d, n>>}) :
        p[2] \notin {n} => fs[p[1]][p[2]] # NoRow
  BY <1>2, <1>7 DEF FlagsInv, OneGlobal
<1>9. \A m \in Names \ {n} : Holders(fs, m) # {} =>
        \E e \in Devices : \A k \in Devices : <<k, m>> \in global \ {<<d, n>>} <=> k = e
  <2> SUFFICES ASSUME NEW m \in Names \ {n}, Holders(files, m) # {}
               PROVE  \E e \in Devices : \A k \in Devices :
                        <<k, m>> \in global \ {<<d, n>>} <=> k = e
    BY <1>4
  <2>1. \A k \in Devices : <<k, m>> \in global \ {<<d, n>>} <=> <<k, m>> \in global
    OBVIOUS
  <2> QED BY <2>1 DEF FlagsInv, OneGlobal
<1>10. \A p \in needed \ {<<d, n>>} : p[2] \notin {n} =>
         /\ p \in global \ {<<d, n>>} /\ p[1] # Local /\ ~fs[p[1]][p[2]].invalid
         /\ IF fs[Local][p[2]] = NoRow THEN fs[p[1]][p[2]].version \notin Deleted
            ELSE fs[Local][p[2]].version # fs[p[1]][p[2]].version
  BY <1>2, <1>6, <1>7 DEF FlagsInv, NeedOnRemoteGlobal, NeedIsReal
<1>11. {n} \in SUBSET Names /\ \A m \in {n} : Holders(fs, m) # {}
  BY <1>5
<1>12. /\ global \ {<<d, n>>} \in SUBSET (Devices \X Names)
       /\ needed \ {<<d, n>>} \in SUBSET (Devices \X Names)
  BY DEF FlagsInv, TypeOK
<1>13. RightElsewhere(fs, {n}, global \ {<<d, n>>}, needed \ {<<d, n>>})
  BY <1>8, <1>9, <1>10, <1>12 DEF RightElsewhere
<1> QED BY <1>1, <1>3, <1>11, <1>13, RecalculateStep

\* What is left of the flags when device d's rows of the names ns are gone:
\* only names outside of recalc keep their flags, and theirs are right.
LEMMA DropStep ==
  ASSUME FlagsInv, NEW d \in Devices, NEW ns \in SUBSET Names, NEW fs \in Tables,
         \A k \in Devices, m \in Names :
           fs[k][m] = IF k = d /\ m \in ns THEN NoRow ELSE files[k][m],
         NEW recalc \in SUBSET Names,
         \A m \in recalc : Holders(fs, m) # {},
         d = Local => \A m \in ns : Holders(fs, m) # {} => m \in recalc,
         \A m \in Names \ recalc : Holders(fs, m) # {} =>
           \E k \in Devices : <<k, m>> \in Remaining(global, d, ns),
         files' = fs,
         RecalculateSome(fs, recalc, Remaining(global, d, ns), Remaining(needed, d, ns))
  PROVE  FlagsInv'
<1>1. Local \in Devices
  BY DatabaseAssumption DEF Local, Devices
<1>2. /\ Remaining(global, d, ns) \in SUBSET (Devices \X Names)
      /\ Remaining(needed, d, ns) \in SUBSET (Devices \X Names)
  BY DEF FlagsInv, TypeOK, Remaining
<1>3. \A p \in Remaining(global, d, ns) \cup Remaining(needed, d, ns) :
        /\ p[1] \in Devices /\ p[2] \in Names
        /\ ~(p[1] = d /\ p[2] \in ns)
        /\ p \in global \cup needed
  BY <1>2 DEF Remaining
<1>4. \A p \in Remaining(global, d, ns) \cup Remaining(needed, d, ns) :
        fs[p[1]][p[2]] = files[p[1]][p[2]] /\ fs[p[1]][p[2]] # NoRow
  BY <1>3 DEF FlagsInv, OneGlobal
<1>5. ASSUME NEW m \in Names \ recalc, Holders(fs, m) # {}
      PROVE  \E e \in Devices : \A k \in Devices :
               <<k, m>> \in Remaining(global, d, ns) <=> k = e
  <2>1. PICK e \in Devices : <<e, m>> \in Remaining(global, d, ns)
    BY <1>5
  <2>2. Holders(files, m) # {}
    BY <1>5 DEF Holders
  <2>3. PICK c \in Devices : \A k \in Devices : <<k, m>> \in global <=> k = c
    BY <2>2 DEF FlagsInv, OneGlobal
  <2>4. e = c
    BY <2>1, <2>3 DEF Remaining
  <2>5. \A k \in Devices : <<k, m>> \in Remaining(global, d, ns) => k = e
    BY <2>3, <2>4 DEF Remaining
  <2> QED BY <2>1, <2>5
<1>6. ASSUME NEW p \in Remaining(needed, d, ns), p[2] \notin recalc
      PROVE  /\ p \in Remaining(global, d, ns) /\ p[1] # Local
             /\ ~fs[p[1]][p[2]].invalid
             /\ IF fs[Local][p[2]] = NoRow THEN fs[p[1]][p[2]].version \notin Deleted
                ELSE fs[Local][p[2]].version # fs[p[1]][p[2]].version
  <2>1. p \in needed /\ p \in global /\ p[1] \in Devices /\ p[2] \in Names
    BY <1>2 DEF Remaining, FlagsInv, NeedOnRemoteGlobal
  <2>2. p \in Remaining(global, d, ns)
    BY <2>1 DEF Remaining
  <2>3. fs[p[1]][p[2]] = files[p[1]][p[2]]
    BY <1>4
  <2>4. p[1] \in Holders(fs, p[2])
    BY <1>4, <2>1 DEF Holders
  <2>5. fs[Local][p[2]] = files[Local][p[2]]
    BY <1>1, <1>6, <2>1, <2>4
  <2> QED BY <2>1, <2>2, <2>3, <2>5 DEF FlagsInv, NeedIsReal
<1>7. RightElsewhere(fs, recalc, Remaining(global, d, ns), Remaining(needed, d, ns))
  BY <1>2, <1>4, <1>5, <1>6 DEF RightElsewhere
<1> QED BY <1>7, RecalculateStep

\* The two ways to drop rows.
LEMMA DropAllFilesStep ==
  ASSUME FlagsInv, NEW d \in Devices, DropAllFiles(d)
  PROVE  FlagsInv'
<1> DEFINE fs   == [files EXCEPT ![d] = [n \in Names |-> NoRow]]
           glob == Remaining(global, d, Names)
<1>1. fs \in Tables
  BY DEF FlagsInv, TypeOK, Tables
<1>2. \A k \in Devices, m \in Names :
        fs[k][m] = IF k = d /\ m \in Names THEN NoRow ELSE files[k][m]
  BY DEF FlagsInv, TypeOK
<1>3. /\ files' = fs /\ d # Local
      /\ RecalculateSome(fs, NamesWithoutGlobal(fs, glob), glob, Remaining(needed, d, Names))
  BY DEF DropAllFiles
<1>4. /\ NamesWithoutGlobal(fs, glob) \in SUBSET Names
      /\ \A m \in NamesWithoutGlobal(fs, glob) : Holders(fs, m) # {}
      /\ \A m \in Names \ NamesWithoutGlobal(fs, glob) :
           Holders(fs, m) # {} => \E k \in Devices : <<k, m>> \in glob
  BY DEF NamesWithoutGlobal
<1> HIDE DEF fs
<1> QED BY <1>1, <1>2, <1>3, <1>4, DropStep

\* DropFilesNamed recalculates every name it has dropped and keeps the invariant.
LEMMA DropFilesNamedStep ==
  ASSUME FlagsInv, NEW ns \in SUBSET Names, DropFilesNamed(ns)
  PROVE  FlagsInv'
<1> DEFINE fs   == [files EXCEPT ![Local] = [n \in Names |->
                                               IF n \in ns THEN NoRow ELSE @[n]]]
           left == {n \in ns : Holders(fs, n) # {}}
<1>0. Local \in Devices
  BY DatabaseAssumption DEF Local, Devices
<1>1. fs \in Tables
  BY <1>0 DEF FlagsInv, TypeOK, Tables
<1>2. \A k \in Devices, m \in Names :
        fs[k][m] = IF k = Local /\ m \in ns THEN NoRow ELSE files[k][m]
  BY <1>0 DEF FlagsInv, TypeOK
<1>3. /\ files' = fs
      /\ RecalculateSome(fs, left, Remaining(global, Local, ns),
                         Remaining(needed, Local, ns))
  BY DEF DropFilesNamed
<1> HIDE DEF fs
<1>4. ASSUME NEW m \in Names \ left, Holders(fs, m) # {}
      PROVE  \E k \in Devices : <<k, m>> \in Remaining(global, Local, ns)
  <2>1. m \notin ns
    BY <1>4
  <2>2. Holders(files, m) # {}
    BY <1>2, <1>4 DEF Holders
  <2>3. PICK k \in Devices : <<k, m>> \in global
    BY <2>2 DEF FlagsInv, OneGlobal
  <2> QED BY <2>1, <2>3 DEF Remaining
<1>5. /\ left \in SUBSET Names /\ \A m \in left : Holders(fs, m) # {}
      /\ \A m \in ns : Holders(fs, m) # {} => m \in left
  OBVIOUS
<1> HIDE DEF left
<1> QED BY <1>0, <1>1, <1>2, <1>3, <1>4, <1>5, DropStep

----------------------------------------------------------------------------
\* The empty database, and every transaction.
LEMMA FlagsInit == Init => FlagsInv
  BY DatabaseAssumption
     DEF Init, FlagsInv, TypeOK, OneGlobal, NeedOnRemoteGlobal, NeedIsReal, Holders

\* No operation on the files table breaks the invariant of the flags.
LEMMA FlagsStep ==
  ASSUME FlagsInv, [Next]_vars
  PROVE  FlagsInv'
<1>1. ASSUME NEW d \in Devices, NEW n \in Names, NEW r \in Rows, Update(d, n, r)
      PROVE  FlagsInv'
  BY <1>1, UpdateStep
<1>2. ASSUME NEW d \in Devices, DropAllFiles(d) PROVE FlagsInv'
  BY <1>2, DropAllFilesStep
<1>3. ASSUME NEW ns \in SUBSET Names, DropFilesNamed(ns) PROVE FlagsInv'
  BY <1>3, DropFilesNamedStep
<1>4. CASE UNCHANGED vars
  BY <1>4 DEF vars, FlagsInv, TypeOK, OneGlobal, NeedOnRemoteGlobal, NeedIsReal, Holders
<1> QED BY <1>1, <1>2, <1>3, <1>4 DEF Next

\* Every name with rows has exactly one Global row, on a row that exists, in
\* every state between transactions: whatever is updated or dropped, also where
\* fileRow.Compare is circular.
THEOREM GlobalIsUnique == Spec => []OneGlobal
<1>1. FlagsInv /\ [Next]_vars => FlagsInv'
  BY FlagsStep
<1>2. FlagsInv => OneGlobal
  BY DEF FlagsInv
<1> QED BY FlagsInit, <1>1, <1>2, PTL DEF Spec

\* The Needed flag is only ever on a Global row of another device, so what the
\* puller takes from the database is never its own row.
THEOREM NeedIsOnRemoteGlobal == Spec => []NeedOnRemoteGlobal
<1>1. FlagsInv /\ [Next]_vars => FlagsInv'
  BY FlagsStep
<1>2. FlagsInv => NeedOnRemoteGlobal
  BY DEF FlagsInv
<1> QED BY FlagsInit, <1>1, <1>2, PTL DEF Spec

\* A needed row is valid and is not what the local device has, and a deletion is
\* never needed where there is nothing to delete; dropping the rows of a device
\* recalculates enough for this to stay true.
THEOREM NeededIsLacking == Spec => []NeedIsReal
<1>1. FlagsInv /\ [Next]_vars => FlagsInv'
  BY FlagsStep
<1>2. FlagsInv => NeedIsReal
  BY DEF FlagsInv
<1> QED BY FlagsInit, <1>1, <1>2, PTL DEF Spec

----------------------------------------------------------------------------
(***************************************************************************)
(* fileRow.Compare is total between rows of different devices; without     *)
(* circles it is an order, and the flags are the ones of its best row.     *)
(***************************************************************************)

\* Of two different vectors, one is greater where they first differ.
LEMMA FirstGreaterTotal ==
  ASSUME NEW a \in Vectors, NEW b \in Vectors, a # b
  PROVE  FirstGreater(a, b) <=> ~FirstGreater(b, a)
<1>1. Ids \subseteq Nat
  BY NumIdsAssumption DEF Ids
<1>2. \A i \in Ids : a[i] \in Nat /\ b[i] \in Nat
  BY DEF Vectors
<1> DEFINE D == {i \in Ids : a[i] # b[i]}
<1>3. D # {} /\ D \subseteq Nat
  <2>1. \E i \in Ids : a[i] # b[i]
    BY DEF Vectors
  <2> QED BY <1>1, <2>1
<1>4. PICK l \in D : \A j \in D : l <= j
  BY <1>3, LeastElement
<1>5. l \in Ids /\ l \in Nat /\ a[l] # b[l] /\ \A j \in Ids : j < l => a[j] = b[j]
  BY <1>1, <1>4
<1>6. a[l] > b[l] => FirstGreater(a, b)
  BY <1>5 DEF FirstGreater
<1>7. b[l] > a[l] => FirstGreater(b, a)
  BY <1>5 DEF FirstGreater
<1>8. ASSUME FirstGreater(a, b) PROVE a[l] > b[l]
  <2>1. PICK i \in Ids : a[i] > b[i] /\ \A j \in Ids : j < i => a[j] = b[j]
    BY <1>8 DEF FirstGreater
  <2>2. i < l \/ i = l \/ l < i
    BY <1>1, <1>5
  <2> QED BY <1>2, <1>5, <2>1, <2>2
<1>9. ASSUME FirstGreater(b, a) PROVE b[l] > a[l]
  <2>1. PICK i \in Ids : b[i] > a[i] /\ \A j \in Ids : j < i => b[j] = a[j]
    BY <1>9 DEF FirstGreater
  <2>2. i < l \/ i = l \/ l < i
    BY <1>1, <1>5
  <2> QED BY <1>2, <1>5, <2>1, <2>2
<1>10. a[l] > b[l] <=> ~(b[l] > a[l])
  BY <1>2, <1>5
<1> QED BY <1>6, <1>7, <1>8, <1>9, <1>10

\* The order seen from the other side.
LEMMA OrderingSwaps ==
  ASSUME NEW a \in Vectors, NEW b \in Vectors
  PROVE  /\ Ordering(a, b) \in {"Equal", "Greater", "Lesser"} \cup Settled
         /\ Ordering(a, b) = "Equal" <=> a = b
         /\ Ordering(a, b) = "Equal" <=> Ordering(b, a) = "Equal"
         /\ Ordering(a, b) = "Greater" <=> Ordering(b, a) = "Lesser"
         /\ Ordering(a, b) = "Lesser" <=> Ordering(b, a) = "Greater"
         /\ Ordering(a, b) = "ConcurrentGreater" <=> Ordering(b, a) = "ConcurrentLesser"
         /\ Ordering(a, b) = "ConcurrentLesser" <=> Ordering(b, a) = "ConcurrentGreater"
<1>1. \A i \in Ids : a[i] \in Nat /\ b[i] \in Nat
  BY DEF Vectors
<1>2. GreaterEqual(a, b) /\ GreaterEqual(b, a) => a = b
  BY <1>1 DEF GreaterEqual, Vectors
<1>3. a # b => (FirstGreater(a, b) <=> ~FirstGreater(b, a))
  BY FirstGreaterTotal
<1> QED BY <1>2, <1>3 DEF Ordering, Settled

\* The types of a row, its version and its time.
LEMMA RowTypes ==
  ASSUME NEW e \in Rows
  PROVE  /\ e.version \in Versions /\ e.version \in Vectors /\ Modified[e.version] \in Nat
         /\ e.invalid \in BOOLEAN
<1>1. e.version \in Versions /\ e.invalid \in (IF AllowInvalid THEN BOOLEAN ELSE {FALSE})
  BY DEF Rows
<1> QED BY <1>1, DatabaseAssumption

\* Of the rows of two devices one comes first.
LEMMA BeforeTotal ==
  ASSUME NEW d \in Devices, NEW k \in Devices, d # k, NEW e \in Rows, NEW f \in Rows
  PROVE  Before(d, e, k, f) <=> ~Before(k, f, d, e)
<1> DEFINE o == Ordering(e.version, f.version)
           q == Ordering(f.version, e.version)
           i == e.invalid
           j == f.invalid
           x == Modified[e.version]
           y == Modified[f.version]
<1>1. /\ o \in {"Equal", "Greater", "Lesser", "ConcurrentGreater", "ConcurrentLesser"}
      /\ o = "Equal" <=> q = "Equal"
      /\ o = "Greater" <=> q = "Lesser"
      /\ o = "Lesser" <=> q = "Greater"
      /\ o = "ConcurrentGreater" <=> q = "ConcurrentLesser"
      /\ o = "ConcurrentLesser" <=> q = "ConcurrentGreater"
  BY OrderingSwaps, RowTypes DEF Settled
<1>2. i \in BOOLEAN /\ j \in BOOLEAN /\ x \in Nat /\ y \in Nat
  BY RowTypes
<1>3. d \in Nat /\ k \in Nat /\ (d < k <=> ~(k < d))
  BY DatabaseAssumption DEF Devices
<1>4. x = y \/ (x > y /\ ~(y > x)) \/ (y > x /\ ~(x > y))
  BY <1>2
<1>5. Before(d, e, k, f) <=>
        CASE o = "Greater" -> TRUE
          [] o = "Lesser" -> FALSE
          [] o = "Equal" -> IF i # j THEN j ELSE d < k
          [] o \in {"ConcurrentGreater", "ConcurrentLesser"} ->
               IF i # j THEN j ELSE IF x # y THEN x > y ELSE o = "ConcurrentGreater"
  BY DEF Before
<1>6. Before(k, f, d, e) <=>
        CASE q = "Greater" -> TRUE
          [] q = "Lesser" -> FALSE
          [] q = "Equal" -> IF j # i THEN i ELSE k < d
          [] q \in {"ConcurrentGreater", "ConcurrentLesser"} ->
               IF j # i THEN i ELSE IF y # x THEN y > x ELSE q = "ConcurrentGreater"
  BY DEF Before
<1> HIDE DEF o, q, i, j, x, y
<1>7. CASE o = "Greater"
  BY <1>1, <1>5, <1>6, <1>7
<1>8. CASE o = "Lesser"
  BY <1>1, <1>5, <1>6, <1>8
<1>9. CASE o = "Equal"
  <2>1. q = "Equal"
    BY <1>1, <1>9
  <2>2. Before(d, e, k, f) <=> (IF i # j THEN j ELSE d < k)
    BY <1>5, <1>9
  <2>3. Before(k, f, d, e) <=> (IF j # i THEN i ELSE k < d)
    BY <1>6, <2>1
  <2> QED BY <1>2, <1>3, <2>2, <2>3
<1>10. CASE o = "ConcurrentGreater"
  <2>1. q = "ConcurrentLesser"
    BY <1>1, <1>10
  <2>2. Before(d, e, k, f) <=> (IF i # j THEN j ELSE IF x # y THEN x > y ELSE TRUE)
    BY <1>5, <1>10
  <2>3. Before(k, f, d, e) <=> (IF j # i THEN i ELSE IF y # x THEN y > x ELSE FALSE)
    BY <1>6, <2>1
  <2> QED BY <1>2, <1>4, <2>2, <2>3
<1>11. CASE o = "ConcurrentLesser"
  <2>1. q = "ConcurrentGreater"
    BY <1>1, <1>11
  <2>2. Before(d, e, k, f) <=> (IF i # j THEN j ELSE IF x # y THEN x > y ELSE FALSE)
    BY <1>5, <1>11
  <2>3. Before(k, f, d, e) <=> (IF j # i THEN i ELSE IF y # x THEN y > x ELSE TRUE)
    BY <1>6, <2>1
  <2> QED BY <1>2, <1>4, <2>2, <2>3
<1> QED BY <1>1, <1>7, <1>8, <1>9, <1>10, <1>11

----------------------------------------------------------------------------
\* The row of d for n comes before the one of k.
Ahead(fs, n, d, k) == Before(d, fs[d][n], k, fs[k][n])

\* Without circles this orders the devices with a row.
LEMMA AheadOrders ==
  ASSUME NoCircles, NEW fs \in Tables, NEW n \in Names
  PROVE  LET H == Holders(fs, n) IN
         /\ H \subseteq Devices
         /\ \A d, k \in H : d # k => (Ahead(fs, n, d, k) <=> ~Ahead(fs, n, k, d))
         /\ \A d, k, l \in H : d # k /\ k # l /\ l # d /\ Ahead(fs, n, d, k) /\ Ahead(fs, n, k, l)
                               => Ahead(fs, n, d, l)
<1> DEFINE H == Holders(fs, n)
<1>1. H \subseteq Devices /\ \A d \in H : fs[d][n] \in Rows
  BY DEF Holders, Tables
<1>2. \A d, k \in H : d # k => (Ahead(fs, n, d, k) <=> ~Ahead(fs, n, k, d))
  BY <1>1, BeforeTotal DEF Ahead
<1>3. ASSUME NEW d \in H, NEW k \in H, NEW l \in H, d # k, k # l, l # d
      PROVE  ~(Ahead(fs, n, d, k) /\ Ahead(fs, n, k, l) /\ Ahead(fs, n, l, d))
  BY <1>1, <1>3 DEF NoCircles, Ahead
<1> QED BY <1>1, <1>2, <1>3

\* In a sorted list every row comes before all later ones, not only before its
\* neighbour.
LEMMA SortedAhead ==
  ASSUME NoCircles, NEW fs \in Tables, NEW n \in Names, NEW es \in SortedRows(fs, n)
  PROVE  \A i, j \in DOMAIN es : i < j => es[i] # es[j] /\ Ahead(fs, n, es[i], es[j])
<1> DEFINE H == Holders(fs, n)
           c == Cardinality(H)
<1>1. /\ es \in [1..c -> H] /\ \A d \in H : \E i \in 1..c : es[i] = d
      /\ \A i \in 1..c : i > 1 => ~Ahead(fs, n, es[i], es[i-1])
  BY DEF SortedRows, Ahead
<1>2. c \in Nat /\ DOMAIN es = 1..c
  BY <1>1, HoldersFinite
<1>3. \A i, j \in 1..c : i # j => es[i] # es[j]
  <2>1. es \in Surjection(1..c, H)
    BY <1>1 DEF Surjection
  <2>2. IsFiniteSet(1..c) /\ Cardinality(1..c) = c
    BY <1>2, FS_Interval
  <2>3. es \in Injection(1..c, H)
    BY <2>1, <2>2, FS_SurjSameCardinalityImpliesInj
  <2> QED BY <2>3 DEF Injection, IsInjective
<1>4. /\ \A d, k \in H : d # k => (Ahead(fs, n, d, k) <=> ~Ahead(fs, n, k, d))
      /\ \A d, k, l \in H : d # k /\ k # l /\ l # d /\ Ahead(fs, n, d, k) /\ Ahead(fs, n, k, l)
                            => Ahead(fs, n, d, l)
  BY AheadOrders
<1>5. \A i \in 1..c : es[i] \in H
  BY <1>1
<1> DEFINE T == {m \in Nat : \A i \in 1..c : i + m + 1 <= c => Ahead(fs, n, es[i], es[i + m + 1])}
<1> HIDE DEF H, c
<1>6. 0 \in T
  <2> SUFFICES ASSUME NEW i \in 1..c, i + 0 + 1 <= c
               PROVE  Ahead(fs, n, es[i], es[i + 0 + 1])
    OBVIOUS
  <2> DEFINE k == i + 1
  <2>1. k \in 1..c /\ k > 1 /\ k - 1 = i /\ i + 0 + 1 = k /\ k # i
    BY <1>2
  <2> HIDE DEF k
  <2>2. ~Ahead(fs, n, es[k], es[i])
    BY <1>1, <2>1
  <2>3. es[k] # es[i]
    BY <1>3, <2>1
  <2>4. Ahead(fs, n, es[i], es[k])
    BY <1>4, <1>5, <2>1, <2>2, <2>3
  <2> QED BY <2>1, <2>4
<1>7. ASSUME NEW m \in T PROVE m + 1 \in T
  <2> SUFFICES ASSUME NEW i \in 1..c, i + (m + 1) + 1 <= c
               PROVE  Ahead(fs, n, es[i], es[i + (m + 1) + 1])
    OBVIOUS
  <2> DEFINE k == i + m + 1
             l == i + (m + 1) + 1
  <2>1. m \in Nat /\ \A h \in 1..c : h + m + 1 <= c => Ahead(fs, n, es[h], es[h + m + 1])
    OBVIOUS
  <2>2. /\ k \in 1..c /\ l \in 1..c /\ l - 1 = k /\ l > 1
        /\ i # k /\ k # l /\ i # l /\ i + m + 1 <= c
    BY <1>2, <2>1
  <2>3. Ahead(fs, n, es[i], es[k])
    BY <2>1, <2>2
  <2> HIDE DEF k, l, T
  <2>4. ~Ahead(fs, n, es[l], es[k])
    BY <1>1, <2>2
  <2>5. es[i] # es[k] /\ es[k] # es[l] /\ es[l] # es[i]
    BY <1>3, <2>2
  <2>6. Ahead(fs, n, es[k], es[l])
    BY <1>4, <1>5, <2>2, <2>4, <2>5
  <2>7. Ahead(fs, n, es[i], es[l])
    BY <1>4, <1>5, <2>2, <2>3, <2>5, <2>6
  <2> QED BY <2>7 DEF l
<1> HIDE DEF T
<1>8. T = Nat
  <2>1. T \subseteq Nat
    BY DEF T
  <2> QED BY <1>6, <1>7, <2>1, Induction
<1>9. ASSUME NEW i \in 1..c, NEW j \in 1..c, i < j PROVE Ahead(fs, n, es[i], es[j])
  <2> DEFINE m == j - i - 1
  <2>1. m \in Nat /\ i + m + 1 = j /\ j <= c
    BY <1>2, <1>9
  <2> HIDE DEF m
  <2>2. m \in T
    BY <1>8, <2>1
  <2>3. i + m + 1 <= c => Ahead(fs, n, es[i], es[i + m + 1])
    BY <2>2 DEF T
  <2> QED BY <2>1, <2>3
<1>10. \A i, j \in 1..c : i < j => i # j
  BY <1>2
<1> QED BY <1>2, <1>3, <1>9, <1>10

\* The best row: a valid one if there is one, and ahead of the others like it.
Latest(fs, n, g) ==
  /\ g \in Holders(fs, n)
  /\ \A k \in Holders(fs, n) : ~fs[k][n].invalid => ~fs[g][n].invalid
  /\ \A k \in Holders(fs, n) \ {g} :
       (fs[k][n].invalid => fs[g][n].invalid) => Ahead(fs, n, g, k)

\* HasLocal, without a list.
LocalHas(fs, n, g) ==
  \/ /\ Local \in Holders(fs, n)
     /\ \/ Local = g \/ Ahead(fs, n, Local, g)
        \/ fs[Local][n].version = fs[g][n].version
  \/ fs[Local][n] = NoRow /\ fs[g][n].version \in Deleted

\* A name has at most one latest row.
LEMMA LatestUnique ==
  ASSUME NoCircles, NEW fs \in Tables, NEW n \in Names,
         NEW g, Latest(fs, n, g), NEW h, Latest(fs, n, h)
  PROVE  g = h
<1> SUFFICES ASSUME g # h PROVE FALSE
  OBVIOUS
<1>1. g \in Holders(fs, n) /\ h \in Holders(fs, n)
  BY DEF Latest
<1>2. fs[g][n].invalid => fs[h][n].invalid
  BY <1>1 DEF Latest
<1>3. fs[h][n].invalid => fs[g][n].invalid
  BY <1>1 DEF Latest
<1>4. Ahead(fs, n, g, h) /\ Ahead(fs, n, h, g)
  BY <1>1, <1>2, <1>3 DEF Latest
<1> QED BY <1>1, <1>4, AheadOrders

\* recalcGlobalForFile takes the best row, and asks whether the local device has
\* it, whichever list the sort returns.
LEMMA WinnerIsLatest ==
  ASSUME NoCircles, NEW fs \in Tables, NEW n \in Names, Holders(fs, n) # {},
         NEW es \in SortedRows(fs, n), NEW g, g = es[GlobalPosition(fs, n, es)]
  PROVE  Latest(fs, n, g) /\ (HasLocal(fs, n, es) <=> LocalHas(fs, n, g))
<1> DEFINE p == GlobalPosition(fs, n, es)
           H == Holders(fs, n)
           valid == {i \in DOMAIN es : ~fs[es[i]][n].invalid}
<1>1. /\ DOMAIN es \subseteq Nat /\ p \in DOMAIN es /\ p \in Nat /\ g \in H
      /\ \A i \in DOMAIN es : es[i] \in H
      /\ \A d \in H : \E i \in DOMAIN es : es[i] = d
  BY SortedFacts
<1>2. \A i, j \in DOMAIN es : i < j => es[i] # es[j] /\ Ahead(fs, n, es[i], es[j])
  BY SortedAhead
<1>3. /\ valid = {} => p = 1
      /\ valid # {} => p \in valid /\ \A j \in valid : p <= j
  <2>1. ASSUME valid # {} PROVE p \in valid /\ \A j \in valid : p <= j
    <3>1. valid \subseteq Nat
      BY <1>1
    <3>2. \E i \in valid : \A j \in valid : i <= j
      BY <2>1, <3>1, LeastElement
    <3>3. p = CHOOSE i \in valid : \A j \in valid : i <= j
      BY <2>1 DEF GlobalPosition
    <3> HIDE DEF p, valid
    <3> QED BY <3>2, <3>3
  <2> QED BY <2>1 DEF GlobalPosition
<1>4. es[p] = g
  OBVIOUS
<1>5. \A i \in DOMAIN es : i >= 1
  <2>1. DOMAIN es = 1..Cardinality(H)
    BY DEF SortedRows
  <2> QED BY <2>1, HoldersFinite
<1> HIDE DEF p
<1>6. Latest(fs, n, g)
  <2>1. ASSUME NEW k \in H, ~fs[k][n].invalid PROVE ~fs[g][n].invalid
    <3>1. PICK i \in DOMAIN es : es[i] = k
      BY <1>1
    <3>2. i \in valid
      BY <2>1, <3>1
    <3> QED BY <1>3, <1>4, <3>2
  <2>2. ASSUME NEW k \in H \ {g}, fs[k][n].invalid => fs[g][n].invalid PROVE Ahead(fs, n, g, k)
    <3>1. PICK i \in DOMAIN es : es[i] = k
      BY <1>1
    <3>2. i # p
      BY <1>4, <3>1
    <3>3. p <= i
      <4>1. CASE valid = {}
        BY <1>3, <1>5, <4>1
      <4>2. CASE valid # {}
        <5>1. ~fs[g][n].invalid
          BY <1>3, <1>4, <4>2
        <5>2. i \in valid
          BY <2>2, <3>1, <5>1
        <5> QED BY <1>3, <5>2
      <4> QED BY <4>1, <4>2
    <3>4. p < i
      BY <1>1, <3>2, <3>3
    <3> QED BY <1>1, <1>2, <1>4, <3>1, <3>4
  <2> QED BY <1>1, <2>1, <2>2 DEF Latest
<1>7. \A i \in DOMAIN es : es[i] = Local => (i <= p <=> Local = g \/ Ahead(fs, n, Local, g))
  <2> SUFFICES ASSUME NEW i \in DOMAIN es, es[i] = Local
               PROVE  i <= p <=> Local = g \/ Ahead(fs, n, Local, g)
    OBVIOUS
  <2>1. i \in Nat /\ p \in Nat /\ p \in DOMAIN es
    BY <1>1
  <2>2. CASE i < p
    BY <1>2, <1>4, <2>1, <2>2
  <2>3. CASE i = p
    BY <1>4, <2>1, <2>3
  <2>4. CASE p < i
    <3>1. Local # g /\ Ahead(fs, n, g, Local)
      BY <1>2, <1>4, <2>1, <2>4
    <3>2. ~Ahead(fs, n, Local, g)
      BY <1>1, <3>1, AheadOrders
    <3> QED BY <2>1, <2>4, <3>1, <3>2
  <2> QED BY <2>1, <2>2, <2>3, <2>4
<1>8. Local \in H <=> \E i \in DOMAIN es : es[i] = Local
  BY <1>1
<1>9. HasLocal(fs, n, es) <=>
        \/ \E i \in DOMAIN es : /\ es[i] = Local
                                /\ i <= p \/ fs[Local][n].version = fs[g][n].version
        \/ fs[Local][n] = NoRow /\ fs[g][n].version \in Deleted
  BY DEF HasLocal, p
<1>10. HasLocal(fs, n, es) <=> LocalHas(fs, n, g)
  BY <1>7, <1>8, <1>9 DEF LocalHas
<1> QED BY <1>6, <1>10

\* es lists the m devices of G, each before all later ones.
ListOf(fs, n, G, es, m) ==
  /\ es \in [1..m -> G] /\ \A d \in G : \E i \in 1..m : es[i] = d
  /\ \A i, j \in 1..m : i < j => es[i] # es[j] /\ Ahead(fs, n, es[i], es[j])

\* A device is inserted into a list that does not have it.
LEMMA ListInsert ==
  ASSUME NoCircles, NEW fs \in Tables, NEW n \in Names, NEW m \in Nat,
         NEW F, F \subseteq Holders(fs, n), NEW x \in Holders(fs, n), x \notin F,
         NEW es, ListOf(fs, n, F, es, m)
  PROVE  \E u : ListOf(fs, n, F \cup {x}, u, m + 1)
<1>1. /\ es \in [1..m -> F] /\ \A d \in F : \E i \in 1..m : es[i] = d
      /\ \A i, j \in 1..m : i < j => es[i] # es[j] /\ Ahead(fs, n, es[i], es[j])
  BY DEF ListOf
<1>2. \A i \in 1..m : es[i] \in F /\ es[i] \in Holders(fs, n) /\ es[i] # x
  BY <1>1
<1>3. PICK p \in 1..(m + 1) : /\ \A i \in 1..m : i < p => ~Ahead(fs, n, x, es[i])
                              /\ p <= m => Ahead(fs, n, x, es[p])
  <2> DEFINE P == {i \in 1..m : Ahead(fs, n, x, es[i])}
  <2>1. CASE P = {}
    <3>1. m + 1 \in 1..(m + 1) /\ ~(m + 1 <= m)
      OBVIOUS
    <3> QED BY <2>1, <3>1
  <2>2. CASE P # {}
    <3>1. P \subseteq Nat
      OBVIOUS
    <3>2. PICK l \in P : \A j \in P : l <= j
      BY <2>2, <3>1, LeastElement
    <3>3. l \in 1..(m + 1) /\ Ahead(fs, n, x, es[l])
      BY <3>2
    <3>4. \A i \in 1..m : i < l => ~Ahead(fs, n, x, es[i])
      BY <3>2
    <3> QED BY <3>3, <3>4
  <2> QED BY <2>1, <2>2
<1>4. ASSUME NEW i \in 1..m, i < p PROVE Ahead(fs, n, es[i], x)
  BY <1>2, <1>3, <1>4, AheadOrders
<1>5. ASSUME NEW i \in 1..m, i >= p PROVE Ahead(fs, n, x, es[i])
  <2>1. p \in 1..m /\ p <= m /\ Ahead(fs, n, x, es[p])
    BY <1>3, <1>5
  <2>2. CASE i = p
    BY <2>1, <2>2
  <2>3. CASE i # p
    <3>1. p < i
      BY <1>5, <2>3
    <3>2. es[p] # es[i] /\ Ahead(fs, n, es[p], es[i])
      BY <1>1, <2>1, <3>1
    <3>3. es[p] \in Holders(fs, n) /\ es[i] \in Holders(fs, n) /\ es[p] # x /\ es[i] # x
      BY <1>2, <2>1
    <3> QED BY <2>1, <3>2, <3>3, AheadOrders
  <2> QED BY <2>2, <2>3
<1> DEFINE u == [i \in 1..(m + 1) |-> IF i < p THEN es[i] ELSE IF i = p THEN x ELSE es[i - 1]]
<1>6. ASSUME NEW i \in 1..(m + 1)
      PROVE  /\ i < p => i \in 1..m /\ u[i] = es[i]
             /\ i = p => u[i] = x
             /\ i > p => i - 1 \in 1..m /\ i - 1 >= p /\ u[i] = es[i - 1]
  BY <1>3
<1>7. u \in [1..(m + 1) -> F \cup {x}]
  <2>1. \A i \in 1..(m + 1) : u[i] \in F \cup {x}
    <3> TAKE i \in 1..(m + 1)
    <3>1. i < p \/ i = p \/ i > p
      BY <1>3
    <3> HIDE DEF u
    <3> QED BY <1>2, <1>6, <3>1
  <2> QED BY <2>1
<1>8. ASSUME NEW d \in F \cup {x} PROVE \E i \in 1..(m + 1) : u[i] = d
  <2>1. CASE d = x
    BY <1>6, <2>1
  <2>2. CASE d \in F
    <3>1. PICK i \in 1..m : es[i] = d
      BY <1>1, <2>2
    <3>2. CASE i < p
      <4>1. i \in 1..(m + 1)
        OBVIOUS
      <4>2. u[i] = es[i]
        BY <1>6, <3>2, <4>1
      <4> QED BY <3>1, <4>1, <4>2
    <3>3. CASE i >= p
      <4> DEFINE k == i + 1
      <4>1. k \in 1..(m + 1) /\ k > p /\ k - 1 = i
        BY <1>3, <3>3
      <4> HIDE DEF k, u
      <4>2. u[k] = es[i]
        BY <1>6, <4>1
      <4> QED BY <3>1, <4>1, <4>2
    <3> QED BY <1>3, <3>2, <3>3
  <2> QED BY <2>1, <2>2
<1> HIDE DEF u
<1>9. ASSUME NEW i \in 1..(m + 1), NEW j \in 1..(m + 1), i < j
      PROVE  u[i] # u[j] /\ Ahead(fs, n, u[i], u[j])
  <2>0. i \in Nat /\ j \in Nat /\ p \in Nat
    BY <1>3
  <2>1. CASE j < p
    <3>1. i < p
      BY <1>9, <2>0, <2>1
    <3>2. i \in 1..m /\ j \in 1..m /\ u[i] = es[i] /\ u[j] = es[j]
      BY <1>6, <2>1, <3>1
    <3> QED BY <1>1, <1>9, <3>2
  <2>2. CASE j = p
    <3>1. i < p /\ i \in 1..m /\ u[i] = es[i] /\ u[j] = x
      BY <1>6, <1>9, <2>2
    <3> QED BY <1>2, <1>4, <3>1
  <2>3. CASE j > p
    <3> DEFINE h == j - 1
    <3>1. h \in 1..m /\ h >= p /\ u[j] = es[h] /\ h \in Nat
      BY <1>6, <2>3
    <3>2. CASE i < p
      <4>1. i \in 1..m /\ u[i] = es[i] /\ i < h
        BY <1>6, <2>0, <3>1, <3>2
      <4> QED BY <1>1, <3>1, <4>1
    <3>3. CASE i = p
      <4>1. u[i] = x
        BY <1>6, <3>3
      <4> QED BY <1>2, <1>5, <3>1, <4>1
    <3>4. CASE i > p
      <4> DEFINE k == i - 1
      <4>1. k \in 1..m /\ u[i] = es[k] /\ k < h
        BY <1>6, <1>9, <2>0, <3>4
      <4> HIDE DEF h, k
      <4> QED BY <1>1, <3>1, <4>1
    <3> QED BY <2>0, <3>2, <3>3, <3>4
  <2> QED BY <2>0, <2>1, <2>2, <2>3
<1>10. ListOf(fs, n, F \cup {x}, u, m + 1)
  BY <1>7, <1>8, <1>9 DEF ListOf
<1> QED BY <1>10

\* The rows of a name can be sorted.
LEMMA SortedExists ==
  ASSUME NoCircles, NEW fs \in Tables, NEW n \in Names
  PROVE  \E es : es \in SortedRows(fs, n)
<1> DEFINE H == Holders(fs, n)
           T == {m \in Nat : \A G \in SUBSET H :
                   Cardinality(G) = m => \E es : ListOf(fs, n, G, es, m)}
<1>1. IsFiniteSet(H) /\ Cardinality(H) \in Nat
  BY HoldersFinite
<1>2. \A G \in SUBSET H : IsFiniteSet(G)
  BY <1>1, FS_Subset
<1> HIDE DEF H
<1>3. 0 \in T
  <2> SUFFICES ASSUME NEW G \in SUBSET H, Cardinality(G) = 0
               PROVE  \E es : ListOf(fs, n, G, es, 0)
    OBVIOUS
  <2>1. G = {}
    BY <1>2, FS_EmptySet
  <2> DEFINE es == [i \in 1..0 |-> 0]
  <2>2. es \in [1..0 -> G] /\ \A i : i \notin 1..0
    OBVIOUS
  <2>3. ListOf(fs, n, G, es, 0)
    BY <2>1, <2>2 DEF ListOf
  <2> QED BY <2>3
<1>4. ASSUME NEW m \in T PROVE m + 1 \in T
  <2>1. m \in Nat /\ \A G \in SUBSET H : Cardinality(G) = m => \E es : ListOf(fs, n, G, es, m)
    OBVIOUS
  <2> HIDE DEF T
  <2>2. ASSUME NEW G \in SUBSET H, Cardinality(G) = m + 1
        PROVE  \E es : ListOf(fs, n, G, es, m + 1)
    <3>1. G # {}
      BY <2>1, <2>2, FS_EmptySet
    <3>2. PICK x \in G : TRUE
      BY <3>1
    <3> DEFINE F == G \ {x}
    <3>3. Cardinality(F) = m
      <4>1. IsFiniteSet(G)
        BY <1>2
      <4>2. Cardinality(F) = Cardinality(G) - 1
        BY <4>1, FS_RemoveElement
      <4> QED BY <2>1, <2>2, <4>2
    <3>4. PICK es : ListOf(fs, n, F, es, m)
      BY <2>1, <3>3
    <3>5. F \subseteq H /\ x \in H /\ x \notin F /\ G = F \cup {x}
      OBVIOUS
    <3> HIDE DEF F
    <3> QED BY <2>1, <3>4, <3>5, ListInsert DEF H
  <2>3. m + 1 \in Nat
    BY <2>1
  <2> QED BY <2>2, <2>3 DEF T
<1> HIDE DEF T
<1>5. T = Nat
  <2>1. T \subseteq Nat
    BY DEF T
  <2> QED BY <1>3, <1>4, <2>1, Induction
<1>6. PICK es : ListOf(fs, n, H, es, Cardinality(H))
  BY <1>1, <1>5 DEF T
<1> DEFINE c == Cardinality(H)
<1>7. ASSUME NEW i \in 1..c, i > 1 PROVE ~Ahead(fs, n, es[i], es[i-1])
  <2>1. i - 1 \in 1..c /\ i - 1 < i
    BY <1>1, <1>7
  <2>2. es[i-1] # es[i] /\ Ahead(fs, n, es[i-1], es[i]) /\ es[i] \in H /\ es[i-1] \in H
    BY <1>6, <2>1 DEF ListOf
  <2> QED BY <2>2, AheadOrders DEF H
<1>8. es \in [1..c -> H] /\ \A d \in H : \E i \in 1..c : es[i] = d
  BY <1>6 DEF ListOf
<1>9. es \in SortedRows(fs, n)
  BY <1>7, <1>8 DEF SortedRows, Ahead, H
<1> QED BY <1>9

----------------------------------------------------------------------------
\* The Global flag is on the best row, and the Needed flag says whether the
\* local device lacks it.
LatestFlags(fs, ns, glob, need) ==
  \A n \in ns, g \in Devices : <<g, n>> \in glob =>
    /\ Latest(fs, n, g)
    /\ <<g, n>> \in need <=> ~LocalHas(fs, n, g) /\ ~fs[g][n].invalid

\* A recalculation of some names, where the flags of the others are right.
LEMMA RecalculateLatest ==
  ASSUME NoCircles, NEW fs \in Tables, NEW ns \in SUBSET Names,
         \A n \in ns : Holders(fs, n) # {},
         NEW glob, NEW need, LatestFlags(fs, Names \ ns, glob, need),
         RecalculateSome(fs, ns, glob, need)
  PROVE  LatestFlags(fs, Names, global', needed')
<1>1. PICK es \in [ns -> UNION {SortedRows(fs, n) : n \in ns}] :
        /\ \A n \in ns : es[n] \in SortedRows(fs, n)
        /\ Recalculate(fs, ns, es, glob, need)
  BY DEF RecalculateSome
<1> DEFINE winner(n) == es[n][GlobalPosition(fs, n, es[n])]
           wanted    == {n \in ns : /\ ~HasLocal(fs, n, es[n])
                                    /\ ~fs[winner(n)][n].invalid}
<1>2. /\ global' = {p \in glob : p[2] \notin ns} \cup {<<winner(n), n>> : n \in ns}
      /\ needed' = {p \in need : p[2] \notin ns} \cup {<<winner(n), n>> : n \in wanted}
  BY <1>1 DEF Recalculate
<1>3. \A n \in ns : /\ Latest(fs, n, winner(n))
                    /\ HasLocal(fs, n, es[n]) <=> LocalHas(fs, n, winner(n))
  BY <1>1, WinnerIsLatest
<1>4. \A n : n \in wanted <=> n \in ns /\ ~HasLocal(fs, n, es[n]) /\ ~fs[winner(n)][n].invalid
  OBVIOUS
<1> HIDE DEF winner, wanted
<1> SUFFICES ASSUME NEW n \in Names, NEW g \in Devices, <<g, n>> \in global'
             PROVE  /\ Latest(fs, n, g)
                    /\ <<g, n>> \in needed' <=> ~LocalHas(fs, n, g) /\ ~fs[g][n].invalid
  BY DEF LatestFlags
<1>5. CASE n \in ns
  <2>1. g = winner(n)
    BY <1>2, <1>5
  <2>2. <<g, n>> \in needed' <=> n \in wanted
    <3>1. ASSUME <<g, n>> \in needed' PROVE n \in wanted
      BY <1>2, <1>5, <3>1
    <3>2. ASSUME n \in wanted PROVE <<g, n>> \in needed'
      BY <1>2, <2>1, <3>2
    <3> QED BY <3>1, <3>2
  <2> QED BY <1>3, <1>4, <1>5, <2>1, <2>2
<1>6. CASE n \notin ns
  <2>1. <<g, n>> \in glob
    BY <1>2, <1>6
  <2>2. <<g, n>> \in needed' <=> <<g, n>> \in need
    BY <1>2, <1>4, <1>6
  <2> QED BY <1>6, <2>1, <2>2 DEF LatestFlags
<1> QED BY <1>5, <1>6

\* Where rows of other names change, or another device's row that is not Global
\* goes away, the flags stay right.
LEMMA LatestStays ==
  ASSUME NEW fs, NEW ft, NEW n \in Names, NEW g \in Devices, Latest(fs, n, g),
         Holders(ft, n) \subseteq Holders(fs, n), g \in Holders(ft, n),
         \A k \in Holders(ft, n) : ft[k][n] = fs[k][n],
         ft[Local][n] = fs[Local][n]
  PROVE  /\ Latest(ft, n, g) /\ ft[g][n] = fs[g][n]
         /\ LocalHas(ft, n, g) <=> LocalHas(fs, n, g)
<1>1. ft[g][n] = fs[g][n]
  OBVIOUS
<1>2. \A k \in Holders(ft, n) : Ahead(ft, n, g, k) <=> Ahead(fs, n, g, k)
  BY <1>1 DEF Ahead
<1>3. Latest(ft, n, g)
  BY <1>1, <1>2 DEF Latest
<1>4. Local \in Devices
  BY DatabaseAssumption DEF Local, Devices
<1>5. Local \in Holders(ft, n) <=> Local \in Holders(fs, n)
  BY <1>4 DEF Holders
<1>6. Ahead(ft, n, Local, g) <=> Ahead(fs, n, Local, g)
  BY <1>1 DEF Ahead
<1>7. LocalHas(ft, n, g) <=> LocalHas(fs, n, g)
  BY <1>1, <1>5, <1>6 DEF LocalHas
<1> QED BY <1>1, <1>3, <1>7

\* Update leaves the flags on the latest row of every name.
LEMMA UpdateLatest ==
  ASSUME NoCircles, FlagsInv, LatestFlags(files, Names, global, needed),
         NEW d \in Devices, NEW n \in Names, NEW r \in Rows, Update(d, n, r)
  PROVE  LatestFlags(files', Names, global', needed')
<1> DEFINE fs == [files EXCEPT ![d][n] = r]
           glob == global \ {<<d, n>>}
           need == needed \ {<<d, n>>}
<1>1. fs \in Tables /\ fs[d][n] = r /\ r # NoRow
  BY DatabaseAssumption DEF FlagsInv, TypeOK, Tables
<1>2. \A k \in Devices, m \in Names : m # n => fs[k][m] = files[k][m]
  BY DEF FlagsInv, TypeOK
<1>3. files' = fs /\ RecalculateSome(fs, {n}, glob, need)
  BY DEF Update
<1>4. d \in Holders(fs, n)
  BY <1>1 DEF Holders
<1>5. Local \in Devices
  BY DatabaseAssumption DEF Local, Devices
<1> HIDE DEF fs
<1>6. LatestFlags(fs, Names \ {n}, glob, need)
  <2> SUFFICES ASSUME NEW m \in Names \ {n}, NEW g \in Devices, <<g, m>> \in glob
               PROVE  /\ Latest(fs, m, g)
                      /\ <<g, m>> \in need <=> ~LocalHas(fs, m, g) /\ ~fs[g][m].invalid
    BY DEF LatestFlags
  <2>1. /\ Latest(files, m, g)
        /\ <<g, m>> \in needed <=> ~LocalHas(files, m, g) /\ ~files[g][m].invalid
    BY DEF LatestFlags
  <2>2. Holders(fs, m) = Holders(files, m) /\ \A k \in Devices : fs[k][m] = files[k][m]
    BY <1>2 DEF Holders
  <2>3. g \in Holders(fs, m) /\ \A k \in Holders(fs, m) : fs[k][m] = files[k][m]
    BY <2>1, <2>2 DEF Latest, Holders
  <2>4. /\ Latest(fs, m, g) /\ fs[g][m] = files[g][m]
        /\ LocalHas(fs, m, g) <=> LocalHas(files, m, g)
    BY <1>5, <2>1, <2>2, <2>3, LatestStays
  <2>5. <<g, m>> \in need <=> <<g, m>> \in needed
    OBVIOUS
  <2> QED BY <2>1, <2>4, <2>5
<1>7. {n} \in SUBSET Names /\ \A m \in {n} : Holders(fs, m) # {}
  BY <1>4
<1> HIDE DEF glob, need
<1>8. LatestFlags(fs, Names, global', needed')
  BY <1>1, <1>3, <1>6, <1>7, RecalculateLatest
<1> QED BY <1>3, <1>8

\* Rows of d for the names ns are gone, and the names in recalc recalculated.
LEMMA DropLatest ==
  ASSUME NoCircles, LatestFlags(files, Names, global, needed), TypeOK, OneGlobal,
         NEW d \in Devices, NEW ns \in SUBSET Names, NEW fs \in Tables,
         \A k \in Devices, m \in Names :
           fs[k][m] = IF k = d /\ m \in ns THEN NoRow ELSE files[k][m],
         NEW recalc \in SUBSET Names,
         \A m \in recalc : Holders(fs, m) # {},
         d = Local => \A m \in ns : Holders(fs, m) # {} => m \in recalc,
         RecalculateSome(fs, recalc, Remaining(global, d, ns), Remaining(needed, d, ns))
  PROVE  LatestFlags(fs, Names, global', needed')
<1> DEFINE glob == Remaining(global, d, ns)
           need == Remaining(needed, d, ns)
<1>1. Local \in Devices
  BY DatabaseAssumption DEF Local, Devices
<1>2. LatestFlags(fs, Names \ recalc, glob, need)
  <2> SUFFICES ASSUME NEW m \in Names \ recalc, NEW g \in Devices, <<g, m>> \in glob
               PROVE  /\ Latest(fs, m, g)
                      /\ <<g, m>> \in need <=> ~LocalHas(fs, m, g) /\ ~fs[g][m].invalid
    BY DEF LatestFlags
  <2>1. <<g, m>> \in global /\ ~(g = d /\ m \in ns)
    BY DEF Remaining
  <2>2. /\ Latest(files, m, g)
        /\ <<g, m>> \in needed <=> ~LocalHas(files, m, g) /\ ~files[g][m].invalid
    BY <2>1 DEF LatestFlags
  <2>3. files[g][m] # NoRow /\ fs[g][m] = files[g][m]
    BY <2>1, <2>2 DEF Latest, Holders
  <2>4. g \in Holders(fs, m)
    BY <2>3 DEF Holders
  <2>5. /\ Holders(fs, m) \subseteq Holders(files, m)
        /\ \A k \in Holders(fs, m) : fs[k][m] = files[k][m]
    BY DEF Holders
  <2>6. fs[Local][m] = files[Local][m]
    BY <1>1, <2>4
  <2>7. /\ Latest(fs, m, g) /\ fs[g][m] = files[g][m]
        /\ LocalHas(fs, m, g) <=> LocalHas(files, m, g)
    BY <2>2, <2>4, <2>5, <2>6, LatestStays
  <2>8. <<g, m>> \in need <=> <<g, m>> \in needed
    BY <2>1 DEF Remaining
  <2> QED BY <2>2, <2>7, <2>8
<1> QED BY <1>2, RecalculateLatest

\* No operation leaves the flags on another row than the latest one.
LEMMA LatestStep ==
  ASSUME NoCircles, FlagsInv, LatestFlags(files, Names, global, needed), [Next]_vars
  PROVE  LatestFlags(files', Names, global', needed')
<1>1. ASSUME NEW d \in Devices, NEW n \in Names, NEW r \in Rows, Update(d, n, r)
      PROVE  LatestFlags(files', Names, global', needed')
  BY <1>1, UpdateLatest
<1>2. ASSUME NEW d \in Devices, DropAllFiles(d)
      PROVE  LatestFlags(files', Names, global', needed')
  <2> DEFINE fs   == [files EXCEPT ![d] = [n \in Names |-> NoRow]]
             glob == Remaining(global, d, Names)
             recalc == NamesWithoutGlobal(fs, glob)
  <2>1. fs \in Tables
    BY DEF FlagsInv, TypeOK, Tables
  <2>2. \A k \in Devices, m \in Names :
          fs[k][m] = IF k = d /\ m \in Names THEN NoRow ELSE files[k][m]
    BY DEF FlagsInv, TypeOK
  <2>3. /\ files' = fs /\ d # Local
        /\ RecalculateSome(fs, recalc, glob, Remaining(needed, d, Names))
    BY <1>2 DEF DropAllFiles
  <2>4. recalc \in SUBSET Names /\ \A m \in recalc : Holders(fs, m) # {}
    BY DEF NamesWithoutGlobal
  <2> HIDE DEF fs, recalc
  <2>5. LatestFlags(fs, Names, global', needed')
    BY <2>1, <2>2, <2>3, <2>4, DropLatest DEF FlagsInv
  <2> QED BY <2>3, <2>5
<1>3. ASSUME NEW ns \in SUBSET Names, DropFilesNamed(ns)
      PROVE  LatestFlags(files', Names, global', needed')
  <2> DEFINE fs   == [files EXCEPT ![Local] = [n \in Names |->
                                                 IF n \in ns THEN NoRow ELSE @[n]]]
             left == {n \in ns : Holders(fs, n) # {}}
  <2>0. Local \in Devices
    BY DatabaseAssumption DEF Local, Devices
  <2>1. fs \in Tables
    BY <2>0 DEF FlagsInv, TypeOK, Tables
  <2>2. \A k \in Devices, m \in Names :
          fs[k][m] = IF k = Local /\ m \in ns THEN NoRow ELSE files[k][m]
    BY <2>0 DEF FlagsInv, TypeOK
  <2>3. /\ files' = fs
        /\ RecalculateSome(fs, left, Remaining(global, Local, ns),
                           Remaining(needed, Local, ns))
    BY <1>3 DEF DropFilesNamed
  <2> HIDE DEF fs
  <2>4. /\ left \in SUBSET Names /\ \A m \in left : Holders(fs, m) # {}
        /\ \A m \in ns : Holders(fs, m) # {} => m \in left
    OBVIOUS
  <2> HIDE DEF left
  <2>5. LatestFlags(fs, Names, global', needed')
    BY <2>0, <2>1, <2>2, <2>3, <2>4, DropLatest DEF FlagsInv
  <2> QED BY <2>3, <2>5
<1>4. CASE UNCHANGED vars
  BY <1>4 DEF vars
<1> QED BY <1>1, <1>2, <1>3, <1>4 DEF Next

FlagsLatest == FlagsInv /\ LatestFlags(files, Names, global, needed)

\* Where fileRow.Compare has no circles, the flags are always on the latest row.
LEMMA FlagsLatestAlways ==
  ASSUME NoCircles
  PROVE  Spec => []FlagsLatest
<1>1. Init => FlagsLatest
  <2>1. Init => LatestFlags(files, Names, global, needed)
    BY DEF Init, LatestFlags
  <2> QED BY <2>1, FlagsInit DEF FlagsLatest
<1>2. FlagsLatest /\ [Next]_vars => FlagsLatest'
  <2> SUFFICES ASSUME FlagsLatest, [Next]_vars PROVE FlagsLatest'
    OBVIOUS
  <2>1. FlagsInv'
    BY FlagsStep DEF FlagsLatest
  <2>2. LatestFlags(files', Names, global', needed')
    BY LatestStep DEF FlagsLatest
  <2>3. LatestFlags(files, Names, global, needed)'
    BY <2>2 DEF LatestFlags, Latest, LocalHas, Ahead, Holders
  <2> QED BY <2>1, <2>3 DEF FlagsLatest
<1> QED BY <1>1, <1>2, PTL DEF Spec

\* Where fileRow.Compare has no circles, no valid row has a version greater than
\* the Global one, whatever rows come, are replaced or dropped in which order.
THEOREM GlobalIsLatestAlways ==
  ASSUME NoCircles
  PROVE  Spec => []GlobalIsLatest
<1>1. ASSUME FlagsLatest PROVE GlobalIsLatest
  <2> SUFFICES ASSUME NEW d \in Devices, NEW n \in Names, <<d, n>> \in global,
                      NEW k \in Holders(files, n), ~files[k][n].invalid
               PROVE  /\ ~files[d][n].invalid
                      /\ Ordering(files[k][n].version, files[d][n].version) # "Greater"
    BY DEF GlobalIsLatest
  <2>1. Latest(files, n, d) /\ files \in Tables
    BY <1>1 DEF FlagsLatest, LatestFlags, FlagsInv, TypeOK, Tables
  <2>2. ~files[d][n].invalid /\ d \in Holders(files, n)
    BY <2>1 DEF Latest
  <2>3. ASSUME Ordering(files[k][n].version, files[d][n].version) = "Greater" PROVE FALSE
    <3>1. Ahead(files, n, k, d)
      BY <2>3 DEF Ahead, Before
    <3>2. k # d
      <4>1. Ordering(files[k][n].version, files[k][n].version) = "Equal"
        BY DEF Ordering
      <4> QED BY <2>3, <4>1
    <3>3. Ahead(files, n, d, k)
      BY <2>1, <3>2 DEF Latest
    <3> QED BY <2>1, <2>2, <3>1, <3>2, <3>3, AheadOrders
  <2> QED BY <2>2, <2>3
<1> QED BY <1>1, FlagsLatestAlways, PTL

\* Where fileRow.Compare has no circles, the flags of every name are the ones a
\* recalculation of it would give, although dropping a device recalculates only
\* the names whose Global row was the device's.
THEOREM FlagsCurrentAlways ==
  ASSUME NoCircles
  PROVE  Spec => []FlagsCurrent
<1>1. ASSUME FlagsLatest PROVE FlagsCurrent
  <2> SUFFICES ASSUME NEW n \in Names, Holders(files, n) # {}
               PROVE  \E es \in SortedRows(files, n) :
                        LET g == es[GlobalPosition(files, n, es)] IN
                          /\ <<g, n>> \in global
                          /\ <<g, n>> \in needed <=> ~HasLocal(files, n, es) /\ ~files[g][n].invalid
    BY DEF FlagsCurrent
  <2>1. files \in Tables /\ LatestFlags(files, Names, global, needed) /\ OneGlobal
    BY <1>1 DEF FlagsLatest, FlagsInv, TypeOK, Tables
  <2>2. PICK es : es \in SortedRows(files, n)
    BY <2>1, SortedExists
  <2> DEFINE g == es[GlobalPosition(files, n, es)]
  <2>3. Latest(files, n, g) /\ (HasLocal(files, n, es) <=> LocalHas(files, n, g))
    BY <2>1, <2>2, WinnerIsLatest
  <2> HIDE DEF g
  <2>4. PICK h \in Devices : <<h, n>> \in global
    BY <2>1 DEF OneGlobal
  <2>5. /\ Latest(files, n, h)
        /\ <<h, n>> \in needed <=> ~LocalHas(files, n, h) /\ ~files[h][n].invalid
    BY <2>1, <2>4 DEF LatestFlags
  <2>6. g = h
    BY <2>1, <2>3, <2>5, LatestUnique
  <2>7. /\ <<g, n>> \in global
        /\ <<g, n>> \in needed <=> ~HasLocal(files, n, es) /\ ~files[g][n].invalid
    BY <2>3, <2>4, <2>5, <2>6
  <2> QED BY <2>2, <2>7 DEF g
<1> QED BY <1>1, FlagsLatestAlways, PTL

----------------------------------------------------------------------------
\* Which vector is greater where two first differ is transitive.
LEMMA FirstGreaterTransitive ==
  ASSUME NEW a \in Vectors, NEW b \in Vectors, NEW c \in Vectors,
         FirstGreater(a, b), FirstGreater(b, c)
  PROVE  FirstGreater(a, c) /\ a # c
<1>1. Ids \subseteq Nat
  BY NumIdsAssumption DEF Ids
<1>2. \A i \in Ids : a[i] \in Nat /\ b[i] \in Nat /\ c[i] \in Nat
  BY DEF Vectors
<1>3. PICK i \in Ids : a[i] > b[i] /\ \A j \in Ids : j < i => a[j] = b[j]
  BY DEF FirstGreater
<1>4. PICK k \in Ids : b[k] > c[k] /\ \A j \in Ids : j < k => b[j] = c[j]
  BY DEF FirstGreater
<1>5. i \in Nat /\ k \in Nat /\ (i < k \/ i = k \/ k < i)
  BY <1>1
<1>6. PICK l \in Ids : a[l] > c[l] /\ \A j \in Ids : j < l => a[j] = c[j]
  <2>1. CASE i < k
    <3>1. a[i] > c[i] /\ \A j \in Ids : j < i => a[j] = c[j]
      BY <1>1, <1>2, <1>3, <1>4, <1>5, <2>1
    <3> QED BY <3>1
  <2>2. CASE i = k
    <3>1. a[i] > c[i] /\ \A j \in Ids : j < i => a[j] = c[j]
      BY <1>1, <1>2, <1>3, <1>4, <1>5, <2>2
    <3> QED BY <3>1
  <2>3. CASE k < i
    <3>1. a[k] > c[k] /\ \A j \in Ids : j < k => a[j] = c[j]
      BY <1>1, <1>2, <1>3, <1>4, <1>5, <2>3
    <3> QED BY <3>1
  <2> QED BY <1>5, <2>1, <2>2, <2>3
<1>7. a # c
  BY <1>2, <1>6
<1> QED BY <1>6, <1>7 DEF FirstGreater

\* A vector that contains a different one is greater where they first differ.
LEMMA GreaterIsFirstGreater ==
  ASSUME NEW a \in Vectors, NEW b \in Vectors, a # b, GreaterEqual(a, b)
  PROVE  FirstGreater(a, b)
<1>1. \A i \in Ids : a[i] \in Nat /\ b[i] \in Nat /\ a[i] >= b[i]
  BY DEF Vectors, GreaterEqual
<1>2. ~FirstGreater(b, a)
  BY <1>1 DEF FirstGreater
<1> QED BY <1>2, FirstGreaterTotal

\* For valid rows and times that grow with the versions, fileRow.Compare orders
\* by time, then by the first counter that differs, then by device: it has no
\* circles.
THEOREM GrowingTimesNoCircles ==
  ASSUME ~AllowInvalid,
         \A a, b \in Versions : GreaterEqual(a, b) => Modified[a] >= Modified[b]
  PROVE  NoCircles
<1> DEFINE Later(a, b) == \/ Modified[a] > Modified[b]
                          \/ Modified[a] = Modified[b] /\ FirstGreater(a, b)
<1>1. Versions \subseteq Vectors /\ \A a \in Versions : Modified[a] \in Nat
  BY DatabaseAssumption
<1>2. ASSUME NEW d \in Devices, NEW k \in Devices, NEW e \in Rows, NEW f \in Rows,
             Before(d, e, k, f)
      PROVE  Later(e.version, f.version) \/ (e.version = f.version /\ d < k)
  <2> DEFINE a == e.version
             b == f.version
             o == Ordering(a, b)
  <2>1. /\ a \in Versions /\ b \in Versions /\ a \in Vectors /\ b \in Vectors
        /\ Modified[a] \in Nat /\ Modified[b] \in Nat
    BY RowTypes
  <2>2. e.invalid = FALSE /\ f.invalid = FALSE
    BY DEF Rows
  <2>3. o \in {"Equal", "Greater", "Lesser", "ConcurrentGreater", "ConcurrentLesser"}
    BY <2>1, OrderingSwaps DEF Settled
  <2>4. CASE o = "Equal"
    <3>1. a = b
      BY <2>1, <2>4, OrderingSwaps
    <3>2. d < k
      BY <1>2, <2>2, <2>4 DEF Before
    <3> QED BY <3>1, <3>2
  <2>5. CASE o = "Greater"
    <3>1. a # b /\ GreaterEqual(a, b)
      BY <2>5 DEF Ordering
    <3>2. FirstGreater(a, b) /\ Modified[a] >= Modified[b]
      BY <2>1, <3>1, GreaterIsFirstGreater
    <3> QED BY <2>1, <3>2
  <2>6. CASE o = "Lesser"
    BY <1>2, <2>6 DEF Before
  <2>7. CASE o \in {"ConcurrentGreater", "ConcurrentLesser"}
    <3>1. IF Modified[a] # Modified[b] THEN Modified[a] > Modified[b] ELSE o = "ConcurrentGreater"
      BY <1>2, <2>2, <2>7 DEF Before
    <3>2. o = "ConcurrentGreater" => FirstGreater(a, b)
      BY DEF Ordering
    <3> QED BY <3>1, <3>2
  <2> QED BY <2>3, <2>4, <2>5, <2>6, <2>7
<1>3. ASSUME NEW a \in Versions, NEW b \in Versions, NEW c \in Versions, Later(a, b), Later(b, c)
      PROVE  Later(a, c)
  <2>1. a \in Vectors /\ b \in Vectors /\ c \in Vectors
        /\ Modified[a] \in Nat /\ Modified[b] \in Nat /\ Modified[c] \in Nat
    BY <1>1
  <2>2. FirstGreater(a, b) /\ FirstGreater(b, c) => FirstGreater(a, c)
    BY <2>1, FirstGreaterTransitive
  <2> QED BY <1>3, <2>1, <2>2
<1>4. ASSUME NEW a \in Versions PROVE ~Later(a, a)
  <2>1. Modified[a] \in Nat /\ a \in Vectors
    BY <1>1
  <2>2. ~FirstGreater(a, a)
    BY <2>1 DEF FirstGreater, Vectors
  <2> QED BY <2>1, <2>2
<1> HIDE DEF Later
<1> SUFFICES ASSUME NEW d \in Devices, NEW k \in Devices, NEW l \in Devices,
                    NEW e \in Rows, NEW f \in Rows, NEW g \in Rows,
                    Before(d, e, k, f), Before(k, f, l, g), Before(l, g, d, e)
             PROVE  FALSE
  BY DEF NoCircles
<1> DEFINE a == e.version
           b == f.version
           c == g.version
<1>5. a \in Versions /\ b \in Versions /\ c \in Versions
  BY RowTypes
<1>6. /\ Later(a, b) \/ (a = b /\ d < k)
      /\ Later(b, c) \/ (b = c /\ k < l)
      /\ Later(c, a) \/ (c = a /\ l < d)
  BY <1>2
<1>7. d \in Nat /\ k \in Nat /\ l \in Nat
  BY DatabaseAssumption DEF Devices
<1> HIDE DEF a, b, c
<1>8. CASE a = b /\ b = c
  <2>1. d < k /\ k < l /\ l < d
    BY <1>4, <1>5, <1>6, <1>8
  <2> QED BY <1>7, <2>1
<1>9. CASE ~(a = b /\ b = c)
  <2>1. Later(a, b) \/ a = b
    BY <1>6
  <2>2. Later(b, c) \/ b = c
    BY <1>6
  <2>3. Later(c, a) \/ c = a
    BY <1>6
  <2>4. Later(a, a) \/ Later(b, b)
    BY <1>3, <1>5, <1>9, <2>1, <2>2, <2>3
  <2> QED BY <1>4, <1>5, <2>4
<1> QED BY <1>8, <1>9
=============================================================================
