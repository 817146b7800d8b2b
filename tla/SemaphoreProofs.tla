--------------------------- MODULE SemaphoreProofs ---------------------------
(***************************************************************************)
(* Proofs about Semaphore, for any takers, sizes, capacities and changes   *)
(* of capacity.                                                            *)
(***************************************************************************)
EXTENDS Semaphore, FiniteSetTheorems, TLAPS

\* The inductive invariant.  NoLostWakeup needs nothing but the types: a step
\* that makes more available wakes every waiter, and a step that takes only
\* makes less available.
WaitInv == TypeOK /\ NoLostWakeup

LEMMA MinOfFacts ==
  ASSUME NEW x \in Nat, NEW y \in Nat
  PROVE  MinOf(x, y) \in Nat /\ MinOf(x, y) <= x /\ MinOf(x, y) <= y
  BY DEF MinOf

\* A broadcast leaves nobody waiting.
LEMMA WokenFacts ==
  ASSUME TypeOK
  PROVE  /\ Woken \in [Takers -> {"idle", "entering", "waiting", "woken", "holding"}]
         /\ \A t \in Takers : Woken[t] # "waiting"
  BY DEF TypeOK, Woken

LEMMA WaitInit == Init => WaitInv
  BY SemaphoreAssumption DEF Init, WaitInv, TypeOK, NoLostWakeup

LEMMA WaitStep ==
  ASSUME WaitInv, [Next]_vars
  PROVE  WaitInv'
<1> USE DEF WaitInv
<1>0. max \in Nat /\ available \in Nat /\ available <= max
  BY SemaphoreAssumption DEF TypeOK
<1>1. ASSUME NEW t \in Takers, NEW n \in Sizes, TakeWithContext(t, n)
      PROVE  WaitInv'
  BY <1>1, SemaphoreAssumption DEF TakeWithContext, TypeOK, NoLostWakeup
<1>2. ASSUME NEW t \in Takers, TakeInner(t)
      PROVE  WaitInv'
  <2> DEFINE n == MinOf(size[t], max)
  <2>1. n \in Nat
    BY <1>0, MinOfFacts DEF TypeOK
  <2>2. /\ size' = [size EXCEPT ![t] = n]
        /\ UNCHANGED <<max, asked, cancelled, told>>
    BY <1>2 DEF TakeInner
  <2> HIDE DEF n
  <2>3. CASE n > available
    <3>1. pc' = [pc EXCEPT ![t] = "waiting"] /\ UNCHANGED <<available, took>>
      BY <1>2, <2>3 DEF TakeInner, n
    <3> QED BY <1>0, <2>1, <2>2, <2>3, <3>1 DEF TypeOK, NoLostWakeup
  <2>4. CASE ~(n > available)
    <3>1. /\ pc' = [pc EXCEPT ![t] = "holding"]
          /\ available' = available - n
          /\ took' = [took EXCEPT ![t] = n]
      BY <1>2, <2>4 DEF TakeInner, n
    <3>2. available' \in 0..max' /\ available' <= available
      BY <1>0, <2>1, <2>2, <2>4, <3>1
    <3>3. TypeOK'
      BY <2>1, <2>2, <3>1, <3>2 DEF TypeOK
    <3>4. NoLostWakeup'
      <4> SUFFICES ASSUME NEW u \in Takers, pc'[u] = "waiting"
                   PROVE  size'[u] > available'
        BY DEF NoLostWakeup
      <4>1. u # t /\ pc[u] = "waiting" /\ size'[u] = size[u]
        BY <2>2, <3>1 DEF TypeOK
      <4> QED BY <1>0, <3>2, <4>1 DEF NoLostWakeup, TypeOK
    <3> QED BY <3>3, <3>4
  <2> QED BY <2>3, <2>4
<1>3. ASSUME NEW t \in Takers, LookAgain(t)
      PROVE  WaitInv'
  BY <1>3 DEF LookAgain, TypeOK, NoLostWakeup
<1>4. ASSUME NEW t \in Takers, Cancel(t)
      PROVE  WaitInv'
  BY <1>4 DEF Cancel, TypeOK, NoLostWakeup
<1>5. ASSUME NEW t \in Takers, CancelBroadcast(t)
      PROVE  WaitInv'
  BY <1>5, WokenFacts DEF CancelBroadcast, TypeOK, NoLostWakeup
<1>6. ASSUME NEW t \in Takers, Give(t)
      PROVE  WaitInv'
  <2> DEFINE n == MinOf(asked[t], max)
  <2>1. n \in Nat
    BY <1>0, MinOfFacts DEF TypeOK
  <2>2. available' \in 0..max
    BY <1>0, <1>6, <2>1, MinOfFacts DEF Give
  <2> QED BY <1>6, <2>2, WokenFacts DEF Give, TypeOK, NoLostWakeup
<1>7. ASSUME NEW c \in Capacities, SetCapacity(c)
      PROVE  WaitInv'
  <2> DEFINE n == IF available + c >= max THEN available + c - max ELSE 0
  <2>1. c \in Nat
    BY SemaphoreAssumption
  <2>2. n \in Nat
    BY <1>0, <2>1
  <2>3. available' = MinOf(n, c)
    BY <1>7 DEF SetCapacity
  <2> HIDE DEF n
  <2>4. available' \in 0..c
    BY <2>1, <2>2, <2>3, MinOfFacts
  <2> QED BY <1>7, <2>4, WokenFacts DEF SetCapacity, TypeOK, NoLostWakeup
<1>8. CASE UNCHANGED vars
  BY <1>8 DEF vars, TypeOK, NoLostWakeup
<1> QED BY <1>1, <1>2, <1>3, <1>4, <1>5, <1>6, <1>7, <1>8 DEF Next

\* What is available stays between zero and the capacity, also when the capacity
\* is cut below what is taken or more is given back than was taken.
THEOREM AvailableInRange == Spec => []TypeOK
<1>1. WaitInv /\ [Next]_vars => WaitInv'
  BY WaitStep
<1>2. WaitInv => TypeOK
  BY DEF WaitInv
<1> QED BY WaitInit, <1>1, <1>2, PTL DEF Spec

\* No taker sleeps while what it waits for is available, for any sizes and any
\* sequence of capacities.
THEOREM WaitersAreWoken == Spec => []NoLostWakeup
<1>1. WaitInv /\ [Next]_vars => WaitInv'
  BY WaitStep
<1>2. WaitInv => NoLostWakeup
  BY DEF WaitInv
<1> QED BY WaitInit, <1>1, <1>2, PTL DEF Spec

-----------------------------------------------------------------------------
\* Induction over finite sets, as the provers can use it: among the sets for
\* which something fails there is one that contains no other.
LEMMA SmallestSet ==
  ASSUME NEW S, IsFiniteSet(S), NEW Bad \in SUBSET (SUBSET S), Bad # {}
  PROVE  \E T \in Bad : \A U \in Bad : U \subseteq T => U = T
<1>1. IsWellFoundedOn(StrictSubsetOrdering(S), FiniteSubsetsOf(S))
  BY FS_StrictSubsetOrderingWellFounded
<1>2. FiniteSubsetsOf(S) = SUBSET S
  BY FS_FiniteSubsetsOfFinite
<1>3. PICK T \in Bad : \A U \in Bad : <<U, T>> \notin StrictSubsetOrdering(S)
  BY <1>1, <1>2, WFMin
<1> QED
  BY <1>3 DEF StrictSubsetOrdering

\* MapThenSumSet of the community modules, for a function of the takers: a
\* recursive function on their subsets that picks one element at a time.
Pick(s) == CHOOSE x \in s : TRUE

Sum(f) ==
  CHOOSE g : g = [s \in SUBSET Takers |->
                    IF s = {} THEN 0 ELSE f[Pick(s)] + g[s \ {Pick(s)}]]

LEMMA OutstandingIsSum == Outstanding = Sum(took)[Takers]
  BY DEF Outstanding, MapThenSumSet, MapThenFoldSet, Sum, Pick


\* The equation a sum over the subsets of S satisfies.
Adds(f, S, g) ==
  g = [s \in SUBSET S |-> IF s = {} THEN 0 ELSE f[Pick(s)] + g[s \ {Pick(s)}]]

LEMMA PickFacts ==
  ASSUME NEW s, s # {}
  PROVE  Pick(s) \in s
  BY DEF Pick

LEMMA AddsAt ==
  ASSUME NEW f, NEW S, NEW g, Adds(f, S, g), NEW s \in SUBSET S
  PROVE  g[s] = IF s = {} THEN 0 ELSE f[Pick(s)] + g[s \ {Pick(s)}]
  BY DEF Adds

\* Such functions agree where what they add up agrees ...
LEMMA AddsAgree ==
  ASSUME NEW f, NEW h, NEW S, NEW R, NEW g1, NEW g2, IsFiniteSet(S),
         Adds(f, S, g1), Adds(h, R, g2), S \subseteq R,
         \A x \in S : f[x] = h[x]
  PROVE  \A s \in SUBSET S : g1[s] = g2[s]
<1> DEFINE Bad == {s \in SUBSET S : g1[s] # g2[s]}
<1> SUFFICES ASSUME Bad # {} PROVE FALSE
  OBVIOUS
<1>1. PICK s \in Bad : \A u \in Bad : u \subseteq s => u = s
  <2>1. Bad \in SUBSET (SUBSET S)
    OBVIOUS
  <2> HIDE DEF Bad
  <2> QED BY <2>1, SmallestSet
<1>2. CASE s = {}
  BY <1>1, <1>2, AddsAt
<1>3. CASE s # {}
  <2>1. Pick(s) \in s /\ s \in SUBSET S /\ s \in SUBSET R
    BY <1>3, PickFacts
  <2>2. s \ {Pick(s)} \notin Bad
    BY <1>1, <2>1
  <2>3. g1[s \ {Pick(s)}] = g2[s \ {Pick(s)}]
    BY <2>1, <2>2
  <2>4. g1[s] = f[Pick(s)] + g1[s \ {Pick(s)}] /\ g2[s] = h[Pick(s)] + g2[s \ {Pick(s)}]
    BY <1>3, <2>1, AddsAt
  <2> QED BY <2>1, <2>3, <2>4
<1> QED BY <1>2, <1>3

\* ... and there is one: a smallest set without one would get it from the sets
\* below it.
LEMMA AddsExists ==
  ASSUME NEW f, NEW S, IsFiniteSet(S)
  PROVE  \E g : Adds(f, S, g)
<1> DEFINE Bad == {s \in SUBSET S : ~\E g : Adds(f, s, g)}
<1> SUFFICES ASSUME Bad # {} PROVE FALSE
  OBVIOUS
<1>1. PICK s \in Bad : \A u \in Bad : u \subseteq s => u = s
  <2>1. Bad \in SUBSET (SUBSET S)
    OBVIOUS
  <2> HIDE DEF Bad
  <2> QED BY <2>1, SmallestSet
<1> DEFINE G(u) == CHOOSE g : Adds(f, u, g)
<1>2. \A u \in SUBSET s : u # s => Adds(f, u, G(u))
  BY <1>1
<1> DEFINE below(u) == u \ {Pick(u)}
<1>3. \A u \in SUBSET s : u # {} => Pick(u) \in u /\ below(u) \in SUBSET s /\ below(u) # s
  BY PickFacts
<1> HIDE DEF G
<1>4. ASSUME NEW u \in SUBSET s, u # s, u # {}
      PROVE  G(u)[below(u)] = G(below(u))[below(u)]
  <2>1. Adds(f, u, G(u)) /\ Adds(f, below(u), G(below(u)))
    BY <1>2, <1>3, <1>4
  <2>2. IsFiniteSet(below(u))
    BY FS_Subset, <1>4
  <2>3. below(u) \subseteq u
    OBVIOUS
  <2> QED BY <2>1, <2>2, <2>3, AddsAgree
<1> DEFINE g == [u \in SUBSET s |->
                   IF u = s THEN IF s = {} THEN 0 ELSE f[Pick(s)] + G(below(s))[below(s)]
                            ELSE G(u)[u]]
<1>5. ASSUME NEW u \in SUBSET s
      PROVE  g[u] = IF u = {} THEN 0 ELSE f[Pick(u)] + g[below(u)]
  <2>1. CASE u = s
    BY <2>1, <1>3
  <2>2. CASE u # s
    <3>1. G(u)[u] = IF u = {} THEN 0 ELSE f[Pick(u)] + G(u)[below(u)]
      BY <2>2, <1>2, AddsAt
    <3>2. g[u] = G(u)[u]
      BY <2>2
    <3>3. u # {} => g[below(u)] = G(below(u))[below(u)]
      BY <1>3
    <3> QED BY <3>1, <3>2, <3>3, <2>2, <1>4
  <2> QED BY <2>1, <2>2
<1>6. Adds(f, s, g)
  BY <1>5 DEF Adds
<1> QED BY <1>1, <1>6

LEMMA SumAdds ==
  ASSUME NEW f, IsFiniteSet(Takers)
  PROVE  Adds(f, Takers, Sum(f))
<1>1. \E g : Adds(f, Takers, g)
  BY AddsExists
<1>2. Sum(f) = CHOOSE g : Adds(f, Takers, g)
  BY DEF Adds, Sum
<1> QED BY <1>1, <1>2

LEMMA SumType ==
  ASSUME IsFiniteSet(Takers), NEW f \in [Takers -> Nat]
  PROVE  \A s \in SUBSET Takers : Sum(f)[s] \in Nat
<1> DEFINE Bad == {s \in SUBSET Takers : Sum(f)[s] \notin Nat}
<1> SUFFICES ASSUME Bad # {} PROVE FALSE
  OBVIOUS
<1>1. PICK s \in Bad : \A u \in Bad : u \subseteq s => u = s
  <2>1. Bad \in SUBSET (SUBSET Takers)
    OBVIOUS
  <2> HIDE DEF Bad
  <2> QED BY <2>1, SmallestSet
<1>2. Sum(f)[s] = IF s = {} THEN 0 ELSE f[Pick(s)] + Sum(f)[s \ {Pick(s)}]
  <2>1. Adds(f, Takers, Sum(f))
    BY SumAdds
  <2> QED BY <2>1, AddsAt
<1>3. s # {} => Pick(s) \in s /\ s \ {Pick(s)} \notin Bad
  BY <1>1, PickFacts
<1> QED BY <1>2, <1>3

\* The sum does not depend on the order in which elements are picked.
LEMMA SumWithout ==
  ASSUME IsFiniteSet(Takers), NEW f \in [Takers -> Nat]
  PROVE  \A s \in SUBSET Takers : \A x \in s : Sum(f)[s] = f[x] + Sum(f)[s \ {x}]
<1> DEFINE Right(s) == \A x \in s : Sum(f)[s] = f[x] + Sum(f)[s \ {x}]
           Bad == {s \in SUBSET Takers : ~Right(s)}
<1> SUFFICES ASSUME Bad # {} PROVE FALSE
  OBVIOUS
<1>1. PICK s \in Bad : \A u \in Bad : u \subseteq s => u = s
  <2>1. Bad \in SUBSET (SUBSET Takers)
    OBVIOUS
  <2> HIDE DEF Bad
  <2> QED BY <2>1, SmallestSet
<1>2. PICK x \in s : Sum(f)[s] # f[x] + Sum(f)[s \ {x}]
  OBVIOUS
<1> DEFINE y == Pick(s)
<1>3. y \in s
  BY PickFacts
<1>4. Sum(f)[s] = f[y] + Sum(f)[s \ {y}]
  <2>1. Adds(f, Takers, Sum(f))
    BY SumAdds
  <2> QED BY <1>3, <2>1, AddsAt
<1> HIDE DEF y
<1>5. x # y
  BY <1>2, <1>4
<1>6. Right(s \ {x}) /\ Right(s \ {y})
  BY <1>1, <1>3
<1>7. Sum(f)[s \ {x}] = f[y] + Sum(f)[(s \ {x}) \ {y}]
  BY <1>3, <1>5, <1>6
<1>8. Sum(f)[s \ {y}] = f[x] + Sum(f)[(s \ {y}) \ {x}]
  BY <1>5, <1>6
<1>9. (s \ {x}) \ {y} = (s \ {y}) \ {x}
  OBVIOUS
<1>10. f[x] \in Nat /\ f[y] \in Nat /\ Sum(f)[(s \ {x}) \ {y}] \in Nat
  BY <1>3, SumType
<1>11. Sum(f)[s \ {x}] = f[y] + Sum(f)[(s \ {y}) \ {x}]
  BY <1>7, <1>9
<1> DEFINE r == Sum(f)[(s \ {y}) \ {x}]
<1>12. r \in Nat
  BY <1>9, <1>10
<1>13. Sum(f)[s \ {x}] = f[y] + r /\ Sum(f)[s \ {y}] = f[x] + r
  BY <1>11, <1>8
<1> HIDE DEF r
<1>14. Sum(f)[s] = f[y] + (f[x] + r)
  BY <1>4, <1>13
<1>15. f[y] + (f[x] + r) = f[x] + (f[y] + r)
  BY <1>10, <1>12
<1> QED BY <1>2, <1>13, <1>14, <1>15

\* What changing one summand does to the sum.
LEMMA SumUpdate ==
  ASSUME IsFiniteSet(Takers), NEW f \in [Takers -> Nat], NEW t \in Takers, NEW n \in Nat
  PROVE  Sum([f EXCEPT ![t] = n])[Takers] + f[t] = Sum(f)[Takers] + n
<1> DEFINE h == [f EXCEPT ![t] = n]
           rest == Takers \ {t}
<1>1. h \in [Takers -> Nat] /\ h[t] = n
  OBVIOUS
<1>2. Sum(f)[Takers] = f[t] + Sum(f)[rest] /\ Sum(h)[Takers] = h[t] + Sum(h)[rest]
  <2> HIDE DEF h
  <2>1. Takers \in SUBSET Takers /\ t \in Takers
    OBVIOUS
  <2>2. Sum(f)[Takers] = f[t] + Sum(f)[Takers \ {t}]
    BY <2>1, SumWithout
  <2>3. Sum(h)[Takers] = h[t] + Sum(h)[Takers \ {t}]
    BY <1>1, <2>1, SumWithout
  <2> QED BY <2>2, <2>3
<1>3. Sum(f)[rest] = Sum(h)[rest]
  <2>1. \A s \in SUBSET rest : s \in SUBSET Takers
    OBVIOUS
  <2> DEFINE gf == [s \in SUBSET rest |-> Sum(f)[s]]
  <2>2. Adds(f, rest, gf)
    <3>1. ASSUME NEW s \in SUBSET rest
          PROVE  gf[s] = IF s = {} THEN 0 ELSE f[Pick(s)] + gf[s \ {Pick(s)}]
      <4>1. Adds(f, Takers, Sum(f))
        BY SumAdds
      <4>2. Sum(f)[s] = IF s = {} THEN 0 ELSE f[Pick(s)] + Sum(f)[s \ {Pick(s)}]
        BY <4>1, <2>1, AddsAt
      <4> QED BY <4>2
    <3> QED BY <3>1 DEF Adds
  <2>3. \A x \in rest : f[x] = h[x]
    OBVIOUS
  <2>4. IsFiniteSet(rest)
    BY FS_Subset
  <2>5. Adds(h, Takers, Sum(h))
    BY SumAdds
  <2>6. rest \subseteq Takers
    OBVIOUS
  <2> HIDE DEF gf, h, rest
  <2>7. gf[rest] = Sum(h)[rest]
    BY <2>2, <2>3, <2>4, <2>5, <2>6, AddsAgree
  <2> QED BY <2>7 DEF gf
<1>4. Sum(f)[rest] \in Nat
  BY SumType
<1> QED BY <1>1, <1>2, <1>3, <1>4

-----------------------------------------------------------------------------
\* What a taker has subtracted is at most what it asked for, which is what it
\* will give back; and only a holder has subtracted anything.
TookOK ==
  \A t \in Takers : /\ size[t] <= asked[t] /\ took[t] <= asked[t]
                    /\ pc[t] # "holding" => took[t] = 0

UnitsInv == TypeOK /\ TookOK /\ NothingLost

LEMMA UnitsInit == Init => UnitsInv
<1> SUFFICES ASSUME Init PROVE UnitsInv
  OBVIOUS
<1>1. TypeOK
  BY WaitInit DEF WaitInv
<1>2. TookOK
  BY DEF Init, TookOK
<1>3. Outstanding \in Nat
  BY <1>1, OutstandingIsSum, SumType, TakersAssumption DEF TypeOK
<1>4. max \in Nat
  BY <1>1, SemaphoreAssumption DEF TypeOK
<1> QED BY <1>1, <1>2, <1>3, <1>4 DEF UnitsInv, NothingLost, Init

\* A step that leaves the takes alone leaves what is outstanding alone.
LEMMA OutstandingSame ==
  ASSUME UNCHANGED took
  PROVE  Outstanding' = Outstanding
<1>1. Outstanding' = Sum(took')[Takers]
  BY DEF Outstanding, MapThenSumSet, MapThenFoldSet, Sum, Pick
<1> QED BY <1>1, OutstandingIsSum

LEMMA OutstandingChanges ==
  ASSUME TypeOK, NEW t \in Takers, NEW n \in Nat, took' = [took EXCEPT ![t] = n]
  PROVE  /\ Outstanding \in Nat /\ Outstanding' \in Nat
         /\ Outstanding' + took[t] = Outstanding + n
<1>1. Outstanding' = Sum(took')[Takers]
  BY DEF Outstanding, MapThenSumSet, MapThenFoldSet, Sum, Pick
<1>2. took \in [Takers -> Nat] /\ took' \in [Takers -> Nat]
  BY DEF TypeOK
<1>3. Sum(took')[Takers] + took[t] = Sum(took)[Takers] + n
  BY <1>2, SumUpdate, TakersAssumption
<1>4. Sum(took)[Takers] \in Nat /\ Sum(took')[Takers] \in Nat
  BY <1>2, SumType, TakersAssumption
<1> QED BY <1>1, <1>3, <1>4, OutstandingIsSum

LEMMA UnitsStep ==
  ASSUME UnitsInv, WaitInv', [Next]_vars
  PROVE  UnitsInv'
<1> USE DEF UnitsInv
<1>0. /\ max \in Nat /\ available \in Nat /\ available <= max
      /\ DOMAIN pc = Takers /\ took \in [Takers -> Nat]
      /\ asked \in [Takers -> Nat] /\ size \in [Takers -> Nat]
      /\ TypeOK' /\ Outstanding \in Nat
  BY SemaphoreAssumption, OutstandingIsSum, SumType, TakersAssumption DEF TypeOK, WaitInv
<1>1. ASSUME NEW t \in Takers, NEW n \in Sizes, TakeWithContext(t, n)
      PROVE  UnitsInv'
  <2>1. TookOK'
    <3>1. /\ pc[t] = "idle" /\ pc' = [pc EXCEPT ![t] = "entering"]
          /\ asked' = [asked EXCEPT ![t] = n] /\ size' = [size EXCEPT ![t] = n]
          /\ UNCHANGED took
      BY <1>1 DEF TakeWithContext
    <3>2. n \in Nat /\ took[t] = 0
      BY <3>1, SemaphoreAssumption DEF TookOK
    <3> QED BY <1>0, <3>1, <3>2 DEF TookOK
  <2>2. NothingLost'
    BY <1>1, OutstandingSame DEF TakeWithContext, NothingLost
  <2> QED BY <1>0, <2>1, <2>2
<1>2. ASSUME NEW t \in Takers, TakeInner(t)
      PROVE  UnitsInv'
  <2> DEFINE n == MinOf(size[t], max)
  <2>1. n \in Nat /\ n <= size[t]
    BY <1>0, MinOfFacts DEF TypeOK
  <2>2. /\ size' = [size EXCEPT ![t] = n]
        /\ pc[t] = "entering" /\ took[t] = 0
        /\ UNCHANGED <<max, asked>>
    <3>1. pc[t] = "entering"
      BY <1>2 DEF TakeInner
    <3>2. took[t] = 0
      BY <3>1 DEF TookOK
    <3> QED BY <1>2, <3>1, <3>2 DEF TakeInner
  <2> HIDE DEF n
  <2>3. CASE n > available
    <3>1. pc' = [pc EXCEPT ![t] = "waiting"] /\ UNCHANGED <<available, took>>
      BY <1>2, <2>3 DEF TakeInner, n
    <3>2. TookOK'
      BY <2>1, <2>2, <3>1 DEF TookOK, TypeOK
    <3>3. NothingLost'
      BY <2>2, <3>1, OutstandingSame DEF NothingLost
    <3> QED BY <1>0, <3>2, <3>3
  <2>4. CASE ~(n > available)
    <3>1. /\ pc' = [pc EXCEPT ![t] = "holding"]
          /\ available' = available - n
          /\ took' = [took EXCEPT ![t] = n]
      BY <1>2, <2>4 DEF TakeInner, n
    <3>2. TookOK'
      BY <2>1, <2>2, <3>1 DEF TookOK, TypeOK
    <3>3. Outstanding' + took[t] = Outstanding + n /\ Outstanding' \in Nat
      BY <2>1, <3>1, OutstandingChanges
    <3>4. NothingLost'
      <4>1. Outstanding' = Outstanding + n
        BY <2>2, <3>3
      <4> QED BY <1>0, <2>1, <2>2, <2>4, <3>1, <4>1 DEF NothingLost
    <3> QED BY <1>0, <3>2, <3>4
  <2> QED BY <2>3, <2>4
<1>3. ASSUME NEW t \in Takers, LookAgain(t) \/ Cancel(t)
      PROVE  UnitsInv'
  <2>1. TookOK'
    BY <1>3 DEF LookAgain, Cancel, TypeOK, TookOK
  <2>2. UNCHANGED <<took, max, available>>
    BY <1>3 DEF LookAgain, Cancel
  <2>3. NothingLost'
    BY <2>2, OutstandingSame DEF NothingLost
  <2> QED BY <1>0, <2>1, <2>3
<1>4. ASSUME NEW t \in Takers, CancelBroadcast(t)
      PROVE  UnitsInv'
  <2>1. TookOK'
    BY <1>4 DEF CancelBroadcast, Woken, TypeOK, TookOK
  <2>2. NothingLost'
    BY <1>4, OutstandingSame DEF CancelBroadcast, NothingLost
  <2> QED BY <1>0, <2>1, <2>2
<1>5. ASSUME NEW t \in Takers, Give(t)
      PROVE  UnitsInv'
  <2>1. TookOK'
    BY <1>5 DEF Give, Woken, TypeOK, TookOK
  <2>2. /\ available' = MinOf(available + MinOf(asked[t], max), max)
        /\ took' = [took EXCEPT ![t] = 0]
        /\ max' = max
    BY <1>5 DEF Give
  <2>3. asked[t] \in Nat /\ took[t] \in Nat /\ took[t] <= asked[t]
    BY <1>0 DEF TookOK
  <2>4. Outstanding' + took[t] = Outstanding /\ Outstanding' \in Nat
    <3>1. Outstanding' + took[t] = Outstanding + 0 /\ Outstanding' \in Nat
      BY <2>2, OutstandingChanges
    <3> QED BY <1>0, <3>1
  \* Either the capacity is available again, or no less than was taken.
  <2>5. available' = max \/ available' >= available + took[t]
    <3>1. CASE took[t] >= max
      BY <1>0, <2>2, <2>3, <3>1 DEF MinOf
    <3>2. CASE took[t] < max
      BY <1>0, <2>2, <2>3, <3>2 DEF MinOf
    <3> QED BY <1>0, <2>3, <3>1, <3>2
  <2>6. available' \in Nat
    BY <1>0, <2>2, SemaphoreAssumption DEF TypeOK
  <2>7. NothingLost'
    BY <1>0, <2>2, <2>3, <2>4, <2>5, <2>6 DEF NothingLost
  <2> QED BY <1>0, <2>1, <2>7
<1>6. ASSUME NEW c \in Capacities, SetCapacity(c)
      PROVE  UnitsInv'
  <2>1. TookOK'
    BY <1>6 DEF SetCapacity, Woken, TypeOK, TookOK
  <2>2. /\ available' = MinOf(IF available + c >= max THEN available + c - max ELSE 0, c)
        /\ max' = c /\ UNCHANGED took
    BY <1>6 DEF SetCapacity
  <2>3. Outstanding' = Outstanding /\ c \in Nat
    BY <2>2, OutstandingSame, SemaphoreAssumption
  <2>4. NothingLost'
    BY <1>0, <2>2, <2>3 DEF NothingLost, MinOf
  <2> QED BY <1>0, <2>1, <2>4
<1>7. CASE UNCHANGED vars
  <2>1. TookOK'
    BY <1>7 DEF vars, TookOK
  <2>2. NothingLost'
    BY <1>7, OutstandingSame DEF vars, NothingLost
  <2> QED BY <1>0, <2>1, <2>2
<1> QED BY <1>1, <1>2, <1>3, <1>4, <1>5, <1>6, <1>7 DEF Next

\* No unit of the capacity is lost, for any finite set of takers, whatever they
\* asked for, were cut to and give back while the capacity changes under them.
THEOREM CapacityIsKept == Spec => []NothingLost
<1>1. WaitInv /\ [Next]_vars => WaitInv'
  BY WaitStep
<1>2. UnitsInv /\ WaitInv' /\ [Next]_vars => UnitsInv'
  BY UnitsStep
<1>3. UnitsInv => NothingLost
  BY DEF UnitsInv
<1> QED BY WaitInit, UnitsInit, <1>1, <1>2, <1>3, PTL DEF Spec
=============================================================================
