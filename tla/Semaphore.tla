------------------------------ MODULE Semaphore ------------------------------
(***************************************************************************)
(* lib/semaphore: the counting semaphore that bounds folder I/O, incoming  *)
(* requests, disk writes and parallel dialling.  Takers wait on a          *)
(* condition variable; a configuration change sets the capacity while      *)
(* takes are outstanding; TakeWithContext gives up when its context ends.  *)
(*                                                                         *)
(* Everything under the mutex is one step.  The end of a context is        *)
(* broadcast without holding it, so looking at the context and waiting are *)
(* two steps.                                                              *)
(***************************************************************************)
EXTENDS Naturals, FiniteSetsExt

CONSTANTS
  Takers,       \* goroutines that use the semaphore
  Sizes,        \* sizes they ask for
  Capacities    \* capacities it may have

ASSUME SemaphoreAssumption ==
  Sizes \subseteq Nat /\ Capacities \subseteq Nat
ASSUME TakersAssumption == IsFiniteSet(Takers)

VARIABLES
  max, available,
  pc,         \* taker -> what its call of takeInner is doing
  asked,      \* taker -> size it called with
  size,       \* taker -> the local variable size of takeInner
  took,       \* taker -> what its take has subtracted
  cancelled,  \* taker -> is its context done?
  told        \* taker -> has TakeWithContext broadcast that?

vars == <<max, available, pc, asked, size, took, cancelled, told>>

MinOf(x, y) == IF x <= y THEN x ELSE y

\* cond.Broadcast: whoever waits will look again.
Woken == [t \in Takers |-> IF pc[t] = "waiting" THEN "woken" ELSE pc[t]]

Init ==
  /\ max \in Capacities /\ available = max
  /\ pc = [t \in Takers |-> "idle"]
  /\ asked = [t \in Takers |-> 0] /\ size = [t \in Takers |-> 0]
  /\ took = [t \in Takers |-> 0]
  /\ cancelled = [t \in Takers |-> FALSE] /\ told = [t \in Takers |-> FALSE]

----------------------------------------------------------------------------
\* TakeWithContext, up to the look at the context before the mutex is locked.
TakeWithContext(t, n) ==
  /\ pc[t] = "idle"
  /\ pc' = [pc EXCEPT ![t] = "entering"]
  /\ asked' = [asked EXCEPT ![t] = n] /\ size' = [size EXCEPT ![t] = n]
  /\ cancelled' = [cancelled EXCEPT ![t] = FALSE]
  /\ told' = [told EXCEPT ![t] = FALSE]
  /\ UNCHANGED <<max, available, took>>

\* takeInner after it has looked at the context: the size is cut to the capacity,
\* then the taker takes it or waits.
TakeInner(t) ==
  /\ pc[t] = "entering"
  /\ LET n == MinOf(size[t], max) IN
       /\ size' = [size EXCEPT ![t] = n]
       /\ IF n > available
          THEN pc' = [pc EXCEPT ![t] = "waiting"] /\ UNCHANGED <<available, took>>
          ELSE /\ pc' = [pc EXCEPT ![t] = "holding"]
               /\ available' = available - n
               /\ took' = [took EXCEPT ![t] = n]
  /\ UNCHANGED <<max, asked, cancelled, told>>

\* A taker that is woken looks at its context and goes on, or returns an error.
\* It has the mutex from here until it waits again; that others may step in
\* between is more than the code allows, and the end of a context may indeed.
LookAgain(t) ==
  /\ pc[t] = "woken"
  /\ pc' = [pc EXCEPT ![t] = IF cancelled[t] THEN "idle" ELSE "entering"]
  /\ UNCHANGED <<max, available, asked, size, took, cancelled, told>>

Cancel(t) ==
  /\ pc[t] \in {"entering", "waiting", "woken"} /\ ~cancelled[t]
  /\ cancelled' = [cancelled EXCEPT ![t] = TRUE]
  /\ UNCHANGED <<max, available, pc, asked, size, took, told>>

\* TakeWithContext sees that the context is done while takeInner is running.
CancelBroadcast(t) ==
  /\ pc[t] \in {"entering", "waiting", "woken"} /\ cancelled[t] /\ ~told[t]
  /\ told' = [told EXCEPT ![t] = TRUE]
  /\ pc' = Woken
  /\ UNCHANGED <<max, available, asked, size, took, cancelled>>

\* Mutants of Give: one waiter is woken instead of all; none is; the capacity
\* is not looked at.
GiveSilent(t) ==
  /\ pc[t] = "holding"
  /\ available' = MinOf(available + MinOf(asked[t], max), max)
  /\ took' = [took EXCEPT ![t] = 0]
  /\ pc' = [pc EXCEPT ![t] = "idle"]
  /\ UNCHANGED <<max, asked, size, cancelled, told>>

GiveSignal(t) ==
  /\ pc[t] = "holding"
  /\ available' = MinOf(available + MinOf(asked[t], max), max)
  /\ took' = [took EXCEPT ![t] = 0]
  /\ LET waiting == {u \in Takers : pc[u] = "waiting"} IN
       \E u \in IF waiting = {} THEN {t} ELSE waiting :
         pc' = [pc EXCEPT ![u] = "woken", ![t] = "idle"]
  /\ UNCHANGED <<max, asked, size, cancelled, told>>

GiveUncut(t) ==
  /\ pc[t] = "holding"
  /\ available' = available + asked[t]
  /\ took' = [took EXCEPT ![t] = 0]
  /\ pc' = [Woken EXCEPT ![t] = "idle"]
  /\ UNCHANGED <<max, asked, size, cancelled, told>>

\* Callers give back the size they asked for, cut to the capacity of now.
Give(t) ==
  /\ pc[t] = "holding"
  /\ available' = MinOf(available + MinOf(asked[t], max), max)
  /\ took' = [took EXCEPT ![t] = 0]
  /\ pc' = [Woken EXCEPT ![t] = "idle"]
  /\ UNCHANGED <<max, asked, size, cancelled, told>>

\* Mutant of SetCapacity: what is available is not adjusted.
SetCapacityOnly(c) ==
  /\ max' = c
  /\ available' = MinOf(available, c)
  /\ pc' = Woken
  /\ UNCHANGED <<asked, size, took, cancelled, told>>

\* available += capacity - max, kept between 0 and the new capacity.
SetCapacity(c) ==
  /\ max' = c
  /\ available' = MinOf(IF available + c >= max THEN available + c - max ELSE 0, c)
  /\ pc' = Woken
  /\ UNCHANGED <<asked, size, took, cancelled, told>>

Next ==
  \/ \E t \in Takers :
       \/ \E n \in Sizes : TakeWithContext(t, n)
       \/ TakeInner(t) \/ LookAgain(t) \/ Cancel(t) \/ CancelBroadcast(t) \/ Give(t)
  \/ \E c \in Capacities : SetCapacity(c)

Spec == Init /\ [][Next]_vars

\* Goroutines run on, and whoever holds the semaphore gives it back.
FairSpec ==
  /\ Spec
  /\ \A t \in Takers : /\ WF_vars(TakeInner(t)) /\ WF_vars(LookAgain(t))
                       /\ WF_vars(CancelBroadcast(t)) /\ WF_vars(Give(t))

----------------------------------------------------------------------------
\* What is taken at the moment.
Outstanding == MapThenSumSet(LAMBDA t : took[t], Takers)

TypeOK ==
  /\ max \in Capacities /\ available \in 0..max
  /\ pc \in [Takers -> {"idle", "entering", "waiting", "woken", "holding"}]
  /\ asked \in [Takers -> Nat] /\ size \in [Takers -> Nat] /\ took \in [Takers -> Nat]
  /\ cancelled \in [Takers -> BOOLEAN] /\ told \in [Takers -> BOOLEAN]

\* Nobody sleeps on a request that could be granted: every change of available
\* or max reaches every waiter, whatever its size and however often the capacity
\* has changed under it.
NoLostWakeup == \A t \in Takers : pc[t] = "waiting" => size[t] > available

\* No part of the capacity is lost, although takers give back the size they
\* asked for and not the size they were cut to, and the capacity may change in
\* between: what is available and what is taken make up the capacity at least.
NothingLost == available + Outstanding >= max

\* A take whose context is done returns, with or without the semaphore, as long
\* as others give back what they hold: a broadcast that came too early to be
\* heard is made up for by the next Give.
CancelledReturns ==
  \A t \in Takers :
    cancelled[t] /\ pc[t] \in {"entering", "waiting", "woken"} ~>
      pc[t] \in {"idle", "holding"}
=============================================================================
