---------------------- MODULE ConnectionPromotionProofs ----------------------
(***************************************************************************)
(* Proofs about ConnectionPromotion, for any finite set of connections and *)
(* any number of messages.                                                 *)
(***************************************************************************)
EXTENDS ConnectionPromotion, FiniteSetTheorems, SequenceTheorems, TLAPS

Types ==
  /\ phase \in [Sides -> [Conns -> Phases]]
  /\ started \in [Sides -> SUBSET Conns]
  /\ ids \in [Sides -> Seq(Conns)]
  /\ adding \in [Sides -> SUBSET Conns]
  /\ promoted \in [Sides -> Conns \union {None}]
  /\ timer \in [Sides -> BOOLEAN]
  /\ post \in [Sides -> Seq(Actions)]
  /\ handler \in [Sides -> Conns \union {None}]
  /\ wire \in [Sides -> [Conns -> Seq(Messages)]]
  /\ sends \in 0..MaxSends

Listed(q, c) == \E i \in 1..Len(q) : q[i] = c
Distinct(q) == \A i, j \in 1..Len(q) : q[i] = q[j] => i = j

\* deviceConnIDs lists the connections that AddConnection has added and Closed
\* has not removed, each once.
IdsOK ==
  \A s \in Sides : /\ Distinct(ids[s])
                   /\ \A c \in Conns : Listed(ids[s], c)
                                       <=> phase[s][c] \in {"up", "closing"}

\* c is or has been the first connection of s.  It is the first for as long as
\* it is listed: others are only appended.
WasFirst(s, c) ==
  /\ phase[s][c] # "new"
  /\ phase[s][c] \in {"up", "closing"} => ids[s][1] = c

\* promoteConnections is going to send the ClusterConfig that promotes c.
Decided(s, c) == \E i \in 1..Len(post[s]) : post[s][i] = [conn |-> c, cc |-> "primary"]

\* A promotion is about a connection that was the first when it was decided,
\* all the way from promotedConnID to the index handler of the peer.
FirstOK ==
  \A s \in Sides, c \in Conns :
    (\/ promoted[s] = c
     \/ Decided(s, c)
     \/ Listed(wire[s][c], "primary")
     \/ handler[Peer(s)] = c) => WasFirst(s, c)

\* The promoted connection is started, or promoteConnections is about to.
StartOK ==
  \A s \in Sides, c \in Conns :
    promoted[s] = c /\ phase[s][c] = "up" => c \in started[s] \/ Pending(s, c)

\* What PromotionNotLost says of a side, while its timer is not running.
Settled(s) ==
  /\ promoted[s] # ids[s][1]
       => \A c \in Conns : phase[s][c] \in {"up", "closing"} => c \in adding[s]
  /\ \A c \in Conns : phase[s][c] = "up" /\ c \notin started[s]
                        => Pending(s, c) \/ c \in adding[s]

IInv == Types /\ IdsOK /\ FirstOK /\ StartOK /\ PromotionNotLost

-----------------------------------------------------------------------------
LEMMA PeerFacts ==
  ASSUME NEW s \in Sides
  PROVE  Peer(s) \in Sides /\ Peer(s) # s /\ Peer(Peer(s)) = s
  BY DEF Sides, Peer

\* Induction over the numbers 1..n, as the provers can use it.
LEMMA SmallestNumber ==
  ASSUME NEW n \in Nat, NEW Bad \in SUBSET (1..n), Bad # {}
  PROVE  \E i \in Bad : \A j \in Bad : i <= j
<1> DEFINE Below == {1..i : i \in Bad}
<1>0. IsFiniteSet(1..n)
  BY FS_Interval
<1>1. Below \in SUBSET (SUBSET (1..n)) /\ Below # {}
  <2>1. \A i \in Bad : 1..i \subseteq 1..n
    OBVIOUS
  <2>2. PICK i \in Bad : TRUE
    OBVIOUS
  <2>3. 1..i \in Below
    OBVIOUS
  <2> QED BY <2>1, <2>3
<1>2. IsWellFoundedOn(StrictSubsetOrdering(1..n), SUBSET (1..n))
  BY <1>0, FS_StrictSubsetOrderingWellFounded, FS_FiniteSubsetsOfFinite
<1> HIDE DEF Below
<1>3. PICK T \in Below : \A U \in Below : <<U, T>> \notin StrictSubsetOrdering(1..n)
  BY <1>1, <1>2, WFMin
<1>4. PICK i \in Bad : T = 1..i
  BY DEF Below
<1>5. ASSUME NEW j \in Bad, j < i PROVE FALSE
  <2>1. 1..j \in Below /\ 1..j \subseteq 1..i /\ 1..j # 1..i
    BY <1>5 DEF Below
  <2> QED BY <1>1, <1>3, <1>4, <2>1 DEF StrictSubsetOrdering
<1> QED BY <1>5

-----------------------------------------------------------------------------
(* The loop of promoteConnections over the connections after the first.    *)

\* What the loop has appended after each connection of q; S are the started ones.
Appends(q, S, F, n) ==
  F = [i \in 1..n |->
         IF i = 1 THEN <<>>
         ELSE IF q[i] \in S THEN F[i - 1]
         ELSE Append(F[i - 1], [conn |-> q[i], cc |-> "secondary"])]

LEMMA AppendsExists ==
  ASSUME NEW q, NEW S, NEW n \in Nat
  PROVE  \E F : Appends(q, S, F, n)
<1> DEFINE Bad == {i \in 1..n : ~\E F : Appends(q, S, F, i)}
<1>1. CASE n = 0
  <2>1. Appends(q, S, [i \in 1..0 |-> <<>>], 0)
    BY DEF Appends
  <2> QED BY <1>1, <2>1
<1>2. ASSUME n # 0, Bad # {} PROVE FALSE
  <2>1. PICK i \in Bad : \A j \in Bad : i <= j
    <3>1. Bad \in SUBSET (1..n)
      OBVIOUS
    <3> HIDE DEF Bad
    <3> QED BY <1>2, <3>1, SmallestNumber
  <2>2. CASE i = 1
    <3>1. Appends(q, S, [j \in 1..1 |-> <<>>], 1)
      BY DEF Appends
    <3> QED BY <2>1, <2>2, <3>1
  <2>3. CASE i # 1
    <3>1. i - 1 \in 1..n /\ i - 1 \notin Bad
      BY <2>1, <2>3
    <3>2. PICK F : Appends(q, S, F, i - 1)
      BY <3>1
    <3> DEFINE last == IF q[i] \in S THEN F[i - 1]
                       ELSE Append(F[i - 1], [conn |-> q[i], cc |-> "secondary"])
               G == [j \in 1..i |-> IF j = i THEN last ELSE F[j]]
    <3>3. ASSUME NEW j \in 1..i
          PROVE  G[j] = IF j = 1 THEN <<>>
                        ELSE IF q[j] \in S THEN G[j - 1]
                        ELSE Append(G[j - 1], [conn |-> q[j], cc |-> "secondary"])
      <4>1. CASE j = i
        BY <2>3, <3>1, <4>1
      <4>2. CASE j # i
        <5>0. j \in 1..(i - 1)
          BY <4>2
        <5>1. F[j] = IF j = 1 THEN <<>>
                     ELSE IF q[j] \in S THEN F[j - 1]
                     ELSE Append(F[j - 1], [conn |-> q[j], cc |-> "secondary"])
          BY <3>2, <5>0 DEF Appends
        <5>2. G[j] = F[j] /\ (j # 1 => G[j - 1] = F[j - 1])
          BY <4>2
        <5> QED BY <5>1, <5>2
      <4> QED BY <4>1, <4>2
    <3>4. Appends(q, S, G, i)
      BY <3>3 DEF Appends
    <3> QED BY <2>1, <3>4
  <2> QED BY <2>2, <2>3
<1> QED BY <1>1, <1>2

\* The loop yields secondary-marked actions, one at least for every connection
\* after the first that has not been started.
LEMMA SecondaryFacts ==
  ASSUME Types, NEW s \in Sides, ids[s] # <<>>
  PROVE  /\ SecondaryActions(s) \in Seq(Actions)
         /\ \A k \in 1..Len(SecondaryActions(s)) : SecondaryActions(s)[k].cc = "secondary"
         /\ \A i \in 2..Len(ids[s]) :
              ids[s][i] \notin started[s]
                => \E k \in 1..Len(SecondaryActions(s)) :
                     SecondaryActions(s)[k].conn = ids[s][i]
<1> DEFINE q == ids[s]
           S == started[s]
           n == Len(q)
           F == CHOOSE F : Appends(q, S, F, n)
           Good(a, i) == /\ a \in Seq(Actions)
                         /\ \A k \in 1..Len(a) : a[k].cc = "secondary"
                         /\ \A j \in 2..i : q[j] \notin S => \E k \in 1..Len(a) : a[k].conn = q[j]
           Bad == {i \in 1..n : ~Good(F[i], i)}
<1>1. q \in Seq(Conns) /\ n \in Nat /\ n # 0
  BY DEF Types
<1>2. SecondaryActions(s) = F[n]
  BY DEF SecondaryActions, Appends
<1>3. Appends(q, S, F, n)
  BY <1>1, AppendsExists
<1> HIDE DEF F, q, S, n
<1>4. Bad = {}
  <2> SUFFICES ASSUME Bad # {} PROVE FALSE
    OBVIOUS
  <2>1. PICK i \in Bad : \A j \in Bad : i <= j
    <3>1. Bad \in SUBSET (1..n)
      OBVIOUS
    <3> HIDE DEF Bad
    <3> QED BY <1>1, <3>1, SmallestNumber
  <2>2. CASE i = 1
    <3>1. F[i] = <<>>
      BY <1>3, <2>2 DEF Appends
    <3>2. Good(<<>>, 1)
      OBVIOUS
    <3> QED BY <2>1, <2>2, <3>1, <3>2
  <2>3. CASE i # 1
    <3>1. i - 1 \in 1..n /\ i - 1 \notin Bad
      BY <1>1, <2>1, <2>3
    <3>2. Good(F[i - 1], i - 1)
      BY <3>1
    <3> DEFINE a == F[i - 1]
               new == [conn |-> q[i], cc |-> "secondary"]
    <3>3. F[i] = IF q[i] \in S THEN a ELSE Append(a, new)
      BY <1>3, <2>1, <2>3 DEF Appends
    <3>4. new \in Actions
      BY <1>1, <2>1 DEF Actions, n
    <3> HIDE DEF a
    <3>5. CASE q[i] \in S
      <4>1. F[i] = a
        BY <3>3, <3>5
      <4>2. \A j \in 2..i : q[j] \notin S => j \in 2..(i - 1)
        BY <3>5
      <4>3. Good(a, i)
        BY <3>2, <4>2 DEF a
      <4> QED BY <2>1, <4>1, <4>3
    <3>6. CASE q[i] \notin S
      <4>1. F[i] = Append(a, new)
        BY <3>3, <3>6
      <4>2. a \in Seq(Actions)
        BY <3>2 DEF a
      <4>3. /\ Append(a, new) \in Seq(Actions)
            /\ Len(Append(a, new)) = Len(a) + 1
            /\ \A k \in 1..Len(a) : Append(a, new)[k] = a[k]
            /\ Append(a, new)[Len(a) + 1] = new
        BY <3>4, <4>2
      <4> HIDE DEF new
      <4> DEFINE b == Append(a, new)
      <4> HIDE DEF b
      <4>4. \A k \in 1..Len(b) : b[k].cc = "secondary"
        BY <3>2, <4>2, <4>3 DEF a, b, new
      <4>5. ASSUME NEW j \in 2..i, q[j] \notin S
            PROVE  \E k \in 1..Len(b) : b[k].conn = q[j]
        <5>1. CASE j = i
          <6>1. b[Len(a) + 1].conn = q[i] /\ Len(a) + 1 \in 1..Len(b)
            BY <4>2, <4>3 DEF b, new
          <6> QED BY <5>1, <6>1
        <5>2. CASE j # i
          <6>1. PICK k \in 1..Len(a) : a[k].conn = q[j]
            BY <2>1, <3>2, <4>5, <5>2 DEF a
          <6>2. k \in 1..Len(b) /\ b[k] = a[k]
            BY <4>2, <4>3 DEF b
          <6> QED BY <6>1, <6>2
        <5> QED BY <5>1, <5>2
      <4>6. Good(b, i)
        BY <4>3, <4>4, <4>5 DEF b
      <4> QED BY <2>1, <4>1, <4>6 DEF b
    <3> QED BY <3>5, <3>6
  <2> QED BY <2>2, <2>3
<1>5. Good(F[n], n)
  BY <1>1, <1>4
<1> QED BY <1>2, <1>5 DEF q, S, n

-----------------------------------------------------------------------------
\* without: removing a connection keeps the others in their order.
LEMMA WithoutFacts ==
  ASSUME NEW q \in Seq(Conns), Distinct(q), NEW c \in Conns
  PROVE  LET r == without(q, c) IN
         /\ r \in Seq(Conns)
         /\ Distinct(r)
         /\ \A d \in Conns : Listed(r, d) <=> d # c /\ Listed(q, d)
         /\ q # <<>> /\ q[1] # c => r # <<>> /\ r[1] = q[1]
<1> DEFINE r == without(q, c)
<1>1. CASE ~Listed(q, c)
  <2>1. r = q
    BY <1>1 DEF without, RemoveFirst, Listed
  <2> QED BY <1>1, <2>1 DEF Listed
<1>2. CASE Listed(q, c)
  <2>1. PICK k \in 1..Len(q) : q[k] = c
    BY <1>2 DEF Listed
  <2>2. {i \in 1..Len(q) : q[i] = c} = {k}
    BY <2>1 DEF Distinct
  <2>3. SelectInSeq(q, LAMBDA v : v = c) = k
    BY <2>2 DEF SelectInSeq, Min
  <2>4. r = RemoveAt(q, k)
    BY <2>1, <2>3 DEF without, RemoveFirst
  <2>5. /\ r \in Seq(Conns)
        /\ Len(r) = Len(q) - 1
        /\ \A i \in 1..Len(r) : r[i] = IF i < k THEN q[i] ELSE q[i + 1]
    <3> DEFINE front == SubSeq(q, 1, k - 1)
               back == SubSeq(q, k + 1, Len(q))
    <3>1. /\ front \in Seq(Conns) /\ Len(front) = k - 1
          /\ \A i \in 1..(k - 1) : front[i] = q[i]
      BY <2>1, SubSeqProperties
    <3>2. /\ back \in Seq(Conns) /\ Len(back) = Len(q) - k
          /\ \A i \in 1..(Len(q) - k) : back[i] = q[i + k]
      BY <2>1, SubSeqProperties
    <3>3. r = front \o back
      BY <2>4 DEF RemoveAt
    <3> HIDE DEF front, back
    <3>4. r \in Seq(Conns) /\ Len(r) = Len(q) - 1
      BY <2>1, <3>1, <3>2, <3>3
    <3>5. ASSUME NEW i \in 1..Len(r)
          PROVE  r[i] = IF i < k THEN q[i] ELSE q[i + 1]
      <4>1. r[i] = IF i <= Len(front) THEN front[i] ELSE back[i - Len(front)]
        BY <2>1, <3>1, <3>2, <3>3, <3>4, ConcatProperties
      <4>2. CASE i < k
        BY <2>1, <3>1, <4>1, <4>2
      <4>3. CASE ~(i < k)
        <5>1. i - Len(front) \in 1..(Len(q) - k) /\ (i - Len(front)) + k = i + 1
          BY <2>1, <3>1, <3>4, <4>3
        <5>2. r[i] = back[i - Len(front)]
          BY <2>1, <3>1, <4>1, <4>3
        <5> QED BY <3>2, <4>3, <5>1, <5>2
      <4> QED BY <4>2, <4>3
    <3> QED BY <3>4, <3>5
  <2> HIDE DEF r
  <2>6. Distinct(r)
    <3> SUFFICES ASSUME NEW i \in 1..Len(r), NEW j \in 1..Len(r), r[i] = r[j]
                 PROVE  i = j
      BY DEF Distinct
    <3> QED BY <2>1, <2>5 DEF Distinct
  <2>7. ASSUME NEW d \in Conns
        PROVE  Listed(r, d) <=> d # c /\ Listed(q, d)
    <3>1. ASSUME Listed(r, d) PROVE d # c /\ Listed(q, d)
      <4>1. PICK i \in 1..Len(r) : r[i] = d
        BY <3>1 DEF Listed
      <4>2. CASE i < k
        BY <2>1, <2>5, <4>1, <4>2 DEF Distinct, Listed
      <4>3. CASE ~(i < k)
        <5>1. i + 1 \in 1..Len(q) /\ q[i + 1] = d /\ i + 1 # k
          BY <2>1, <2>5, <4>1, <4>3
        <5> QED BY <2>1, <5>1 DEF Distinct, Listed
      <4> QED BY <4>2, <4>3
    <3>2. ASSUME d # c, Listed(q, d) PROVE Listed(r, d)
      <4>1. PICK i \in 1..Len(q) : q[i] = d
        BY <3>2 DEF Listed
      <4>2. CASE i < k
        BY <2>1, <2>5, <4>1, <4>2 DEF Listed
      <4>3. CASE i > k
        <5>1. i - 1 \in 1..Len(r) /\ r[i - 1] = q[i]
          BY <2>1, <2>5, <4>3
        <5> QED BY <4>1, <5>1 DEF Listed
      <4> QED BY <2>1, <3>2, <4>1, <4>2, <4>3
    <3> QED BY <3>1, <3>2
  <2>8. ASSUME q[1] # c
        PROVE  r # <<>> /\ r[1] = q[1]
    <3>1. k # 1 /\ Len(r) # 0 /\ r[1] = q[1]
      BY <2>1, <2>5, <2>8
    <3> QED BY <3>1
  <2> QED BY <2>5, <2>6, <2>7, <2>8 DEF r
<1> QED BY <1>1, <1>2

-----------------------------------------------------------------------------
(* Frames: what carries a part of the invariant over a step that leaves    *)
(* most of the state alone.                                                *)

FirstStays == \A t \in Sides, d \in Conns : WasFirst(t, d) => WasFirst(t, d)'
UpShrinks ==
  \A t \in Sides, d \in Conns :
    /\ phase'[t][d] = "up" => phase[t][d] = "up"
    /\ phase'[t][d] = "closing" => phase[t][d] \in {"up", "closing"}
WireShrinks ==
  \A t \in Sides, d \in Conns :
    Listed(wire'[t][d], "primary") => Listed(wire[t][d], "primary")

LEMMA FirstFrame ==
  ASSUME Types, FirstOK, FirstStays, WireShrinks, UNCHANGED <<promoted, post, handler>>
  PROVE  FirstOK'
<1> SUFFICES ASSUME NEW t \in Sides, NEW d \in Conns,
                    \/ promoted'[t] = d
                    \/ Decided(t, d)'
                    \/ Listed(wire'[t][d], "primary")
                    \/ handler'[Peer(t)] = d
             PROVE  WasFirst(t, d)'
  BY DEF FirstOK
<1>1. Decided(t, d)' <=> Decided(t, d)
  BY DEF Decided
<1>2. WasFirst(t, d)
  BY <1>1 DEF FirstOK, WireShrinks
<1> QED BY <1>2 DEF FirstStays

LEMMA StartFrame ==
  ASSUME Types, StartOK, UpShrinks, UNCHANGED <<promoted, started, post>>
  PROVE  StartOK'
  BY DEF StartOK, UpShrinks, Pending, Types

\* A side whose list, promotion and loops a step leaves alone.
LEMMA SettledFrame ==
  ASSUME Types, UpShrinks, NEW t \in Sides, Settled(t),
         ids'[t] = ids[t], promoted'[t] = promoted[t], started'[t] = started[t],
         post'[t] = post[t], adding'[t] = adding[t]
  PROVE  Settled(t)'
<1>1. \A d \in Conns : Pending(t, d)' <=> Pending(t, d)
  BY DEF Pending
<1> QED BY <1>1 DEF Settled, UpShrinks

LEMMA LostFrame ==
  ASSUME Types, PromotionNotLost, UpShrinks,
         UNCHANGED <<ids, adding, promoted, timer, started, post>>
  PROVE  PromotionNotLost'
<1> SUFFICES ASSUME NEW t \in Sides, ids'[t] # <<>>, ~timer'[t]
             PROVE  Settled(t)'
  BY DEF PromotionNotLost, Settled
<1>1. Settled(t)
  BY DEF PromotionNotLost, Settled
<1> QED BY <1>1, SettledFrame

\* Steps that leave the lists and the phases alone.
LEMMA SamePhases ==
  ASSUME IdsOK, UNCHANGED <<phase, ids>>
  PROVE  IdsOK' /\ FirstStays /\ UpShrinks
  BY DEF IdsOK, FirstStays, UpShrinks, WasFirst

\* A message that is sent, and messages that are consumed.
LEMMA SentFacts ==
  ASSUME Types, NEW s \in Sides, NEW c \in Conns, NEW m \in Messages,
         wire' = Sent(s, c, m)
  PROVE  /\ wire' \in [Sides -> [Conns -> Seq(Messages)]]
         /\ \A t \in Sides, d \in Conns :
              Listed(wire'[t][d], "primary")
                => Listed(wire[t][d], "primary") \/ (t = s /\ d = c /\ m = "primary")
<1>1. CASE wire' = wire
  BY <1>1 DEF Types
<1>2. CASE wire' = [wire EXCEPT ![s][c] = Append(@, m)]
  <2>1. wire[s][c] \in Seq(Messages)
    BY DEF Types
  <2>2. wire' \in [Sides -> [Conns -> Seq(Messages)]]
    BY <1>2, <2>1 DEF Types
  <2>3. ASSUME NEW t \in Sides, NEW d \in Conns, ~(t = s /\ d = c)
        PROVE  wire'[t][d] = wire[t][d]
    BY <1>2, <2>3 DEF Types
  <2>4. wire'[s][c] = Append(wire[s][c], m)
    BY <1>2 DEF Types
  <2>5. ASSUME Listed(wire'[s][c], "primary"), m # "primary"
        PROVE  Listed(wire[s][c], "primary")
    <3>1. PICK i \in 1..Len(wire'[s][c]) : wire'[s][c][i] = "primary"
      BY <2>5 DEF Listed
    <3>2. i \in 1..Len(wire[s][c]) /\ wire[s][c][i] = "primary"
      BY <2>1, <2>4, <2>5, <3>1
    <3> QED BY <3>2 DEF Listed
  <2> QED BY <2>2, <2>3, <2>5
<1> QED BY <1>1, <1>2 DEF Sent

LEMMA ConsumeFacts ==
  ASSUME Types, NEW s \in Sides, NEW c \in Conns, Readable(s, c), Consume(s, c)
  PROVE  wire' \in [Sides -> [Conns -> Seq(Messages)]] /\ WireShrinks
<1> DEFINE p == Peer(s)
<1>1. p \in Sides
  BY PeerFacts
<1>2. wire' = [wire EXCEPT ![p][c] = Tail(@)] /\ wire[p][c] # <<>>
  BY DEF Consume, Readable
<1> HIDE DEF p
<1>3. wire[p][c] \in Seq(Messages)
  BY <1>1 DEF Types
<1>4. wire' \in [Sides -> [Conns -> Seq(Messages)]]
  BY <1>1, <1>2, <1>3 DEF Types
<1>5. ASSUME NEW t \in Sides, NEW d \in Conns, ~(t = p /\ d = c)
      PROVE  wire'[t][d] = wire[t][d]
  BY <1>2, <1>5 DEF Types
<1>6. wire'[p][c] = Tail(wire[p][c])
  BY <1>1, <1>2 DEF Types
<1>7. ASSUME Listed(wire'[p][c], "primary")
      PROVE  Listed(wire[p][c], "primary")
  <2>1. PICK i \in 1..Len(wire'[p][c]) : wire'[p][c][i] = "primary"
    BY <1>7 DEF Listed
  <2>2. i + 1 \in 1..Len(wire[p][c]) /\ wire[p][c][i + 1] = "primary"
    <3> DEFINE w == wire[p][c]
    <3>1. w \in Seq(Messages) /\ w # <<>> /\ i \in 1..Len(Tail(w)) /\ Tail(w)[i] = "primary"
      BY <1>2, <1>3, <1>6, <2>1
    <3> HIDE DEF w
    <3>2. i + 1 \in 1..Len(w) /\ w[i + 1] = "primary"
      BY <3>1
    <3> QED BY <3>2 DEF w
  <2> QED BY <2>2 DEF Listed
<1> QED BY <1>4, <1>5, <1>7 DEF WireShrinks

\* A connection that begins to close stays on the list.
LEMMA BeginCloseFacts ==
  ASSUME Types, IdsOK, NEW s \in Sides, NEW c \in Conns, phase[s][c] = "up",
         BeginClose(s, c), UNCHANGED ids
  PROVE  /\ phase' \in [Sides -> [Conns -> Phases]]
         /\ wire' \in [Sides -> [Conns -> Seq(Messages)]]
         /\ IdsOK' /\ FirstStays /\ UpShrinks /\ WireShrinks
<1> DEFINE p == Peer(s)
<1>1. p \in Sides /\ p # s
  BY PeerFacts
<1>2. /\ phase' = [phase EXCEPT ![s][c] = "closing"]
      /\ wire' = [wire EXCEPT ![p][c] = <<>>,
                              ![s][c] = IF c \in started[s] THEN @ ELSE <<>>]
  BY DEF BeginClose
<1> HIDE DEF p
<1>3. /\ phase' \in [Sides -> [Conns -> Phases]]
      /\ phase'[s][c] = "closing"
      /\ \A t \in Sides, d \in Conns : ~(t = s /\ d = c) => phase'[t][d] = phase[t][d]
  BY <1>2 DEF Types, Phases
<1>4. \A t \in Sides, d \in Conns : wire'[t][d] \in {wire[t][d], <<>>}
  BY <1>1, <1>2 DEF Types
<1>5. wire' \in [Sides -> [Conns -> Seq(Messages)]]
  <2>1. wire[p][c] \in Seq(Messages) /\ wire[s][c] \in Seq(Messages) /\ <<>> \in Seq(Messages)
    BY <1>1 DEF Types
  <2>2. wire[p] \in [Conns -> Seq(Messages)] /\ wire[s] \in [Conns -> Seq(Messages)]
    BY <1>1 DEF Types
  <2>3. wire' = [wire EXCEPT ![p] = [wire[p] EXCEPT ![c] = <<>>],
                             ![s] = [wire[s] EXCEPT ![c] = IF c \in started[s] THEN @ ELSE <<>>]]
    BY <1>1, <1>2 DEF Types
  <2>4. /\ [wire[p] EXCEPT ![c] = <<>>] \in [Conns -> Seq(Messages)]
        /\ [wire[s] EXCEPT ![c] = IF c \in started[s] THEN @ ELSE <<>>] \in [Conns -> Seq(Messages)]
    BY <2>1, <2>2
  <2> QED BY <2>3, <2>4, <1>1 DEF Types
<1>6. ~Listed(<<>>, "primary")
  BY DEF Listed
<1>7. WireShrinks
  BY <1>4, <1>6 DEF WireShrinks
<1>8. UpShrinks
  BY <1>3 DEF UpShrinks
<1>9. IdsOK'
  BY <1>3 DEF IdsOK
<1>10. FirstStays
  BY <1>3 DEF FirstStays, WasFirst
<1> QED BY <1>3, <1>5, <1>7, <1>8, <1>9, <1>10

-----------------------------------------------------------------------------
LEMMA AddConnectionOK ==
  ASSUME IInv, NEW s \in Sides, NEW c \in Conns, AddConnection(s, c)
  PROVE  IInv'
<1> USE DEF IInv
<1>1. /\ phase[s][c] = "new"
      /\ phase' = [phase EXCEPT ![s][c] = "up"]
      /\ ids' = [ids EXCEPT ![s] = Append(@, c)]
      /\ adding' = [adding EXCEPT ![s] = @ \union {c}]
      /\ UNCHANGED <<started, promoted, timer, post, handler, wire, sends>>
  BY DEF AddConnection
<1>2. Types'
  BY <1>1 DEF Types, Phases
<1>3. /\ phase'[s][c] = "up"
      /\ \A t \in Sides, d \in Conns : ~(t = s /\ d = c) => phase'[t][d] = phase[t][d]
  BY <1>1 DEF Types
<1> DEFINE q == ids[s]
<1>4. /\ q \in Seq(Conns) /\ ids'[s] = Append(q, c)
      /\ \A t \in Sides : t # s => ids'[t] = ids[t]
      /\ Distinct(q) /\ ~Listed(q, c)
  BY <1>1 DEF Types, IdsOK
<1> HIDE DEF q
<1>5. Distinct(Append(q, c))
  <2> SUFFICES ASSUME NEW i \in 1..Len(q) + 1, NEW j \in 1..Len(q) + 1,
                      Append(q, c)[i] = Append(q, c)[j]
               PROVE  i = j
    BY <1>4 DEF Distinct
  <2> QED BY <1>4 DEF Distinct, Listed
<1>6. \A d \in Conns : Listed(Append(q, c), d) <=> Listed(q, d) \/ d = c
  <2> TAKE d \in Conns
  <2>1. Append(q, c)[Len(q) + 1] = c /\ \A i \in 1..Len(q) : Append(q, c)[i] = q[i]
    BY <1>4
  <2>2. Len(Append(q, c)) = Len(q) + 1 /\ Len(q) \in Nat
    BY <1>4
  <2> QED BY <2>1, <2>2 DEF Listed
<1>7. IdsOK'
  <2> SUFFICES ASSUME NEW t \in Sides
               PROVE  /\ Distinct(ids'[t])
                      /\ \A d \in Conns : Listed(ids'[t], d)
                                          <=> phase'[t][d] \in {"up", "closing"}
    BY DEF IdsOK
  <2>1. CASE t = s
    BY <1>3, <1>4, <1>5, <1>6, <2>1 DEF IdsOK, q
  <2>2. CASE t # s
    BY <1>3, <1>4, <2>2 DEF IdsOK
  <2> QED BY <2>1, <2>2
<1>8. FirstStays
  <2> SUFFICES ASSUME NEW t \in Sides, NEW d \in Conns, WasFirst(t, d)
               PROVE  WasFirst(t, d)'
    BY DEF FirstStays
  <2>1. ~(t = s /\ d = c) /\ phase'[t][d] = phase[t][d]
    BY <1>1, <1>3 DEF WasFirst
  <2>2. CASE t = s /\ phase[s][d] \in {"up", "closing"}
    <3>1. Listed(q, d) /\ q[1] = d
      BY <2>2 DEF WasFirst, IdsOK, q
    <3>2. Append(q, c)[1] = d
      BY <1>4, <3>1 DEF Listed
    <3> QED BY <1>4, <2>1, <2>2, <3>2 DEF WasFirst
  <2>3. CASE ~(t = s /\ phase[s][d] \in {"up", "closing"})
    BY <1>4, <2>1, <2>3 DEF WasFirst
  <2> QED BY <2>2, <2>3
<1>9. FirstOK'
  <2>1. WireShrinks
    BY <1>1 DEF WireShrinks
  <2> QED BY <1>1, <1>8, <2>1, FirstFrame
<1>10. StartOK'
  <2> SUFFICES ASSUME NEW t \in Sides, NEW d \in Conns, promoted'[t] = d, phase'[t][d] = "up"
               PROVE  d \in started'[t] \/ Pending(t, d)'
    BY DEF StartOK
  <2>1. WasFirst(t, d)
    BY <1>1 DEF FirstOK
  <2>2. phase[t][d] = "up"
    BY <1>1, <1>3, <2>1 DEF WasFirst
  <2> QED BY <1>1, <2>2 DEF StartOK, Pending
<1>11. PromotionNotLost'
  <2> SUFFICES ASSUME NEW t \in Sides, ids'[t] # <<>>, ~timer'[t]
               PROVE  Settled(t)'
    BY DEF PromotionNotLost, Settled
  <2>1. \A d \in Conns : Pending(t, d)' <=> Pending(t, d)
    BY <1>1 DEF Pending
  <2>2. CASE t # s
    <3>1. ids'[t] = ids[t] /\ adding'[t] = adding[t] /\ ~timer[t]
      BY <1>1, <1>4, <2>2 DEF Types
    <3>2. Settled(t)
      BY <3>1 DEF PromotionNotLost, Settled
    <3> QED BY <1>1, <1>3, <2>1, <2>2, <3>1, <3>2 DEF Settled
  <2>3. CASE t = s
    <3>1. adding'[s] = adding[s] \union {c}
      BY <1>1 DEF Types
    <3>2. CASE q = <<>>
      \* It is the only connection.
      <4>1. \A d \in Conns : phase'[s][d] \in {"up", "closing"} => d = c
        <5>1. \A d \in Conns : ~Listed(q, d)
          BY <3>2 DEF Listed
        <5> QED BY <1>3, <5>1 DEF IdsOK, q
      <4> QED BY <2>3, <3>1, <4>1 DEF Settled
    <3>3. CASE q # <<>>
      <4>1. Settled(s)
        BY <1>1, <2>3, <3>3 DEF PromotionNotLost, Settled, q
      <4>2. ids'[s][1] = ids[s][1]
        BY <1>4, <3>3 DEF q
      <4> QED BY <1>1, <1>3, <2>1, <2>3, <3>1, <4>1, <4>2 DEF Settled
    <3> QED BY <3>2, <3>3
  <2> QED BY <2>2, <2>3
<1> QED BY <1>2, <1>7, <1>9, <1>10, <1>11

LEMMA scheduleConnectionPromotionOK ==
  ASSUME IInv, NEW s \in Sides, NEW c \in Conns, scheduleConnectionPromotion(s, c)
  PROVE  IInv'
<1> USE DEF IInv
<1>1. /\ adding' = [adding EXCEPT ![s] = @ \ {c}]
      /\ timer' = [timer EXCEPT ![s] = TRUE]
      /\ UNCHANGED <<phase, started, ids, promoted, post, handler, wire, sends>>
  BY DEF scheduleConnectionPromotion
<1>2. IdsOK' /\ FirstStays /\ UpShrinks
  BY <1>1, SamePhases
<1>3. WireShrinks
  BY <1>1 DEF WireShrinks
<1>4. Types'
  BY <1>1 DEF Types
<1>5. FirstOK' /\ StartOK'
  BY <1>1, <1>2, <1>3, FirstFrame, StartFrame
<1>6. PromotionNotLost'
  <2> SUFFICES ASSUME NEW t \in Sides, ids'[t] # <<>>, ~timer'[t]
               PROVE  Settled(t)'
    BY DEF PromotionNotLost, Settled
  <2>1. t # s /\ ~timer[t] /\ adding'[t] = adding[t]
    BY <1>1 DEF Types
  <2>2. Settled(t)
    BY <1>1, <2>1 DEF PromotionNotLost, Settled
  <2> QED BY <1>1, <1>2, <2>1, <2>2, SettledFrame
<1> QED BY <1>2, <1>4, <1>5, <1>6

LEMMA RefuseOK ==
  ASSUME IInv, NEW s \in Sides, NEW c \in Conns, Refuse(s, c)
  PROVE  IInv'
<1> USE DEF IInv
<1> DEFINE p == Peer(s)
<1>1. /\ phase[s][c] = "new"
      /\ phase' = [phase EXCEPT ![s][c] = "gone"]
      /\ wire' = [wire EXCEPT ![p][c] = <<>>]
      /\ UNCHANGED <<started, ids, adding, promoted, timer, post, handler, sends>>
  BY DEF Refuse
<1>2. p \in Sides
  BY PeerFacts
<1> HIDE DEF p
<1>3. Types'
  BY <1>1, <1>2 DEF Types, Phases
<1>4. /\ phase'[s][c] = "gone"
      /\ \A t \in Sides, d \in Conns : ~(t = s /\ d = c) => phase'[t][d] = phase[t][d]
  BY <1>1 DEF Types
<1>5. \A t \in Sides, d \in Conns : wire'[t][d] \in {wire[t][d], <<>>}
  BY <1>1, <1>2 DEF Types
<1>6. IdsOK'
  BY <1>1, <1>4 DEF IdsOK
<1>7. FirstStays /\ UpShrinks
  BY <1>1, <1>4 DEF FirstStays, UpShrinks, WasFirst
<1>8. ~Listed(<<>>, "primary")
  BY DEF Listed
<1>9. WireShrinks
  BY <1>5, <1>8 DEF WireShrinks
<1>10. FirstOK'
  BY <1>1, <1>7, <1>9, FirstFrame
<1>11. StartOK' /\ PromotionNotLost'
  BY <1>1, <1>7, StartFrame, LostFrame
<1> QED BY <1>3, <1>6, <1>10, <1>11

\* Close, PeerClosed and an index message without a handler.
LEMMA BeginCloseOK ==
  ASSUME IInv, NEW s \in Sides, NEW c \in Conns, phase[s][c] = "up", BeginClose(s, c),
         UNCHANGED <<started, ids, adding, promoted, timer, post, handler, sends>>
  PROVE  IInv'
<1> USE DEF IInv
<1>1. /\ phase' \in [Sides -> [Conns -> Phases]]
      /\ wire' \in [Sides -> [Conns -> Seq(Messages)]]
      /\ IdsOK' /\ FirstStays /\ UpShrinks /\ WireShrinks
  BY BeginCloseFacts
<1>2. Types'
  BY <1>1 DEF Types
<1>3. FirstOK' /\ StartOK' /\ PromotionNotLost'
  BY <1>1, FirstFrame, StartFrame, LostFrame
<1> QED BY <1>1, <1>2, <1>3

\* A message is consumed that moves no handler.
LEMMA ConsumeOK ==
  ASSUME IInv, NEW s \in Sides, NEW c \in Conns, Readable(s, c), Consume(s, c),
         UNCHANGED <<phase, started, ids, adding, promoted, timer, post, handler, sends>>
  PROVE  IInv'
<1> USE DEF IInv
<1>1. wire' \in [Sides -> [Conns -> Seq(Messages)]] /\ WireShrinks
  BY ConsumeFacts
<1>2. IdsOK' /\ FirstStays /\ UpShrinks
  BY SamePhases
<1>3. Types'
  BY <1>1 DEF Types
<1>4. FirstOK' /\ StartOK' /\ PromotionNotLost'
  BY <1>1, <1>2, FirstFrame, StartFrame, LostFrame
<1> QED BY <1>2, <1>3, <1>4

LEMMA ReceivePrimaryOK ==
  ASSUME IInv, NEW s \in Sides, NEW c \in Conns, ReceivePrimary(s, c)
  PROVE  IInv'
<1> USE DEF IInv
<1>1. /\ Readable(s, c) /\ Consume(s, c)
      /\ Head(wire[Peer(s)][c]) = "primary"
      /\ handler' = [handler EXCEPT ![s] = c]
      /\ UNCHANGED <<phase, started, ids, adding, promoted, timer, post, sends>>
  BY DEF ReceivePrimary, Message
<1>2. wire' \in [Sides -> [Conns -> Seq(Messages)]] /\ WireShrinks
  BY <1>1, ConsumeFacts
<1>3. IdsOK' /\ FirstStays /\ UpShrinks
  BY <1>1, SamePhases
<1>4. Types'
  BY <1>1, <1>2 DEF Types
<1>5. Peer(s) \in Sides /\ Peer(Peer(s)) = s
  BY PeerFacts
<1>6. WasFirst(Peer(s), c)
  <2>1. wire[Peer(s)][c] \in Seq(Messages) /\ wire[Peer(s)][c] # <<>>
    BY <1>1, <1>5 DEF Readable, Types
  <2>2. Listed(wire[Peer(s)][c], "primary")
    BY <1>1, <2>1 DEF Listed
  <2> QED BY <1>5, <2>2 DEF FirstOK
<1>7. FirstOK'
  <2> SUFFICES ASSUME NEW t \in Sides, NEW d \in Conns,
                      \/ promoted'[t] = d
                      \/ Decided(t, d)'
                      \/ Listed(wire'[t][d], "primary")
                      \/ handler'[Peer(t)] = d
               PROVE  WasFirst(t, d)'
    BY DEF FirstOK
  <2>1. WasFirst(t, d) => WasFirst(t, d)'
    BY <1>3 DEF FirstStays
  <2>2. CASE promoted'[t] = d \/ Decided(t, d)' \/ Listed(wire'[t][d], "primary")
    <3>1. Decided(t, d)' <=> Decided(t, d)
      BY <1>1 DEF Decided
    <3> QED BY <1>1, <1>2, <2>1, <2>2, <3>1 DEF FirstOK, WireShrinks
  <2>3. CASE handler'[Peer(t)] = d
    <3>1. Peer(t) \in Sides /\ Peer(Peer(t)) = t
      BY PeerFacts
    <3>2. CASE Peer(t) = s
      <4>1. d = c /\ t = Peer(s)
        BY <1>1, <2>3, <3>1, <3>2 DEF Types
      <4> QED BY <1>6, <2>1, <4>1
    <3>3. CASE Peer(t) # s
      <4>1. handler[Peer(t)] = d
        BY <1>1, <2>3, <3>1, <3>3 DEF Types
      <4> QED BY <2>1, <4>1 DEF FirstOK
    <3> QED BY <3>2, <3>3
  <2> QED BY <2>2, <2>3
<1>8. StartOK' /\ PromotionNotLost'
  BY <1>1, <1>3, StartFrame, LostFrame
<1> QED BY <1>3, <1>4, <1>7, <1>8

\* A message is sent.  If it is a promotion, it is about the first connection.
LEMMA SentOK ==
  ASSUME IInv, NEW s \in Sides, NEW c \in Conns, NEW m \in Messages, wire' = Sent(s, c, m),
         m = "primary" => WasFirst(s, c)
  PROVE  /\ wire' \in [Sides -> [Conns -> Seq(Messages)]]
         /\ \A t \in Sides, d \in Conns : Listed(wire'[t][d], "primary") => WasFirst(t, d)
<1> USE DEF IInv
<1>1. /\ wire' \in [Sides -> [Conns -> Seq(Messages)]]
      /\ \A t \in Sides, d \in Conns :
           Listed(wire'[t][d], "primary")
             => Listed(wire[t][d], "primary") \/ (t = s /\ d = c /\ m = "primary")
  BY SentFacts
<1> QED BY <1>1 DEF FirstOK

\* sendClusterConfig and SendIndex.
LEMMA SendOK ==
  ASSUME IInv, NEW s \in Sides, NEW c \in Conns, NEW m \in Messages, wire' = Sent(s, c, m),
         m = "primary" => WasFirst(s, c), sends < MaxSends, sends' = sends + 1,
         UNCHANGED <<phase, started, ids, adding, promoted, timer, post, handler>>
  PROVE  IInv'
<1> USE DEF IInv
<1>1. /\ wire' \in [Sides -> [Conns -> Seq(Messages)]]
      /\ \A t \in Sides, d \in Conns : Listed(wire'[t][d], "primary") => WasFirst(t, d)
  BY SentOK
<1>2. IdsOK' /\ FirstStays /\ UpShrinks
  BY SamePhases
<1>3. sends' \in 0..MaxSends
  BY BoundsAssumption DEF Types
<1>4. Types'
  BY <1>1, <1>3 DEF Types
<1>5. FirstOK'
  <2> SUFFICES ASSUME NEW t \in Sides, NEW d \in Conns,
                      \/ promoted'[t] = d
                      \/ Decided(t, d)'
                      \/ Listed(wire'[t][d], "primary")
                      \/ handler'[Peer(t)] = d
               PROVE  WasFirst(t, d)'
    BY DEF FirstOK
  <2>1. Decided(t, d)' <=> Decided(t, d)
    BY DEF Decided
  <2>2. WasFirst(t, d)
    BY <1>1, <2>1 DEF FirstOK
  <2> QED BY <1>2, <2>2 DEF FirstStays
<1>6. StartOK' /\ PromotionNotLost'
  BY <1>2, StartFrame, LostFrame
<1> QED BY <1>2, <1>4, <1>5, <1>6

\* The first connection of a list is one.
LEMMA FirstIsFirst ==
  ASSUME Types, IdsOK, NEW s \in Sides, ids[s] # <<>>
  PROVE  ids[s][1] \in Conns /\ WasFirst(s, ids[s][1])
<1>1. ids[s] \in Seq(Conns) /\ Len(ids[s]) # 0 /\ Len(ids[s]) \in Nat
  BY DEF Types
<1>2. ids[s][1] \in Conns /\ Listed(ids[s], ids[s][1])
  BY <1>1 DEF Listed
<1>3. phase[s][ids[s][1]] \in {"up", "closing"}
  BY <1>2 DEF IdsOK
<1> QED BY <1>2, <1>3 DEF WasFirst

LEMMA PostLockActionOK ==
  ASSUME IInv, NEW s \in Sides, PostLockAction(s)
  PROVE  IInv'
<1> USE DEF IInv
<1> DEFINE a == Head(post[s])
<1>1. /\ post[s] # <<>>
      /\ post' = [post EXCEPT ![s] = Tail(@)]
      /\ started' = IF phase[s][a.conn] = "up"
                    THEN [started EXCEPT ![s] = @ \union {a.conn}] ELSE started
      /\ wire' = Sent(s, a.conn, a.cc)
      /\ UNCHANGED <<phase, ids, adding, promoted, timer, handler, sends>>
  BY DEF PostLockAction
<1>2. post[s] \in Seq(Actions) /\ a \in Actions /\ a = post[s][1] /\ Len(post[s]) \in Nat \ {0}
  BY <1>1 DEF Types
<1> HIDE DEF a
<1>3. a.conn \in Conns /\ a.cc \in Messages
  BY <1>2 DEF Actions, Messages
<1>4. a.cc = "primary" => WasFirst(s, a.conn)
  <2> SUFFICES ASSUME a.cc = "primary" PROVE WasFirst(s, a.conn)
    OBVIOUS
  <2>1. a = [conn |-> a.conn, cc |-> "primary"]
    BY <1>2 DEF Actions
  <2>2. Decided(s, a.conn)
    BY <1>2, <2>1 DEF Decided
  <2> QED BY <1>3, <2>2 DEF FirstOK
<1>5. /\ wire' \in [Sides -> [Conns -> Seq(Messages)]]
      /\ \A t \in Sides, d \in Conns : Listed(wire'[t][d], "primary") => WasFirst(t, d)
  <2>1. wire' = Sent(s, a.conn, a.cc)
    BY <1>1
  <2> QED BY <1>3, <1>4, <2>1, SentOK
<1>6. IdsOK' /\ FirstStays /\ UpShrinks
  BY <1>1, SamePhases
<1>7. started' \in [Sides -> SUBSET Conns]
  BY <1>1, <1>3 DEF Types
<1>8. Types'
  BY <1>1, <1>2, <1>5, <1>7 DEF Types
<1>9. /\ post'[s] = Tail(post[s])
      /\ \A t \in Sides : t # s => post'[t] = post[t]
      /\ Len(post'[s]) = Len(post[s]) - 1
      /\ \A i \in 1..Len(post'[s]) : i + 1 \in 1..Len(post[s]) /\ post'[s][i] = post[s][i + 1]
      /\ \A i \in 1..Len(post[s]) :
           i # 1 => i - 1 \in 1..Len(post'[s]) /\ post'[s][i - 1] = post[s][i]
  <2> DEFINE q == post[s]
  <2>1. post'[s] = Tail(q) /\ \A t \in Sides : t # s => post'[t] = post[t]
    BY <1>1 DEF Types
  <2>2. q \in Seq(Actions) /\ q # <<>>
    BY <1>1, <1>2
  <2> HIDE DEF q
  <2>3. Len(Tail(q)) = Len(q) - 1 /\ \A i \in 1..Len(Tail(q)) : Tail(q)[i] = q[i + 1]
    BY <2>2
  <2>4. Len(q) \in Nat \ {0}
    BY <2>2
  <2>5. \A i \in 1..Len(Tail(q)) : i + 1 \in 1..Len(q)
    BY <2>3, <2>4
  <2>6. \A i \in 1..Len(q) : i # 1 => i - 1 \in 1..Len(Tail(q)) /\ Tail(q)[i - 1] = q[i]
    BY <2>3, <2>4
  <2> QED BY <2>1, <2>3, <2>5, <2>6 DEF q
<1>10. FirstOK'
  <2> SUFFICES ASSUME NEW t \in Sides, NEW d \in Conns,
                      \/ promoted'[t] = d
                      \/ Decided(t, d)'
                      \/ Listed(wire'[t][d], "primary")
                      \/ handler'[Peer(t)] = d
               PROVE  WasFirst(t, d)'
    BY DEF FirstOK
  <2>1. Decided(t, d)' => Decided(t, d)
    <3> SUFFICES ASSUME NEW i \in 1..Len(post'[t]),
                        post'[t][i] = [conn |-> d, cc |-> "primary"]
                 PROVE  Decided(t, d)
      BY DEF Decided
    <3>1. CASE t = s
      <4>1. i + 1 \in 1..Len(post[s]) /\ post[s][i + 1] = [conn |-> d, cc |-> "primary"]
        BY <1>9, <3>1
      <4> QED BY <3>1, <4>1 DEF Decided
    <3>2. CASE t # s
      BY <1>9, <3>2 DEF Decided
    <3> QED BY <3>1, <3>2
  <2>2. WasFirst(t, d)
    BY <1>1, <1>5, <2>1 DEF FirstOK
  <2> QED BY <1>6, <2>2 DEF FirstStays
\* Who is up and was about to be started is started or still about to be.
<1>11. ASSUME NEW t \in Sides, NEW d \in Conns, phase[t][d] = "up",
              d \in started[t] \/ Pending(t, d)
       PROVE  d \in started'[t] \/ Pending(t, d)'
  <2>1. CASE d \in started[t]
    BY <1>1, <2>1 DEF Types
  <2>2. CASE Pending(t, d) /\ t # s
    BY <1>9, <2>2 DEF Pending
  <2>3. CASE Pending(t, d) /\ t = s
    <3>1. PICK i \in 1..Len(post[s]) : post[s][i].conn = d
      BY <2>3 DEF Pending
    <3>2. CASE i = 1
      <4>1. a.conn = d
        BY <1>2, <3>1, <3>2
      <4>2. started' = [started EXCEPT ![s] = @ \union {d}]
        BY <1>1, <1>11, <2>3, <4>1
      <4> QED BY <2>3, <4>2 DEF Types
    <3>3. CASE i # 1
      BY <1>9, <2>3, <3>1, <3>3 DEF Pending
    <3> QED BY <3>2, <3>3
  <2> QED BY <1>11, <2>1, <2>2, <2>3
<1>12. StartOK'
  BY <1>1, <1>11 DEF StartOK
<1>13. PromotionNotLost'
  <2> SUFFICES ASSUME NEW t \in Sides, ids'[t] # <<>>, ~timer'[t]
               PROVE  Settled(t)'
    BY DEF PromotionNotLost, Settled
  <2>1. Settled(t)
    BY <1>1 DEF PromotionNotLost, Settled
  <2>2. ASSUME NEW d \in Conns, phase'[t][d] = "up", d \notin started'[t]
        PROVE  Pending(t, d)' \/ d \in adding'[t]
    BY <1>1, <1>11, <2>1, <2>2 DEF Settled
  <2> QED BY <1>1, <2>1, <2>2 DEF Settled
<1> QED BY <1>6, <1>8, <1>10, <1>12, <1>13

LEMMA promoteConnectionsOK ==
  ASSUME IInv, NEW s \in Sides, promoteConnections(s)
  PROVE  IInv'
<1> USE DEF IInv
<1>1. /\ post[s] = <<>>
      /\ timer' = [timer EXCEPT ![s] = FALSE]
      /\ UNCHANGED <<phase, started, ids, adding, handler, wire, sends>>
  BY DEF promoteConnections
<1>2. IdsOK' /\ FirstStays /\ UpShrinks
  BY <1>1, SamePhases
<1>3. WireShrinks
  BY <1>1 DEF WireShrinks
<1>4. CASE ids[s] = <<>>
  <2>1. UNCHANGED <<promoted, post>>
    BY <1>4 DEF promoteConnections
  <2>2. Types'
    BY <1>1, <2>1 DEF Types
  <2>3. FirstOK' /\ StartOK'
    BY <1>1, <1>2, <1>3, <2>1, FirstFrame, StartFrame
  <2>4. PromotionNotLost'
    <3> SUFFICES ASSUME NEW t \in Sides, ids'[t] # <<>>, ~timer'[t]
                 PROVE  Settled(t)'
      BY DEF PromotionNotLost, Settled
    <3>1. t # s /\ ~timer[t]
      BY <1>1, <1>4 DEF Types
    <3>2. Settled(t)
      BY <1>1, <3>1 DEF PromotionNotLost, Settled
    <3> QED BY <1>1, <1>2, <2>1, <3>2, SettledFrame
  <2> QED BY <1>2, <2>2, <2>3, <2>4
<1>5. CASE ids[s] # <<>>
  <2> DEFINE first == ids[s][1]
             P == PrimaryAction(s)
             S == SecondaryActions(s)
  <2>1. /\ post' = [post EXCEPT ![s] = P \o S]
        /\ promoted' = [promoted EXCEPT ![s] = first]
    BY <1>5 DEF promoteConnections
  <2>2. first \in Conns /\ WasFirst(s, first)
    BY <1>5, FirstIsFirst
  <2>3. P = IF promoted[s] # first THEN <<[conn |-> first, cc |-> "primary"]>> ELSE <<>>
    BY DEF PrimaryAction
  <2>4. /\ S \in Seq(Actions)
        /\ \A k \in 1..Len(S) : S[k].cc = "secondary"
        /\ \A i \in 2..Len(ids[s]) :
             ids[s][i] \notin started[s] => \E k \in 1..Len(S) : S[k].conn = ids[s][i]
    BY <1>5, SecondaryFacts
  <2> HIDE DEF first, P, S
  <2>5. /\ P \in Seq(Actions)
        /\ \A k \in 1..Len(P) : P[k] = [conn |-> first, cc |-> "primary"]
        /\ promoted[s] # first => Len(P) = 1
    <3>1. CASE promoted[s] # first
      <4>1. P = <<[conn |-> first, cc |-> "primary"]>>
        BY <2>3, <3>1
      <4> QED BY <2>2, <4>1 DEF Actions
    <3>2. CASE promoted[s] = first
      BY <2>3, <3>2
    <3> QED BY <3>1, <3>2
  <2>6. /\ P \o S \in Seq(Actions)
        /\ Len(P \o S) = Len(P) + Len(S) /\ Len(P) \in Nat /\ Len(S) \in Nat
        /\ \A k \in 1..Len(P) : (P \o S)[k] = P[k]
        /\ \A k \in 1..Len(S) : (P \o S)[Len(P) + k] = S[k]
    BY <2>4, <2>5
  <2> DEFINE L == P \o S
  <2>7. post'[s] = L /\ promoted'[s] = first
    BY <2>1 DEF Types
  <2>8. \A t \in Sides : t # s => post'[t] = post[t] /\ promoted'[t] = promoted[t]
    BY <2>1 DEF Types
  <2>9. Types'
    BY <1>1, <2>1, <2>2, <2>6 DEF Types
  <2> HIDE DEF L
  <2>10. \A k \in 1..Len(L) : L[k].cc = "primary" => L[k].conn = first
    <3> SUFFICES ASSUME NEW k \in 1..Len(L), L[k].cc = "primary"
                 PROVE  L[k].conn = first
      OBVIOUS
    <3>1. CASE k <= Len(P)
      <4>1. L[k] = [conn |-> first, cc |-> "primary"]
        BY <2>5, <2>6, <3>1 DEF L
      <4> QED BY <4>1
    <3>2. CASE ~(k <= Len(P))
      <4>1. k - Len(P) \in 1..Len(S) /\ Len(P) + (k - Len(P)) = k
        BY <2>6, <3>2 DEF L
      <4>2. L[k] = S[k - Len(P)]
        BY <2>6, <4>1 DEF L
      <4>3. S[k - Len(P)].cc = "secondary"
        BY <2>4, <4>1
      <4> QED BY <4>2, <4>3
    <3> QED BY <3>1, <3>2
  <2>11. FirstOK'
    <3> SUFFICES ASSUME NEW t \in Sides, NEW d \in Conns,
                        \/ promoted'[t] = d
                        \/ Decided(t, d)'
                        \/ Listed(wire'[t][d], "primary")
                        \/ handler'[Peer(t)] = d
                 PROVE  WasFirst(t, d)'
      BY DEF FirstOK
    <3>1. Decided(t, d)' => WasFirst(t, d)
      <4>1. CASE t = s
        <5> SUFFICES ASSUME Decided(t, d)' PROVE WasFirst(t, d)
          OBVIOUS
        <5>1. PICK k \in 1..Len(L) : L[k] = [conn |-> d, cc |-> "primary"]
          BY <2>7, <4>1 DEF Decided
        <5>2. d = first
          BY <2>10, <5>1
        <5> QED BY <2>2, <4>1, <5>2
      <4>2. CASE t # s
        BY <2>8, <4>2 DEF Decided, FirstOK
      <4> QED BY <4>1, <4>2
    <3>2. promoted'[t] = d => WasFirst(t, d)
      <4>1. CASE t = s
        BY <2>2, <2>7, <4>1
      <4>2. CASE t # s
        BY <2>8, <4>2 DEF FirstOK
      <4> QED BY <4>1, <4>2
    <3>3. WasFirst(t, d)
      BY <1>1, <3>1, <3>2 DEF FirstOK
    <3> QED BY <1>2, <3>3 DEF FirstStays
  \* The first connection is started, or its promotion has just been decided.
  <2>12. ASSUME NEW d \in Conns, d = first, phase[s][d] = "up", d \notin started[s]
         PROVE  Pending(s, d)'
    <3>1. promoted[s] # first
      <4>1. ~Pending(s, d)
        BY <1>1 DEF Pending
      <4> QED BY <2>12, <4>1 DEF StartOK
    <3>2. 1 \in 1..Len(L) /\ L[1] = P[1] /\ P[1].conn = d
      BY <2>5, <2>6, <2>12, <3>1 DEF L
    <3> QED BY <2>7, <3>2 DEF Pending
  <2>13. \A t \in Sides, d \in Conns : t # s => (Pending(t, d)' <=> Pending(t, d))
    BY <2>8 DEF Pending
  <2>14. StartOK'
    <3> SUFFICES ASSUME NEW t \in Sides, NEW d \in Conns, promoted'[t] = d, phase'[t][d] = "up"
                 PROVE  d \in started'[t] \/ Pending(t, d)'
      BY DEF StartOK
    <3>1. CASE t = s
      BY <1>1, <2>7, <2>12, <3>1
    <3>2. CASE t # s
      BY <1>1, <2>8, <2>13, <3>2 DEF StartOK
    <3> QED BY <3>1, <3>2
  <2>15. PromotionNotLost'
    <3> SUFFICES ASSUME NEW t \in Sides, ids'[t] # <<>>, ~timer'[t]
                 PROVE  Settled(t)'
      BY DEF PromotionNotLost, Settled
    <3>1. CASE t = s
      <4>1. promoted'[t] = ids'[t][1]
        BY <1>1, <2>7, <3>1 DEF first
      <4>2. ASSUME NEW d \in Conns, phase[s][d] = "up", d \notin started[s]
            PROVE  Pending(s, d)'
        <5>1. Listed(ids[s], d)
          BY <4>2 DEF IdsOK
        <5>2. PICK i \in 1..Len(ids[s]) : ids[s][i] = d
          BY <5>1 DEF Listed
        <5>3. CASE i = 1
          BY <2>12, <4>2, <5>2, <5>3 DEF first
        <5>4. CASE i # 1
          <6>1. i \in 2..Len(ids[s])
            BY <5>4
          <6>2. PICK k \in 1..Len(S) : S[k].conn = d
            BY <2>4, <4>2, <5>2, <6>1
          <6>3. Len(P) + k \in 1..Len(L) /\ L[Len(P) + k] = S[k]
            BY <2>6 DEF L
          <6> QED BY <2>7, <6>2, <6>3 DEF Pending
        <5> QED BY <5>3, <5>4
      <4> QED BY <1>1, <3>1, <4>1, <4>2 DEF Settled
    <3>2. CASE t # s
      <4>1. ~timer[t]
        BY <1>1, <3>2 DEF Types
      <4>2. Settled(t)
        BY <1>1, <4>1 DEF PromotionNotLost, Settled
      <4> QED BY <1>1, <1>2, <2>8, <3>2, <4>2, SettledFrame
    <3> QED BY <3>1, <3>2
  <2> QED BY <1>2, <2>9, <2>11, <2>14, <2>15
<1> QED BY <1>4, <1>5

LEMMA ClosedOK ==
  ASSUME IInv, NEW s \in Sides, NEW c \in Conns, Closed(s, c)
  PROVE  IInv'
<1> USE DEF IInv
<1> DEFINE q == ids[s]
           r == without(q, c)
<1>1. /\ phase[s][c] = "closing"
      /\ phase' = [phase EXCEPT ![s][c] = "gone"]
      /\ ids' = [ids EXCEPT ![s] = r]
      /\ promoted' = [promoted EXCEPT ![s] = IF r = <<>> THEN None ELSE @]
      /\ handler' = [handler EXCEPT ![s] = IF promoted[s] = c /\ @ = c THEN None ELSE @]
      /\ timer' = [timer EXCEPT ![s] = @ \/ promoted[s] = c]
      /\ UNCHANGED <<started, adding, post, wire, sends>>
  BY DEF Closed
<1>2. /\ q \in Seq(Conns) /\ Distinct(q)
      /\ \A d \in Conns : Listed(q, d) <=> phase[s][d] \in {"up", "closing"}
  BY DEF Types, IdsOK
<1> HIDE DEF q
<1>3. /\ r \in Seq(Conns) /\ Distinct(r)
      /\ \A d \in Conns : Listed(r, d) <=> d # c /\ Listed(q, d)
      /\ q # <<>> /\ q[1] # c => r # <<>> /\ r[1] = q[1]
  BY <1>2, WithoutFacts
<1> HIDE DEF r
<1>4. /\ phase' \in [Sides -> [Conns -> Phases]]
      /\ phase'[s][c] = "gone"
      /\ \A t \in Sides, d \in Conns : ~(t = s /\ d = c) => phase'[t][d] = phase[t][d]
  BY <1>1 DEF Types, Phases
<1>5. ids'[s] = r /\ \A t \in Sides : t # s => ids'[t] = ids[t]
  BY <1>1 DEF Types
<1>6. /\ promoted' \in [Sides -> Conns \union {None}]
      /\ \A t \in Sides, d \in Conns : promoted'[t] = d => promoted[t] = d
  BY <1>1, ConnsAssumption DEF Types
<1>7. /\ handler' \in [Sides -> Conns \union {None}]
      /\ \A t \in Sides, d \in Conns : handler'[t] = d => handler[t] = d
  BY <1>1, ConnsAssumption DEF Types
<1>8. /\ timer' \in [Sides -> BOOLEAN]
      /\ ~timer'[s] => ~timer[s] /\ promoted[s] # c
      /\ \A t \in Sides : t # s => timer'[t] = timer[t]
  BY <1>1 DEF Types
<1>9. Types'
  BY <1>1, <1>3, <1>4, <1>6, <1>7, <1>8 DEF Types
<1>10. IdsOK'
  <2> SUFFICES ASSUME NEW t \in Sides
               PROVE  /\ Distinct(ids'[t])
                      /\ \A d \in Conns : Listed(ids'[t], d)
                                          <=> phase'[t][d] \in {"up", "closing"}
    BY DEF IdsOK
  <2>1. CASE t = s
    BY <1>2, <1>3, <1>4, <1>5, <2>1
  <2>2. CASE t # s
    BY <1>4, <1>5, <2>2 DEF IdsOK
  <2> QED BY <2>1, <2>2
<1>11. FirstStays
  <2> SUFFICES ASSUME NEW t \in Sides, NEW d \in Conns, WasFirst(t, d)
               PROVE  WasFirst(t, d)'
    BY DEF FirstStays
  <2>1. CASE t # s
    BY <1>4, <1>5, <2>1 DEF WasFirst
  <2>2. CASE t = s /\ d = c
    BY <1>4, <2>2 DEF WasFirst
  <2>3. CASE t = s /\ d # c
    <3>1. phase'[s][d] = phase[s][d]
      BY <1>4, <2>3
    <3>2. ASSUME phase[s][d] \in {"up", "closing"}
          PROVE  r[1] = d
      <4>1. q[1] = d /\ q # <<>>
        <5>1. Listed(q, d)
          BY <1>2, <3>2
        <5> QED BY <1>2, <2>3, <3>2, <5>1 DEF WasFirst, Listed, q
      <4> QED BY <1>3, <2>3, <4>1
    <3> QED BY <1>5, <2>3, <3>1, <3>2 DEF WasFirst
  <2> QED BY <2>1, <2>2, <2>3
<1>12. FirstOK'
  <2> SUFFICES ASSUME NEW t \in Sides, NEW d \in Conns,
                      \/ promoted'[t] = d
                      \/ Decided(t, d)'
                      \/ Listed(wire'[t][d], "primary")
                      \/ handler'[Peer(t)] = d
               PROVE  WasFirst(t, d)'
    BY DEF FirstOK
  <2>1. Decided(t, d)' <=> Decided(t, d)
    BY <1>1 DEF Decided
  <2>2. Peer(t) \in Sides
    BY PeerFacts
  <2>3. WasFirst(t, d)
    BY <1>1, <1>6, <1>7, <2>1, <2>2 DEF FirstOK
  <2> QED BY <1>11, <2>3 DEF FirstStays
<1>13. UpShrinks
  BY <1>4 DEF UpShrinks
<1>14. \A t \in Sides, d \in Conns : Pending(t, d)' <=> Pending(t, d)
  BY <1>1 DEF Pending
<1>15. StartOK'
  BY <1>1, <1>6, <1>13, <1>14 DEF StartOK, UpShrinks
<1>16. PromotionNotLost'
  <2> SUFFICES ASSUME NEW t \in Sides, ids'[t] # <<>>, ~timer'[t]
               PROVE  Settled(t)'
    BY DEF PromotionNotLost, Settled
  <2>1. ids[t] # <<>> /\ ~timer[t]
    <3>1. CASE t = s
      <4>1. r # <<>> /\ Len(r) \in Nat \ {0}
        BY <1>3, <1>5, <3>1
      <4>2. r[1] \in Conns /\ Listed(r, r[1])
        BY <1>3, <4>1 DEF Listed
      <4>3. Listed(q, r[1])
        BY <1>3, <4>2
      <4> QED BY <1>2, <1>8, <3>1, <4>3 DEF Listed, q
    <3>2. CASE t # s
      BY <1>5, <1>8, <3>2
    <3> QED BY <3>1, <3>2
  <2>2. Settled(t)
    BY <2>1 DEF PromotionNotLost, Settled
  <2>3. promoted[t] = ids[t][1] => promoted'[t] = ids'[t][1]
    <3> SUFFICES ASSUME promoted[t] = ids[t][1] PROVE promoted'[t] = ids'[t][1]
      OBVIOUS
    <3>1. CASE t = s
      <4>1. q[1] # c /\ q # <<>> /\ promoted[s] = q[1]
        BY <1>8, <2>1, <3>1 DEF q
      <4>2. r # <<>> /\ r[1] = q[1]
        BY <1>3, <4>1
      <4> QED BY <1>1, <1>5, <3>1, <4>1, <4>2 DEF Types
    <3>2. CASE t # s
      BY <1>1, <1>5, <3>2 DEF Types
    <3> QED BY <3>1, <3>2
  <2> QED BY <1>1, <1>13, <1>14, <2>2, <2>3 DEF UpShrinks, Settled
<1> QED BY <1>9, <1>10, <1>12, <1>15, <1>16

-----------------------------------------------------------------------------
LEMMA InitOK == Init => IInv
<1> SUFFICES ASSUME Init PROVE IInv
  OBVIOUS
<1>1. Types
  BY BoundsAssumption DEF Init, Types, Phases
<1>2. \A c : ~Listed(<<>>, c)
  BY DEF Listed
<1>3. IdsOK
  BY <1>2 DEF Init, IdsOK, Distinct
<1>4. FirstOK
  <2> SUFFICES ASSUME NEW s \in Sides, NEW c \in Conns
               PROVE  /\ promoted[s] # c
                      /\ ~Decided(s, c)
                      /\ ~Listed(wire[s][c], "primary")
                      /\ handler[Peer(s)] # c
    BY DEF FirstOK
  <2>1. Peer(s) \in Sides
    BY PeerFacts
  <2>2. promoted[s] # c /\ handler[Peer(s)] # c
    BY <2>1, ConnsAssumption DEF Init
  <2>3. ~Decided(s, c)
    BY DEF Init, Decided
  <2>4. ~Listed(wire[s][c], "primary")
    BY <1>2 DEF Init
  <2> QED BY <2>2, <2>3, <2>4
<1>5. StartOK /\ PromotionNotLost
  BY DEF Init, StartOK, PromotionNotLost
<1> QED BY <1>1, <1>3, <1>4, <1>5 DEF IInv

LEMMA StepOK ==
  ASSUME IInv, [Next]_vars
  PROVE  IInv'
<1>1. ASSUME NEW s \in Sides, promoteConnections(s) PROVE IInv'
  BY <1>1, promoteConnectionsOK
<1>2. ASSUME NEW s \in Sides, PostLockAction(s) PROVE IInv'
  BY <1>2, PostLockActionOK
<1>3. ASSUME NEW s \in Sides, sendClusterConfig(s) PROVE IInv'
  <2>1. ids[s][1] \in Conns /\ WasFirst(s, ids[s][1])
    BY <1>3, FirstIsFirst DEF sendClusterConfig, IInv
  <2>2. "primary" \in Messages
    BY DEF Messages
  <2> QED BY <1>3, <2>1, <2>2, SendOK DEF sendClusterConfig
<1>4. ASSUME NEW s \in Sides, SendIndex(s) PROVE IInv'
  <2>1. handler[s] \in Conns
    BY <1>4 DEF SendIndex, IInv, Types
  <2>2. "index" \in Messages /\ "index" # "primary"
    BY DEF Messages
  <2> QED BY <1>4, <2>1, <2>2, SendOK DEF SendIndex
<1>5. ASSUME NEW s \in Sides, NEW c \in Conns, AddConnection(s, c) PROVE IInv'
  BY <1>5, AddConnectionOK
<1>14. ASSUME NEW s \in Sides, NEW c \in Conns, scheduleConnectionPromotion(s, c) PROVE IInv'
  BY <1>14, scheduleConnectionPromotionOK
<1>6. ASSUME NEW s \in Sides, NEW c \in Conns, Refuse(s, c) PROVE IInv'
  BY <1>6, RefuseOK
<1>7. ASSUME NEW s \in Sides, NEW c \in Conns, Close(s, c) PROVE IInv'
  BY <1>7, BeginCloseOK DEF Close
<1>8. ASSUME NEW s \in Sides, NEW c \in Conns, PeerClosed(s, c) PROVE IInv'
  BY <1>8, BeginCloseOK DEF PeerClosed
<1>9. ASSUME NEW s \in Sides, NEW c \in Conns, ReceiveSecondary(s, c) PROVE IInv'
  BY <1>9, ConsumeOK DEF ReceiveSecondary
<1>10. ASSUME NEW s \in Sides, NEW c \in Conns, ReceivePrimary(s, c) PROVE IInv'
  BY <1>10, ReceivePrimaryOK
<1>11. ASSUME NEW s \in Sides, NEW c \in Conns, ReceiveIndex(s, c) PROVE IInv'
  <2>1. /\ Readable(s, c) /\ phase[s][c] = "up"
        /\ UNCHANGED <<started, ids, adding, promoted, timer, post, handler, sends>>
    BY <1>11 DEF ReceiveIndex, Readable
  <2>2. CASE handler[s] = c
    <3>1. Consume(s, c) /\ UNCHANGED phase
      BY <1>11, <2>2 DEF ReceiveIndex
    <3> QED BY <2>1, <3>1, ConsumeOK
  <2>3. CASE handler[s] # c
    <3>1. BeginClose(s, c)
      BY <1>11, <2>3 DEF ReceiveIndex
    <3> QED BY <2>1, <3>1, BeginCloseOK
  <2> QED BY <2>2, <2>3
<1>12. ASSUME NEW s \in Sides, NEW c \in Conns, Closed(s, c) PROVE IInv'
  BY <1>12, ClosedOK
<1>13. CASE UNCHANGED vars
  <2>1. /\ Types' /\ UNCHANGED <<phase, ids, adding, promoted, post, handler, started, timer>>
        /\ WireShrinks
    BY <1>13 DEF vars, IInv, Types, WireShrinks
  <2> QED BY <2>1, SamePhases, FirstFrame, StartFrame, LostFrame DEF IInv
<1> QED BY <1>1, <1>2, <1>3, <1>4, <1>5, <1>6, <1>7, <1>8, <1>9, <1>10, <1>11, <1>12, <1>13, <1>14
        DEF Next, Runs

LEMMA Inductive == Spec => []IInv
<1>1. IInv /\ [Next]_vars => IInv'
  BY StepOK
<1> QED BY InitOK, <1>1, PTL DEF Spec

-----------------------------------------------------------------------------
\* deviceConnIDs holds the open connections of the peer, each once, and the other
\* variables have their types, for any number of connections that come and go.
THEOREM TypeCorrect == Spec => []TypeOK
<1>1. IInv => TypeOK
  <2> SUFFICES ASSUME IInv PROVE TypeOK
    OBVIOUS
  <2>1. ASSUME NEW s \in Sides
        PROVE  /\ ids[s] \in Seq(Conns)
               /\ IsInjective(ids[s])
               /\ \A c \in Conns : c \in Range(ids[s]) <=> phase[s][c] \in {"up", "closing"}
    <3>1. ids[s] \in Seq(Conns) /\ DOMAIN ids[s] = 1..Len(ids[s])
      BY DEF IInv, Types
    <3>2. \A c \in Conns : c \in Range(ids[s]) <=> Listed(ids[s], c)
      BY <3>1 DEF Range, Listed
    <3>3. IsInjective(ids[s])
      BY <3>1 DEF IsInjective, IInv, IdsOK, Distinct
    <3> QED BY <3>1, <3>2, <3>3 DEF IInv, IdsOK
  <2> QED BY <2>1 DEF IInv, Types, TypeOK
<1> QED BY <1>1, Inductive, PTL

\* In whatever order connections come and go and promoteConnections runs: while
\* the timer is not running, the first connection is the promoted one unless
\* AddConnection is still busy with all there are, and every open connection is
\* started, about to be, or one that AddConnection is busy with.
THEOREM NoPromotionLost == Spec => []PromotionNotLost
<1>1. IInv => PromotionNotLost
  BY DEF IInv
<1> QED BY <1>1, Inductive, PTL

\* The index handler is on the connection the peer regards as its primary, unless
\* the peer has closed it: no ClusterConfig of a connection that was demoted
\* while it was open is ever applied, for any number of connections and messages.
THEOREM HandlerFollowsPeer == Spec => []HandlerOnPeersPrimary
<1>1. IInv => HandlerOnPeersPrimary
  <2> SUFFICES ASSUME IInv, NEW s \in Sides, handler[s] # None,
                      phase[Peer(s)][handler[s]] = "up"
               PROVE  ids[Peer(s)][1] = handler[s]
    BY DEF HandlerOnPeersPrimary
  <2>1. handler[s] \in Conns
    BY DEF IInv, Types
  <2>2. Peer(s) \in Sides /\ Peer(Peer(s)) = s
    BY PeerFacts
  <2>3. WasFirst(Peer(s), handler[s])
    BY <2>1, <2>2 DEF IInv, FirstOK
  <2> QED BY <2>3 DEF WasFirst
<1> QED BY <1>1, Inductive, PTL
=============================================================================
