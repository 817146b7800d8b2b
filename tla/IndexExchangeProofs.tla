------------------------ MODULE IndexExchangeProofs ------------------------
(***************************************************************************)
(* What IndexExchange guarantees for every set of names and every bound:   *)
(* type correctness, no sequence anomaly and a sequence that never goes    *)
(* back while the sender's handler has been started once, and, for a       *)
(* receiver that sends one ClusterConfig per connection and keeps sharing  *)
(* the folder, that its reported sequence never covers a row it lacks.     *)
(***************************************************************************)
EXTENDS IndexExchange, SequenceTheorems, TLAPS

----------------------------------------------------------------------------
\* What the provers need to know of the two operations on the wire.

\* Taking a message off the front shifts the rest by one place.
LEMMA TailFacts ==
  ASSUME NEW S, NEW s \in Seq(S), s # <<>>
  PROVE  /\ Len(s) \in Nat /\ Len(s) >= 1
         /\ Head(s) = s[1] /\ s[1] \in S
         /\ Tail(s) \in Seq(S) /\ Len(Tail(s)) = Len(s) - 1
         /\ \A i \in 1..(Len(s) - 1) : Tail(s)[i] = s[i + 1]
         /\ Tail(s) = <<>> <=> Len(s) = 1
<1>1. Len(s) \in Nat /\ Len(s) >= 1
  BY EmptySeq
<1>2. Head(s) = s[1]
  OBVIOUS
<1>3. s[1] \in S
  BY <1>1, ElementOfSeq
<1>4. /\ Tail(s) \in Seq(S) /\ Len(Tail(s)) = Len(s) - 1
      /\ \A i \in 1..(Len(s) - 1) : Tail(s)[i] = s[i + 1]
  BY <1>1, HeadTailProperties
<1>5. Tail(s) = <<>> => Len(s) = 1
  <2>1. Len(<<>>) = 0
    OBVIOUS
  <2>2. ASSUME Tail(s) = <<>> PROVE Len(Tail(s)) = 0
    BY <2>1, <2>2, Zenon
  <2> QED BY <1>1, <1>4, <2>2
<1>6. Tail(s) # <<>> => Len(Tail(s)) # 0
  BY <1>4, EmptySeq
<1> QED BY <1>1, <1>2, <1>3, <1>4, <1>5, <1>6

\* Sending a message leaves the others where they are.
LEMMA AppendFacts ==
  ASSUME NEW S, NEW s \in Seq(S), NEW e \in S
  PROVE  /\ Len(s) \in Nat
         /\ Append(s, e) \in Seq(S) /\ Len(Append(s, e)) = Len(s) + 1
         /\ \A i \in 1..Len(s) : Append(s, e)[i] = s[i]
         /\ Append(s, e)[Len(s) + 1] = e
         /\ Append(s, e) # <<>>
         /\ s = <<>> <=> Len(s) = 0
  OBVIOUS

----------------------------------------------------------------------------
\* TypeOK with the fact that makes the count of ClusterConfigs fit its bound.
TypeInv == TypeOK /\ (~rUp => rCC = 0)

\* The empty table and the messages built by the actions have their types.
LEMMA NoRowType == NoRow \in [Names -> 0..MaxSeq]
  BY ConstantsAssumption DEF NoRow

LEMMA NoMessage == <<>> \in Seq(Messages)
  BY EmptySeq

LEMMA BatchType ==
  ASSUME TypeOK, NEW e \in Names
  PROVE  Batch(sRow[e]) \in [Names -> 0..MaxSeq]
  BY ConstantsAssumption DEF TypeOK, Batch

\* A fault uses up one unit of the budget; a lost connection leaves nothing behind.
LEMMA FaultType ==
  ASSUME TypeOK, Fault
  PROVE  faults' \in 0..MaxFaults
  BY ConstantsAssumption DEF TypeOK, Fault

LEMMA GoneType ==
  ASSUME ConnectionGone
  PROVE  /\ sUp' \in BOOLEAN /\ sOn' \in BOOLEAN
         /\ localPrevSequence' \in 0..MaxSeq /\ sentPrevSequence' \in 0..MaxSeq
         /\ rUp' \in BOOLEAN /\ rOn' \in BOOLEAN
         /\ rPc' \in {"idle", "setIndexID", "update"} /\ rCC' \in 0..MaxCC
         /\ toS' \in SUBSET CCs /\ toR' \in Seq(Messages)
         /\ rCC' = 0
<1>1. toR' \in Seq(Messages)
  BY NoMessage, Zenon DEF ConnectionGone
<1>2. sUp' \in BOOLEAN /\ sOn' \in BOOLEAN /\ rUp' \in BOOLEAN /\ rOn' \in BOOLEAN
  BY Zenon DEF ConnectionGone
<1>3. /\ localPrevSequence' \in 0..MaxSeq /\ sentPrevSequence' \in 0..MaxSeq
      /\ rCC' \in 0..MaxCC /\ rCC' = 0
  BY ConstantsAssumption DEF ConnectionGone
<1>4. rPc' \in {"idle", "setIndexID", "update"} /\ toS' \in SUBSET CCs
  BY DEF ConnectionGone
<1> QED BY <1>1, <1>2, <1>3, <1>4

\* Every step keeps the types: one step per action.
LEMMA TypeStep ==
  ASSUME TypeInv, [Next]_vars
  PROVE  TypeInv'
<1> USE ConstantsAssumption DEF TypeInv
<1>1. ASSUME NEW n \in Names, NEW s \in 1..MaxSeq, NEW hid \in BOOLEAN,
             LocalUpdate(n, s, hid)
      PROVE  TypeInv'
  BY <1>1 DEF LocalUpdate, TypeOK, hdl, rdb
<1>2. ASSUME NEW n \in Names, DropFilesNamed(n)
      PROVE  TypeInv'
  BY <1>2 DEF DropFilesNamed, TypeOK, hdl, rdb
<1>3. CASE SenderPromoteConnections
  <2>1. [type |-> "cc", id |-> sId] \in Messages
    BY DEF TypeOK, Messages
  <2> QED BY <1>3, <2>1, AppendFacts DEF SenderPromoteConnections, TypeOK, sdb, hdl, rdb
<1>4. CASE ReceiverPromoteConnections
  <2>1. ClusterConfigOfReceiver \in CCs
    BY <1>4 DEF ReceiverPromoteConnections, ClusterConfigOfReceiver, CCs, TypeOK
  <2> QED BY <1>4, <2>1 DEF ReceiverPromoteConnections, TypeOK, sdb, hdl, rdb
<1>5. CASE SendClusterConfig
  <2>1. ClusterConfigOfReceiver \in CCs
    BY <1>5 DEF SendClusterConfig, ClusterConfigOfReceiver, CCs, TypeOK
  <2> QED BY <1>5, <2>1 DEF SendClusterConfig, TypeOK, sdb, hdl, rdb
<1>6. CASE Disconnect
  BY <1>6, FaultType, GoneType DEF Disconnect, TypeOK, sdb, rdb
<1>7. ASSUME NEW how \in {"crash", "resetDeltas", "resetDatabase"},
             SenderRestart(how)
      PROVE  TypeInv'
  <2>1. UNCHANGED <<rdb, rShared>> /\ Fault /\ ConnectionGone
    BY <1>7 DEF SenderRestart
  <2>2. CASE how = "crash"
    BY <1>7, <2>1, <2>2, FaultType, GoneType DEF SenderRestart, TypeOK, sdb, rdb
  <2>3. CASE how = "resetDeltas"
    <3>1. /\ nextId <= MaxId /\ nextId' = nextId + 1 /\ sId' = nextId
          /\ sSeq' \in {sRow[n] : n \in Names} \cup {0}
          /\ UNCHANGED <<sCtr, sRow, sHidden>>
      BY <1>7, <2>3 DEF SenderRestart
    <3> QED BY <2>1, <3>1, FaultType, GoneType DEF TypeOK, rdb
  <2>4. CASE how = "resetDatabase"
    <3>1. /\ nextId <= MaxId /\ nextId' = nextId + 1 /\ sId' = nextId
          /\ sCtr' = 0 /\ sSeq' = 0 /\ sRow' = NoRow /\ sHidden' = {}
      BY <1>7, <2>4 DEF SenderRestart
    <3> QED BY <2>1, <3>1, FaultType, GoneType, NoRowType DEF TypeOK, rdb
  <2> QED BY <2>2, <2>3, <2>4
<1>8. ASSUME NEW how \in {"crash", "resetDeltas", "resetDatabase"},
             ReceiverRestart(how)
      PROVE  TypeInv'
  <2>1. /\ Fault /\ ConnectionGone /\ UNCHANGED <<sdb, rShared, nextId>>
        /\ rId' \in {rId, 0} /\ rSeq' \in {rSeq, 0} /\ rRow' \in {rRow, NoRow}
    BY <1>8 DEF ReceiverRestart, rdb
  <2>2. rId' \in 0..MaxId /\ rSeq' \in 0..MaxSeq
    BY <2>1 DEF TypeOK
  <2>3. rRow' \in [Names -> 0..MaxSeq]
    BY <2>1, NoRowType, Zenon DEF TypeOK
  <2> QED BY <2>1, <2>2, <2>3, FaultType, GoneType DEF TypeOK, sdb
<1>9. CASE Unshare
  BY <1>9, FaultType, NoRowType DEF Unshare, TypeOK, sdb, hdl
<1>10. CASE Reshare
  BY <1>10 DEF Reshare, TypeOK, sdb, hdl, rdb
<1>11. ASSUME NEW c \in toS, SenderClusterConfig(c)
       PROVE  TypeInv'
  BY <1>11 DEF SenderClusterConfig, StartSequence, TypeOK, CCs, sdb, rdb
<1>12. ASSUME NEW e \in Names, SendIndexTo(e)
       PROVE  TypeInv'
  <2>1. /\ localPrevSequence' = sRow[e]
        /\ UNCHANGED <<sdb, sUp, sOn, rdb, rUp, rOn, rPc, rCC, rShared, toS,
                       nextId, faults>>
    BY <1>12 DEF SendIndexTo
  <2>2. CASE Batch(sRow[e]) = NoRow
    BY <1>12, <2>1, <2>2 DEF SendIndexTo, TypeOK, sdb, rdb
  <2>3. CASE Batch(sRow[e]) # NoRow
    <3>1. PICK last \in Names :
            /\ sentPrevSequence' = Batch(sRow[e])[last]
            /\ toR' = Append(toR, IndexMessage(Batch(sRow[e]), Batch(sRow[e])[last]))
      BY <1>12, <2>3 DEF SendIndexTo
    <3>2. IndexMessage(Batch(sRow[e]), Batch(sRow[e])[last]) \in Messages
      BY BatchType DEF IndexMessage, TypeOK, Messages
    <3>3. toR' \in Seq(Messages)
      BY <3>1, <3>2, AppendFacts DEF TypeOK
    <3> QED BY <2>1, <3>1, <3>3, BatchType DEF TypeOK, sdb, rdb
  <2> QED BY <2>2, <2>3
<1>13. CASE ReceiverClusterConfig
  <2>1. toR # <<>> /\ rUp
    BY <1>13 DEF ReceiverClusterConfig, Handling
  <2>2. Tail(toR) \in Seq(Messages)
    BY <2>1, TailFacts DEF TypeOK
  <2>3. toR' \in {toR, Tail(toR)} /\ rRow' \in {rRow, NoRow}
        /\ rPc' \in {rPc, "setIndexID"} /\ rOn' \in {rOn, TRUE}
    BY <1>13 DEF ReceiverClusterConfig
  <2>4. toR' \in Seq(Messages) /\ rRow' \in [Names -> 0..MaxSeq]
    BY <2>2, <2>3, NoRowType, Zenon DEF TypeOK
  <2>5. UNCHANGED <<sdb, sUp, hdl, rId, rSeq, rUp, rCC, rShared, toS, nextId, faults>>
    BY <1>13 DEF ReceiverClusterConfig
  <2> QED BY <2>3, <2>4, <2>5 DEF TypeOK, sdb, hdl
<1>14. CASE SetIndexID
  <2>1. Head(toR) \in Messages /\ Head(toR).type = "cc"
    BY <1>14, TailFacts DEF SetIndexID, Handling, TypeOK
  <2>2. Head(toR).id \in 1..MaxId
    BY <2>1 DEF Messages
  <2> QED BY <1>14, <2>2, TailFacts DEF SetIndexID, Handling, TypeOK, sdb, hdl
<1>15. CASE ReceiveIndexDrop
  BY <1>15, NoRowType DEF ReceiveIndexDrop, TypeOK, sdb, hdl
<1>16. CASE ReceiveIndexUpdate
  <2>1. toR # <<>> /\ Head(toR) \in Messages /\ Head(toR).type \in {"index", "update"}
    BY <1>16, TailFacts DEF ReceiveIndexUpdate, Handling, TypeOK
  <2>2. Head(toR).files \in [Names -> 0..MaxSeq] /\ Head(toR).last \in 0..MaxSeq
    BY <2>1 DEF Messages
  <2>3. Replace(rRow, Head(toR).files) \in [Names -> 0..MaxSeq]
    BY <2>2 DEF Replace, TypeOK
  <2> QED BY <1>16, <2>1, <2>2, <2>3, TailFacts DEF ReceiveIndexUpdate, TypeOK, sdb, hdl
<1>17. CASE UNCHANGED vars
  BY <1>17 DEF TypeOK, vars
<1> QED
  BY <1>1, <1>2, <1>3, <1>4, <1>5, <1>6, <1>7, <1>8, <1>9, <1>10, <1>11, <1>12,
     <1>13, <1>14, <1>15, <1>16, <1>17
     DEF Next, SenderStep, ReceiverStep, Environment

\* The initial state has the types.
LEMMA TypeInit == Init => TypeInv
<1>1. Init => toR \in Seq(Messages)
  BY NoMessage, Zenon DEF Init
<1>2. Init => /\ sUp \in BOOLEAN /\ sOn \in BOOLEAN /\ rUp \in BOOLEAN
              /\ rOn \in BOOLEAN /\ rShared \in BOOLEAN
              /\ sRow \in [Names -> 0..MaxSeq] /\ rRow \in [Names -> 0..MaxSeq]
  BY NoRowType, Zenon DEF Init
<1>3. Init => /\ sId \in 1..MaxId /\ nextId \in 2..(MaxId + 1)
              /\ sCtr \in 0..MaxSeq /\ sSeq \in 0..MaxSeq
              /\ localPrevSequence \in 0..MaxSeq
              /\ sentPrevSequence \in 0..MaxSeq
              /\ rId \in 0..MaxId /\ rSeq \in 0..MaxSeq
              /\ rCC \in 0..MaxCC /\ rCC = 0 /\ faults \in 0..MaxFaults
  BY ConstantsAssumption DEF Init
<1>4. Init => /\ sHidden \in SUBSET Names /\ toS \in SUBSET CCs
              /\ rPc \in {"idle", "setIndexID", "update"}
  BY DEF Init
<1> QED BY <1>1, <1>2, <1>3, <1>4 DEF TypeInv, TypeOK

\* Both databases, both handlers and the wire stay within their types, and the
\* receiver never sends more ClusterConfigs than its bound, whatever the names,
\* the bounds and the order of crashes, restarts and messages.
THEOREM TypeCorrect == Spec => []TypeOK
<1>1. Init => TypeInv
  BY TypeInit
<1>2. TypeInv /\ [Next]_vars => TypeInv'
  BY TypeStep
<1>3. TypeInv => TypeOK
  BY DEF TypeInv
<1> QED BY <1>1, <1>2, <1>3, PTL DEF Spec

----------------------------------------------------------------------------
(***************************************************************************)
(* Every step keeps SInv, whatever the bounds; and it keeps GapInv unless  *)
(* it sends a second ClusterConfig or stops sharing the folder.            *)
(***************************************************************************)
OneClusterConfig == MaxCC = 1 /\ AllowUnshare = FALSE

\* Types and lengths of the wire in the current state.
LEMMA WireFacts ==
  ASSUME TypeOK
  PROVE  /\ Len(toR) \in Nat
         /\ \A i \in 1..Len(toR) : toR[i] \in Messages
         /\ toR # <<>> => Len(toR) >= 1
         /\ Len(toR) >= 1 => toR # <<>>
<1> USE DEF TypeOK
<1>1. Len(toR) \in Nat
  BY LenProperties
<1>2. \A i \in 1..Len(toR) : toR[i] \in Messages
  BY ElementOfSeq
<1>3. toR # <<>> => Len(toR) >= 1
  BY <1>1, EmptySeq
<1>4. ASSUME toR = <<>> PROVE Len(toR) = 0
  <2>1. Len(<<>>) = 0
    OBVIOUS
  <2> QED BY <1>4, <2>1, Zenon
<1> QED BY <1>1, <1>2, <1>3, <1>4

\* A ClusterConfig under way has its fields.
LEMMA CCType ==
  ASSUME TypeOK, NEW c \in toS
  PROVE  c.max \in Nat /\ c.id \in Nat
<1>1. c \in CCs
  BY DEF TypeOK
<1> QED BY <1>1, ConstantsAssumption DEF CCs

\* The numbers in the two databases are natural numbers.
LEMMA DatabaseType ==
  ASSUME TypeOK
  PROVE  /\ sRow \in [Names -> Nat] /\ sSeq \in Nat /\ rSeq \in Nat /\ nextId \in Nat
         /\ sId \in Nat /\ rId \in Nat /\ sCtr \in Nat /\ sId # 0
<1>1. sRow \in [Names -> Nat] /\ sSeq \in Nat /\ rSeq \in Nat /\ sCtr \in Nat
  BY ConstantsAssumption DEF TypeOK
<1>2. nextId \in Nat /\ sId \in Nat /\ rId \in Nat /\ sId # 0
  BY ConstantsAssumption DEF TypeOK
<1> QED BY <1>1, <1>2

\* With the connection gone only the databases matter.
LEMMA GoneStep ==
  ASSUME ConnectionGone, TypeOK', Numbering', rId' = 0 => rSeq' = 0,
         rId' = sId' => rSeq' <= sSeq'
  PROVE  /\ SInv'
         /\ (/\ rShared'
             /\ rId' = sId' =>
                  \A n \in Announced' : sRow'[n] <= rSeq' => rRow'[n] = sRow'[n])
            => GapInv'
<1>1. Len(toR') = 0
  <2>1. Len(<<>>) = 0
    OBVIOUS
  <2> QED BY <2>1, Zenon DEF ConnectionGone
<1>2. /\ sUp' = FALSE /\ sOn' = FALSE /\ rUp' = FALSE /\ rOn' = FALSE
      /\ rPc' = "idle" /\ rCC' = 0 /\ toS' = {}
  BY DEF ConnectionGone
<1>3. Wire'
  BY <1>1, <1>2 DEF Wire
<1>4. StartsWhereReported' /\ HandlerCounters' /\ NothingSkipped'
  BY <1>2 DEF StartsWhereReported, HandlerCounters, NothingSkipped
<1>5. Chain' /\ AllBounded' /\ AllComplete'
  BY <1>1, <1>2 DEF Chain, AllBounded, AllComplete
<1>6. SInv'
  BY <1>3, <1>4, <1>5 DEF SInv
<1>7. StartedOnce'
  BY <1>2 DEF StartedOnce
<1>8. ASSUME rShared',
             rId' = sId' =>
               \A n \in Announced' : sRow'[n] <= rSeq' => rRow'[n] = sRow'[n]
      PROVE  GapInv'
  BY <1>4, <1>5, <1>7, <1>8 DEF GapInv, NoGap
<1> QED BY <1>6, <1>8

\* The sender's database grows: no message on the wire becomes incomplete,
\* because the new row's number lies above all of them.
LEMMA LocalUpdateStep ==
  ASSUME SInv, TypeOK', NEW x \in Names, NEW s \in 1..MaxSeq, NEW hid \in BOOLEAN,
         LocalUpdate(x, s, hid)
  PROVE  SInv' /\ (GapInv => GapInv')
<1> USE ConstantsAssumption
<1>1. /\ s > sCtr /\ sCtr' = s /\ sSeq' = s /\ sRow' = [sRow EXCEPT ![x] = s]
      /\ \A n \in Names : n # x => (n \in sHidden' <=> n \in sHidden)
      /\ UNCHANGED <<sId, sUp, sOn, localPrevSequence, sentPrevSequence, rId, rSeq,
                     rRow, rUp, rOn, rPc, rCC, rShared, toS, toR, nextId>>
  BY DEF LocalUpdate, hdl, rdb
<1>2. /\ sCtr \in Nat /\ sSeq \in Nat /\ s \in Nat /\ s > sSeq /\ sSeq <= sCtr
      /\ sRow \in [Names -> Nat] /\ rSeq \in Nat
      /\ localPrevSequence \in Nat /\ sentPrevSequence \in Nat
      /\ \A n \in Names : sRow[n] <= sSeq
      /\ sRow'[x] = s /\ \A n \in Names : n # x => sRow'[n] = sRow[n]
  BY <1>1 DEF SInv, TypeOK, Numbering
<1>3. \A n \in Announced' : n # x => n \in Announced
  BY <1>1, <1>2 DEF Announced
<1>4. Numbering'
  BY <1>1, <1>2 DEF SInv, Numbering
<1>5. Reported' = Reported /\ StartedOnce' = StartedOnce
  BY <1>1 DEF Reported, StartedOnce
<1>6. Wire'
  BY <1>1 DEF SInv, Wire
<1>7. StartsWhereReported'
  <2> SUFFICES ASSUME StartedOnce, NEW c \in toS
               PROVE  /\ c.id = sId => c.max <= sSeq'
                      /\ StartSequence(c.id, c.max)' = Reported
    BY <1>1, <1>5 DEF SInv, StartsWhereReported
  <2>1. c.max \in Nat /\ StartSequence(c.id, c.max) = Reported
    BY CCType DEF SInv, StartsWhereReported
  <2>2. c.id = sId => c.max <= sSeq
    BY <1>2, <2>1 DEF SInv, StartsWhereReported
  <2> QED BY <1>1, <1>2, <2>1, <2>2 DEF StartSequence
<1>8. HandlerCounters' /\ (rId' = sId' => rSeq' <= sSeq')
  BY <1>1, <1>2 DEF SInv, HandlerCounters
<1>9. AllBounded'
  BY <1>1, <1>2 DEF SInv, AllBounded, Bounded
<1>10. Chain'
  BY <1>1, <1>5 DEF SInv, Chain
<1>11. ASSUME GapInv PROVE GapInv'
  <2>1. ASSUME NEW m, Bounded(m), Complete(m) PROVE Complete(m)'
    BY <1>1, <1>2, <1>3, <2>1 DEF Complete, Bounded
  <2>2. AllComplete'
    BY <1>1, <1>11, <2>1 DEF GapInv, AllComplete, SInv, AllBounded
  <2>3. NothingSkipped'
    BY <1>1, <1>2, <1>3, <1>11 DEF GapInv, NothingSkipped, SInv, HandlerCounters, Announced
  <2>4. NoGap'
    BY <1>1, <1>2, <1>3, <1>11 DEF SInv, GapInv, NoGap, Announced
  <2> QED BY <1>1, <1>5, <1>11, <2>2, <2>3, <2>4 DEF GapInv
<1> QED BY <1>4, <1>6, <1>7, <1>8, <1>9, <1>10, <1>11 DEF SInv

\* Forgetting a row only takes an announced name away.
LEMMA DropFilesNamedStep ==
  ASSUME SInv, TypeOK', NEW x \in Names, DropFilesNamed(x)
  PROVE  SInv' /\ (GapInv => GapInv')
<1> USE ConstantsAssumption
<1>1. /\ sRow' = [sRow EXCEPT ![x] = 0]
      /\ UNCHANGED <<sId, sCtr, sSeq, sHidden, sUp, sOn, localPrevSequence,
                     sentPrevSequence, rId, rSeq, rRow, rUp, rOn, rPc, rCC, rShared,
                     toS, toR, nextId>>
  BY DEF DropFilesNamed, hdl, rdb
<1>2. /\ sCtr \in Nat /\ sSeq \in Nat /\ sRow \in [Names -> Nat]
      /\ sRow'[x] = 0 /\ \A n \in Names : n # x => sRow'[n] = sRow[n]
  BY <1>1 DEF SInv, TypeOK
<1>3. \A n \in Announced' : n # x /\ n \in Announced /\ sRow'[n] = sRow[n]
  BY <1>1, <1>2 DEF Announced
<1>4. Numbering'
  BY <1>1, <1>2 DEF SInv, Numbering
<1>5. Reported' = Reported /\ Wire' /\ StartedOnce' = StartedOnce
  BY <1>1 DEF Reported, SInv, Wire, StartedOnce
<1>6. StartsWhereReported'
  BY <1>1, <1>5 DEF SInv, StartsWhereReported, StartSequence
<1>7. HandlerCounters' /\ AllBounded' /\ (rId' = sId' => rSeq' <= sSeq')
  BY <1>1 DEF SInv, HandlerCounters, AllBounded, Bounded
<1>8. Chain'
  BY <1>1, <1>5 DEF SInv, Chain
<1>9. ASSUME GapInv PROVE GapInv'
  <2>1. ASSUME NEW m, Bounded(m), Complete(m) PROVE Complete(m)'
    BY <1>1, <1>2, <1>3, <2>1 DEF Complete, Bounded
  <2>2. AllComplete'
    BY <1>1, <1>9, <2>1 DEF GapInv, AllComplete, SInv, AllBounded
  <2>3. NothingSkipped' /\ NoGap'
    BY <1>1, <1>3, <1>9 DEF GapInv, NothingSkipped, NoGap
  <2> QED BY <1>1, <1>5, <1>9, <2>2, <2>3 DEF GapInv
<1> QED BY <1>4, <1>5, <1>6, <1>7, <1>8, <1>9 DEF SInv

\* Neither the sender's database nor the wire changes: GapInv is about those.
LEMMA GapUnchanged ==
  ASSUME GapInv, StartedOnce',
         UNCHANGED <<sId, sSeq, sRow, sHidden, sOn, localPrevSequence, sentPrevSequence,
                     rId, rSeq, rRow, rPc, rShared>>,
         \A i \in 1..Len(toR') : toR'[i].type # "cc" =>
            \E j \in 1..Len(toR) : toR'[i] = toR[j]
  PROVE  GapInv'
<1>1. Announced' = Announced
  BY DEF Announced
<1>2. ASSUME NEW m, Complete(m) PROVE Complete(m)'
  BY <1>1, <1>2 DEF Complete
<1>3. AllComplete'
  BY <1>2 DEF GapInv, AllComplete
<1>4. NothingSkipped' /\ NoGap'
  BY <1>1 DEF GapInv, NothingSkipped, NoGap
<1> QED BY <1>3, <1>4 DEF GapInv

\* The connection comes up, on either side, with nothing on the wire yet.
LEMMA PromoteConnectionsStep ==
  ASSUME SInv, TypeOK', SenderPromoteConnections \/ ReceiverPromoteConnections
  PROVE  SInv' /\ (GapInv => GapInv')
<1> USE ConstantsAssumption
<1>1. CASE SenderPromoteConnections
  <2> DEFINE cc == [type |-> "cc", id |-> sId]
  <2>1. /\ ~sUp /\ sUp' = TRUE /\ toR' = Append(toR, cc)
        /\ UNCHANGED <<sId, sCtr, sSeq, sRow, sHidden, sOn, localPrevSequence,
                       sentPrevSequence, rId, rSeq, rRow, rUp, rOn, rPc, rCC,
                       rShared, toS, nextId>>
    BY <1>1 DEF SenderPromoteConnections, sdb, hdl, rdb
  <2>2. Len(toR) = 0 /\ ~sOn /\ ~rOn
    BY <2>1 DEF SInv, Wire
  <2>3. cc \in Messages
    BY DEF SInv, TypeOK, Messages
  <2>4. Len(toR') = 1 /\ toR'[1] = cc
    BY <2>1, <2>2, <2>3, AppendFacts DEF SInv, TypeOK
  <2>5. cc.type = "cc" /\ cc.id = sId
    OBVIOUS
  <2> HIDE DEF cc
  <2>6. Reported' = Reported /\ StartedOnce' = StartedOnce
    BY <2>1 DEF Reported, StartedOnce
  <2>7. Numbering' /\ (rId' = sId' => rSeq' <= sSeq')
    BY <2>1 DEF SInv, Numbering
  <2>8. Wire'
    BY <2>1, <2>2, <2>4, <2>5 DEF SInv, Wire
  <2>9. StartsWhereReported' /\ HandlerCounters'
    BY <2>1, <2>2, <2>6 DEF SInv, StartsWhereReported, StartSequence, HandlerCounters
  <2>10. Chain' /\ AllBounded'
    BY <2>1, <2>2, <2>4, <2>5 DEF Chain, AllBounded
  <2>11. \A i \in 1..Len(toR') : toR'[i].type = "cc"
    BY <2>4, <2>5
  <2>12. GapInv => GapInv'
    BY <2>1, <2>6, <2>11, GapUnchanged DEF GapInv
  <2> QED BY <2>7, <2>8, <2>9, <2>10, <2>12 DEF SInv
<1>2. CASE ReceiverPromoteConnections
  <2> DEFINE cc == [no |-> rCC + 1, id |-> rId, max |-> rSeq]
  <2>1. /\ ~rUp /\ rUp' = TRUE /\ rCC' = rCC + 1 /\ toS' = toS \cup {cc}
        /\ UNCHANGED <<sId, sCtr, sSeq, sRow, sHidden, sUp, sOn, localPrevSequence,
                       sentPrevSequence, rId, rSeq, rRow, rOn, rPc,
                       rShared, toR, nextId>>
    BY <1>2 DEF ReceiverPromoteConnections, ClusterConfigOfReceiver, sdb, hdl, rdb
  <2>2. toS = {} /\ rCC = 0 /\ ~sOn /\ ~rOn /\ rPc = "idle"
    BY <2>1 DEF SInv, Wire
  <2>3. toS' = {cc} /\ cc.id = rId /\ cc.max = rSeq
    BY <2>1, <2>2
  <2> HIDE DEF cc
  <2>4. Reported' = Reported /\ StartedOnce' /\ StartedOnce
    BY <2>1, <2>2 DEF Reported, StartedOnce
  <2>5. Numbering' /\ (rId' = sId' => rSeq' <= sSeq')
    BY <2>1 DEF SInv, Numbering
  <2>6. Wire'
    BY <2>1, <2>2, <2>3 DEF SInv, Wire
  <2>7. StartsWhereReported'
    BY <2>1, <2>2, <2>3, <2>4 DEF SInv, StartsWhereReported, StartSequence, Reported
  <2>8. HandlerCounters' /\ AllBounded'
    BY <2>1, <2>2 DEF HandlerCounters, SInv, AllBounded, Bounded
  <2>9. Chain'
    BY <2>1, <2>4 DEF SInv, Chain
  <2>10. GapInv => GapInv'
    BY <2>1, <2>4, GapUnchanged
  <2> QED BY <2>5, <2>6, <2>7, <2>8, <2>9, <2>10 DEF SInv
<1> QED BY <1>1, <1>2

\* A second ClusterConfig: from here to the end of the connection the order of
\* the messages is not claimed.
LEMMA SendClusterConfigStep ==
  ASSUME SInv, TypeOK', SendClusterConfig
  PROVE  SInv' /\ ~StartedOnce'
<1> USE ConstantsAssumption
<1>1. /\ rUp /\ rCC' = rCC + 1
      /\ UNCHANGED <<sId, sCtr, sSeq, sRow, sHidden, sUp, sOn, localPrevSequence,
                     sentPrevSequence, rId, rSeq, rRow, rUp, rOn, rPc, rShared, toR,
                     nextId>>
  BY DEF SendClusterConfig, sdb, hdl, rdb
<1>2. rCC \in Nat /\ rCC >= 1
  BY <1>1 DEF SInv, TypeOK, Wire
<1>3. ~StartedOnce'
  BY <1>1, <1>2 DEF StartedOnce
<1>4. Numbering' /\ HandlerCounters' /\ AllBounded' /\ (rId' = sId' => rSeq' <= sSeq')
  BY <1>1 DEF SInv, Numbering, HandlerCounters, AllBounded, Bounded
<1>5. Wire'
  BY <1>1, <1>2 DEF SInv, Wire
<1> QED BY <1>3, <1>4, <1>5 DEF SInv, StartsWhereReported, Chain

\* The folder is no longer shared, or shared again, while there is no connection.
LEMMA SharingStep ==
  ASSUME SInv, TypeOK', Unshare \/ Reshare
  PROVE  SInv'
<1>1. UNCHANGED <<sId, sCtr, sSeq, sRow, sHidden, sUp, sOn, localPrevSequence,
                  sentPrevSequence, rId, rSeq, rUp, rOn, rPc, rCC, toS, toR, nextId>>
  BY DEF Unshare, Reshare, sdb, hdl, rdb
<1>2. Reported' = Reported /\ StartedOnce' = StartedOnce
  BY <1>1 DEF Reported, StartedOnce
<1>3. Numbering' /\ Wire' /\ HandlerCounters' /\ AllBounded'
      /\ (rId' = sId' => rSeq' <= sSeq')
  BY <1>1 DEF SInv, Numbering, Wire, HandlerCounters, AllBounded, Bounded
<1>4. StartsWhereReported' /\ Chain'
  BY <1>1, <1>2 DEF SInv, StartsWhereReported, StartSequence, Chain
<1> QED BY <1>3, <1>4 DEF SInv

\* Lost connections and restarts: a new index ID is not one the receiver can
\* already have, and a receiver that stops between DropAllFiles and Update has
\* reported nothing but sequence 0.
LEMMA FaultStep ==
  ASSUME SInv, TypeOK',
         NEW how \in {"crash", "resetDeltas", "resetDatabase"},
         Disconnect \/ SenderRestart(how) \/ ReceiverRestart(how)
  PROVE  SInv' /\ (GapInv => GapInv')
<1> USE ConstantsAssumption
<1>t. /\ sRow \in [Names -> Nat] /\ sSeq \in Nat /\ rSeq \in Nat /\ nextId \in Nat
      /\ sId \in Nat /\ rId \in Nat /\ sCtr \in Nat /\ sId # 0
  BY DatabaseType DEF SInv
<1>n. rId < nextId /\ sId < nextId
  BY DEF SInv, Numbering
<1>w. rId = 0 => rSeq = 0
  BY DEF SInv, Wire
<1>0. /\ sRow \in [Names -> Nat] /\ sSeq \in Nat /\ rSeq \in Nat /\ nextId \in Nat
      /\ sId \in Nat /\ rId \in Nat /\ sCtr \in Nat /\ rId < nextId /\ sId < nextId
      /\ (rId = 0 => rSeq = 0) /\ sId # 0
  BY <1>t, <1>n, <1>w
<1>s. rId = sId => rSeq <= sSeq
  BY DEF SInv
<1>1. CASE Disconnect
  <2>1. ConnectionGone /\ rPc = "idle"
        /\ UNCHANGED <<sId, sCtr, sSeq, sRow, sHidden, rId, rSeq, rRow, rShared, nextId>>
    BY <1>1 DEF Disconnect, sdb, rdb
  <2>2. Numbering' /\ Announced' = Announced
    BY <2>1 DEF SInv, Numbering, Announced
  <2> QED BY <1>0, <1>s, <2>1, <2>2, GoneStep DEF GapInv, NoGap
<1>2. CASE SenderRestart(how)
  <2>1. ConnectionGone /\ rPc = "idle" /\ UNCHANGED <<rId, rSeq, rRow, rShared>>
    BY <1>2 DEF SenderRestart, rdb
  <2>2. CASE how = "crash"
    <3>1. UNCHANGED <<sId, sCtr, sSeq, sRow, sHidden, nextId>>
      BY <1>2, <2>2 DEF SenderRestart, sdb
    <3>2. Numbering' /\ Announced' = Announced
      BY <2>1, <3>1 DEF SInv, Numbering, Announced
    <3> QED BY <1>0, <1>s, <2>1, <3>1, <3>2, GoneStep DEF GapInv, NoGap
  <2>3. CASE how = "resetDeltas"
    <3>1. /\ nextId' = nextId + 1 /\ sId' = nextId
          /\ sSeq' \in {sRow[n] : n \in Names} \cup {0}
          /\ \A n \in Names : sRow[n] <= sSeq'
          /\ UNCHANGED <<sCtr, sRow, sHidden>>
      BY <1>2, <2>3 DEF SenderRestart
    <3>2. sSeq' <= sCtr
      BY <1>0, <3>1 DEF SInv, Numbering
    <3>3. Numbering'
      BY <1>0, <2>1, <3>1, <3>2 DEF SInv, Numbering
    <3> QED BY <1>0, <2>1, <3>1, <3>3, GoneStep DEF GapInv
  <2>4. CASE how = "resetDatabase"
    <3>1. /\ nextId' = nextId + 1 /\ sId' = nextId
          /\ sCtr' = 0 /\ sSeq' = 0 /\ sRow' = NoRow
      BY <1>2, <2>4 DEF SenderRestart
    <3>2. Numbering'
      BY <1>0, <2>1, <3>1 DEF Numbering, NoRow
    <3> QED BY <1>0, <2>1, <3>1, <3>2, GoneStep DEF GapInv
  <2> QED BY <2>2, <2>3, <2>4
<1>3. CASE ReceiverRestart(how)
  <2>1. /\ ConnectionGone
        /\ UNCHANGED <<sId, sCtr, sSeq, sRow, sHidden, rShared, nextId>>
    BY <1>3 DEF ReceiverRestart, sdb
  <2>2. Announced' = Announced
    BY <2>1 DEF Announced
  <2>3. CASE how = "crash"
    <3>1. UNCHANGED <<rId, rSeq, rRow>>
      BY <1>3, <2>3 DEF ReceiverRestart, rdb
    <3>2. Numbering'
      BY <2>1, <3>1 DEF SInv, Numbering
    <3>3. SInv'
      BY <1>0, <1>s, <2>1, <3>1, <3>2, GoneStep
    <3>4. rId = sId => rPc # "setIndexID"
      BY DEF SInv, Wire
    <3>5. ASSUME GapInv, rId = sId, rPc = "update" PROVE rSeq = 0
      <4>1. toR[1].type = "index" /\ Len(toR) >= 1
        BY <3>5 DEF SInv, Wire
      <4>2. toR[1].prev = 0 /\ toR[1].prev = Reported
        BY <3>5, <4>1, WireFacts DEF SInv, Chain, AllBounded, Bounded, GapInv
      <4> QED BY <3>5, <4>2 DEF Reported
    <3>6. rPc \in {"idle", "setIndexID", "update"}
      BY DEF SInv, TypeOK
    <3>7. ASSUME GapInv
          PROVE  rId = sId => \A n \in Announced : sRow[n] <= rSeq => rRow[n] = sRow[n]
      <4>1. CASE rPc = "idle"
        BY <3>7, <4>1 DEF GapInv, NoGap
      <4>2. CASE rPc = "update"
        BY <1>0, <3>5, <3>7, <4>2 DEF Announced
      <4> QED BY <3>4, <3>6, <4>1, <4>2
    <3>8. ASSUME GapInv PROVE GapInv'
      <4>1. rShared'
        BY <2>1, <3>8 DEF GapInv
      <4> QED BY <1>0, <1>s, <2>1, <2>2, <3>1, <3>2, <3>7, <3>8, <4>1, GoneStep
    <3> QED BY <3>3, <3>8
  <2>4. CASE how # "crash"
    <3>1. rId' = 0 /\ rSeq' = 0
      BY <1>3, <2>4 DEF ReceiverRestart
    <3>2. Numbering'
      BY <1>0, <2>1, <3>1 DEF SInv, Numbering
    <3> QED BY <1>0, <2>1, <3>1, <3>2, GoneStep DEF GapInv
  <2> QED BY <2>3, <2>4
<1> QED BY <1>1, <1>2, <1>3

\* The first handler of a connection starts exactly where the receiver is.
LEMMA SenderClusterConfigStep ==
  ASSUME SInv, TypeOK', NEW c \in toS, SenderClusterConfig(c)
  PROVE  SInv' /\ (GapInv => GapInv')
<1> USE ConstantsAssumption
<1>1. /\ sUp /\ toS' = toS \ {c} /\ sOn' = TRUE
      /\ localPrevSequence' = StartSequence(c.id, c.max)
      /\ sentPrevSequence' = StartSequence(c.id, c.max)
      /\ UNCHANGED <<sId, sCtr, sSeq, sRow, sHidden, sUp, rId, rSeq, rRow, rUp, rOn,
                     rPc, rCC, rShared, toR, nextId>>
  BY DEF SenderClusterConfig, sdb, rdb
<1>2. rUp /\ (StartedOnce' = StartedOnce) /\ Reported' = Reported
  BY <1>1 DEF SInv, Wire, StartedOnce, Reported
<1>3. Numbering' /\ AllBounded' /\ (rId' = sId' => rSeq' <= sSeq')
  BY <1>1 DEF SInv, Numbering, AllBounded, Bounded
<1>4. Wire'
  BY <1>1, <1>2 DEF SInv, Wire
<1>5. HandlerCounters'
  <2>1. c.max \in Nat /\ sSeq \in Nat
    BY CCType, DatabaseType DEF SInv
  <2> QED BY <1>1, <2>1 DEF HandlerCounters, StartSequence
<1>6. ASSUME StartedOnce
      PROVE  /\ ~sOn /\ toS' = {} /\ \A i \in 1..Len(toR) : toR[i].type = "cc"
             /\ localPrevSequence' = Reported /\ sentPrevSequence' = Reported
  BY <1>1, <1>6 DEF SInv, StartsWhereReported, Wire
<1>7. StartsWhereReported'
  BY <1>2, <1>6 DEF StartsWhereReported
<1>8. Chain'
  <2> SUFFICES ASSUME StartedOnce PROVE Chain'
    BY <1>2 DEF Chain
  <2>1. Len(toR) \in Nat
    BY WireFacts DEF SInv
  <2>2. \A i \in 2..Len(toR) : toR[i].type # "cc"
    BY <1>1, <1>6, <2>1 DEF SInv, Wire
  <2> QED BY <1>1, <1>2, <1>6, <2>1, <2>2 DEF SInv, Chain
<1>9. ASSUME GapInv PROVE GapInv'
  <2>1. StartedOnce
    BY <1>9 DEF GapInv
  <2>2. Announced' = Announced /\ AllComplete'
    BY <1>1, <1>9 DEF Announced, GapInv, AllComplete, Complete
  <2>3. NothingSkipped' /\ NoGap'
    BY <1>1, <1>9, <2>2 DEF GapInv, NothingSkipped, NoGap
  <2> QED BY <1>1, <1>2, <1>9, <2>2, <2>3 DEF GapInv
<1> QED BY <1>3, <1>4, <1>5, <1>7, <1>8, <1>9 DEF SInv

\* One batch: either nothing announced lies in the range passed over, or the
\* message that goes out is complete and continues the one before it.
LEMMA SendIndexToStep ==
  ASSUME SInv, TypeOK', NEW e \in Names, SendIndexTo(e)
  PROVE  SInv' /\ (GapInv => GapInv')
<1> USE ConstantsAssumption
<1> DEFINE fs == Batch(sRow[e])
<1>1. /\ sUp /\ sOn /\ localPrevSequence < sRow[e] /\ localPrevSequence' = sRow[e]
      /\ UNCHANGED <<sId, sCtr, sSeq, sRow, sHidden, sUp, sOn, rId, rSeq, rRow, rUp,
                     rOn, rPc, rCC, rShared, toS, nextId>>
  BY DEF SendIndexTo, sdb, rdb
<1>2. /\ sRow \in [Names -> Nat] /\ sSeq \in Nat /\ sRow[e] <= sSeq
      /\ localPrevSequence \in Nat /\ sentPrevSequence \in Nat
      /\ sentPrevSequence <= localPrevSequence
      /\ Len(toR) \in Nat
  BY <1>1, WireFacts DEF SInv, TypeOK, Numbering, HandlerCounters
<1>3. fs \in [Names -> Nat]
  BY BatchType DEF SInv
<1>4. /\ \A n \in Announced : localPrevSequence < sRow[n] /\ sRow[n] <= sRow[e]
                                => fs[n] = sRow[n]
      /\ \A n \in Names : fs[n] # 0 => /\ fs[n] = sRow[n] /\ n \in Announced
                                        /\ localPrevSequence < fs[n]
                                        /\ fs[n] <= sRow[e]
  BY <1>2 DEF Batch, Announced
<1> HIDE DEF fs
<1>5. Reported' = Reported /\ Announced' = Announced /\ StartedOnce' = StartedOnce
  BY <1>1 DEF Reported, Announced, StartedOnce
<1>6. Numbering' /\ (rId' = sId' => rSeq' <= sSeq')
  BY <1>1 DEF SInv, Numbering
<1>7. StartsWhereReported'
  BY <1>1, <1>5 DEF SInv, StartsWhereReported, StartSequence
<1>8. /\ \A m : Bounded(m) => Bounded(m)'
      /\ \A m : Complete(m) => Complete(m)'
  BY <1>1, <1>5 DEF Bounded, Complete
<1>g. GapInv => rShared' /\ StartedOnce' /\ NoGap'
  BY <1>1, <1>5 DEF GapInv, NoGap
<1>9. CASE fs = NoRow
  <2>1. UNCHANGED <<toR, sentPrevSequence>>
    BY <1>9 DEF SendIndexTo, fs
  <2>2. \A n \in Names : fs[n] = 0
    BY <1>9 DEF NoRow
  <2>3. HandlerCounters'
    BY <1>1, <1>2, <2>1 DEF HandlerCounters
  <2>4. Wire'
    BY <1>1, <2>1 DEF SInv, Wire
  <2>5. Chain' /\ AllBounded'
    BY <1>1, <1>5, <1>8, <2>1 DEF SInv, Chain, AllBounded
  <2>6. ASSUME GapInv PROVE GapInv'
    <3>1. \A n \in Announced : sRow[n] # 0 /\ n \in Names
      BY DEF Announced
    <3>2. NothingSkipped'
      BY <1>1, <1>2, <1>4, <1>5, <2>1, <2>2, <2>6, <3>1 DEF NothingSkipped, GapInv
    <3>3. AllComplete'
      BY <1>8, <2>1, <2>6 DEF AllComplete, GapInv
    <3> QED BY <1>g, <2>6, <3>2, <3>3 DEF GapInv
  <2> QED BY <1>6, <1>7, <2>3, <2>4, <2>5, <2>6 DEF SInv
<1>10. CASE fs # NoRow
  <2>1. PICK last \in Names :
          /\ fs[last] # 0 /\ \A n \in Names : fs[n] <= fs[last]
          /\ sentPrevSequence' = fs[last]
          /\ toR' = Append(toR, IndexMessage(fs, fs[last]))
    BY <1>10 DEF SendIndexTo, fs
  <2> DEFINE m == IndexMessage(fs, fs[last])
  <2>2. m \in Messages
    BY BatchType DEF IndexMessage, SInv, TypeOK, Messages, fs
  <2>3. /\ m.type # "cc" /\ m.files = fs /\ m.prev = sentPrevSequence
        /\ m.last = fs[last] /\ (m.type = "index" => localPrevSequence = 0)
    <3>1. localPrevSequence = 0 => sentPrevSequence = 0
      BY <1>2
    <3>2. /\ m.type # "cc" /\ m.files = fs /\ m.last = fs[last]
          /\ m.type = "index" => localPrevSequence = 0
          /\ m.prev = IF localPrevSequence = 0 THEN 0 ELSE sentPrevSequence
      BY DEF IndexMessage
    <3> QED BY <3>1, <3>2
  <2> HIDE DEF m
  <2>4. /\ Len(toR') = Len(toR) + 1 /\ toR'[Len(toR) + 1] = m
        /\ \A i \in 1..Len(toR) : toR'[i] = toR[i]
    <3>1. toR' = Append(toR, m)
      BY <2>1 DEF m
    <3>2. toR \in Seq(Messages)
      BY DEF SInv, TypeOK
    <3> QED BY <2>2, <3>1, <3>2, AppendFacts
  <2>5. Bounded(m)
    BY <1>2, <1>3, <1>4, <2>1, <2>3 DEF Bounded
  <2>6. HandlerCounters'
    BY <1>1, <1>2, <1>3, <1>4, <2>1 DEF HandlerCounters
  <2>7. \A i \in 1..Len(toR') : i \in 1..Len(toR) \/ toR'[i] = m
    BY <1>2, <2>4
  <2>8. Wire'
    <3>1. sUp /\ ~rOn => /\ Len(toR') >= 1
                         /\ toR'[1].type = "cc" /\ toR'[1].id = sId
                         /\ \A i \in 2..Len(toR') : toR'[i].type # "cc"
      BY <1>2, <2>3, <2>4, <2>7 DEF SInv, Wire
    <3>2. rOn => \A i \in 1..Len(toR') : toR'[i].type # "cc"
      BY <1>2, <2>3, <2>4, <2>7 DEF SInv, Wire
    <3>3. rPc = "update" => Len(toR') >= 1 /\ toR'[1].type = "index"
      BY <1>2, <2>4 DEF SInv, Wire
    <3> QED BY <1>1, <3>1, <3>2, <3>3 DEF SInv, Wire
  <2>9. AllBounded'
    BY <1>2, <1>8, <2>4, <2>5, <2>7 DEF SInv, AllBounded
  <2>10. Chain'
    <3> SUFFICES ASSUME StartedOnce PROVE Chain'
      BY <1>5 DEF Chain
    <3>1. /\ Len(toR) >= 1 /\ toR[Len(toR)].type # "cc" =>
               sentPrevSequence = toR[Len(toR)].last
          /\ (Len(toR) = 0 \/ toR[Len(toR)].type = "cc") =>
               sentPrevSequence = Reported
      BY <1>1 DEF SInv, Chain
    <3>2. \A i \in 2..Len(toR) : toR[i-1].type # "cc" => toR[i].prev = toR[i-1].last
      BY DEF SInv, Chain
    <3>3. \A i \in 2..Len(toR') : toR'[i-1].type # "cc" => toR'[i].prev = toR'[i-1].last
      <4> SUFFICES ASSUME NEW i \in 2..Len(toR'), toR'[i-1].type # "cc"
                   PROVE  toR'[i].prev = toR'[i-1].last
        OBVIOUS
      <4>1. CASE i <= Len(toR)
        BY <1>2, <2>4, <3>2, <4>1
      <4>2. CASE i = Len(toR) + 1
        BY <1>2, <2>3, <2>4, <3>1, <4>2
      <4> QED BY <1>2, <2>4, <4>1, <4>2
    <3>4. Len(toR') >= 1 /\ toR'[1].type # "cc" => toR'[1].prev = Reported
      BY <1>2, <2>3, <2>4, <3>1 DEF SInv, Chain
    <3>5. Len(toR') >= 2 /\ toR'[1].type = "cc" => toR'[2].prev = Reported
      BY <1>2, <2>3, <2>4, <3>1 DEF SInv, Chain
    <3>6. toR'[Len(toR')].type # "cc" /\ sentPrevSequence' = toR'[Len(toR')].last
          /\ Len(toR') # 0
      BY <1>2, <2>1, <2>3, <2>4
    <3> QED BY <1>5, <3>3, <3>4, <3>5, <3>6 DEF Chain
  <2>11. ASSUME GapInv PROVE GapInv'
    <3>1. \A n \in Announced : sRow[n] <= localPrevSequence => sRow[n] <= sentPrevSequence
      BY <1>1, <2>11 DEF GapInv, NothingSkipped
    <3>2. \A n \in Announced : n \in Names /\ sRow[n] \in Nat
      BY <1>2 DEF Announced
    <3>3. \A n \in Names :
            m.files[n] # 0 =>
              /\ sRow[n] # 0 => m.files[n] <= sRow[n]
              /\ \A k \in Names : k # n => sRow[k] # m.files[n]
      BY <1>2, <1>3, <1>4, <2>1, <2>3 DEF SInv, Numbering
    <3>4. ASSUME NEW n \in Announced, m.prev < sRow[n], sRow[n] <= m.last
          PROVE  m.files[n] = sRow[n]
      <4>1. sRow[n] <= sRow[e]
        BY <1>2, <1>3, <1>4, <2>1, <2>3, <3>2, <3>4
      <4>2. localPrevSequence < sRow[n]
        BY <1>2, <2>3, <3>1, <3>2, <3>4
      <4> QED BY <1>4, <2>3, <4>1, <4>2
    <3>5. Complete(m)
      BY <3>3, <3>4 DEF Complete
    <3>6. AllComplete'
      BY <1>2, <1>8, <2>4, <2>7, <2>11, <3>5 DEF GapInv, AllComplete
    <3>7. NothingSkipped'
      BY <1>1, <1>2, <1>3, <1>4, <1>5, <2>1, <3>1, <3>2 DEF NothingSkipped, Announced
    <3> QED BY <1>g, <2>11, <3>6, <3>7 DEF GapInv
  <2> QED BY <1>6, <1>7, <2>6, <2>8, <2>9, <2>10, <2>11 DEF SInv
<1> QED BY <1>9, <1>10

\* Facts about the message the receiver has at hand, and about the wire once it
\* is done with it.
LEMMA HeadFacts ==
  ASSUME TypeOK, NEW T, Handling(T)
  PROVE  /\ rUp /\ Len(toR) \in Nat /\ Len(toR) >= 1
         /\ Head(toR) = toR[1] /\ toR[1].type \in T
         /\ Len(Tail(toR)) = Len(toR) - 1
         /\ \A i \in 1..Len(Tail(toR)) : i + 1 \in 1..Len(toR)
                                         /\ Tail(toR)[i] = toR[i + 1]
<1>1. toR # <<>> /\ rUp /\ Head(toR).type \in T
  BY DEF Handling
<1>2. toR \in Seq(Messages)
  BY DEF TypeOK
<1> QED BY <1>1, <1>2, TailFacts

\* Handling the sender's ClusterConfig, in one step when the index ID is the one
\* on file and in two when it is not.
LEMMA ReceiverClusterConfigStep ==
  ASSUME SInv, TypeOK', ReceiverClusterConfig \/ SetIndexID
  PROVE  SInv' /\ (GapInv => GapInv')
<1> USE ConstantsAssumption
<1>h. Handling({"cc"})
  BY DEF ReceiverClusterConfig, SetIndexID
<1>0. /\ rUp /\ Len(toR) \in Nat /\ Len(toR) >= 1
      /\ Head(toR) = toR[1] /\ toR[1].type = "cc"
      /\ Len(Tail(toR)) = Len(toR) - 1
      /\ \A i \in 1..Len(Tail(toR)) : i + 1 \in 1..Len(toR)
                                      /\ Tail(toR)[i] = toR[i + 1]
  BY <1>h, HeadFacts DEF SInv
<1>1. /\ ~rOn /\ sUp /\ toR[1].id = sId
      /\ \A i \in 2..Len(toR) : toR[i].type # "cc"
  BY <1>0 DEF SInv, Wire
<1>2. /\ UNCHANGED <<sId, sCtr, sSeq, sRow, sHidden, sUp, sOn, localPrevSequence,
                     sentPrevSequence, rUp, rCC, rShared, toS, nextId>>
  BY DEF ReceiverClusterConfig, SetIndexID, sdb, hdl
<1>3. Announced' = Announced /\ StartedOnce' = StartedOnce
  BY <1>2 DEF Announced, StartedOnce
<1>4. /\ \A m : Bounded(m) => Bounded(m)'
      /\ \A m : Complete(m) => Complete(m)'
  BY <1>2, <1>3 DEF Bounded, Complete
<1>5. HandlerCounters' /\ (GapInv => NothingSkipped')
  BY <1>2, <1>3 DEF SInv, HandlerCounters, GapInv, NothingSkipped
<1>6. ASSUME toR' = Tail(toR), rOn' = TRUE, rPc' = "idle", Reported' = Reported,
             rId' = sId, rId' = 0 => rSeq' = 0
      PROVE  /\ Wire' /\ AllBounded' /\ Chain' /\ StartsWhereReported'
             /\ GapInv => AllComplete'
  <2>0. Len(toR') = Len(toR) - 1
    BY <1>0, <1>6, Zenon
  <2>1. Wire'
    <3>1. \A i \in 1..Len(toR') : toR'[i].type # "cc"
      BY <1>0, <1>1, <1>6
    <3>2. ~sOn => Len(toR') = 0
      <4>1. ASSUME ~sOn, Len(toR) >= 2 PROVE FALSE
        <5>1. 2 \in 1..Len(toR) /\ 2 \in 2..Len(toR)
          BY <1>0, <4>1
        <5> QED BY <1>1, <4>1, <5>1 DEF SInv, Wire
      <4> QED BY <1>0, <2>0, <4>1
    <3> QED BY <1>0, <1>1, <1>2, <1>6, <3>1, <3>2 DEF SInv, Wire
  <2>2. AllBounded' /\ (GapInv => AllComplete')
    BY <1>0, <1>4, <1>6 DEF SInv, AllBounded, GapInv, AllComplete
  <2>3. StartsWhereReported'
    BY <1>2, <1>3, <1>6 DEF SInv, StartsWhereReported, StartSequence
  <2>4. ASSUME StartedOnce PROVE Chain'
    <3>1. \A i \in 2..Len(toR) : toR[i-1].type # "cc" => toR[i].prev = toR[i-1].last
      BY <2>4 DEF SInv, Chain
    <3>2. \A i \in 2..Len(toR') : toR'[i-1].type # "cc" => toR'[i].prev = toR'[i-1].last
      <4> SUFFICES ASSUME NEW i \in 2..Len(toR'), toR'[i-1].type # "cc"
                   PROVE  toR'[i].prev = toR'[i-1].last
        OBVIOUS
      <4>1. i + 1 \in 2..Len(toR) /\ toR'[i] = toR[i+1] /\ toR'[i-1] = toR[i]
            /\ (i + 1) - 1 = i
        BY <1>0, <1>6
      <4> QED BY <3>1, <4>1
    <3>3. Len(toR') >= 1 => /\ Len(toR) >= 2 /\ toR'[1] = toR[2] /\ toR[2].type # "cc"
                            /\ toR'[Len(toR')] = toR[Len(toR)]
      BY <1>0, <1>1, <1>6
    <3>4. Len(toR') >= 1 => toR'[1].prev = Reported /\ toR'[1].type # "cc"
      BY <1>0, <2>4, <3>3 DEF SInv, Chain
    <3>5. Len(toR') >= 1 => /\ sentPrevSequence = toR'[Len(toR')].last
                            /\ toR'[Len(toR')].type # "cc"
      BY <1>0, <1>1, <2>4, <3>3 DEF SInv, Chain
    <3>6. Len(toR') = 0 /\ sOn => sentPrevSequence = Reported
      BY <1>0, <1>6, <2>4 DEF SInv, Chain
    <3>7. Len(toR') \in Nat
      BY <1>0, <1>6
    <3>8. /\ Len(toR') >= 1 /\ toR'[1].type # "cc" => toR'[1].prev = Reported'
          /\ Len(toR') >= 2 /\ toR'[1].type = "cc" => toR'[2].prev = Reported'
      BY <1>6, <3>4, <3>7
    <3>9. Len(toR') >= 1 /\ toR'[Len(toR')].type # "cc" =>
            sentPrevSequence' = toR'[Len(toR')].last
      BY <1>2, <3>5
    <3>10. sOn' /\ (Len(toR') = 0 \/ toR'[Len(toR')].type = "cc") =>
            sentPrevSequence' = Reported'
      <4> SUFFICES ASSUME sOn', Len(toR') = 0 \/ toR'[Len(toR')].type = "cc"
                   PROVE  sentPrevSequence' = Reported'
        OBVIOUS
      <4>1. sOn
        BY <1>2, Zenon
      <4>2. Len(toR') = 0
        BY <3>5, <3>7
      <4> QED BY <1>2, <1>6, <3>6, <4>1, <4>2
    <3> QED BY <3>2, <3>8, <3>9, <3>10 DEF Chain
  <2>5. Chain'
    BY <1>3, <2>4 DEF Chain
  <2> QED BY <2>1, <2>2, <2>3, <2>5
<1>7. CASE ReceiverClusterConfig /\ toR[1].id = rId
  <2>1. rOn' = TRUE /\ toR' = Tail(toR) /\ UNCHANGED <<rRow, rPc, rId, rSeq>> /\ rPc = "idle"
    BY <1>0, <1>7 DEF ReceiverClusterConfig
  <2>2. Reported' = Reported
    BY <1>2, <2>1 DEF Reported
  <2>3. Wire' /\ AllBounded' /\ Chain' /\ StartsWhereReported' /\ (GapInv => AllComplete')
    BY <1>1, <1>6, <1>7, <2>1, <2>2 DEF SInv, Wire
  <2>4. Numbering' /\ (rId' = sId' => rSeq' <= sSeq')
    BY <1>2, <2>1 DEF SInv, Numbering
  <2>5. GapInv => NoGap'
    BY <1>2, <1>3, <2>1 DEF GapInv, NoGap
  <2>6. GapInv => GapInv'
    BY <1>2, <1>3, <1>5, <2>3, <2>5 DEF GapInv
  <2> QED BY <1>5, <2>3, <2>4, <2>6 DEF SInv
<1>8. CASE ReceiverClusterConfig /\ toR[1].id # rId
  <2>1. rPc' = "setIndexID" /\ UNCHANGED <<rOn, toR, rId, rSeq>> /\ rPc = "idle"
    BY <1>0, <1>8 DEF ReceiverClusterConfig
  <2>2. Reported' = Reported
    BY <1>2, <2>1 DEF Reported
  <2>3. Wire'
    BY <1>0, <1>1, <1>2, <1>8, <2>1 DEF SInv, Wire
  <2>4. StartsWhereReported'
    BY <1>2, <1>3, <2>1, <2>2 DEF SInv, StartsWhereReported, StartSequence
  <2>5. Chain'
    BY <1>2, <1>3, <2>1, <2>2 DEF SInv, Chain
  <2>6. Numbering' /\ AllBounded' /\ (rId' = sId' => rSeq' <= sSeq')
    BY <1>1, <1>2, <1>4, <2>1 DEF SInv, Numbering, AllBounded
  <2>7. GapInv => NoGap' /\ AllComplete'
    BY <1>4, <2>1 DEF GapInv, NoGap, AllComplete
  <2>8. GapInv => GapInv'
    BY <1>2, <1>3, <1>5, <2>7 DEF GapInv
  <2> QED BY <1>5, <2>3, <2>4, <2>5, <2>6, <2>8 DEF SInv
<1>9. CASE SetIndexID
  <2>1. /\ rId' = sId /\ rSeq' = 0 /\ rOn' = TRUE /\ rPc' = "idle"
        /\ toR' = Tail(toR) /\ rPc = "setIndexID"
    BY <1>0, <1>1, <1>9 DEF SetIndexID
  <2>2. rId # sId
    BY <2>1 DEF SInv, Wire
  <2>3. Reported' = Reported
    BY <1>2, <2>1, <2>2 DEF Reported
  <2>4. Wire' /\ AllBounded' /\ Chain' /\ StartsWhereReported' /\ (GapInv => AllComplete')
    BY <1>6, <2>1, <2>3
  <2>5. Numbering'
    BY <1>2, <2>1 DEF SInv, Numbering
  <2>6. NoGap' /\ (rId' = sId' => rSeq' <= sSeq')
    BY <1>2, <1>3, <2>1, DatabaseType DEF SInv, NoGap, Announced
  <2>7. GapInv => GapInv'
    BY <1>2, <1>3, <1>5, <2>4, <2>6 DEF GapInv
  <2> QED BY <1>5, <2>4, <2>5, <2>6, <2>7 DEF SInv
<1> QED BY <1>7, <1>8, <1>9 DEF ReceiverClusterConfig

\* What Replace does to a row the sender still has at or below the message's
\* lower bound, and to one within its bounds.
LEMMA ReplaceCovers ==
  ASSUME NEW row \in [Names -> Nat], NEW m, Bounded(m), Complete(m),
         sRow \in [Names -> Nat],
         NEW n \in Announced, sRow[n] <= m.last,
         sRow[n] <= m.prev => row[n] = sRow[n]
  PROVE  Replace(row, m.files)[n] = sRow[n]
<1>1. n \in Names /\ sRow[n] # 0 /\ sRow[n] \in Nat
  BY DEF Announced
<1>2. /\ m.prev \in Nat /\ m.last \in Nat /\ m.files \in [Names -> Nat]
      /\ \A k \in Names : m.files[k] # 0 =>
           /\ m.prev < m.files[k] /\ (sRow[k] # 0 => m.files[k] <= sRow[k])
           /\ \A j \in Names : j # k => sRow[j] # m.files[k]
  BY DEF Complete, Bounded
<1>3. CASE sRow[n] <= m.prev
  <2>1. row[n] = sRow[n]
    BY <1>3
  <2>2. m.files[n] = 0
    BY <1>1, <1>2, <1>3
  <2>3. ~ \E k \in Names : m.files[k] # 0 /\ m.files[k] = row[n]
    BY <1>1, <1>2, <2>1, <2>2
  <2> QED BY <1>1, <2>1, <2>2, <2>3 DEF Replace
<1>4. CASE m.prev < sRow[n]
  <2>1. m.files[n] = sRow[n]
    BY <1>4 DEF Complete
  <2> QED BY <1>1, <2>1 DEF Replace
<1> QED BY <1>1, <1>2, <1>3, <1>4

\* Applying an index message: the first handler's starts at what the receiver has.
LEMMA ReceiveIndexStep ==
  ASSUME SInv, TypeOK', ReceiveIndexDrop \/ ReceiveIndexUpdate
  PROVE  SInv' /\ (GapInv => GapInv')
<1> USE ConstantsAssumption
<1>h. Handling({"index", "update"}) /\ rOn
  BY Zenon DEF ReceiveIndexDrop, ReceiveIndexUpdate, Handling
<1>0. /\ rUp /\ Len(toR) \in Nat /\ Len(toR) >= 1
      /\ Head(toR) = toR[1] /\ toR[1].type \in {"index", "update"}
      /\ Len(Tail(toR)) = Len(toR) - 1
      /\ \A i \in 1..Len(Tail(toR)) : i + 1 \in 1..Len(toR)
                                      /\ Tail(toR)[i] = toR[i + 1]
  BY <1>h, HeadFacts DEF SInv
<1>1. /\ rId = sId /\ \A i \in 1..Len(toR) : toR[i].type # "cc"
  BY <1>h DEF SInv, Wire
<1>2. /\ Bounded(toR[1])
      /\ StartedOnce => toR[1].prev = rSeq
      /\ GapInv => Complete(toR[1])
  BY <1>0, <1>1 DEF SInv, AllBounded, Chain, Reported, GapInv, AllComplete
<1>3. sOn
  BY <1>0, <1>1 DEF SInv, Wire
<1>4. UNCHANGED <<sId, sCtr, sSeq, sRow, sHidden, sUp, sOn, localPrevSequence,
                  sentPrevSequence, rId, rUp, rOn, rCC, rShared, toS, nextId>>
  BY DEF ReceiveIndexDrop, ReceiveIndexUpdate, sdb, hdl
<1>5. Announced' = Announced /\ StartedOnce' = StartedOnce
  BY <1>4 DEF Announced, StartedOnce
<1>6. /\ \A m : Bounded(m) => Bounded(m)'
      /\ \A m : Complete(m) => Complete(m)'
  BY <1>4, <1>5 DEF Bounded, Complete
<1>7. Numbering' /\ HandlerCounters' /\ (GapInv => NothingSkipped')
  BY <1>4, <1>5 DEF SInv, Numbering, HandlerCounters, GapInv, NothingSkipped
<1>8. StartsWhereReported'
  BY <1>3, <1>4, <1>5 DEF SInv, StartsWhereReported
<1>9. CASE ReceiveIndexDrop
  <2>1. /\ rPc' = "update" /\ UNCHANGED <<rSeq, toR>> /\ toR[1].type = "index"
    BY <1>0, <1>9, HeadFacts DEF ReceiveIndexDrop, SInv
  <2>2. Reported' = Reported
    BY <1>4, <2>1 DEF Reported
  <2>3. Wire'
    BY <1>0, <1>h, <1>4, <2>1 DEF SInv, Wire
  <2>4. Chain' /\ AllBounded'
    BY <1>4, <1>5, <1>6, <2>1, <2>2 DEF SInv, Chain, AllBounded
  <2>5. NoGap' /\ (rId' = sId' => rSeq' <= sSeq')
    BY <1>4, <2>1 DEF SInv, NoGap
  <2>6. GapInv => GapInv'
    BY <1>4, <1>5, <1>6, <1>7, <2>1, <2>5 DEF GapInv, AllComplete
  <2> QED BY <1>7, <1>8, <2>3, <2>4, <2>5, <2>6 DEF SInv
<1>10. CASE ReceiveIndexUpdate
  <2>1. /\ rRow' = Replace(rRow, toR[1].files) /\ rSeq' = toR[1].last
        /\ rPc' = "idle" /\ toR' = Tail(toR)
        /\ rPc = "idle" \/ toR[1].type = "index"
    BY <1>0, <1>10, HeadFacts DEF ReceiveIndexUpdate, SInv
  <2>2. Len(toR') = Len(toR) - 1
    BY <1>0, <2>1, Zenon
  <2>r. rRow \in [Names -> Nat]
    BY DEF SInv, TypeOK
  <2>3. /\ sRow \in [Names -> Nat] /\ rRow \in [Names -> Nat] /\ rSeq \in Nat
        /\ sSeq \in Nat /\ sId # 0
    BY DatabaseType, <2>r DEF SInv
  <2>4. rSeq' <= sSeq'
    BY <1>2, <1>4, <2>1 DEF Bounded
  <2>5. Reported' = toR[1].last
    BY <1>1, <1>4, <2>1 DEF Reported
  <2>6. \A i \in 1..Len(toR') : toR'[i].type # "cc" /\ i + 1 \in 2..Len(toR)
                                /\ toR'[i] = toR[i+1]
    BY <1>0, <1>1, <2>1
  <2>7. Wire'
    BY <1>0, <1>1, <1>h, <1>3, <1>4, <2>1, <2>2, <2>3, <2>6 DEF SInv, Wire
  <2>8. AllBounded' /\ (GapInv => AllComplete')
    BY <1>0, <1>6, <2>1 DEF SInv, AllBounded, GapInv, AllComplete
  <2>9. ASSUME StartedOnce PROVE Chain'
    <3>c. \A i \in 2..Len(toR) : toR[i-1].type # "cc" => toR[i].prev = toR[i-1].last
      BY <2>9 DEF SInv, Chain
    <3>1. \A i \in 2..Len(toR') : toR'[i-1].type # "cc" => toR'[i].prev = toR'[i-1].last
      <4> SUFFICES ASSUME NEW i \in 2..Len(toR')
                   PROVE  toR'[i].prev = toR'[i-1].last
        OBVIOUS
      <4>1. /\ i + 1 \in 2..Len(toR) /\ toR'[i] = toR[i+1] /\ toR'[i-1] = toR[i]
            /\ (i + 1) - 1 = i /\ i \in 1..Len(toR)
        BY <1>0, <2>1
      <4> QED BY <1>1, <3>c, <4>1
    <3>2. Len(toR') >= 1 => toR'[1].prev = Reported' /\ toR'[1].type # "cc"
      <4> SUFFICES ASSUME Len(toR') >= 1
                   PROVE  toR'[1].prev = Reported' /\ toR'[1].type # "cc"
        OBVIOUS
      <4>1. 2 \in 2..Len(toR) /\ 2 - 1 = 1 /\ 1 \in 1..Len(toR) /\ 1 \in 1..Len(toR')
        BY <1>0, <2>2
      <4>2. toR[2].prev = toR[1].last
        BY <1>1, <3>c, <4>1
      <4> QED BY <2>5, <2>6, <4>1, <4>2
    <3>3. Len(toR') >= 1 => /\ sentPrevSequence' = toR'[Len(toR')].last
                            /\ toR'[Len(toR')].type # "cc"
      BY <1>0, <1>1, <1>4, <2>2, <2>6, <2>9 DEF SInv, Chain
    <3>4. ASSUME Len(toR') = 0 PROVE sentPrevSequence' = Reported'
      <4>1. Len(toR) = 1 /\ 1 \in 1..Len(toR)
        BY <1>0, <2>2, <3>4
      <4>2. sentPrevSequence = toR[1].last
        BY <1>1, <2>9, <4>1 DEF SInv, Chain
      <4> QED BY <1>4, <2>5, <4>2
    <3>5. Len(toR') \in Nat
      BY <1>0, <2>2
    <3> QED BY <3>1, <3>2, <3>3, <3>4, <3>5 DEF Chain
  <2>10. Chain'
    BY <1>5, <2>9 DEF Chain
  <2>11. ASSUME GapInv PROVE NoGap'
    <3> SUFFICES ASSUME NEW n \in Announced, sRow[n] <= toR[1].last
                 PROVE  rRow'[n] = sRow[n]
      BY <1>4, <1>5, <2>1 DEF NoGap
    <3>1. sRow[n] \in Nat /\ sRow[n] # 0
      BY <2>3 DEF Announced
    <3>2. toR[1].prev = rSeq /\ Complete(toR[1]) /\ rShared
      BY <1>2, <2>11 DEF GapInv
    <3>3. ASSUME sRow[n] <= toR[1].prev PROVE rRow[n] = sRow[n]
      <4>1. rPc = "idle"
        BY <1>2, <2>1, <3>1, <3>3 DEF Bounded
      <4> QED BY <1>1, <2>11, <3>2, <3>3, <4>1 DEF GapInv, NoGap
    <3> QED BY <1>2, <2>1, <2>3, <3>2, <3>3, ReplaceCovers
  <2>12. GapInv => GapInv'
    BY <1>4, <1>5, <1>7, <2>8, <2>11 DEF GapInv
  <2> QED BY <1>7, <1>8, <2>4, <2>7, <2>8, <2>10, <2>12 DEF SInv
<1> QED BY <1>9, <1>10

\* The strengthening holds initially and every step keeps it.
LEMMA InitIInv == Init => IInv
<1> SUFFICES ASSUME Init PROVE IInv
  OBVIOUS
<1> USE ConstantsAssumption
<1>1. TypeOK
  BY TypeInit DEF TypeInv
<1>2. Len(toR) = 0
  <2>1. Len(<<>>) = 0
    OBVIOUS
  <2> QED BY <2>1, Zenon DEF Init
<1>3. /\ sId = 1 /\ nextId = 2 /\ rId = 0 /\ rSeq = 0 /\ sSeq = 0 /\ sCtr = 0
      /\ \A n \in Names : sRow[n] = 0
      /\ rPc = "idle" /\ rCC = 0 /\ toS = {}
  BY DEF Init, NoRow
<1>4. ~sUp /\ ~sOn /\ ~rUp /\ ~rOn /\ rShared
  BY Zenon DEF Init
<1>5. Numbering
  BY <1>3 DEF Numbering
<1>6. Wire
  BY <1>2, <1>3, <1>4 DEF Wire
<1>7. StartsWhereReported /\ HandlerCounters /\ AllBounded /\ Chain
  BY <1>2, <1>3, <1>4 DEF StartsWhereReported, HandlerCounters, AllBounded, Chain
<1>8. SInv
  BY <1>1, <1>3, <1>5, <1>6, <1>7 DEF SInv
<1>9. NothingSkipped /\ AllComplete /\ NoGap /\ StartedOnce
  BY <1>2, <1>3, <1>4 DEF NothingSkipped, AllComplete, NoGap, StartedOnce
<1> QED BY <1>4, <1>8, <1>9 DEF IInv, GapInv

\* One step per action: SInv always, GapInv when there is one ClusterConfig per
\* connection and the folder stays shared.
LEMMA SInvStep ==
  ASSUME SInv, [Next]_vars
  PROVE  SInv' /\ (OneClusterConfig /\ GapInv => GapInv')
<1>t. TypeOK'
  <2>1. TypeInv
    BY DEF SInv, TypeInv, Wire
  <2> QED BY <2>1, TypeStep DEF TypeInv
<1> DEFINE Kept == SInv' /\ (OneClusterConfig /\ GapInv => GapInv')
<1>1. ASSUME NEW n \in Names, NEW s \in 1..MaxSeq, NEW hid \in BOOLEAN,
             LocalUpdate(n, s, hid)
      PROVE  Kept
  BY <1>t, <1>1, LocalUpdateStep
<1>2. ASSUME NEW n \in Names, DropFilesNamed(n)
      PROVE  Kept
  BY <1>t, <1>2, DropFilesNamedStep
<1>3. CASE SenderPromoteConnections \/ ReceiverPromoteConnections
  BY <1>t, <1>3, PromoteConnectionsStep
<1>4. CASE SendClusterConfig
  <2>1. ~OneClusterConfig
    <3>1. rUp /\ rCC < MaxCC
      BY <1>4 DEF SendClusterConfig
    <3>2. rCC \in Nat /\ rCC >= 1
      BY <3>1 DEF SInv, TypeOK, Wire
    <3> QED BY <3>1, <3>2, ConstantsAssumption DEF OneClusterConfig
  <2> QED BY <1>t, <1>4, <2>1, SendClusterConfigStep
<1>5. CASE Disconnect
  BY <1>t, <1>5, FaultStep
<1>6. ASSUME NEW how \in {"crash", "resetDeltas", "resetDatabase"},
             SenderRestart(how) \/ ReceiverRestart(how)
      PROVE  Kept
  BY <1>t, <1>6, FaultStep
<1>7. CASE Unshare \/ Reshare
  <2>1. ~(OneClusterConfig /\ GapInv)
    BY <1>7 DEF Unshare, Reshare, OneClusterConfig, GapInv
  <2> QED BY <1>t, <1>7, <2>1, SharingStep
<1>8. ASSUME NEW c \in toS, SenderClusterConfig(c)
      PROVE  Kept
  BY <1>t, <1>8, SenderClusterConfigStep
<1>9. ASSUME NEW e \in Names, SendIndexTo(e)
      PROVE  Kept
  BY <1>t, <1>9, SendIndexToStep
<1>10. CASE ReceiverClusterConfig \/ SetIndexID
  BY <1>t, <1>10, ReceiverClusterConfigStep
<1>11. CASE ReceiveIndexDrop \/ ReceiveIndexUpdate
  BY <1>t, <1>11, ReceiveIndexStep
<1>12. CASE UNCHANGED vars
  <2>1. Numbering' /\ Wire' /\ StartsWhereReported' /\ HandlerCounters' /\ AllBounded'
    BY <1>12 DEF SInv, Numbering, Wire, StartsWhereReported, StartSequence, Reported,
                 HandlerCounters, StartedOnce, AllBounded, Bounded, vars
  <2>2. Chain' /\ (rId' = sId' => rSeq' <= sSeq')
    BY <1>12 DEF SInv, Chain, Reported, StartedOnce, vars
  <2>3. ASSUME GapInv PROVE GapInv'
    <3>1. StartedOnce'
      BY <1>12, <2>3 DEF GapInv, StartedOnce, vars
    <3> QED BY <1>12, <2>3, <3>1, GapUnchanged DEF vars
  <2> QED BY <1>t, <2>1, <2>2, <2>3 DEF SInv
<1> QED
  BY <1>1, <1>2, <1>3, <1>4, <1>5, <1>6, <1>7, <1>8, <1>9, <1>10, <1>11, <1>12
     DEF Next, SenderStep, ReceiverStep, Environment

\* Whatever is lost, restarted or reset, and wherever the receiver's process
\* stops, the (index ID, sequence) pair in the receiver's indexids table never
\* covers an announced row that its files table does not have, as long as one
\* ClusterConfig is sent per connection and the folder stays shared.
THEOREM ReceiverHasNoGap ==
  ASSUME OneClusterConfig
  PROVE  Spec => []NoGap
<1>1. IInv /\ [Next]_vars => IInv'
  BY SInvStep DEF IInv
<1>2. IInv => NoGap
  BY DEF IInv, GapInv
<1> QED BY InitIInv, <1>1, <1>2, PTL DEF Spec

\* However many ClusterConfigs are sent and whether or not the folder stays
\* shared, every message that receive() is given holds what its bounds claim,
\* and on a connection with one ClusterConfig it continues exactly where the
\* receiver is.
THEOREM NoAnomalyReported == Spec => []NoSequenceAnomaly
<1>1. SInv /\ [Next]_vars => SInv'
  BY SInvStep
<1>2. SInv => NoSequenceAnomaly
  <2> SUFFICES ASSUME SInv, rOn, toR # <<>>, Head(toR).type \in {"index", "update"}
               PROVE  LET m == Head(toR) IN
                        /\ StartedOnce /\ m.prev > 0 => m.prev = rSeq
                        /\ \A n \in Names : m.files[n] # 0 =>
                             m.prev < m.files[n] /\ m.files[n] <= m.last
                        /\ \E n \in Names : m.files[n] = m.last
    BY DEF NoSequenceAnomaly
  <2>1. Len(toR) \in Nat /\ Len(toR) >= 1 /\ Head(toR) = toR[1]
    BY TailFacts DEF SInv, TypeOK
  <2>2. rId = sId /\ toR[1].type # "cc"
    BY <2>1 DEF SInv, Wire
  <2>3. Bounded(toR[1]) /\ (StartedOnce => toR[1].prev = rSeq)
    BY <2>1, <2>2 DEF SInv, AllBounded, Chain, Reported
  <2> QED BY <2>1, <2>3 DEF Bounded
<1>3. Init => SInv
  BY InitIInv DEF IInv
<1> QED BY <1>1, <1>2, <1>3, PTL DEF Spec

\* The sequence in the receiver's indexids row goes back, while the row keeps its
\* index ID, only on a connection with a second ClusterConfig: every message of
\* the first handler starts at the sequence and ends above it.
THEOREM ReportedSequenceGrows == Spec => SequenceNeverBack
<1>1. SInv /\ [Next]_vars => SInv'
  BY SInvStep
<1>2. ASSUME SInv, Next, rId' = rId, StartedOnce
      PROVE  rSeq' >= rSeq
  <2>1. rSeq \in Nat /\ (rId = 0 => rSeq = 0)
    BY <1>2, DatabaseType DEF SInv, Wire
  <2>2. CASE rSeq' = rSeq
    BY <2>1, <2>2
  <2>3. CASE rId' = 0
    <3>1. SInv' /\ TypeOK'
      BY <1>2, SInvStep DEF SInv
    <3>2. rSeq' \in Nat
      BY <3>1, ConstantsAssumption DEF TypeOK
    <3> QED BY <1>2, <2>1, <2>3, <3>2
  <2>4. ASSUME SetIndexID PROVE FALSE
    <3>1. Handling({"cc"}) /\ rPc = "setIndexID" /\ rId' = Head(toR).id
      BY <2>4 DEF SetIndexID
    <3>2. Len(toR) >= 1 /\ Head(toR) = toR[1]
      BY <1>2, <3>1, TailFacts DEF Handling, SInv, TypeOK
    <3>3. ~rOn /\ rId # sId
      BY <1>2, <3>1 DEF SInv, Wire
    <3>4. ~sUp => Len(toR) = 0
      BY <1>2 DEF SInv, Wire
    <3>5. toR[1].id = sId
      BY <1>2, <3>2, <3>3, <3>4 DEF SInv, Wire
    <3> QED BY <1>2, <3>1, <3>2, <3>3, <3>5
  <2>5. CASE ReceiveIndexUpdate
    <3>1. rOn /\ toR # <<>> /\ Head(toR).type # "cc" /\ rSeq' = Head(toR).last
      BY <2>5 DEF ReceiveIndexUpdate, Handling
    <3>2. Len(toR) \in Nat /\ Len(toR) >= 1 /\ Head(toR) = toR[1]
      BY <1>2, <3>1, TailFacts DEF SInv, TypeOK
    <3>3. Bounded(toR[1]) /\ toR[1].prev = rSeq
      <4>1. rId = sId /\ toR[1].type # "cc" /\ 1 \in 1..Len(toR)
        BY <1>2, <3>1, <3>2 DEF SInv, Wire
      <4> QED BY <1>2, <3>2, <4>1 DEF SInv, AllBounded, Chain, Reported
    <3>4. rSeq < toR[1].last /\ toR[1].last \in Nat
      BY <3>3 DEF Bounded
    <3> QED BY <2>1, <3>1, <3>2, <3>4
  <2>6. ASSUME NEW how \in {"crash", "resetDeltas", "resetDatabase"},
               ReceiverRestart(how)
        PROVE  rSeq' = rSeq \/ rId' = 0
    BY <2>6 DEF ReceiverRestart, rdb
  <2>7. \/ rSeq' = rSeq \/ SetIndexID \/ ReceiveIndexUpdate
        \/ \E how \in {"crash", "resetDeltas", "resetDatabase"} : ReceiverRestart(how)
    BY <1>2 DEF Next, SenderStep, ReceiverStep, Environment, SenderPromoteConnections,
      SenderClusterConfig, SendIndexTo, ReceiverPromoteConnections, Reshare,
      ReceiverClusterConfig, ReceiveIndexDrop, LocalUpdate, DropFilesNamed,
      SendClusterConfig, Disconnect, Unshare, SenderRestart, rdb
  <2> QED BY <2>2, <2>3, <2>4, <2>5, <2>6, <2>7
<1>3. SInv /\ [Next]_vars => [rId' = rId /\ StartedOnce => rSeq' >= rSeq]_vars
  BY <1>2
<1>4. Init => SInv
  BY InitIInv DEF IInv
<1> QED BY <1>1, <1>3, <1>4, PTL DEF Spec, SequenceNeverBack
=============================================================================
