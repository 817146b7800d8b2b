--------------------------- MODULE IndexExchange ---------------------------
(***************************************************************************)
(* The delta index exchange of one folder, from the device that announces  *)
(* its files (the sender) to one peer (the receiver): lib/model/           *)
(* indexhandler.go, the cluster config handling of lib/model/model.go and  *)
(* the files and indexids tables of internal/db/sqlite.                    *)
(*                                                                         *)
(* A file is a name, a version of it is the sequence number its row got    *)
(* from the sender's database.  The receiver remembers, per sender, an     *)
(* index ID and "the maximum sequence"; on every new connection it reports *)
(* both in its ClusterConfig and the sender starts its index after that    *)
(* sequence.                                                               *)
(***************************************************************************)
EXTENDS Naturals, Sequences

CONSTANTS
  Names,             \* file names in the folder
  MaxSeq,            \* bound: sequence numbers the sender's database hands out
  MaxId,             \* bound: index IDs ever generated
  MaxCC,             \* bound: ClusterConfigs the receiver sends per connection
  MaxFaults,         \* bound: lost connections, restarts and resets
  ReceiveEncrypted,  \* is the sender's folder of type receive-encrypted?
  CrashInReceive,    \* may the receiver's process stop while it applies a message?
  AllowUnshare       \* may the receiver stop sharing the folder for a while?

ASSUME ConstantsAssumption ==
  /\ MaxSeq \in Nat /\ MaxId \in Nat \ {0}
  /\ MaxCC \in Nat \ {0} /\ MaxFaults \in Nat
  /\ ReceiveEncrypted \in BOOLEAN /\ CrashInReceive \in BOOLEAN
  /\ AllowUnshare \in BOOLEAN

VARIABLES
  \* the sender's database
  sId,       \* its own index ID
  sCtr,      \* AUTOINCREMENT counter of the files table
  sSeq,      \* indexids.sequence of the local device
  sRow,      \* name -> sequence of the local row, 0 when there is none
  sHidden,   \* names whose local row is receive-only changed
  \* the sender's connection and index handler
  sUp, sOn,
  localPrevSequence, sentPrevSequence,
  \* the receiver's database, as far as it is about the sender
  rId, rSeq, rRow,
  \* the receiver's connection, index handler and the step it is in
  rUp, rOn, rPc, rCC, rShared,
  \* messages under way
  toS,       \* set: ClusterConfigs, each sent from a goroutine of its own
  toR,       \* sequence: what the sender's writer loop has put on the wire
  nextId, faults

sdb  == <<sId, sCtr, sSeq, sRow, sHidden>>
hdl  == <<sOn, localPrevSequence, sentPrevSequence>>
rdb  == <<rId, rSeq, rRow>>
vars == <<sId, sCtr, sSeq, sRow, sHidden, sUp, sOn, localPrevSequence,
          sentPrevSequence, rId, rSeq, rRow, rUp, rOn, rPc, rCC, rShared,
          toS, toR, nextId, faults>>

NoRow == [n \in Names |-> 0]

CCs == [no : 1..MaxCC, id : 0..MaxId, max : 0..MaxSeq]

Messages ==
  [type : {"cc"}, id : 1..MaxId] \cup
  [type : {"index", "update"}, files : [Names -> 0..MaxSeq],
   prev : 0..MaxSeq, last : 0..MaxSeq]

----------------------------------------------------------------------------
Init ==
  /\ sId = 1 /\ sCtr = 0 /\ sSeq = 0 /\ sRow = NoRow /\ sHidden = {}
  /\ sUp = FALSE /\ sOn = FALSE
  /\ localPrevSequence = 0 /\ sentPrevSequence = 0
  /\ rId = 0 /\ rSeq = 0 /\ rRow = NoRow
  /\ rUp = FALSE /\ rOn = FALSE /\ rPc = "idle" /\ rCC = 0 /\ rShared = TRUE
  /\ toS = {} /\ toR = <<>>
  /\ nextId = 2 /\ faults = 0

(***************************************************************************)
(* The sender's folder changes.  The counter is shared by the rows of all  *)
(* devices, so the numbers of the local rows have holes.                   *)
(***************************************************************************)
LocalUpdate(n, s, hid) ==
  /\ s > sCtr
  /\ hid => ReceiveEncrypted
  /\ sCtr' = s /\ sSeq' = s
  /\ sRow' = [sRow EXCEPT ![n] = s]
  /\ sHidden' = IF hid THEN sHidden \cup {n} ELSE sHidden \ {n}
  /\ UNCHANGED <<sId, sUp, hdl, rdb, rUp, rOn, rPc, rCC, rShared, toS, toR,
                 nextId, faults>>

\* A scan forgets a row without announcing it; indexids is left alone.
DropFilesNamed(n) ==
  /\ sRow[n] # 0
  /\ sRow' = [sRow EXCEPT ![n] = 0]
  /\ UNCHANGED <<sId, sCtr, sSeq, sHidden, sUp, hdl, rdb, rUp, rOn, rPc, rCC,
                 rShared, toS, toR, nextId, faults>>

----------------------------------------------------------------------------
(***************************************************************************)
(* Connections.  Each side adds the connection on its own and generates    *)
(* its ClusterConfig under the model's lock while doing so.                *)
(***************************************************************************)
ClusterConfigOfReceiver == [no |-> rCC + 1, id |-> rId, max |-> rSeq]

SenderPromoteConnections ==
  /\ ~sUp
  /\ sUp' = TRUE
  /\ toR' = Append(toR, [type |-> "cc", id |-> sId])
  /\ UNCHANGED <<sdb, hdl, rdb, rUp, rOn, rPc, rCC, rShared, toS, nextId, faults>>

ReceiverPromoteConnections ==
  /\ ~rUp /\ rShared
  /\ rUp' = TRUE
  /\ toS' = toS \cup {ClusterConfigOfReceiver} /\ rCC' = rCC + 1
  /\ UNCHANGED <<sdb, sUp, hdl, rdb, rOn, rPc, rShared, toR, nextId, faults>>

\* A configuration change restarts the folder and sends another one.
SendClusterConfig ==
  /\ rUp /\ rShared /\ rCC < MaxCC
  /\ toS' = toS \cup {ClusterConfigOfReceiver} /\ rCC' = rCC + 1
  /\ UNCHANGED <<sdb, sUp, hdl, rdb, rUp, rOn, rPc, rShared, toR, nextId, faults>>

\* What is left of the connection on both sides once it is gone.
ConnectionGone ==
  /\ sUp' = FALSE /\ sOn' = FALSE
  /\ localPrevSequence' = 0 /\ sentPrevSequence' = 0
  /\ rUp' = FALSE /\ rOn' = FALSE /\ rPc' = "idle" /\ rCC' = 0
  /\ toS' = {} /\ toR' = <<>>

Fault == faults < MaxFaults /\ faults' = faults + 1

\* internalClose waits for the dispatcher, so the receiver's handler of the
\* message at hand runs to its end first.
Disconnect ==
  /\ Fault /\ (sUp \/ rUp) /\ rPc = "idle"
  /\ ConnectionGone
  /\ UNCHANGED <<sdb, rdb, rShared, nextId>>

(***************************************************************************)
(* Restarts.  The process stops anywhere, between two transactions too.    *)
(* It may come back with --reset-deltas (DropAllIndexIDs) or with no       *)
(* database at all.                                                        *)
(***************************************************************************)
SenderRestart(how) ==
  /\ Fault /\ rPc = "idle"
  /\ ConnectionGone
  /\ CASE how = "crash" ->
            UNCHANGED <<sdb, nextId>>
       [] how = "resetDeltas" ->
            /\ nextId <= MaxId /\ nextId' = nextId + 1 /\ sId' = nextId
            /\ sSeq' \in {sRow[n] : n \in Names} \cup {0}
            /\ \A n \in Names : sRow[n] <= sSeq'
            /\ UNCHANGED <<sCtr, sRow, sHidden>>
       [] how = "resetDatabase" ->
            /\ nextId <= MaxId /\ nextId' = nextId + 1 /\ sId' = nextId
            /\ sCtr' = 0 /\ sSeq' = 0 /\ sRow' = NoRow /\ sHidden' = {}
  /\ UNCHANGED <<rdb, rShared>>

ReceiverRestart(how) ==
  /\ Fault /\ (rPc = "idle" \/ CrashInReceive)
  /\ ConnectionGone
  /\ CASE how = "crash" -> UNCHANGED rdb
       [] how = "resetDeltas" -> rId' = 0 /\ rSeq' = 0 /\ UNCHANGED rRow
       [] how = "resetDatabase" -> rId' = 0 /\ rSeq' = 0 /\ rRow' = NoRow
  /\ UNCHANGED <<sdb, rShared, nextId>>

\* Not sharing the folder with the sender drops the sender's files when the
\* folder starts; sharing it again changes nothing in the database.
Unshare ==
  /\ AllowUnshare /\ Fault /\ ~rUp /\ rShared
  /\ rShared' = FALSE /\ rRow' = NoRow
  /\ UNCHANGED <<sdb, sUp, hdl, rId, rSeq, rUp, rOn, rPc, rCC, toS, toR, nextId>>

Reshare ==
  /\ ~rShared
  /\ rShared' = TRUE
  /\ UNCHANGED <<sdb, sUp, hdl, rdb, rUp, rOn, rPc, rCC, toS, toR, nextId, faults>>

----------------------------------------------------------------------------
(***************************************************************************)
(* The sender's index handler.                                             *)
(***************************************************************************)

\* Mutants of StartSequence: trust the sequence whatever index it belongs to,
\* start one too far, always start over, start with what is new from now on.
StartSequenceAnyID(id, max)    == IF max <= sSeq THEN max ELSE 0
StartSequenceOneMore(id, max)  == IF id = sId /\ max <= sSeq THEN max + 1 ELSE 0
StartSequenceStartOver(id, max) == 0
StartSequenceFromNow(id, max)  == sSeq

\* Where to start for a peer that reports index ID id and sequence max.
StartSequence(id, max) == IF id = sId /\ max <= sSeq THEN max ELSE 0

SenderClusterConfig(c) ==
  /\ sUp
  /\ toS' = toS \ {c}
  /\ sOn' = TRUE
  /\ localPrevSequence' = StartSequence(c.id, c.max)
  /\ sentPrevSequence' = StartSequence(c.id, c.max)
  /\ UNCHANGED <<sdb, sUp, rdb, rUp, rOn, rPc, rCC, rShared, toR, nextId, faults>>

\* The rows in the batch that ends at sequence upTo.
Batch(upTo) ==
  [n \in Names |->
     IF localPrevSequence < sRow[n] /\ sRow[n] <= upTo /\ n \notin sHidden
     THEN sRow[n] ELSE 0]

\* What the flush function sends: an Index for the first batch of a handler that
\* starts from nothing, an IndexUpdate that names its predecessor otherwise.
IndexMessage(fs, last) ==
  [type  |-> IF localPrevSequence = 0 THEN "index" ELSE "update",
   files |-> fs,
   prev  |-> IF localPrevSequence = 0 THEN 0 ELSE sentPrevSequence,
   last  |-> last]

\* One batch: rows in sequence order from localPrevSequence + 1, cut where the
\* batch is full (or at the end).  A batch with nothing to send is not sent.
SendIndexTo(end) ==
  /\ sUp /\ sOn
  /\ localPrevSequence < sRow[end]
  /\ LET upTo == sRow[end]
         fs   == Batch(upTo)
     IN /\ localPrevSequence' = upTo
        /\ IF fs = NoRow
           THEN UNCHANGED <<toR, sentPrevSequence>>
           ELSE \E last \in Names :
                  /\ fs[last] # 0 /\ \A n \in Names : fs[n] <= fs[last]
                  /\ sentPrevSequence' = fs[last]
                  /\ toR' = Append(toR, IndexMessage(fs, fs[last]))
  /\ UNCHANGED <<sdb, sUp, sOn, rdb, rUp, rOn, rPc, rCC, rShared, toS, nextId, faults>>

----------------------------------------------------------------------------
(***************************************************************************)
(* The receiver.  Its dispatcher handles one message at a time; each       *)
(* database call is a transaction of its own.                              *)
(***************************************************************************)
Handling(types) == rUp /\ toR # <<>> /\ Head(toR).type \in types

ReceiverClusterConfig ==
  /\ Handling({"cc"}) /\ rPc = "idle"
  /\ IF Head(toR).id = rId
     THEN rOn' = TRUE /\ toR' = Tail(toR) /\ UNCHANGED <<rRow, rPc>>
     ELSE rRow' = NoRow /\ rPc' = "setIndexID" /\ UNCHANGED <<rOn, toR>>
  /\ UNCHANGED <<sdb, sUp, hdl, rId, rSeq, rUp, rCC, rShared, toS, nextId, faults>>

\* Mutant of SetIndexID: the old sequence survives the new index ID.
SetIndexIDKeepsSequence ==
  /\ Handling({"cc"}) /\ rPc = "setIndexID"
  /\ rId' = Head(toR).id /\ rSeq' = rSeq
  /\ rOn' = TRUE /\ rPc' = "idle" /\ toR' = Tail(toR)
  /\ UNCHANGED <<sdb, sUp, hdl, rRow, rUp, rCC, rShared, toS, nextId, faults>>

SetIndexID ==
  /\ Handling({"cc"}) /\ rPc = "setIndexID"
  /\ rId' = Head(toR).id /\ rSeq' = 0
  /\ rOn' = TRUE /\ rPc' = "idle" /\ toR' = Tail(toR)
  /\ UNCHANGED <<sdb, sUp, hdl, rRow, rUp, rCC, rShared, toS, nextId, faults>>

\* Rows of the receiver after fs: INSERT OR REPLACE with (device, name) and
\* (device, remote_sequence) unique.
Replace(row, fs) ==
  [n \in Names |->
     IF fs[n] # 0 THEN fs[n]
     ELSE IF \E m \in Names : fs[m] # 0 /\ fs[m] = row[n] THEN 0
     ELSE row[n]]

\* A full index first drops what there is.
ReceiveIndexDrop ==
  /\ Handling({"index"}) /\ rOn /\ rPc = "idle"
  /\ rRow' = NoRow /\ rPc' = "update"
  /\ UNCHANGED <<sdb, sUp, hdl, rId, rSeq, rUp, rOn, rCC, rShared, toS, toR,
                 nextId, faults>>

ReceiveIndexUpdate ==
  /\ rOn
  /\ \/ Handling({"index"}) /\ rPc = "update"
     \/ Handling({"update"}) /\ rPc = "idle"
  /\ rRow' = Replace(rRow, Head(toR).files)
  /\ rSeq' = Head(toR).last
  /\ rPc' = "idle" /\ toR' = Tail(toR)
  /\ UNCHANGED <<sdb, sUp, hdl, rId, rUp, rOn, rCC, rShared, toS, nextId, faults>>

----------------------------------------------------------------------------
SenderStep ==
  \/ SenderPromoteConnections
  \/ \E c \in toS : SenderClusterConfig(c)
  \/ \E n \in Names : SendIndexTo(n)

ReceiverStep ==
  \/ ReceiverPromoteConnections \/ Reshare
  \/ ReceiverClusterConfig \/ SetIndexID
  \/ ReceiveIndexDrop \/ ReceiveIndexUpdate

Environment ==
  \/ \E n \in Names, s \in 1..MaxSeq, hid \in BOOLEAN : LocalUpdate(n, s, hid)
  \/ \E n \in Names : DropFilesNamed(n)
  \/ SendClusterConfig \/ Disconnect \/ Unshare
  \/ \E how \in {"crash", "resetDeltas", "resetDatabase"} :
        SenderRestart(how) \/ ReceiverRestart(how)

Next == SenderStep \/ ReceiverStep \/ Environment

Spec == Init /\ [][Next]_vars

\* The connection service dials again, the handler looks at the database at
\* least once a minute, and the dispatcher handles what arrives.
Fairness ==
  /\ WF_vars(SenderPromoteConnections) /\ WF_vars(ReceiverPromoteConnections)
  /\ WF_vars(\E c \in toS : SenderClusterConfig(c))
  /\ WF_vars(\E n \in Names : SendIndexTo(n))
  /\ WF_vars(Reshare)
  /\ WF_vars(ReceiverClusterConfig \/ SetIndexID)
  /\ WF_vars(ReceiveIndexDrop \/ ReceiveIndexUpdate)

FairSpec == Spec /\ Fairness

----------------------------------------------------------------------------
TypeOK ==
  /\ sId \in 1..MaxId /\ nextId \in 2..(MaxId + 1)
  /\ sCtr \in 0..MaxSeq /\ sSeq \in 0..MaxSeq
  /\ sRow \in [Names -> 0..MaxSeq] /\ sHidden \in SUBSET Names
  /\ sUp \in BOOLEAN /\ sOn \in BOOLEAN
  /\ localPrevSequence \in 0..MaxSeq /\ sentPrevSequence \in 0..MaxSeq
  /\ rId \in 0..MaxId /\ rSeq \in 0..MaxSeq /\ rRow \in [Names -> 0..MaxSeq]
  /\ rUp \in BOOLEAN /\ rOn \in BOOLEAN /\ rShared \in BOOLEAN
  /\ rPc \in {"idle", "setIndexID", "update"} /\ rCC \in 0..MaxCC
  /\ toS \in SUBSET CCs /\ toR \in Seq(Messages)
  /\ faults \in 0..MaxFaults

\* The files the sender announces: those with a row that is not kept back.
Announced == {n \in Names : sRow[n] # 0 /\ n \notin sHidden}

\* The receiver's (index ID, sequence) pair is a promise to the sender: "I have
\* every row of that index up to that sequence".  newIndexHandler starts after
\* it, so a row below it that the receiver lacks is never sent again.
NoGap ==
  rId = sId /\ rShared /\ rPc = "idle" =>
    \A n \in Announced : sRow[n] <= rSeq => rRow[n] = sRow[n]

\* Has the receiver sent one ClusterConfig on this connection, so that the
\* sender's handler was started once?
StartedOnce == rCC <= 1

\* None of the sequence anomalies that receive() reports as a failure is met: the
\* files of a message lie between prevSequence and lastSequence and the last of
\* them has lastSequence, however often the sender's handler is restarted, and
\* an update continues exactly where the receiver is as long as it is not.
NoSequenceAnomaly ==
  rOn /\ toR # <<>> /\ Head(toR).type \in {"index", "update"} =>
    LET m == Head(toR) IN
      /\ StartedOnce /\ m.prev > 0 => m.prev = rSeq
      /\ \A n \in Names : m.files[n] # 0 =>
                           m.prev < m.files[n] /\ m.files[n] <= m.last
      /\ \E n \in Names : m.files[n] = m.last

\* For one index ID the sequence that the receiver keeps in its indexids row,
\* and reports in its next ClusterConfig, goes back only on a connection on which
\* the receiver has sent a second ClusterConfig, so that the sender's handler
\* starts again from an earlier report.
SequenceNeverBack == [][rId' = rId /\ StartedOnce => rSeq' >= rSeq]_vars

\* What the check at the top of receive() expects of every update: it continues
\* exactly where the receiver is.  This does not hold after a second ClusterConfig
\* on a connection, whose report a message under way may have overtaken.
UpdatesContinue ==
  rOn /\ toR # <<>> /\ Head(toR).type = "update" /\ Head(toR).prev > 0 =>
    Head(toR).prev = rSeq

\* Once connections stay up and the folder is left alone, the receiver knows
\* every announced file at its current version, under the current index ID.
Synced == rId = sId /\ \A n \in Announced : rRow[n] = sRow[n]
EventuallySynced == <>[]Synced

----------------------------------------------------------------------------
(***************************************************************************)
(* The inductive invariant behind NoSequenceAnomaly and SequenceNeverBack, *)
(* and what is added to it for NoGap.                                      *)
(***************************************************************************)

\* The sender's own numbering.
Numbering ==
  /\ sId < nextId /\ rId < nextId
  /\ sSeq <= sCtr
  /\ \A n \in Names : sRow[n] <= sSeq
  /\ \A n, k \in Names : n # k /\ sRow[n] # 0 => sRow[n] # sRow[k]

\* The sequence the receiver will have for the sender's current index ID once
\* it has handled the sender's ClusterConfig.
Reported == IF rId = sId THEN rSeq ELSE 0

\* Which side knows of the connection, and what may be on the wire.
Wire ==
  /\ rId = 0 => rSeq = 0
  /\ ~sUp => Len(toR) = 0 /\ ~sOn /\ ~rOn
  /\ ~rUp => toS = {} /\ ~sOn /\ ~rOn /\ rPc = "idle" /\ rCC = 0
  /\ rUp => rCC >= 1
  /\ sUp /\ ~rOn => /\ Len(toR) >= 1
                     /\ toR[1].type = "cc" /\ toR[1].id = sId
                     /\ \A i \in 2..Len(toR) : toR[i].type # "cc"
  /\ rOn => /\ rId = sId
            /\ \A i \in 1..Len(toR) : toR[i].type # "cc"
  /\ ~sOn => \A i \in 1..Len(toR) : toR[i].type = "cc"
  /\ rPc = "setIndexID" => ~rOn /\ rId # sId
  /\ rPc = "update" => rOn /\ Len(toR) >= 1 /\ toR[1].type = "index"

\* What the only ClusterConfig of a connection will make the sender start from.
StartsWhereReported ==
  StartedOnce =>
    /\ sOn => toS = {}
    /\ \A c, d \in toS : c = d
    /\ \A c \in toS : /\ c.id = sId => c.max <= sSeq
                      /\ StartSequence(c.id, c.max) = Reported

\* The handler's two counters.
HandlerCounters ==
  sOn => sentPrevSequence <= localPrevSequence /\ localPrevSequence <= sSeq

\* The files of an index message lie between its two bounds.
Bounded(m) ==
  /\ m.prev \in Nat /\ m.last \in Nat /\ m.files \in [Names -> Nat]
  /\ m.type = "index" => m.prev = 0
  /\ m.prev < m.last /\ m.last <= sSeq
  /\ \E n \in Names : m.files[n] = m.last
  /\ \A n \in Names : m.files[n] # 0 => m.prev < m.files[n] /\ m.files[n] <= m.last

AllBounded == \A i \in 1..Len(toR) : toR[i].type # "cc" => Bounded(toR[i])

\* The index messages on the wire continue one another, from what the receiver
\* has to what the only handler of the connection has sent.
Chain ==
  StartedOnce =>
    /\ \A i \in 2..Len(toR) : toR[i-1].type # "cc" => toR[i].prev = toR[i-1].last
    /\ Len(toR) >= 1 /\ toR[1].type # "cc" => toR[1].prev = Reported
    /\ Len(toR) >= 2 /\ toR[1].type = "cc" => toR[2].prev = Reported
    /\ Len(toR) >= 1 /\ toR[Len(toR)].type # "cc" =>
         sentPrevSequence = toR[Len(toR)].last
    /\ sOn /\ (Len(toR) = 0 \/ toR[Len(toR)].type = "cc") =>
         sentPrevSequence = Reported

SInv ==
  /\ TypeOK /\ Numbering /\ Wire /\ StartsWhereReported
  /\ HandlerCounters /\ AllBounded /\ Chain
  /\ rId = sId => rSeq <= sSeq

\* Nothing announced lies between the handler's two counters.
NothingSkipped ==
  sOn => \A n \in Announced : sRow[n] <= localPrevSequence =>
                                sRow[n] <= sentPrevSequence

\* An index message holds every announced row between its two bounds, and no
\* number that another row has now.
Complete(m) ==
  /\ \A n \in Names :
       m.files[n] # 0 =>
         /\ sRow[n] # 0 => m.files[n] <= sRow[n]
         /\ \A k \in Names : k # n => sRow[k] # m.files[n]
  /\ \A n \in Announced :
       m.prev < sRow[n] /\ sRow[n] <= m.last => m.files[n] = sRow[n]

AllComplete == \A i \in 1..Len(toR) : toR[i].type # "cc" => Complete(toR[i])

\* For a receiver that sends one ClusterConfig per connection and shares the
\* folder all the time.
GapInv == rShared /\ StartedOnce /\ NothingSkipped /\ AllComplete /\ NoGap

IInv == SInv /\ GapInv
=============================================================================
