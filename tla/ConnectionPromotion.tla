------------------------- MODULE ConnectionPromotion -------------------------
(***************************************************************************)
(* The connections between two devices as the models of both sides see     *)
(* them (lib/model/model.go).  Several connections may exist; each side    *)
(* lists them in the order it added them and takes the first one as the    *)
(* primary.  A side promotes its primary by sending a ClusterConfig on it, *)
(* a second after the last change; the side that receives it moves its     *)
(* index handler there and sends its index messages on that connection.    *)
(* Nothing makes the two sides agree on the order, and messages on         *)
(* different connections overtake each other.                              *)
(*                                                                         *)
(* A connection is one name for both sides.  Its goroutines are modelled   *)
(* in RawConnection; here it is a pair of FIFO queues and a phase per side.*)
(***************************************************************************)
EXTENDS Integers, Sequences, SequencesExt, FiniteSets

CONSTANTS
  Conns,      \* the connections that are ever made between the two devices
  None,       \* no connection
  MaxSends    \* bound on index messages and configuration changes, together

ASSUME ConnsAssumption == IsFiniteSet(Conns) /\ None \notin Conns
ASSUME BoundsAssumption == MaxSends \in Nat

VARIABLES
  phase,      \* per side and connection: "new", "up", "closing", "gone"
  started,    \* per side: the connections whose loops run
  ids,        \* deviceConnIDs of the peer, in the order of AddConnection
  adding,     \* the connections whose AddConnection has yet to schedule a promotion
  promoted,   \* promotedConnID
  timer,      \* promotionTimer is running or has fired
  post,       \* postLockActions of promoteConnections still to be done
  handler,    \* the connection of the peer's index handler registry
  wire,       \* per side and connection: what it sent and the peer has not handled
  sends       \* index messages and configuration changes so far

vars == <<phase, started, ids, adding, promoted, timer, post, handler, wire, sends>>

Sides == {1, 2}
Peer(s) == 3 - s

Phases == {"new", "up", "closing", "gone"}
Messages == {"primary", "secondary", "index"}
Actions == [conn : Conns, cc : {"primary", "secondary"}]

Init ==
  /\ phase = [s \in Sides |-> [c \in Conns |-> "new"]]
  /\ started = [s \in Sides |-> {}]
  /\ ids = [s \in Sides |-> <<>>]
  /\ adding = [s \in Sides |-> {}]
  /\ promoted = [s \in Sides |-> None]
  /\ timer = [s \in Sides |-> FALSE]
  /\ post = [s \in Sides |-> <<>>]
  /\ handler = [s \in Sides |-> None]
  /\ wire = [s \in Sides |-> [c \in Conns |-> <<>>]]
  /\ sends = 0

(* Mutant of Sent: what arrives before the peer has added the connection   *)
(* is dropped.                                                             *)
SentToAdded(s, c, m) ==
  IF phase[s][c] = "up" /\ phase[Peer(s)][c] = "up"
  THEN [wire EXCEPT ![s][c] = Append(@, m)]
  ELSE wire

(* What s sends on c.  Nobody reads what is sent to a side that has closed. *)
Sent(s, c, m) ==
  IF phase[s][c] = "up" /\ phase[Peer(s)][c] \in {"new", "up"}
  THEN [wire EXCEPT ![s][c] = Append(@, m)]
  ELSE wire

-----------------------------------------------------------------------------
(* AddConnection, after the hello of both sides.  The list is changed under *)
(* the mutex.  One goroutine, handleHellos, makes all these calls.         *)
AddConnection(s, c) ==
  /\ phase[s][c] = "new" /\ adding[s] = {}
  /\ phase' = [phase EXCEPT ![s][c] = "up"]
  /\ ids' = [ids EXCEPT ![s] = Append(@, c)]
  /\ adding' = [adding EXCEPT ![s] = {c}]
  /\ UNCHANGED <<started, promoted, timer, post, handler, wire, sends>>

(* The end of AddConnection: the promotion is scheduled after the mutex is *)
(* released and the device's name is saved.  By then the connection may    *)
(* have been promoted, or closed.                                          *)
scheduleConnectionPromotion(s, c) ==
  /\ c \in adding[s]
  /\ adding' = [adding EXCEPT ![s] = @ \ {c}]
  /\ timer' = [timer EXCEPT ![s] = TRUE]
  /\ UNCHANGED <<phase, started, ids, promoted, post, handler, wire, sends>>

(* The hello fails on this side, or the connection is refused.  It commutes *)
(* with the peer's AddConnection, so it is only tried after it.            *)
Refuse(s, c) ==
  /\ phase[s][c] = "new" /\ adding[s] = {}
  /\ phase[Peer(s)][c] # "new"
  /\ phase' = [phase EXCEPT ![s][c] = "gone"]
  /\ wire' = [wire EXCEPT ![Peer(s)][c] = <<>>]
  /\ UNCHANGED <<started, ids, adding, promoted, timer, post, handler, sends>>

-----------------------------------------------------------------------------
(* promoteConnections: the decisions are taken under the mutex, the calls  *)
(* on the connections are made after it is released.                       *)

PrimaryAction(s) ==
  IF promoted[s] # ids[s][1] THEN <<[conn |-> ids[s][1], cc |-> "primary"]>>
                             ELSE <<>>

(* Mutant of SecondaryActions: the full ClusterConfig goes to all.         *)
SecondaryActionsUnmarked(s) ==
  LET upTo[i \in 1..Len(ids[s])] ==
        IF i = 1 THEN <<>>
        ELSE IF ids[s][i] \in started[s] THEN upTo[i - 1]
        ELSE Append(upTo[i - 1], [conn |-> ids[s][i], cc |-> "primary"])
  IN  upTo[Len(ids[s])]

SecondaryActions(s) ==
  LET upTo[i \in 1..Len(ids[s])] ==
        IF i = 1 THEN <<>>
        ELSE IF ids[s][i] \in started[s] THEN upTo[i - 1]
        ELSE Append(upTo[i - 1], [conn |-> ids[s][i], cc |-> "secondary"])
  IN  upTo[Len(ids[s])]

promoteConnections(s) ==
  /\ timer[s]
  /\ post[s] = <<>>
  /\ timer' = [timer EXCEPT ![s] = FALSE]
  /\ IF ids[s] = <<>>
     THEN UNCHANGED <<promoted, post>>
     ELSE /\ post' = [post EXCEPT ![s] = PrimaryAction(s) \o SecondaryActions(s)]
          /\ promoted' = [promoted EXCEPT ![s] = ids[s][1]]
  /\ UNCHANGED <<phase, started, ids, adding, handler, wire, sends>>

(* One postLockAction: Start, which does nothing on a closed connection,   *)
(* and ClusterConfig, which returns at once on a closed one.               *)
PostLockAction(s) ==
  /\ post[s] # <<>>
  /\ post' = [post EXCEPT ![s] = Tail(@)]
  /\ LET a == Head(post[s]) IN
       /\ started' = IF phase[s][a.conn] = "up"
                     THEN [started EXCEPT ![s] = @ \union {a.conn}]
                     ELSE started
       /\ wire' = Sent(s, a.conn, a.cc)
  /\ UNCHANGED <<phase, ids, adding, promoted, timer, handler, sends>>

(* sendClusterConfig, after a configuration change.  The goroutine it      *)
(* starts waits until the connection has a writer: see Readable.           *)
sendClusterConfig(s) ==
  /\ sends < MaxSends
  /\ ids[s] # <<>>
  /\ sends' = sends + 1
  /\ wire' = Sent(s, ids[s][1], "primary")
  /\ UNCHANGED <<phase, started, ids, adding, promoted, timer, post, handler>>

-----------------------------------------------------------------------------
(* Index messages and what the dispatcher of a connection does with what   *)
(* the peer sent.                                                          *)

SendIndex(s) ==
  /\ sends < MaxSends
  /\ handler[s] # None
  /\ phase[s][handler[s]] = "up"
  /\ sends' = sends + 1
  /\ wire' = Sent(s, handler[s], "index")
  /\ UNCHANGED <<phase, started, ids, adding, promoted, timer, post, handler>>

(* Both sides' loops run, or the peer's have run and its message is still  *)
(* on its way.                                                             *)
Readable(s, c) ==
  /\ phase[s][c] = "up"
  /\ c \in started[s]
  /\ c \in started[Peer(s)]
  /\ wire[Peer(s)][c] # <<>>

Message(s, c) == Head(wire[Peer(s)][c])

Consume(s, c) == wire' = [wire EXCEPT ![Peer(s)][c] = Tail(@)]

(* The connection is closed on this side.  It reads no more, and what a    *)
(* connection that was never started had to send stays unsent.             *)
BeginClose(s, c) ==
  /\ phase' = [phase EXCEPT ![s][c] = "closing"]
  /\ wire' = [wire EXCEPT ![Peer(s)][c] = <<>>,
                          ![s][c] = IF c \in started[s] THEN @ ELSE <<>>]

(* ClusterConfig on a secondary connection.                                *)
ReceiveSecondary(s, c) ==
  /\ Readable(s, c)
  /\ Message(s, c) = "secondary"
  /\ Consume(s, c)
  /\ UNCHANGED <<phase, started, ids, adding, promoted, timer, post, handler, sends>>

(* ClusterConfig: ensureIndexHandler keeps the handler of this connection, *)
(* abandons that of another one, and creates one.                          *)
ReceivePrimary(s, c) ==
  /\ Readable(s, c)
  /\ Message(s, c) = "primary"
  /\ Consume(s, c)
  /\ handler' = [handler EXCEPT ![s] = c]
  /\ UNCHANGED <<phase, started, ids, adding, promoted, timer, post, sends>>

(* Index, IndexUpdate: handleIndex.  Without a handler for this connection *)
(* it returns an error, and the dispatcher closes the connection.          *)
ReceiveIndex(s, c) ==
  /\ Readable(s, c)
  /\ Message(s, c) = "index"
  /\ IF handler[s] = c THEN Consume(s, c) /\ UNCHANGED phase
                       ELSE BeginClose(s, c)
  /\ UNCHANGED <<started, ids, adding, promoted, timer, post, handler, sends>>

-----------------------------------------------------------------------------
(* The end of a connection.                                                *)

(* Any local reason: an error of the network, a better connection, a       *)
(* paused device.                                                          *)
Close(s, c) ==
  /\ phase[s][c] = "up"
  /\ BeginClose(s, c)
  /\ UNCHANGED <<started, ids, adding, promoted, timer, post, handler, sends>>

(* The reader meets the end of the stream, after all the peer sent.        *)
PeerClosed(s, c) ==
  /\ phase[s][c] = "up"
  /\ c \in started[s]
  /\ phase[Peer(s)][c] \in {"closing", "gone"}
  /\ wire[Peer(s)][c] = <<>>
  /\ BeginClose(s, c)
  /\ UNCHANGED <<started, ids, adding, promoted, timer, post, handler, sends>>

(* The list without the first occurrence of a connection.                  *)
without(list, c) == RemoveFirst(list, c)

(* Mutant of Closed: promotion is left to the next new connection.         *)
ClosedUnscheduled(s, c) ==
  LET removedIsPrimary == promoted[s] = c
      remaining == without(ids[s], c)
  IN  /\ phase[s][c] = "closing"
      /\ phase' = [phase EXCEPT ![s][c] = "gone"]
      /\ ids' = [ids EXCEPT ![s] = remaining]
      /\ promoted' = [promoted EXCEPT ![s] = IF remaining = <<>> THEN None ELSE @]
      /\ handler' = [handler EXCEPT ![s] =
                       IF removedIsPrimary /\ @ = c THEN None ELSE @]
      /\ UNCHANGED <<started, adding, timer, post, wire, sends>>

(* Closed: only the promoted connection takes its index handler with it    *)
(* and asks for another promotion.                                         *)
Closed(s, c) ==
  LET removedIsPrimary == promoted[s] = c
      remaining == without(ids[s], c)
  IN  /\ phase[s][c] = "closing"
      /\ phase' = [phase EXCEPT ![s][c] = "gone"]
      /\ ids' = [ids EXCEPT ![s] = remaining]
      /\ promoted' = [promoted EXCEPT ![s] = IF remaining = <<>> THEN None ELSE @]
      /\ handler' = [handler EXCEPT ![s] =
                       IF removedIsPrimary /\ @ = c THEN None ELSE @]
      /\ timer' = [timer EXCEPT ![s] = @ \/ removedIsPrimary]
      /\ UNCHANGED <<started, adding, post, wire, sends>>

-----------------------------------------------------------------------------
Runs(s) ==
  \/ promoteConnections(s)
  \/ PostLockAction(s)
  \/ \E c \in Conns : \/ scheduleConnectionPromotion(s, c)
                      \/ ReceiveSecondary(s, c) \/ ReceivePrimary(s, c)
                      \/ ReceiveIndex(s, c)
                      \/ PeerClosed(s, c) \/ Closed(s, c)

Next ==
  \E s \in Sides :
    \/ Runs(s)
    \/ sendClusterConfig(s)
    \/ SendIndex(s)
    \/ \E c \in Conns : AddConnection(s, c) \/ Refuse(s, c) \/ Close(s, c)

(* A connection that one side has added or refused is added or refused by  *)
(* the other: the exchange of hellos has a deadline of 20 seconds.         *)
HelloEnds(s) ==
  \E c \in Conns : /\ phase[Peer(s)][c] # "new"
                   /\ AddConnection(s, c) \/ Refuse(s, c)

(* AddConnection ends, the timer fires, post-lock actions are done one     *)
(* after the other, the dispatcher of every connection goes on and a       *)
(* closed connection is reported: each is a goroutine's next step or a     *)
(* timer of one second.                                                    *)
(* Every behaviour has finitely many steps, so one condition for all of    *)
(* them is as strong as one for each.  Nothing obliges connections to be   *)
(* closed or folders to change.                                            *)
Fairness == WF_vars(\E s \in Sides : Runs(s) \/ HelloEnds(s))

Spec == Init /\ [][Next]_vars /\ Fairness

-----------------------------------------------------------------------------
(* Properties.                                                             *)

TypeOK ==
  /\ phase \in [Sides -> [Conns -> Phases]]
  /\ started \in [Sides -> SUBSET Conns]
  /\ \A s \in Sides : /\ ids[s] \in Seq(Conns)
                      /\ IsInjective(ids[s])
                      /\ \A c \in Conns : c \in Range(ids[s])
                                          <=> phase[s][c] \in {"up", "closing"}
  /\ adding \in [Sides -> SUBSET Conns]
  /\ promoted \in [Sides -> Conns \union {None}]
  /\ timer \in [Sides -> BOOLEAN]
  /\ \A s \in Sides : post[s] \in Seq(Actions)
  /\ handler \in [Sides -> Conns \union {None}]
  /\ \A s \in Sides, c \in Conns : wire[s][c] \in Seq(Messages)
  /\ sends \in 0..MaxSends

Pending(s, c) == \E i \in 1..Len(post[s]) : post[s][i].conn = c

(* Whatever the order in which connections come and go, no promotion is    *)
(* forgotten: while the timer is not running, the primary connection is    *)
(* the promoted one, unless AddConnection is still busy with all there     *)
(* are; and every open connection is started, about to be, or one that     *)
(* AddConnection is busy with.                                             *)
PromotionNotLost ==
  \A s \in Sides :
    ids[s] # <<>> /\ ~timer[s]
      => /\ promoted[s] # ids[s][1]
              => \A c \in Conns : phase[s][c] \in {"up", "closing"} => c \in adding[s]
         /\ \A c \in Conns : phase[s][c] = "up" /\ c \notin started[s]
                               => Pending(s, c) \/ c \in adding[s]

(* The index handler of a side is on a connection that the peer still      *)
(* regards as its primary, or that the peer has closed: no ClusterConfig   *)
(* of a connection that was promoted and later demoted while open is ever  *)
(* applied.                                                                *)
HandlerOnPeersPrimary ==
  \A s \in Sides :
    handler[s] # None /\ phase[Peer(s)][handler[s]] = "up"
      => ids[Peer(s)][1] = handler[s]

(* A promotion of c by side s is under way: decided, or sent.              *)
Promoting(s, c) ==
  \/ \E i \in 1..Len(post[s]) : post[s][i] = [conn |-> c, cc |-> "primary"]
  \/ "primary" \in Range(wire[s][c])

(* A promotion takes effect: the peer's index handler moves to the         *)
(* promoted connection, unless that connection ends.  It is stated for the *)
(* promotions of side 1: nothing in the specification tells 1 from 2.      *)
PromotionTakesEffect ==
  \A c \in Conns :
    Promoting(1, c) ~> \/ handler[2] = c
                       \/ phase[1][c] # "up"
                       \/ phase[2][c] = "gone"

(* What AddConnection describes ("An initial index will be sent to the     *)
(* connected peer, thereafter index updates whenever the local folder      *)
(* changes"): once connections stop coming and going, a connected side has *)
(* an index handler on one of its connections.  It does not hold: see the  *)
(* README, section 5.                                                      *)
ConnectedHasHandler ==
  <>[](\A s \in Sides : ids[s] # <<>> => handler[s] \in Range(ids[s]))

(* handleIndex: "This should be impossible, as an index handler is         *)
(* registered when we send a cluster config, and that is what triggers     *)
(* index sending."  It is not: see the README, section 5.                  *)
IndexHasHandler ==
  \A s \in Sides, c \in Conns :
    Readable(s, c) /\ Message(s, c) = "index" => handler[s] = c
=============================================================================
