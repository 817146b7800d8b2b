------------------------- MODULE RawConnectionProofs -------------------------
(***************************************************************************)
(* For every number of callers, handlers, messages and calls: a connection *)
(* speaks the protocol in order, ends its calls of the model before it     *)
(* reports itself closed, and never writes to a channel it has closed.     *)
(***************************************************************************)
EXTENDS RawConnection, TLAPS

(***************************************************************************)
(* The inductive invariant, by the goroutines it is about.                 *)
(***************************************************************************)
IncomingOK(m) ==
  /\ m.type \in {"none", "cc", "index", "tunnel", "close", "request", "response"}
  /\ m.type = "request" => m.by \in Handlers
  /\ m.type = "response" => m.by \in Requesters

OutgoingOK(m) ==
  /\ m.type \in {"none", "cc", "index", "close", "request", "response"}
  /\ m.type = "request" => m.by \in Requesters

ReaderOK ==
  /\ reader = [pc |-> reader.pc, msg |-> reader.msg]
  /\ reader.pc \in {"off", "read", "have", "closing", "ended"}
  /\ IncomingOK(reader.msg)

DispOK ==
  /\ disp = [pc |-> disp.pc, msg |-> disp.msg]
  /\ disp.pc \in {"off", "top", "got", "handle", "handled", "stopped", "ended"}
  /\ IncomingOK(disp.msg) /\ ready \in BOOLEAN

WriterOK ==
  /\ writer = [pc |-> writer.pc, msg |-> writer.msg]
  /\ writer.pc \in {"off", "first", "check", "select", "write", "closing", "ended"}
  /\ OutgoingOK(writer.msg)

(* The three loops are started together.                                   *)
StartOK == disp.pc = "off" => writer.pc = "off"

LifeOK ==
  /\ closed \in BOOLEAN /\ netClosed \in BOOLEAN /\ spawned \in BOOLEAN
  /\ once \in {"no", "net", "drain", "wait", "call", "done"}
  /\ closed <=> once \in {"drain", "wait", "call", "done"}

CloserOK ==
  /\ closer \in [Closers -> {"out", "enter", "box", "boxed"}]
  /\ sendOnce \in {"no", "busy", "done"}

CallsOK ==
  /\ hPc \in [Handlers -> {"idle", "model", "send", "wait", "released"}]
  /\ call \in {"none", "cc", "index"} /\ made \in 0..MaxCalls

HistOK == ins \in 0..MaxIn /\ asked \in SUBSET Requesters

(* Whoever is registered has a channel that nobody has written to or       *)
(* closed.                                                                 *)
ChannelsOK ==
  /\ rPc \in [Requesters -> {"idle", "register", "send", "wait", "returned"}]
  /\ rc \in [Requesters -> {"none", "open", "answer", "closed"}]
  /\ awaiting \in SUBSET Requesters
  /\ \A r \in awaiting : rc[r] = "open"
  /\ panicked = FALSE

(* closeOnce: past the wait for the dispatcher, the dispatcher makes no     *)
(* call, and Closed is called in the last step alone.                      *)
ClosingOK ==
  /\ once \in {"call", "done"} => disp.pc \in {"off", "stopped", "ended"}
  /\ closedCalls = IF once = "done" THEN 1 ELSE 0

(* What the peer has seen, by where the writer is.                         *)
WireOK ==
  /\ wire \in {"nothing", "open", "closed"}
  /\ writer.pc \in {"off", "first"} => wire = "nothing"
  /\ writer.pc \in {"check", "select"} => wire = "open"
  /\ writer.pc = "write" =>
       \/ wire = "nothing" /\ writer.msg.type \in {"cc", "close"}
       \/ wire = "open" /\ writer.msg.type # "none"

IInv ==
  /\ ReaderOK /\ DispOK /\ WriterOK /\ StartOK /\ LifeOK /\ CloserOK
  /\ CallsOK /\ HistOK /\ ChannelsOK /\ ClosingOK /\ WireOK

----------------------------------------------------------------------------
LEMMA InitOK == Init => IInv
<1> SUFFICES ASSUME Init PROVE IInv
  OBVIOUS
<1>1. ReaderOK /\ DispOK /\ WriterOK
  BY DEF Init, ReaderOK, DispOK, WriterOK, IncomingOK, OutgoingOK, None
<1>2. StartOK /\ LifeOK /\ CloserOK /\ ClosingOK /\ WireOK
  BY DEF Init, StartOK, LifeOK, CloserOK, ClosingOK, WireOK
<1>3. CallsOK /\ HistOK /\ ChannelsOK
  BY ConnectionAssumption DEF Init, CallsOK, HistOK, ChannelsOK
<1> QED
  BY <1>1, <1>2, <1>3 DEF IInv

(* What is left alone keeps its part of the invariant.                     *)
LEMMA Frames ==
  /\ ReaderOK /\ UNCHANGED reader => ReaderOK'
  /\ DispOK /\ UNCHANGED <<disp, ready>> => DispOK'
  /\ WriterOK /\ UNCHANGED writer => WriterOK'
  /\ StartOK /\ UNCHANGED <<disp, writer>> => StartOK'
  /\ LifeOK /\ UNCHANGED life => LifeOK'
  /\ CloserOK /\ UNCHANGED clsr => CloserOK'
  /\ CallsOK /\ UNCHANGED calls => CallsOK'
  /\ HistOK /\ UNCHANGED <<ins, asked>> => HistOK'
  /\ ChannelsOK /\ UNCHANGED <<outer, panicked>> => ChannelsOK'
  /\ ClosingOK /\ UNCHANGED <<once, disp, closedCalls>> => ClosingOK'
  /\ WireOK /\ UNCHANGED <<writer, wire>> => WireOK'
BY DEF ReaderOK, DispOK, WriterOK, StartOK, LifeOK, CloserOK, CallsOK, HistOK,
       ChannelsOK, ClosingOK, WireOK, life, clsr, calls, outer

----------------------------------------------------------------------------
(***************************************************************************)
(* Start, reader and dispatcher.                                           *)
(***************************************************************************)
LEMMA StartStep == IInv /\ Start => IInv'
<1> SUFFICES ASSUME IInv, Start PROVE IInv'
  OBVIOUS
<1>1. once = "no" /\ writer.pc = "off"
  BY DEF IInv, Start, LifeOK, StartOK
<1>2. ReaderOK' /\ DispOK' /\ WriterOK' /\ StartOK' /\ ClosingOK' /\ WireOK'
  BY <1>1 DEF IInv, Start, ReaderOK, DispOK, WriterOK, StartOK, ClosingOK, WireOK,
              life, hist
<1> QED
  BY <1>2, Frames DEF IInv, Start, life, hist

LEMMA ReaderStep ==
  ASSUME IInv,
         (\E m \in Incoming : ReadMessage(m)) \/ ReadFails \/ ReaderEnds
  PROVE  IInv'
<1>1. ASSUME NEW m \in Incoming, ReadMessage(m) PROVE IInv'
  <2>1. IncomingOK(m)
    BY DEF IInv, HistOK, Incoming, IncomingOK
  <2>2. ReaderOK' /\ HistOK'
    BY <1>1, <2>1, ConnectionAssumption DEF IInv, ReadMessage, ReaderOK, HistOK
  <2> QED
    BY <1>1, <2>2, Frames DEF IInv, ReadMessage, life
<1>2. CASE ReadFails \/ ReaderEnds
  <2>1. ReaderOK'
    BY <1>2 DEF IInv, ReadFails, ReaderEnds, ReaderOK, IncomingOK, None
  <2> QED
    BY <1>2, <2>1, Frames DEF IInv, ReadFails, ReaderEnds, life, hist
<1> QED
  BY <1>1, <1>2

LEMMA DispatcherStep ==
  ASSUME IInv,
         DispatcherReceives \/ DispatcherStops \/ DispatcherEnds \/ CallHandler
  PROVE  IInv'
<1>1. CASE DispatcherReceives
  <2>1. once \notin {"call", "done"}
    BY <1>1 DEF IInv, DispatcherReceives, LifeOK
  <2>2. ReaderOK' /\ DispOK' /\ StartOK' /\ ClosingOK'
    BY <1>1, <2>1 DEF IInv, DispatcherReceives, ReaderOK, DispOK, StartOK, ClosingOK,
                      IncomingOK, None, life, hist
  <2> QED
    BY <1>1, <2>2, Frames DEF IInv, DispatcherReceives, life, hist
<1>2. CASE DispatcherStops
  <2>1. DispOK' /\ StartOK' /\ ClosingOK'
    BY <1>2 DEF IInv, DispatcherStops, DispOK, StartOK, ClosingOK, IncomingOK, None,
                life, hist
  <2>2. CloserOK'
    BY <1>2 DEF IInv, DispatcherStops, CloserOK
  <2> QED
    BY <1>2, <2>1, <2>2, Frames DEF IInv, DispatcherStops, life, hist
<1>3. CASE DispatcherEnds
  <2>1. DispOK' /\ StartOK' /\ ClosingOK'
    BY <1>3 DEF IInv, DispatcherEnds, DispOK, StartOK, ClosingOK, life, hist
  <2> QED
    BY <1>3, <2>1, Frames DEF IInv, DispatcherEnds, life, hist
<1>4. CASE CallHandler
  <2>1. DispOK' /\ StartOK' /\ ClosingOK'
    BY <1>4 DEF IInv, CallHandler, DispOK, StartOK, ClosingOK, life, hist
  <2> QED
    BY <1>4, <2>1, Frames DEF IInv, CallHandler, life, hist
<1> QED
  BY <1>1, <1>2, <1>3, <1>4

(* The dispatcher goes on only from within a call, never once Closed is    *)
(* about to be called.                                                     *)
LEMMA GoesOn ==
  ASSUME IInv, disp.pc \in {"got", "handle", "handled"}, DispatcherGoesOn
  PROVE  /\ DispOK' /\ StartOK' /\ ReaderOK' /\ WriterOK' /\ LifeOK' /\ CloserOK'
         /\ UNCHANGED closedCalls => ClosingOK'
         /\ UNCHANGED wire => WireOK'
<1>1. DispOK' /\ StartOK' /\ (UNCHANGED closedCalls => ClosingOK')
  BY DEF IInv, DispatcherGoesOn, DispOK, StartOK, ClosingOK, IncomingOK, None, life
<1> QED
  BY <1>1, Frames DEF IInv, DispatcherGoesOn

LEMMA HandleStep ==
  ASSUME IInv,
         \/ HandlerReturns \/ HandleResponse \/ StartHandler
         \/ \E read \in BOOLEAN : HandleTunnelData(read)
  PROVE  IInv'
<1>1. CASE HandlerReturns
  BY <1>1, GoesOn, Frames DEF IInv, HandlerReturns, hist
<1>2. CASE HandleResponse
  <2>1. disp.msg.by \in Requesters
    BY <1>2 DEF IInv, HandleResponse, DispOK, IncomingOK
  <2>2. ASSUME disp.msg.by \in awaiting PROVE ChannelsOK'
    <3>1. rc[disp.msg.by] = "open" /\ panicked = FALSE
      BY <2>2 DEF IInv, ChannelsOK
    <3>2. panicked' = (panicked \/ rc[disp.msg.by] # "open")
      BY <1>2, <2>2, Zenon DEF HandleResponse
    <3>3. panicked' = FALSE
      BY <3>1, <3>2, Zenon
    <3>4. /\ awaiting' = awaiting \ {disp.msg.by}
          /\ rc' = [rc EXCEPT ![disp.msg.by] = "answer"]
          /\ UNCHANGED rPc
      BY <1>2, <2>2, Zenon DEF HandleResponse
    <3> QED
      BY <2>1, <3>3, <3>4 DEF IInv, ChannelsOK
  <2>3. ASSUME disp.msg.by \notin awaiting PROVE ChannelsOK'
    BY <1>2, <2>3, Frames DEF IInv, HandleResponse, outer
  <2>4. ChannelsOK'
    BY <2>2, <2>3
  <2> QED
    BY <1>2, <2>4, GoesOn, Frames DEF IInv, HandleResponse
<1>3. CASE StartHandler
  <2>1. CallsOK'
    BY <1>3 DEF IInv, StartHandler, CallsOK, DispOK, IncomingOK
  <2> QED
    BY <1>3, <2>1, GoesOn, Frames DEF IInv, StartHandler, hist
<1>4. ASSUME NEW read \in BOOLEAN, HandleTunnelData(read) PROVE IInv'
  BY <1>4, GoesOn, Frames DEF IInv, HandleTunnelData, hist
<1> QED
  BY <1>1, <1>2, <1>3, <1>4

----------------------------------------------------------------------------
(***************************************************************************)
(* Callers and handlers.                                                   *)
(***************************************************************************)
LEMMA CallerStep ==
  ASSUME IInv, NEW r \in Requesters,
         \/ RequestBegins(r) \/ RequestRegisters(r)
         \/ RequestReturns(r) \/ RequestCancelled(r)
  PROVE  IInv'
<1>1. /\ UNCHANGED <<life, loops, clsr, calls, hist>>
      /\ \E pc \in {"register", "send", "returned"} : rPc' = [rPc EXCEPT ![r] = pc]
      /\ \/ UNCHANGED <<rc, awaiting>>
         \/ rc' = [rc EXCEPT ![r] = "open"] /\ awaiting' = awaiting \cup {r}
  BY DEF RequestBegins, RequestRegisters, RequestReturns, RequestCancelled,
         RequestGoes
<1>2. ChannelsOK'
  BY <1>1 DEF IInv, ChannelsOK, hist
<1> QED
  BY <1>1, <1>2, Frames DEF IInv, life, loops, hist

LEMMA HandlerStep ==
  ASSUME IInv, NEW h \in Handlers, HandlerSends(h) \/ HandlerReleases(h)
  PROVE  IInv'
<1>1. CallsOK'
  BY DEF IInv, HandlerSends, HandlerReleases, CallsOK
<1> QED
  BY <1>1, Frames DEF IInv, HandlerSends, HandlerReleases, life, loops, hist

LEMMA CallStep ==
  ASSUME IInv,
         (\E type \in {"cc", "index"} : CallSend(type)) \/ CallReturnsClosed
  PROVE  IInv'
<1>1. CallsOK'
  BY ConnectionAssumption DEF IInv, CallSend, CallReturnsClosed, CallsOK
<1> QED
  BY <1>1, Frames DEF IInv, CallSend, CallReturnsClosed, life, loops, hist

----------------------------------------------------------------------------
(***************************************************************************)
(* The writer.  Only a ClusterConfig or a Close is taken before the first  *)
(* message is out.                                                         *)
(***************************************************************************)
LEMMA TakeKeeps ==
  ASSUME IInv, NEW box, NEW m, OutgoingOK(m), m.type # "none",
         box \in {"clusterConfigBox", "closeBox"} => m.type \in {"cc", "close"},
         Take(box, m)
  PROVE  /\ WriterOK' /\ WireOK' /\ StartOK'
         /\ ReaderOK' /\ DispOK' /\ LifeOK' /\ HistOK' /\ ClosingOK'
         /\ UNCHANGED panicked
<1>1. WriterOK' /\ WireOK' /\ StartOK'
  BY DEF IInv, Take, MayTake, WriterOK, WireOK, StartOK, hist
<1> QED
  BY <1>1, Frames DEF IInv, Take, life, hist

LEMMA TakeStep ==
  ASSUME IInv,
         \/ TakeCall \/ \E r \in Requesters : TakeRequest(r)
         \/ \E h \in Handlers : TakeResponse(h)
         \/ \E p \in Closers : TakeClose(p)
  PROVE  IInv'
<1>1. CASE TakeCall
  <2>1. OutgoingOK([type |-> call]) /\ call # "none"
        /\ (call = "cc" \/ call = "index")
    BY <1>1 DEF IInv, TakeCall, CallsOK, OutgoingOK
  <2>2. PICK box \in {"clusterConfigBox", "outbox"} :
          /\ Take(box, [type |-> call])
          /\ box = "clusterConfigBox" => call = "cc"
    BY <1>1 DEF TakeCall
  <2>3. /\ WriterOK' /\ WireOK' /\ StartOK' /\ ReaderOK' /\ DispOK' /\ LifeOK'
        /\ HistOK' /\ ClosingOK' /\ UNCHANGED panicked
    BY <2>1, <2>2, TakeKeeps
  <2>4. CallsOK'
    BY <1>1 DEF IInv, TakeCall, CallsOK
  <2> QED
    BY <1>1, <2>3, <2>4, Frames DEF IInv, TakeCall
<1>2. ASSUME NEW r \in Requesters, TakeRequest(r) PROVE IInv'
  <2>1. OutgoingOK([type |-> "request", by |-> r])
    BY DEF OutgoingOK
  <2>2. /\ WriterOK' /\ WireOK' /\ StartOK' /\ ReaderOK' /\ DispOK' /\ LifeOK'
        /\ HistOK' /\ ClosingOK' /\ UNCHANGED panicked
    BY <1>2, <2>1, TakeKeeps DEF TakeRequest
  <2>3. ChannelsOK'
    BY <1>2, <2>2 DEF IInv, TakeRequest, RequestGoes, ChannelsOK
  <2> QED
    BY <1>2, <2>2, <2>3, Frames DEF IInv, TakeRequest
<1>3. ASSUME NEW h \in Handlers, TakeResponse(h) PROVE IInv'
  <2>1. OutgoingOK([type |-> "response", by |-> h])
    BY DEF OutgoingOK
  <2>2. /\ WriterOK' /\ WireOK' /\ StartOK' /\ ReaderOK' /\ DispOK' /\ LifeOK'
        /\ HistOK' /\ ClosingOK' /\ UNCHANGED panicked
    BY <1>3, <2>1, TakeKeeps DEF TakeResponse
  <2>3. CallsOK'
    BY <1>3 DEF IInv, TakeResponse, CallsOK
  <2> QED
    BY <1>3, <2>2, <2>3, Frames DEF IInv, TakeResponse
<1>4. ASSUME NEW p \in Closers, TakeClose(p) PROVE IInv'
  <2>1. OutgoingOK([type |-> "close"])
    BY DEF OutgoingOK
  <2>2. /\ WriterOK' /\ WireOK' /\ StartOK' /\ ReaderOK' /\ DispOK' /\ LifeOK'
        /\ HistOK' /\ ClosingOK' /\ UNCHANGED panicked
    BY <1>4, <2>1, TakeKeeps DEF TakeClose
  <2>3. CloserOK'
    BY <1>4 DEF IInv, TakeClose, CloserOK
  <2> QED
    BY <1>4, <2>2, <2>3, Frames DEF IInv, TakeClose
<1> QED
  BY <1>1, <1>2, <1>3, <1>4

LEMMA WriterStep ==
  ASSUME IInv,
         WriterPolls \/ WriterEnds \/ \E ok \in BOOLEAN : WriteMessage(ok)
  PROVE  IInv'
<1>1. CASE WriterPolls \/ WriterEnds
  <2>1. WriterOK' /\ StartOK' /\ WireOK'
    BY <1>1 DEF IInv, WriterPolls, WriterEnds, WriterOK, StartOK, WireOK, hist
  <2> QED
    BY <1>1, <2>1, Frames DEF IInv, WriterPolls, WriterEnds, life, hist
<1>2. ASSUME NEW ok \in BOOLEAN, WriteMessage(ok) PROVE IInv'
  <2> DEFINE m == writer.msg
  <2>1. /\ m.type \in {"cc", "index", "close", "request", "response"}
        /\ wire = "nothing" => m.type \in {"cc", "close"}
        /\ wire \in {"nothing", "open"}
    BY <1>2 DEF IInv, WriteMessage, WireOK, WriterOK, OutgoingOK
  <2>2. /\ AfterWrite(m, ok) \in {"check", "closing", "ended"}
        /\ AfterWrite(m, ok) = "check" => m.type # "close" /\ ok
    BY <2>1 DEF AfterWrite
  <2>3. Sees(wire, m.type) = IF m.type = "close" THEN "closed" ELSE "open"
    BY <2>1 DEF Sees
  <2>4. WriterOK' /\ StartOK' /\ WireOK'
    BY <1>2, <2>1, <2>2, <2>3
       DEF IInv, WriteMessage, WriterOK, StartOK, WireOK, OutgoingOK, None
  <2>5. CallsOK'
    BY <1>2 DEF IInv, WriteMessage, CallsOK
  <2>6. HistOK'
    BY <1>2, <2>1 DEF IInv, WriteMessage, HistOK, WriterOK, OutgoingOK
  <2> QED
    BY <1>2, <2>4, <2>5, <2>6, Frames DEF IInv, WriteMessage, life, outer
<1> QED
  BY <1>1, <1>2

----------------------------------------------------------------------------
(***************************************************************************)
(* Closing.                                                                *)
(***************************************************************************)
LEMMA CloserStep ==
  ASSUME IInv, NEW p \in Closers,
         CallClose(p) \/ CloseEnters(p) \/ CloseReturns(p)
  PROVE  IInv'
<1>1. CASE CallClose(p)
  <2>1. CloserOK'
    BY <1>1 DEF IInv, CallClose, CloserOK
  <2>2. DispOK' /\ StartOK' /\ ClosingOK'
    BY <1>1 DEF IInv, CallClose, DispOK, StartOK, ClosingOK, life, hist
  <2> QED
    BY <1>1, <2>1, <2>2, Frames DEF IInv, CallClose, life, hist
<1>2. CASE CloseEnters(p)
  <2>1. CloserOK'
    BY <1>2 DEF IInv, CloseEnters, CloserOK
  <2> QED
    BY <1>2, <2>1, Frames DEF IInv, CloseEnters, life, loops, hist
<1>3. CASE CloseReturns(p)
  <2>1. CloserOK' /\ LifeOK'
    BY <1>3 DEF IInv, CloseReturns, CloserOK, LifeOK
  <2> QED
    BY <1>3, <2>1, Frames DEF IInv, CloseReturns, loops, hist
<1> QED
  BY <1>1, <1>2, <1>3

LEMMA PingStep == IInv /\ PingReceiverTimesOut => IInv'
<1> SUFFICES ASSUME IInv, PingReceiverTimesOut PROVE IInv'
  OBVIOUS
<1>1. LifeOK'
  BY DEF IInv, PingReceiverTimesOut, LifeOK
<1> QED
  BY <1>1, Frames DEF IInv, PingReceiverTimesOut, loops, hist

(* The body of closeOnce, step by step.                                    *)
LEMMA OnceStep ==
  ASSUME IInv,
         CloseNet \/ CloseClosed \/ DrainAwaiting \/ AwaitDispatcher \/ CallClosed
  PROVE  IInv'
<1>1. UNCHANGED <<spawned, loops, clsr, rPc, calls, ins, asked, wire, panicked>>
  BY DEF CloseNet, CloseClosed, DrainAwaiting, AwaitDispatcher, CallClosed, OnceGoes
<1>2. LifeOK'
  <2>1. CASE CloseNet
    BY <2>1 DEF IInv, CloseNet, OnceGoes, LifeOK
  <2>2. CASE CloseClosed
    BY <2>2 DEF IInv, CloseClosed, OnceGoes, LifeOK
  <2>3. CASE DrainAwaiting
    BY <2>3 DEF IInv, DrainAwaiting, OnceGoes, LifeOK
  <2>4. CASE AwaitDispatcher
    BY <2>4 DEF IInv, AwaitDispatcher, OnceGoes, LifeOK
  <2>5. CASE CallClosed
    BY <2>5 DEF IInv, CallClosed, OnceGoes, LifeOK
  <2> QED
    BY <2>1, <2>2, <2>3, <2>4, <2>5
<1>3. ClosingOK'
  BY <1>1 DEF IInv, CloseNet, CloseClosed, DrainAwaiting, AwaitDispatcher,
              CallClosed, OnceGoes, ClosingOK, loops
<1>4. ChannelsOK'
  <2>1. CASE UNCHANGED <<rc, awaiting>>
    BY <1>1, <2>1, Frames DEF IInv, outer
  <2>2. CASE DrainAwaiting
    BY <1>1, <2>2 DEF IInv, DrainAwaiting, ChannelsOK
  <2> QED
    BY <2>1, <2>2 DEF CloseNet, CloseClosed, AwaitDispatcher, CallClosed
<1> QED
  BY <1>1, <1>2, <1>3, <1>4, Frames DEF IInv, loops

----------------------------------------------------------------------------
LEMMA StutterStep == IInv /\ UNCHANGED vars => IInv'
BY Frames DEF IInv, vars, life, clsr, calls, outer

LEMMA StepOK == IInv /\ [Next]_vars => IInv'
<1> SUFFICES ASSUME IInv, [Next]_vars PROVE IInv'
  OBVIOUS
<1>1. CASE Runs
  BY <1>1, StartStep, ReaderStep, DispatcherStep, HandleStep, CallerStep,
     HandlerStep, CallStep, TakeStep, WriterStep, CloserStep, OnceStep DEF Runs
<1>2. CASE Environment
  BY <1>2, ReaderStep, HandleStep, PingStep, WriterStep, CallerStep, CallStep,
     CloserStep DEF Environment
<1> QED
  BY <1>1, <1>2, StutterStep DEF Next

LEMMA Inductive == Spec => []IInv
BY InitOK, StepOK, PTL DEF Spec

----------------------------------------------------------------------------
(* Type correctness of the connection's goroutines and calls, with Closed  *)
(* called at most once, as closeOnce promises.                             *)
THEOREM TypeCorrect == Spec => []TypeOK
<1>1. IInv => TypeOK
  <2> SUFFICES ASSUME IInv PROVE TypeOK
    OBVIOUS
  <2>1. {closed, netClosed, ready, spawned, panicked} \subseteq BOOLEAN
    BY DEF IInv, LifeOK, DispOK, ChannelsOK
  <2>2. /\ reader.pc \in {"off", "read", "have", "closing", "ended"}
        /\ disp.pc \in {"off", "top", "got", "handle", "handled", "stopped", "ended"}
        /\ writer.pc \in {"off", "first", "check", "select", "write", "closing", "ended"}
    BY DEF IInv, ReaderOK, DispOK, WriterOK
  <2>3. closedCalls \in 0..1 /\ wire \in {"nothing", "open", "closed", "disorder"}
    BY DEF IInv, ClosingOK, WireOK
  <2> QED
    BY <2>1, <2>2, <2>3, Zenon
       DEF IInv, TypeOK, LifeOK, CloserOK, CallsOK, HistOK, ChannelsOK
<1> QED
  BY <1>1, Inductive, PTL

(* internalClose calls model.Closed only after dispatcherLoopStopped: no    *)
(* call of the model by the dispatcher follows or overlaps it, whoever     *)
(* closes the connection and whenever, before Start included.              *)
THEOREM ClosedComesLast == Spec => []ClosedIsLast
<1>1. IInv => ClosedIsLast
  BY DEF IInv, ClosingOK, ClosedIsLast
<1> QED
  BY <1>1, Inductive, PTL

(* writerLoop: the peer gets a ClusterConfig or a Close first, and nothing *)
(* after a Close, however many goroutines send and close at the same time. *)
THEOREM WireInOrder == Spec => []WireOrder
<1>1. IInv => WireOrder
  BY DEF IInv, WireOK, WireOrder
<1> QED
  BY <1>1, Inductive, PTL

(* handleResponse and internalClose share awaiting: neither writes to a     *)
(* channel the other has written to or closed.                             *)
THEOREM ChannelsWrittenOnce == Spec => []NoSendOnClosedChannel
<1>1. IInv => NoSendOnClosedChannel
  BY DEF IInv, ChannelsOK, NoSendOnClosedChannel
<1> QED
  BY <1>1, Inductive, PTL
=============================================================================
