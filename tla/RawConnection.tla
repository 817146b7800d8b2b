---------------------------- MODULE RawConnection ----------------------------
(***************************************************************************)
(* One BEP connection (lib/protocol/protocol.go): the reader, dispatcher,  *)
(* writer and ping goroutines of a rawConnection, the callers of Request,  *)
(* Index and ClusterConfig, the goroutines that answer the peer's          *)
(* requests, and how all of them end when the connection is closed from    *)
(* any side.                                                               *)
(*                                                                         *)
(* The channels are unbuffered, so a hand-over is one step of both sides.  *)
(* A select that could go on has the closed channel as an alternative, and *)
(* whoever is parked when it closes is committed to that alternative: no   *)
(* hand-over happens afterwards.                                           *)
(***************************************************************************)
EXTENDS Naturals, FiniteSets

CONSTANTS
  Requesters,  \* goroutines that call Request, once each
  Handlers,    \* goroutines for requests of the peer, once each
  MaxIn,       \* bound: messages that the peer sends
  MaxCalls     \* bound: calls of ClusterConfig, Index, DownloadProgress, ping

ASSUME ConnectionAssumption ==
  MaxIn \in Nat /\ MaxCalls \in Nat

VARIABLES
  closed, netClosed,
  reader, disp, ready, writer,
  once,        \* closeOnce: how far internalClose has come
  spawned,     \* does a goroutine of Close, or pingReceiver, call internalClose?
  closer,      \* caller of Close -> where it is
  sendOnce,    \* sendCloseOnce: "no", "busy" or "done"
  rPc, rc, awaiting,   \* callers of Request
  hPc,         \* goroutines of handleRequest
  call,        \* what the model is sending: a ClusterConfig or another message
  ins, made,
  \* history: requests that reached the peer, what the peer has seen, calls of
  \* model.Closed, a send on a closed channel
  asked, wire, closedCalls, panicked

vars == <<closed, netClosed, reader, disp, ready, writer, once, spawned, closer,
          sendOnce, rPc, rc, awaiting, hPc, call, ins, made, asked, wire,
          closedCalls, panicked>>

life  == <<closed, netClosed, once, spawned>>
loops == <<reader, disp, ready, writer>>
clsr  == <<closer, sendOnce>>
outer == <<rPc, rc, awaiting>>
calls == <<hPc, call, made>>
hist  == <<ins, asked, wire, closedCalls, panicked>>

\* The goroutines that call Close: a handler in the dispatcher or the
\* dispatcher itself, and any other one.
Closers == {"dispatcher", "other"}

None == [type |-> "none"]

\* What the peer sends.  It answers only what it was asked, perhaps twice.
Incoming ==
  [type : {"cc", "index", "tunnel", "close"}] \cup
  [type : {"request"}, by : Handlers] \cup [type : {"response"}, by : asked]

Init ==
  /\ closed = FALSE /\ netClosed = FALSE /\ once = "no" /\ spawned = FALSE
  /\ reader = [pc |-> "off", msg |-> None] /\ disp = [pc |-> "off", msg |-> None]
  /\ ready = FALSE /\ writer = [pc |-> "off", msg |-> None]
  /\ closer = [p \in Closers |-> "out"] /\ sendOnce = "no"
  /\ rPc = [r \in Requesters |-> "idle"] /\ rc = [r \in Requesters |-> "none"]
  /\ awaiting = {} /\ hPc = [h \in Handlers |-> "idle"]
  /\ call = "none" /\ ins = 0 /\ made = 0
  /\ asked = {} /\ wire = "nothing" /\ closedCalls = 0 /\ panicked = FALSE

----------------------------------------------------------------------------
\* startStopMut is free unless internalClose is between its first step and the
\* call of the model.
Start ==
  /\ once \in {"no", "call", "done"} /\ disp.pc = "off" /\ ~closed
  /\ reader' = [reader EXCEPT !.pc = "read"]
  /\ disp' = [disp EXCEPT !.pc = "top"]
  /\ writer' = [writer EXCEPT !.pc = "first"]
  /\ UNCHANGED <<life, ready, clsr, outer, calls, hist>>

----------------------------------------------------------------------------
(***************************************************************************)
(* Reader and dispatcher.                                                  *)
(***************************************************************************)
ReadMessage(m) ==
  /\ reader.pc = "read" /\ ~netClosed /\ ins < MaxIn
  /\ m.type = "request" => hPc[m.by] = "idle" /\ disp.msg # m
  /\ reader' = [pc |-> "have", msg |-> m] /\ ins' = ins + 1
  /\ UNCHANGED <<life, disp, ready, writer, clsr, outer, calls, asked, wire,
                 closedCalls, panicked>>

ReadFails ==
  /\ reader.pc = "read"
  /\ reader' = [reader EXCEPT !.pc = "closing"]
  /\ UNCHANGED <<life, disp, ready, writer, clsr, outer, calls, hist>>

ReaderEnds ==
  /\ \/ reader.pc = "have" /\ closed
     \/ reader.pc = "closing" /\ once = "done"
  /\ reader' = [pc |-> "ended", msg |-> None]
  /\ UNCHANGED <<life, disp, ready, writer, clsr, outer, calls, hist>>

DispatcherReceives ==
  /\ reader.pc = "have" /\ disp.pc = "top" /\ ~closed
  /\ disp' = [pc |-> "got", msg |-> reader.msg]
  /\ reader' = [pc |-> "read", msg |-> None]
  /\ UNCHANGED <<life, ready, writer, clsr, outer, calls, hist>>

\* dispatcherLoop returns (dispatcherLoopStopped) and Close is called: closed, a
\* Close of the peer, a message out of order or an inconsistent one, an error of
\* a handler.
DispatcherStops ==
  /\ \/ disp.pc = "top" /\ closed
     \/ disp.pc = "got" /\ disp.msg.type \in {"close", "index", "request"}
     \/ disp.pc = "got" /\ disp.msg.type # "cc" /\ ~ready
     \/ disp.pc \in {"handle", "handled"} /\ closer["dispatcher"] = "out"
  /\ disp' = [pc |-> "stopped", msg |-> None]
  /\ closer' = [closer EXCEPT !["dispatcher"] = "enter"]
  /\ UNCHANGED <<life, reader, ready, writer, sendOnce, outer, calls, hist>>

DispatcherEnds ==
  /\ disp.pc = "stopped" /\ closer["dispatcher"] = "out"
  /\ disp' = [disp EXCEPT !.pc = "ended"]
  /\ UNCHANGED <<life, reader, ready, writer, clsr, outer, calls, hist>>

\* The calls of the model that the dispatcher makes itself, and their return.
\* ("handled": the handler has called Close.)
CallHandler ==
  /\ disp.pc = "got"
  /\ disp.msg.type = "cc" \/ (disp.msg.type = "index" /\ ready)
  /\ ready' = TRUE
  /\ disp' = [disp EXCEPT !.pc = "handle"]
  /\ UNCHANGED <<life, reader, writer, clsr, outer, calls, hist>>

DispatcherGoesOn ==
  /\ disp' = [pc |-> "top", msg |-> None]
  /\ UNCHANGED <<life, reader, ready, writer, clsr>>

HandlerReturns ==
  /\ disp.pc \in {"handle", "handled"} /\ closer["dispatcher"] = "out"
  /\ DispatcherGoesOn
  /\ UNCHANGED <<outer, calls, hist>>

HandleResponse ==
  /\ disp.pc = "got" /\ disp.msg.type = "response" /\ ready
  /\ LET r == disp.msg.by IN
     IF r \in awaiting
     THEN /\ awaiting' = awaiting \ {r}
          /\ rc' = [rc EXCEPT ![r] = "answer"]
          /\ panicked' = (panicked \/ rc[r] # "open")
     ELSE UNCHANGED <<awaiting, rc, panicked>>
  /\ DispatcherGoesOn
  /\ UNCHANGED <<rPc, calls, ins, asked, wire, closedCalls>>

\* A request gets a goroutine of its own.
StartHandler ==
  /\ disp.pc = "got" /\ disp.msg.type = "request" /\ ready
  /\ hPc' = [hPc EXCEPT ![disp.msg.by] = "model"]
  /\ DispatcherGoesOn
  /\ UNCHANGED <<outer, call, made, hist>>

\* Mutant of HandleTunnelData: nothing but the tunnel's reading ends the wait.
HandleTunnelDataOnly(read) ==
  /\ disp.pc = "got" /\ disp.msg.type = "tunnel" /\ ready
  /\ read /\ ~closed
  /\ DispatcherGoesOn
  /\ UNCHANGED <<outer, calls, hist>>

\* The tunnel reads what is handed over to it, or the connection is closed.
HandleTunnelData(read) ==
  /\ disp.pc = "got" /\ disp.msg.type = "tunnel" /\ ready
  /\ read = ~closed
  /\ DispatcherGoesOn
  /\ UNCHANGED <<outer, calls, hist>>

----------------------------------------------------------------------------
(***************************************************************************)
(* Callers of Request, the answers to the peer's requests, other messages. *)
(***************************************************************************)
RequestGoes(r, pc) == rPc' = [rPc EXCEPT ![r] = pc]

RequestBegins(r) ==
  /\ rPc[r] = "idle"
  /\ RequestGoes(r, IF closed THEN "returned" ELSE "register")
  /\ UNCHANGED <<life, loops, clsr, rc, awaiting, calls, hist>>

RequestRegisters(r) ==
  /\ rPc[r] = "register"
  /\ RequestGoes(r, "send")
  /\ rc' = [rc EXCEPT ![r] = "open"] /\ awaiting' = awaiting \cup {r}
  /\ UNCHANGED <<life, loops, clsr, calls, hist>>

\* send fails for a closed connection; Request gets an answer or a closed
\* channel.
RequestReturns(r) ==
  /\ \/ rPc[r] = "send" /\ closed
     \/ rPc[r] = "wait" /\ rc[r] # "open"
  /\ RequestGoes(r, "returned")
  /\ UNCHANGED <<life, loops, clsr, rc, awaiting, calls, hist>>

\* The context of the call ends; the entry in awaiting stays.
RequestCancelled(r) ==
  /\ rPc[r] \in {"send", "wait"}
  /\ RequestGoes(r, "returned")
  /\ UNCHANGED <<life, loops, clsr, rc, awaiting, calls, hist>>

\* model.Request has returned.
HandlerSends(h) ==
  /\ hPc[h] = "model"
  /\ hPc' = [hPc EXCEPT ![h] = "send"]
  /\ UNCHANGED <<life, loops, clsr, outer, call, made, hist>>

HandlerReleases(h) ==
  /\ hPc[h] = "send" /\ closed
  /\ hPc' = [hPc EXCEPT ![h] = "released"]
  /\ UNCHANGED <<life, loops, clsr, outer, call, made, hist>>

\* ClusterConfig, or Index, IndexUpdate, DownloadProgress or a ping.
CallSend(type) ==
  /\ call = "none" /\ made < MaxCalls
  /\ call' = type /\ made' = made + 1
  /\ UNCHANGED <<life, loops, clsr, outer, hPc, hist>>

CallReturnsClosed ==
  /\ closed /\ call # "none"
  /\ call' = "none"
  /\ UNCHANGED <<life, loops, clsr, outer, hPc, made, hist>>

----------------------------------------------------------------------------
(***************************************************************************)
(* The writer.                                                             *)
(***************************************************************************)
\* Which boxes the writer takes from: only a ClusterConfig or a Close at first,
\* and before each further message it looks for a Close.
MayTake(box) ==
  /\ ~closed
  /\ \/ writer.pc = "select"
     \/ writer.pc = "first" /\ box \in {"clusterConfigBox", "closeBox"}
     \/ writer.pc = "check" /\ box = "closeBox"

Take(box, m) ==
  /\ MayTake(box) /\ writer' = [pc |-> "write", msg |-> m]
  /\ UNCHANGED <<life, reader, disp, ready, hist>>

TakeCall ==
  /\ call # "none"
  /\ Take(IF call = "cc" THEN "clusterConfigBox" ELSE "outbox", [type |-> call])
  /\ call' = "none"
  /\ UNCHANGED <<clsr, outer, hPc, made>>

TakeRequest(r) ==
  /\ rPc[r] = "send" /\ Take("outbox", [type |-> "request", by |-> r])
  /\ RequestGoes(r, "wait")
  /\ UNCHANGED <<clsr, rc, awaiting, calls>>

TakeResponse(h) ==
  /\ hPc[h] = "send" /\ Take("outbox", [type |-> "response", by |-> h])
  /\ hPc' = [hPc EXCEPT ![h] = "wait"]
  /\ UNCHANGED <<clsr, outer, call, made>>

TakeClose(p) ==
  /\ closer[p] = "box" /\ Take("closeBox", [type |-> "close"])
  /\ closer' = [closer EXCEPT ![p] = "boxed"]
  /\ UNCHANGED <<sendOnce, outer, calls>>

WriterPolls ==
  /\ writer.pc = "check" /\ ~closed /\ \A p \in Closers : closer[p] # "box"
  /\ writer' = [writer EXCEPT !.pc = "select"]
  /\ UNCHANGED <<life, reader, disp, ready, clsr, outer, calls, hist>>

\* Mutant of AfterWrite: the writer goes on after the Close message.
AfterWriteGoesOn(m, ok) == IF ok THEN "check" ELSE "closing"

AfterWrite(m, ok) ==
  CASE m.type = "close" -> "ended"
    [] m.type # "close" /\ ok -> "check"
    [] m.type # "close" /\ ~ok -> "closing"

\* What the peer has seen: a ClusterConfig, or a Close, comes first, and
\* nothing comes after a Close.
Sees(w, type) ==
  CASE w \in {"nothing", "open"} /\ type = "close" -> "closed"
    [] type = "cc" /\ w = "nothing" -> "open"
    [] type # "close" /\ w = "open" -> "open"
    [] OTHER -> "disorder"

\* Writing ends well, or with an error; a handler that waits for it goes on and
\* releases its buffer either way.
WriteMessage(ok) ==
  LET m == writer.msg IN
  /\ writer.pc = "write" /\ (ok => ~netClosed)
  /\ writer' = [pc |-> AfterWrite(m, ok), msg |-> None]
  /\ hPc' = [h \in Handlers |-> IF m = [type |-> "response", by |-> h]
                                 THEN "released" ELSE hPc[h]]
  /\ wire' = IF ok THEN Sees(wire, m.type) ELSE wire
  /\ asked' = IF ok /\ m.type = "request" THEN asked \cup {m.by} ELSE asked
  /\ UNCHANGED <<life, reader, disp, ready, clsr, outer, call, made, ins,
                 closedCalls, panicked>>

WriterEnds ==
  /\ \/ closed /\ writer.pc \in {"first", "check", "select"}
     \/ writer.pc = "closing" /\ once = "done"
  /\ writer' = [writer EXCEPT !.pc = "ended"]
  /\ UNCHANGED <<life, reader, disp, ready, clsr, outer, calls, hist>>

----------------------------------------------------------------------------
(***************************************************************************)
(* Closing.                                                                *)
(***************************************************************************)
\* Close is called: at any time by another goroutine, even before Start, or by
\* a handler that the dispatcher is in.
CallClose(p) ==
  /\ closer[p] = "out"
  /\ IF p = "dispatcher"
     THEN disp.pc = "handle" /\ disp' = [disp EXCEPT !.pc = "handled"]
     ELSE ~spawned /\ UNCHANGED disp
  /\ closer' = [closer EXCEPT ![p] = "enter"]
  /\ UNCHANGED <<life, reader, ready, writer, sendOnce, outer, calls, hist>>

\* sendCloseOnce: the first one sends the message, the others wait for that.
CloseEnters(p) ==
  /\ closer[p] = "enter" /\ sendOnce = "no"
  /\ closer' = [closer EXCEPT ![p] = "box"] /\ sendOnce' = "busy"
  /\ UNCHANGED <<life, loops, outer, calls, hist>>

\* The message is out, CloseTimeout has passed or the connection is closed; or
\* another call has seen to the message.  A goroutine does the rest.
CloseReturns(p) ==
  /\ \/ closer[p] \in {"box", "boxed"}
     \/ closer[p] = "enter" /\ sendOnce = "done"
  /\ closer' = [closer EXCEPT ![p] = "out"]
  /\ sendOnce' = "done" /\ spawned' = TRUE
  /\ UNCHANGED <<closed, netClosed, once, loops, outer, calls, hist>>

PingReceiverTimesOut ==
  /\ disp.pc # "off" /\ ~closed /\ ~spawned
  /\ spawned' = TRUE
  /\ UNCHANGED <<closed, netClosed, once, loops, clsr, outer, calls, hist>>

InternalCloseCalled ==
  spawned \/ reader.pc = "closing" \/ writer.pc = "closing"

OnceGoes(from, to) ==
  /\ once = from /\ once' = to
  /\ UNCHANGED <<spawned, loops, clsr, rPc, calls, ins, asked, wire, panicked>>

CloseNet ==
  /\ InternalCloseCalled /\ OnceGoes("no", "net")
  /\ netClosed' = TRUE
  /\ UNCHANGED <<closed, rc, awaiting, closedCalls>>

CloseClosed ==
  /\ OnceGoes("net", "drain")
  /\ closed' = TRUE
  /\ UNCHANGED <<netClosed, rc, awaiting, closedCalls>>

\* Mutant of DrainAwaiting: the entries stay.
DrainAwaitingKeeps ==
  /\ OnceGoes("drain", "wait")
  /\ rc' = [r \in Requesters |-> IF r \in awaiting THEN "closed" ELSE rc[r]]
  /\ UNCHANGED <<closed, netClosed, awaiting, closedCalls>>

DrainAwaiting ==
  /\ OnceGoes("drain", "wait")
  /\ rc' = [r \in Requesters |-> IF r \in awaiting THEN "closed" ELSE rc[r]]
  /\ awaiting' = {}
  /\ UNCHANGED <<closed, netClosed, closedCalls>>

\* Mutant of AwaitDispatcher: the dispatcher is not waited for.
AwaitDispatcherNot ==
  OnceGoes("wait", "call") /\ UNCHANGED <<closed, netClosed, rc, awaiting, closedCalls>>

\* A dispatcher that was never started is not waited for.
AwaitDispatcher ==
  /\ disp.pc \in {"off", "stopped", "ended"}
  /\ OnceGoes("wait", "call") /\ UNCHANGED <<closed, netClosed, rc, awaiting, closedCalls>>

\* Mutant of CallClosed: without closeOnce the next caller starts over.
CallClosedAgain ==
  /\ OnceGoes("call", "no") /\ closedCalls' = closedCalls + 1
  /\ UNCHANGED <<closed, netClosed, rc, awaiting>>

CallClosed ==
  /\ OnceGoes("call", "done") /\ closedCalls' = closedCalls + 1
  /\ UNCHANGED <<closed, netClosed, rc, awaiting>>

----------------------------------------------------------------------------
\* What happens by itself: goroutines run, handlers of the model return, timers
\* fire.  The network, the peer and the tunnel's reader promise nothing, until
\* the underlying connection is closed.
Runs ==
  \/ Start \/ ReaderEnds \/ DispatcherReceives \/ DispatcherStops \/ DispatcherEnds
  \/ CallHandler \/ HandlerReturns \/ HandleResponse \/ StartHandler
  \/ (netClosed /\ ReadFails) \/ (netClosed /\ WriteMessage(FALSE))
  \/ HandleTunnelData(FALSE)
  \/ \E r \in Requesters : RequestRegisters(r) \/ RequestReturns(r) \/ TakeRequest(r)
  \/ \E h \in Handlers : HandlerSends(h) \/ HandlerReleases(h) \/ TakeResponse(h)
  \/ CallReturnsClosed \/ TakeCall
  \/ WriterPolls \/ WriterEnds
  \/ \E p \in Closers : CloseEnters(p) \/ TakeClose(p) \/ CloseReturns(p)
  \/ CloseNet \/ CloseClosed \/ DrainAwaiting \/ AwaitDispatcher \/ CallClosed

Environment ==
  \/ \E m \in Incoming : ReadMessage(m)
  \/ ReadFails \/ HandleTunnelData(TRUE) \/ PingReceiverTimesOut
  \/ \E ok \in BOOLEAN : WriteMessage(ok)
  \/ \E r \in Requesters : RequestBegins(r) \/ RequestCancelled(r)
  \/ \E type \in {"cc", "index"} : CallSend(type)
  \/ \E p \in Closers : CallClose(p)

Next == Runs \/ Environment

Spec == Init /\ [][Next]_vars /\ WF_vars(Runs)

----------------------------------------------------------------------------
TypeOK ==
  /\ {closed, netClosed, ready, spawned, panicked} \subseteq BOOLEAN
  /\ reader.pc \in {"off", "read", "have", "closing", "ended"}
  /\ disp.pc \in {"off", "top", "got", "handle", "handled", "stopped", "ended"}
  /\ writer.pc \in {"off", "first", "check", "select", "write", "closing", "ended"}
  /\ once \in {"no", "net", "drain", "wait", "call", "done"}
  /\ closer \in [Closers -> {"out", "enter", "box", "boxed"}]
  /\ sendOnce \in {"no", "busy", "done"}
  /\ rPc \in [Requesters -> {"idle", "register", "send", "wait", "returned"}]
  /\ rc \in [Requesters -> {"none", "open", "answer", "closed"}]
  /\ awaiting \in SUBSET Requesters /\ asked \in SUBSET Requesters
  /\ hPc \in [Handlers -> {"idle", "model", "send", "wait", "released"}]
  /\ call \in {"none", "cc", "index"}
  /\ ins \in 0..MaxIn /\ made \in 0..MaxCalls
  /\ wire \in {"nothing", "open", "closed", "disorder"} /\ closedCalls \in 0..1

\* After model.Closed the dispatcher makes no call of the model any more: Closed
\* forgets the connection, and an index that is applied afterwards would be
\* applied for a device that is not connected.
ClosedIsLast == closedCalls > 0 => disp.pc \in {"off", "stopped", "ended"}

\* The peer gets a ClusterConfig (or a Close) before anything else, as its
\* dispatcher demands, and nothing after a Close.
WireOrder == wire # "disorder"

\* The channel of a request is written to at most once and closed at most once,
\* although an answer and the end of the connection may come at the same time.
NoSendOnClosedChannel == ~panicked

\* Once somebody wants the connection closed, every goroutine that works for it
\* ends: calls of Request return, the buffers of answers are released and Closed
\* is called, whoever closes it, a handler in the dispatcher itself included, and
\* whatever the peer, the network and the tunnel's reader fail to do.
AllEnded ==
  /\ closedCalls = 1
  /\ {reader.pc, disp.pc, writer.pc} \subseteq {"off", "ended"}
  /\ \A r \in Requesters : rPc[r] \in {"idle", "returned"}
  /\ \A h \in Handlers : hPc[h] \in {"idle", "released"}
  /\ call = "none"

CloseEndsAll == InternalCloseCalled ~> AllEnded
=============================================================================
