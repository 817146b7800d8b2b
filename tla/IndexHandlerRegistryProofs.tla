--------------------- MODULE IndexHandlerRegistryProofs ---------------------
(***************************************************************************)
(* For any number of configuration changes and ClusterConfigs, in any      *)
(* order: no start info is lost, none outlives a handler, and a handler is *)
(* never paused twice.                                                     *)
(***************************************************************************)
EXTENDS IndexHandlerRegistry, TLAPS

(***************************************************************************)
(* What the two actors may still have to do.  The committer makes one call *)
(* for what it has applied; the dispatcher ends with AddIndexInfo if the   *)
(* peer offers the folder and it is not ignored.                           *)
(***************************************************************************)
CommitterOK ==
  /\ todo["committer"] \in {<<>>, <<"Remove">>, <<"RegisterPaused">>,
                            <<"RegisterRunning">>}
  /\ todo["committer"] = <<"Remove">> => ~Shared(applied)
  /\ todo["committer"] = <<"RegisterPaused">> => applied = "paused" /\ ~paused
  /\ todo["committer"] = <<"RegisterRunning">> => Running(applied)
  /\ cfg # applied => todo["committer"] = <<>>

DispatcherOK ==
  /\ todo["dispatcher"] \in {<<>>, <<"Remove">>, <<"AddIndexInfo">>,
                             <<"Remove", "AddIndexInfo">>}
  /\ offered = "yes" => todo["dispatcher"] # <<"Remove">>
  /\ offered = "yes" /\ todo["dispatcher"] = <<>> => hPc # "none" \/ startInfo

(* The registry's view of the folder, once the committer has made its call. *)
FolderStateOK ==
  todo["committer"] = <<>> =>
    /\ Running(applied) => folderState
    /\ applied \in {"none", "unshared"} => ~paused

(* A folder that runs has no start info left and no paused handler.        *)
HandlerOK ==
  /\ paused => ~folderState /\ hPc # "none"
  /\ startInfo => ~folderState /\ hPc = "none"
  /\ hPc = "none" => ~done /\ ~told

(* Only the one who holds the mutex has a handler that is being stopped.   *)
MutexOK ==
  /\ done => mut # "free"
  /\ mut # "free" => todo[mut] # <<>> /\ MustStop(Head(todo[mut]))

TypesOK ==
  /\ cfg \in Configs /\ applied \in Configs /\ ignored \in BOOLEAN
  /\ DOMAIN todo = Actors /\ todo = [a \in Actors |-> todo[a]]
  /\ mut \in Actors \cup {"free"}
  /\ folderState \in BOOLEAN /\ startInfo \in BOOLEAN
  /\ hPc \in {"none", "look", "looked", "waiting", "woken", "send", "stopped"}
  /\ paused \in BOOLEAN /\ done \in BOOLEAN /\ told \in BOOLEAN
  /\ offered \in {"no", "ignored", "yes"} /\ changes \in 0..MaxChanges /\ ccs \in 0..MaxCC

IInv ==
  /\ TypesOK /\ CommitterOK /\ DispatcherOK /\ FolderStateOK /\ HandlerOK
  /\ MutexOK

----------------------------------------------------------------------------
(* Lists of calls, by their first one.                                     *)
LEMMA Lists ==
  /\ \A c \in Calls : /\ Head(<<c>>) = c /\ Tail(<<c>>) = <<>> /\ <<c>> # <<>>
                      /\ \A d \in Calls : <<c>> = <<d>> => c = d
                      /\ \A d, e \in Calls : <<d, e>> # <<c>>
  /\ Head(<<"Remove", "AddIndexInfo">>) = "Remove"
  /\ Tail(<<"Remove", "AddIndexInfo">>) = <<"AddIndexInfo">>
  /\ <<"Remove", "AddIndexInfo">> # <<>>
BY DEF Calls

LEMMA InitOK == Init => IInv
<1> SUFFICES ASSUME Init PROVE IInv
  OBVIOUS
<1>1. TypesOK
  <2>1. folderState \in BOOLEAN
    <3>1. folderState = (cfg \in {"running", "edited"})
      BY DEF Init, Running
    <3>2. CASE cfg \in {"running", "edited"}
      BY <3>1, <3>2
    <3>3. CASE cfg \notin {"running", "edited"}
      BY <3>1, <3>3
    <3> QED
      BY <3>2, <3>3
  <2>2. cfg \in Configs /\ applied \in Configs
    BY DEF Init
  <2>3. todo = [a \in Actors |-> todo[a]] /\ DOMAIN todo = Actors
    BY DEF Init
  <2>4. startInfo \in BOOLEAN /\ paused \in BOOLEAN /\ done \in BOOLEAN
        /\ told \in BOOLEAN /\ offered = "no" /\ ignored \in BOOLEAN
    BY DEF Init
  <2>5. changes \in 0..MaxChanges /\ ccs \in 0..MaxCC
    BY RegistryAssumption DEF Init
  <2> QED
    BY <2>1, <2>2, <2>3, <2>4, <2>5 DEF Init, TypesOK
<1>2. /\ todo["committer"] = <<>> /\ todo["dispatcher"] = <<>>
      /\ applied = cfg /\ ~paused /\ ~startInfo /\ ~done /\ ~told /\ offered = "no"
      /\ mut = "free" /\ hPc = "none" /\ folderState = Running(cfg)
  BY DEF Init, Actors
<1>3. CommitterOK
  BY <1>2, Lists DEF CommitterOK, Calls
<1>4. DispatcherOK /\ FolderStateOK /\ HandlerOK /\ MutexOK
  BY <1>2 DEF DispatcherOK, FolderStateOK, HandlerOK, MutexOK
<1> QED
  BY <1>1, <1>3, <1>4 DEF IInv

----------------------------------------------------------------------------
(***************************************************************************)
(* What makes the actors call.                                             *)
(***************************************************************************)
LEMMA ClusterConfigStep ==
  ASSUME IInv, NEW offer \in Offers, ClusterConfig(offer)
  PROVE  IInv'
<1> DEFINE l == CallsFor(offer)
<1>1. /\ l \in {<<"Remove">>, <<"AddIndexInfo">>, <<"Remove", "AddIndexInfo">>}
      /\ offer = "running" /\ ~(ignored /\ ~Shared(cfg)) => l # <<"Remove">>
  BY Lists DEF CallsFor, Offers, Calls
<1> HIDE DEF l
<1>2. /\ todo'["dispatcher"] = l /\ todo'["committer"] = todo["committer"]
      /\ todo["dispatcher"] = <<>>
      /\ todo' = [a \in Actors |-> todo'[a]] /\ DOMAIN todo' = Actors
  BY DEF IInv, TypesOK, ClusterConfig, Actors, l
<1>3. l # <<>>
  BY <1>1, Lists DEF Calls
<1>4. TypesOK'
  BY <1>2, RegistryAssumption DEF IInv, TypesOK, ClusterConfig, reg, hdl
<1>5. DispatcherOK'
  BY <1>1, <1>2, <1>3 DEF DispatcherOK, ClusterConfig
<1>6. CommitterOK' /\ FolderStateOK' /\ HandlerOK'
  BY <1>2 DEF IInv, CommitterOK, FolderStateOK, HandlerOK, ClusterConfig, reg, hdl,
              Shared, Running
<1>7. MutexOK'
  BY <1>2, <1>3 DEF IInv, TypesOK, MutexOK, MustStop, ClusterConfig, reg, hdl, Actors
<1> QED
  BY <1>4, <1>5, <1>6, <1>7 DEF IInv

LEMMA ChangeConfigStep ==
  ASSUME IInv, NEW c \in Configs, NEW ign \in BOOLEAN, ChangeConfig(c, ign)
  PROVE  IInv'
<1>1. TypesOK'
  BY RegistryAssumption DEF IInv, TypesOK, ChangeConfig, reg, hdl
<1>2. CommitterOK' /\ DispatcherOK' /\ FolderStateOK' /\ HandlerOK'
  BY DEF IInv, CommitterOK, DispatcherOK, FolderStateOK, HandlerOK, ChangeConfig,
         reg, hdl
<1>3. MutexOK'
  BY DEF IInv, MutexOK, MustStop, ChangeConfig, reg, hdl
<1> QED
  BY <1>1, <1>2, <1>3 DEF IInv

LEMMA CommitStep == IInv /\ CommitConfiguration => IInv'
<1> SUFFICES ASSUME IInv, CommitConfiguration PROVE IInv'
  OBVIOUS
<1> DEFINE l == CASE cfg = "none" -> <<"Remove">>
                  [] cfg # "none" /\ IsPaused(cfg) /\ (IsPaused(applied) \/ applied = "none") ->
                       <<>>
                  [] OTHER -> RegisterFolderState(cfg)
<1>1. /\ l \in {<<>>, <<"Remove">>, <<"RegisterPaused">>, <<"RegisterRunning">>}
      /\ l = <<"Remove">> => ~Shared(cfg)
      /\ l = <<"RegisterPaused">> =>
           cfg = "paused" /\ applied \in {"unshared", "running", "edited"}
      /\ l = <<"RegisterRunning">> => Running(cfg)
      /\ l = <<>> => cfg \in {"paused", "unsharedPaused"}
  <2>1. cfg \in Configs /\ applied \in Configs
    BY DEF IInv, TypesOK
  <2>2. CASE cfg = "none"
    BY <2>2, Lists DEF Calls, Shared, Running
  <2>3. CASE cfg # "none" /\ IsPaused(cfg) /\ (IsPaused(applied) \/ applied = "none")
    BY <2>3, Lists DEF Calls, IsPaused
  <2>4. CASE cfg # "none" /\ ~(IsPaused(cfg) /\ (IsPaused(applied) \/ applied = "none"))
    <3>1. l = RegisterFolderState(cfg)
      BY <2>4
    <3>2. cfg = "paused" => applied \in {"unshared", "running", "edited"}
      BY <2>1, <2>4 DEF IsPaused, Configs
    <3> QED
      BY <2>1, <3>1, <3>2, Lists DEF Calls, RegisterFolderState, Shared, Running, Configs
  <2> QED
    BY <2>2, <2>3, <2>4
<1>2. /\ todo'["committer"] = l /\ todo'["dispatcher"] = todo["dispatcher"]
      /\ todo["committer"] = <<>>
      /\ todo' = [a \in Actors |-> todo'[a]] /\ DOMAIN todo' = Actors
  BY DEF IInv, TypesOK, CommitterOK, CommitConfiguration, Actors
<1> HIDE DEF l
<1>3. TypesOK'
  BY <1>2, RegistryAssumption DEF IInv, TypesOK, CommitConfiguration, reg, hdl
<1>4. DispatcherOK' /\ HandlerOK'
  BY <1>2 DEF IInv, DispatcherOK, HandlerOK, CommitConfiguration, reg, hdl
<1>5. applied' = cfg /\ cfg' = cfg /\ UNCHANGED <<paused, folderState>>
  BY DEF CommitConfiguration, reg, hdl
<1>6. applied \in {"unshared", "running", "edited"} => ~paused
  BY <1>2 DEF IInv, FolderStateOK, HandlerOK, Running
<1>7. CommitterOK' /\ FolderStateOK'
  BY <1>1, <1>2, <1>5, <1>6 DEF CommitterOK, FolderStateOK, Shared, Running
<1>8. MutexOK'
  BY <1>2 DEF IInv, TypesOK, MutexOK, MustStop, CommitConfiguration, reg, hdl, Actors
<1> QED
  BY <1>3, <1>4, <1>7, <1>8 DEF IInv

----------------------------------------------------------------------------
(***************************************************************************)
(* The registry.                                                           *)
(***************************************************************************)
LEMMA StopStep ==
  ASSUME IInv, NEW a \in Actors, StopAndWait(a)
  PROVE  IInv'
<1>1. TypesOK'
  BY DEF IInv, TypesOK, StopAndWait, reg
<1>2. CommitterOK' /\ DispatcherOK' /\ FolderStateOK'
  BY DEF IInv, CommitterOK, DispatcherOK, FolderStateOK, StopAndWait, reg
<1>3. HandlerOK'
  BY DEF IInv, HandlerOK, StopAndWait, MustStop, reg
<1>4. MutexOK'
  BY DEF IInv, MutexOK, MustStop, StopAndWait, reg, Actors
<1> QED
  BY <1>1, <1>2, <1>3, <1>4 DEF IInv

(* A call is made by the one who holds the mutex, or while nobody does.    *)
LEMMA CallMutex ==
  ASSUME IInv, NEW a \in Actors, Call(a)
  PROVE  /\ mut \in {a, "free"}
         /\ mut = "free" => ~done /\ ~MustStop(Head(todo[a]))
         /\ mut' = "free"
BY DEF IInv, TypesOK, MutexOK, Call, Actors

LEMMA CallTodo ==
  ASSUME IInv, NEW a \in Actors, Call(a)
  PROVE  /\ todo' = [b \in Actors |-> todo'[b]] /\ DOMAIN todo' = Actors
         /\ todo'[a] = Tail(todo[a])
         /\ \A b \in Actors \ {a} : todo'[b] = todo[b]
BY DEF IInv, TypesOK, Call

(* What each call leaves of the handler.                                   *)
LEMMA CallType ==
  ASSUME IInv, NEW a \in Actors, Call(a)
  PROVE  TypesOK'
<1>1. /\ cfg' = cfg /\ applied' = applied /\ changes' = changes /\ ccs' = ccs
      /\ mut' = "free"
  BY DEF Call
<1>2. offered' \in {"no", "ignored", "yes"} /\ ignored' = ignored
  BY DEF IInv, TypesOK, Call
<1>3. /\ folderState' \in BOOLEAN /\ startInfo' \in BOOLEAN
      /\ paused' \in BOOLEAN /\ done' \in BOOLEAN /\ told' \in BOOLEAN
      /\ hPc' \in {"none", "look", "looked", "waiting", "woken", "send", "stopped"}
  <2>1. /\ folderState \in BOOLEAN /\ startInfo \in BOOLEAN
        /\ paused \in BOOLEAN /\ done \in BOOLEAN /\ told \in BOOLEAN
        /\ hPc \in {"none", "look", "looked", "waiting", "woken", "send", "stopped"}
    BY DEF IInv, TypesOK
  <2>2. CASE Remove \/ AddIndexInfo
    BY <2>1, <2>2 DEF Remove, AddIndexInfo, Start, NoHandler
  <2>3. CASE RegisterPaused \/ RegisterRunning
    BY <2>1, <2>3 DEF RegisterPaused, RegisterRunning, Start, Resume, Broadcast, hdl
  <2> QED
    BY <2>2, <2>3 DEF Call
<1> QED
  BY <1>1, <1>2, <1>3, CallTodo DEF IInv, TypesOK

LEMMA CallHandlerOK ==
  ASSUME IInv, NEW a \in Actors, Call(a)
  PROVE  HandlerOK' /\ ~done'
<1>1. HandlerOK /\ hPc \in {"none", "look", "looked", "waiting", "woken", "send", "stopped"}
  BY DEF IInv, TypesOK
<1>2. CASE Remove \/ AddIndexInfo
  BY <1>1, <1>2 DEF Remove, AddIndexInfo, Start, NoHandler, HandlerOK
<1>3. CASE Head(todo[a]) = "RegisterPaused" /\ RegisterPaused
  <2>1. ~MustStop(Head(todo[a]))
    BY <1>3 DEF MustStop
  <2>2. ~done
    BY <2>1, CallMutex DEF IInv, MutexOK, Actors
  <2> QED
    BY <1>1, <1>3, <2>2 DEF RegisterPaused, Broadcast, HandlerOK, hdl
<1>4. CASE Head(todo[a]) = "RegisterRunning" /\ RegisterRunning
  <2>1. ~startInfo => ~done
    BY <1>4, CallMutex DEF IInv, MutexOK, MustStop, Actors
  <2> QED
    BY <1>1, <1>4, <2>1 DEF RegisterRunning, Start, Resume, Broadcast, HandlerOK, hdl
<1> QED
  BY <1>2, <1>3, <1>4 DEF Call

(* The committer's one call brings the registry to what was applied.       *)
LEMMA CommitterCall == IInv /\ Call("committer") => IInv'
<1> SUFFICES ASSUME IInv, Call("committer") PROVE IInv'
  OBVIOUS
<1>1. /\ TypesOK' /\ HandlerOK' /\ ~done' /\ mut' = "free"
      /\ todo'["committer"] = Tail(todo["committer"])
      /\ todo'["dispatcher"] = todo["dispatcher"]
      /\ cfg' = cfg /\ applied' = applied
  BY CallType, CallHandlerOK, CallTodo DEF Actors, Call
<1>2. MutexOK'
  BY <1>1 DEF MutexOK
<1>3. /\ todo'["committer"] = <<>>
      /\ \/ todo["committer"] = <<"Remove">> /\ Remove /\ offered' # "yes"
         \/ todo["committer"] = <<"RegisterPaused">> /\ RegisterPaused
            /\ offered' = offered
         \/ todo["committer"] = <<"RegisterRunning">> /\ RegisterRunning
            /\ offered' = offered
  BY <1>1, Lists DEF IInv, CommitterOK, Call, Calls
<1>4. CommitterOK'
  BY <1>3, Lists DEF CommitterOK, Calls
<1>5. FolderStateOK'
  <2>1. CASE todo["committer"] = <<"Remove">> /\ Remove
    BY <1>1, <2>1 DEF IInv, CommitterOK, FolderStateOK, Remove, NoHandler, Shared
  <2>2. CASE todo["committer"] = <<"RegisterPaused">> /\ RegisterPaused
    BY <1>1, <2>2 DEF IInv, CommitterOK, FolderStateOK, Running
  <2>3. CASE todo["committer"] = <<"RegisterRunning">> /\ RegisterRunning
    BY <1>1, <2>3 DEF IInv, CommitterOK, FolderStateOK, RegisterRunning, Running
  <2> QED
    BY <1>3, <2>1, <2>2, <2>3
<1>6. DispatcherOK'
  <2>1. CASE Remove /\ offered' # "yes"
    BY <1>1, <2>1 DEF IInv, DispatcherOK
  <2>2. CASE RegisterPaused /\ offered' = offered
    BY <1>1, <2>2 DEF IInv, DispatcherOK, RegisterPaused, Broadcast, hdl
  <2>3. CASE RegisterRunning /\ offered' = offered
    BY <1>1, <2>3 DEF IInv, DispatcherOK, RegisterRunning, Start, Resume, Broadcast, hdl
  <2> QED
    BY <1>3, <2>1, <2>2, <2>3
<1> QED
  BY <1>1, <1>2, <1>4, <1>5, <1>6 DEF IInv

LEMMA DispatcherCall == IInv /\ Call("dispatcher") => IInv'
<1> SUFFICES ASSUME IInv, Call("dispatcher") PROVE IInv'
  OBVIOUS
<1>1. /\ TypesOK' /\ HandlerOK' /\ ~done' /\ mut' = "free"
      /\ todo'["dispatcher"] = Tail(todo["dispatcher"])
      /\ todo'["committer"] = todo["committer"]
      /\ cfg' = cfg /\ applied' = applied
  BY CallType, CallHandlerOK, CallTodo DEF Actors, Call
<1>2. MutexOK'
  BY <1>1 DEF MutexOK
<1>3. /\ \/ todo["dispatcher"] = <<"Remove">> /\ todo'["dispatcher"] = <<>> /\ Remove
         \/ todo["dispatcher"] = <<"AddIndexInfo">> /\ todo'["dispatcher"] = <<>>
            /\ AddIndexInfo
         \/ todo["dispatcher"] = <<"Remove", "AddIndexInfo">>
            /\ todo'["dispatcher"] = <<"AddIndexInfo">> /\ Remove
      /\ offered' = offered
  BY <1>1, Lists DEF IInv, DispatcherOK, Call, Calls
<1>4. ~paused' /\ folderState' = folderState
  BY <1>3 DEF Remove, AddIndexInfo, Start, NoHandler
<1>5. CommitterOK' /\ FolderStateOK'
  BY <1>1, <1>4 DEF IInv, CommitterOK, FolderStateOK, Shared, Running
<1>6. DispatcherOK'
  <2>1. CASE todo["dispatcher"] = <<"AddIndexInfo">> /\ todo'["dispatcher"] = <<>>
             /\ AddIndexInfo
    BY <1>3, <2>1, Lists DEF DispatcherOK, AddIndexInfo, Start, NoHandler, Calls
  <2>2. CASE todo["dispatcher"] = <<"Remove">> /\ todo'["dispatcher"] = <<>>
    BY <1>3, <2>2, Lists DEF IInv, DispatcherOK, Calls
  <2>3. CASE todo'["dispatcher"] = <<"AddIndexInfo">>
    BY <2>3, Lists DEF DispatcherOK, Calls
  <2> QED
    BY <1>3, <2>1, <2>2, <2>3
<1> QED
  BY <1>1, <1>2, <1>5, <1>6 DEF IInv

----------------------------------------------------------------------------
(* The handler's own steps leave it there.                                 *)
LEMMA ServeStep ==
  ASSUME IInv, WaitWhilePaused \/ SendOrWait \/ BroadcastDone
  PROVE  IInv'
<1>1. /\ UNCHANGED <<cfg, ignored, applied, todo, mut, folderState, startInfo, paused,
                     done, offered, changes, ccs>>
      /\ hPc # "none"
      /\ hPc' \in {"look", "looked", "waiting", "woken", "send", "stopped"}
      /\ told' \in BOOLEAN
  <2>1. /\ hPc \in {"none", "look", "looked", "waiting", "woken", "send", "stopped"}
        /\ told \in BOOLEAN /\ (hPc = "none" => ~done)
    BY DEF IInv, TypesOK, HandlerOK
  <2>2. CASE WaitWhilePaused \/ SendOrWait
    BY <2>1, <2>2 DEF WaitWhilePaused, SendOrWait, HandlerStep, reg
  <2>3. CASE BroadcastDone
    BY <2>1, <2>3 DEF BroadcastDone, Broadcast, reg
  <2> QED
    BY <2>2, <2>3
<1>2. TypesOK' /\ CommitterOK'
  BY <1>1 DEF IInv, TypesOK, CommitterOK
<1>3. DispatcherOK' /\ FolderStateOK' /\ HandlerOK'
  BY <1>1 DEF IInv, DispatcherOK, FolderStateOK, HandlerOK
<1>4. MutexOK'
  BY <1>1 DEF IInv, MutexOK, MustStop
<1> QED
  BY <1>2, <1>3, <1>4 DEF IInv

LEMMA StutterStep == IInv /\ UNCHANGED vars => IInv'
<1> SUFFICES ASSUME IInv, UNCHANGED vars PROVE IInv'
  OBVIOUS
<1>1. TypesOK'
  BY DEF IInv, TypesOK, vars
<1>2. CommitterOK' /\ DispatcherOK'
  BY DEF IInv, CommitterOK, DispatcherOK, Shared, Running, vars
<1>3. FolderStateOK' /\ HandlerOK' /\ MutexOK'
  BY DEF IInv, FolderStateOK, HandlerOK, MutexOK, MustStop, vars
<1> QED
  BY <1>1, <1>2, <1>3 DEF IInv

LEMMA StepOK == IInv /\ [Next]_vars => IInv'
<1> SUFFICES ASSUME IInv, [Next]_vars PROVE IInv'
  OBVIOUS
<1>1. ASSUME NEW a \in Actors, Call(a) PROVE IInv'
  BY <1>1, CommitterCall, DispatcherCall DEF Actors
<1> QED
  BY <1>1, ClusterConfigStep, ChangeConfigStep, CommitStep, StopStep, ServeStep,
     StutterStep DEF Next

LEMMA Inductive == Spec => []IInv
BY InitOK, StepOK, PTL DEF Spec

----------------------------------------------------------------------------
(* AddIndexInfo, Remove and RegisterFolderState keep the start info of a   *)
(* ClusterConfig and the handler started from one apart: a handler never   *)
(* outlives a newer ClusterConfig.                                         *)
THEOREM StartInfoExcludesHandler == Spec => []StartInfoOrHandler
<1>1. IInv => StartInfoOrHandler
  BY DEF IInv, HandlerOK, StartInfoOrHandler
<1> QED
  BY <1>1, Inductive, PTL

(* Whatever the order of ClusterConfigs and configuration changes, and     *)
(* wherever the one's calls of the registry come between the other's: when *)
(* all of them are made, a running folder that the peer offers, and did    *)
(* not offer while it was ignored, has a handler that is neither paused    *)
(* nor stopped.                                                            *)
THEOREM HandlerNotLost == Spec => []HandlerPresent
<1>1. IInv => HandlerPresent
  <2> SUFFICES ASSUME IInv, Quiet, offered = "yes", Running(cfg)
               PROVE  hPc # "none" /\ ~paused /\ ~done
    BY DEF HandlerPresent
  <2>1. folderState
    BY DEF IInv, FolderStateOK, Quiet, Actors
  <2>2. hPc # "none" \/ startInfo
    BY DEF IInv, DispatcherOK, Quiet, Actors
  <2> QED
    BY <2>1, <2>2 DEF IInv, HandlerOK, MutexOK, Quiet
<1> QED
  BY <1>1, Inductive, PTL

(* pause is never called on a handler that is paused: "index handler got   *)
(* paused while already paused" is never logged.                           *)
THEOREM PausedOnce == Spec => NoDoublePause
<1>1. IInv => [\A a \in Actors :
                 Call(a) /\ Head(todo[a]) = "RegisterPaused"
                   => hPc = "none" \/ ~paused]_vars
  <2> SUFFICES ASSUME IInv, NEW a \in Actors, Call(a),
                      Head(todo[a]) = "RegisterPaused"
               PROVE  ~paused
    OBVIOUS
  <2>1. a = "committer" /\ todo[a] = <<"RegisterPaused">>
    BY Lists DEF IInv, CommitterOK, DispatcherOK, Call, Calls, Actors
  <2> QED
    BY <2>1 DEF IInv, CommitterOK
<1> QED
  BY <1>1, Inductive, PTL DEF NoDoublePause
=============================================================================
