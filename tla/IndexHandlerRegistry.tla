------------------------ MODULE IndexHandlerRegistry ------------------------
(***************************************************************************)
(* The index handlers of one connection (lib/model/indexhandler.go): when  *)
(* the handler of a folder is started, paused, resumed and stopped.  Two   *)
(* goroutines call the registry, each call under its mutex: the dispatcher *)
(* of the connection, for ClusterConfigs of the peer, and the one that     *)
(* commits configuration changes.  The handler itself runs Serve, and      *)
(* sleeps on a condition variable while the folder is paused.              *)
(*                                                                         *)
(* One folder, one peer, one connection that stays up.                     *)
(***************************************************************************)
EXTENDS Naturals, Sequences

CONSTANTS
  MaxChanges,  \* bound: changes of the folder's configuration
  MaxCC,       \* bound: ClusterConfigs of the peer
  MayUnshare   \* may the folder be unshared or removed?

ASSUME RegistryAssumption ==
  MaxChanges \in Nat /\ MaxCC \in Nat /\ MayUnshare \in BOOLEAN

\* The folder's configuration as far as the peer is concerned ("edited" is
\* running with other settings), and what the peer's ClusterConfig says of it.
Configs == {"none", "unshared", "unsharedPaused", "paused", "running", "edited"}
Offers  == {"absent", "stopped", "running"}
Calls   == {"Remove", "AddIndexInfo", "RegisterPaused", "RegisterRunning"}
Actors  == {"dispatcher", "committer"}

VARIABLES
  cfg,         \* the configuration in the config wrapper
  ignored,     \* is the folder among the peer's IgnoredFolders there?
  applied,     \* the one CommitConfiguration has last worked off
  todo,        \* actor -> calls of the registry it still makes
  mut,         \* holder of the registry's mutex while it waits, or "free"
  folderState, \* is there a folderStates entry (the folder is running)?
  startInfo,   \* is there a startInfos entry (a ClusterConfig to start from)?
  hPc,         \* where the handler's Serve is, "none" without a handler
  paused, done, told,  \* handler: flag, its context is done, and broadcast so
  offered,     \* "yes" if the peer offers the folder and we have not refused it
               \* since, "ignored" if it does and we ignored it, "no" otherwise
  changes, ccs

reg  == <<folderState, startInfo>>
hdl  == <<hPc, paused, done, told>>
vars == <<cfg, ignored, applied, todo, mut, folderState, startInfo, hPc, paused,
          done, told, offered, changes, ccs>>

Running(c) == c \in {"running", "edited"}
Shared(c) == c = "paused" \/ Running(c)
IsPaused(c) == c \in {"paused", "unsharedPaused"}

\* A registry is made for the first ClusterConfig on a connection, and knows
\* the folders that are running then.
Init ==
  /\ cfg \in {c \in Configs : MayUnshare \/ Shared(c)}
  /\ ignored \in BOOLEAN /\ (ignored => ~Shared(cfg))
  /\ applied = cfg
  /\ todo = [a \in Actors |-> <<>>] /\ mut = "free"
  /\ folderState = Running(cfg) /\ startInfo = FALSE
  /\ hPc = "none" /\ paused = FALSE /\ done = FALSE /\ told = FALSE
  /\ offered = "no" /\ changes = 0 /\ ccs = 0

----------------------------------------------------------------------------
(***************************************************************************)
(* What makes the two actors call.                                         *)
(***************************************************************************)

\* ccHandleFolders looks at the wrapper's configuration, which may be ahead of
\* what has been committed.  Of a folder that is ignored nothing is kept.
CallsFor(offer) ==
  CASE offer = "absent" -> <<"Remove">>
    [] offer # "absent" /\ ~Shared(cfg) ->
         IF offer = "running" /\ ~ignored THEN <<"Remove", "AddIndexInfo">>
         ELSE <<"Remove">>
    [] offer = "stopped" /\ Shared(cfg) -> <<"Remove">>
    [] offer = "running" /\ Shared(cfg) -> <<"AddIndexInfo">>

ClusterConfig(offer) ==
  /\ ccs < MaxCC /\ ccs' = ccs + 1
  /\ todo["dispatcher"] = <<>>
  /\ todo' = [todo EXCEPT !["dispatcher"] = CallsFor(offer)]
  /\ offered' = IF offer # "running" THEN "no"
                ELSE IF ignored /\ ~Shared(cfg) THEN "ignored" ELSE "yes"
  /\ UNCHANGED <<cfg, ignored, applied, mut, reg, hdl, changes>>

\* The wrapper takes up a change when the previous one has been committed.  A
\* folder that is shared with the peer is taken off the ignored ones (prepare).
ChangeConfig(c, ign) ==
  /\ changes < MaxChanges /\ changes' = changes + 1
  /\ cfg = applied /\ todo["committer"] = <<>> /\ <<c, ign>> # <<cfg, ignored>>
  /\ MayUnshare \/ Shared(c)
  /\ ign => ~Shared(c)
  /\ cfg' = c /\ ignored' = ign
  /\ UNCHANGED <<applied, todo, mut, reg, hdl, offered, ccs>>

RegisterFolderState(c) ==
  IF ~Shared(c) THEN <<"Remove">>
  ELSE IF c = "paused" THEN <<"RegisterPaused">> ELSE <<"RegisterRunning">>

\* newFolder, removeFolder and restartFolder; a folder that was and is paused
\* is skipped, and so is one that is added paused.
CommitConfiguration ==
  /\ cfg # applied
  /\ applied' = cfg
  /\ todo' = [todo EXCEPT !["committer"] =
                CASE cfg = "none" -> <<"Remove">>
                  [] cfg # "none" /\ IsPaused(cfg) /\ (IsPaused(applied) \/ applied = "none") ->
                       <<>>
                  [] OTHER -> RegisterFolderState(cfg)]
  /\ UNCHANGED <<cfg, ignored, mut, reg, hdl, offered, changes, ccs>>

----------------------------------------------------------------------------
(***************************************************************************)
(* The registry.                                                           *)
(***************************************************************************)
Broadcast == IF hPc = "waiting" THEN "woken" ELSE hPc

\* The handler that runs is stopped first, and waited for with the mutex held.
MustStop(call) ==
  hPc # "none" /\ (call \in {"Remove", "AddIndexInfo"}
                   \/ (call = "RegisterRunning" /\ startInfo))

StopAndWait(a) ==
  /\ mut = "free" /\ todo[a] # <<>> /\ MustStop(Head(todo[a]))
  /\ mut' = a
  /\ done' = TRUE
  /\ UNCHANGED <<cfg, ignored, applied, todo, reg, hPc, paused, told, offered,
                 changes, ccs>>

\* startLocked: a new handler, with the start info.
Start ==
  /\ startInfo' = FALSE
  /\ hPc' = "look" /\ paused' = FALSE /\ done' = FALSE /\ told' = FALSE

NoHandler == hPc' = "none" /\ paused' = FALSE /\ done' = FALSE /\ told' = FALSE

Remove ==
  /\ NoHandler /\ startInfo' = FALSE
  /\ UNCHANGED folderState

\* Mutant of AddIndexInfo: the start info is dropped while the folder is paused.
AddIndexInfoForgets ==
  /\ IF folderState THEN Start ELSE NoHandler /\ startInfo' = FALSE
  /\ UNCHANGED folderState

\* The start info is kept when the folder is not running.
AddIndexInfo ==
  /\ IF folderState THEN Start ELSE NoHandler /\ startInfo' = TRUE
  /\ UNCHANGED folderState

\* folderPausedLocked
RegisterPaused ==
  /\ folderState' = FALSE
  /\ IF hPc = "none" THEN UNCHANGED hdl
     ELSE paused' = TRUE /\ hPc' = Broadcast /\ UNCHANGED <<done, told>>
  /\ UNCHANGED startInfo

\* The handler that there is goes on.
Resume ==
  /\ IF hPc = "none" THEN UNCHANGED hdl
     ELSE paused' = FALSE /\ hPc' = Broadcast /\ UNCHANGED <<done, told>>
  /\ UNCHANGED startInfo

\* Mutants of RegisterRunning: a paused handler stays paused; the start info is
\* kept after it was used.
RegisterRunningNoResume ==
  /\ folderState' = TRUE
  /\ IF startInfo THEN Start ELSE UNCHANGED <<startInfo, hPc, paused, done, told>>

RegisterRunningKeeps ==
  /\ folderState' = TRUE
  /\ \/ /\ startInfo /\ hPc' = "look" /\ paused' = FALSE /\ done' = FALSE
        /\ told' = FALSE /\ UNCHANGED startInfo
     \/ ~startInfo /\ Resume

\* folderRunningLocked
RegisterRunning ==
  /\ folderState' = TRUE
  /\ (startInfo /\ Start) \/ (~startInfo /\ Resume)

\* A call that has no handler to stop, or has stopped it.  The handler holds its
\* own lock from looking at the context until it sleeps.
Call(a) ==
  /\ todo[a] # <<>>
  /\ IF MustStop(Head(todo[a])) THEN mut = a /\ hPc = "stopped" ELSE mut = "free"
  /\ hPc # "looked"
  /\ \/ Head(todo[a]) = "Remove" /\ Remove
     \/ Head(todo[a]) = "AddIndexInfo" /\ AddIndexInfo
     \/ Head(todo[a]) = "RegisterPaused" /\ RegisterPaused
     \/ Head(todo[a]) = "RegisterRunning" /\ RegisterRunning
  /\ mut' = "free"
  /\ todo' = [todo EXCEPT ![a] = Tail(@)]
  /\ offered' = IF a = "committer" /\ Head(todo[a]) = "Remove" /\ offered = "yes"
                THEN "no" ELSE offered
  /\ UNCHANGED <<cfg, ignored, applied, changes, ccs>>

----------------------------------------------------------------------------
(***************************************************************************)
(* The handler's Serve.                                                    *)
(***************************************************************************)
HandlerStep(from, to) ==
  /\ hPc = from /\ hPc' = to
  /\ UNCHANGED <<cfg, ignored, applied, todo, mut, reg, paused, done, told,
                 offered, changes, ccs>>

\* waitWhilePaused looks at the flag and, when it is set, at the context.
WaitWhilePaused ==
  \/ ~paused /\ HandlerStep("look", "send")
  \/ paused /\ done /\ HandlerStep("look", "stopped")
  \/ paused /\ ~done /\ HandlerStep("look", "looked")
  \/ HandlerStep("looked", "waiting")
  \/ HandlerStep("woken", "look")

\* sendIndexTo and the wait for something to send, both of which end with the
\* context.
SendOrWait ==
  \/ ~done /\ HandlerStep("send", "look")
  \/ done /\ HandlerStep("send", "stopped")

\* The goroutine that broadcasts the end of the context, without the lock.
BroadcastDone ==
  /\ done /\ ~told /\ hPc # "stopped"
  /\ told' = TRUE /\ hPc' = Broadcast
  /\ UNCHANGED <<cfg, ignored, applied, todo, mut, reg, paused, done, offered,
                 changes, ccs>>

Next ==
  \/ \E o \in Offers : ClusterConfig(o)
  \/ \E c \in Configs, ign \in BOOLEAN : ChangeConfig(c, ign)
  \/ CommitConfiguration
  \/ \E a \in Actors : StopAndWait(a) \/ Call(a)
  \/ WaitWhilePaused \/ SendOrWait \/ BroadcastDone

Spec == Init /\ [][Next]_vars

\* Goroutines run on.
FairSpec ==
  /\ Spec
  /\ WF_vars(CommitConfiguration)
  /\ \A a \in Actors : SF_vars(StopAndWait(a)) /\ SF_vars(Call(a))
  /\ WF_vars(WaitWhilePaused) /\ WF_vars(SendOrWait) /\ WF_vars(BroadcastDone)

----------------------------------------------------------------------------
TypeOK ==
  /\ cfg \in Configs /\ applied \in Configs /\ ignored \in BOOLEAN
  /\ todo \in [Actors -> Seq(Calls)] /\ mut \in Actors \cup {"free"}
  /\ folderState \in BOOLEAN /\ startInfo \in BOOLEAN
  /\ hPc \in {"none", "look", "looked", "waiting", "woken", "send", "stopped"}
  /\ paused \in BOOLEAN /\ done \in BOOLEAN /\ told \in BOOLEAN
  /\ hPc = "none" => ~paused /\ ~done /\ ~told
  /\ offered \in {"no", "ignored", "yes"} /\ changes \in 0..MaxChanges /\ ccs \in 0..MaxCC

\* Nothing is under way between the configuration and the registry.
Quiet == cfg = applied /\ mut = "free" /\ \A a \in Actors : todo[a] = <<>>

\* A start info that waits and a handler exclude each other: a handler that
\* started from an older ClusterConfig never outlives a newer one.
StartInfoOrHandler == startInfo => hPc = "none"

\* In whatever order ClusterConfigs arrive and the folder is shared, started,
\* paused and resumed, no start info is lost: a folder that runs and that the
\* peer offers has a handler, and it is not asleep, unless the peer's last
\* ClusterConfig came while the folder was ignored.
HandlerPresent ==
  Quiet /\ offered = "yes" /\ Running(cfg) => hPc # "none" /\ ~paused /\ ~done

\* "Ignored folder was removed, reconnect to retrigger the prompt": what the peer
\* offered while the folder was ignored is not lost for good, and a folder that is
\* shared and runs now has a handler.  This does not hold: CommitConfiguration
\* reconnects only if the device is resumed by the same change.
UnignoredPresent == Quiet /\ offered = "ignored" /\ Running(cfg) => hPc # "none"

\* "index handler got paused while already paused" is never logged.
NoDoublePause ==
  [][\A a \in Actors :
       Call(a) /\ Head(todo[a]) = "RegisterPaused" => hPc = "none" \/ ~paused]_vars

\* "AddIndexInfo starts an index handler for given folder, unless it is
\* paused": once everything is committed, only a folder that is shared and
\* running has a handler that sends its index.  This does not hold: Remove
\* leaves folderState, from which a later ClusterConfig starts a handler.
HandlerMatchesConfig == Quiet /\ hPc # "none" /\ ~paused => Running(cfg)

\* "If an index handler is already running, it will be stopped first": a call
\* that stops a handler gets to the end of its wait.
StopReturns == mut # "free" ~> mut = "free"
=============================================================================
