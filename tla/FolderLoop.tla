----------------------------- MODULE FolderLoop -----------------------------
(***************************************************************************)
(* The service loop of a folder (lib/model/folder.go): one goroutine that  *)
(* pulls and scans, woken by channels of capacity one, by timers and by    *)
(* callers that wait for their request.  Index updates, folder errors,     *)
(* changed ignore patterns and a cancelled context come at any moment, in  *)
(* the middle of a pull or of a scan too.                                  *)
(*                                                                         *)
(* The puller's own work is in the module Puller; here an iteration fixes  *)
(* some of the needed items, fails with some and passes over the others    *)
(* without an error.  None fails when the peers can be reached.            *)
(* The state names shown to the user, statistics and the cleaning of old   *)
(* versions change nothing the loop looks at, and are left out.            *)
(***************************************************************************)
EXTENDS Integers, FiniteSets

CONSTANTS
  Items,        \* the items of the folder
  Configs,      \* the folder configurations: see Config
  PauseLimit,   \* the pause grows while it is below this multiple of the base (60)
  MaxPullerIterations, \* maxPullerIterations (3)
  MaxFaults,    \* bound on the changes of the surroundings
  MaxUpdates    \* bound on the index updates

Config == [delay : BOOLEAN, rescan : BOOLEAN, watcher : BOOLEAN]

ASSUME ConfigsAssumption == Configs \subseteq Config
ASSUME LimitsAssumption ==
  /\ PauseLimit \in Nat \ {0}
  /\ MaxPullerIterations \in Nat \ {0}
  /\ MaxFaults \in Nat
  /\ MaxUpdates \in Nat

VARIABLES
  cfg,            \* PullerDelayS > 0, RescanIntervalS > 0, FSWatcherEnabled
  env,            \* the surroundings: path and .stignore readable, peers reachable
  faults, updates,
  need,           \* the items CountNeed counts
  passedOver,     \* history: the needed items that the last pull left although it succeeded
  arriving,       \* an index update is stored and SchedulePull not yet called
  ignoresChanged, \* .stignore differs from what is loaded
  cancelled,      \* the context is cancelled
  pc,             \* where the loop is
  why,            \* the case of the select that led there, as far as it matters
  tries,          \* iterations of the puller begun
  err,            \* stateTracker.err
  pullScheduled, pullTimer, pullFailTimer, pullPause,
  scanTimer,
  initialScanFinished, initialCompleted,
  restartWatchChan, watch,
  call            \* a caller of Scan

world == <<cfg, env, faults, updates, arriving, cancelled>>
place == <<pc, why, tries>>
timers == <<pullTimer, pullFailTimer, pullPause, scanTimer>>
initial == <<initialScanFinished, initialCompleted>>
watching == <<restartWatchChan, watch>>
data == <<need, passedOver, ignoresChanged, err>>
vars == <<world, place, timers, initial, watching, data, pullScheduled, call>>

Errors == {"none", "path", "ignores"}
Healthy == [path |-> TRUE, ignores |-> TRUE, peers |-> TRUE]

(* getHealthErrorAndLoadIgnores                                            *)
HealthErrorAndLoadIgnores ==
  CASE ~env.path -> "path"
    [] env.path /\ ~env.ignores -> "ignores"
    [] OTHER -> "none"

Init ==
  /\ cfg \in Configs
  /\ env \in {e \in [path : BOOLEAN, ignores : BOOLEAN, peers : BOOLEAN] :
                Cardinality({k \in DOMAIN e : ~e[k]}) <= MaxFaults}
  /\ faults = Cardinality({k \in DOMAIN env : ~env[k]})
  /\ updates = 0
  /\ need \in SUBSET Items
  /\ passedOver = {}
  /\ arriving = FALSE
  /\ ignoresChanged = FALSE
  /\ cancelled = FALSE
  /\ pc = "select" /\ why = "none" /\ tries = 0
  /\ err = "none"
  /\ pullScheduled = FALSE /\ pullTimer = FALSE
  /\ pullFailTimer = FALSE /\ pullPause = 1
  /\ scanTimer = TRUE
  /\ initialScanFinished = FALSE /\ initialCompleted = TRUE
  /\ restartWatchChan = FALSE
  /\ watch = IF cfg.watcher /\ HealthErrorAndLoadIgnores = "none"
             THEN "on" ELSE "never"
  /\ call = "none"

-----------------------------------------------------------------------------
(* What happens around the loop.                                           *)

Surroundings(k) ==
  /\ faults < MaxFaults \/ ~env[k]
  /\ faults' = IF env[k] THEN faults + 1 ELSE faults
  /\ env' = [env EXCEPT ![k] = ~@]
  /\ UNCHANGED <<place, timers, initial, watching, data, cfg, updates,
                 arriving, cancelled, pullScheduled, call>>

(* The user edits .stignore.                                               *)
EditIgnores ==
  /\ faults < MaxFaults
  /\ faults' = faults + 1
  /\ ignoresChanged' = TRUE
  /\ UNCHANGED <<place, timers, initial, watching, cfg, env, updates,
                 arriving, cancelled, pullScheduled, need, passedOver,
                 err, call>>

(* The index handler stores an update ...                                  *)
IndexUpdate(i) ==
  /\ updates < MaxUpdates
  /\ ~arriving
  /\ updates' = updates + 1
  /\ need' = need \union {i}
  /\ passedOver' = passedOver \ {i}
  /\ arriving' = TRUE
  /\ UNCHANGED <<place, timers, initial, watching, cfg, env, faults,
                 cancelled, pullScheduled, ignoresChanged, err, call>>

(* ... and then calls SchedulePull.                                        *)
SchedulePull ==
  /\ arriving
  /\ arriving' = FALSE
  /\ pullScheduled' = TRUE
  /\ UNCHANGED <<place, timers, initial, watching, data, cfg, env, faults,
                 updates, cancelled, call>>

Cancel ==
  /\ ~cancelled
  /\ cancelled' = TRUE
  /\ UNCHANGED <<place, timers, initial, watching, data, cfg, env, faults,
                 updates, arriving, pullScheduled, call>>

-----------------------------------------------------------------------------
(* Callers of Scan, one at a time: each waits for the initial scan, hands  *)
(* its request over and waits for the result, or for the end of the folder.*)

CallOnly == UNCHANGED <<world, place, timers, initial, watching, data,
                        pullScheduled>>

ScanCalled ==
  /\ call = "none"
  /\ initialScanFinished
  /\ call' = "request"
  /\ CallOnly

(* Mutant of ScanSeesDone: doInSync waits for the loop only.               *)
ScanIgnoresDone == FALSE /\ call' = call /\ CallOnly

ScanSeesDone ==
  /\ call = "request"
  /\ pc = "done"
  /\ call' = "none"
  /\ CallOnly

-----------------------------------------------------------------------------
(* setError with an error, and with nil; ignoresUpdated.                   *)

SetError(e, scheduled) ==
  /\ pullScheduled' = scheduled
  /\ IF cancelled \/ e = err
     THEN UNCHANGED <<watch, err>>
     ELSE /\ err' = e
          /\ watch' = IF cfg.watcher THEN "off" ELSE watch

Clears == ~cancelled /\ err # "none"

(* Mutant of ClearErrorAndLoad: only new patterns restart the watcher.     *)
ClearErrorAndLoadUnwatched(scheduled) ==
  /\ err' = IF Clears THEN "none" ELSE err
  /\ pullScheduled' = (scheduled \/ Clears)
  /\ restartWatchChan' = (restartWatchChan \/ (cfg.watcher /\ ignoresChanged))
  /\ ignoresChanged' = FALSE
  /\ UNCHANGED watch

(* The folder is healthy and .stignore has been loaded: a former error is  *)
(* over, which schedules another pull and restarts the watcher, and so do  *)
(* new ignore patterns.                                                    *)
ClearErrorAndLoad(scheduled) ==
  /\ err' = IF Clears THEN "none" ELSE err
  /\ pullScheduled' = (scheduled \/ Clears)
  /\ restartWatchChan' =
       (restartWatchChan \/ (cfg.watcher /\ (ignoresChanged \/ Clears)))
  /\ ignoresChanged' = FALSE
  /\ UNCHANGED watch

(* Mutant of NextPause: the pause grows without a limit.                   *)
NextPauseUnlimited(success) ==
  CASE success -> 1
    [] ~success /\ why = "pullFailTimer" -> 2 * pullPause
    [] OTHER -> pullPause

(* A success resets the pause; a retry that fails doubles it.              *)
NextPause(success) ==
  CASE success -> 1
    [] ~success /\ why = "pullFailTimer" /\ pullPause < PauseLimit -> 2 * pullPause
    [] OTHER -> pullPause

(* Leaving pull with its results, back to the select.                      *)
PullReturns(success, e, scheduled) ==
  /\ pc' = "select" /\ why' = "none" /\ tries' = 0
  /\ pullPause' = NextPause(success)
  /\ IF e = "none"
     THEN UNCHANGED <<watch, err>> /\ pullScheduled' = scheduled
     ELSE SetError(e, scheduled)

(* .stignore cannot be loaded.  The patterns are dropped, unless there     *)
(* were none, and will have changed for the load that succeeds.            *)
LoadFails(e, dropped) ==
  /\ dropped => e = "ignores"
  /\ ignoresChanged' = (ignoresChanged \/ dropped)

-----------------------------------------------------------------------------
(* The cases of the select.                                                *)

Selecting == pc = "select"

Enter(where, case) == pc' = where /\ why' = case /\ tries' = 0

ContextDone ==
  /\ Selecting
  /\ cancelled
  /\ Enter("done", "none")
  /\ scanTimer' = FALSE
  /\ UNCHANGED <<world, initial, watching, data, pullScheduled, pullTimer,
                 pullFailTimer, pullPause, call>>

CasePullScheduled ==
  /\ Selecting
  /\ pullScheduled
  /\ pullScheduled' = FALSE
  /\ IF cfg.delay THEN pullTimer' = TRUE /\ UNCHANGED <<place>>
                  ELSE UNCHANGED pullTimer /\ Enter("pull", "new")
  /\ UNCHANGED <<world, initial, watching, data, pullFailTimer, pullPause,
                 scanTimer, call>>

CasePullTimer ==
  /\ Selecting
  /\ pullTimer
  /\ pullTimer' = FALSE
  /\ Enter("pull", "new")
  /\ UNCHANGED <<world, initial, watching, data, pullScheduled, pullFailTimer,
                 pullPause, scanTimer, call>>

CasePullFailTimer ==
  /\ Selecting
  /\ pullFailTimer
  /\ Enter("pull", "pullFailTimer")
  /\ UNCHANGED <<world, timers, initial, watching, data, pullScheduled, call>>

CaseInitialCompleted ==
  /\ Selecting
  /\ initialCompleted /\ initialScanFinished
  /\ initialCompleted' = FALSE
  /\ Enter("pull", "new")
  /\ UNCHANGED <<world, timers, watching, data, pullScheduled,
                 initialScanFinished, call>>

CaseScanTimer ==
  /\ Selecting
  /\ scanTimer
  /\ scanTimer' = FALSE
  /\ Enter("scan", "scanTimer")
  /\ UNCHANGED <<world, initial, watching, data, pullScheduled, pullTimer,
                 pullFailTimer, pullPause, call>>

(* ScheduleScan or DelayScan was called.                                   *)
CaseScanScheduled ==
  /\ Selecting
  /\ ~scanTimer
  /\ scanTimer' = TRUE
  /\ UNCHANGED <<world, place, initial, watching, data, pullScheduled,
                 pullTimer, pullFailTimer, pullPause, call>>

CaseDoInSync ==
  /\ Selecting
  /\ call = "request"
  /\ call' = "waiting"
  /\ Enter("scan", "doInSync")
  /\ UNCHANGED <<world, timers, initial, watching, data, pullScheduled>>

CaseWatchEvents ==
  /\ Selecting
  /\ watch = "on"
  /\ Enter("scan", "rescan")
  /\ UNCHANGED <<world, timers, initial, watching, data, pullScheduled, call>>

(* The puller or a request of a peer found files that differ from what the *)
(* database has of them.  They are marked for the scan that follows.       *)
CaseForcedRescan ==
  /\ Selecting
  /\ Enter("scan", "rescan")
  /\ UNCHANGED <<world, timers, initial, watching, data, pullScheduled, call>>

(* restartWatch: stopWatch, startWatch and a scan.                         *)
CaseRestartWatch ==
  /\ Selecting
  /\ restartWatchChan
  /\ restartWatchChan' = FALSE
  /\ watch' = "on"
  /\ Enter("scan", "rescan")
  /\ UNCHANGED <<world, timers, initial, data, pullScheduled, call>>

-----------------------------------------------------------------------------
(* pull                                                                    *)

PullUnchanged == UNCHANGED <<world, initial, pullTimer, scanTimer, call>>

(* Up to the wait for a token of ioLimiter.  The timer of the last failure *)
(* is stopped first, whatever follows.  Before the initial scan is over    *)
(* there is no pull and the pause stays as it is.                          *)
PullBegins ==
  /\ pc = "pull"
  /\ pullFailTimer' = FALSE
  /\ \/ /\ ~initialScanFinished \/ need = {}
        /\ PullReturns(initialScanFinished, "none", pullScheduled)
     \/ /\ initialScanFinished /\ need # {} /\ ~env.path
        /\ PullReturns(FALSE, "path", pullScheduled)
     \/ /\ initialScanFinished /\ need # {} /\ env.path
        /\ pc' = "pullWaiting"
        /\ UNCHANGED <<watch, why, tries, pullPause, err, pullScheduled>>
  /\ PullUnchanged
  /\ UNCHANGED <<need, passedOver, ignoresChanged, restartWatchChan>>

(* With the token: the folder is checked again, .stignore is loaded and a  *)
(* former error is cleared, which schedules another pull.  Patterns that   *)
(* are dropped restart the watcher too, before the error stops it.         *)
PullChecks ==
  /\ pc = "pullWaiting"
  /\ IF HealthErrorAndLoadIgnores # "none"
     THEN \E dropped \in BOOLEAN :
            /\ LoadFails(HealthErrorAndLoadIgnores, dropped)
            /\ restartWatchChan' = (restartWatchChan \/ (cfg.watcher /\ dropped))
            /\ PullReturns(FALSE, HealthErrorAndLoadIgnores, pullScheduled)
     ELSE /\ pc' = "pulling"
          /\ ClearErrorAndLoad(pullScheduled)
          /\ UNCHANGED <<why, tries, pullPause>>
  /\ PullUnchanged
  /\ UNCHANGED <<need, passedOver, pullFailTimer>>

(* No token because the context has ended; there is no further retry.      *)
PullCancelled ==
  /\ pc = "pullWaiting"
  /\ cancelled
  /\ PullReturns(TRUE, "none", pullScheduled)
  /\ PullUnchanged
  /\ UNCHANGED <<need, passedOver, ignoresChanged, restartWatchChan, pullFailTimer>>

(* Mutant of Retries: a pull that could do nothing at all is not retried.  *)
RetriesAfterProgress(fixed, failed) == fixed # {}

(* Does a pull whose last iteration fixed and failed these items set       *)
(* pullFailTimer?                                                          *)
Retries(fixed, failed) == fixed # {} \/ failed # {}

(* One iteration of the puller.  The pull succeeds when an iteration fixes *)
(* nothing and fails nothing, and fails when it makes no progress or has   *)
(* tried often enough.  Items that are passed over are neither: deletions  *)
(* that the configuration ignores, and files whose failure got lost.       *)
PullIteration ==
  /\ pc = "pulling"
  /\ \E fixed \in SUBSET need : \E failed \in SUBSET (need \ fixed) :
       /\ env.peers => failed = {}
       /\ need' = need \ fixed
       /\ IF fixed # {} /\ tries + 1 < MaxPullerIterations
          THEN /\ tries' = tries + 1
               /\ UNCHANGED <<watch, pc, why, pullPause, err, passedOver,
                              pullScheduled, pullFailTimer>>
          ELSE LET success == fixed = {} /\ failed = {} IN
               /\ PullReturns(success, "none", pullScheduled)
               /\ pullFailTimer' = Retries(fixed, failed)
               /\ passedOver' = IF success THEN need ELSE {}
  /\ PullUnchanged
  /\ UNCHANGED <<ignoresChanged, restartWatchChan>>

(* The context ends before an iteration, or within it.                     *)
PullInterrupted ==
  /\ pc = "pulling"
  /\ cancelled
  /\ \E fixed \in SUBSET need : need' = need \ fixed
  /\ PullReturns(FALSE, "none", pullScheduled)
  /\ pullFailTimer' = TRUE
  /\ PullUnchanged
  /\ UNCHANGED <<passedOver, ignoresChanged, restartWatchChan>>

-----------------------------------------------------------------------------
(* scanSubdirs, and what the cases do with its result                      *)

(* Mutant of Reschedule: the next scan is only planned after a good one.   *)
RescheduleAfterSuccess(e) == scanTimer \/ (cfg.rescan /\ e = "none")

(* Reschedule, after a scan that ended with e.                             *)
Reschedule(e) == scanTimer \/ cfg.rescan

(* scanTimerFired: the initial scan is over even when it failed.           *)
ScanReturns(e, scheduled) ==
  /\ pc' = "select" /\ why' = "none"
  /\ IF why = "scanTimer"
     THEN /\ initialScanFinished' = TRUE
          /\ scanTimer' = Reschedule(e)
     ELSE UNCHANGED <<initialScanFinished, scanTimer>>
  /\ call' = IF why = "doInSync" THEN "none" ELSE call
  /\ IF e = "none" THEN /\ UNCHANGED <<watch, err>>
                        /\ pullScheduled' = scheduled
                   ELSE SetError(e, scheduled)

ScanUnchanged == UNCHANGED <<world, pullTimer, initialCompleted, need, passedOver,
                             tries, pullFailTimer, pullPause>>

ScanBegins ==
  /\ pc = "scan"
  /\ IF HealthErrorAndLoadIgnores # "none"
     THEN /\ \E dropped \in BOOLEAN : LoadFails(HealthErrorAndLoadIgnores, dropped)
          /\ ScanReturns(HealthErrorAndLoadIgnores, pullScheduled)
          /\ UNCHANGED restartWatchChan
     ELSE /\ pc' = "scanning"
          /\ ClearErrorAndLoad(pullScheduled \/ ignoresChanged)
          /\ UNCHANGED <<why, scanTimer, initialScanFinished, call>>
  /\ ScanUnchanged

(* It ends with the items it found changed, or with an error in between.   *)
ScanEnds ==
  /\ pc = "scanning"
  /\ \E changes \in BOOLEAN :
       ScanReturns(IF env.path THEN "none" ELSE "path", pullScheduled \/ changes)
  /\ ScanUnchanged
  /\ UNCHANGED <<ignoresChanged, restartWatchChan>>

-----------------------------------------------------------------------------
Works == \/ PullBegins \/ PullChecks \/ PullCancelled
         \/ PullIteration \/ PullInterrupted
         \/ ScanBegins \/ ScanEnds

Next ==
  \/ \E k \in DOMAIN Healthy : Surroundings(k)
  \/ EditIgnores
  \/ \E i \in Items : IndexUpdate(i)
  \/ SchedulePull \/ Cancel
  \/ ScanCalled \/ ScanSeesDone
  \/ ContextDone
  \/ CasePullScheduled \/ CasePullTimer \/ CasePullFailTimer
  \/ CaseInitialCompleted \/ CaseScanTimer \/ CaseScanScheduled \/ CaseDoInSync
  \/ CaseWatchEvents \/ CaseForcedRescan \/ CaseRestartWatch
  \/ Works

(* select picks at random among the cases that are ready, so a case that   *)
(* is ready again and again is taken: strong fairness.  Of the cases that  *)
(* go straight to a pull it is enough that one is.  Work that is begun     *)
(* goes on, and so does a caller.                                          *)
StartsPull == CasePullTimer \/ CasePullFailTimer \/ CaseInitialCompleted

Fairness ==
  /\ WF_vars(Works)
  /\ WF_vars(SchedulePull)
  /\ WF_vars(ScanSeesDone)
  /\ SF_vars(CasePullScheduled)
  /\ SF_vars(StartsPull)
  /\ SF_vars(CaseScanTimer)
  /\ SF_vars(CaseDoInSync)

Spec == Init /\ [][Next]_vars /\ Fairness

-----------------------------------------------------------------------------
(* Properties.                                                             *)

TypeOK ==
  /\ cfg \in Configs
  /\ env \in [DOMAIN Healthy -> BOOLEAN]
  /\ faults \in 0..MaxFaults
  /\ updates \in 0..MaxUpdates
  /\ need \subseteq Items /\ passedOver \subseteq Items
  /\ pc \in {"select", "pull", "pullWaiting", "pulling", "scan", "scanning", "done"}
  /\ tries \in 0..(MaxPullerIterations - 1)
  /\ err \in Errors
  /\ pullPause \in 1..(2 * PauseLimit)
  /\ watch \in {"never", "on", "off"}
  /\ call \in {"none", "request", "waiting"}
  /\ arriving \in BOOLEAN /\ ignoresChanged \in BOOLEAN /\ cancelled \in BOOLEAN
  /\ pullScheduled \in BOOLEAN /\ pullTimer \in BOOLEAN
  /\ pullFailTimer \in BOOLEAN /\ scanTimer \in BOOLEAN
  /\ initialScanFinished \in BOOLEAN /\ initialCompleted \in BOOLEAN
  /\ restartWatchChan \in BOOLEAN

(* No pull is lost: while the loop waits and something is needed that the  *)
(* last successful pull did not pass over, a pull is scheduled, delayed,   *)
(* to be retried or about to be asked for, or the folder has an error      *)
(* whose end schedules one.                                                *)
NoLostPull ==
  pc = "select" /\ initialScanFinished /\ ~(need \subseteq passedOver) /\ ~cancelled
    => \/ pullScheduled \/ pullTimer \/ pullFailTimer
       \/ initialCompleted \/ arriving
       \/ err # "none"

(* The watcher that a folder error stopped is started again when the error *)
(* is over, whichever of pull and scan notices it.                         *)
WatchRestored == watch = "off" => err # "none" \/ restartWatchChan

(* When the folder stays healthy, is rescanned and its peers can be        *)
(* reached, it gets in sync, whatever failed before and whenever the       *)
(* updates came, but for the items that a successful pull passed over.     *)
EventuallySynced ==
  <>[](env = Healthy /\ cfg.rescan /\ ~cancelled) => <>[](need \subseteq passedOver)

(* A request handed to the loop, or about to be, is answered, and not left *)
(* waiting by a folder that stops.                                         *)
RequestAnswered == call = "request" ~> call = "none"
=============================================================================
