-------------------------- MODULE FolderLoopProofs --------------------------
(***************************************************************************)
(* For every set of items, configurations and bounds: no pull is lost, and *)
(* the watcher comes back.                                                 *)
(***************************************************************************)
EXTENDS FolderLoop, FiniteSetTheorems, TLAPS

(* Until the initial scan is over, the pull that follows it is still to    *)
(* come; a pull that is tried before leaves it alone.                      *)
InitialPullAhead == ~initialScanFinished => initialCompleted

(* NoLostPull at every point of the loop but inside pull itself.           *)
Pulling == pc \in {"pull", "pullWaiting", "pulling"}

PullAhead ==
  ~Pulling /\ initialScanFinished /\ ~(need \subseteq passedOver) /\ ~cancelled
    => \/ pullScheduled \/ pullTimer \/ pullFailTimer
       \/ initialCompleted \/ arriving
       \/ err # "none"

(* Only folders with a watcher ever lose it.                               *)
OffIsConfigured == watch = "off" => cfg.watcher

IInv == /\ TypeOK
        /\ InitialPullAhead /\ PullAhead
        /\ OffIsConfigured /\ WatchRestored

----------------------------------------------------------------------------
(* DOMAIN of the surroundings is finite, so the faults can be counted.     *)
LEMMA FaultCount ==
  ASSUME NEW e
  PROVE  Cardinality({k \in {"path", "ignores", "peers"} : ~e[k]}) \in Nat
<1>1. IsFiniteSet({"path"} \cup {"ignores"} \cup {"peers"})
  BY FS_Singleton, FS_Union
<1>2. {k \in {"path", "ignores", "peers"} : ~e[k]}
        \subseteq {"path"} \cup {"ignores"} \cup {"peers"}
  OBVIOUS
<1> QED
  BY <1>1, <1>2, FS_Subset, FS_CardinalityType

LEMMA InitOK == Init => IInv
<1> SUFFICES ASSUME Init PROVE IInv
  OBVIOUS
<1>1. env \in [path : BOOLEAN, ignores : BOOLEAN, peers : BOOLEAN]
      /\ Cardinality({k \in DOMAIN env : ~env[k]}) <= MaxFaults
  BY DEF Init
<1>2. DOMAIN env = {"path", "ignores", "peers"}
      /\ env \in [{"path", "ignores", "peers"} -> BOOLEAN]
  BY <1>1
<1>3. faults \in 0..MaxFaults
  BY <1>1, <1>2, FaultCount, LimitsAssumption DEF Init
<1>4. TypeOK
  <2>1. DOMAIN Healthy = {"path", "ignores", "peers"}
    BY DEF Healthy
  <2>2. env \in [DOMAIN Healthy -> BOOLEAN]
    BY <1>2, <2>1
  <2>3. tries \in 0..(MaxPullerIterations - 1) /\ pullPause \in 1..(2 * PauseLimit)
        /\ updates \in 0..MaxUpdates
    BY LimitsAssumption DEF Init
  <2>4. watch \in {"never", "on", "off"}
    BY DEF Init
  <2> QED
    BY <1>3, <2>2, <2>3, <2>4 DEF Init, TypeOK, Errors
<1>5. InitialPullAhead /\ PullAhead /\ OffIsConfigured /\ WatchRestored
  BY DEF Init, InitialPullAhead, PullAhead, OffIsConfigured, WatchRestored,
         HealthErrorAndLoadIgnores
<1> QED
  BY <1>4, <1>5 DEF IInv

----------------------------------------------------------------------------
(***************************************************************************)
(* Type correctness, one group of variables at a time.                     *)
(***************************************************************************)
WorldOK ==
  /\ cfg \in Configs /\ env \in [DOMAIN Healthy -> BOOLEAN]
  /\ faults \in 0..MaxFaults /\ updates \in 0..MaxUpdates
  /\ arriving \in BOOLEAN /\ cancelled \in BOOLEAN

PlaceOK ==
  /\ pc \in {"select", "pull", "pullWaiting", "pulling", "scan", "scanning", "done"}
  /\ tries \in 0..(MaxPullerIterations - 1)

TimersOK ==
  /\ pullTimer \in BOOLEAN /\ pullFailTimer \in BOOLEAN /\ scanTimer \in BOOLEAN
  /\ pullPause \in 1..(2 * PauseLimit)

InitialOK == initialScanFinished \in BOOLEAN /\ initialCompleted \in BOOLEAN

WatchingOK == restartWatchChan \in BOOLEAN /\ watch \in {"never", "on", "off"}

DataOK == /\ need \subseteq Items /\ passedOver \subseteq Items
          /\ ignoresChanged \in BOOLEAN /\ err \in Errors

RestOK == pullScheduled \in BOOLEAN /\ call \in {"none", "request", "waiting"}

TypeParts ==
  WorldOK /\ PlaceOK /\ TimersOK /\ InitialOK /\ WatchingOK /\ DataOK /\ RestOK

LEMMA TypeIsParts == (TypeOK <=> TypeParts) /\ (TypeOK' <=> TypeParts')
BY DEF TypeOK, TypeParts, WorldOK, PlaceOK, TimersOK, InitialOK, WatchingOK,
       DataOK, RestOK

(* A group of variables that does not change keeps its types.             *)
LEMMA Frames ==
  /\ UNCHANGED world /\ WorldOK => WorldOK'
  /\ UNCHANGED place /\ PlaceOK => PlaceOK'
  /\ UNCHANGED timers /\ TimersOK => TimersOK'
  /\ UNCHANGED initial /\ InitialOK => InitialOK'
  /\ UNCHANGED watching /\ WatchingOK => WatchingOK'
  /\ UNCHANGED data /\ DataOK => DataOK'
BY DEF world, place, timers, initial, watching, data,
       WorldOK, PlaceOK, TimersOK, InitialOK, WatchingOK, DataOK

(* What the helpers of the actions leave.                                  *)
LEMMA HealthType ==
  HealthErrorAndLoadIgnores \in Errors
BY DEF HealthErrorAndLoadIgnores, Errors

LEMMA PauseType ==
  ASSUME pullPause \in 1..(2 * PauseLimit), NEW success
  PROVE  NextPause(success) \in 1..(2 * PauseLimit)
BY LimitsAssumption DEF NextPause

LEMMA SetErrorType ==
  ASSUME TypeOK, NEW e \in Errors, NEW sch \in BOOLEAN, SetError(e, sch)
  PROVE  /\ err' \in Errors /\ pullScheduled' \in BOOLEAN
         /\ watch' \in {"never", "on", "off"}
BY DEF TypeOK, SetError

LEMMA ClearType ==
  ASSUME TypeOK, NEW sch \in BOOLEAN, ClearErrorAndLoad(sch)
  PROVE  /\ err' \in Errors /\ pullScheduled' \in BOOLEAN
         /\ watch' \in {"never", "on", "off"} /\ restartWatchChan' \in BOOLEAN
         /\ ignoresChanged' \in BOOLEAN
BY DEF TypeOK, ClearErrorAndLoad, Clears, Errors

LEMMA PullReturnsType ==
  ASSUME TypeOK, NEW success, NEW e \in Errors, NEW sch \in BOOLEAN,
         PullReturns(success, e, sch)
  PROVE  /\ pc' = "select" /\ tries' \in 0..(MaxPullerIterations - 1)
         /\ pullPause' \in 1..(2 * PauseLimit)
         /\ err' \in Errors /\ pullScheduled' \in BOOLEAN
         /\ watch' \in {"never", "on", "off"}
<1>1. pullPause' \in 1..(2 * PauseLimit)
  BY PauseType DEF PullReturns, TypeOK
<1>2. CASE e = "none"
  BY <1>1, <1>2, LimitsAssumption DEF PullReturns, TypeOK
<1>3. CASE e # "none"
  BY <1>1, <1>3, LimitsAssumption, SetErrorType DEF PullReturns
<1> QED
  BY <1>2, <1>3

LEMMA ScanReturnsType ==
  ASSUME TypeOK, NEW e \in Errors, NEW sch \in BOOLEAN, ScanReturns(e, sch)
  PROVE  /\ pc' = "select" /\ initialScanFinished' \in BOOLEAN
         /\ scanTimer' \in BOOLEAN /\ call' \in {"none", "request", "waiting"}
         /\ err' \in Errors /\ pullScheduled' \in BOOLEAN
         /\ watch' \in {"never", "on", "off"}
<1>1. /\ pc' = "select" /\ initialScanFinished' \in BOOLEAN
      /\ scanTimer' \in BOOLEAN /\ call' \in {"none", "request", "waiting"}
  BY DEF ScanReturns, TypeOK, Reschedule
<1>2. CASE e = "none"
  BY <1>1, <1>2 DEF ScanReturns, TypeOK
<1>3. CASE e # "none"
  BY <1>1, <1>3, SetErrorType DEF ScanReturns
<1> QED
  BY <1>2, <1>3

(* One step per action, one part at a time.                                *)
LEMMA TypeStep ==
  ASSUME TypeOK, [Next]_vars
  PROVE  TypeOK'
<1> SUFFICES TypeParts'
  BY TypeIsParts
<1>0. TypeParts
  BY TypeIsParts
<1> USE <1>0
<1>1. ASSUME NEW k \in DOMAIN Healthy, Surroundings(k) PROVE TypeParts'
  <2>1. WorldOK'
    BY <1>1, LimitsAssumption, Frames DEF Surroundings, TypeParts, WorldOK
  <2>2. RestOK'
    BY <1>1 DEF Surroundings, TypeParts, RestOK
  <2> QED
    BY <1>1, <2>1, <2>2, Frames DEF Surroundings, TypeParts
<1>2. ASSUME NEW i \in Items, IndexUpdate(i) PROVE TypeParts'
  <2>1. WorldOK'
    BY <1>2, LimitsAssumption, Frames DEF IndexUpdate, TypeParts, WorldOK
  <2>2. DataOK'
    BY <1>2 DEF IndexUpdate, TypeParts, DataOK
  <2>3. RestOK'
    BY <1>2 DEF IndexUpdate, TypeParts, RestOK
  <2> QED
    BY <1>2, <2>1, <2>2, <2>3, Frames DEF IndexUpdate, TypeParts
<1>3. CASE EditIgnores
  <2>1. WorldOK'
    BY <1>3, LimitsAssumption, Frames DEF EditIgnores, TypeParts, WorldOK
  <2>2. DataOK'
    BY <1>3 DEF EditIgnores, TypeParts, DataOK
  <2>3. RestOK'
    BY <1>3 DEF EditIgnores, TypeParts, RestOK
  <2> QED
    BY <1>3, <2>1, <2>2, <2>3, Frames DEF EditIgnores, TypeParts
<1>4. CASE SchedulePull
  <2>1. WorldOK'
    BY <1>4, LimitsAssumption, Frames DEF SchedulePull, TypeParts, WorldOK
  <2>2. RestOK'
    BY <1>4 DEF SchedulePull, TypeParts, RestOK
  <2> QED
    BY <1>4, <2>1, <2>2, Frames DEF SchedulePull, TypeParts
<1>5. CASE Cancel
  <2>1. WorldOK'
    BY <1>5, LimitsAssumption, Frames DEF Cancel, TypeParts, WorldOK
  <2>2. RestOK'
    BY <1>5 DEF Cancel, TypeParts, RestOK
  <2> QED
    BY <1>5, <2>1, <2>2, Frames DEF Cancel, TypeParts
<1>6. CASE ScanCalled
  <2>1. RestOK'
    BY <1>6 DEF ScanCalled, CallOnly, TypeParts, RestOK
  <2> QED
    BY <1>6, <2>1, Frames DEF ScanCalled, CallOnly, TypeParts
<1>7. CASE ScanSeesDone
  <2>1. RestOK'
    BY <1>7 DEF ScanSeesDone, CallOnly, TypeParts, RestOK
  <2> QED
    BY <1>7, <2>1, Frames DEF ScanSeesDone, CallOnly, TypeParts
<1>8. CASE ContextDone
  <2>1. PlaceOK'
    BY <1>8, LimitsAssumption, Frames DEF ContextDone, Enter, TypeParts, PlaceOK
  <2>2. TimersOK'
    BY <1>8, LimitsAssumption, Frames DEF ContextDone, Enter, TypeParts, TimersOK
  <2>3. RestOK'
    BY <1>8 DEF ContextDone, Enter, TypeParts, RestOK
  <2> QED
    BY <1>8, <2>1, <2>2, <2>3, Frames DEF ContextDone, Enter, TypeParts
<1>9. CASE CasePullScheduled
  <2>1. PlaceOK'
    BY <1>9, LimitsAssumption, Frames DEF CasePullScheduled, Enter, TypeParts, PlaceOK
  <2>2. TimersOK'
    BY <1>9, LimitsAssumption, Frames DEF CasePullScheduled, Enter, TypeParts, TimersOK
  <2>3. RestOK'
    BY <1>9 DEF CasePullScheduled, Enter, TypeParts, RestOK
  <2> QED
    BY <1>9, <2>1, <2>2, <2>3, Frames DEF CasePullScheduled, Enter, TypeParts
<1>10. CASE CasePullTimer
  <2>1. PlaceOK'
    BY <1>10, LimitsAssumption, Frames DEF CasePullTimer, Enter, TypeParts, PlaceOK
  <2>2. TimersOK'
    BY <1>10, LimitsAssumption, Frames DEF CasePullTimer, Enter, TypeParts, TimersOK
  <2>3. RestOK'
    BY <1>10 DEF CasePullTimer, Enter, TypeParts, RestOK
  <2> QED
    BY <1>10, <2>1, <2>2, <2>3, Frames DEF CasePullTimer, Enter, TypeParts
<1>11. CASE CasePullFailTimer
  <2>1. PlaceOK'
    BY <1>11, LimitsAssumption, Frames DEF CasePullFailTimer, Enter, TypeParts, PlaceOK
  <2>2. RestOK'
    BY <1>11 DEF CasePullFailTimer, Enter, TypeParts, RestOK
  <2> QED
    BY <1>11, <2>1, <2>2, Frames DEF CasePullFailTimer, Enter, TypeParts
<1>12. CASE CaseInitialCompleted
  <2>1. PlaceOK'
    BY <1>12, LimitsAssumption, Frames DEF CaseInitialCompleted, Enter, TypeParts, PlaceOK
  <2>2. InitialOK'
    BY <1>12 DEF CaseInitialCompleted, Enter, TypeParts, InitialOK
  <2>3. RestOK'
    BY <1>12 DEF CaseInitialCompleted, Enter, TypeParts, RestOK
  <2> QED
    BY <1>12, <2>1, <2>2, <2>3, Frames DEF CaseInitialCompleted, Enter, TypeParts
<1>13. CASE CaseScanTimer
  <2>1. PlaceOK'
    BY <1>13, LimitsAssumption, Frames DEF CaseScanTimer, Enter, TypeParts, PlaceOK
  <2>2. TimersOK'
    BY <1>13, LimitsAssumption, Frames DEF CaseScanTimer, Enter, TypeParts, TimersOK
  <2>3. RestOK'
    BY <1>13 DEF CaseScanTimer, Enter, TypeParts, RestOK
  <2> QED
    BY <1>13, <2>1, <2>2, <2>3, Frames DEF CaseScanTimer, Enter, TypeParts
<1>14. CASE CaseScanScheduled
  <2>1. TimersOK'
    BY <1>14, LimitsAssumption, Frames DEF CaseScanScheduled, TypeParts, TimersOK
  <2>2. RestOK'
    BY <1>14 DEF CaseScanScheduled, TypeParts, RestOK
  <2> QED
    BY <1>14, <2>1, <2>2, Frames DEF CaseScanScheduled, TypeParts
<1>15. CASE CaseDoInSync
  <2>1. PlaceOK'
    BY <1>15, LimitsAssumption, Frames DEF CaseDoInSync, Enter, TypeParts, PlaceOK
  <2>2. RestOK'
    BY <1>15 DEF CaseDoInSync, Enter, TypeParts, RestOK
  <2> QED
    BY <1>15, <2>1, <2>2, Frames DEF CaseDoInSync, Enter, TypeParts
<1>16. CASE CaseWatchEvents
  <2>1. PlaceOK'
    BY <1>16, LimitsAssumption, Frames DEF CaseWatchEvents, Enter, TypeParts, PlaceOK
  <2>2. RestOK'
    BY <1>16 DEF CaseWatchEvents, Enter, TypeParts, RestOK
  <2> QED
    BY <1>16, <2>1, <2>2, Frames DEF CaseWatchEvents, Enter, TypeParts
<1>17. CASE CaseForcedRescan
  <2>1. PlaceOK'
    BY <1>17, LimitsAssumption, Frames DEF CaseForcedRescan, Enter, TypeParts, PlaceOK
  <2>2. RestOK'
    BY <1>17 DEF CaseForcedRescan, Enter, TypeParts, RestOK
  <2> QED
    BY <1>17, <2>1, <2>2, Frames DEF CaseForcedRescan, Enter, TypeParts
<1>18. CASE CaseRestartWatch
  <2>1. PlaceOK'
    BY <1>18, LimitsAssumption, Frames DEF CaseRestartWatch, Enter, TypeParts, PlaceOK
  <2>2. WatchingOK'
    BY <1>18 DEF CaseRestartWatch, Enter, TypeParts, WatchingOK
  <2>3. RestOK'
    BY <1>18 DEF CaseRestartWatch, Enter, TypeParts, RestOK
  <2> QED
    BY <1>18, <2>1, <2>2, <2>3, Frames DEF CaseRestartWatch, Enter, TypeParts
<1>19. CASE PullBegins
  <2> USE <1>19 DEF PullBegins
  <2>1. CASE initialScanFinished /\ need # {} /\ env.path
    <3>1. /\ pc' = "pullWaiting" /\ pullFailTimer' = FALSE
          /\ UNCHANGED <<watch, why, tries, pullPause, err, pullScheduled>>
      BY <2>1
    <3>2. PlaceOK' /\ WatchingOK' /\ DataOK' /\ RestOK'
      BY <3>1 DEF PullUnchanged, TypeParts, PlaceOK, WatchingOK, DataOK, RestOK
    <3>3. TimersOK'
      BY <3>1 DEF PullUnchanged, TypeParts, TimersOK
    <3> QED
      BY <3>1, <3>2, <3>3, Frames DEF PullUnchanged, TypeParts
  <2>2. CASE ~(initialScanFinished /\ need # {} /\ env.path)
    <3>1. PICK e \in Errors, success \in BOOLEAN : PullReturns(success, e, pullScheduled)
      BY <2>2 DEF Errors, TypeParts, InitialOK
    <3>2. PlaceOK' /\ WatchingOK'
      BY <3>1, PullReturnsType DEF TypeParts, RestOK, PlaceOK, WatchingOK
    <3>3. TimersOK'
      BY <3>1, PullReturnsType DEF PullUnchanged, TypeParts, RestOK, TimersOK
    <3>4. DataOK' /\ RestOK'
      BY <3>1, PullReturnsType DEF PullUnchanged, TypeParts, DataOK, RestOK
    <3> QED
      BY <3>2, <3>3, <3>4, Frames DEF PullUnchanged, TypeParts
  <2> QED
    BY <2>1, <2>2
<1>20. CASE PullChecks
  <2> USE <1>20 DEF PullChecks
  <2>1. CASE HealthErrorAndLoadIgnores # "none"
    <3>1. PullReturns(FALSE, HealthErrorAndLoadIgnores, pullScheduled)
      BY <2>1
    <3>2. PlaceOK' /\ WatchingOK'
      BY <3>1, PullReturnsType, HealthType DEF TypeParts, RestOK, PlaceOK, WatchingOK
    <3>3. TimersOK'
      BY <3>1, PullReturnsType, HealthType
      DEF PullUnchanged, TypeParts, RestOK, TimersOK
    <3>4. DataOK' /\ RestOK'
      BY <2>1, <3>1, PullReturnsType, HealthType
      DEF LoadFails, PullUnchanged, TypeParts, DataOK, RestOK
    <3> QED
      BY <3>2, <3>3, <3>4, Frames DEF PullUnchanged, TypeParts
  <2>2. CASE HealthErrorAndLoadIgnores = "none"
    <3>1. ClearErrorAndLoad(pullScheduled)
      BY <2>2
    <3>2. PlaceOK' /\ TimersOK'
      BY <2>2 DEF PullUnchanged, TypeParts, PlaceOK, TimersOK
    <3>3. WatchingOK'
      BY <3>1, ClearType DEF TypeParts, RestOK, WatchingOK
    <3>4. DataOK' /\ RestOK'
      BY <3>1, ClearType DEF PullUnchanged, TypeParts, DataOK, RestOK
    <3> QED
      BY <3>2, <3>3, <3>4, Frames DEF PullUnchanged, TypeParts
  <2> QED
    BY <2>1, <2>2
<1>21. CASE PullCancelled
  <2>1. "none" \in Errors /\ PullReturns(TRUE, "none", pullScheduled)
    BY <1>21 DEF PullCancelled, Errors
  <2>2. PlaceOK' /\ WatchingOK'
    BY <1>21, <2>1, PullReturnsType
    DEF PullCancelled, TypeParts, RestOK, PlaceOK, WatchingOK
  <2>3. TimersOK'
    BY <1>21, <2>1, PullReturnsType
    DEF PullCancelled, PullUnchanged, TypeParts, RestOK, TimersOK
  <2>4. DataOK' /\ RestOK'
    BY <1>21, <2>1, PullReturnsType
    DEF PullCancelled, PullUnchanged, TypeParts, DataOK, RestOK
  <2> QED
    BY <1>21, <2>2, <2>3, <2>4, Frames DEF PullCancelled, PullUnchanged, TypeParts
<1>22. CASE PullIteration
  <2> USE <1>22 DEF PullIteration
  <2>1. PICK fixed \in SUBSET need, failed \in SUBSET need :
          /\ need' = need \ fixed
          /\ passedOver' \in {passedOver, need, {}}
          /\ \/ /\ tries + 1 < MaxPullerIterations /\ tries' = tries + 1
                /\ UNCHANGED <<watch, pc, why, pullPause, err,
                               pullScheduled, pullFailTimer>>
             \/ /\ PullReturns(fixed = {} /\ failed = {}, "none", pullScheduled)
                /\ pullFailTimer' = Retries(fixed, failed)
    OBVIOUS
  <2>2. CASE /\ tries + 1 < MaxPullerIterations /\ tries' = tries + 1
             /\ UNCHANGED <<watch, pc, why, pullPause, err,
                            pullScheduled, pullFailTimer>>
    <3>1. PlaceOK'
      BY <2>2, LimitsAssumption DEF TypeParts, PlaceOK
    <3>2. TimersOK'
      BY <2>2 DEF PullUnchanged, TypeParts, TimersOK
    <3>3. WatchingOK' /\ DataOK' /\ RestOK'
      BY <2>1, <2>2 DEF PullUnchanged, TypeParts, WatchingOK, DataOK, RestOK
    <3> QED
      BY <2>2, <3>1, <3>2, <3>3, Frames DEF PullUnchanged, TypeParts
  <2>3. CASE /\ PullReturns(fixed = {} /\ failed = {}, "none", pullScheduled)
             /\ pullFailTimer' = Retries(fixed, failed)
    <3>1. "none" \in Errors
      BY DEF Errors
    <3>2. PlaceOK' /\ WatchingOK'
      BY <2>3, <3>1, PullReturnsType DEF TypeParts, RestOK, PlaceOK, WatchingOK
    <3>3. TimersOK'
      BY <2>3, <3>1, PullReturnsType
      DEF PullUnchanged, Retries, TypeParts, RestOK, TimersOK
    <3>4. DataOK' /\ RestOK'
      BY <2>1, <2>3, <3>1, PullReturnsType
      DEF PullUnchanged, TypeParts, DataOK, RestOK
    <3> QED
      BY <3>2, <3>3, <3>4, Frames DEF PullUnchanged, TypeParts
  <2> QED
    BY <2>1, <2>2, <2>3
<1>26. CASE PullInterrupted
  <2>1. "none" \in Errors /\ PullReturns(FALSE, "none", pullScheduled)
    BY <1>26 DEF PullInterrupted, Errors
  <2>2. PlaceOK' /\ WatchingOK'
    BY <1>26, <2>1, PullReturnsType
    DEF PullInterrupted, TypeParts, RestOK, PlaceOK, WatchingOK
  <2>3. TimersOK'
    BY <1>26, <2>1, PullReturnsType
    DEF PullInterrupted, PullUnchanged, TypeParts, RestOK, TimersOK
  <2>4. DataOK' /\ RestOK'
    BY <1>26, <2>1, PullReturnsType
    DEF PullInterrupted, PullUnchanged, TypeParts, DataOK, RestOK
  <2> QED
    BY <1>26, <2>2, <2>3, <2>4, Frames DEF PullInterrupted, PullUnchanged, TypeParts
<1>23. CASE ScanBegins
  <2> USE <1>23 DEF ScanBegins
  <2>1. CASE HealthErrorAndLoadIgnores # "none"
    <3>1. ScanReturns(HealthErrorAndLoadIgnores, pullScheduled)
      BY <2>1
    <3>2. PlaceOK' /\ WatchingOK'
      BY <3>1, ScanReturnsType, HealthType
      DEF ScanUnchanged, TypeParts, RestOK, PlaceOK, WatchingOK
    <3>3. TimersOK' /\ InitialOK'
      BY <3>1, ScanReturnsType, HealthType
      DEF ScanUnchanged, TypeParts, RestOK, TimersOK, InitialOK
    <3>4. DataOK' /\ RestOK'
      BY <2>1, <3>1, ScanReturnsType, HealthType
      DEF LoadFails, ScanUnchanged, TypeParts, DataOK, RestOK
    <3> QED
      BY <3>2, <3>3, <3>4, Frames DEF ScanUnchanged, TypeParts
  <2>2. CASE HealthErrorAndLoadIgnores = "none"
    <3>1. ClearErrorAndLoad(pullScheduled \/ ignoresChanged)
      BY <2>2
    <3>2. PlaceOK' /\ TimersOK' /\ InitialOK'
      BY <2>2 DEF ScanUnchanged, TypeParts, PlaceOK, TimersOK, InitialOK
    <3>3. WatchingOK'
      BY <3>1, ClearType DEF TypeParts, RestOK, WatchingOK
    <3>4. DataOK' /\ RestOK'
      BY <2>2, <3>1, ClearType DEF ScanUnchanged, TypeParts, DataOK, RestOK
    <3> QED
      BY <3>2, <3>3, <3>4, Frames DEF ScanUnchanged, TypeParts
  <2> QED
    BY <2>1, <2>2
<1>24. CASE ScanEnds
  <2>1. PICK e \in Errors, sch \in BOOLEAN : ScanReturns(e, sch)
    <3>1. PICK changes \in BOOLEAN :
            ScanReturns(IF env.path THEN "none" ELSE "path", pullScheduled \/ changes)
      BY <1>24 DEF ScanEnds
    <3>2. (pullScheduled \/ changes) \in BOOLEAN
      OBVIOUS
    <3>3. (IF env.path THEN "none" ELSE "path") \in Errors
      BY DEF Errors
    <3> QED
      BY <3>1, <3>2, <3>3
  <2> USE <1>24 DEF ScanEnds
  <2>2. PlaceOK' /\ WatchingOK'
    BY <2>1, ScanReturnsType DEF ScanUnchanged, TypeParts, PlaceOK, WatchingOK
  <2>3. TimersOK' /\ InitialOK'
    BY <2>1, ScanReturnsType DEF ScanUnchanged, TypeParts, TimersOK, InitialOK
  <2>4. DataOK' /\ RestOK'
    BY <2>1, ScanReturnsType DEF ScanUnchanged, TypeParts, DataOK, RestOK
  <2> QED
    BY <2>2, <2>3, <2>4, Frames DEF ScanUnchanged, TypeParts
<1>25. CASE UNCHANGED vars
  BY <1>25, Frames DEF vars, TypeParts, RestOK
<1> QED
  BY <1>1, <1>2, <1>3, <1>4, <1>5, <1>6, <1>7, <1>8, <1>9, <1>10,
     <1>11, <1>12, <1>13, <1>14, <1>15, <1>16, <1>17, <1>18, <1>19, <1>20, <1>21, <1>22, <1>23, <1>24, <1>25, <1>26
  DEF Next, Works

(* Clearing an error schedules a pull, a failing one sets its timer, and   *)
(* the pull after the initial scan is still ahead when that scan ends.     *)
LEMMA PullStep ==
  ASSUME TypeOK, InitialPullAhead, PullAhead, [Next]_vars
  PROVE  InitialPullAhead' /\ PullAhead'
<1> USE DEF world, place, timers, initial, watching, data, InitialPullAhead,
       PullAhead, Pulling, Selecting
<1>1. ASSUME NEW k \in DOMAIN Healthy, Surroundings(k) PROVE InitialPullAhead' /\ PullAhead'
  BY <1>1 DEF Surroundings
<1>2. ASSUME NEW i \in Items, IndexUpdate(i) PROVE InitialPullAhead' /\ PullAhead'
  BY <1>2 DEF IndexUpdate
<1>3. CASE EditIgnores
  BY <1>3 DEF EditIgnores
<1>4. CASE SchedulePull
  BY <1>4 DEF SchedulePull
<1>5. CASE Cancel
  BY <1>5 DEF Cancel
<1>6. CASE ScanCalled
  BY <1>6 DEF ScanCalled, CallOnly
<1>7. CASE ScanSeesDone
  BY <1>7 DEF ScanSeesDone, CallOnly
<1>8. CASE ContextDone
  BY <1>8 DEF ContextDone, Enter
<1>9. CASE CasePullScheduled
  BY <1>9 DEF CasePullScheduled, Enter
<1>10. CASE CasePullTimer
  BY <1>10 DEF CasePullTimer, Enter
<1>11. CASE CasePullFailTimer
  BY <1>11 DEF CasePullFailTimer, Enter
<1>12. CASE CaseInitialCompleted
  BY <1>12 DEF CaseInitialCompleted, Enter
<1>13. CASE CaseScanTimer
  BY <1>13 DEF CaseScanTimer, Enter
<1>14. CASE CaseScanScheduled
  BY <1>14 DEF CaseScanScheduled
<1>15. CASE CaseDoInSync
  BY <1>15 DEF CaseDoInSync, Enter
<1>16. CASE CaseWatchEvents
  BY <1>16 DEF CaseWatchEvents, Enter
<1>17. CASE CaseForcedRescan
  BY <1>17 DEF CaseForcedRescan, Enter
<1>18. CASE CaseRestartWatch
  BY <1>18 DEF CaseRestartWatch, Enter
<1>19. CASE PullBegins
  BY <1>19 DEF PullBegins, PullReturns, SetError, PullUnchanged, TypeOK
<1>20. CASE PullChecks
  BY <1>20 DEF PullChecks, PullReturns, SetError, LoadFails, ClearErrorAndLoad, Clears, PullUnchanged, TypeOK
<1>21. CASE PullCancelled
  BY <1>21 DEF PullCancelled, PullReturns, PullUnchanged, TypeOK
<1>22. CASE PullIteration
  BY <1>22 DEF PullIteration, PullReturns, Retries, PullUnchanged, TypeOK
<1>26. CASE PullInterrupted
  BY <1>26 DEF PullInterrupted, PullReturns, PullUnchanged, TypeOK
<1>23. CASE ScanBegins
  BY <1>23 DEF ScanBegins, ScanReturns, SetError, LoadFails, ClearErrorAndLoad, Clears, ScanUnchanged, TypeOK
<1>24. CASE ScanEnds
  BY <1>24 DEF ScanEnds, ScanReturns, SetError, ScanUnchanged, TypeOK
<1>25. CASE UNCHANGED vars
  BY <1>25 DEF vars
<1> QED
  BY <1>1, <1>2, <1>3, <1>4, <1>5, <1>6, <1>7, <1>8, <1>9, <1>10,
     <1>11, <1>12, <1>13, <1>14, <1>15, <1>16, <1>17, <1>18, <1>19, <1>20, <1>21, <1>22, <1>23, <1>24, <1>25, <1>26
  DEF Next, Works

(* Only an error stops the watcher, and its end asks for a restart.        *)
LEMMA WatchStep ==
  ASSUME TypeOK, OffIsConfigured, WatchRestored, [Next]_vars
  PROVE  OffIsConfigured' /\ WatchRestored'
<1> USE DEF world, place, timers, initial, watching, data, OffIsConfigured,
       WatchRestored
<1>1. ASSUME NEW k \in DOMAIN Healthy, Surroundings(k) PROVE OffIsConfigured' /\ WatchRestored'
  BY <1>1 DEF Surroundings
<1>2. ASSUME NEW i \in Items, IndexUpdate(i) PROVE OffIsConfigured' /\ WatchRestored'
  BY <1>2 DEF IndexUpdate
<1>3. CASE EditIgnores
  BY <1>3 DEF EditIgnores
<1>4. CASE SchedulePull
  BY <1>4 DEF SchedulePull
<1>5. CASE Cancel
  BY <1>5 DEF Cancel
<1>6. CASE ScanCalled
  BY <1>6 DEF ScanCalled, CallOnly
<1>7. CASE ScanSeesDone
  BY <1>7 DEF ScanSeesDone, CallOnly
<1>8. CASE ContextDone
  BY <1>8 DEF ContextDone, Enter
<1>9. CASE CasePullScheduled
  BY <1>9 DEF CasePullScheduled, Enter
<1>10. CASE CasePullTimer
  BY <1>10 DEF CasePullTimer, Enter
<1>11. CASE CasePullFailTimer
  BY <1>11 DEF CasePullFailTimer, Enter
<1>12. CASE CaseInitialCompleted
  BY <1>12 DEF CaseInitialCompleted, Enter
<1>13. CASE CaseScanTimer
  BY <1>13 DEF CaseScanTimer, Enter
<1>14. CASE CaseScanScheduled
  BY <1>14 DEF CaseScanScheduled
<1>15. CASE CaseDoInSync
  BY <1>15 DEF CaseDoInSync, Enter
<1>16. CASE CaseWatchEvents
  BY <1>16 DEF CaseWatchEvents, Enter
<1>17. CASE CaseForcedRescan
  BY <1>17 DEF CaseForcedRescan, Enter
<1>18. CASE CaseRestartWatch
  BY <1>18 DEF CaseRestartWatch, Enter
<1>19. CASE PullBegins
  BY <1>19 DEF PullBegins, PullReturns, SetError, PullUnchanged, TypeOK
<1>20. CASE PullChecks
  BY <1>20 DEF PullChecks, PullReturns, SetError, LoadFails, ClearErrorAndLoad, Clears, PullUnchanged, TypeOK
<1>21. CASE PullCancelled
  BY <1>21 DEF PullCancelled, PullReturns, PullUnchanged, TypeOK
<1>22. CASE PullIteration
  BY <1>22 DEF PullIteration, PullReturns, Retries, PullUnchanged, TypeOK
<1>26. CASE PullInterrupted
  BY <1>26 DEF PullInterrupted, PullReturns, PullUnchanged, TypeOK
<1>23. CASE ScanBegins
  BY <1>23 DEF ScanBegins, ScanReturns, SetError, LoadFails, ClearErrorAndLoad, Clears, ScanUnchanged, TypeOK
<1>24. CASE ScanEnds
  BY <1>24 DEF ScanEnds, ScanReturns, SetError, ScanUnchanged, TypeOK
<1>25. CASE UNCHANGED vars
  BY <1>25 DEF vars
<1> QED
  BY <1>1, <1>2, <1>3, <1>4, <1>5, <1>6, <1>7, <1>8, <1>9, <1>10,
     <1>11, <1>12, <1>13, <1>14, <1>15, <1>16, <1>17, <1>18, <1>19, <1>20, <1>21, <1>22, <1>23, <1>24, <1>25, <1>26
  DEF Next, Works

----------------------------------------------------------------------------
(* The inductive invariant.                                                *)
LEMMA Inductive == Spec => []IInv
<1>1. IInv /\ [Next]_vars => IInv'
  BY TypeStep, PullStep, WatchStep DEF IInv
<1> QED
  BY InitOK, <1>1, PTL DEF Spec

(* The loop's variables keep their types; in particular the pause between  *)
(* retries stays below twice its limit, however often a pull fails         *)
(* (NextPause, folder.go:213-219).                                         *)
THEOREM TypeCorrect == Spec => []TypeOK
<1>1. IInv => TypeOK
  BY DEF IInv
<1> QED
  BY Inductive, <1>1, PTL

(* Whatever index updates, errors and edits of .stignore come in whichever *)
(* moment of a pull or a scan, the loop never waits with something needed  *)
(* and no pull ahead, unless the folder has an error or the last pull      *)
(* succeeded and passed over it (Serve, pull, scanSubdirs and setError in  *)
(* folder.go).                                                             *)
THEOREM PullIsNeverLost == Spec => []NoLostPull
<1>1. IInv => NoLostPull
  BY DEF IInv, PullAhead, Pulling, NoLostPull
<1> QED
  BY Inductive, <1>1, PTL

(* A watcher that setError stopped has its restart scheduled by the time   *)
(* the error is cleared (setError and restartWatch in folder.go).          *)
THEOREM WatcherIsRestored == Spec => []WatchRestored
<1>1. IInv => WatchRestored
  BY DEF IInv
<1> QED
  BY Inductive, <1>1, PTL
=============================================================================
