----------------------------- MODULE FileReplica -----------------------------
(***************************************************************************)
(* What a pull promises about the files of a folder, whatever it does with *)
(* temporary files, blocks and goroutines: a file is old, then perhaps     *)
(* absent, then new as a whole, but for files whose size could not be set; *)
(* what the user visibly wrote before the puller's last look at it stays;  *)
(* and the database records a change only after the disk has it, or a      *)
(* deletion that cannot be reached.                                        *)
(***************************************************************************)
CONSTANTS
  Updates, Deletions,
  MayBeShort, MayBeLong   \* the files that may appear without their last zeroes,
                          \* or with more than they should have

VARIABLES
  disk,      \* file -> "none", "cur" (as the database has it), "new" ("short",
             \* "long"), or what the user wrote: "user", "alike" if it looks
             \* the same, or "late" after the last look; "away" if its path
             \* leads nowhere
  applied,   \* the files whose change is done on disk
  recorded   \* ... and in the database

vars == <<disk, applied, recorded>>

Files == Updates \cup Deletions

Init ==
  /\ disk \in [Files -> {"none", "cur"}]
  /\ applied = {} /\ recorded = {}

UserEdits(f) ==
  /\ \E what \in {"user", "alike", "late", "none", "away"} : disk' = [disk EXCEPT ![f] = what]
  /\ UNCHANGED <<applied, recorded>>

\* The old version is taken out of the way.
Remove(f) ==
  /\ disk[f] \in {"cur", "alike", "late", "none"}
  /\ disk' = [disk EXCEPT ![f] = "none"]
  /\ applied' \in {applied} \cup {applied \cup {g} : g \in {f} \cap Deletions}
  /\ UNCHANGED recorded

\* A deletion is done if the file is out of reach.
Forget(f) ==
  /\ f \in Deletions /\ disk[f] = "away"
  /\ applied' = applied \cup {f}
  /\ UNCHANGED <<disk, recorded>>

\* The new version appears, complete.
Appear(f) ==
  /\ f \in Updates
  /\ disk[f] \in {"none", "late"}
  /\ \/ disk' = [disk EXCEPT ![f] = "new"]
     \/ f \in MayBeShort /\ disk' = [disk EXCEPT ![f] = "short"]
     \/ f \in MayBeLong /\ disk' = [disk EXCEPT ![f] = "long"]
  /\ applied' = applied \cup {f}
  /\ UNCHANGED recorded

Record ==
  /\ recorded' = applied
  /\ UNCHANGED <<disk, applied>>

Next == Record \/ \E f \in Files : UserEdits(f) \/ Remove(f) \/ Forget(f) \/ Appear(f)

Spec == Init /\ [][Next]_vars
==============================================================================
