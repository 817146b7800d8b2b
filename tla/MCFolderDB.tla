----------------------------- MODULE MCFolderDB -----------------------------
(***************************************************************************)
(* FolderDB on small instances.  The versions of a name contain a common   *)
(* ancestor, a successor, a change in conflict with both, and a deletion   *)
(* that has seen them all.  Without the successor no three rows compare in *)
(* a circle, whatever their times and whichever of them are invalid.       *)
(***************************************************************************)
EXTENDS FolderDB, TLC

Ancestor == <<1, 0>>
Newer    == <<2, 0>>
Conflict == <<0, 1>>
Removal  == <<3, 1>>

MCVersions == {Ancestor, Newer, Conflict, Removal}
MCThree    == {Ancestor, Conflict, Removal}
MCDeleted  == {Removal}

\* Modification times that grow with the versions, and times that do not: the
\* successor was given an old time, as restoring a file from an archive does.
MCGrowing3 == Conflict :> 1 @@ Ancestor :> 2 @@ Removal :> 4
MCRestored == Newer :> 1 @@ Conflict :> 2 @@ Ancestor :> 3 @@ Removal :> 4

\* The hypothesis of the theorems on the global row holds for the three versions.
ASSUME MCThreeInOrder == Versions = MCThree => NoCircles

NameSymmetry == Permutations(Names)
=============================================================================
