------------------------------ MODULE FolderDB ------------------------------
(***************************************************************************)
(* The files table of one folder's database (internal/db/sqlite): one row  *)
(* per device and name, and on these rows the two flags that the rest of   *)
(* the program works from.  Global marks the version of a name that every  *)
(* device should have; Needed marks it when the local device lacks it.     *)
(*                                                                         *)
(* Device 1 is the local device, which always has the lowest index.  Every *)
(* operation is one transaction under updateLock, so it is one action.     *)
(***************************************************************************)
EXTENDS VersionOrder, FiniteSets

CONSTANTS
  NumDevices,    \* the local device and its peers
  Names,         \* file names in the folder
  Versions,      \* versions of files that occur
  Modified,      \* version -> modification time of the file with that version
  Deleted,       \* versions that are deletions
  AllowInvalid,  \* may rows be invalid (ignored, to be rescanned, ...)?
  NoRow          \* the value of a row that does not exist

Devices == 1..NumDevices
Local   == 1

\* A row without its Global and Needed flags.  The version stands for what the
\* device that made it put into the file information: type, size, blocks,
\* modification time, deletion.  invalid stands for any of LocalInvalidFlags.
Rows == [version : Versions, invalid : IF AllowInvalid THEN BOOLEAN ELSE {FALSE}]

ASSUME DatabaseAssumption ==
  /\ NumDevices \in Nat \ {0}
  /\ Versions \subseteq Vectors
  /\ Modified \in [Versions -> Nat] /\ Deleted \subseteq Versions
  /\ AllowInvalid \in BOOLEAN
  /\ NoRow \notin Rows

VARIABLES
  files,   \* device -> name -> row or NoRow
  global,  \* set of <<device, name>>: rows with FlagLocalGlobal
  needed   \* set of <<device, name>>: rows with FlagLocalNeeded

vars == <<files, global, needed>>

Holders(fs, n) == {d \in Devices : fs[d][n] # NoRow}

Init ==
  /\ files = [d \in Devices |-> [n \in Names |-> NoRow]]
  /\ global = {} /\ needed = {}

----------------------------------------------------------------------------
(***************************************************************************)
(* The order among the rows of a name, and the choice of the global one.   *)
(***************************************************************************)

\* Mutant of Before: the older of two successive versions comes first.
BeforeOlder(d, e, k, f) ==
  LET order == Ordering(e.version, f.version) IN
    CASE order = "Equal" -> d < k
      [] order \in {"Greater", "ConcurrentLesser"} -> FALSE
      [] OTHER -> TRUE

\* fileRow.Compare(e, f) < 0: device d's row e comes before device k's row f.
Before(d, e, k, f) ==
  LET order == Ordering(e.version, f.version) IN
    CASE order = "Greater" -> TRUE
      [] order = "Lesser"  -> FALSE
      [] order = "Equal" ->
           IF e.invalid # f.invalid THEN f.invalid ELSE d < k
      [] order \in {"ConcurrentGreater", "ConcurrentLesser"} ->
           IF e.invalid # f.invalid THEN f.invalid
           ELSE IF Modified[e.version] # Modified[f.version]
                THEN Modified[e.version] > Modified[f.version]
           ELSE order = "ConcurrentGreater"

\* The lists that slices.SortFunc can return for the rows of name n.  The query
\* has no ORDER BY, so the list it starts from is in any order, and sorting
\* only makes sure that no row comes before its left neighbour.
SortedRows(fs, n) ==
  LET H == Holders(fs, n) IN
    {es \in [1..Cardinality(H) -> H] :
       /\ \A d \in H : \E i \in 1..Cardinality(H) : es[i] = d
       /\ \A i \in 1..Cardinality(H) :
            i > 1 => ~Before(es[i], fs[es[i]][n], es[i-1], fs[es[i-1]][n])}

\* The position of the global row: the first valid one, or the first.
GlobalPosition(fs, n, es) ==
  LET valid == {i \in DOMAIN es : ~fs[es[i]][n].invalid} IN
    IF valid = {} THEN 1 ELSE CHOOSE i \in valid : \A j \in valid : i <= j

\* Mutant of HasLocal: a deletion counts as missing for a file never had.
HasLocalNotDeleted(fs, n, es) ==
  \E i \in DOMAIN es :
    /\ es[i] = Local
    /\ \/ i <= GlobalPosition(fs, n, es)
       \/ fs[Local][n].version = fs[es[GlobalPosition(fs, n, es)]][n].version

\* Does the local device have name n at least as well as the global row?
HasLocal(fs, n, es) ==
  LET g == fs[es[GlobalPosition(fs, n, es)]][n] IN
    \/ \E i \in DOMAIN es : /\ es[i] = Local
                            /\ \/ i <= GlobalPosition(fs, n, es)
                               \/ fs[Local][n].version = g.version
    \/ fs[Local][n] = NoRow /\ g.version \in Deleted

\* Mutant of Recalculate: the flags of the other rows are not cleared.
RecalculateKeeps(fs, ns, es, glob, need) ==
  LET winner(n) == es[n][GlobalPosition(fs, n, es[n])]
      wanted    == {n \in ns : /\ ~HasLocal(fs, n, es[n])
                               /\ ~fs[winner(n)][n].invalid}
  IN /\ global' = {p \in glob : p[2] \notin ns} \cup {<<winner(n), n>> : n \in ns}
     /\ needed' = need \cup {<<winner(n), n>> : n \in wanted}

\* recalcGlobalForFile for each of the names ns, with the sorted lists es.
Recalculate(fs, ns, es, glob, need) ==
  LET winner(n) == es[n][GlobalPosition(fs, n, es[n])]
      wanted    == {n \in ns : /\ ~HasLocal(fs, n, es[n])
                               /\ ~fs[winner(n)][n].invalid}
  IN /\ global' = {p \in glob : p[2] \notin ns} \cup {<<winner(n), n>> : n \in ns}
     /\ needed' = {p \in need : p[2] \notin ns} \cup {<<winner(n), n>> : n \in wanted}

RecalculateSome(fs, ns, glob, need) ==
  \E es \in [ns -> UNION {SortedRows(fs, n) : n \in ns}] :
    /\ \A n \in ns : es[n] \in SortedRows(fs, n)
    /\ Recalculate(fs, ns, es, glob, need)

----------------------------------------------------------------------------
\* INSERT OR REPLACE of one row, which starts without the two flags.  A batch is
\* a series of these in one transaction: each file is recalculated in turn.
Update(d, n, r) ==
  LET fs == [files EXCEPT ![d][n] = r] IN
    /\ files' = fs
    /\ RecalculateSome(fs, {n}, global \ {<<d, n>>}, needed \ {<<d, n>>})

\* Rows of d gone, with their flags.
Remaining(flags, d, ns) == {p \in flags : ~(p[1] = d /\ p[2] \in ns)}

\* Mutant of NamesWithoutGlobal: nothing is recalculated for a dropped device.
NamesWithoutGlobalNone(fs, glob) == {}

\* recalcGlobalForFolder only looks at names that have rows and no global one.
NamesWithoutGlobal(fs, glob) ==
  {n \in Names : Holders(fs, n) # {} /\ \A d \in Devices : <<d, n>> \notin glob}

\* All rows of a peer; the flags of other names stay as they are.
DropAllFiles(d) ==
  LET fs   == [files EXCEPT ![d] = [n \in Names |-> NoRow]]
      glob == Remaining(global, d, Names)
      need == Remaining(needed, d, Names)
  IN /\ d # Local
     /\ \E n \in Names : files[d][n] # NoRow
     /\ files' = fs
     /\ RecalculateSome(fs, NamesWithoutGlobal(fs, glob), glob, need)

\* Mutant of DropFilesNamed: recalculate only where the global row is gone, as
\* for a dropped device.
DropFilesNamedLazily(ns) ==
  LET fs   == [files EXCEPT ![Local] = [n \in Names |->
                                          IF n \in ns THEN NoRow ELSE @[n]]]
      glob == Remaining(global, Local, ns)
  IN /\ files' = fs
     /\ RecalculateSome(fs, NamesWithoutGlobal(fs, glob), glob,
                        Remaining(needed, Local, ns))

\* Some rows of the local device: a scan forgets ignored files.
DropFilesNamed(ns) ==
  LET fs   == [files EXCEPT ![Local] = [n \in Names |->
                                          IF n \in ns THEN NoRow ELSE @[n]]]
      left == {n \in ns : Holders(fs, n) # {}}
  IN /\ files' = fs
     /\ RecalculateSome(fs, left, Remaining(global, Local, ns),
                        Remaining(needed, Local, ns))

Next ==
  \/ \E d \in Devices, n \in Names, r \in Rows : Update(d, n, r)
  \/ \E d \in Devices : DropAllFiles(d)
  \/ \E ns \in SUBSET Names : DropFilesNamed(ns)

Spec == Init /\ [][Next]_vars

----------------------------------------------------------------------------
TypeOK ==
  /\ files \in [Devices -> [Names -> Rows \cup {NoRow}]]
  /\ global \subseteq Devices \X Names
  /\ needed \subseteq Devices \X Names

\* A name with rows has one Global row and the flags only sit on rows that
\* exist: "only one instance gets the Global flag" (20-files.sql).  GetGlobalFile
\* reads the one row of a query that would otherwise return any of several.
OneGlobal ==
  /\ \A p \in global \cup needed : files[p[1]][p[2]] # NoRow
  /\ \A n \in Names : Holders(files, n) # {} =>
       \E d \in Devices : \A k \in Devices : <<k, n>> \in global <=> k = d

\* "Only Global files announced by another device can have the Need bit."  A
\* needed row of the local device itself would be pulled for ever.
NeedOnRemoteGlobal ==
  needed \subseteq global /\ \A n \in Names : <<Local, n>> \notin needed

\* No three rows of different devices come before one another in a circle.  The
\* versions and times decide this; fileRow.Compare does not rule it out.
NoCircles ==
  \A d, k, l \in Devices : d # k /\ k # l /\ l # d =>
    \A e, f, g \in Rows :
      ~(Before(d, e, k, f) /\ Before(k, f, l, g) /\ Before(l, g, d, e))

\* The global row is "the latest one": no valid row of the name has a greater
\* version, and an invalid row is global only when there is no valid one.
GlobalIsLatest ==
  \A d \in Devices, n \in Names : <<d, n>> \in global =>
    \A k \in Holders(files, n) : ~files[k][n].invalid =>
      /\ ~files[d][n].invalid
      /\ Ordering(files[k][n].version, files[d][n].version) # "Greater"

\* The flags are those a recalculation of the name would give now, although a
\* dropped device's names are only recalculated where their global row is gone.
\* It needs NoCircles.
FlagsCurrent ==
  \A n \in Names : Holders(files, n) # {} =>
    \E es \in SortedRows(files, n) :
      LET g == es[GlobalPosition(files, n, es)] IN
        /\ <<g, n>> \in global
        /\ <<g, n>> \in needed <=> ~HasLocal(files, n, es) /\ ~files[g][n].invalid

\* What is needed can be pulled and is worth pulling: it is valid, another
\* device announces it, and the local device has no row with that version; a
\* deletion is not needed for a file the local device never had.
NeedIsReal ==
  \A p \in needed :
    /\ p[1] # Local /\ ~files[p[1]][p[2]].invalid
    /\ IF files[Local][p[2]] = NoRow
       THEN files[p[1]][p[2]].version \notin Deleted
       ELSE files[Local][p[2]].version # files[p[1]][p[2]].version
=============================================================================
