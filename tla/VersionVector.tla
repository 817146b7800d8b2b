--------------------------- MODULE VersionVector ---------------------------
(***************************************************************************)
(* Version vectors as lib/protocol/vector.go keeps them, a slice of        *)
(* counters sorted by ID, with the code's loops over it; and the devices   *)
(* that change one file, take over each other's versions of it and         *)
(* override them.  VersionOrder is the reference the loops are checked     *)
(* against; what each device has seen is the reference for the order.      *)
(*                                                                         *)
(* Clocks need not agree, and may go back as long as a device still has    *)
(* its own latest counter in the vector it changes.                        *)
(***************************************************************************)
EXTENDS VersionOrder, Integers, Sequences, FiniteSets

CONSTANTS
  MaxNow,      \* bound: clock readings
  MaxChanges,  \* bound: changes made to the file
  AnyClock     \* may the clock stand still or go back between any two changes?

ASSUME VectorAssumption ==
  MaxNow \in Nat /\ MaxChanges \in Nat /\ AnyClock \in BOOLEAN

\* Slices of counters, and the counters that occur within the bounds.
Slices   == Seq([id : Ids, value : Nat])
Counters == [id : Ids, value : 0..(MaxNow + MaxChanges)]

MaxOf(x, y) == IF x >= y THEN x ELSE y

\* Does v have a counter of id, where is it, and what is its value, zero when
\* it is missing?
Has(v, id)     == \E k \in 1..Len(v) : v[k].id = id
Place(v, id)   == CHOOSE k \in 1..Len(v) : v[k].id = id
Counter(v, id) == IF Has(v, id) THEN v[Place(v, id)].value ELSE 0

\* v with c in front of the counter at place i.
Inserted(v, i, c) == SubSeq(v, 1, i - 1) \o <<c>> \o SubSeq(v, i, Len(v))

----------------------------------------------------------------------------
\* Mutant of Updated: an existing counter is set to the time, also backwards.
UpdatedToNow(v, id, now) ==
  LET at  == {i \in 1..Len(v) : v[i].id >= id}
      pos == IF at = {} THEN Len(v) + 1 ELSE CHOOSE i \in at : \A j \in at : i <= j
      c   == [id |-> id, value |-> MaxOf(1, now)]
  IN IF pos <= Len(v) /\ v[pos].id = id THEN [v EXCEPT ![pos] = c]
     ELSE Inserted(v, pos, c)

\* Mutant of Updated: a new counter always goes to the end.
UpdatedAtEnd(v, id, now) ==
  LET at == {i \in 1..Len(v) : v[i].id = id} IN
    IF at = {} THEN Append(v, [id |-> id, value |-> MaxOf(1, now)])
    ELSE [i \in 1..Len(v) |-> IF i \in at THEN [id |-> id, value |-> MaxOf(v[i].value + 1, now)]
                                          ELSE v[i]]

\* updateWithNow: raise the counter of id, insert it in its place, or append it.
Updated(v, id, now) ==
  LET at  == {i \in 1..Len(v) : v[i].id >= id}
      pos == IF at = {} THEN Len(v) + 1 ELSE CHOOSE i \in at : \A j \in at : i <= j
  IN IF pos <= Len(v) /\ v[pos].id = id
     THEN [v EXCEPT ![pos].value = MaxOf(v[pos].value + 1, now)]
     ELSE Inserted(v, pos, [id |-> id, value |-> MaxOf(1, now)])

\* x, step[x], step[step[x]], ...: the states of a loop.
Iterate(step, x) ==
  LET it[n \in Nat] == IF n = 0 THEN x ELSE step[it[n - 1]] IN it

\* The body of the loop of Merge, at counter vi of v and bi of b.  The loop ends
\* when b is used up.
MergeStates == [v : Slices, vi : Nat \ {0}, bi : Nat \ {0}]

MergeStep(b) ==
  [s \in MergeStates |->
     IF s.bi > Len(b) THEN s
     ELSE IF s.vi > Len(s.v)
     THEN [s EXCEPT !.v = @ \o SubSeq(b, s.bi, Len(b)), !.bi = Len(b) + 1]
     ELSE LET c        == b[s.bi]
              inserted == IF s.v[s.vi].id > c.id THEN Inserted(s.v, s.vi, c) ELSE s.v
              same     == inserted[s.vi].id = c.id
          IN [v  |-> IF same /\ c.value > inserted[s.vi].value
                     THEN [inserted EXCEPT ![s.vi] = c] ELSE inserted,
              vi |-> s.vi + 1,
              bi |-> IF same THEN s.bi + 1 ELSE s.bi]]

\* Mutant of Merge: counters that only the other vector has are lost.
MergeOwn(v, b) ==
  [i \in 1..Len(v) |->
     [id |-> v[i].id, value |-> MaxOf(v[i].value, Counter(b, v[i].id))]]

\* Every turn of the loop deals with a counter of v or of b, or with both.
Merge(v, b) ==
  Iterate(MergeStep(b), [v |-> v, vi |-> 1, bi |-> 1])[Len(v) + Len(b)].v

\* Only the counter of id stays.
DropOthers(v, id) == IF Has(v, id) THEN <<v[Place(v, id)]>> ELSE <<>>

\* What Compare makes of one counter more (way = "Greater") or less in a than in
\* b: two opposite differences settle the comparison.
Outcome(result, way) ==
  CASE result = "Lesser"  /\ way = "Greater" -> "ConcurrentLesser"
    [] result = "Greater" /\ way = "Lesser"  -> "ConcurrentGreater"
    [] OTHER -> way

\* The loop of Compare.  It ends after both slices or with a settled result; a
\* counter beyond the end of a slice is Counter{}.
Settled == {"ConcurrentLesser", "ConcurrentGreater"}

CompareStates ==
  [ai : Nat \ {0}, bi : Nat \ {0},
   result : {"Equal", "Greater", "Lesser"} \cup Settled]

\* Mutant of CompareStep: counters after the end of the other vector are not
\* looked at.
CompareStepPrefix(v, b) ==
  [s \in CompareStates |->
     IF s.ai > Len(v) \/ s.bi > Len(b) \/ s.result \in Settled THEN s
     ELSE LET av  == v[s.ai]
              bv  == b[s.bi]
              way == IF av.id <= bv.id /\ av.value > bv.value THEN "Greater"
                     ELSE IF av.id >= bv.id /\ av.value < bv.value THEN "Lesser"
                     ELSE s.result
          IN [ai |-> IF av.id <= bv.id THEN s.ai + 1 ELSE s.ai,
              bi |-> IF bv.id <= av.id THEN s.bi + 1 ELSE s.bi,
              result |-> Outcome(s.result, way)]]

CompareStep(v, b) ==
  [s \in CompareStates |->
     IF (s.ai > Len(v) /\ s.bi > Len(b)) \/ s.result \in Settled THEN s
     ELSE LET aMissing == s.ai > Len(v)
              bMissing == s.bi > Len(b)
              av  == IF aMissing THEN [id |-> 0, value |-> 0] ELSE v[s.ai]
              bv  == IF bMissing THEN [id |-> 0, value |-> 0] ELSE b[s.bi]
              way == IF av.id = bv.id
                     THEN IF av.value > bv.value THEN "Greater"
                          ELSE IF av.value < bv.value THEN "Lesser" ELSE s.result
                     ELSE IF bMissing \/ (~aMissing /\ av.id < bv.id)
                     THEN IF av.value > 0 THEN "Greater" ELSE s.result
                     ELSE IF bv.value > 0 THEN "Lesser" ELSE s.result
          IN [ai |-> IF ~aMissing /\ (av.id <= bv.id \/ bMissing) THEN s.ai + 1 ELSE s.ai,
              bi |-> IF ~bMissing /\ (bv.id <= av.id \/ aMissing) THEN s.bi + 1 ELSE s.bi,
              result |-> Outcome(s.result, way)]]

Compare(v, b) ==
  Iterate(CompareStep(v, b), [ai |-> 1, bi |-> 1, result |-> "Equal"])
    [Len(v) + Len(b)].result

----------------------------------------------------------------------------
VARIABLES
  cur,    \* device -> version of the file in its database
  seen,   \* device -> the changes it has made or taken over
  made    \* announced versions: [version, change, past], past with the change

vectorVars == <<cur, seen, made>>

VectorInit ==
  /\ cur = [d \in Ids |-> <<>>]
  /\ seen = [d \in Ids |-> {}]
  /\ made = {}

\* Device d announces a new version v after it had seen past.
Announce(d, v, past) ==
  LET change == Cardinality(made) + 1 IN
    /\ Cardinality(made) < MaxChanges
    /\ cur' = [cur EXCEPT ![d] = v]
    /\ seen' = [seen EXCEPT ![d] = past \cup {change}]
    /\ made' = made \cup {[version |-> v, change |-> change,
                           past |-> past \cup {change}]}

\* A counter of d that is gone from v, since d took over a version that was in
\* conflict with its own, lies in the past of d's clock.
ClockMovedOn(d, v, now) ==
  AnyClock \/ \A m \in made : Counter(m.version, d) <= Counter(v, d)
                            \/ Counter(m.version, d) < now

\* A scan finds the file changed or deleted.
Change(d, now) ==
  /\ ClockMovedOn(d, cur[d], now)
  /\ Announce(d, Updated(cur[d], d, now), seen[d])

\* The same for a file that was invalid before: others' changes do not count.
ChangeInvalid(d, now) ==
  /\ cur[d] # <<>> /\ ClockMovedOn(d, cur[d], now)
  /\ Announce(d, DropOthers(Updated(cur[d], d, now), d), seen[d])

\* The puller replaces the file by a newer version, or by one that wins a
\* conflict (the old content is kept as a conflict copy).  It does not go back
\* to a version it has had.
Take(d, m) ==
  /\ Compare(m.version, cur[d]) \in {"Greater", "ConcurrentGreater", "ConcurrentLesser"}
  /\ m.change \notin seen[d]
  /\ cur' = [cur EXCEPT ![d] = m.version]
  /\ seen' = [seen EXCEPT ![d] = @ \cup m.past]
  /\ UNCHANGED made

\* A send-only folder overrides the version the cluster has.
Override(d, m, now) ==
  /\ Compare(m.version, cur[d]) \in {"Greater", "ConcurrentGreater", "ConcurrentLesser"}
  /\ ClockMovedOn(d, Merge(cur[d], m.version), now)
  /\ Announce(d, Updated(Merge(cur[d], m.version), d, now), seen[d] \cup m.past)

VectorNext ==
  \E d \in Ids :
    \/ \E now \in 0..MaxNow :
         \/ Change(d, now) \/ ChangeInvalid(d, now)
         \/ \E m \in made : Override(d, m, now)
    \/ \E m \in made : Take(d, m)

VectorSpec == VectorInit /\ [][VectorNext]_vectorVars

----------------------------------------------------------------------------
VersionsInUse == {m.version : m \in made} \cup {cur[d] : d \in Ids}

\* A slice of counters as a function.
AsVector(v) == [i \in Ids |-> Counter(v, i)]

\* Vectors stay slices of counters sorted by ID without duplicates; Merge and
\* Compare walk them in step and rely on that.
VectorsSorted ==
  /\ \A v \in VersionsInUse :
       /\ v \in Seq(Counters)
       /\ \A i \in 1..(Len(v) - 1) : v[i].id < v[i+1].id
  /\ seen \in [Ids -> SUBSET (1..MaxChanges)]

\* The loop of Compare decides the order it documents: componentwise, and for
\* concurrent vectors by the first counter that differs.
CompareIsOrder ==
  \A v, w \in VersionsInUse : Compare(v, w) = Ordering(AsVector(v), AsVector(w))

\* Merge gives the least vector that contains both, whichever way round.
MergeIsLeast ==
  \A v, w \in VersionsInUse : AsVector(Merge(v, w)) = Join(AsVector(v), AsVector(w))

\* A version that is greater than another was made by a device that had seen
\* it: InConflictWith lets it replace the other without a conflict copy.  No
\* two changes get the same vector, or devices would keep different contents
\* for one version.
NoSilentLoss ==
  \A m, k \in made :
    /\ Compare(m.version, k.version) = "Greater" => k.change \in m.past
    /\ Compare(m.version, k.version) = "Equal" => m = k
=============================================================================
