---------------------------- MODULE PullerProofs ----------------------------
(***************************************************************************)
(* For every set of files, blocks, copiers and limits: pull() keeps what   *)
(* the user has written, gives only complete files their name, hands every *)
(* file to the finisher, and reports what fails.                           *)
(***************************************************************************)
EXTENDS Puller, FiniteSetTheorems, TLAPS

----------------------------------------------------------------------------
(***************************************************************************)
(* Types, finer than TypeOK: where each goroutine may be, and with what.   *)
(***************************************************************************)
States == [on : BOOLEAN, err : {"none", "io", "ctx"}, open : BOOLEAN,
           todo : SUBSET Blocks, total : Nat, copyNeeded : Nat,
           pullNeeded : Nat, closed : BOOLEAN, reused : BOOLEAN]

JobPcs == {"none", "open", "request", "data", "junk", "zero", "skip", "out"}

Worker(w, pcs, files) ==
  /\ w = [pc |-> w.pc, file |-> w.file, block |-> w.block]
  /\ w.pc \in pcs /\ w.block \in Nat
  /\ IF w.pc = "idle" THEN w = Idle ELSE w.file \in files

CopierOK ==
  /\ copier = [c \in Copiers |-> copier[c]]
  /\ \A c \in Copiers :
       /\ Worker(copier[c], {"idle", "block", "check", "write", "send", "out"}, Updates)
       /\ copier[c].pc \in {"check", "write", "send"} =>
            copier[c].block \in BlocksOf[copier[c].file]

PullerOK ==
  /\ Worker(puller, {"idle", "got", "take", "out"}, Updates)
  /\ puller.pc # "idle" => puller.block \in BlocksOf[puller.file]

FinOK == Worker(fin, {"idle", "close", "check", "replace", "rename"}, Updates)
DelOK == Worker(del, {"idle", "remove"}, Deletions)
JobOK ==
  /\ job = [f \in Updates |-> job[f]]
  /\ \A f \in Updates : job[f] \in [BlocksOf[f] -> JobPcs]


StateOK ==
  /\ st \in [Updates -> States]
  /\ \A f \in Updates : st[f].todo \subseteq BlocksOf[f]

\* What follows the last block comes from an old temporary file.
Tailed(f) == \E t \in OldTemps(f) : t[0] # "missing"

TempOK ==
  /\ temp = [f \in Updates |-> temp[f]]
  /\ \A f \in Updates : /\ temp[f] \in [Slots(f) -> Cells]
                        /\ temp[f][0] # "missing" => Tailed(f)

LoopOK ==
  /\ phase \in {"need", "copy", "pull", "finish", "delete", "end", "returned"}
  /\ tries \in 1..MaxIterations
  /\ queue \in SUBSET Updates /\ dels \in SUBSET Deletions
  /\ popped \in Updates \cup {NoFile} /\ procErr \in BOOLEAN
  /\ result \in {"none", "true", "false", "error"}

OutsOK ==
  /\ jobs \in SUBSET Files /\ errors \in SUBSET Files
  /\ scans \in SUBSET Files /\ synced \in SUBSET Files

DiskOK ==
  /\ disk \in [Files -> Items]
  /\ edits \in 0..MaxEdits /\ ctxDone \in BOOLEAN

TypesOK ==
  /\ LoopOK /\ StateOK /\ TempOK /\ CopierOK /\ PullerOK /\ JobOK /\ FinOK /\ DelOK
  /\ OutsOK /\ DiskOK

(***************************************************************************)
(* The channels are closed one after the other.                            *)
(***************************************************************************)
PhaseOK ==
  /\ phase # "need" => popped = NoFile
  /\ phase \notin {"need", "copy"} => \A c \in Copiers : copier[c] = Idle
  /\ phase \notin {"need", "copy", "pull"} =>
       /\ puller = Idle
       /\ \A f \in Updates : \A b \in BlocksOf[f] : job[f][b] = "none"
  /\ phase \notin {"need", "copy", "pull", "finish"} => fin = Idle
  /\ phase # "delete" => del = Idle

(***************************************************************************)
(* Whoever has a file has one that was handed out in this iteration, to a  *)
(* single copier, and a block is in a single place.                        *)
(***************************************************************************)
OnOK ==
  /\ \A f \in queue : ~st[f].on
  /\ \A f \in Updates : ~st[f].on => st[f] = Unused
  /\ popped # NoFile => st[popped].on
  /\ \A c \in Copiers : copier[c] # Idle => st[copier[c].file].on
  /\ puller # Idle => st[puller.file].on
  /\ \A f \in Updates : \A b \in BlocksOf[f] : job[f][b] # "none" => st[f].on
  /\ fin # Idle => st[fin.file].on

AloneOK ==
  /\ \A c \in Copiers : copier[c] # Idle => copier[c].file # popped
  /\ \A c, d \in Copiers : copier[c] # Idle /\ copier[c].file = copier[d].file => c = d

BlockOK ==
  /\ \A c \in Copiers :
       copier[c].pc \in {"check", "write"} =>
         copier[c].block \in st[copier[c].file].todo
  /\ \A c \in Copiers :
       copier[c].pc = "send" =>
         /\ copier[c].block \notin st[copier[c].file].todo
         /\ st[copier[c].file].total # 0
         /\ job[copier[c].file][copier[c].block] = "none"
         /\ ~(puller.file = copier[c].file /\ puller.block = copier[c].block)
  /\ puller # Idle =>
       /\ puller.block \notin st[puller.file].todo
       /\ job[puller.file][puller.block] = "none"
  /\ \A f \in Updates : \A b \in BlocksOf[f] : job[f][b] # "none" => b \notin st[f].todo

(***************************************************************************)
(* The counters of a sharedPullerState.                                    *)
(***************************************************************************)
Pulled == {"open", "request", "data", "junk", "zero", "skip"}

Pulling(f) ==
  {b \in BlocksOf[f] :
     \/ \E c \in Copiers : copier[c] = At("send", f, b)
     \/ puller = At("got", f, b) \/ puller = At("take", f, b)
     \/ job[f][b] \in Pulled}

CountOne(f) ==
  /\ st[f].copyNeeded = Cardinality(st[f].todo)
  /\ Cardinality(st[f].todo) <= st[f].total
  /\ st[f].pullNeeded >= Cardinality(Pulling(f))
  /\ st[f].err = "none" => st[f].pullNeeded = Cardinality(Pulling(f))

CountOK == \A f \in Updates : CountOne(f)

(***************************************************************************)
(* What the temporary file of a file that has not failed holds.            *)
(***************************************************************************)
WriterOK ==
  /\ \A c \in Copiers : copier[c].pc = "write" =>
       st[copier[c].file].open \/ st[copier[c].file].closed
  /\ \A f \in Updates : \A b \in BlocksOf[f] :
       /\ job[f][b] \in {"request", "data", "junk", "zero", "skip"}
            => st[f].open \/ st[f].closed
       /\ job[f][b] \in {"request", "data"} => b \notin ZeroBlocks
       /\ job[f][b] = "zero" => b \in ZeroBlocks
       /\ job[f][b] = "skip" => b \in ZeroBlocks /\ ~DisableSparseFiles /\ ~st[f].reused
       /\ job[f][b] # "junk"

\* A block that needs no more work: it is right, or zeroes that are not written
\* and missing as the size could not be set.
Right(t, b) ==
  \/ t[b] = Want(b)
  \/ /\ t[b] = "missing" /\ b \in ZeroBlocks
     /\ TruncateFails /\ ~DisableSparseFiles

\* The size is set, or was never longer.
Cut(t) == DisableSparseFiles \/ t[0] = "missing"

Complete(f, b) ==
  IF st[f].open \/ st[f].reused THEN Right(temp[f], b)
                                ELSE b \in ZeroBlocks /\ ~DisableSparseFiles

Early(f) ==
  popped = f \/ \E c \in Copiers : copier[c].file = f /\ copier[c].pc = "block"

(* A file without blocks to fetch is with its copier alone until that has  *)
(* opened the temporary file.                                              *)
EarlyOK ==
  \A f \in Updates :
    st[f].total = 0 /\ Early(f) =>
       /\ ~st[f].closed /\ fin.file # f /\ puller.file # f
       /\ \A b \in BlocksOf[f] : job[f][b] = "none"

ReusedOne(f) ==
  st[f].on /\ st[f].reused /\ st[f].err = "none" /\ ~st[f].open /\ ~st[f].closed
    => st[f].todo # {} \/ Pulling(f) # {} \/ (st[f].total = 0 /\ Early(f))

ReusedOK == \A f \in Updates : ReusedOne(f)

ContentOne(f) ==
  st[f].on /\ st[f].err = "none" =>
    /\ st[f].closed => st[f].todo = {} /\ Pulling(f) = {}
    /\ ~st[f].closed =>
         /\ \A b \in BlocksOf[f] :
              b \in st[f].todo \/ b \in Pulling(f) \/ Complete(f, b)
         /\ st[f].open /\ ~st[f].reused /\ ~DisableSparseFiles =>
              \A b \in BlocksOf[f] \cap ZeroBlocks : Right(temp[f], b)
         /\ st[f].open => Cut(temp[f])

ContentOK == \A f \in Updates : ContentOne(f)

FinishOK ==
  fin.pc \in {"check", "replace", "rename"} =>
    /\ st[fin.file].closed /\ st[fin.file].err = "none"
    /\ \A b \in BlocksOf[fin.file] : Right(temp[fin.file], b)
    /\ Cut(temp[fin.file])

(***************************************************************************)
(* Who will hand a file to the finisher.                                   *)
(***************************************************************************)
Held(f) ==
  \/ popped = f \/ puller.file = f
  \/ \E c \in Copiers : copier[c].file = f
  \/ \E b \in BlocksOf[f] : job[f][b] # "none"
  \/ fin.pc = "close" /\ fin.file = f

HeldOK ==
  \A f \in Updates :
    /\ st[f].on /\ ~st[f].closed /\ f \notin noTemp => Held(f)
    /\ st[f].on /\ st[f].err = "none" /\ st[f].todo # {} =>
         popped = f \/ \E c \in Copiers : copier[c].file = f /\ copier[c].pc # "out"

(***************************************************************************)
(* Where a file's result is.                                               *)
(***************************************************************************)
ReportOK ==
  /\ \A f \in Updates :
       /\ f \in queue \/ f \in synced \/ f \in errors \/ st[f].on
       /\ st[f].closed => \/ f \in jobs \/ f \in errors \/ st[f].err = "ctx"
                          \/ fin.file = f /\ fin.pc # "close"
       /\ st[f].err = "ctx" => ctxDone
  /\ \A d \in Deletions :
       d \in dels \/ d \in synced \/ d \in errors \/ d \in jobs \/ del.file = d
  /\ procErr => ctxDone
  /\ phase \notin {"need", "returned"} /\ ~ctxDone => queue = {}
  /\ phase = "end" /\ ~ctxDone => dels = {}
  /\ result # "none" => phase = "returned"

(***************************************************************************)
(* The window in which an edit cannot be protected.                        *)
(***************************************************************************)
WindowOK ==
  /\ fin.pc = "replace" => disk[fin.file] \in {"cur", "alike", "late", "none"}
  /\ fin.pc = "rename" => disk[fin.file] \in {"late", "none"}
  /\ del.pc = "remove" => disk[del.file] \in {"cur", "alike", "late", "none", "away"}

Active ==
  {p \in Updates \X Blocks : p[2] \in BlocksOf[p[1]] /\ job[p[1]][p[2]] # "none"}

TakenOK == IsFiniteSet(Active) /\ taken = Cardinality(Active) /\ taken <= MaxPending

IInv ==
  /\ TypesOK /\ PhaseOK /\ OnOK /\ AloneOK /\ BlockOK /\ CountOK /\ WriterOK
  /\ EarlyOK /\ ReusedOK /\ ContentOK /\ FinishOK /\ HeldOK /\ ReportOK
  /\ WindowOK /\ TakenOK

----------------------------------------------------------------------------
(***************************************************************************)
(* Frames: what is left alone keeps its part of the invariant.             *)
(***************************************************************************)
LEMMA TypeFrames ==
  /\ LoopOK /\ UNCHANGED loop => LoopOK'
  /\ StateOK /\ UNCHANGED st => StateOK'
  /\ TempOK /\ UNCHANGED temp => TempOK'
  /\ CopierOK /\ UNCHANGED copier => CopierOK'
  /\ PullerOK /\ UNCHANGED puller => PullerOK'
  /\ JobOK /\ UNCHANGED job => JobOK'
  /\ FinOK /\ UNCHANGED fin => FinOK'
  /\ DelOK /\ UNCHANGED del => DelOK'
  /\ OutsOK /\ UNCHANGED outs => OutsOK'
  /\ DiskOK /\ UNCHANGED <<disk, edits, ctxDone>> => DiskOK'
<1>1. /\ LoopOK /\ UNCHANGED loop => LoopOK'
      /\ OutsOK /\ UNCHANGED outs => OutsOK'
      /\ DiskOK /\ UNCHANGED <<disk, edits, ctxDone>> => DiskOK'
  BY DEF loop, outs, LoopOK, OutsOK, DiskOK
<1>2. /\ StateOK /\ UNCHANGED st => StateOK'
      /\ TempOK /\ UNCHANGED temp => TempOK'
      /\ JobOK /\ UNCHANGED job => JobOK'
  BY DEF StateOK, TempOK, JobOK
<1>3. /\ CopierOK /\ UNCHANGED copier => CopierOK'
      /\ PullerOK /\ UNCHANGED puller => PullerOK'
      /\ FinOK /\ UNCHANGED fin => FinOK'
      /\ DelOK /\ UNCHANGED del => DelOK'
  BY DEF CopierOK, PullerOK, FinOK, DelOK, Worker, Idle
<1> QED
  BY <1>1, <1>2, <1>3

LEMMA SamePulling ==
  ASSUME UNCHANGED <<copier, puller, job>>, NEW f
  PROVE  Pulling(f)' = Pulling(f)
BY DEF Pulling, At

LEMMA Frames ==
  /\ PhaseOK /\ UNCHANGED <<phase, popped, copier, puller, job, fin, del>> => PhaseOK'
  /\ OnOK /\ UNCHANGED <<queue, st, popped, copier, puller, job, fin>> => OnOK'
  /\ AloneOK /\ UNCHANGED <<copier, popped>> => AloneOK'
  /\ BlockOK /\ UNCHANGED <<copier, st, job, puller>> => BlockOK'
  /\ CountOK /\ UNCHANGED <<st, copier, puller, job>> => CountOK'
  /\ WriterOK /\ UNCHANGED <<copier, st, job>> => WriterOK'
  /\ EarlyOK /\ UNCHANGED <<st, popped, copier, fin, puller, job>> => EarlyOK'
  /\ ReusedOK /\ UNCHANGED <<st, copier, puller, job, popped>> => ReusedOK'
  /\ ContentOK /\ UNCHANGED <<st, copier, puller, job, temp>> => ContentOK'
  /\ FinishOK /\ UNCHANGED <<fin, st, temp>> => FinishOK'
  /\ HeldOK /\ UNCHANGED <<st, noTemp, popped, puller, copier, job, fin>> => HeldOK'
  /\ ReportOK /\ UNCHANGED <<queue, dels, synced, errors, jobs, st, fin, del, phase,
                             procErr, result, ctxDone>> => ReportOK'
  /\ WindowOK /\ UNCHANGED <<fin, del, disk>> => WindowOK'
  /\ TakenOK /\ UNCHANGED <<job, taken>> => TakenOK'
<1>1. PhaseOK /\ UNCHANGED <<phase, popped, copier, puller, job, fin, del>> => PhaseOK'
  BY DEF PhaseOK, Idle
<1>2. OnOK /\ UNCHANGED <<queue, st, popped, copier, puller, job, fin>> => OnOK'
  BY DEF OnOK, Idle, Unused
<1>3. AloneOK /\ UNCHANGED <<copier, popped>> => AloneOK'
  BY DEF AloneOK, Idle
<1>4. BlockOK /\ UNCHANGED <<copier, st, job, puller>> => BlockOK'
  BY DEF BlockOK, Idle
<1>5. CountOK /\ UNCHANGED <<st, copier, puller, job>> => CountOK'
  BY SamePulling DEF CountOK, CountOne
<1>6. WriterOK /\ UNCHANGED <<copier, st, job>> => WriterOK'
  BY DEF WriterOK
<1>7. EarlyOK /\ UNCHANGED <<st, popped, copier, fin, puller, job>> => EarlyOK'
  BY DEF EarlyOK, Early
<1>8. ReusedOK /\ UNCHANGED <<st, copier, puller, job, popped>> => ReusedOK'
  BY SamePulling DEF ReusedOK, ReusedOne, Early
<1>9. ContentOK /\ UNCHANGED <<st, copier, puller, job, temp>> => ContentOK'
  BY SamePulling DEF ContentOK, ContentOne, Complete, Right, Cut
<1>10. FinishOK /\ UNCHANGED <<fin, st, temp>> => FinishOK'
  BY DEF FinishOK, Right, Cut
<1>11. HeldOK /\ UNCHANGED <<st, noTemp, popped, puller, copier, job, fin>> => HeldOK'
  BY DEF HeldOK, Held
<1>12. ReportOK /\ UNCHANGED <<queue, dels, synced, errors, jobs, st, fin, del, phase,
                               procErr, result, ctxDone>> => ReportOK'
  BY DEF ReportOK
<1>13. WindowOK /\ UNCHANGED <<fin, del, disk>> => WindowOK'
  BY DEF WindowOK
<1>14. TakenOK /\ UNCHANGED <<job, taken>> => TakenOK'
  BY DEF TakenOK, Active
<1> QED
  BY <1>1, <1>2, <1>3, <1>4, <1>5, <1>6, <1>7, <1>8, <1>9, <1>10, <1>11, <1>12,
     <1>13, <1>14

----------------------------------------------------------------------------
(***************************************************************************)
(* Blocks can be counted.                                                  *)
(***************************************************************************)
LEMMA BlockFacts ==
  ASSUME NEW f \in Updates
  PROVE  /\ BlocksOf[f] \subseteq Blocks /\ BlocksOf[f] \subseteq Nat /\ 0 \notin BlocksOf[f]
         /\ \A T \in SUBSET BlocksOf[f] : IsFiniteSet(T) /\ Cardinality(T) \in Nat
<1>1. BlocksOf[f] \subseteq Blocks
  BY DEF Blocks
<1>2. Blocks \subseteq Nat /\ 0 \notin Blocks /\ IsFiniteSet(Blocks)
  BY PullerAssumption
<1>3. ASSUME NEW T \in SUBSET BlocksOf[f]
      PROVE  IsFiniteSet(T) /\ Cardinality(T) \in Nat
  <2>1. T \in SUBSET Blocks
    BY <1>1, <1>3
  <2> HIDE DEF Blocks
  <2>2. IsFiniteSet(T)
    BY <1>2, <2>1, FS_Subset
  <2> QED
    BY <2>2, FS_CardinalityType
<1> QED
  BY <1>1, <1>2, <1>3

LEMMA PullingFacts ==
  ASSUME NEW f \in Updates
  PROVE  /\ Pulling(f) \subseteq BlocksOf[f] /\ Pulling(f)' \subseteq BlocksOf[f]
         /\ IsFiniteSet(Pulling(f)) /\ Cardinality(Pulling(f)) \in Nat
         /\ IsFiniteSet(Pulling(f)') /\ Cardinality(Pulling(f)') \in Nat
<1>1. Pulling(f) \subseteq BlocksOf[f] /\ Pulling(f)' \subseteq BlocksOf[f]
  BY DEF Pulling
<1> QED
  BY <1>1, BlockFacts

LEMMA NoFileFacts == NoFile \notin Updates /\ NoFile \notin Deletions
BY PullerAssumption DEF Files

LEMMA Limits ==
  MaxIterations \in Nat \ {0} /\ MaxPending \in Nat \ {0} /\ MaxEdits \in Nat
BY PullerAssumption

LEMMA UnusedType ==
  /\ Unused \in States
  /\ Unused.todo = {} /\ Unused.err = "none" /\ ~Unused.on /\ ~Unused.open
  /\ ~Unused.closed /\ ~Unused.reused
  /\ Unused.total = 0 /\ Unused.copyNeeded = 0 /\ Unused.pullNeeded = 0
BY DEF Unused, States

----------------------------------------------------------------------------
(***************************************************************************)
(* What creating, opening and writing a temporary file does to it.         *)
(***************************************************************************)
LEMMA NoTempFacts ==
  ASSUME NEW f
  PROVE  NoTemp(f) \in [Slots(f) -> Cells] /\ NoTemp(f)[0] = "missing"
BY DEF NoTemp, Slots, Cells

LEMMA SlotFacts ==
  ASSUME NEW f \in Updates
  PROVE  0 \in Slots(f) /\ \A b \in BlocksOf[f] : b \in Slots(f) /\ b # 0 /\ b \in Nat
BY BlockFacts DEF Slots

LEMMA TruncatedFacts ==
  ASSUME NEW f \in Updates, NEW t \in [Slots(f) -> Cells]
  PROVE  /\ Truncated(t) \in [Slots(f) -> Cells] /\ Truncated(t)[0] = "missing"
         /\ \A b \in BlocksOf[f] :
              Truncated(t)[b] = IF t[b] = "missing" THEN "zero" ELSE t[b]
<1>1. DOMAIN t = Slots(f)
  OBVIOUS
<1>2. Truncated(t) = [b \in Slots(f) |-> CASE b = 0 -> "missing"
                                         [] b # 0 /\ t[b] = "missing" -> "zero"
                                         [] b # 0 /\ t[b] # "missing" -> t[b]]
  BY <1>1 DEF Truncated
<1>3. ASSUME NEW b \in Slots(f)
      PROVE  /\ b = 0 => Truncated(t)[b] = "missing"
             /\ b # 0 => Truncated(t)[b] = IF t[b] = "missing" THEN "zero" ELSE t[b]
  BY <1>2
<1>4. \A b \in Slots(f) : Truncated(t)[b] \in Cells
  BY <1>3 DEF Cells
<1>5. Truncated(t) \in [Slots(f) -> Cells]
  BY <1>2, <1>4
<1> QED
  BY <1>3, <1>5, SlotFacts

\* Opening the file loses no block that is right and leaves no tail where the
\* size is set.
LEMMA OpenedFacts ==
  ASSUME TempOK, NEW f \in Updates, NEW t \in Opened(f)
  PROVE  /\ t \in [Slots(f) -> Cells] /\ (t[0] # "missing" => Tailed(f)) /\ Cut(t)
         /\ st[f].reused => \A b \in BlocksOf[f] : Right(temp[f], b) => Right(t, b)
         /\ ~st[f].reused /\ ~DisableSparseFiles =>
              \A b \in BlocksOf[f] \cap ZeroBlocks : Right(t, b)
<1> DEFINE o == IF st[f].reused THEN temp[f] ELSE NoTemp(f)
<1>1. o \in [Slots(f) -> Cells] /\ (o[0] # "missing" => Tailed(f))
  BY NoTempFacts DEF TempOK
<1>2. \/ DisableSparseFiles /\ t = o
      \/ ~DisableSparseFiles /\ t = Truncated(o)
      \/ ~DisableSparseFiles /\ TruncateFails /\ ~st[f].reused /\ t = NoTemp(f)
  BY DEF Opened
<1>3. /\ t \in [Slots(f) -> Cells] /\ (t[0] # "missing" => Tailed(f)) /\ Cut(t)
  <2> HIDE DEF o
  <2> QED
    BY <1>1, <1>2, TruncatedFacts, NoTempFacts DEF Cut
<1>4. ASSUME NEW b \in BlocksOf[f], st[f].reused, Right(temp[f], b)
      PROVE  Right(t, b)
  <2>1. o = temp[f]
    BY <1>4
  <2>2. CASE DisableSparseFiles
    BY <1>2, <1>4, <2>1, <2>2
  <2>3. CASE ~DisableSparseFiles
    <3>1. t[b] = IF temp[f][b] = "missing" THEN "zero" ELSE temp[f][b]
      BY <1>1, <1>2, <1>4, <2>1, <2>3, TruncatedFacts
    <3> QED
      BY <1>4, <3>1 DEF Right, Want
  <2> QED
    BY <2>2, <2>3
<1>5. ASSUME NEW b \in BlocksOf[f] \cap ZeroBlocks, ~st[f].reused, ~DisableSparseFiles
      PROVE  Right(t, b)
  <2>1. o = NoTemp(f) /\ NoTemp(f)[b] = "missing"
    BY <1>5, SlotFacts DEF NoTemp
  <2>2. CASE t = Truncated(o)
    <3>1. t[b] = "zero"
      BY <1>1, <1>5, <2>1, <2>2, TruncatedFacts
    <3> QED
      BY <1>5, <3>1 DEF Right, Want
  <2>3. CASE TruncateFails /\ t = NoTemp(f)
    BY <1>5, <2>1, <2>3 DEF Right
  <2> QED
    BY <1>2, <1>5, <2>2, <2>3
<1> QED
  BY <1>3, <1>4, <1>5

\* A write of the right block loses none that is right.
LEMMA WrittenFacts ==
  ASSUME NEW f \in Updates, NEW t \in [Slots(f) -> Cells], NEW b \in BlocksOf[f]
  PROVE  LET w == Written(t, b, Want(b)) IN
         /\ w \in [Slots(f) -> Cells] /\ w[0] = t[0] /\ w[b] = Want(b)
         /\ \A a \in BlocksOf[f] : Right(t, a) => Right(w, a)
<1> DEFINE w == Written(t, b, Want(b))
<1>1. w = [c \in Slots(f) |-> CASE c = b -> Want(b)
                               [] c # b /\ c \in 1..b /\ t[c] = "missing" -> "zero"
                               [] c # b /\ ~(c \in 1..b /\ t[c] = "missing") -> t[c]]
  BY DEF Written
<1> HIDE DEF w
<1>2. Want(b) \in Cells
  BY DEF Want, Cells
<1>3. b \in Slots(f) /\ b # 0 /\ 0 \in Slots(f) /\ 0 \notin 1..b
  BY SlotFacts
<1>4. ASSUME NEW c \in Slots(f)
      PROVE  /\ c = b => w[c] = Want(b)
             /\ c # b => w[c] = t[c] \/ (t[c] = "missing" /\ w[c] = "zero" /\ c \in 1..b)
  BY <1>1
<1>5. w \in [Slots(f) -> Cells]
  <2>1. \A c \in Slots(f) : w[c] \in Cells
    BY <1>2, <1>4 DEF Cells
  <2> QED
    BY <1>1, <2>1
<1>6. w[0] = t[0] /\ w[b] = Want(b)
  BY <1>3, <1>4
<1>7. ASSUME NEW a \in BlocksOf[f], Right(t, a) PROVE Right(w, a)
  <2>1. a \in Slots(f)
    BY SlotFacts
  <2> QED
    BY <1>4, <1>7, <2>1 DEF Right, Want
<1> QED
  BY <1>5, <1>6, <1>7 DEF w

----------------------------------------------------------------------------
LEMMA InitOK == Init => IInv
<1> SUFFICES ASSUME Init PROVE IInv
  OBVIOUS
<1>1. /\ \A f \in Updates : st[f] = Unused
      /\ st \in [Updates -> States]
  BY UnusedType DEF Init
<1>2. \A c \in Copiers : copier[c] = Idle
  BY DEF Init
<1>3. /\ \A f \in Updates : \A b \in BlocksOf[f] : job[f][b] = "none"
      /\ JobOK
  BY DEF Init, JobOK, JobPcs
<1>4. puller = Idle /\ fin = Idle /\ del = Idle /\ popped = NoFile /\ phase = "need"
  BY DEF Init
<1>5. Idle.pc = "idle" /\ Idle.file = NoFile /\ Idle.block = 0
      /\ Idle = [pc |-> "idle", file |-> NoFile, block |-> 0]
  BY DEF Idle
<1>6. TypesOK
  <2>1. LoopOK
    <3>1. tries \in 1..MaxIterations
      BY Limits DEF Init
    <3> QED
      BY <3>1 DEF Init, LoopOK
  <2>2. StateOK
    BY <1>1, UnusedType DEF StateOK
  <2>3. TempOK
    <3>1. /\ temp \in [Updates -> UNION {OldTemps(f) : f \in Updates}]
          /\ \A f \in Updates : temp[f] \in OldTemps(f)
      BY DEF Init
    <3> QED
      BY <3>1, OldTempsAssumption DEF TempOK, Tailed
  <2>4. CopierOK
    BY <1>2, <1>5 DEF Init, CopierOK, Worker
  <2>5. PullerOK /\ FinOK /\ DelOK
    BY <1>4, <1>5 DEF PullerOK, FinOK, DelOK, Worker
  <2>6. OutsOK
    BY DEF Init, OutsOK
  <2>7. DiskOK
    <3>1. edits = 0 /\ ctxDone = FALSE
      BY DEF Init
    <3>2. disk \in [Files -> Items]
      BY DEF Init, Items
    <3>3. edits \in 0..MaxEdits
      BY <3>1, Limits
    <3>4. ctxDone \in BOOLEAN
      BY <3>1
    <3> QED
      BY <3>2, <3>3, <3>4, Zenon DEF DiskOK
  <2> QED
    BY <1>3, <2>1, <2>2, <2>3, <2>4, <2>5, <2>6, <2>7 DEF TypesOK
<1>7. PhaseOK
  BY <1>4 DEF PhaseOK
<1>8. OnOK
  BY <1>1, <1>2, <1>3, <1>4, UnusedType DEF OnOK, Init
<1>9. AloneOK /\ BlockOK /\ WriterOK
  BY <1>2, <1>3, <1>4, <1>5 DEF AloneOK, BlockOK, WriterOK
<1>10. \A f \in Updates : Pulling(f) = {}
  BY <1>2, <1>3, <1>4, <1>5 DEF Pulling, Pulled, At
<1>11. CountOK
  BY <1>1, <1>10, UnusedType, FS_EmptySet DEF CountOK, CountOne
<1>12. EarlyOK /\ ReusedOK /\ ContentOK /\ FinishOK /\ HeldOK
  BY <1>1, <1>2, <1>3, <1>4, <1>5, UnusedType, NoFileFacts
     DEF EarlyOK, Early, ReusedOK, ReusedOne, ContentOK, ContentOne, FinishOK, HeldOK
<1>13. ReportOK
  BY <1>1, UnusedType DEF ReportOK, Init
<1>14. WindowOK
  BY <1>4, <1>5 DEF WindowOK
<1>15. TakenOK
  <2>1. Active = {}
    BY <1>3 DEF Active
  <2> QED
    BY <2>1, FS_EmptySet, Limits DEF TakenOK, Init
<1> QED
  BY <1>6, <1>7, <1>8, <1>9, <1>11, <1>12, <1>13, <1>14, <1>15 DEF IInv

----------------------------------------------------------------------------
(***************************************************************************)
(* The end of each channel, and a file that is rejected.                   *)
(***************************************************************************)
LEMMA WaitsStep ==
  ASSUME IInv,
         QueueEnds \/ CopiersEnd \/ PullersEnd \/ FinisherEnds \/ DeletionsEnd
  PROVE  IInv'
<1>1. /\ UNCHANGED <<tries, queue, dels, popped, result, st, temp, copier,
                     puller, job, taken, fin, del, jobs, errors, scans, synced,
                     row, conflict, disk, edits, destroyed, ctxDone, noTemp>>
      /\ \/ phase = "need" /\ phase' = "copy" /\ popped = NoFile
            /\ procErr' = ctxDone /\ (queue = {} \/ ctxDone)
         \/ phase = "copy" /\ phase' = "pull" /\ UNCHANGED procErr
            /\ \A c \in Copiers : copier[c] = Idle
         \/ phase = "pull" /\ phase' = "finish" /\ UNCHANGED procErr
            /\ puller = Idle
            /\ \A f \in Updates : \A b \in BlocksOf[f] : job[f][b] = "none"
         \/ phase = "finish" /\ phase' = (IF procErr THEN "end" ELSE "delete")
            /\ UNCHANGED procErr /\ fin = Idle
         \/ phase = "delete" /\ phase' = "end" /\ UNCHANGED procErr /\ del = Idle
            /\ (dels = {} \/ ctxDone)
  BY DEF QueueEnds, CopiersEnd, PullersEnd, FinisherEnds, DeletionsEnd, Waits, outs,
         disks
<1>2. LoopOK'
  BY <1>1 DEF IInv, TypesOK, LoopOK, DiskOK
<1>3. TypesOK'
  BY <1>1, <1>2, TypeFrames DEF IInv, TypesOK, outs
<1>4. PhaseOK'
  BY <1>1 DEF IInv, PhaseOK, TypesOK, LoopOK
<1>5. ReportOK'
  BY <1>1 DEF IInv, ReportOK, TypesOK, LoopOK
<1> QED
  BY <1>1, <1>3, <1>4, <1>5, Frames DEF IInv

LEMMA RejectStep ==
  ASSUME IInv, NEW f \in Updates, Reject(f)
  PROVE  IInv'
<1>1. /\ UNCHANGED <<phase, tries, dels, popped, procErr, result, st, temp, copier,
                     puller, job, taken, fin, del, jobs, scans, synced, row,
                     conflict, disk, edits, destroyed, ctxDone, noTemp>>
      /\ queue' = queue \ {f} /\ errors' = errors \cup {f} /\ phase = "need"
  BY DEF Reject, Pop, disks
<1>2. LoopOK' /\ OutsOK'
  BY <1>1 DEF IInv, TypesOK, LoopOK, OutsOK, Files
<1>3. TypesOK'
  BY <1>1, <1>2, TypeFrames DEF IInv, TypesOK
<1>4. OnOK'
  BY <1>1 DEF IInv, OnOK, Idle, Unused
<1>5. ReportOK'
  BY <1>1 DEF IInv, ReportOK
<1> QED
  BY <1>1, <1>3, <1>4, <1>5, Frames DEF IInv

----------------------------------------------------------------------------
(***************************************************************************)
(* A file of the queue is in nobody's hands.                               *)
(***************************************************************************)
LEMMA Untouched ==
  ASSUME IInv, NEW f \in Updates, ~st[f].on
  PROVE  /\ st[f] = Unused /\ popped # f /\ puller.file # f /\ fin.file # f
         /\ \A c \in Copiers : copier[c].file # f
         /\ \A b \in BlocksOf[f] : job[f][b] = "none"
         /\ Pulling(f) = {}
<1>1. st[f] = Unused /\ popped # f
  BY NoFileFacts DEF IInv, OnOK
<1>2. puller.file # f /\ fin.file # f /\ \A c \in Copiers : copier[c].file # f
  BY NoFileFacts DEF IInv, OnOK, Idle
<1>3. \A b \in BlocksOf[f] : job[f][b] = "none"
  BY DEF IInv, OnOK
<1>4. Pulling(f) = {}
  BY <1>2, <1>3 DEF Pulling, Pulled, At
<1> QED
  BY <1>1, <1>2, <1>3, <1>4

LEMMA HandleFileStep ==
  ASSUME IInv, NEW f \in Updates, NEW hashed \in BOOLEAN, HandleFile(f, hashed)
  PROVE  IInv'
<1> DEFINE have == IF hashed THEN Reusable(f) ELSE {}
           need == BlocksOf[f] \ have
           R == [Unused EXCEPT !.on = TRUE, !.todo = need,
                               !.total = Cardinality(need),
                               !.copyNeeded = Cardinality(need),
                               !.reused = have # {}]
<1>1. /\ UNCHANGED <<phase, tries, dels, procErr, result, copier, puller, job, taken,
                     fin, del, jobs, errors, scans, synced, row, conflict, disk,
                     edits, destroyed, ctxDone, noTemp>>
      /\ queue' = queue \ {f} /\ popped' = f /\ popped = NoFile /\ phase = "need"
      /\ f \in queue
  BY DEF HandleFile, Pop, outs, disks
<1>2. /\ temp' = [temp EXCEPT ![f] = IF have = {} THEN NoTemp(f) ELSE @]
      /\ st' = [st EXCEPT ![f] = R]
  BY DEF HandleFile
<1>3. ~st[f].on
  BY <1>1 DEF IInv, OnOK
<1>4. /\ need \in SUBSET BlocksOf[f] /\ have \in SUBSET BlocksOf[f]
      /\ need \in SUBSET Blocks
      /\ IsFiniteSet(need) /\ Cardinality(need) \in Nat
      /\ Cardinality(need) = 0 <=> need = {}
  BY BlockFacts, FS_EmptySet DEF Reusable
<1>5. /\ R.on /\ R.err = "none" /\ ~R.open /\ R.todo = need
      /\ R.total = Cardinality(need) /\ R.copyNeeded = Cardinality(need)
      /\ R.pullNeeded = 0 /\ ~R.closed /\ R.reused = (have # {})
  BY DEF Unused
<1>6. R \in States
  <2>1. (have # {}) \in BOOLEAN
    OBVIOUS
  <2> HIDE DEF have, need
  <2> QED
    BY <1>4, <2>1 DEF Unused, States
<1> HIDE DEF R, have
<1>7. /\ st' \in [Updates -> States] /\ st'[f] = R
      /\ \A g \in Updates \ {f} : st'[g] = st[g]
  BY <1>2, <1>6 DEF IInv, TypesOK, StateOK
<1>8. /\ temp'[f] = IF have = {} THEN NoTemp(f) ELSE temp[f]
      /\ \A g \in Updates \ {f} : temp'[g] = temp[g]
      /\ temp' = [g \in Updates |-> temp'[g]]
  BY <1>2 DEF IInv, TypesOK, TempOK
<1>9. \A g \in Updates : Pulling(g)' = Pulling(g)
  BY <1>1, SamePulling
<1>10. /\ popped # f /\ puller.file # f /\ fin.file # f
       /\ \A c \in Copiers : copier[c].file # f
       /\ \A b \in BlocksOf[f] : job[f][b] = "none"
       /\ Pulling(f) = {}
  BY <1>3, Untouched
<1>11. TypesOK'
  <2>1. LoopOK'
    BY <1>1 DEF IInv, TypesOK, LoopOK
  <2>2. StateOK'
    BY <1>4, <1>5, <1>7 DEF IInv, TypesOK, StateOK
  <2>3. TempOK'
    BY <1>8, NoTempFacts DEF IInv, TypesOK, TempOK
  <2> QED
    BY <1>1, <2>1, <2>2, <2>3, TypeFrames DEF IInv, TypesOK, outs
<1>12. PhaseOK'
  BY <1>1 DEF IInv, PhaseOK, Idle
<1>13. OnOK'
  BY <1>1, <1>5, <1>7, <1>10, NoFileFacts DEF IInv, OnOK, TypesOK, CopierOK, PullerOK,
     FinOK, LoopOK, Worker, Idle
<1>14. AloneOK'
  BY <1>1, <1>10 DEF IInv, AloneOK, Idle
<1>15. BlockOK'
  BY <1>1, <1>7, <1>10 DEF IInv, BlockOK, TypesOK, CopierOK, PullerOK, Worker, Idle
<1>16. CountOK'
  <2>1. Cardinality(Pulling(f)') = 0
    BY <1>9, <1>10, FS_EmptySet
  <2> HIDE DEF need
  <2>2. /\ st'[f].copyNeeded = Cardinality(st'[f].todo)
        /\ Cardinality(st'[f].todo) <= st'[f].total /\ st'[f].pullNeeded = 0
    BY <1>4, <1>5, <1>7
  <2> QED
    BY <1>7, <1>9, <2>1, <2>2 DEF IInv, CountOK, CountOne
<1>17. WriterOK'
  BY <1>1, <1>7, <1>10 DEF IInv, WriterOK, TypesOK, CopierOK, Worker, Idle
<1>18. EarlyOK'
  BY <1>1, <1>5, <1>7, <1>10 DEF IInv, EarlyOK, Early
<1>19. ReusedOK'
  BY <1>1, <1>4, <1>5, <1>7, <1>9, <1>10, NoFileFacts DEF IInv, ReusedOK, ReusedOne, Early
<1>20. ContentOK'
  <2>1. ASSUME have # {} PROVE \A b \in have : temp'[f][b] = Want(b)
    BY <1>8, <2>1 DEF have, Reusable
  <2>2. \A b \in BlocksOf[f] : b \in need \/ b \in have
    OBVIOUS
  <2>3. ASSUME NEW g \in Updates \ {f}
        PROVE  \A b \in BlocksOf[g] : Complete(g, b)' <=> Complete(g, b)
    BY <1>7, <1>8 DEF Complete, Right, Want
  <2> HIDE DEF need
  <2>4. \A b \in BlocksOf[f] : b \in st'[f].todo \/ Complete(f, b)'
    BY <1>5, <1>7, <2>1, <2>2 DEF Complete, Right, Want
  <2> QED
    BY <1>5, <1>7, <1>8, <1>9, <2>3, <2>4 DEF IInv, ContentOK, ContentOne, Right, Cut
<1>21. FinishOK'
  BY <1>1, <1>7, <1>8, <1>10 DEF IInv, FinishOK, Right, Cut, TypesOK, FinOK, Worker, Idle
<1>22. HeldOK'
  BY <1>1, <1>7, NoFileFacts DEF IInv, HeldOK, Held
<1>23. ReportOK'
  BY <1>1, <1>5, <1>7 DEF IInv, ReportOK
<1> QED
  BY <1>1, <1>11, <1>12, <1>13, <1>14, <1>15, <1>16, <1>17, <1>18, <1>19, <1>20,
     <1>21, <1>22, <1>23, Frames DEF IInv

LEMMA CopierReceiveStep ==
  ASSUME IInv, NEW c \in Copiers, CopierReceive(c)
  PROVE  IInv'
<1> DEFINE f == popped
<1>1. /\ UNCHANGED <<phase, tries, queue, dels, procErr, result, st, temp, puller, job,
                     taken, fin, del, jobs, errors, scans, synced, row, conflict,
                     disk, edits, destroyed, ctxDone, noTemp>>
      /\ f # NoFile /\ copier[c] = Idle /\ popped' = NoFile
      /\ copier' = [copier EXCEPT ![c] = At("block", f, 0)]
  BY DEF CopierReceive, outs, disks
<1>2. f \in Updates /\ phase = "need" /\ st[f].on
  BY <1>1 DEF IInv, TypesOK, LoopOK, PhaseOK, OnOK
<1>3. /\ copier'[c] = At("block", f, 0) /\ \A d \in Copiers \ {c} : copier'[d] = copier[d]
      /\ copier' = [d \in Copiers |-> copier'[d]]
  BY <1>1 DEF IInv, TypesOK, CopierOK
<1>4. /\ copier'[c].pc = "block" /\ copier'[c].file = f /\ copier'[c].block = 0
      /\ copier'[c] = [pc |-> "block", file |-> f, block |-> 0]
  BY <1>3 DEF At
<1>5. /\ Idle.pc = "idle" /\ Idle.file = NoFile
      /\ \A d \in Copiers : copier[d] # Idle => copier[d].file # f
  BY DEF IInv, AloneOK, Idle
<1> HIDE DEF f
<1>6. \A g \in Updates : Pulling(g)' = Pulling(g)
  BY <1>1, <1>3, <1>4 DEF Pulling, At, Idle
<1>7. \A g \in Updates : Early(g)' <=> Early(g)
  BY <1>1, <1>3, <1>4, <1>5, NoFileFacts DEF Early, f
<1>8. TypesOK'
  <2>1. LoopOK'
    BY <1>1 DEF IInv, TypesOK, LoopOK
  <2>2. CopierOK'
    BY <1>2, <1>3, <1>4, <1>5 DEF IInv, TypesOK, CopierOK, Worker, Idle
  <2> QED
    BY <1>1, <2>1, <2>2, TypeFrames DEF IInv, TypesOK, outs
<1>9. PhaseOK'
  BY <1>1, <1>2 DEF IInv, PhaseOK
<1>10. OnOK'
  BY <1>1, <1>2, <1>3, <1>4 DEF IInv, OnOK, Idle, Unused
<1>11. AloneOK'
  BY <1>1, <1>2, <1>3, <1>4, <1>5, NoFileFacts DEF IInv, AloneOK, TypesOK, CopierOK, Worker,
     Idle
<1>12. BlockOK' /\ WriterOK'
  BY <1>1, <1>3, <1>4 DEF IInv, BlockOK, WriterOK, Idle
<1>13. CountOK' /\ ReusedOK'
  BY <1>1, <1>6, <1>7 DEF IInv, CountOK, CountOne, ReusedOK, ReusedOne
<1>14. EarlyOK'
  BY <1>1, <1>7 DEF IInv, EarlyOK
<1>15. ContentOK'
  BY <1>1, <1>6 DEF IInv, ContentOK, ContentOne, Complete, Right, Cut
<1>16. HeldOK'
  BY <1>1, <1>3, <1>4, <1>5, NoFileFacts DEF IInv, HeldOK, Held, f
<1> QED
  BY <1>1, <1>8, <1>9, <1>10, <1>11, <1>12, <1>13, <1>14, <1>15, <1>16, Frames DEF IInv

----------------------------------------------------------------------------
(***************************************************************************)
(* What the operations on a sharedPullerState leave alone and what they    *)
(* change.                                                                 *)
(***************************************************************************)
Kept(f) ==
  /\ st' \in [Updates -> States] /\ \A g \in Updates \ {f} : st'[g] = st[g]
  /\ st'[f].on = st[f].on /\ st'[f].total = st[f].total /\ st'[f].reused = st[f].reused
  /\ st'[f].closed = st[f].closed

TempKept(f) ==
  /\ temp' = [g \in Updates |-> temp'[g]] /\ temp'[f] \in [Slots(f) -> Cells]
  /\ temp'[f][0] # "missing" => Tailed(f)
  /\ \A g \in Updates \ {f} : temp'[g] = temp[g]

LEMMA SameKept ==
  ASSUME StateOK, TempOK, NEW f \in Updates
  PROVE  UNCHANGED st => Kept(f) /\ (UNCHANGED temp => TempKept(f))
BY DEF StateOK, TempOK, Kept, TempKept

LEMMA SameTemp ==
  ASSUME TempOK, NEW f \in Updates, UNCHANGED temp
  PROVE  TempKept(f)
BY DEF TempOK, TempKept

LEMMA FailSt ==
  ASSUME StateOK, NEW f \in Updates, NEW e \in {"io", "ctx"}, st' = Fail(st, f, e)
  PROVE  /\ Kept(f) /\ st'[f].open = st[f].open /\ st'[f].todo = st[f].todo
         /\ st'[f].copyNeeded = st[f].copyNeeded /\ st'[f].pullNeeded = st[f].pullNeeded
         /\ st'[f].err = IF st[f].err = "none" THEN e ELSE st[f].err
BY DEF StateOK, States, Fail, Kept

LEMMA FailErr ==
  ASSUME DiskOK, NEW e \in IOError
  PROVE  e \in {"io", "ctx"} /\ (e = "ctx" => ctxDone)
BY DEF DiskOK, IOError

LEMMA CopiedSt ==
  ASSUME StateOK, NEW f \in Updates, NEW b \in st[f].todo, st[f].copyNeeded # 0,
         st' = [CopyDone(st, f) EXCEPT ![f].todo = @ \ {b}]
  PROVE  /\ Kept(f) /\ st'[f].open = st[f].open /\ st'[f].todo = st[f].todo \ {b}
         /\ st'[f].copyNeeded = st[f].copyNeeded - 1
         /\ st'[f].pullNeeded = st[f].pullNeeded
         /\ st'[f].err = st[f].err
BY DEF StateOK, States, CopyDone, Kept

LEMMA PassedSt ==
  ASSUME StateOK, NEW f \in Updates, NEW b \in st[f].todo, st[f].copyNeeded # 0,
         st' = [PullStarted(st, f) EXCEPT ![f].todo = @ \ {b}]
  PROVE  /\ Kept(f) /\ st'[f].open = st[f].open /\ st'[f].todo = st[f].todo \ {b}
         /\ st'[f].copyNeeded = st[f].copyNeeded - 1
         /\ st'[f].pullNeeded = st[f].pullNeeded + 1
         /\ st'[f].err = st[f].err
BY DEF StateOK, States, PullStarted, Kept

LEMMA PulledSt ==
  ASSUME StateOK, NEW f \in Updates, st[f].pullNeeded # 0, st' = PullDone(st, f)
  PROVE  /\ Kept(f) /\ st'[f].open = st[f].open /\ st'[f].todo = st[f].todo
         /\ st'[f].copyNeeded = st[f].copyNeeded
         /\ st'[f].pullNeeded = st[f].pullNeeded - 1
         /\ st'[f].err = st[f].err
BY DEF StateOK, States, PullDone, Kept

\* tempFile opens the file, or finds it open, or fails; only with the first is
\* the temporary file of a file that has not failed a new one.
LEMMA TempFileSt ==
  ASSUME StateOK, TempOK, NEW f \in Updates, NEW got \in BOOLEAN, TempFile(f, got)
  PROVE  /\ Kept(f) /\ TempKept(f) /\ st'[f].todo = st[f].todo
         /\ st'[f].copyNeeded = st[f].copyNeeded /\ st'[f].pullNeeded = st[f].pullNeeded
         /\ st[f].open => st'[f].open
         /\ st'[f].err \in {st[f].err, "io"}
         /\ st[f].err # "none" => st'[f].err = st[f].err
         /\ st[f].err # "none" \/ st[f].open => UNCHANGED <<st, temp>>
         /\ got => st'[f].err = "none" /\ st[f].err = "none" /\ st'[f].open
         /\ ~got => st'[f].err # "none"
         /\ st'[f].err = "none" /\ ~st[f].open => temp'[f] \in Opened(f)
<1>1. CASE st[f].err # "none" \/ st[f].open
  <2>1. UNCHANGED <<st, temp>> /\ (got <=> st[f].err = "none")
    BY <1>1 DEF TempFile
  <2> QED
    BY <1>1, <2>1, SameKept
<1>2. CASE ~(st[f].err # "none" \/ st[f].open)
  <2>1. /\ AddWriterLocked(f, got)
        /\ st' = IF got THEN [st EXCEPT ![f].open = TRUE] ELSE Fail(st, f, "io")
    BY <1>2 DEF TempFile
  <2>2. \/ got /\ \E t \in Opened(f) : temp' = [temp EXCEPT ![f] = t]
        \/ ~got /\ UNCHANGED temp
        \/ ~got /\ temp' = [temp EXCEPT ![f] = NoTemp(f)]
    BY <2>1 DEF AddWriterLocked
  <2>3. \A t \in Opened(f) : t \in [Slots(f) -> Cells] /\ (t[0] # "missing" => Tailed(f))
    BY OpenedFacts
  <2>4. TempKept(f)
    BY <2>2, <2>3, NoTempFacts DEF TempOK, TempKept
  <2>5. got => temp'[f] \in Opened(f)
    BY <2>2 DEF TempOK
  <2>6. ASSUME got
        PROVE  /\ Kept(f) /\ st'[f].todo = st[f].todo
               /\ st'[f].copyNeeded = st[f].copyNeeded
               /\ st'[f].pullNeeded = st[f].pullNeeded
               /\ st'[f].open /\ st'[f].err = st[f].err
    BY <2>1, <2>6 DEF StateOK, States, Kept
  <2>7. ASSUME ~got
        PROVE  /\ Kept(f) /\ st'[f].todo = st[f].todo
               /\ st'[f].copyNeeded = st[f].copyNeeded
               /\ st'[f].pullNeeded = st[f].pullNeeded
               /\ st'[f].open = st[f].open /\ st'[f].err = "io"
    BY <1>2, <2>1, <2>7, FailSt
  <2> QED
    BY <1>2, <2>4, <2>5, <2>6, <2>7
<1> QED
  BY <1>1, <1>2

----------------------------------------------------------------------------
(***************************************************************************)
(* A step of one copier: it disturbs the invariant at its own file only.   *)
(***************************************************************************)
CopierMoves(c, f, pc, b) ==
  /\ copier[c] # Idle /\ copier[c].file = f /\ copier'[c] = At(pc, f, b)
  /\ \A d \in Copiers \ {c} : copier'[d] = copier[d]
  /\ copier' = [d \in Copiers |-> copier'[d]]
  /\ UNCHANGED <<phase, tries, queue, dels, popped, procErr, result, puller, job,
                 taken, fin, del, jobs, errors, scans, synced, row, conflict, disk,
                 edits, destroyed, ctxDone, noTemp>>

LEMMA CopierFrame ==
  ASSUME IInv, NEW c \in Copiers, NEW f \in Updates, NEW pc, NEW b \in Nat,
         CopierMoves(c, f, pc, b), Kept(f), TempKept(f),
         pc \in {"block", "check", "write", "send", "out"},
         pc \in {"check", "write", "send"} => b \in BlocksOf[f],
         st'[f].todo \subseteq st[f].todo,
         pc \in {"check", "write"} => b \in st'[f].todo,
         pc = "send" => /\ b \notin st'[f].todo /\ job[f][b] = "none"
                        /\ ~(puller.file = f /\ puller.block = b),
         st[f].open => st'[f].open,
         pc = "write" => st'[f].open \/ st[f].closed,
         st[f].total = 0 => pc = "out",
         st[f].err # "none" => st'[f].err = st[f].err,
         st'[f].err = "ctx" => ctxDone,
         st'[f].err = "none" /\ st'[f].todo # {} => pc # "out",
         fin.file = f /\ fin.pc \in {"check", "replace", "rename"} =>
           st'[f].err = "none" /\ temp'[f] = temp[f],
         CountOne(f)', ReusedOne(f)', ContentOne(f)'
  PROVE  IInv'
<1>1. /\ UNCHANGED <<phase, tries, queue, dels, popped, procErr, result, puller, job,
                     taken, fin, del, jobs, errors, scans, synced, row, conflict,
                     disk, edits, destroyed, ctxDone, noTemp>>
      /\ copier[c] # Idle /\ copier[c].file = f
      /\ copier' = [d \in Copiers |-> copier'[d]]
  BY DEF CopierMoves
<1>2. /\ copier'[c].pc = pc /\ copier'[c].file = f /\ copier'[c].block = b
      /\ copier'[c] = [pc |-> pc, file |-> f, block |-> b]
      /\ \A d \in Copiers \ {c} : copier'[d] = copier[d]
  BY DEF CopierMoves, At
<1>3. /\ \A d \in Copiers \ {c} : copier[d].file # f
      /\ popped # f
  BY <1>1, NoFileFacts DEF IInv, AloneOK
<1>4. st[f].on /\ phase \in {"need", "copy"}
  BY <1>1 DEF IInv, OnOK, PhaseOK, TypesOK, LoopOK
<1>5. /\ st' \in [Updates -> States] /\ \A g \in Updates \ {f} : st'[g] = st[g]
      /\ st'[f].on = st[f].on /\ st'[f].total = st[f].total
      /\ st'[f].reused = st[f].reused /\ st'[f].closed = st[f].closed
  BY DEF Kept
<1>6. /\ temp' = [g \in Updates |-> temp'[g]] /\ temp'[f] \in [Slots(f) -> Cells]
      /\ temp'[f][0] # "missing" => Tailed(f)
      /\ \A g \in Updates \ {f} : temp'[g] = temp[g]
  BY DEF TempKept
<1>7. ASSUME NEW g \in Updates \ {f}
      PROVE  Pulling(g)' = Pulling(g)
  BY <1>1, <1>2 DEF Pulling, At
<1>8. ASSUME NEW g \in Updates \ {f}
      PROVE  Early(g)' <=> Early(g)
  BY <1>1, <1>2 DEF Early
<1>9. TypesOK'
  <2>1. StateOK'
    BY <1>5 DEF IInv, TypesOK, StateOK
  <2>2. TempOK'
    BY <1>6 DEF IInv, TypesOK, TempOK
  <2>3. CopierOK'
    BY <1>1, <1>2 DEF IInv, TypesOK, CopierOK, Worker, Idle
  <2> QED
    BY <1>1, <2>1, <2>2, <2>3, TypeFrames DEF IInv, TypesOK, outs, loop
<1>10. PhaseOK'
  BY <1>1, <1>4 DEF IInv, PhaseOK
<1>11. OnOK'
  <2>1. \A g \in Updates : st'[g].on = st[g].on
    BY <1>5
  <2>2. \A g \in Updates : ~st'[g].on => st'[g] = Unused
    BY <1>4, <1>5 DEF IInv, OnOK
  <2>3. \A d \in Copiers : copier'[d] # Idle => st'[copier'[d].file].on
    BY <1>1, <1>2, <1>4, <1>5, <2>1 DEF IInv, OnOK, TypesOK, CopierOK, Worker
  <2> QED
    BY <1>1, <2>1, <2>2, <2>3 DEF IInv, OnOK, TypesOK, LoopOK, PullerOK, FinOK, Worker
<1>12. AloneOK'
  BY <1>1, <1>2, <1>3 DEF IInv, AloneOK, Idle
<1>13. BlockOK'
  <2>1. \A g \in Updates : st'[g].todo \subseteq st[g].todo
    BY <1>5
  <2>2. \A d \in Copiers \ {c} : copier[d].pc # "idle" => copier[d].file \in Updates \ {f}
    BY <1>3 DEF IInv, TypesOK, CopierOK, Worker
  <2>3. \A d \in Copiers :
         copier'[d].pc \in {"check", "write"} =>
           copier'[d].block \in st'[copier'[d].file].todo
    BY <1>2, <1>5, <2>2 DEF IInv, BlockOK
  <2>4. \A d \in Copiers :
         copier'[d].pc = "send" =>
           /\ copier'[d].block \notin st'[copier'[d].file].todo
           /\ st'[copier'[d].file].total # 0
           /\ job[copier'[d].file][copier'[d].block] = "none"
           /\ ~(puller.file = copier'[d].file /\ puller.block = copier'[d].block)
    BY <1>2, <1>5, <2>2 DEF IInv, BlockOK
  <2>5. puller # Idle => puller.file \in Updates
    BY DEF IInv, TypesOK, PullerOK, Worker
  <2> QED
    BY <1>1, <2>1, <2>3, <2>4, <2>5 DEF IInv, BlockOK, Idle
<1>14. CountOK'
  BY <1>5, <1>7 DEF IInv, CountOK, CountOne
<1>15. WriterOK'
  <2>1. \A g \in Updates : (st[g].open \/ st[g].closed) => (st'[g].open \/ st'[g].closed)
    BY <1>5
  <2>2. \A d \in Copiers \ {c} : copier[d].pc = "write" => copier[d].file \in Updates
    BY DEF IInv, TypesOK, CopierOK, Worker
  <2>3. \A g \in Updates : st'[g].reused = st[g].reused
    BY <1>5
  <2> QED
    BY <1>1, <1>2, <1>5, <2>1, <2>2, <2>3 DEF IInv, WriterOK
<1>16. EarlyOK'
  <2>1. st'[f].total = 0 => ~Early(f)'
    BY <1>1, <1>2, <1>3, <1>5 DEF Early
  <2> QED
    BY <1>1, <1>5, <1>8, <2>1 DEF IInv, EarlyOK
<1>17. ReusedOK'
  BY <1>5, <1>7, <1>8 DEF IInv, ReusedOK, ReusedOne
<1>18. ContentOK'
  BY <1>5, <1>6, <1>7 DEF IInv, ContentOK, ContentOne, Complete, Right, Cut
<1>19. FinishOK'
  BY <1>1, <1>5, <1>6 DEF IInv, FinishOK, TypesOK, FinOK, Worker, Right, Cut
<1>20. HeldOK'
  <2>1. Held(f)'
    BY <1>2 DEF Held
  <2>2. \A g \in Updates \ {f} : Held(g) => Held(g)'
    BY <1>1, <1>2, <1>3 DEF Held
  <2>3. ASSUME NEW g \in Updates \ {f},
               popped = g \/ \E d \in Copiers : copier[d].file = g /\ copier[d].pc # "out"
        PROVE  (popped = g \/ \E d \in Copiers : copier[d].file = g /\ copier[d].pc # "out")'
    BY <1>1, <1>2, <2>3
  <2> QED
    BY <1>1, <1>2, <1>5, <2>1, <2>2, <2>3 DEF IInv, HeldOK
<1>21. ReportOK'
  <2>1. \A g \in Updates : /\ st'[g].on = st[g].on /\ st'[g].closed = st[g].closed
                           /\ st[g].err = "ctx" => st'[g].err = "ctx"
                           /\ st'[g].err = "ctx" => ctxDone
    BY <1>5 DEF IInv, ReportOK
  <2> QED
    BY <1>1, <2>1 DEF IInv, ReportOK
<1> QED
  BY <1>1, <1>9, <1>10, <1>11, <1>12, <1>13, <1>14, <1>15, <1>16, <1>17, <1>18, <1>19,
     <1>20, <1>21, Frames DEF IInv

----------------------------------------------------------------------------
LEMMA CopierFacts ==
  ASSUME IInv, NEW c \in Copiers, copier[c].pc # "idle"
  PROVE  LET f == copier[c].file IN
         /\ f \in Updates /\ copier[c] # Idle /\ st[f].on /\ popped # f
         /\ copier[c].block \in Nat
         /\ \A d \in Copiers \ {c} : copier[d].file # f
         /\ StateOK /\ TempOK /\ DiskOK
<1>1. copier[c].file \in Updates /\ copier[c] # Idle /\ copier[c].block \in Nat
  BY DEF IInv, TypesOK, CopierOK, Worker, Idle
<1> QED
  BY <1>1 DEF IInv, TypesOK, OnOK, AloneOK

\* A file with a block that is still to be copied is not with the finisher.
LEMMA TodoFacts ==
  ASSUME IInv, NEW f \in Updates, st[f].on, NEW b \in st[f].todo
  PROVE  /\ b \in BlocksOf[f] /\ b \in Nat
         /\ st[f].copyNeeded # 0 /\ st[f].total # 0
         /\ Cardinality(st[f].todo \ {b}) = st[f].copyNeeded - 1
         /\ st[f].err = "none" => ~st[f].closed
         /\ ~(fin.file = f /\ fin.pc \in {"check", "replace", "rename"})
         /\ ~(puller.file = f /\ puller.block = b) /\ job[f][b] = "none"
         /\ \A c \in Copiers : copier[c] # At("send", f, b)
<1>1. b \in BlocksOf[f] /\ st[f].todo \in SUBSET BlocksOf[f]
  BY DEF IInv, TypesOK, StateOK
<1>2. IsFiniteSet(st[f].todo) /\ Cardinality(st[f].todo) \in Nat /\ b \in Nat
  BY <1>1, BlockFacts
<1>3. Cardinality(st[f].todo \ {b}) = Cardinality(st[f].todo) - 1
  BY <1>2, FS_RemoveElement
<1>4. Cardinality(st[f].todo \ {b}) \in Nat
  BY <1>1, BlockFacts
<1>5. st[f].copyNeeded = Cardinality(st[f].todo) /\ Cardinality(st[f].todo) <= st[f].total
  BY DEF IInv, CountOK, CountOne
<1>6. st[f].err = "none" => ~st[f].closed
  BY DEF IInv, ContentOK, ContentOne
<1>7. ~(fin.file = f /\ fin.pc \in {"check", "replace", "rename"})
  BY <1>6 DEF IInv, FinishOK
<1>8. ~(puller.file = f /\ puller.block = b) /\ job[f][b] = "none"
  BY <1>1, NoFileFacts DEF IInv, BlockOK, Idle
<1>9. \A c \in Copiers : copier[c] # At("send", f, b)
  BY DEF IInv, BlockOK, At
<1> QED
  BY <1>1, <1>2, <1>3, <1>4, <1>5, <1>6, <1>7, <1>8, <1>9

LEMMA CopierPulling ==
  ASSUME NEW c \in Copiers, NEW f \in Updates, NEW pc, NEW b, CopierMoves(c, f, pc, b),
         copier[c].pc # "send", pc # "send"
  PROVE  Pulling(f)' = Pulling(f)
<1>1. /\ copier'[c].pc = pc /\ UNCHANGED <<puller, job>>
      /\ \A d \in Copiers \ {c} : copier'[d] = copier[d]
  BY DEF CopierMoves, At
<1> QED
  BY <1>1 DEF Pulling, At

\* Opening the file loses no block that was complete.
LEMMA TempFileContent ==
  ASSUME StateOK, TempOK, NEW f \in Updates, NEW got \in BOOLEAN, TempFile(f, got),
         st'[f].err = "none"
  PROVE  /\ st[f].err = "none"
         /\ \A b \in BlocksOf[f] : Complete(f, b) => Complete(f, b)'
         /\ (st[f].open /\ ~st[f].reused /\ ~DisableSparseFiles =>
               \A b \in BlocksOf[f] \cap ZeroBlocks : Right(temp[f], b))
            => (st'[f].open /\ ~st[f].reused /\ ~DisableSparseFiles =>
               \A b \in BlocksOf[f] \cap ZeroBlocks : Right(temp'[f], b))
         /\ (st[f].open => Cut(temp[f])) => Cut(temp'[f])
<1>1. /\ st[f].err = "none" /\ st'[f].reused = st[f].reused
      /\ st'[f].open
      /\ st[f].open => UNCHANGED temp
      /\ ~st[f].open => temp'[f] \in Opened(f)
  BY TempFileSt DEF Kept
<1>2. ~st[f].open =>
        /\ Cut(temp'[f])
        /\ st[f].reused => \A b \in BlocksOf[f] : Right(temp[f], b) => Right(temp'[f], b)
        /\ ~st[f].reused /\ ~DisableSparseFiles =>
             \A b \in BlocksOf[f] \cap ZeroBlocks : Right(temp'[f], b)
  BY <1>1, OpenedFacts
<1>3. ASSUME NEW b \in BlocksOf[f], Complete(f, b)
      PROVE  Complete(f, b)'
  <2>1. Right(temp'[f], b)
    BY <1>1, <1>2, <1>3 DEF Complete
  <2> QED
    BY <1>1, <2>1 DEF Complete, Right, Want
<1> QED
  BY <1>1, <1>2, <1>3

----------------------------------------------------------------------------
LEMMA CopierStoppedStep ==
  ASSUME IInv, NEW c \in Copiers, NEW f, f = copier[c].file, CopierStopped(c)
  PROVE  IInv'
<1>1. /\ copier[c].pc = "block" /\ st[f].todo # {} /\ ctxDone /\ UNCHANGED temp
      /\ st' = Fail(st, f, "ctx")
  BY DEF CopierStopped
<1>2. /\ f \in Updates /\ copier[c] # Idle /\ st[f].on
      /\ StateOK /\ TempOK
  BY <1>1, CopierFacts
<1>3. CopierMoves(c, f, "out", 0)
  BY <1>2 DEF CopierStopped, CopierGoes, CopierMoves, IInv, TypesOK, CopierOK, loop, outs,
     disks
<1>4. /\ Kept(f) /\ st'[f].open = st[f].open /\ st'[f].todo = st[f].todo
      /\ st'[f].copyNeeded = st[f].copyNeeded /\ st'[f].pullNeeded = st[f].pullNeeded
      /\ st'[f].err = IF st[f].err = "none" THEN "ctx" ELSE st[f].err
  BY <1>1, <1>2, FailSt
<1>5. TempKept(f)
  BY <1>1, <1>2, SameTemp
<1>6. st'[f].err # "none" /\ st'[f].total = st[f].total
  BY <1>4 DEF Kept
<1>7. Pulling(f)' = Pulling(f)
  BY <1>1, <1>2, <1>3, CopierPulling
<1>8. CountOne(f)'
  BY <1>2, <1>4, <1>6, <1>7 DEF IInv, CountOK, CountOne
<1>9. ReusedOne(f)' /\ ContentOne(f)'
  BY <1>6 DEF ReusedOne, ContentOne
<1>10. ~(fin.file = f /\ fin.pc \in {"check", "replace", "rename"})
  BY <1>1, <1>2, TodoFacts
<1> QED
  BY <1>1, <1>2, <1>3, <1>4, <1>5, <1>6, <1>8, <1>9, <1>10, CopierFrame

LEMMA CopierSkipsStep ==
  ASSUME IInv, NEW c \in Copiers, NEW f, f = copier[c].file, NEW b \in Blocks, CopierSkips(c, b)
  PROVE  IInv'
<1>1. /\ copier[c].pc = "block" /\ b \in st[f].todo /\ UNCHANGED <<temp, copier>>
      /\ ~DisableSparseFiles /\ ~st[f].reused /\ b \in ZeroBlocks
      /\ st' = [CopyDone(st, f) EXCEPT ![f].todo = @ \ {b}]
  BY DEF CopierSkips, Skipped
<1>2. /\ f \in Updates /\ copier[c] # Idle /\ st[f].on
      /\ StateOK /\ TempOK /\ copier[c].block \in Nat
  BY <1>1, CopierFacts
<1>3. CopierMoves(c, f, "block", copier[c].block)
  <2>1. copier[c] = At("block", f, copier[c].block)
    BY <1>1 DEF IInv, TypesOK, CopierOK, Worker, At
  <2> QED
    BY <1>1, <1>2, <2>1
       DEF CopierSkips, CopierMoves, IInv, TypesOK, CopierOK, loop, outs, disks
<1>4. /\ st[f].copyNeeded # 0 /\ st[f].total # 0 /\ b \in BlocksOf[f]
      /\ Cardinality(st[f].todo \ {b}) = st[f].copyNeeded - 1
      /\ ~(fin.file = f /\ fin.pc \in {"check", "replace", "rename"})
      /\ st[f].err = "none" => ~st[f].closed
  BY <1>1, <1>2, TodoFacts
<1>5. /\ Kept(f) /\ st'[f].open = st[f].open /\ st'[f].todo = st[f].todo \ {b}
      /\ st'[f].copyNeeded = st[f].copyNeeded - 1
      /\ st'[f].pullNeeded = st[f].pullNeeded
      /\ st'[f].err = st[f].err
  BY <1>1, <1>2, <1>4, CopiedSt
<1>6. TempKept(f)
  BY <1>1, <1>2, SameTemp
<1>7. /\ st'[f].total = st[f].total /\ st'[f].reused = st[f].reused
      /\ st'[f].closed = st[f].closed /\ st'[f].on = st[f].on
  BY <1>5 DEF Kept
<1>8. Pulling(f)' = Pulling(f)
  BY <1>1, <1>2, <1>3, CopierPulling
<1>9. CountOne(f)'
  <2>1. /\ st[f].copyNeeded \in Nat /\ st[f].total \in Nat
    BY <1>2 DEF StateOK, States
  <2> QED
    BY <1>2, <1>4, <1>5, <1>7, <1>8, <2>1 DEF IInv, CountOK, CountOne
<1>10. ReusedOne(f)'
  BY <1>1, <1>7 DEF ReusedOne
<1>11. ContentOne(f)'
  <2>1. ASSUME st[f].err = "none"
        PROVE  /\ \A a \in BlocksOf[f] : Complete(f, a) => Complete(f, a)'
               /\ Complete(f, b)'
    <3>1. st[f].open => Right(temp[f], b)
      BY <1>1, <1>2, <1>4, <2>1 DEF IInv, ContentOK, ContentOne
    <3> QED
      BY <1>1, <1>5, <1>7, <3>1 DEF Complete, Right, Want
  <2>2. ASSUME st[f].err = "none"
        PROVE  \A a \in BlocksOf[f] : a \in st[f].todo \/ a \in Pulling(f) \/ Complete(f, a)
    BY <1>2, <1>4, <2>2 DEF IInv, ContentOK, ContentOne
  <2>3. ASSUME st[f].err = "none"
        PROVE  \A a \in BlocksOf[f] :
                 a \in st'[f].todo \/ a \in Pulling(f)' \/ Complete(f, a)'
    BY <1>5, <1>8, <2>1, <2>2, <2>3
  <2>4. ASSUME st[f].err = "none", st[f].open
        PROVE  Cut(temp'[f]) /\ \A a \in BlocksOf[f] \cap ZeroBlocks : Right(temp'[f], a)
    BY <1>1, <1>2, <1>4, <2>4 DEF IInv, ContentOK, ContentOne
  <2>5. st'[f].err = "none" => ~st'[f].closed
    BY <1>4, <1>5, <1>7
  <2> QED
    BY <1>5, <2>3, <2>4, <2>5 DEF ContentOne, Right, Cut
<1>12. st'[f].err = "ctx" => ctxDone
  BY <1>2, <1>5 DEF IInv, ReportOK
<1> QED
  BY <1>1, <1>2, <1>3, <1>4, <1>5, <1>6, <1>9, <1>10, <1>11, <1>12, CopierFrame

LEMMA CopyBlockStep ==
  ASSUME IInv, NEW c \in Copiers, NEW f, f = copier[c].file, NEW b \in Blocks, CopyBlock(c, b)
  PROVE  IInv'
<1>1. /\ copier[c].pc = "block" /\ b \in st[f].todo
      /\ \/ CopierGoes(c, "check", b) /\ UNCHANGED <<st, temp>>
         \/ \E got \in BOOLEAN :
              TempFile(f, got) /\ CopierGoes(c, IF got THEN "write" ELSE "check", b)
  BY DEF CopyBlock
<1>2. /\ f \in Updates /\ copier[c] # Idle /\ st[f].on
      /\ StateOK /\ TempOK
  BY <1>1, CopierFacts
<1>3. ASSUME NEW pc, CopierGoes(c, pc, b)
      PROVE  CopierMoves(c, f, pc, b)
  BY <1>2, <1>3
     DEF CopyBlock, CopierGoes, CopierMoves, IInv, TypesOK, CopierOK, loop, outs, disks
<1>4. /\ st[f].copyNeeded # 0 /\ st[f].total # 0 /\ b \in BlocksOf[f] /\ b \in Nat
      /\ ~(fin.file = f /\ fin.pc \in {"check", "replace", "rename"})
      /\ st[f].err = "none" => ~st[f].closed
  BY <1>1, <1>2, TodoFacts
<1>5. st[f].err = "ctx" => ctxDone
  BY <1>2 DEF IInv, ReportOK
<1>6. CASE CopierGoes(c, "check", b) /\ UNCHANGED <<st, temp>>
  <2>1. CopierMoves(c, f, "check", b)
    BY <1>3, <1>6
  <2>2. Pulling(f)' = Pulling(f)
    BY <1>1, <1>2, <2>1, CopierPulling
  <2>3. Kept(f) /\ TempKept(f)
    BY <1>2, <1>6, SameKept
  <2>4. CountOne(f)'
    BY <1>2, <1>6, <2>2 DEF IInv, CountOK, CountOne
  <2>5. ReusedOne(f)'
    BY <1>1, <1>6 DEF ReusedOne
  <2>6. ContentOne(f)'
    BY <1>2, <1>6, <2>2 DEF IInv, ContentOK, ContentOne, Complete, Right, Cut
  <2> QED
    BY <1>1, <1>2, <1>4, <1>5, <1>6, <2>1, <2>3, <2>4, <2>5, <2>6, CopierFrame
<1>7. ASSUME NEW got \in BOOLEAN, TempFile(f, got),
             CopierGoes(c, IF got THEN "write" ELSE "check", b)
      PROVE  IInv'
  <2> DEFINE pc == IF got THEN "write" ELSE "check"
  <2>1. CopierMoves(c, f, pc, b)
    BY <1>3, <1>7
  <2>2. pc # "send" /\ pc \in {"write", "check"} /\ (pc = "write" => got)
    OBVIOUS
  <2> HIDE DEF pc
  <2>3. Pulling(f)' = Pulling(f)
    BY <1>1, <1>2, <2>1, <2>2, CopierPulling
  <2>4. /\ Kept(f) /\ TempKept(f) /\ st'[f].todo = st[f].todo
        /\ st'[f].copyNeeded = st[f].copyNeeded /\ st'[f].pullNeeded = st[f].pullNeeded
        /\ st[f].open => st'[f].open
        /\ st'[f].err \in {st[f].err, "io"}
        /\ st[f].err # "none" => st'[f].err = st[f].err
        /\ got => st'[f].open
    BY <1>2, <1>7, TempFileSt
  <2>5. /\ st'[f].total = st[f].total /\ st'[f].reused = st[f].reused
        /\ st'[f].closed = st[f].closed /\ st'[f].on = st[f].on
    BY <2>4 DEF Kept
  <2>6. CountOne(f)'
    BY <1>2, <2>3, <2>4, <2>5 DEF IInv, CountOK, CountOne
  <2>7. ReusedOne(f)'
    BY <1>1, <2>4 DEF ReusedOne
  <2>8. ContentOne(f)'
    <3>1. SUFFICES ASSUME st'[f].err = "none" PROVE ContentOne(f)'
      BY DEF ContentOne
    <3>2. /\ st[f].err = "none"
          /\ \A a \in BlocksOf[f] : Complete(f, a) => Complete(f, a)'
          /\ (st[f].open /\ ~st[f].reused /\ ~DisableSparseFiles =>
                \A a \in BlocksOf[f] \cap ZeroBlocks : Right(temp[f], a))
             => (st'[f].open /\ ~st[f].reused /\ ~DisableSparseFiles =>
                \A a \in BlocksOf[f] \cap ZeroBlocks : Right(temp'[f], a))
          /\ (st[f].open => Cut(temp[f])) => Cut(temp'[f])
      BY <1>2, <1>7, <3>1, TempFileContent
    <3> QED
      BY <1>2, <1>4, <2>3, <2>4, <2>5, <3>2 DEF IInv, ContentOK, ContentOne, Right, Cut
  <2>9. st'[f].err = "ctx" => ctxDone
    BY <1>5, <2>4
  <2> QED
    BY <1>1, <1>2, <1>4, <2>1, <2>2, <2>4, <2>6, <2>7, <2>8, <2>9, CopierFrame
<1> QED
  BY <1>1, <1>6, <1>7

LEMMA CopierWritesStep ==
  ASSUME IInv, NEW c \in Copiers, NEW f, f = copier[c].file, NEW b, b = copier[c].block,
         CopierWrites(c)
  PROVE  IInv'
<1>1. copier[c].pc = "write"
  BY DEF CopierWrites
<1>2. /\ f \in Updates /\ copier[c] # Idle /\ st[f].on
      /\ StateOK /\ TempOK /\ DiskOK
  BY <1>1, CopierFacts
<1>3. b \in st[f].todo /\ (st[f].open \/ st[f].closed)
  BY <1>1 DEF IInv, BlockOK, WriterOK
<1>4. ASSUME NEW pc, NEW a, CopierGoes(c, pc, a)
      PROVE  CopierMoves(c, f, pc, a)
  BY <1>2, <1>4 DEF CopierWrites, CopierGoes, CopierMoves, IInv, TypesOK, CopierOK, loop,
     outs, disks
<1>5. /\ st[f].copyNeeded # 0 /\ st[f].total # 0 /\ b \in BlocksOf[f] /\ b \in Nat
      /\ Cardinality(st[f].todo \ {b}) = st[f].copyNeeded - 1
      /\ ~(fin.file = f /\ fin.pc \in {"check", "replace", "rename"})
      /\ st[f].err = "none" => ~st[f].closed
  BY <1>2, <1>3, TodoFacts
<1>6. PICK ok \in BOOLEAN, e \in IOError :
        /\ WriteAt(f, b, Want(b), ok)
        /\ IF ok
           THEN /\ st' = [CopyDone(st, f) EXCEPT ![f].todo = @ \ {b}]
                /\ CopierGoes(c, "block", 0)
           ELSE st' = Fail(st, f, e) /\ CopierGoes(c, "check", b)
  BY DEF CopierWrites
<1>7. CASE ok
  <2>1. /\ ~st[f].closed /\ temp' = [temp EXCEPT ![f] = Written(@, b, Want(b))]
        /\ st' = [CopyDone(st, f) EXCEPT ![f].todo = @ \ {b}]
        /\ CopierGoes(c, "block", 0)
    BY <1>6, <1>7 DEF WriteAt
  <2>2. CopierMoves(c, f, "block", 0)
    BY <1>4, <2>1
  <2>3. Pulling(f)' = Pulling(f)
    BY <1>1, <1>2, <2>2, CopierPulling
  <2>4. /\ Kept(f) /\ st'[f].open = st[f].open /\ st'[f].todo = st[f].todo \ {b}
        /\ st'[f].copyNeeded = st[f].copyNeeded - 1
        /\ st'[f].pullNeeded = st[f].pullNeeded
        /\ st'[f].err = st[f].err
    BY <1>2, <1>3, <1>5, <2>1, CopiedSt
  <2>5. temp[f] \in [Slots(f) -> Cells] /\ temp'[f] = Written(temp[f], b, Want(b))
    BY <1>2, <2>1 DEF TempOK
  <2>6. /\ temp'[f] \in [Slots(f) -> Cells] /\ temp'[f][0] = temp[f][0]
        /\ temp'[f][b] = Want(b)
        /\ \A a \in BlocksOf[f] : Right(temp[f], a) => Right(temp'[f], a)
    BY <1>2, <1>5, <2>5, WrittenFacts
  <2>7. TempKept(f)
    BY <1>2, <2>1, <2>6 DEF TempOK, TempKept
  <2>8. /\ st'[f].total = st[f].total /\ st'[f].reused = st[f].reused
        /\ st'[f].closed = st[f].closed /\ st'[f].on = st[f].on
    BY <2>4 DEF Kept
  <2>9. CountOne(f)'
    <3>1. /\ st[f].copyNeeded \in Nat /\ st[f].total \in Nat
      BY <1>2 DEF StateOK, States
    <3> QED
      BY <1>2, <1>5, <2>3, <2>4, <2>8, <3>1 DEF IInv, CountOK, CountOne
  <2>10. ReusedOne(f)'
    BY <1>3, <2>1, <2>4 DEF ReusedOne
  <2>11. ContentOne(f)'
    <3>1. \A a \in BlocksOf[f] : Complete(f, a) => Complete(f, a)'
      BY <1>3, <2>1, <2>4, <2>6 DEF Complete, Right, Want
    <3>2. Complete(f, b)'
      BY <1>3, <2>1, <2>4, <2>6 DEF Complete, Right, Want
    <3>3. ASSUME st[f].err = "none"
          PROVE  \A a \in BlocksOf[f] :
                   a \in st[f].todo \/ a \in Pulling(f) \/ Complete(f, a)
      BY <1>2, <1>5, <3>3 DEF IInv, ContentOK, ContentOne
    <3>4. ASSUME st[f].err = "none"
          PROVE  \A a \in BlocksOf[f] :
                   a \in st'[f].todo \/ a \in Pulling(f)' \/ Complete(f, a)'
      BY <2>3, <2>4, <3>1, <3>2, <3>3, <3>4
    <3>5. ASSUME st[f].err = "none", ~st[f].reused, ~DisableSparseFiles
          PROVE  \A a \in BlocksOf[f] \cap ZeroBlocks : Right(temp'[f], a)
      <4>1. \A a \in BlocksOf[f] \cap ZeroBlocks : Right(temp[f], a)
        BY <1>2, <1>3, <2>1, <3>5 DEF IInv, ContentOK, ContentOne
      <4> QED
        BY <2>6, <4>1
    <3>6. ~st'[f].closed
      BY <2>1, <2>8
    <3>7. st[f].err = "none" => Cut(temp'[f])
      BY <1>2, <1>3, <2>1, <2>6 DEF IInv, ContentOK, ContentOne, Cut
    <3> QED
      BY <2>4, <2>8, <3>4, <3>5, <3>6, <3>7 DEF ContentOne, Right, Cut
  <2>12. st'[f].err = "ctx" => ctxDone
    BY <1>2, <2>4 DEF IInv, ReportOK
  <2> QED
    BY <1>2, <1>5, <2>2, <2>4, <2>7, <2>9, <2>10, <2>11, <2>12, CopierFrame
<1>8. CASE ~ok
  <2>1. UNCHANGED temp /\ st' = Fail(st, f, e) /\ CopierGoes(c, "check", b)
    BY <1>6, <1>8 DEF WriteAt
  <2>2. CopierMoves(c, f, "check", b)
    BY <1>4, <2>1
  <2>3. Pulling(f)' = Pulling(f)
    BY <1>1, <1>2, <2>2, CopierPulling
  <2>4. e \in {"io", "ctx"} /\ (e = "ctx" => ctxDone)
    BY <1>2, FailErr
  <2>5. /\ Kept(f) /\ st'[f].open = st[f].open /\ st'[f].todo = st[f].todo
        /\ st'[f].copyNeeded = st[f].copyNeeded /\ st'[f].pullNeeded = st[f].pullNeeded
        /\ st'[f].err = IF st[f].err = "none" THEN e ELSE st[f].err
    BY <1>2, <2>1, <2>4, FailSt
  <2>6. st'[f].err # "none" /\ st'[f].total = st[f].total
    BY <2>4, <2>5 DEF Kept
  <2>7. TempKept(f)
    BY <1>2, <2>1, SameTemp
  <2>8. CountOne(f)'
    BY <1>2, <2>3, <2>5, <2>6 DEF IInv, CountOK, CountOne
  <2>9. ReusedOne(f)' /\ ContentOne(f)'
    BY <2>6 DEF ReusedOne, ContentOne
  <2>10. st'[f].err = "ctx" => ctxDone
    BY <1>2, <2>4, <2>5 DEF IInv, ReportOK
  <2> QED
    BY <1>2, <1>3, <1>5, <2>2, <2>5, <2>6, <2>7, <2>8, <2>9, <2>10, CopierFrame
<1> QED
  BY <1>7, <1>8

LEMMA CopierPassesStep ==
  ASSUME IInv, NEW c \in Copiers, NEW f, f = copier[c].file, NEW b, b = copier[c].block,
         CopierPasses(c)
  PROVE  IInv'
<1>1. /\ copier[c].pc = "check" /\ UNCHANGED <<temp, puller, job>>
      /\ IF st[f].err # "none"
         THEN CopierGoes(c, "out", 0) /\ UNCHANGED st
         ELSE /\ CopierGoes(c, "send", b)
              /\ st' = [PullStarted(st, f) EXCEPT ![f].todo = @ \ {b}]
  BY DEF CopierPasses
<1>2. /\ f \in Updates /\ copier[c] # Idle /\ st[f].on
      /\ StateOK /\ TempOK
  BY <1>1, CopierFacts
<1>3. b \in st[f].todo
  BY <1>1 DEF IInv, BlockOK
<1>4. ASSUME NEW pc, NEW a, CopierGoes(c, pc, a)
      PROVE  CopierMoves(c, f, pc, a)
  BY <1>2, <1>4 DEF CopierPasses, CopierGoes, CopierMoves, IInv, TypesOK, CopierOK, loop,
     outs, disks
<1>5. /\ st[f].copyNeeded # 0 /\ st[f].total # 0 /\ b \in BlocksOf[f] /\ b \in Nat
      /\ Cardinality(st[f].todo \ {b}) = st[f].copyNeeded - 1
      /\ ~(fin.file = f /\ fin.pc \in {"check", "replace", "rename"})
      /\ st[f].err = "none" => ~st[f].closed
      /\ ~(puller.file = f /\ puller.block = b) /\ job[f][b] = "none"
      /\ \A d \in Copiers : copier[d] # At("send", f, b)
  BY <1>2, <1>3, TodoFacts
<1>6. TempKept(f)
  BY <1>1, <1>2, SameTemp
<1>7. st[f].err = "ctx" => ctxDone
  BY <1>2 DEF IInv, ReportOK
<1>8. CASE st[f].err # "none"
  <2>1. CopierMoves(c, f, "out", 0) /\ UNCHANGED st
    BY <1>1, <1>4, <1>8
  <2>2. Pulling(f)' = Pulling(f)
    BY <1>1, <1>2, <2>1, CopierPulling
  <2>3. Kept(f)
    BY <1>2, <2>1, SameKept
  <2>4. CountOne(f)'
    BY <1>2, <2>1, <2>2 DEF IInv, CountOK, CountOne
  <2>5. ReusedOne(f)' /\ ContentOne(f)'
    BY <1>8, <2>1 DEF ReusedOne, ContentOne
  <2> QED
    BY <1>2, <1>5, <1>6, <1>7, <1>8, <2>1, <2>3, <2>4, <2>5, CopierFrame
<1>9. CASE st[f].err = "none"
  <2>1. /\ CopierMoves(c, f, "send", b)
        /\ st' = [PullStarted(st, f) EXCEPT ![f].todo = @ \ {b}]
    BY <1>1, <1>4, <1>9
  <2>2. /\ Kept(f) /\ st'[f].open = st[f].open /\ st'[f].todo = st[f].todo \ {b}
        /\ st'[f].copyNeeded = st[f].copyNeeded - 1
        /\ st'[f].pullNeeded = st[f].pullNeeded + 1
        /\ st'[f].err = st[f].err
    BY <1>2, <1>3, <1>5, <2>1, PassedSt
  <2>3. /\ st'[f].total = st[f].total /\ st'[f].reused = st[f].reused
        /\ st'[f].closed = st[f].closed /\ st'[f].on = st[f].on
    BY <2>2 DEF Kept
  <2>4. /\ Pulling(f)' = Pulling(f) \cup {b} /\ b \notin Pulling(f)
    <3>1. copier'[c] = At("send", f, b) /\ \A d \in Copiers \ {c} : copier'[d] = copier[d]
      BY <2>1 DEF CopierMoves
    <3>2. b \notin Pulling(f)
      BY <1>5 DEF Pulling, Pulled, At
    <3>3. \A a \in BlocksOf[f] : a \in Pulling(f)' <=> a \in Pulling(f) \/ a = b
      <4>1. /\ copier'[c].pc = "send" /\ copier'[c].file = f /\ copier'[c].block = b
        BY <3>1 DEF At
      <4>2. \A a \in BlocksOf[f] :
              (\E d \in Copiers : copier'[d] = At("send", f, a))
              <=> (\E d \in Copiers : copier[d] = At("send", f, a)) \/ a = b
        BY <1>1, <3>1, <4>1 DEF At
      <4> QED
        BY <1>1, <4>2 DEF Pulling
    <3> QED
      BY <1>2, <1>5, <3>2, <3>3, PullingFacts
  <2>5. CountOne(f)'
    <3>1. /\ st[f].copyNeeded \in Nat /\ st[f].total \in Nat /\ st[f].pullNeeded \in Nat
      BY <1>2 DEF StateOK, States
    <3>2. Cardinality(Pulling(f)') = Cardinality(Pulling(f)) + 1
      BY <1>2, <2>4, PullingFacts, FS_AddElement
    <3>3. Cardinality(Pulling(f)) \in Nat
      BY <1>2, PullingFacts
    <3> QED
      BY <1>2, <1>5, <1>9, <2>2, <2>3, <3>1, <3>2, <3>3 DEF IInv, CountOK, CountOne
  <2>6. ReusedOne(f)'
    BY <2>4 DEF ReusedOne
  <2>7. ContentOne(f)'
    <3>1. \A a \in BlocksOf[f] : Complete(f, a) => Complete(f, a)'
      BY <1>1, <2>2, <2>3 DEF Complete, Right, Want
    <3>2. \A a \in BlocksOf[f] : a \in st[f].todo \/ a \in Pulling(f) \/ Complete(f, a)
      BY <1>2, <1>5, <1>9 DEF IInv, ContentOK, ContentOne
    <3>3. \A a \in BlocksOf[f] :
            a \in st'[f].todo \/ a \in Pulling(f)' \/ Complete(f, a)'
      BY <2>2, <2>4, <3>1, <3>2
    <3>4. /\ st[f].open /\ ~st[f].reused /\ ~DisableSparseFiles =>
               \A a \in BlocksOf[f] \cap ZeroBlocks : Right(temp[f], a)
          /\ st[f].open => Cut(temp[f])
      BY <1>2, <1>5, <1>9 DEF IInv, ContentOK, ContentOne
    <3>5. ~st'[f].closed
      BY <1>5, <1>9, <2>3
    <3> QED
      BY <1>1, <2>2, <2>3, <3>3, <3>4, <3>5 DEF ContentOne, Right, Cut
  <2> QED
    BY <1>2, <1>5, <1>6, <1>9, <2>1, <2>2, <2>5, <2>6, <2>7, CopierFrame
<1> QED
  BY <1>8, <1>9

LEMMA CopierEndsStep ==
  ASSUME IInv, NEW c \in Copiers, NEW f, f = copier[c].file, CopierEnds(c)
  PROVE  IInv'
<1>1. /\ copier[c].pc = "block" /\ st[f].todo = {} /\ CopierGoes(c, "out", 0)
      /\ \/ st[f].total # 0 /\ UNCHANGED <<st, temp>>
         \/ st[f].total = 0 /\ \E got \in BOOLEAN : TempFile(f, got)
  BY DEF CopierEnds
<1>2. /\ f \in Updates /\ copier[c] # Idle /\ st[f].on
      /\ StateOK /\ TempOK
  BY <1>1, CopierFacts
<1>3. CopierMoves(c, f, "out", 0)
  BY <1>1, <1>2 DEF CopierEnds, CopierGoes, CopierMoves, IInv, TypesOK, CopierOK, loop, outs,
     disks
<1>4. Pulling(f)' = Pulling(f)
  BY <1>1, <1>2, <1>3, CopierPulling
<1>5. st[f].err = "ctx" => ctxDone
  BY <1>2 DEF IInv, ReportOK
<1>6. CASE st[f].total # 0 /\ UNCHANGED <<st, temp>>
  <2>1. Kept(f) /\ TempKept(f)
    BY <1>2, <1>6, SameKept
  <2>2. CountOne(f)' /\ ReusedOne(f)'
    BY <1>2, <1>4, <1>6 DEF IInv, CountOK, CountOne, ReusedOK, ReusedOne
  <2>3. ContentOne(f)'
    BY <1>2, <1>4, <1>6 DEF IInv, ContentOK, ContentOne, Complete, Right, Cut
  <2>4. fin.file = f /\ fin.pc \in {"check", "replace", "rename"} => st[f].err = "none"
    BY DEF IInv, FinishOK
  <2> QED
    BY <1>1, <1>2, <1>3, <1>5, <1>6, <2>1, <2>2, <2>3, <2>4, CopierFrame
<1>7. ASSUME st[f].total = 0, NEW got \in BOOLEAN, TempFile(f, got)
      PROVE  IInv'
  <2>1. ~st[f].closed /\ fin.file # f
    <3>1. Early(f)
      BY <1>1 DEF Early
    <3> QED
      BY <1>2, <1>7, <3>1 DEF IInv, EarlyOK
  <2>2. /\ Kept(f) /\ TempKept(f) /\ st'[f].todo = st[f].todo
        /\ st'[f].copyNeeded = st[f].copyNeeded /\ st'[f].pullNeeded = st[f].pullNeeded
        /\ st[f].open => st'[f].open
        /\ st'[f].err \in {st[f].err, "io"}
        /\ st[f].err # "none" => st'[f].err = st[f].err
        /\ st'[f].err = "none" => st'[f].open
    BY <1>2, <1>7, TempFileSt
  <2>3. /\ st'[f].total = st[f].total /\ st'[f].reused = st[f].reused
        /\ st'[f].closed = st[f].closed /\ st'[f].on = st[f].on
    BY <2>2 DEF Kept
  <2>4. CountOne(f)'
    BY <1>2, <1>4, <2>2, <2>3 DEF IInv, CountOK, CountOne
  <2>5. ReusedOne(f)'
    BY <2>2 DEF ReusedOne
  <2>6. ContentOne(f)'
    <3>1. SUFFICES ASSUME st'[f].err = "none" PROVE ContentOne(f)'
      BY DEF ContentOne
    <3>2. /\ st[f].err = "none"
          /\ \A a \in BlocksOf[f] : Complete(f, a) => Complete(f, a)'
          /\ (st[f].open /\ ~st[f].reused /\ ~DisableSparseFiles =>
                \A a \in BlocksOf[f] \cap ZeroBlocks : Right(temp[f], a))
             => (st'[f].open /\ ~st[f].reused /\ ~DisableSparseFiles =>
                \A a \in BlocksOf[f] \cap ZeroBlocks : Right(temp'[f], a))
          /\ (st[f].open => Cut(temp[f])) => Cut(temp'[f])
      BY <1>2, <1>7, <3>1, TempFileContent
    <3> QED
      BY <1>2, <1>4, <2>1, <2>2, <2>3, <3>2 DEF IInv, ContentOK, ContentOne, Right, Cut
  <2>7. st'[f].err = "ctx" => ctxDone
    BY <1>5, <2>2
  <2> QED
    BY <1>1, <1>2, <1>3, <2>1, <2>2, <2>4, <2>5, <2>6, <2>7, CopierFrame
<1> QED
  BY <1>1, <1>6, <1>7

----------------------------------------------------------------------------
(***************************************************************************)
(* The puller routine: a block goes from a copier to it, and to a          *)
(* goroutine of its own.                                                   *)
(***************************************************************************)
LEMMA PullerReceiveStep ==
  ASSUME IInv, NEW c \in Copiers, NEW f, f = copier[c].file, NEW b, b = copier[c].block,
         PullerReceive(c)
  PROVE  IInv'
<1>1. /\ UNCHANGED <<phase, tries, queue, dels, popped, procErr, result, st, temp, job,
                     taken, fin, del, jobs, errors, scans, synced, row, conflict,
                     disk, edits, destroyed, ctxDone, noTemp>>
      /\ copier[c].pc = "send" /\ puller = Idle /\ puller' = At("got", f, b)
      /\ copier' = [copier EXCEPT ![c] = At("block", f, 0)]
  BY DEF PullerReceive, CopierGoes, loop, outs, disks
<1>2. /\ f \in Updates /\ copier[c] # Idle /\ st[f].on /\ b \in Nat /\ popped # f
      /\ \A d \in Copiers \ {c} : copier[d].file # f
  BY <1>1, CopierFacts
<1>3. /\ copier'[c] = At("block", f, 0) /\ copier[c] = At("send", f, b)
      /\ copier' = [d \in Copiers |-> copier'[d]]
      /\ \A d \in Copiers \ {c} : copier'[d] = copier[d]
  BY <1>1 DEF IInv, TypesOK, CopierOK, Worker, At
<1>4. /\ copier'[c].pc = "block" /\ copier'[c].file = f /\ copier'[c].block = 0
      /\ copier'[c] = [pc |-> "block", file |-> f, block |-> 0]
      /\ puller'.pc = "got" /\ puller'.file = f /\ puller'.block = b
      /\ puller' = [pc |-> "got", file |-> f, block |-> b]
  BY <1>1, <1>3 DEF At
<1>5. /\ b \in BlocksOf[f] /\ b \notin st[f].todo /\ job[f][b] = "none"
      /\ st[f].total # 0 /\ phase \in {"need", "copy"}
  BY <1>1, <1>2 DEF IInv, TypesOK, CopierOK, BlockOK, PhaseOK, LoopOK
<1>6. ASSUME NEW g \in Updates PROVE Pulling(g)' = Pulling(g)
  <2>1. ASSUME NEW a \in BlocksOf[g]
        PROVE  a \in Pulling(g)' <=> a \in Pulling(g)
    <3>1. (\E d \in Copiers : copier'[d] = At("send", g, a)) \/ puller' = At("got", g, a)
          <=> (\E d \in Copiers : copier[d] = At("send", g, a))
      <4>1. puller' = At("got", g, a) <=> g = f /\ a = b
        BY <1>4 DEF At
      <4>2. copier[c] = At("send", g, a) <=> g = f /\ a = b
        BY <1>3 DEF At
      <4>3. copier'[c] # At("send", g, a)
        BY <1>4 DEF At
      <4> QED
        BY <1>3, <4>1, <4>2, <4>3
    <3>2. puller # At("got", g, a) /\ puller # At("take", g, a) /\ puller' # At("take", g, a)
      BY <1>1, <1>4 DEF At, Idle
    <3> QED
      BY <1>1, <3>1, <3>2 DEF Pulling
  <2> QED
    BY <2>1, PullingFacts
<1>7. ASSUME NEW g \in Updates, st[g].total = 0
      PROVE  Early(g)' <=> Early(g)
  BY <1>1, <1>3, <1>4, <1>5, <1>7 DEF Early
<1>8. TypesOK'
  <2>1. CopierOK'
    BY <1>2, <1>3, <1>4 DEF IInv, TypesOK, CopierOK, Worker, Idle
  <2>2. PullerOK'
    BY <1>2, <1>4, <1>5 DEF PullerOK, Worker
  <2> QED
    BY <1>1, <2>1, <2>2, TypeFrames DEF IInv, TypesOK, loop, outs
<1>9. PhaseOK'
  BY <1>1, <1>5 DEF IInv, PhaseOK
<1>10. OnOK'
  BY <1>1, <1>2, <1>3, <1>4 DEF IInv, OnOK, Idle, Unused
<1>11. AloneOK'
  <2>1. \A d \in Copiers :
          copier'[d].file = copier[d].file /\ (copier'[d] # Idle => copier[d] # Idle)
    BY <1>2, <1>3, <1>4
  <2> QED
    BY <1>1, <2>1 DEF IInv, AloneOK
<1>12. BlockOK'
  <2>1. \A d \in Copiers \ {c} : ~(puller'.file = copier[d].file)
    BY <1>2, <1>4
  <2> QED
    BY <1>1, <1>3, <1>4, <1>5, <2>1 DEF IInv, BlockOK
<1>13. WriterOK'
  BY <1>1, <1>3, <1>4 DEF IInv, WriterOK
<1>14. CountOK' /\ ReusedOK'
  BY <1>1, <1>6, <1>7 DEF IInv, CountOK, CountOne, ReusedOK, ReusedOne
<1>15. EarlyOK'
  BY <1>1, <1>4, <1>5, <1>7 DEF IInv, EarlyOK
<1>16. ContentOK'
  BY <1>1, <1>6 DEF IInv, ContentOK, ContentOne, Complete, Right, Cut
<1>17. HeldOK'
  <2>1. \A d \in Copiers : /\ copier'[d].file = copier[d].file
                           /\ copier[d].pc # "out" => copier'[d].pc # "out"
    BY <1>3, <1>4
  <2>2. puller.file = NoFile
    BY <1>1 DEF Idle
  <2>3. \A g \in Updates : Held(g) => Held(g)'
    BY <1>1, <2>1, <2>2, NoFileFacts DEF Held
  <2> QED
    BY <1>1, <2>1, <2>3 DEF IInv, HeldOK
<1> QED
  BY <1>1, <1>8, <1>9, <1>10, <1>11, <1>12, <1>13, <1>14, <1>15, <1>16, <1>17, Frames
     DEF IInv

(***************************************************************************)
(* The puller routine gives up a block of a file that has failed, or keeps *)
(* it: its record keeps its file and its block.                            *)
(***************************************************************************)
LEMMA PullerFrame ==
  ASSUME IInv, NEW f, f = puller.file, NEW b, b = puller.block, NEW pc \in {"take", "out"},
         puller.pc \in {"got", "take"}, puller' = [puller EXCEPT !.pc = pc],
         UNCHANGED <<phase, tries, queue, dels, popped, procErr, result, temp, copier, job,
                     taken, fin, del, jobs, errors, scans, synced, row, conflict, disk,
                     edits, destroyed, ctxDone, noTemp>>,
         UNCHANGED st \/ (ctxDone /\ st' = Fail(st, f, "ctx")),
         pc = "out" => st'[f].err # "none"
  PROVE  IInv'
<1>1. /\ f \in Updates /\ b \in BlocksOf[f] /\ b \in Nat /\ st[f].on
      /\ puller # Idle /\ StateOK
      /\ puller = [pc |-> puller.pc, file |-> f, block |-> b]
  BY DEF IInv, TypesOK, PullerOK, Worker, OnOK, Idle
<1>2. /\ puller' = [pc |-> pc, file |-> f, block |-> b]
      /\ puller'.pc = pc /\ puller'.file = f /\ puller'.block = b /\ puller' # Idle
  BY <1>1 DEF Idle
<1>3. /\ st' \in [Updates -> States] /\ \A g \in Updates \ {f} : st'[g] = st[g]
      /\ st'[f].on = st[f].on /\ st'[f].total = st[f].total
      /\ st'[f].reused = st[f].reused /\ st'[f].closed = st[f].closed
      /\ st'[f].open = st[f].open /\ st'[f].todo = st[f].todo
      /\ st'[f].copyNeeded = st[f].copyNeeded /\ st'[f].pullNeeded = st[f].pullNeeded
      /\ st[f].err # "none" => st'[f].err = st[f].err
      /\ st'[f].err = "none" => UNCHANGED st
      /\ st'[f].err = "ctx" => ctxDone
  <2>1. CASE UNCHANGED st
    BY <1>1, <2>1 DEF IInv, ReportOK, StateOK
  <2>2. CASE ctxDone /\ st' = Fail(st, f, "ctx")
    BY <1>1, <2>2, FailSt DEF Kept
  <2> QED
    BY <2>1, <2>2
<1>4. /\ \A g \in Updates \ {f} : Pulling(g)' = Pulling(g)
      /\ Pulling(f)' \subseteq Pulling(f)
      /\ pc = "take" => Pulling(f)' = Pulling(f)
  <2>1. /\ \A g \in Updates, a \in Nat : pc = "take" =>
             ((puller = At("got", g, a) \/ puller = At("take", g, a)) <=>
             (puller' = At("got", g, a) \/ puller' = At("take", g, a)))
        /\ \A g \in Updates, a \in Nat : pc = "out" =>
             puller' # At("got", g, a) /\ puller' # At("take", g, a)
        /\ \A g \in Updates \ {f}, a \in Nat :
             puller # At("got", g, a) /\ puller # At("take", g, a)
    BY <1>1, <1>2 DEF At
  <2>2. \A g \in Updates : BlocksOf[g] \subseteq Nat
    BY BlockFacts
  <2>3. \A g \in Updates, a \in Nat : At("send", g, a)' = At("send", g, a)
    BY DEF At
  <2> QED
    BY <1>1, <2>1, <2>2, <2>3 DEF Pulling
<1>5. TypesOK'
  <2>1. StateOK'
    BY <1>1, <1>3 DEF StateOK
  <2>2. PullerOK'
    BY <1>1, <1>2 DEF PullerOK, Worker
  <2> QED
    BY <2>1, <2>2, TypeFrames DEF IInv, TypesOK, loop, outs
<1>6. PhaseOK'
  BY <1>1 DEF IInv, PhaseOK
<1>7. OnOK'
  <2>1. \A g \in Updates : st'[g].on = st[g].on
    BY <1>3
  <2>2. \A g \in Updates : ~st'[g].on => st'[g] = Unused
    BY <1>1, <1>3 DEF IInv, OnOK
  <2> QED
    BY <1>1, <1>2, <2>1, <2>2
       DEF IInv, OnOK, TypesOK, LoopOK, CopierOK, FinOK, Worker
<1>8. BlockOK' /\ WriterOK' /\ EarlyOK'
  <2>1. \A g \in Updates : /\ st'[g].todo = st[g].todo /\ st'[g].total = st[g].total
                           /\ st'[g].open = st[g].open /\ st'[g].closed = st[g].closed
                           /\ st'[g].reused = st[g].reused
    BY <1>3
  <2>2. \A d \in Copiers : copier[d].pc # "idle" => copier[d].file \in Updates
    BY DEF IInv, TypesOK, CopierOK, Worker
  <2>3. BlockOK'
    BY <1>1, <1>2, <2>1, <2>2 DEF IInv, BlockOK
  <2>4. WriterOK'
    BY <2>1, <2>2 DEF IInv, WriterOK
  <2>5. EarlyOK'
    BY <1>2, <2>1 DEF IInv, EarlyOK, Early
  <2> QED
    BY <2>3, <2>4, <2>5
<1>9. CountOK'
  <2>1. CountOne(f)'
    <3>1. Cardinality(Pulling(f)') <= Cardinality(Pulling(f))
      BY <1>1, <1>4, PullingFacts, FS_Subset
    <3>2. /\ Cardinality(Pulling(f)') \in Nat /\ Cardinality(Pulling(f)) \in Nat
          /\ st[f].pullNeeded \in Nat
      BY <1>1, PullingFacts DEF StateOK, States
    <3> QED
      BY <1>1, <1>3, <1>4, <3>1, <3>2 DEF IInv, CountOK, CountOne
  <2> QED
    BY <1>3, <1>4, <2>1 DEF IInv, CountOK, CountOne
<1>10. ReusedOK'
  BY <1>1, <1>3, <1>4 DEF IInv, ReusedOK, ReusedOne, Early
<1>11. ContentOK'
  BY <1>1, <1>3, <1>4 DEF IInv, ContentOK, ContentOne, Complete, Right, Cut
<1>12. FinishOK'
  <2>1. ASSUME fin.pc \in {"check", "replace", "rename"}, fin.file = f
        PROVE  FALSE
    <3>1. b \in Pulling(f)
      BY <1>1 DEF Pulling, At
    <3> QED
      BY <1>1, <2>1, <3>1 DEF IInv, FinishOK, ContentOK, ContentOne
  <2> QED
    BY <1>3, <2>1 DEF IInv, FinishOK, TypesOK, FinOK, Worker
<1>13. HeldOK'
  <2>1. \A g \in Updates : Held(g) => Held(g)'
    BY <1>2 DEF Held
  <2> QED
    BY <1>3, <2>1 DEF IInv, HeldOK
<1>14. ReportOK'
  <2>1. \A g \in Updates : /\ st'[g].on = st[g].on /\ st'[g].closed = st[g].closed
                           /\ st[g].err = "ctx" => st'[g].err = "ctx"
                           /\ st'[g].err = "ctx" => ctxDone
    BY <1>3 DEF IInv, ReportOK
  <2> QED
    BY <2>1 DEF IInv, ReportOK
<1> QED
  BY <1>5, <1>6, <1>7, <1>8, <1>9, <1>10, <1>11, <1>12, <1>13, <1>14, Frames DEF IInv

LEMMA PullerChecksStep ==
  ASSUME IInv, NEW f, f = puller.file, PullerChecks
  PROVE  IInv'
<1>1. PICK pc \in {"take", "out"} :
        /\ pc = IF st[f].err # "none" THEN "out" ELSE "take"
        /\ puller' = [puller EXCEPT !.pc = pc]
  BY DEF PullerChecks, PullerGives
<1>2. /\ UNCHANGED <<phase, tries, queue, dels, popped, procErr, result, st, temp, copier,
                     job, taken, fin, del, jobs, errors, scans, synced, row, conflict,
                     disk, edits, destroyed, ctxDone, noTemp>>
      /\ puller.pc = "got"
  BY DEF PullerChecks, loop, outs, disks
<1> QED
  BY <1>1, <1>2, PullerFrame

LEMMA JobSet ==
  ASSUME JobOK, NEW f \in Updates, NEW b \in BlocksOf[f], NEW pc \in JobPcs,
         job' = [job EXCEPT ![f][b] = pc]
  PROVE  /\ JobOK'
         /\ job'[f][b] = pc
         /\ \A a \in BlocksOf[f] \ {b} : job'[f][a] = job[f][a]
         /\ \A g \in Updates \ {f} : job'[g] = job[g]
BY DEF JobOK

\* One goroutine more for each element that Active gets.
LEMMA ActiveFacts ==
  ASSUME NEW f \in Updates, NEW b \in BlocksOf[f],
         \A a \in BlocksOf[f] \ {b} : job'[f][a] = job[f][a],
         \A g \in Updates \ {f} : job'[g] = job[g]
  PROVE  /\ job'[f][b] # "none" => Active' = Active \cup {<<f, b>>}
         /\ job'[f][b] = "none" => Active' = Active \ {<<f, b>>}
<1>1. b \in Blocks
  BY BlockFacts
<1>2. ASSUME NEW g \in Updates, NEW a \in Blocks
      PROVE  /\ <<g, a>> \in Active <=> a \in BlocksOf[g] /\ job[g][a] # "none"
             /\ <<g, a>> \in Active' <=> a \in BlocksOf[g] /\ job'[g][a] # "none"
  BY DEF Active
<1>3. Active \subseteq Updates \X Blocks /\ Active' \subseteq Updates \X Blocks
  BY DEF Active
<1>4. \A g \in Updates, a \in Blocks :
        /\ job'[f][b] # "none" =>
             (<<g, a>> \in Active' <=> <<g, a>> \in Active \cup {<<f, b>>})
        /\ job'[f][b] = "none" =>
             (<<g, a>> \in Active' <=> <<g, a>> \in Active \ {<<f, b>>})
  BY <1>1, <1>2
<1> HIDE DEF Active
<1>5. job'[f][b] # "none" => Active' = Active \cup {<<f, b>>}
  BY <1>1, <1>3, <1>4
<1>6. job'[f][b] = "none" => Active' = Active \ {<<f, b>>}
  BY <1>3, <1>4
<1> QED
  BY <1>5, <1>6

LEMMA PullerTakesStep ==
  ASSUME IInv, NEW f, f = puller.file, NEW b, b = puller.block, PullerTakes
  PROVE  IInv'
<1>1. /\ UNCHANGED <<phase, tries, queue, dels, popped, procErr, result, temp, copier,
                     fin, del, jobs, errors, scans, synced, row, conflict,
                     disk, edits, destroyed, ctxDone, noTemp>>
      /\ puller.pc = "take"
      /\ \/ /\ taken < MaxPending /\ taken' = taken + 1
            /\ job' = [job EXCEPT ![f][b] = "open"]
            /\ puller' = Idle /\ UNCHANGED st
         \/ /\ ctxDone /\ st' = Fail(st, f, "ctx")
            /\ puller' = [puller EXCEPT !.pc = "out"]
            /\ UNCHANGED <<taken, job>>
  BY DEF PullerTakes, PullerGives, loop, outs, disks
<1>2. /\ f \in Updates /\ b \in BlocksOf[f] /\ b \in Nat /\ st[f].on
      /\ puller # Idle /\ StateOK /\ JobOK
      /\ puller = [pc |-> "take", file |-> f, block |-> b]
  BY <1>1 DEF IInv, TypesOK, PullerOK, Worker, OnOK, Idle
<1>3. CASE /\ ctxDone /\ st' = Fail(st, f, "ctx")
           /\ puller' = [puller EXCEPT !.pc = "out"]
           /\ UNCHANGED <<taken, job>>
  <2>1. st'[f].err # "none"
    BY <1>2, <1>3, FailSt
  <2> QED
    BY <1>1, <1>3, <2>1, PullerFrame
<1>4. CASE /\ taken < MaxPending /\ taken' = taken + 1
           /\ job' = [job EXCEPT ![f][b] = "open"]
           /\ puller' = Idle /\ UNCHANGED st
  <2>1. /\ job[f][b] = "none" /\ b \notin st[f].todo /\ phase \in {"need", "copy", "pull"}
    BY <1>2 DEF IInv, BlockOK, PhaseOK, TypesOK, LoopOK
  <2>2. "open" \in JobPcs
    BY DEF JobPcs
  <2>3. JobOK'
    BY <1>2, <1>4, <2>2, JobSet
  <2>4. /\ job'[f][b] = "open"
        /\ \A a \in BlocksOf[f] \ {b} : job'[f][a] = job[f][a]
        /\ \A g \in Updates \ {f} : job'[g] = job[g]
    BY <1>2, <1>4 DEF JobOK
  <2>5. puller'.file = NoFile /\ puller'.pc = "idle" /\ puller' = Idle
    BY <1>4 DEF Idle
  <2>6. ASSUME NEW g \in Updates PROVE Pulling(g)' = Pulling(g)
    <3>1. ASSUME NEW a \in BlocksOf[g]
          PROVE  a \in Pulling(g)' <=> a \in Pulling(g)
      <4>1. puller = At("take", g, a) <=> g = f /\ a = b
        BY <1>2 DEF At
      <4>2. puller # At("got", g, a) /\ puller' # At("got", g, a) /\ puller' # At("take", g, a)
        BY <1>2, <2>5 DEF At
      <4>3. job'[g][a] \in Pulled <=> job[g][a] \in Pulled \/ (g = f /\ a = b)
        BY <2>1, <2>4 DEF Pulled
      <4>4. \A d \in Copiers : copier'[d] = At("send", g, a) <=> copier[d] = At("send", g, a)
        BY <1>1 DEF At
      <4> QED
        BY <4>1, <4>2, <4>3, <4>4 DEF Pulling
    <3> QED
      BY <3>1, PullingFacts
  <2>7. TypesOK'
    <3>1. PullerOK'
      BY <2>5 DEF PullerOK, Worker, Idle
    <3> QED
      BY <1>1, <1>4, <2>3, <3>1, TypeFrames DEF IInv, TypesOK, loop, outs
  <2>8. PhaseOK'
    BY <1>1, <1>4, <2>1 DEF IInv, PhaseOK
  <2>9. OnOK'
    BY <1>1, <1>2, <1>4, <2>4 DEF IInv, OnOK
  <2>10. BlockOK'
    <3>1. \A d \in Copiers : copier[d].pc = "send" =>
            /\ copier[d].file \in Updates /\ copier[d].block \in BlocksOf[copier[d].file]
            /\ ~(copier[d].file = f /\ copier[d].block = b)
      BY <1>2 DEF IInv, TypesOK, CopierOK, Worker, BlockOK
    <3>2. \A d \in Copiers : copier[d].pc = "send" =>
            job'[copier[d].file][copier[d].block] = job[copier[d].file][copier[d].block]
      BY <2>4, <3>1
    <3>3. \A d \in Copiers : copier[d].pc = "send" => puller'.file # copier[d].file
      BY <2>5, <3>1, NoFileFacts
    <3> QED
      BY <1>1, <1>4, <2>1, <2>4, <2>5, <3>2, <3>3 DEF IInv, BlockOK
  <2>11. CountOK' /\ ReusedOK'
    BY <1>1, <1>4, <2>6 DEF IInv, CountOK, CountOne, ReusedOK, ReusedOne, Early
  <2>12. WriterOK'
    BY <1>1, <1>4, <2>4 DEF IInv, WriterOK
  <2>13. EarlyOK'
    <3>1. st[f].total = 0 => ~Early(f)
      BY <1>2 DEF IInv, EarlyOK
    <3> QED
      BY <1>1, <1>4, <2>4, <2>5, <3>1, NoFileFacts DEF IInv, EarlyOK, Early
  <2>14. ContentOK'
    BY <1>1, <1>4, <2>6 DEF IInv, ContentOK, ContentOne, Complete, Right, Cut
  <2>15. HeldOK'
    <3>1. Held(f)'
      BY <1>2, <2>4 DEF Held
    <3>2. \A g \in Updates \ {f} : Held(g) => Held(g)'
      BY <1>1, <1>2, <2>4 DEF Held
    <3> QED
      BY <1>1, <1>4, <3>1, <3>2 DEF IInv, HeldOK
  <2>16. TakenOK'
    <3>1. <<f, b>> \notin Active
      BY <2>1 DEF Active
    <3>5. Active' = Active \cup {<<f, b>>}
      BY <1>2, <2>4, ActiveFacts
    <3>2. IsFiniteSet(Active) /\ taken = Cardinality(Active)
      BY DEF IInv, TakenOK
    <3>3. /\ IsFiniteSet(Active \cup {<<f, b>>})
          /\ Cardinality(Active \cup {<<f, b>>}) = Cardinality(Active) + 1
      BY <3>1, <3>2, FS_AddElement
    <3>4. Cardinality(Active) \in Nat
      BY <3>2, FS_CardinalityType
    <3> QED
      BY <1>4, <3>2, <3>3, <3>4, <3>5, Limits DEF TakenOK
  <2> QED
    BY <1>1, <1>4, <2>7, <2>8, <2>9, <2>10, <2>11, <2>12, <2>13, <2>14, <2>15, <2>16, Frames
       DEF IInv
<1> QED
  BY <1>1, <1>3, <1>4

----------------------------------------------------------------------------
(***************************************************************************)
(* A step of the goroutine of one block, as long as it has not ended.      *)
(***************************************************************************)
JobMoves(f, b, pc) ==
  /\ job' = [job EXCEPT ![f][b] = pc]
  /\ UNCHANGED <<phase, tries, queue, dels, popped, procErr, result, copier, puller,
                 taken, fin, del, jobs, errors, scans, synced, row, conflict, disk,
                 edits, destroyed, ctxDone, noTemp>>

LEMMA JobPulling ==
  ASSUME IInv, NEW f \in Updates, NEW b \in BlocksOf[f], job[f][b] \in Pulled,
         NEW pc \in JobPcs, JobMoves(f, b, pc)
  PROVE  /\ b \in Pulling(f)
         /\ pc \in Pulled => Pulling(f)' = Pulling(f)
         /\ pc \notin Pulled => Pulling(f)' = Pulling(f) \ {b}
         /\ \A g \in Updates \ {f} : Pulling(g)' = Pulling(g)
<1>1. JobOK
  BY DEF IInv, TypesOK
<1>2. /\ job'[f][b] = pc
      /\ \A a \in BlocksOf[f] \ {b} : job'[f][a] = job[f][a]
      /\ \A g \in Updates \ {f} : job'[g] = job[g]
  BY <1>1, JobSet DEF JobMoves
<1>3. job[f][b] # "none"
  BY DEF Pulled
<1>4. /\ \A c \in Copiers : copier[c] # At("send", f, b)
      /\ puller # At("got", f, b) /\ puller # At("take", f, b)
  BY <1>3 DEF IInv, BlockOK, At, Idle
<1>5. UNCHANGED <<copier, puller>>
  BY DEF JobMoves
<1>6. \A g \in Updates \ {f} : Pulling(g)' = Pulling(g)
  BY <1>2, <1>5 DEF Pulling, At
<1>7. \A a \in BlocksOf[f] \ {b} : a \in Pulling(f)' <=> a \in Pulling(f)
  BY <1>2, <1>5 DEF Pulling, At
<1>8. b \in Pulling(f) /\ (b \in Pulling(f)' <=> pc \in Pulled)
  BY <1>2, <1>4, <1>5 DEF Pulling, At, Pulled
<1> QED
  BY <1>6, <1>7, <1>8, PullingFacts

LEMMA JobFrame ==
  ASSUME IInv, NEW f \in Updates, NEW b \in BlocksOf[f], job[f][b] \in Pulled,
         NEW pc \in JobPcs \ {"none", "junk"}, JobMoves(f, b, pc), Kept(f), TempKept(f),
         st'[f].todo = st[f].todo, st[f].open => st'[f].open,
         pc \in {"request", "data", "zero", "skip"} => st'[f].open \/ st'[f].closed,
         pc \in {"request", "data"} => b \notin ZeroBlocks,
         pc \in {"zero", "skip"} => b \in ZeroBlocks,
         pc = "skip" => ~DisableSparseFiles /\ ~st[f].reused,
         st[f].err # "none" => st'[f].err = st[f].err,
         st'[f].err = "ctx" => ctxDone,
         CountOne(f)', ReusedOne(f)', ContentOne(f)'
  PROVE  IInv'
<1>1. UNCHANGED <<phase, tries, queue, dels, popped, procErr, result, copier, puller,
                  taken, fin, del, jobs, errors, scans, synced, row, conflict, disk,
                  edits, destroyed, ctxDone, noTemp>>
  BY DEF JobMoves
<1>2. JobOK /\ JobOK'
  BY JobSet DEF JobMoves, IInv, TypesOK
<1>3. /\ job'[f][b] = pc
      /\ \A a \in BlocksOf[f] \ {b} : job'[f][a] = job[f][a]
      /\ \A g \in Updates \ {f} : job'[g] = job[g]
  BY <1>2 DEF JobMoves, JobOK
<1>4. /\ b \in Pulling(f) /\ \A g \in Updates \ {f} : Pulling(g)' = Pulling(g)
  BY JobPulling
<1>5. /\ job[f][b] # "none" /\ st[f].on /\ phase \in {"need", "copy", "pull"}
  BY DEF Pulled, IInv, OnOK, PhaseOK, TypesOK, LoopOK
<1>6. /\ st' \in [Updates -> States] /\ \A g \in Updates \ {f} : st'[g] = st[g]
      /\ st'[f].on = st[f].on /\ st'[f].total = st[f].total
      /\ st'[f].reused = st[f].reused /\ st'[f].closed = st[f].closed
  BY DEF Kept
<1>7. /\ temp' = [g \in Updates |-> temp'[g]] /\ temp'[f] \in [Slots(f) -> Cells]
      /\ temp'[f][0] # "missing" => Tailed(f)
      /\ \A g \in Updates \ {f} : temp'[g] = temp[g]
  BY DEF TempKept
<1>8. \A g \in Updates : \A a \in BlocksOf[g] : job'[g][a] # "none" <=> job[g][a] # "none"
  BY <1>3, <1>5
<1>9. TypesOK'
  <2>1. StateOK'
    BY <1>6 DEF IInv, TypesOK, StateOK
  <2>2. TempOK'
    BY <1>7 DEF IInv, TypesOK, TempOK
  <2> QED
    BY <1>1, <1>2, <2>1, <2>2, TypeFrames DEF IInv, TypesOK, outs, loop
<1>10. PhaseOK'
  BY <1>1, <1>5 DEF IInv, PhaseOK
<1>11. OnOK'
  <2>1. \A g \in Updates : st'[g].on = st[g].on
    BY <1>6
  <2>2. \A g \in Updates : ~st'[g].on => st'[g] = Unused
    BY <1>5, <1>6 DEF IInv, OnOK
  <2> QED
    BY <1>1, <1>8, <2>1, <2>2
       DEF IInv, OnOK, TypesOK, LoopOK, CopierOK, PullerOK, FinOK, Worker
<1>12. BlockOK'
  <2>1. \A g \in Updates : st'[g].todo = st[g].todo /\ st'[g].total = st[g].total
    BY <1>6
  <2>2. \A d \in Copiers :
          /\ copier[d].pc # "idle" => copier[d].file \in Updates
          /\ copier[d].pc = "send" => copier[d].block \in BlocksOf[copier[d].file]
    BY DEF IInv, TypesOK, CopierOK, Worker
  <2>3. puller # Idle => puller.file \in Updates /\ puller.block \in BlocksOf[puller.file]
    BY DEF IInv, TypesOK, PullerOK, Worker
  <2> QED
    BY <1>1, <1>8, <2>1, <2>2, <2>3 DEF IInv, BlockOK, Idle
<1>13. CountOK'
  BY <1>4, <1>6 DEF IInv, CountOK, CountOne
<1>14. WriterOK'
  <2>1. \A g \in Updates : /\ (st[g].open \/ st[g].closed) => (st'[g].open \/ st'[g].closed)
                           /\ st'[g].reused = st[g].reused
    BY <1>6
  <2>2. \A d \in Copiers : copier[d].pc = "write" => copier[d].file \in Updates
    BY DEF IInv, TypesOK, CopierOK, Worker
  <2> QED
    BY <1>1, <1>3, <2>1, <2>2 DEF IInv, WriterOK
<1>15. EarlyOK'
  <2>1. \A g \in Updates : st'[g].total = st[g].total /\ st'[g].closed = st[g].closed
    BY <1>6
  <2> QED
    BY <1>1, <1>8, <2>1 DEF IInv, EarlyOK, Early
<1>16. ReusedOK'
  BY <1>1, <1>4, <1>6 DEF IInv, ReusedOK, ReusedOne, Early
<1>17. ContentOK'
  BY <1>4, <1>6, <1>7 DEF IInv, ContentOK, ContentOne, Complete, Right, Cut
<1>18. FinishOK'
  <2>1. ~(fin.pc \in {"check", "replace", "rename"} /\ fin.file = f)
    BY <1>4, <1>5 DEF IInv, FinishOK, ContentOK, ContentOne
  <2> QED
    BY <1>1, <1>6, <1>7, <2>1 DEF IInv, FinishOK, TypesOK, FinOK, Worker, Right, Cut
<1>19. HeldOK'
  <2>1. \A g \in Updates : Held(g) => Held(g)'
    BY <1>1, <1>8 DEF Held
  <2> QED
    BY <1>1, <1>6, <2>1 DEF IInv, HeldOK
<1>20. ReportOK'
  <2>1. \A g \in Updates : /\ st'[g].on = st[g].on /\ st'[g].closed = st[g].closed
                           /\ st[g].err = "ctx" => st'[g].err = "ctx"
                           /\ st'[g].err = "ctx" => ctxDone
    BY <1>6 DEF IInv, ReportOK
  <2> QED
    BY <1>1, <2>1 DEF IInv, ReportOK
<1>21. TakenOK'
  <2>1. Active' = Active
    <3>1. Active' = Active \cup {<<f, b>>}
      BY <1>3, ActiveFacts
    <3>2. <<f, b>> \in Active
      BY <1>5, BlockFacts DEF Active
    <3> QED
      BY <3>1, <3>2
  <2> QED
    BY <1>1, <2>1 DEF IInv, TakenOK
<1> QED
  BY <1>1, <1>9, <1>10, <1>11, <1>12, <1>13, <1>14, <1>15, <1>16, <1>17, <1>18, <1>19,
     <1>20, <1>21, Frames DEF IInv

\* The goroutine of a block ends: with an error, or with the block in place.
LEMMA JobFails ==
  ASSUME IInv, NEW f \in Updates, NEW b \in BlocksOf[f], job[f][b] \in Pulled,
         JobMoves(f, b, "out"), Kept(f), TempKept(f),
         st'[f].todo = st[f].todo, st[f].open => st'[f].open,
         st'[f].copyNeeded = st[f].copyNeeded, st'[f].pullNeeded = st[f].pullNeeded,
         st[f].err # "none" => st'[f].err = st[f].err,
         st'[f].err = "ctx" => ctxDone, st'[f].err # "none"
  PROVE  IInv'
<1>1. "out" \in JobPcs \ {"none", "junk"} /\ "out" \in JobPcs /\ "out" \notin Pulled
  BY DEF JobPcs, Pulled
<1>2. Pulling(f)' = Pulling(f) \ {b}
  BY <1>1, JobPulling
<1>3. Cardinality(Pulling(f)') <= Cardinality(Pulling(f))
  BY <1>2, PullingFacts, FS_Subset
<1>4. /\ Cardinality(Pulling(f)') \in Nat /\ Cardinality(Pulling(f)) \in Nat
      /\ st[f].pullNeeded \in Nat
  BY PullingFacts DEF IInv, TypesOK, StateOK, States
<1>5. CountOne(f)'
  BY <1>3, <1>4 DEF IInv, CountOK, CountOne, Kept
<1>6. ReusedOne(f)' /\ ContentOne(f)'
  BY DEF ReusedOne, ContentOne
<1> QED
  BY <1>1, <1>5, <1>6, JobFrame

LEMMA PullOpensStep ==
  ASSUME IInv, NEW f \in Updates, NEW b \in BlocksOf[f], PullOpens(f, b)
  PROVE  IInv'
<1>1. PICK got \in BOOLEAN :
        /\ TempFile(f, got)
        /\ JobGoes(f, b, CASE ~got -> "out"
                           [] got /\ b \notin ZeroBlocks -> "request"
                           [] got /\ Skipped(f, b) -> "skip"
                           [] got /\ b \in ZeroBlocks /\ ~Skipped(f, b) -> "zero")
  BY DEF PullOpens
<1>2. /\ job[f][b] \in Pulled /\ StateOK /\ TempOK
  BY DEF PullOpens, Pulled, IInv, TypesOK
<1>3. ASSUME NEW pc, JobGoes(f, b, pc) PROVE JobMoves(f, b, pc)
  BY <1>3 DEF PullOpens, JobGoes, JobMoves, loop, outs, disks
<1>4. /\ Kept(f) /\ TempKept(f) /\ st'[f].todo = st[f].todo
      /\ st'[f].copyNeeded = st[f].copyNeeded /\ st'[f].pullNeeded = st[f].pullNeeded
      /\ st[f].open => st'[f].open
      /\ st'[f].err \in {st[f].err, "io"}
      /\ st[f].err # "none" => st'[f].err = st[f].err
      /\ got => st'[f].err = "none" /\ st[f].err = "none" /\ st'[f].open
      /\ ~got => st'[f].err # "none"
  BY <1>1, <1>2, TempFileSt
<1>5. st'[f].err = "ctx" => ctxDone
  BY <1>4 DEF IInv, ReportOK
<1>6. CASE ~got
  <2>1. JobMoves(f, b, "out")
    BY <1>1, <1>3, <1>6
  <2> QED
    BY <1>2, <1>4, <1>5, <1>6, <2>1, JobFails
<1>7. CASE got
  <2>1. PICK pc \in {"request", "skip", "zero"} :
          /\ JobMoves(f, b, pc)
          /\ pc = "request" => b \notin ZeroBlocks
          /\ pc \in {"zero", "skip"} => b \in ZeroBlocks
          /\ pc = "skip" => ~DisableSparseFiles /\ ~st[f].reused
    BY <1>1, <1>3, <1>7 DEF Skipped
  <2>2. pc \in JobPcs \ {"none", "junk"} /\ pc \in JobPcs /\ pc \in Pulled
    BY DEF JobPcs, Pulled
  <2>3. Pulling(f)' = Pulling(f) /\ b \in Pulling(f)
    BY <1>2, <2>1, <2>2, JobPulling
  <2>4. /\ st'[f].total = st[f].total /\ st'[f].reused = st[f].reused
        /\ st'[f].closed = st[f].closed /\ st'[f].on = st[f].on
    BY <1>4 DEF Kept
  <2>5. CountOne(f)'
    BY <1>4, <2>3, <2>4 DEF IInv, CountOK, CountOne
  <2>6. ReusedOne(f)'
    BY <1>4, <1>7 DEF ReusedOne
  <2>7. ContentOne(f)'
    <3>1. st[f].on /\ ~st[f].closed
      BY <1>2, <1>4, <1>7, <2>3 DEF IInv, ContentOK, ContentOne, OnOK, Pulled
    <3>2. /\ \A a \in BlocksOf[f] : Complete(f, a) => Complete(f, a)'
          /\ (st[f].open /\ ~st[f].reused /\ ~DisableSparseFiles =>
                \A a \in BlocksOf[f] \cap ZeroBlocks : Right(temp[f], a))
             => (st'[f].open /\ ~st[f].reused /\ ~DisableSparseFiles =>
                \A a \in BlocksOf[f] \cap ZeroBlocks : Right(temp'[f], a))
          /\ (st[f].open => Cut(temp[f])) => Cut(temp'[f])
      BY <1>1, <1>2, <1>4, <1>7, TempFileContent
    <3> QED
      BY <1>4, <1>7, <2>3, <2>4, <3>1, <3>2 DEF IInv, ContentOK, ContentOne, Right, Cut
  <2> QED
    BY <1>2, <1>4, <1>5, <1>7, <2>1, <2>2, <2>5, <2>6, <2>7, JobFrame
<1> QED
  BY <1>6, <1>7

LEMMA RequestBlockStep ==
  ASSUME IInv, NEW f \in Updates, NEW b \in BlocksOf[f], RequestBlock(f, b)
  PROVE  IInv'
<1>1. /\ job[f][b] = "request" /\ UNCHANGED temp
      /\ \/ UNCHANGED st /\ \E buf \in {"data", "junk"} : buf = Want(b) /\ JobGoes(f, b, buf)
         \/ JobGoes(f, b, "out") /\ \E e \in IOError : st' = Fail(st, f, e)
  BY DEF RequestBlock, Verified
<1>2. /\ job[f][b] \in Pulled /\ StateOK /\ TempOK /\ DiskOK
      /\ b \notin ZeroBlocks /\ (st[f].open \/ st[f].closed)
  BY <1>1 DEF Pulled, IInv, TypesOK, WriterOK
<1>3. ASSUME NEW pc, JobGoes(f, b, pc) PROVE JobMoves(f, b, pc)
  BY <1>3 DEF RequestBlock, JobGoes, JobMoves, loop, outs, disks
<1>4. st[f].err = "ctx" => ctxDone
  BY DEF IInv, ReportOK
<1>5. ASSUME NEW e \in IOError, st' = Fail(st, f, e), JobGoes(f, b, "out")
      PROVE  IInv'
  <2>1. e \in {"io", "ctx"} /\ (e = "ctx" => ctxDone)
    BY <1>2, FailErr
  <2>2. /\ Kept(f) /\ st'[f].open = st[f].open /\ st'[f].todo = st[f].todo
        /\ st'[f].copyNeeded = st[f].copyNeeded /\ st'[f].pullNeeded = st[f].pullNeeded
        /\ st'[f].err = IF st[f].err = "none" THEN e ELSE st[f].err
    BY <1>2, <1>5, <2>1, FailSt
  <2>3. TempKept(f) /\ JobMoves(f, b, "out")
    BY <1>1, <1>2, <1>3, <1>5, SameTemp
  <2>4. /\ st'[f].err # "none" /\ (st[f].err # "none" => st'[f].err = st[f].err)
        /\ (st'[f].err = "ctx" => ctxDone)
    BY <1>4, <2>1, <2>2
  <2> QED
    BY <1>2, <2>2, <2>3, <2>4, JobFails
<1>6. CASE UNCHANGED st /\ \E buf \in {"data", "junk"} : buf = Want(b) /\ JobGoes(f, b, buf)
  <2>1. JobMoves(f, b, "data")
    BY <1>2, <1>3, <1>6 DEF Want
  <2>2. "data" \in JobPcs \ {"none", "junk"} /\ "data" \in JobPcs /\ "data" \in Pulled
    BY DEF JobPcs, Pulled
  <2>3. Pulling(f)' = Pulling(f)
    BY <1>2, <2>1, <2>2, JobPulling
  <2>4. Kept(f) /\ TempKept(f)
    BY <1>1, <1>2, <1>6, SameKept
  <2>5. CountOne(f)' /\ ReusedOne(f)'
    BY <1>2, <1>6, <2>3 DEF IInv, CountOK, CountOne, ReusedOne
  <2>6. ContentOne(f)'
    BY <1>1, <1>6, <2>3 DEF IInv, ContentOK, ContentOne, Complete, Right, Cut
  <2> QED
    BY <1>2, <1>4, <1>6, <2>1, <2>2, <2>4, <2>5, <2>6, JobFrame
<1> QED
  BY <1>1, <1>5, <1>6

LEMMA PullWritesStep ==
  ASSUME IInv, NEW f \in Updates, NEW b \in BlocksOf[f], PullWrites(f, b)
  PROVE  IInv'
<1>1. PICK ok \in BOOLEAN, e \in IOError :
        /\ IF job[f][b] = "skip" THEN ok /\ UNCHANGED temp ELSE WriteAt(f, b, job[f][b], ok)
        /\ st' = IF ok THEN PullDone(st, f) ELSE Fail(st, f, e)
  BY DEF PullWrites
<1>2. /\ job[f][b] \in {"data", "zero", "skip"}
      /\ job[f][b] \in Pulled /\ StateOK /\ TempOK /\ DiskOK /\ st[f].on
      /\ (st[f].open \/ st[f].closed)
      /\ job[f][b] = "skip" => b \in ZeroBlocks /\ ~DisableSparseFiles /\ ~st[f].reused
      /\ job[f][b] # "skip" => job[f][b] = Want(b)
  BY DEF PullWrites, Pulled, IInv, TypesOK, WriterOK, Want, OnOK
<1>3. JobMoves(f, b, "out")
  BY DEF PullWrites, JobGoes, JobMoves, loop, outs, disks
<1>4. st[f].err = "ctx" => ctxDone
  BY DEF IInv, ReportOK
<1>5. CASE ~ok
  <2>1. e \in {"io", "ctx"} /\ (e = "ctx" => ctxDone)
    BY <1>2, FailErr
  <2>2. st' = Fail(st, f, e) /\ UNCHANGED temp
    BY <1>1, <1>5 DEF WriteAt
  <2>3. /\ Kept(f) /\ st'[f].open = st[f].open /\ st'[f].todo = st[f].todo
        /\ st'[f].copyNeeded = st[f].copyNeeded /\ st'[f].pullNeeded = st[f].pullNeeded
        /\ st'[f].err = IF st[f].err = "none" THEN e ELSE st[f].err
    BY <1>2, <2>1, <2>2, FailSt
  <2>4. TempKept(f)
    BY <1>2, <2>2, SameTemp
  <2>5. /\ st'[f].err # "none" /\ (st[f].err # "none" => st'[f].err = st[f].err)
        /\ (st'[f].err = "ctx" => ctxDone)
    BY <1>4, <2>1, <2>3
  <2> QED
    BY <1>2, <1>3, <2>3, <2>4, <2>5, JobFails
<1>6. CASE ok
  <2>1. st' = PullDone(st, f)
    BY <1>1, <1>6
  <2>2. "out" \in JobPcs \ {"none", "junk"} /\ "out" \in JobPcs /\ "out" \notin Pulled
    BY DEF JobPcs, Pulled
  <2>3. Pulling(f)' = Pulling(f) \ {b} /\ b \in Pulling(f)
    BY <1>2, <1>3, <2>2, JobPulling
  <2>4. /\ Cardinality(Pulling(f)') = Cardinality(Pulling(f)) - 1
        /\ Cardinality(Pulling(f)') \in Nat /\ Cardinality(Pulling(f)) \in Nat
    BY <2>3, PullingFacts, FS_RemoveElement
  <2>5. /\ st[f].pullNeeded >= Cardinality(Pulling(f)) /\ st[f].pullNeeded \in Nat
        /\ st[f].err = "none" => st[f].pullNeeded = Cardinality(Pulling(f))
    BY <1>2 DEF IInv, CountOK, CountOne, StateOK, States
  <2>6. /\ Kept(f) /\ st'[f].open = st[f].open /\ st'[f].todo = st[f].todo
        /\ st'[f].copyNeeded = st[f].copyNeeded
        /\ st'[f].pullNeeded = st[f].pullNeeded - 1
        /\ st'[f].err = st[f].err
    <3>1. st[f].pullNeeded # 0
      BY <2>4, <2>5
    <3> QED
      BY <1>2, <2>1, <3>1, PulledSt
  <2>7. /\ st'[f].total = st[f].total /\ st'[f].reused = st[f].reused
        /\ st'[f].closed = st[f].closed /\ st'[f].on = st[f].on
    BY <2>6 DEF Kept
  <2>8. /\ TempKept(f) /\ \A a \in BlocksOf[f] : Right(temp[f], a) => Right(temp'[f], a)
        /\ temp'[f][0] = temp[f][0]
        /\ job[f][b] # "skip" => temp'[f][b] = Want(b)
        /\ job[f][b] = "skip" => UNCHANGED temp
    <3>1. CASE job[f][b] = "skip"
      BY <1>1, <1>2, <3>1, SameTemp
    <3>2. CASE job[f][b] # "skip"
      <4>1. temp' = [temp EXCEPT ![f] = Written(@, b, Want(b))]
        BY <1>1, <1>2, <1>6, <3>2 DEF WriteAt
      <4>2. temp[f] \in [Slots(f) -> Cells] /\ temp'[f] = Written(temp[f], b, Want(b))
        BY <1>2, <4>1 DEF TempOK
      <4>4. /\ temp'[f] \in [Slots(f) -> Cells] /\ temp'[f][0] = temp[f][0]
            /\ temp'[f][b] = Want(b)
            /\ \A a \in BlocksOf[f] : Right(temp[f], a) => Right(temp'[f], a)
        BY <4>2, WrittenFacts
      <4>3. TempKept(f)
        BY <1>2, <4>1, <4>4 DEF TempOK, TempKept
      <4> QED
        BY <3>2, <4>3, <4>4
    <3> QED
      BY <3>1, <3>2
  <2>9. CountOne(f)'
    BY <2>4, <2>5, <2>6, <2>7 DEF IInv, CountOK, CountOne
  <2>10. ReusedOne(f)'
    BY <1>2, <2>6, <2>7 DEF ReusedOne
  <2>11. ContentOne(f)'
    <3>1. SUFFICES ASSUME st[f].err = "none" PROVE ContentOne(f)'
      BY <2>6 DEF ContentOne
    <3>2. ~st[f].closed /\ st[f].open
      BY <1>2, <2>3, <3>1 DEF IInv, ContentOK, ContentOne
    <3>3. /\ \A a \in BlocksOf[f] : a \in st[f].todo \/ a \in Pulling(f) \/ Complete(f, a)
          /\ ~st[f].reused /\ ~DisableSparseFiles =>
               \A a \in BlocksOf[f] \cap ZeroBlocks : Right(temp[f], a)
          /\ Cut(temp[f])
      BY <1>2, <3>1, <3>2 DEF IInv, ContentOK, ContentOne
    <3>4. Right(temp'[f], b) /\ Cut(temp'[f])
      BY <1>2, <2>8, <3>3 DEF Right, Cut
    <3>5. /\ Complete(f, b)'
          /\ \A a \in BlocksOf[f] : Complete(f, a) => Complete(f, a)'
      BY <2>6, <2>8, <3>2, <3>4 DEF Complete, Right, Want
    <3>6. \A a \in BlocksOf[f] : a \in st'[f].todo \/ a \in Pulling(f)' \/ Complete(f, a)'
      BY <2>3, <2>6, <3>3, <3>5
    <3>7. ~st[f].reused /\ ~DisableSparseFiles =>
            \A a \in BlocksOf[f] \cap ZeroBlocks : Right(temp'[f], a)
      BY <2>8, <3>3
    <3> QED
      BY <2>7, <3>2, <3>4, <3>6, <3>7 DEF ContentOne, Right, Cut
  <2>12. st'[f].err = "ctx" => ctxDone
    BY <1>4, <2>6
  <2> QED
    BY <1>2, <1>3, <2>2, <2>6, <2>8, <2>9, <2>10, <2>11, <2>12, JobFrame
<1> QED
  BY <1>5, <1>6

----------------------------------------------------------------------------
(***************************************************************************)
(* The finisher gets a file: one of those who hold it lets go.             *)
(***************************************************************************)
FinGot(f) ==
  /\ fin = Idle /\ fin' = At("close", f, 0)
  /\ phase \in {"need", "copy", "pull", "finish"}
  /\ UNCHANGED <<phase, tries, queue, dels, popped, procErr, result, st, temp, del,
                 jobs, errors, scans, synced, row, conflict, disk, edits, destroyed,
                 ctxDone, noTemp>>

LEMMA FinGotFrame ==
  ASSUME IInv, NEW f \in Updates, FinGot(f)
  PROVE  /\ fin'.pc = "close" /\ fin'.file = f /\ fin' # Idle /\ FinOK'
         /\ fin.pc = "idle" /\ fin.file = NoFile
         /\ FinishOK' /\ ReportOK' /\ WindowOK'
<1>1. /\ fin = Idle /\ fin' = [pc |-> "close", file |-> f, block |-> 0]
      /\ UNCHANGED <<phase, queue, dels, procErr, result, st, del, jobs, errors, synced,
                     disk, ctxDone>>
  BY DEF FinGot, At
<1>2. /\ fin'.pc = "close" /\ fin'.file = f /\ fin' # Idle /\ FinOK'
      /\ fin.pc = "idle" /\ fin.file = NoFile
  BY <1>1 DEF FinOK, Worker, Idle
<1>3. FinishOK' /\ WindowOK'
  BY <1>1, <1>2 DEF FinishOK, IInv, WindowOK
<1>4. ReportOK'
  BY <1>1, <1>2, NoFileFacts DEF IInv, ReportOK
<1> QED
  BY <1>2, <1>3, <1>4

LEMMA FinisherReceivesCopierStep ==
  ASSUME IInv, NEW c \in Copiers, NEW f, f = copier[c].file, FinisherReceivesCopier(c)
  PROVE  IInv'
<1>1. /\ FinGot(f) /\ UNCHANGED <<puller, job, taken>>
      /\ copier[c].pc = "out" /\ copier' = [copier EXCEPT ![c] = Idle]
  BY DEF FinisherReceivesCopier, FinisherGets, FinGot, loop, outs, disks
<1>2. /\ f \in Updates /\ copier[c] # Idle /\ st[f].on /\ popped # f
      /\ \A d \in Copiers \ {c} : copier[d].file # f
  BY <1>1, CopierFacts
<1>3. /\ copier'[c] = Idle /\ \A d \in Copiers \ {c} : copier'[d] = copier[d]
      /\ copier' = [d \in Copiers |-> copier'[d]]
      /\ copier'[c].pc = "idle" /\ copier'[c].file = NoFile /\ copier'[c].block = 0
  BY <1>1 DEF IInv, TypesOK, CopierOK, Idle
<1>4. /\ fin'.pc = "close" /\ fin'.file = f /\ fin' # Idle /\ FinOK'
      /\ fin.pc = "idle" /\ fin.file = NoFile
      /\ FinishOK' /\ ReportOK' /\ WindowOK'
  BY <1>1, <1>2, FinGotFrame
<1>5. UNCHANGED <<phase, tries, queue, dels, popped, procErr, result, st, temp, del,
                  jobs, errors, scans, synced, row, conflict, disk, edits, destroyed,
                  ctxDone, noTemp>>
  BY <1>1 DEF FinGot
<1>6. \A g \in Updates : Pulling(g)' = Pulling(g)
  BY <1>1, <1>3 DEF Pulling, At
<1>7. \A g \in Updates : Early(g)' <=> Early(g)
  BY <1>1, <1>3, <1>5 DEF Early
<1>8. TypesOK'
  <2>1. CopierOK'
    BY <1>3 DEF IInv, TypesOK, CopierOK, Worker, Idle
  <2> QED
    BY <1>1, <1>4, <1>5, <2>1, TypeFrames DEF IInv, TypesOK, loop, outs
<1>9. PhaseOK'
  BY <1>1, <1>3, <1>5 DEF IInv, PhaseOK, FinGot
<1>10. OnOK'
  BY <1>1, <1>2, <1>3, <1>4, <1>5 DEF IInv, OnOK
<1>11. AloneOK'
  <2>1. \A d \in Copiers : copier[d] # Idle => copier[d].file # NoFile
    BY NoFileFacts DEF IInv, TypesOK, CopierOK, Worker
  <2> QED
    BY <1>3, <1>5, <2>1 DEF IInv, AloneOK
<1>12. BlockOK' /\ WriterOK'
  BY <1>1, <1>3, <1>5 DEF IInv, BlockOK, WriterOK
<1>13. CountOK' /\ ReusedOK'
  BY <1>5, <1>6, <1>7 DEF IInv, CountOK, CountOne, ReusedOK, ReusedOne
<1>14. EarlyOK'
  <2>1. ~Early(f)
    BY <1>1, <1>2 DEF Early
  <2> QED
    BY <1>1, <1>4, <1>5, <1>7, <2>1 DEF IInv, EarlyOK
<1>15. ContentOK'
  BY <1>5, <1>6 DEF IInv, ContentOK, ContentOne, Complete, Right, Cut
<1>16. HeldOK'
  <2>1. \A g \in Updates : Held(g) => Held(g)'
    BY <1>1, <1>3, <1>4, <1>5 DEF Held
  <2>2. \A g \in Updates : (\E d \in Copiers : copier[d].file = g /\ copier[d].pc # "out")
          => \E d \in Copiers : copier'[d].file = g /\ copier'[d].pc # "out"
    BY <1>1, <1>3
  <2> QED
    BY <1>5, <2>1, <2>2 DEF IInv, HeldOK
<1> QED
  BY <1>1, <1>4, <1>5, <1>8, <1>9, <1>10, <1>11, <1>12, <1>13, <1>14, <1>15, <1>16, Frames
     DEF IInv

LEMMA FinisherReceivesPullerStep ==
  ASSUME IInv, NEW f, f = puller.file, FinisherReceivesPuller
  PROVE  IInv'
<1>1. /\ FinGot(f) /\ UNCHANGED <<copier, job, taken>>
      /\ puller.pc = "out" /\ puller' = Idle
  BY DEF FinisherReceivesPuller, FinisherGets, FinGot, loop, outs, disks
<1>2. f \in Updates /\ puller # Idle /\ st[f].on
  BY <1>1 DEF IInv, TypesOK, PullerOK, Worker, OnOK, Idle
<1>3. puller'.pc = "idle" /\ puller'.file = NoFile /\ puller'.block = 0
  BY <1>1 DEF Idle
<1>4. /\ fin'.pc = "close" /\ fin'.file = f /\ fin' # Idle /\ FinOK'
      /\ fin.pc = "idle" /\ fin.file = NoFile
      /\ FinishOK' /\ ReportOK' /\ WindowOK'
  BY <1>1, <1>2, FinGotFrame
<1>5. UNCHANGED <<phase, tries, queue, dels, popped, procErr, result, st, temp, del,
                  jobs, errors, scans, synced, row, conflict, disk, edits, destroyed,
                  ctxDone, noTemp>>
  BY <1>1 DEF FinGot
<1>6. \A g \in Updates : Pulling(g)' = Pulling(g)
  BY <1>1, <1>3 DEF Pulling, At
<1>7. TypesOK'
  <2>1. PullerOK'
    BY <1>1, <1>3 DEF PullerOK, Worker, Idle
  <2> QED
    BY <1>1, <1>4, <1>5, <2>1, TypeFrames DEF IInv, TypesOK, loop, outs
<1>8. PhaseOK'
  BY <1>1, <1>5 DEF IInv, PhaseOK, FinGot
<1>9. OnOK'
  BY <1>1, <1>2, <1>4, <1>5 DEF IInv, OnOK
<1>10. BlockOK'
  <2>1. \A d \in Copiers : copier[d].pc = "send" => copier[d].file \in Updates
    BY DEF IInv, TypesOK, CopierOK, Worker
  <2> QED
    BY <1>1, <1>3, <1>5, <2>1, NoFileFacts DEF IInv, BlockOK
<1>11. CountOK' /\ ReusedOK'
  BY <1>1, <1>5, <1>6 DEF IInv, CountOK, CountOne, ReusedOK, ReusedOne, Early
<1>12. EarlyOK'
  BY <1>1, <1>2, <1>3, <1>4, <1>5, NoFileFacts DEF IInv, EarlyOK, Early
<1>13. ContentOK'
  BY <1>5, <1>6 DEF IInv, ContentOK, ContentOne, Complete, Right, Cut
<1>14. HeldOK'
  <2>1. \A g \in Updates : Held(g) => Held(g)'
    BY <1>1, <1>4, <1>5 DEF Held
  <2> QED
    BY <1>1, <1>5, <2>1 DEF IInv, HeldOK
<1> QED
  BY <1>1, <1>4, <1>5, <1>7, <1>8, <1>9, <1>10, <1>11, <1>12, <1>13, <1>14, Frames DEF IInv

LEMMA FinisherReceivesBlockStep ==
  ASSUME IInv, NEW f \in Updates, NEW b \in BlocksOf[f], FinisherReceivesBlock(f, b)
  PROVE  IInv'
<1>1. /\ FinGot(f) /\ UNCHANGED <<copier, puller>>
      /\ job[f][b] = "out" /\ taken' = taken - 1
      /\ job' = [job EXCEPT ![f][b] = "none"]
  BY DEF FinisherReceivesBlock, FinisherGets, JobGoes, FinGot, loop, outs, disks
<1>2. st[f].on /\ JobOK
  BY <1>1 DEF IInv, TypesOK, OnOK
<1>3. /\ job'[f][b] = "none"
      /\ \A a \in BlocksOf[f] \ {b} : job'[f][a] = job[f][a]
      /\ \A g \in Updates \ {f} : job'[g] = job[g]
  BY <1>1, <1>2 DEF JobOK
<1>4. /\ fin'.pc = "close" /\ fin'.file = f /\ fin' # Idle /\ FinOK'
      /\ fin.pc = "idle" /\ fin.file = NoFile
      /\ FinishOK' /\ ReportOK' /\ WindowOK'
  BY <1>1, FinGotFrame
<1>5. UNCHANGED <<phase, tries, queue, dels, popped, procErr, result, st, temp, del,
                  jobs, errors, scans, synced, row, conflict, disk, edits, destroyed,
                  ctxDone, noTemp>>
  BY <1>1 DEF FinGot
<1>6. \A g \in Updates : \A a \in BlocksOf[g] :
         /\ job'[g][a] \in Pulled <=> job[g][a] \in Pulled
         /\ job'[g][a] # "none" => job'[g][a] = job[g][a]
         /\ job[g][a] = "none" => job'[g][a] = "none"
  BY <1>1, <1>3 DEF Pulled
<1>7. \A g \in Updates : Pulling(g)' = Pulling(g)
  BY <1>1, <1>6 DEF Pulling, At
<1>8. TypesOK'
  <2>1. JobOK'
    BY <1>1, <1>2, JobSet DEF JobPcs
  <2> QED
    BY <1>1, <1>4, <1>5, <2>1, TypeFrames DEF IInv, TypesOK, loop, outs
<1>9. PhaseOK'
  BY <1>1, <1>5, <1>6 DEF IInv, PhaseOK, FinGot
<1>10. OnOK'
  BY <1>1, <1>2, <1>4, <1>5, <1>6 DEF IInv, OnOK
<1>11. BlockOK'
  <2>1. \A d \in Copiers : copier[d].pc = "send" =>
          copier[d].file \in Updates /\ copier[d].block \in BlocksOf[copier[d].file]
    BY DEF IInv, TypesOK, CopierOK, Worker
  <2>2. puller # Idle => puller.file \in Updates /\ puller.block \in BlocksOf[puller.file]
    BY DEF IInv, TypesOK, PullerOK, Worker
  <2> QED
    BY <1>1, <1>5, <1>6, <2>1, <2>2 DEF IInv, BlockOK, Idle
<1>12. CountOK' /\ ReusedOK'
  BY <1>1, <1>5, <1>7 DEF IInv, CountOK, CountOne, ReusedOK, ReusedOne, Early
<1>13. WriterOK'
  BY <1>1, <1>3, <1>5 DEF IInv, WriterOK
<1>14. EarlyOK'
  BY <1>1, <1>4, <1>5, <1>6 DEF IInv, EarlyOK, Early
<1>15. ContentOK'
  BY <1>5, <1>7 DEF IInv, ContentOK, ContentOne, Complete, Right, Cut
<1>16. HeldOK'
  <2>1. \A g \in Updates : Held(g) => Held(g)'
    BY <1>1, <1>3, <1>4, <1>5 DEF Held
  <2> QED
    BY <1>1, <1>5, <2>1 DEF IInv, HeldOK
<1>17. TakenOK'
  <2>1. Active' = Active \ {<<f, b>>}
    BY <1>3, ActiveFacts
  <2>2. <<f, b>> \in Active
    BY <1>1, BlockFacts DEF Active
  <2>3. IsFiniteSet(Active) /\ taken = Cardinality(Active) /\ taken <= MaxPending
    BY DEF IInv, TakenOK
  <2>4. /\ IsFiniteSet(Active \ {<<f, b>>})
        /\ Cardinality(Active \ {<<f, b>>}) = Cardinality(Active) - 1
    BY <2>2, <2>3, FS_RemoveElement
  <2>5. Cardinality(Active) \in Nat
    BY <2>3, FS_CardinalityType
  <2> QED
    BY <1>1, <2>1, <2>3, <2>4, <2>5, Limits DEF TakenOK
<1> QED
  BY <1>1, <1>4, <1>5, <1>8, <1>9, <1>10, <1>11, <1>12, <1>13, <1>14, <1>15, <1>16, <1>17,
     Frames DEF IInv

----------------------------------------------------------------------------
(***************************************************************************)
(* finalClose.  A file that is not closed yet is with somebody else; one   *)
(* that is closed without an error is complete.                            *)
(***************************************************************************)
LEMMA NothingLeft ==
  ASSUME IInv, NEW f \in Updates, st[f].on, st[f].err = "none"
  PROVE  st[f].copyNeeded + st[f].pullNeeded = 0 <=> st[f].todo = {} /\ Pulling(f) = {}
<1>1. /\ st[f].copyNeeded = Cardinality(st[f].todo)
      /\ st[f].pullNeeded = Cardinality(Pulling(f))
  BY DEF IInv, CountOK, CountOne
<1>2. /\ IsFiniteSet(st[f].todo) /\ Cardinality(st[f].todo) \in Nat
  BY BlockFacts DEF IInv, TypesOK, StateOK
<1>3. IsFiniteSet(Pulling(f)) /\ Cardinality(Pulling(f)) \in Nat
  BY PullingFacts
<1>4. /\ Cardinality(st[f].todo) = 0 <=> st[f].todo = {}
      /\ Cardinality(Pulling(f)) = 0 <=> Pulling(f) = {}
  BY <1>2, <1>3, FS_EmptySet
<1> QED
  BY <1>1, <1>2, <1>3, <1>4

\* What changes when the finisher alone moves on.
LEMMA FinFrame ==
  ASSUME IInv, NEW f, f = fin.file, fin.pc # "idle", NEW w, fin' = w,
         w = Idle \/ \E pc \in {"check", "replace", "rename"} : w = At(pc, f, 0),
         UNCHANGED <<phase, queue, popped, copier, puller, job, taken, del>>
  PROVE  /\ f \in Updates /\ st[f].on /\ phase \in {"need", "copy", "pull", "finish"}
         /\ del = Idle /\ del.pc = "idle" /\ del.file = NoFile
         /\ FinOK' /\ PhaseOK' /\ (UNCHANGED st => OnOK' /\ EarlyOK')
         /\ fin'.file \in {f, NoFile} /\ fin'.pc # "close"
         /\ fin' # Idle => fin'.file = f
         /\ fin'.pc # "idle" => fin' # Idle
<1>1. /\ f \in Updates /\ fin # Idle
  BY DEF IInv, TypesOK, FinOK, Worker, Idle
<1>2. st[f].on /\ phase \in {"need", "copy", "pull", "finish"}
  BY <1>1 DEF IInv, TypesOK, LoopOK, OnOK, PhaseOK
<1>3. del = Idle /\ del.pc = "idle" /\ del.file = NoFile
  BY <1>2 DEF IInv, PhaseOK, Idle
<1>4. /\ FinOK' /\ fin'.file \in {f, NoFile} /\ fin'.pc # "close"
      /\ fin' # Idle => fin'.file = f
      /\ fin'.pc # "idle" => fin' # Idle
  BY <1>1 DEF FinOK, Worker, Idle, At
<1>5. PhaseOK'
  BY <1>2 DEF IInv, PhaseOK
<1>6. UNCHANGED st => OnOK'
  BY <1>2, <1>4 DEF IInv, OnOK
<1>7. UNCHANGED st => EarlyOK'
  BY <1>4, NoFileFacts DEF IInv, EarlyOK, Early
<1> QED
  BY <1>1, <1>2, <1>3, <1>4, <1>5, <1>6, <1>7

LEMMA FinalCloseStep ==
  ASSUME IInv, NEW f, f = fin.file, FinalClose
  PROVE  IInv'
<1>1. /\ UNCHANGED <<phase, tries, queue, dels, popped, procErr, result, copier, puller,
                     job, taken, del, jobs, scans, synced, row, conflict, disk, edits,
                     destroyed, ctxDone>>
      /\ fin.pc = "close"
      /\ \/ /\ ~Closable(f) /\ fin' = Idle
            /\ UNCHANGED <<st, temp, errors, noTemp>>
         \/ /\ Closable(f) /\ ~st[f].open /\ AddWriterLocked(f, FALSE)
            /\ fin' = Idle /\ noTemp' = noTemp \cup {f}
            /\ UNCHANGED <<st, errors>>
         \/ /\ Closable(f)
            /\ IF st[f].open THEN UNCHANGED temp ELSE AddWriterLocked(f, TRUE)
            /\ \E e \in {"none"} \cup IOError :
                 LET s == IF e = "none" THEN st ELSE Fail(st, f, e) IN
                 /\ st' = [s EXCEPT ![f].open = FALSE, ![f].closed = TRUE]
                 /\ IF s[f].err = "none"
                    THEN fin' = At("check", f, 0) /\ UNCHANGED errors
                    ELSE fin' = Idle /\ NewPullError(f, s[f].err)
            /\ UNCHANGED noTemp
  BY DEF FinalClose, loop, disks
<1>2. /\ f \in Updates /\ fin.file = f /\ st[f].on /\ StateOK /\ TempOK /\ DiskOK
  BY <1>1 DEF IInv, TypesOK, FinOK, Worker, OnOK, Idle
<1>3. ASSUME st[f].err = "none", st[f].todo = {}, Pulling(f) = {}, ~st[f].closed
      PROVE  /\ \A b \in BlocksOf[f] : Complete(f, b)
             /\ st[f].reused => st[f].open
  <2>1. ~(st[f].total = 0 /\ Early(f))
    BY <1>2 DEF IInv, EarlyOK
  <2>2. st[f].reused => st[f].open
    BY <1>2, <1>3, <2>1 DEF IInv, ReusedOK, ReusedOne
  <2>3. \A b \in BlocksOf[f] : Complete(f, b)
    BY <1>2, <1>3 DEF IInv, ContentOK, ContentOne
  <2> QED
    BY <2>2, <2>3
<1>4. /\ \A g \in Updates : Pulling(g)' = Pulling(g)
      /\ \A g \in Updates : Early(g)' <=> Early(g)
  BY <1>1, SamePulling DEF Early
<1>5. CASE /\ ~Closable(f) /\ fin' = Idle
           /\ UNCHANGED <<st, temp, errors, noTemp>>
  <2>1. FinOK' /\ PhaseOK' /\ OnOK' /\ EarlyOK'
    BY <1>1, <1>5, FinFrame
  <2>2. fin'.pc = "idle" /\ fin'.file = NoFile
    BY <1>5 DEF Idle
  <2>3. TypesOK'
    BY <1>1, <1>5, <2>1, TypeFrames DEF IInv, TypesOK, loop, outs
  <2>4. FinishOK' /\ WindowOK' /\ ReportOK'
    BY <1>1, <1>5, <2>2 DEF IInv, FinishOK, WindowOK, ReportOK
  <2>5. HeldOK'
    <3>1. \A g \in Updates \ {f} : Held(g) => Held(g)'
      BY <1>1 DEF Held
    <3>2. st[f].closed \/ Held(f)'
      <4>1. SUFFICES ASSUME ~st[f].closed PROVE Held(f)'
        OBVIOUS
      <4>2. st[f].err = "none" /\ ~(st[f].todo = {} /\ Pulling(f) = {})
        BY <1>2, <1>5, <4>1, NothingLeft DEF Closable
      <4>3. CASE st[f].todo # {}
        BY <1>1, <1>2, <4>2, <4>3 DEF IInv, HeldOK, Held
      <4>4. CASE Pulling(f) # {}
        <5>1. PICK b \in BlocksOf[f] :
                 \/ \E c \in Copiers : copier[c] = At("send", f, b)
                 \/ puller = At("got", f, b) \/ puller = At("take", f, b)
                 \/ job[f][b] \in Pulled
          BY <4>4 DEF Pulling
        <5> QED
          BY <1>1, <5>1 DEF Held, At, Pulled
      <4> QED
        BY <4>2, <4>3, <4>4
    <3> QED
      BY <1>1, <1>5, <3>1, <3>2 DEF IInv, HeldOK
  <2> QED
    BY <1>1, <1>5, <2>1, <2>3, <2>4, <2>5, Frames DEF IInv
<1>6. CASE /\ Closable(f) /\ ~st[f].open /\ AddWriterLocked(f, FALSE)
           /\ fin' = Idle /\ noTemp' = noTemp \cup {f}
           /\ UNCHANGED <<st, errors>>
  <2>1. FinOK' /\ PhaseOK' /\ OnOK' /\ EarlyOK'
    BY <1>1, <1>6, FinFrame
  <2>2. fin'.pc = "idle" /\ fin'.file = NoFile
    BY <1>6 DEF Idle
  <2>3. \/ UNCHANGED temp
        \/ st[f].reused /\ temp' = [temp EXCEPT ![f] = NoTemp(f)]
    BY <1>6 DEF AddWriterLocked
  <2>5. TempOK' /\ \A g \in Updates \ {f} : temp'[g] = temp[g]
    BY <1>2, <2>3, NoTempFacts DEF TempOK
  <2>6. TypesOK'
    BY <1>1, <1>6, <2>1, <2>5, TypeFrames DEF IInv, TypesOK, loop, outs
  <2>7. FinishOK' /\ WindowOK' /\ ReportOK'
    BY <1>1, <1>6, <2>2 DEF IInv, FinishOK, WindowOK, ReportOK
  <2>8. HeldOK'
    <3>1. \A g \in Updates \ {f} : Held(g) => Held(g)'
      BY <1>1 DEF Held
    <3> QED
      BY <1>1, <1>6, <3>1 DEF IInv, HeldOK
  <2>9. ContentOK'
    <3>1. st[f].reused => st[f].err # "none"
      <4>1. SUFFICES ASSUME st[f].reused, st[f].err = "none" PROVE FALSE
        OBVIOUS
      <4>2. st[f].todo = {} /\ Pulling(f) = {} /\ ~st[f].closed
        BY <1>2, <1>6, <4>1, NothingLeft DEF Closable
      <4> QED
        BY <1>3, <1>6, <4>1, <4>2
    <3>2. ContentOne(f)'
      BY <1>2, <1>4, <1>6, <2>3, <3>1 DEF IInv, ContentOK, ContentOne, Complete, Right, Cut
    <3> QED
      BY <1>4, <1>6, <2>5, <3>2 DEF IInv, ContentOK, ContentOne, Complete, Right, Cut
  <2> QED
    BY <1>1, <1>6, <2>1, <2>6, <2>7, <2>8, <2>9, Frames DEF IInv
<1>7. ASSUME Closable(f), UNCHANGED noTemp,
             IF st[f].open THEN UNCHANGED temp ELSE AddWriterLocked(f, TRUE),
             NEW e \in {"none"} \cup IOError,
             LET s == IF e = "none" THEN st ELSE Fail(st, f, e) IN
             /\ st' = [s EXCEPT ![f].open = FALSE, ![f].closed = TRUE]
             /\ IF s[f].err = "none"
                THEN fin' = At("check", f, 0) /\ UNCHANGED errors
                ELSE fin' = Idle /\ NewPullError(f, s[f].err)
      PROVE  IInv'
  <2> DEFINE s == IF e = "none" THEN st ELSE Fail(st, f, e)
  <2>19. /\ st' = [s EXCEPT ![f].open = FALSE, ![f].closed = TRUE]
         /\ IF s[f].err = "none"
            THEN fin' = At("check", f, 0) /\ UNCHANGED errors
            ELSE fin' = Idle /\ NewPullError(f, s[f].err)
    BY <1>7, Zenon
  <2>1. e \in {"none", "io", "ctx"} /\ (e = "ctx" => ctxDone)
    BY <1>2, FailErr
  <2>2. /\ s \in [Updates -> States] /\ \A g \in Updates \ {f} : s[g] = st[g]
        /\ s[f].on = st[f].on /\ s[f].total = st[f].total /\ s[f].reused = st[f].reused
        /\ s[f].todo = st[f].todo
        /\ s[f].copyNeeded = st[f].copyNeeded /\ s[f].pullNeeded = st[f].pullNeeded
        /\ s[f].err = IF st[f].err = "none" THEN e ELSE st[f].err
    BY <1>2, <2>1 DEF StateOK, States, Fail
  <2> HIDE DEF s
  <2>3. /\ st' \in [Updates -> States] /\ \A g \in Updates \ {f} : st'[g] = st[g]
        /\ st'[f].on = st[f].on /\ st'[f].total = st[f].total
        /\ st'[f].reused = st[f].reused /\ st'[f].todo = st[f].todo
        /\ st'[f].copyNeeded = st[f].copyNeeded /\ st'[f].pullNeeded = st[f].pullNeeded
        /\ st'[f].err = s[f].err /\ st'[f].closed /\ ~st'[f].open
    <3>1. /\ st'[f] = [s[f] EXCEPT !.open = FALSE, !.closed = TRUE]
          /\ \A g \in Updates \ {f} : st'[g] = s[g]
          /\ st' = [g \in Updates |-> st'[g]]
      BY <1>2, <2>2, <2>19
    <3>2. s[f] \in States
      BY <1>2, <2>2
    <3>3. /\ st'[f].on = s[f].on /\ st'[f].total = s[f].total
          /\ st'[f].reused = s[f].reused /\ st'[f].todo = s[f].todo
          /\ st'[f].copyNeeded = s[f].copyNeeded /\ st'[f].pullNeeded = s[f].pullNeeded
          /\ st'[f].err = s[f].err /\ st'[f].closed /\ ~st'[f].open
          /\ st'[f] \in States
      BY <3>1, <3>2 DEF States
    <3> QED
      BY <1>2, <2>2, <3>1, <3>3
  <2>4. /\ st'[f].err = "none" => st[f].err = "none"
        /\ st'[f].err = "ctx" => ctxDone
        /\ st'[f].err = "none" => st[f].todo = {} /\ Pulling(f) = {} /\ ~st[f].closed
    <3>1. st'[f].err = "none" => st[f].err = "none"
      BY <2>1, <2>2, <2>3
    <3>2. st'[f].err = "ctx" => ctxDone
      BY <1>2, <2>1, <2>2, <2>3 DEF IInv, ReportOK
    <3>3. st[f].err = "none" => st[f].todo = {} /\ Pulling(f) = {} /\ ~st[f].closed
      BY <1>2, <1>7, NothingLeft DEF Closable
    <3> QED
      BY <3>1, <3>2, <3>3
  <2>5. /\ TempOK' /\ \A g \in Updates \ {f} : temp'[g] = temp[g]
        /\ IF st[f].open THEN temp'[f] = temp[f] ELSE temp'[f] \in Opened(f)
    <3>1. \A t \in Opened(f) : t \in [Slots(f) -> Cells] /\ (t[0] # "missing" => Tailed(f))
      BY <1>2, OpenedFacts
    <3>2. \/ st[f].open /\ UNCHANGED temp
          \/ ~st[f].open /\ \E t \in Opened(f) : temp' = [temp EXCEPT ![f] = t]
      BY <1>7 DEF AddWriterLocked
    <3> QED
      BY <1>2, <3>1, <3>2 DEF TempOK
  <2>6. /\ fin' = Idle \/ fin' = At("check", f, 0)
        /\ st'[f].err = "none" => fin' = At("check", f, 0) /\ UNCHANGED errors
        /\ st'[f].err # "none" => fin' = Idle
        /\ st'[f].err \notin {"none", "ctx"} => f \in errors'
        /\ errors \subseteq errors' /\ errors' \subseteq errors \cup {f}
    BY <2>3, <2>19 DEF NewPullError
  <2>7. /\ FinOK' /\ PhaseOK' /\ fin'.file \in {f, NoFile} /\ fin'.pc # "close"
        /\ fin' # Idle => fin'.file = f
        /\ fin'.pc # "idle" => fin' # Idle
    BY <1>1, <2>6, FinFrame
  <2>8. TypesOK'
    <3>1. StateOK'
      BY <1>2, <2>3 DEF StateOK
    <3>2. OutsOK'
      BY <1>1, <1>2, <2>6 DEF IInv, TypesOK, OutsOK, Files
    <3> QED
      BY <1>1, <2>5, <2>7, <3>1, <3>2, TypeFrames DEF IInv, TypesOK, loop
  <2>9. OnOK'
    <3>1. \A g \in Updates : st'[g].on = st[g].on
      BY <2>3
    <3>2. \A g \in Updates : ~st'[g].on => st'[g] = Unused
      BY <1>2, <2>3 DEF IInv, OnOK
    <3> QED
      BY <1>1, <1>2, <2>7, <3>1, <3>2
         DEF IInv, OnOK, TypesOK, LoopOK, CopierOK, PullerOK, Worker
  <2>10. BlockOK' /\ WriterOK'
    <3>1. \A g \in Updates : /\ st'[g].todo = st[g].todo /\ st'[g].total = st[g].total
                             /\ st'[g].reused = st[g].reused
                             /\ st[g].open \/ st[g].closed => st'[g].open \/ st'[g].closed
      BY <2>3
    <3>2. \A d \in Copiers : copier[d].pc # "idle" => copier[d].file \in Updates
      BY DEF IInv, TypesOK, CopierOK, Worker
    <3>3. puller # Idle => puller.file \in Updates
      BY DEF IInv, TypesOK, PullerOK, Worker
    <3>4. BlockOK'
      BY <1>1, <3>1, <3>2, <3>3 DEF IInv, BlockOK, Idle
    <3>5. WriterOK'
      BY <1>1, <3>1, <3>2 DEF IInv, WriterOK
    <3> QED
      BY <3>4, <3>5
  <2>11. CountOK'
    BY <1>2, <1>4, <2>3, <2>4 DEF IInv, CountOK, CountOne
  <2>12. EarlyOK'
    <3>1. ~(st[f].total = 0 /\ Early(f))
      BY <1>2 DEF IInv, EarlyOK
    <3> QED
      BY <1>1, <1>4, <2>3, <2>7, <3>1, NoFileFacts DEF IInv, EarlyOK
  <2>13. ReusedOK'
    BY <1>4, <2>3 DEF IInv, ReusedOK, ReusedOne
  <2>14. ContentOK'
    <3>1. ContentOne(f)'
      BY <1>2, <1>4, <2>3, <2>4 DEF ContentOne
    <3> QED
      BY <1>4, <2>3, <2>5, <3>1 DEF IInv, ContentOK, ContentOne, Complete, Right, Cut
  <2>15. FinishOK'
    <3>1. ASSUME st'[f].err = "none"
          PROVE  Cut(temp'[f]) /\ \A b \in BlocksOf[f] : Right(temp'[f], b)
      <4>1. \A b \in BlocksOf[f] : Complete(f, b)
        BY <1>3, <2>4, <3>1
      <4>2. CASE st[f].open
        <5>1. Cut(temp[f])
          BY <1>2, <2>4, <3>1, <4>2 DEF IInv, ContentOK, ContentOne
        <5> QED
          BY <2>5, <4>1, <4>2, <5>1 DEF Complete
      <4>3. CASE ~st[f].open
        <5>1. /\ Cut(temp'[f])
              /\ st[f].reused => \A b \in BlocksOf[f] : Right(temp[f], b) => Right(temp'[f], b)
              /\ ~st[f].reused /\ ~DisableSparseFiles =>
                   \A b \in BlocksOf[f] \cap ZeroBlocks : Right(temp'[f], b)
          BY <1>2, <2>5, <4>3, OpenedFacts
        <5> QED
          BY <4>1, <4>3, <5>1 DEF Complete
      <4> QED
        BY <4>2, <4>3
    <3>2. fin'.pc \in {"check", "replace", "rename"} => fin'.file = f /\ st'[f].err = "none"
      BY <2>6, <2>7 DEF Idle
    <3> QED
      BY <2>3, <3>1, <3>2 DEF FinishOK, Right, Cut, Want
  <2>16. HeldOK'
    <3>1. \A g \in Updates \ {f} : Held(g) => Held(g)'
      BY <1>1 DEF Held
    <3>2. st'[f].closed /\ (st'[f].err = "none" => st'[f].todo = {})
      BY <2>3, <2>4
    <3>3. UNCHANGED <<popped, copier, noTemp>>
      BY <1>1, <1>7
    <3>4. \A g \in Updates \ {f} : st'[g] = st[g]
      BY <2>3
    <3> QED
      BY <3>1, <3>2, <3>3, <3>4 DEF IInv, HeldOK
  <2>17. ReportOK'
    <3>1. fin' = At("check", f, 0) => fin'.file = f /\ fin'.pc # "close"
      BY DEF At
    <3>2. \/ f \in errors' \/ st'[f].err = "ctx"
          \/ fin'.file = f /\ fin'.pc # "close"
      BY <2>6, <3>1
    <3>3. \A g \in Updates \ {f} : st[g].closed => 
             g \in jobs \/ g \in errors \/ st[g].err = "ctx"
      BY <1>1, <1>2 DEF IInv, ReportOK
    <3>4. \A g \in Updates :
            /\ g \in queue \/ g \in synced \/ g \in errors' \/ st'[g].on
            /\ st'[g].closed => \/ g \in jobs \/ g \in errors' \/ st'[g].err = "ctx"
                                \/ fin'.file = g /\ fin'.pc # "close"
            /\ st'[g].err = "ctx" => ctxDone
      BY <1>1, <2>3, <2>4, <2>6, <3>2, <3>3 DEF IInv, ReportOK
    <3> QED
      BY <1>1, <2>6, <3>4 DEF IInv, ReportOK
  <2>18. WindowOK'
    <3>1. fin'.pc \notin {"replace", "rename"}
      BY <2>6 DEF Idle, At
    <3> QED
      BY <1>1, <3>1 DEF IInv, WindowOK
  <2> QED
    BY <1>1, <1>7, <2>7, <2>8, <2>9, <2>10, <2>11, <2>12, <2>13, <2>14, <2>15, <2>16, <2>17,
       <2>18, Frames DEF IInv
<1> QED
  BY <1>1, <1>5, <1>6, <1>7

----------------------------------------------------------------------------
(***************************************************************************)
(* performFinish.                                                          *)
(***************************************************************************)
LEMMA FinishMoves ==
  ASSUME IInv, NEW f, f = fin.file, fin.pc \in {"check", "replace", "rename"},
         fin' = Idle \/ fin' = At("replace", f, 0) \/ fin' = At("rename", f, 0),
         UNCHANGED <<phase, tries, queue, dels, popped, procErr, result, st, copier,
                     puller, job, taken, del, synced, edits, ctxDone, noTemp>>,
         TempOK', OutsOK', DiskOK', ContentOK',
         fin' # Idle => UNCHANGED temp,
         fin' = Idle => f \in errors' \/ f \in jobs',
         jobs \subseteq jobs', errors \subseteq errors',
         fin'.pc = "replace" => disk'[f] \in {"cur", "alike", "late", "none"},
         fin'.pc = "rename" => disk'[f] \in {"late", "none"}
  PROVE  IInv'
<1>1. /\ f \in Updates /\ st[f].on /\ del.pc = "idle" /\ del.file = NoFile
      /\ FinOK' /\ PhaseOK' /\ OnOK' /\ EarlyOK'
      /\ fin'.file \in {f, NoFile} /\ fin'.pc # "close"
      /\ fin' # Idle => fin'.file = f
      /\ fin'.pc # "idle" => fin' # Idle
  BY FinFrame
<1>2. TypesOK'
  BY <1>1, TypeFrames DEF IInv, TypesOK, loop
<1>3. FinishOK'
  BY <1>1 DEF IInv, FinishOK, Right, Cut
<1>4. HeldOK'
  BY <1>1 DEF IInv, HeldOK, Held
<1>5. ReportOK'
  <2>1. fin' # Idle => fin'.file = f /\ fin'.pc # "close"
    BY <1>1
  <2>2. \A g \in Updates :
           st[g].closed => \/ g \in jobs' \/ g \in errors' \/ st[g].err = "ctx"
                           \/ fin'.file = g /\ fin'.pc # "close"
    BY <2>1 DEF IInv, ReportOK
  <2> QED
    BY <2>2 DEF IInv, ReportOK
<1>6. WindowOK'
  BY <1>1 DEF WindowOK
<1> QED
  BY <1>1, <1>2, <1>3, <1>4, <1>5, <1>6, Frames DEF IInv

LEMMA FinishChecksStep ==
  ASSUME IInv, NEW f, f = fin.file, FinishChecks
  PROVE  IInv'
<1>1. /\ UNCHANGED <<phase, tries, queue, dels, popped, procErr, result, st, temp, copier,
                     puller, job, taken, del, jobs, synced, row, conflict, disk, edits,
                     destroyed, ctxDone, noTemp>>
      /\ fin.pc = "check"
      /\ \/ fin' = Idle /\ errors' = errors \cup {f} /\ UNCHANGED scans
         \/ /\ disk[f] = "none" /\ fin' = At("rename", f, 0) /\ UNCHANGED <<errors, scans>>
         \/ /\ errors' = errors \cup {f} /\ scans' = scans \cup {f} /\ fin' = Idle
         \/ /\ disk[f] \in {"cur", "alike"} /\ fin' = At("replace", f, 0)
            /\ UNCHANGED <<errors, scans>>
  BY DEF FinishChecks, FinishFails, Modified, Changed, loop, disks
<1>2. f \in Files
  BY <1>1 DEF IInv, TypesOK, FinOK, Worker, Files
<1>3. TempOK' /\ DiskOK'
  BY <1>1, TypeFrames DEF IInv, TypesOK
<1>4. OutsOK'
  BY <1>1, <1>2 DEF IInv, TypesOK, OutsOK
<1>5. ContentOK'
  BY <1>1, Frames DEF IInv
<1>6. /\ fin' = Idle => fin'.pc = "idle"
      /\ fin' = At("rename", f, 0) => fin'.pc = "rename" /\ fin' # Idle
      /\ fin' = At("replace", f, 0) => fin'.pc = "replace" /\ fin' # Idle
  BY DEF At, Idle
<1>7. /\ fin' = Idle => f \in errors' \/ f \in jobs'
      /\ jobs \subseteq jobs' /\ errors \subseteq errors'
      /\ fin'.pc = "replace" => disk'[f] \in {"cur", "alike", "late", "none"}
      /\ fin'.pc = "rename" => disk'[f] \in {"late", "none"}
      /\ fin' # Idle => UNCHANGED temp
  BY <1>1, <1>6
<1>8. fin' = Idle \/ fin' = At("replace", f, 0) \/ fin' = At("rename", f, 0)
  BY <1>1
<1> QED
  BY <1>1, <1>3, <1>4, <1>5, <1>7, <1>8, FinishMoves

LEMMA FinishReplacesStep ==
  ASSUME IInv, NEW f, f = fin.file, FinishReplaces
  PROVE  IInv'
<1>1. /\ UNCHANGED <<phase, tries, queue, dels, popped, procErr, result, st, temp, copier,
                     puller, job, taken, del, jobs, scans, synced, row, conflict, edits,
                     ctxDone, noTemp>>
      /\ fin.pc = "replace"
      /\ \/ fin' = Idle /\ errors' = errors \cup {f} /\ UNCHANGED disk
         \/ /\ disk' = [disk EXCEPT ![f] = "none"] /\ fin' = At("rename", f, 0)
            /\ UNCHANGED errors
  BY DEF FinishReplaces, FinishFails, RemoveItem, loop, disks
<1>2. f \in Files
  BY <1>1 DEF IInv, TypesOK, FinOK, Worker, Files
<1>3. TempOK'
  BY <1>1, TypeFrames DEF IInv, TypesOK
<1>4. OutsOK'
  BY <1>1, <1>2 DEF IInv, TypesOK, OutsOK
<1>5. ContentOK'
  BY <1>1, Frames DEF IInv
<1>6. /\ disk \in [Files -> Items]
      /\ edits \in 0..MaxEdits /\ ctxDone \in BOOLEAN
  BY DEF IInv, TypesOK, DiskOK
<1>7. /\ disk' \in [Files -> Items]
      /\ fin' = At("rename", f, 0) => disk'[f] = "none"
  <2>1. CASE UNCHANGED disk /\ fin' = Idle
    BY <1>6, <2>1 DEF At, Idle
  <2>2. CASE disk' = [disk EXCEPT ![f] = "none"]
    BY <1>2, <1>6, <2>2 DEF Items
  <2> QED
    BY <1>1, <2>1, <2>2
<1>8. DiskOK'
  BY <1>1, <1>6, <1>7, Zenon DEF DiskOK
<1>9. /\ fin' = Idle => fin'.pc = "idle"
      /\ fin' = At("rename", f, 0) => fin'.pc = "rename" /\ fin' # Idle
  BY DEF At, Idle
<1>10. /\ fin' = Idle => f \in errors' \/ f \in jobs'
       /\ jobs \subseteq jobs' /\ errors \subseteq errors'
       /\ fin'.pc = "replace" => disk'[f] \in {"cur", "alike", "late", "none"}
       /\ fin'.pc = "rename" => disk'[f] \in {"late", "none"}
       /\ fin' # Idle => UNCHANGED temp
  BY <1>1, <1>7, <1>9
<1>11. fin' = Idle \/ fin' = At("replace", f, 0) \/ fin' = At("rename", f, 0)
  BY <1>1
<1>12. /\ fin.pc \in {"check", "replace", "rename"}
       /\ UNCHANGED <<phase, tries, queue, dels, popped, procErr, result, st, copier,
                      puller, job, taken, del, synced, edits, ctxDone, noTemp>>
  BY <1>1
<1> QED
  BY <1>3, <1>4, <1>5, <1>8, <1>10, <1>11, <1>12, FinishMoves

LEMMA FinishRenamesStep ==
  ASSUME IInv, NEW f, f = fin.file, FinishRenames
  PROVE  IInv'
<1>1. /\ UNCHANGED <<phase, tries, queue, dels, popped, procErr, result, st, copier,
                     puller, job, taken, del, scans, synced, row, conflict, edits,
                     ctxDone, noTemp>>
      /\ fin.pc = "rename" /\ fin' = Idle
      /\ \/ errors' = errors \cup {f} /\ UNCHANGED <<disk, temp, jobs>>
         \/ /\ disk' = [disk EXCEPT ![f] = Content(f)]
            /\ temp' = [temp EXCEPT ![f] = NoTemp(f)]
            /\ jobs' = jobs \cup {f} /\ UNCHANGED errors
  BY DEF FinishRenames, FinishFails, loop, disks
<1>2. f \in Updates /\ f \in Files /\ st[f].closed /\ TempOK
  BY <1>1 DEF IInv, TypesOK, FinOK, Worker, Files, FinishOK
<1>3. TempOK' /\ \A g \in Updates \ {f} : temp'[g] = temp[g]
  BY <1>1, <1>2, NoTempFacts DEF TempOK
<1>4. OutsOK'
  BY <1>1, <1>2 DEF IInv, TypesOK, OutsOK
<1>5. ContentOK'
  <2>1. \A g \in Updates : Pulling(g)' = Pulling(g)
    BY <1>1, SamePulling
  <2>2. ContentOne(f)'
    BY <1>1, <1>2, <2>1 DEF IInv, ContentOK, ContentOne
  <2> QED
    BY <1>1, <1>3, <2>1, <2>2 DEF IInv, ContentOK, ContentOne, Complete, Right, Cut
<1>6. /\ disk \in [Files -> Items]
      /\ edits \in 0..MaxEdits /\ ctxDone \in BOOLEAN
  BY DEF IInv, TypesOK, DiskOK
<1>7. disk' \in [Files -> Items]
  <2>1. Content(f) \in Items
    BY DEF Content, Items
  <2> QED
    BY <1>1, <1>2, <1>6, <2>1
<1>8. DiskOK'
  BY <1>1, <1>6, <1>7, Zenon DEF DiskOK
<1>9. fin'.pc = "idle" /\ fin' = Idle
  BY <1>1 DEF Idle
<1>10. /\ f \in errors' \/ f \in jobs'
       /\ jobs \subseteq jobs' /\ errors \subseteq errors'
  BY <1>1
<1> QED
  BY <1>1, <1>3, <1>4, <1>5, <1>8, <1>9, <1>10, FinishMoves

----------------------------------------------------------------------------
(***************************************************************************)
(* Deletions, the end of an iteration, the user, and the end of the folder.*)
(***************************************************************************)
LEMMA DeletesStep ==
  ASSUME IInv, NEW d, d = del.file, DeleteRemoves \/ \E f \in Deletions : DeleteChecks(f)
  PROVE  IInv'
<1>1. UNCHANGED <<phase, tries, queue, popped, procErr, result, st, temp, copier,
                  puller, job, taken, fin, synced, edits, ctxDone, noTemp>>
  BY DEF DeleteRemoves, DeleteChecks, RemoveItem, loop, disks
<1>2. CASE \E f \in Deletions : DeleteChecks(f)
  <2>1. PICK f \in Deletions : DeleteChecks(f)
    BY <1>2
  <2>2. /\ phase \in {"need", "delete"} /\ del = Idle /\ dels' = dels \ {f}
        /\ UNCHANGED disk
        /\ \/ errors' = errors \cup {f} /\ UNCHANGED <<del, jobs, scans>>
           \/ jobs' = jobs \cup {f} /\ UNCHANGED <<del, errors, scans>>
           \/ /\ scans' = scans \cup {f} /\ errors' = errors \cup {f}
              /\ UNCHANGED <<del, jobs>>
           \/ /\ disk[f] \in {"cur", "alike"} /\ del' = At("remove", f, 0)
              /\ phase = "delete" /\ UNCHANGED <<errors, scans, jobs>>
    BY <2>1 DEF DeleteChecks, Modified, Changed, disks
  <2>3. /\ del.pc = "idle" /\ del.file = NoFile
        /\ del' = At("remove", f, 0) => del'.pc = "remove" /\ del'.file = f
    BY <2>2 DEF Idle, At
  <2>4. TypesOK'
    <3>1. LoopOK'
      BY <1>1, <2>2 DEF IInv, TypesOK, LoopOK
    <3>2. OutsOK'
      BY <1>1, <2>2 DEF IInv, TypesOK, OutsOK, Files
    <3>3. DelOK'
      BY <2>2 DEF IInv, TypesOK, DelOK, Worker, Idle, At
    <3> QED
      BY <1>1, <2>2, <3>1, <3>2, <3>3, TypeFrames DEF IInv, TypesOK
  <2>5. PhaseOK'
    BY <1>1, <2>2 DEF IInv, PhaseOK
  <2>6. ReportOK'
    <3>1. /\ errors \subseteq errors' /\ jobs \subseteq jobs'
          /\ f \in errors' \/ f \in jobs' \/ del'.file = f
      BY <2>2, <2>3
    <3>2. \A g \in Deletions : del.file # g
      BY <2>3, NoFileFacts
    <3>3. \A g \in Deletions :
             g \in dels' \/ g \in synced \/ g \in errors' \/ g \in jobs' \/ del'.file = g
      BY <2>2, <3>1, <3>2 DEF IInv, ReportOK
    <3>4. phase # "end"
      BY <2>2
    <3> QED
      BY <1>1, <3>1, <3>3, <3>4 DEF IInv, ReportOK
  <2>7. WindowOK'
    BY <1>1, <2>2, <2>3 DEF IInv, WindowOK
  <2> QED
    BY <1>1, <2>4, <2>5, <2>6, <2>7, Frames DEF IInv
<1>3. CASE DeleteRemoves
  <2>1. /\ del.pc = "remove" /\ del' = Idle /\ UNCHANGED <<dels, scans>>
        /\ \/ errors' = errors \cup {d} /\ UNCHANGED <<disk, jobs>>
           \/ jobs' = jobs \cup {d} /\ UNCHANGED <<disk, errors>>
           \/ /\ disk' = [disk EXCEPT ![d] = "none"] /\ jobs' = jobs \cup {d}
              /\ UNCHANGED errors
    BY <1>3 DEF DeleteRemoves, RemoveItem, loop, disks
  <2>2. /\ d \in Deletions /\ d \in Files /\ del # Idle /\ phase = "delete" /\ fin = Idle
        /\ fin.pc = "idle"
    BY <2>1 DEF IInv, TypesOK, DelOK, Worker, Files, PhaseOK, Idle
  <2>3. del'.pc = "idle" /\ del'.file = NoFile
    BY <2>1 DEF Idle
  <2>4. TypesOK'
    <3>1. OutsOK'
      BY <1>1, <2>1, <2>2 DEF IInv, TypesOK, OutsOK
    <3>2. DelOK'
      BY <2>1 DEF DelOK, Worker, Idle
    <3>3. /\ disk \in [Files -> Items]
          /\ edits \in 0..MaxEdits /\ ctxDone \in BOOLEAN
      BY DEF IInv, TypesOK, DiskOK
    <3>4. disk' \in [Files -> Items]
      BY <2>1, <2>2, <3>3 DEF Items
    <3>5. DiskOK'
      BY <1>1, <3>3, <3>4, Zenon DEF DiskOK
    <3> QED
      BY <1>1, <2>1, <3>1, <3>2, <3>5, TypeFrames DEF IInv, TypesOK, loop
  <2>5. PhaseOK'
    BY <1>1, <2>1 DEF IInv, PhaseOK
  <2>6. ReportOK'
    BY <1>1, <2>1, <2>3 DEF IInv, ReportOK
  <2>7. WindowOK'
    BY <1>1, <2>2, <2>3 DEF WindowOK
  <2> QED
    BY <1>1, <2>4, <2>5, <2>6, <2>7, Frames DEF IInv
<1> QED
  BY <1>2, <1>3

LEMMA EditStep ==
  ASSUME IInv, NEW f \in Files, NEW what \in {"user", "alike", "none", "away"}, Edit(f, what)
  PROVE  IInv'
<1>1. /\ UNCHANGED <<phase, tries, queue, dels, popped, procErr, result, st, temp, copier,
                     puller, job, taken, fin, del, jobs, errors, scans, synced, ctxDone,
                     noTemp>>
      /\ edits < MaxEdits /\ edits' = edits + 1
  BY DEF Edit, loop, outs
<1>2. PICK w \in {"user", "alike", "late", "none", "away"} :
        /\ disk' = [disk EXCEPT ![f] = w]
        /\ InWindow(f) => w \notin {"user", "alike"}
        /\ w = "away" => f \notin Updates
  BY PullerAssumption DEF Edit
<1>3. /\ disk \in [Files -> Items]
      /\ edits \in 0..MaxEdits /\ ctxDone \in BOOLEAN
  BY DEF IInv, TypesOK, DiskOK
<1>4. /\ disk' \in [Files -> Items]
      /\ disk'[f] = w /\ \A g \in Files \ {f} : disk'[g] = disk[g]
  BY <1>2, <1>3 DEF Items
<1>5. TypesOK'
  <2>1. edits' \in 0..MaxEdits
    BY <1>1, <1>3, Limits
  <2>2. DiskOK'
    BY <1>1, <1>3, <1>4, <2>1, Zenon DEF DiskOK
  <2> QED
    BY <1>1, <2>2, TypeFrames DEF IInv, TypesOK, loop, outs
<1>6. WindowOK'
  <2>1. /\ fin.pc \in {"replace", "rename"} => fin.file \in Files /\ fin.file \in Updates
        /\ del.pc = "remove" => del.file \in Files
    BY DEF IInv, TypesOK, FinOK, DelOK, Worker, Files
  <2> QED
    BY <1>1, <1>2, <1>4, <2>1 DEF IInv, WindowOK, InWindow
<1> QED
  BY <1>1, <1>5, <1>6, Frames DEF IInv

LEMMA StopStep ==
  ASSUME IInv, Stop
  PROVE  IInv'
<1>1. /\ UNCHANGED <<phase, tries, queue, dels, popped, procErr, result, st, temp, copier,
                     puller, job, taken, fin, del, jobs, errors, scans, synced, row,
                     conflict, disk, edits, destroyed, noTemp>>
      /\ ctxDone' = TRUE
  BY DEF Stop, loop, outs, disks
<1>2. DiskOK'
  <2>1. ctxDone' \in BOOLEAN
    BY <1>1
  <2> QED
    BY <1>1, <2>1, Zenon DEF IInv, TypesOK, DiskOK
<1>3. TypesOK'
  BY <1>1, <1>2, TypeFrames DEF IInv, TypesOK, loop, outs
<1>4. ReportOK'
  BY <1>1 DEF IInv, ReportOK
<1> QED
  BY <1>1, <1>3, <1>4, Frames DEF IInv

\* At the end of an iteration all of the pipeline is idle, and what was handed
\* to a copier is closed or has got no temporary file.
LEMMA AllIdle ==
  ASSUME IInv, phase \in {"delete", "end", "returned"}
  PROVE  /\ popped = NoFile /\ puller = Idle /\ fin = Idle
         /\ phase # "delete" => del = Idle
         /\ \A c \in Copiers : copier[c] = Idle
         /\ \A f \in Updates : \A b \in BlocksOf[f] : job[f][b] = "none"
         /\ \A f \in Updates : Pulling(f) = {} /\ ~Held(f)
         /\ \A f \in Updates : st[f].on => st[f].closed \/ f \in noTemp
<1>1. /\ popped = NoFile /\ puller = Idle /\ fin = Idle
      /\ phase # "delete" => del = Idle
      /\ \A c \in Copiers : copier[c] = Idle
      /\ \A f \in Updates : \A b \in BlocksOf[f] : job[f][b] = "none"
  BY DEF IInv, PhaseOK
<1>2. Idle.pc = "idle" /\ Idle.file = NoFile
  BY DEF Idle
<1>3. ASSUME NEW f \in Updates PROVE Pulling(f) = {} /\ ~Held(f)
  BY <1>1, <1>2, NoFileFacts DEF Pulling, Held, Pulled, At
<1>4. \A f \in Updates : st[f].on => st[f].closed \/ f \in noTemp
  BY <1>3 DEF IInv, HeldOK
<1> QED
  BY <1>1, <1>3, <1>4

LEMMA IterationEndsStep ==
  ASSUME IInv, IterationEnds
  PROVE  IInv'
<1>1. /\ phase = "end" /\ synced' = synced \cup jobs
      /\ UNCHANGED <<popped, procErr, temp, copier, puller, job, taken, fin, del, scans,
                     row, conflict, disk, edits, destroyed, ctxDone>>
      /\ \/ /\ ~procErr /\ tries < MaxIterations /\ tries' = tries + 1
            /\ phase' = "need" /\ result' = result
            /\ queue' = Updates \ synced' /\ dels' = Deletions \ synced'
            /\ st' = [f \in Updates |-> Unused] /\ jobs' = {} /\ errors' = {}
            /\ noTemp' = {}
         \/ /\ phase' = "returned" /\ result' \in {"error", "true", "false"}
            /\ UNCHANGED <<tries, queue, dels, st, jobs, errors, noTemp>>
  BY DEF IterationEnds, disks
<1>2. /\ popped = NoFile /\ puller = Idle /\ fin = Idle /\ del = Idle
      /\ \A c \in Copiers : copier[c] = Idle
      /\ \A f \in Updates : \A b \in BlocksOf[f] : job[f][b] = "none"
      /\ \A f \in Updates : Pulling(f) = {}
  BY <1>1, AllIdle
<1>3. Idle.pc = "idle" /\ Idle.file = NoFile
  BY DEF Idle
<1>4. OutsOK'
  BY <1>1 DEF IInv, TypesOK, OutsOK
<1>5. \A f \in Updates : Pulling(f)' = {}
  BY <1>1, <1>2, SamePulling
<1>6. CASE /\ ~procErr /\ tries < MaxIterations /\ tries' = tries + 1
           /\ phase' = "need" /\ result' = result
           /\ queue' = Updates \ synced' /\ dels' = Deletions \ synced'
           /\ st' = [f \in Updates |-> Unused] /\ jobs' = {} /\ errors' = {}
           /\ noTemp' = {}
  <2>1. \A f \in Updates : st'[f] = Unused
    BY <1>6
  <2>2. TypesOK'
    <3>1. LoopOK'
      <4>1. tries' \in 1..MaxIterations
        BY <1>6, Limits DEF IInv, TypesOK, LoopOK
      <4> QED
        BY <1>1, <1>6, <4>1 DEF IInv, TypesOK, LoopOK
    <3>2. StateOK'
      BY <1>6, UnusedType DEF StateOK
    <3> QED
      BY <1>1, <1>4, <3>1, <3>2, TypeFrames DEF IInv, TypesOK
  <2>3. PhaseOK'
    BY <1>1, <1>2, <1>6 DEF PhaseOK
  <2>4. OnOK'
    BY <1>1, <1>2, <1>6, <2>1, UnusedType DEF OnOK
  <2>5. BlockOK' /\ WriterOK'
    BY <1>1, <1>2, <1>3 DEF BlockOK, WriterOK
  <2>6. CountOK'
    BY <1>5, <2>1, UnusedType, FS_EmptySet DEF CountOK, CountOne
  <2>7. EarlyOK' /\ ReusedOK' /\ ContentOK' /\ HeldOK'
    BY <1>1, <1>2, <1>3, <2>1, UnusedType, NoFileFacts
       DEF EarlyOK, Early, ReusedOK, ReusedOne, ContentOK, ContentOne, HeldOK
  <2>8. FinishOK'
    BY <1>1, <1>2, <1>3 DEF FinishOK
  <2>9. ReportOK'
    <3>1. result' = "none" /\ (procErr' => ctxDone')
      BY <1>1, <1>6 DEF IInv, ReportOK, TypesOK, LoopOK
    <3> QED
      BY <1>1, <1>6, <2>1, <3>1, UnusedType DEF ReportOK
  <2> QED
    BY <1>1, <2>2, <2>3, <2>4, <2>5, <2>6, <2>7, <2>8, <2>9, Frames DEF IInv
<1>7. CASE /\ phase' = "returned" /\ result' \in {"error", "true", "false"}
           /\ UNCHANGED <<tries, queue, dels, st, jobs, errors, noTemp>>
  <2>1. TypesOK'
    <3>1. LoopOK'
      BY <1>1, <1>7 DEF IInv, TypesOK, LoopOK
    <3> QED
      BY <1>1, <1>4, <1>7, <3>1, TypeFrames DEF IInv, TypesOK
  <2>2. PhaseOK'
    BY <1>1, <1>2, <1>7 DEF PhaseOK
  <2>3. ReportOK'
    BY <1>1, <1>7 DEF IInv, ReportOK
  <2> QED
    BY <1>1, <1>7, <2>1, <2>2, <2>3, Frames DEF IInv
<1> QED
  BY <1>1, <1>6, <1>7

LEMMA StutterStep ==
  ASSUME IInv, UNCHANGED vars
  PROVE  IInv'
<1>1. UNCHANGED <<phase, tries, queue, dels, popped, procErr, result, st, temp, copier,
                  puller, job, taken, fin, del, jobs, errors, scans, synced, row,
                  conflict, disk, ctxDone, edits, destroyed, noTemp>>
  BY DEF vars
<1>2. TypesOK'
  BY <1>1, TypeFrames DEF IInv, TypesOK, loop, outs
<1> QED
  BY <1>1, <1>2, Frames DEF IInv

LEMMA StepOK == IInv /\ [Next]_vars => IInv'
<1> SUFFICES ASSUME IInv, [Next]_vars PROVE IInv'
  OBVIOUS
<1>1. ASSUME NEW f \in Updates, Reject(f) \/ \E h \in BOOLEAN : HandleFile(f, h) PROVE IInv'
  BY <1>1, RejectStep, HandleFileStep
<1>2. ASSUME NEW c \in Copiers,
             \/ CopierReceive(c) \/ CopierStopped(c) \/ CopierWrites(c)
             \/ CopierPasses(c) \/ CopierEnds(c) \/ PullerReceive(c)
             \/ FinisherReceivesCopier(c)
      PROVE  IInv'
  <2>1. PICK f, b : f = copier[c].file /\ b = copier[c].block
    OBVIOUS
  <2> QED
    BY <1>2, <2>1, CopierReceiveStep, CopierStoppedStep, CopierWritesStep, CopierPassesStep,
       CopierEndsStep, PullerReceiveStep, FinisherReceivesCopierStep
<1>3. ASSUME NEW c \in Copiers, NEW b \in Blocks, CopierSkips(c, b) \/ CopyBlock(c, b)
      PROVE  IInv'
  <2>1. PICK f : f = copier[c].file
    OBVIOUS
  <2> QED
    BY <1>3, <2>1, CopierSkipsStep, CopyBlockStep
<1>4. ASSUME PullerChecks \/ PullerTakes \/ FinisherReceivesPuller PROVE IInv'
  <2>1. PICK f, b : f = puller.file /\ b = puller.block
    OBVIOUS
  <2> QED
    BY <1>4, <2>1, PullerChecksStep, PullerTakesStep, FinisherReceivesPullerStep
<1>5. ASSUME NEW f \in Updates, NEW b \in BlocksOf[f],
             \/ PullOpens(f, b) \/ RequestBlock(f, b) \/ PullWrites(f, b)
             \/ FinisherReceivesBlock(f, b)
      PROVE  IInv'
  BY <1>5, PullOpensStep, RequestBlockStep, PullWritesStep, FinisherReceivesBlockStep
<1>6. ASSUME FinalClose \/ FinishChecks \/ FinishReplaces \/ FinishRenames PROVE IInv'
  <2>1. PICK f : f = fin.file
    OBVIOUS
  <2> QED
    BY <1>6, <2>1, FinalCloseStep, FinishChecksStep, FinishReplacesStep, FinishRenamesStep
<1>7. ASSUME QueueEnds \/ CopiersEnd \/ PullersEnd \/ FinisherEnds \/ DeletionsEnd
      PROVE  IInv'
  BY <1>7, WaitsStep
<1>8. ASSUME DeleteRemoves \/ \E f \in Deletions : DeleteChecks(f) PROVE IInv'
  <2>1. PICK d : d = del.file
    OBVIOUS
  <2> QED
    BY <1>8, <2>1, DeletesStep
<1>9. ASSUME NEW f \in Files, NEW what \in {"user", "alike", "none", "away"}, Edit(f, what) PROVE IInv'
  BY <1>9, EditStep
<1>10. CASE IterationEnds
  BY <1>10, IterationEndsStep
<1>11. CASE Stop
  BY <1>11, StopStep
<1>12. CASE UNCHANGED vars
  BY <1>12, StutterStep
<1>13. CASE Returned
  BY <1>12, <1>13 DEF Returned
<1> QED
  BY <1>1, <1>2, <1>3, <1>4, <1>5, <1>6, <1>7, <1>8, <1>9, <1>10, <1>11, <1>12, <1>13
     DEF Next, Work

LEMMA Inductive == Spec => []IInv
BY InitOK, StepOK, PTL DEF Spec

----------------------------------------------------------------------------
\* pull keeps its state well-formed: no counter of a sharedPullerState goes
\* below zero, whoever decrements it last, and the request limiter never gives
\* out more than it has.
THEOREM TypeCorrect == Spec => []TypeOK
<1>1. IInv => TypeOK
  <2> SUFFICES ASSUME IInv PROVE TypeOK
    OBVIOUS
  <2>1. taken \in 0..MaxPending
    <3>1. taken \in Nat /\ taken <= MaxPending
      BY FS_CardinalityType DEF IInv, TakenOK
    <3> QED
      BY <3>1, Limits
  <2>2. LoopOK /\ StateOK /\ TempOK /\ OutsOK /\ DiskOK
    BY DEF IInv, TypesOK
  <2>3. \A x \in {jobs, errors, scans, synced} : x \in SUBSET Files
    BY <2>2 DEF OutsOK
  <2>4. st \in [Updates -> [on : BOOLEAN, err : {"none", "io", "ctx"}, open : BOOLEAN,
                            todo : SUBSET Blocks, total : Nat, copyNeeded : Nat,
                            pullNeeded : Nat, closed : BOOLEAN, reused : BOOLEAN]]
    BY <2>2, Zenon DEF StateOK, States
  <2> QED
    BY <2>1, <2>2, <2>3, <2>4, Zenon DEF LoopOK, TempOK, DiskOK, TypeOK
<1> QED
  BY <1>1, Inductive, PTL

\* Once the finisher has stopped, every file that was handed to a copier is
\* closed, or could get no temporary file: whoever finds a file unfinished in
\* finalClose is not the last one who holds it.
THEOREM AllFilesFinished == Spec => []EveryFileFinished
<1>1. IInv => EveryFileFinished
  BY AllIdle DEF EveryFileFinished
<1> QED
  BY <1>1, Inductive, PTL

\* Few steps touch the disk or what pull returns.
LEMMA QuietSteps ==
  ASSUME [Next]_vars
  PROVE  \/ /\ UNCHANGED <<disk, jobs, synced, destroyed, conflict, result>>
            /\ noTemp \subseteq noTemp' /\ (ctxDone => ctxDone')
         \/ FinishReplaces \/ FinishRenames \/ DeleteRemoves \/ IterationEnds
         \/ \E f \in Deletions : DeleteChecks(f)
         \/ \E f \in Files, what \in {"user", "alike", "none", "away"} : Edit(f, what)
<1> DEFINE Q == /\ UNCHANGED <<disk, jobs, synced, destroyed, conflict, result>>
                /\ noTemp \subseteq noTemp' /\ (ctxDone => ctxDone')
<1>1. ASSUME NEW f \in Updates, Reject(f) \/ \E h \in BOOLEAN : HandleFile(f, h) PROVE Q
  BY <1>1 DEF Reject, HandleFile, Pop, outs, disks
<1>2. ASSUME NEW c \in Copiers,
             \/ CopierReceive(c) \/ CopierStopped(c) \/ CopierWrites(c)
             \/ CopierPasses(c) \/ CopierEnds(c) \/ PullerReceive(c)
             \/ FinisherReceivesCopier(c)
      PROVE  Q
  BY <1>2 DEF CopierReceive, CopierStopped, CopierWrites, CopierPasses, CopierEnds,
     PullerReceive, FinisherReceivesCopier, loop, outs, disks
<1>3. ASSUME NEW c \in Copiers, NEW b \in Blocks, CopierSkips(c, b) \/ CopyBlock(c, b)
      PROVE  Q
  BY <1>3 DEF CopierSkips, CopyBlock, loop, outs, disks
<1>4. ASSUME PullerChecks \/ PullerTakes \/ FinisherReceivesPuller PROVE Q
  BY <1>4 DEF PullerChecks, PullerTakes, FinisherReceivesPuller, loop, outs, disks
<1>5. ASSUME NEW f \in Updates, NEW b \in BlocksOf[f],
             \/ PullOpens(f, b) \/ RequestBlock(f, b) \/ PullWrites(f, b)
             \/ FinisherReceivesBlock(f, b)
      PROVE  Q
  BY <1>5 DEF PullOpens, RequestBlock, PullWrites, FinisherReceivesBlock, loop, outs, disks
<1>6. ASSUME FinalClose \/ FinishChecks PROVE Q
  <2>1. UNCHANGED <<disk, jobs, synced, destroyed, conflict, result, ctxDone>>
    BY <1>6 DEF FinalClose, FinishChecks, loop, disks
  <2>2. UNCHANGED noTemp \/ noTemp' = noTemp \cup {fin.file}
    BY <1>6 DEF FinalClose, FinishChecks
  <2> QED
    BY <2>1, <2>2
<1>7. ASSUME QueueEnds \/ CopiersEnd \/ PullersEnd \/ FinisherEnds \/ DeletionsEnd
      PROVE  Q
  BY <1>7 DEF QueueEnds, CopiersEnd, PullersEnd, FinisherEnds, DeletionsEnd, Waits, outs,
     disks
<1>9. ASSUME Stop \/ Returned \/ UNCHANGED vars PROVE Q
  BY <1>9 DEF Stop, Returned, vars, loop, outs, disks
<1> QED
  BY <1>1, <1>2, <1>3, <1>4, <1>5, <1>6, <1>7, <1>9 DEF Next, Work

LEMMA ReportStep == IInv /\ FailuresAreReported /\ [Next]_vars => FailuresAreReported'
<1> SUFFICES ASSUME IInv, FailuresAreReported, [Next]_vars PROVE FailuresAreReported'
  OBVIOUS
<1>1. CASE /\ UNCHANGED <<synced, result>>
           /\ noTemp \subseteq noTemp' /\ (ctxDone => ctxDone')
  BY <1>1 DEF FailuresAreReported
<1>2. CASE FinishReplaces \/ FinishRenames \/ DeleteRemoves
           \/ (\E f \in Deletions : DeleteChecks(f))
           \/ \E f \in Files, what \in {"user", "alike", "none", "away"} : Edit(f, what)
  BY <1>1, <1>2 DEF FinishReplaces, FinishRenames, DeleteRemoves, DeleteChecks, Edit, loop,
     outs
<1>3. CASE IterationEnds
  <2>1. SUFFICES ASSUME result' = "true", ~ctxDone'
                 PROVE  Files \ synced' \subseteq noTemp'
    BY DEF FailuresAreReported
  <2>2. /\ phase = "end" /\ synced \subseteq synced' /\ UNCHANGED ctxDone
    BY <1>3 DEF IterationEnds
  <2>3. result = "none"
    BY <2>2 DEF IInv, ReportOK
  <2>4. /\ UNCHANGED noTemp /\ jobs = {} /\ errors = {}
    BY <1>3, <2>1, <2>3 DEF IterationEnds
  <2>5. queue = {} /\ dels = {} /\ del = Idle /\ fin = Idle
    BY <2>1, <2>2, AllIdle DEF IInv, ReportOK
  <2>6. fin.file = NoFile /\ del.file = NoFile
    BY <2>5 DEF Idle
  <2>7. ASSUME NEW f \in Updates PROVE f \in synced \/ f \in noTemp
    <3>1. st[f].on => st[f].closed \/ f \in noTemp
      BY <2>2, AllIdle
    <3>2. st[f].closed => st[f].err = "ctx"
      BY <2>4, <2>6, NoFileFacts DEF IInv, ReportOK
    <3>3. st[f].err # "ctx"
      BY <2>1, <2>2 DEF IInv, ReportOK
    <3> QED
      BY <2>4, <2>5, <3>1, <3>2, <3>3 DEF IInv, ReportOK
  <2>8. ASSUME NEW d \in Deletions PROVE d \in synced
    BY <2>4, <2>5, <2>6, NoFileFacts DEF IInv, ReportOK
  <2> QED
    BY <2>2, <2>4, <2>7, <2>8 DEF Files
<1> QED
  BY <1>1, <1>2, <1>3, QuietSteps

\* When pull returns true and has not been stopped, the only files that are not
\* synchronized are those that could get no temporary file.
THEOREM FailuresReported == Spec => []FailuresAreReported
<1>1. Init => FailuresAreReported
  BY DEF Init, FailuresAreReported
<1> QED
  BY <1>1, Inductive, ReportStep, PTL DEF Spec

----------------------------------------------------------------------------
\* Taking an item out of the way destroys neither a visible edit made before the
\* last look at it nor a conflicting version that is to be kept.
LEMMA RemoveKeeps ==
  ASSUME UserChangeKept, NEW f \in Files, RemoveItem(f), disk[f] # "user"
  PROVE  UserChangeKept'
<1>1. /\ UNCHANGED conflict
      /\ destroyed' = IF disk[f] # "none" /\ Destroys(f)
                      THEN destroyed \cup {<<f, disk[f]>>} ELSE destroyed
  BY DEF RemoveItem
<1>2. \A p \in destroyed' : p \in destroyed \/ (p = <<f, disk[f]>> /\ Destroys(f))
  BY <1>1
<1>3. \A g \in Files : <<g, "user">> \notin destroyed'
  BY <1>2 DEF UserChangeKept
<1>4. ASSUME MaxConflicts # 0, NEW g \in conflict \ ConflictCopies
      PROVE  <<g, "cur">> \notin destroyed'
  <2>1. <<g, "cur">> \notin destroyed
    BY <1>4 DEF UserChangeKept
  <2>2. f \in conflict \ ConflictCopies => ~Destroys(f)
    BY <1>4 DEF Destroys
  <2> QED
    BY <1>2, <1>4, <2>1, <2>2
<1> QED
  BY <1>1, <1>3, <1>4 DEF UserChangeKept

LEMMA KeptStep == IInv /\ UserChangeKept /\ [Next]_vars => UserChangeKept'
<1> SUFFICES ASSUME IInv, UserChangeKept, [Next]_vars PROVE UserChangeKept'
  OBVIOUS
<1>1. CASE UNCHANGED <<destroyed, conflict>>
  BY <1>1 DEF UserChangeKept
<1>2. CASE \E f \in Files, what \in {"user", "alike", "none", "away"} : Edit(f, what)
  BY <1>1, <1>2 DEF Edit
<1>3. CASE IterationEnds \/ \E f \in Deletions : DeleteChecks(f)
  BY <1>1, <1>3 DEF IterationEnds, DeleteChecks, disks
<1>4. CASE FinishReplaces
  <2>1. PICK f : f = fin.file
    OBVIOUS
  <2>2. UNCHANGED disks \/ RemoveItem(f)
    BY <1>4, <2>1 DEF FinishReplaces
  <2>3. f \in Files /\ disk[f] # "user"
    BY <1>4, <2>1 DEF FinishReplaces, IInv, TypesOK, FinOK, Worker, WindowOK, Files
  <2> QED
    BY <1>1, <2>2, <2>3, RemoveKeeps DEF disks
<1>5. CASE DeleteRemoves
  <2>1. PICK f : f = del.file
    OBVIOUS
  <2>2. UNCHANGED disks \/ RemoveItem(f)
    BY <1>5, <2>1 DEF DeleteRemoves
  <2>3. f \in Files /\ disk[f] # "user"
    BY <1>5, <2>1 DEF DeleteRemoves, IInv, TypesOK, DelOK, Worker, WindowOK, Files
  <2> QED
    BY <1>1, <2>2, <2>3, RemoveKeeps DEF disks
<1>6. CASE FinishRenames
  <2>1. PICK f : f = fin.file
    OBVIOUS
  <2>2. /\ UNCHANGED conflict
        /\ \/ UNCHANGED destroyed
           \/ destroyed' = destroyed \cup {<<f, disk[f]>>} /\ disk[f] # "none"
    BY <1>6, <2>1 DEF FinishRenames, disks
  <2>3. disk[f] \in {"late", "none"}
    BY <1>6, <2>1 DEF FinishRenames, IInv, WindowOK
  <2>4. \A g : \A what \in {"user", "cur"} :
           <<g, what>> \in destroyed' => <<g, what>> \in destroyed
    BY <2>2, <2>3
  <2> QED
    BY <2>2, <2>4 DEF UserChangeKept
<1> QED
  BY <1>1, <1>2, <1>3, <1>4, <1>5, <1>6, QuietSteps

\* Whatever is edited, stopped or failing while a file goes through the
\* pipeline: an edit made before the last look at the file stays if it shows in
\* the file's size or time, and so does a conflicting local version when
\* conflict copies are kept, unless it is one itself.
THEOREM UserChangesKept == Spec => []UserChangeKept
<1>1. Init => UserChangeKept
  BY DEF Init, UserChangeKept
<1> QED
  BY <1>1, Inductive, KeptStep, PTL DEF Spec

----------------------------------------------------------------------------
(***************************************************************************)
(* Every step of the pipeline is a step of FileReplica or none.            *)
(***************************************************************************)
LEMMA ReplicaInit == Init => Replica!Init
BY DEF Init, Replica!Init, Replica!Files, Files

\* A file whose blocks need no more work is complete, or one of the exceptions.
LEMMA ContentFacts ==
  ASSUME NEW f \in Updates, Cut(temp[f]), \A b \in BlocksOf[f] : Right(temp[f], b),
         temp[f][0] # "missing" => Tailed(f)
  PROVE  \/ Content(f) = "new"
         \/ Content(f) = "short" /\ f \in MayBeShort
         \/ Content(f) = "long" /\ f \in MayBeLong
<1> DEFINE wrong == {b \in BlocksOf[f] : temp[f][b] # Want(b)}
           tail  == temp[f][0] # "missing"
<1>1. \A b \in wrong : /\ b \in ZeroBlocks /\ temp[f][b] = "missing"
                       /\ TruncateFails /\ ~DisableSparseFiles
  BY DEF Right
<1>2. tail => DisableSparseFiles /\ Tailed(f)
  BY DEF Cut
<1>3. CASE wrong = {} /\ ~tail
  BY <1>3 DEF Content
<1>4. CASE wrong = {} /\ tail
  <2>1. Content(f) = "long"
    BY <1>4 DEF Content
  <2> QED
    BY <1>2, <1>4, <2>1 DEF MayBeLong, Tailed
<1>5. CASE wrong # {}
  <2>1. PICK b \in wrong : TRUE
    BY <1>5
  <2>2. /\ b \in BlocksOf[f] \cap ZeroBlocks /\ TruncateFails /\ ~DisableSparseFiles /\ ~tail
    BY <1>1, <1>2, <2>1
  <2>3. Content(f) = "short"
    BY <1>1, <1>5, <2>2 DEF Content
  <2> QED
    BY <2>2, <2>3 DEF MayBeShort
<1> QED
  BY <1>3, <1>4, <1>5

LEMMA ReplicaStep == IInv /\ [Next]_vars => [Replica!Next]_(Replica!vars)
<1> SUFFICES ASSUME IInv, [Next]_vars PROVE [Replica!Next]_(Replica!vars)
  OBVIOUS
<1>1. CASE UNCHANGED <<disk, jobs, synced>>
  BY <1>1 DEF Replica!vars
<1>2. ASSUME NEW f \in Files, NEW what \in {"user", "alike", "none", "away"}, Edit(f, what)
      PROVE  Replica!Next
  <2>1. UNCHANGED <<jobs, synced>>
    BY <1>2 DEF Edit, outs
  <2>2. \E w \in {"user", "alike", "late", "none", "away"} : disk' = [disk EXCEPT ![f] = w]
    BY <1>2 DEF Edit
  <2>3. Replica!UserEdits(f)
    BY <2>1, <2>2 DEF Replica!UserEdits
  <2> QED
    BY <2>3 DEF Replica!Next, Replica!Files, Files
<1>3. CASE IterationEnds
  <2>1. /\ synced' = synced \cup jobs /\ UNCHANGED disk
        /\ jobs' = {} \/ UNCHANGED jobs
    BY <1>3 DEF IterationEnds, disks
  <2>2. (jobs \cup synced)' = jobs \cup synced
    BY <2>1
  <2> QED
    BY <2>1, <2>2 DEF Replica!Next, Replica!Record
<1>4. CASE FinishReplaces
  <2>1. PICK f : f = fin.file
    OBVIOUS
  <2>2. UNCHANGED <<jobs, synced>> /\ (UNCHANGED disk \/ disk' = [disk EXCEPT ![f] = "none"])
    BY <1>4, <2>1 DEF FinishReplaces, RemoveItem, disks
  <2>3. f \in Files /\ disk[f] \in {"cur", "alike", "late", "none"}
    BY <1>4, <2>1 DEF FinishReplaces, IInv, TypesOK, FinOK, Worker, WindowOK, Files
  <2>4. disk' = [disk EXCEPT ![f] = "none"] => Replica!Remove(f)
    BY <2>2, <2>3 DEF Replica!Remove
  <2> QED
    BY <1>1, <2>2, <2>3, <2>4 DEF Replica!Next, Replica!Files, Files
<1>5. CASE DeleteRemoves
  <2>1. PICK f : f = del.file
    OBVIOUS
  <2>2. /\ UNCHANGED synced
        /\ \/ UNCHANGED <<disk, jobs>>
           \/ disk[f] = "away" /\ UNCHANGED disk /\ jobs' = jobs \cup {f}
           \/ /\ disk[f] # "away" /\ disk' = [disk EXCEPT ![f] = "none"]
              /\ jobs' = jobs \cup {f}
    BY <1>5, <2>1 DEF DeleteRemoves, RemoveItem, disks
  <2>3. /\ f \in Files /\ f \in Deletions
        /\ disk[f] \in {"cur", "alike", "late", "none", "away"}
    BY <1>5, <2>1 DEF DeleteRemoves, IInv, TypesOK, DelOK, Worker, WindowOK, Files
  <2>4. jobs' = jobs \cup {f} => (jobs \cup synced)' = (jobs \cup synced) \cup {f}
    BY <2>2
  <2>5. /\ disk[f] # "away" /\ disk' = [disk EXCEPT ![f] = "none"] /\ jobs' = jobs \cup {f}
        => Replica!Remove(f)
    BY <2>2, <2>3, <2>4 DEF Replica!Remove
  <2>6. disk[f] = "away" /\ UNCHANGED disk /\ jobs' = jobs \cup {f} => Replica!Forget(f)
    BY <2>2, <2>3, <2>4 DEF Replica!Forget
  <2> QED
    BY <1>1, <2>2, <2>3, <2>5, <2>6 DEF Replica!Next, Replica!Files, Files
<1>6. CASE FinishRenames
  <2>1. PICK f : f = fin.file
    OBVIOUS
  <2>2. /\ fin.pc = "rename" /\ UNCHANGED synced
        /\ \/ UNCHANGED <<disk, jobs>>
           \/ jobs' = jobs \cup {f} /\ disk' = [disk EXCEPT ![f] = Content(f)]
    BY <1>6, <2>1 DEF FinishRenames, disks
  <2>3. f \in Files /\ f \in Updates /\ disk[f] \in {"late", "none"}
    BY <2>1, <2>2 DEF IInv, TypesOK, FinOK, Worker, WindowOK, Files
  <2>4. /\ Cut(temp[f]) /\ \A b \in BlocksOf[f] : Right(temp[f], b)
        /\ temp[f][0] # "missing" => Tailed(f)
    BY <2>1, <2>2, <2>3 DEF IInv, TypesOK, TempOK, FinishOK
  <2>5. Content(f) = "new" \/ (Content(f) = "short" /\ f \in MayBeShort)
        \/ (Content(f) = "long" /\ f \in MayBeLong)
    BY <2>3, <2>4, ContentFacts
  <2>6. jobs' = jobs \cup {f} => (jobs \cup synced)' = (jobs \cup synced) \cup {f}
    BY <2>2
  <2>7. jobs' = jobs \cup {f} /\ disk' = [disk EXCEPT ![f] = Content(f)] => Replica!Appear(f)
    BY <2>2, <2>3, <2>5, <2>6 DEF Replica!Appear
  <2> QED
    BY <1>1, <2>2, <2>3, <2>7 DEF Replica!Next, Replica!Files, Files
<1>7. ASSUME NEW f \in Deletions, DeleteChecks(f)
      PROVE  [Replica!Next]_(Replica!vars)
  <2>1. /\ UNCHANGED <<synced, disk>>
        /\ \/ UNCHANGED jobs
           \/ disk[f] \in {"away", "none"} /\ jobs' = jobs \cup {f}
    BY <1>7 DEF DeleteChecks, disks
  <2>2. jobs' = jobs \cup {f} => (jobs \cup synced)' = (jobs \cup synced) \cup {f}
    BY <2>1
  <2>3. disk[f] = "away" /\ jobs' = jobs \cup {f} => Replica!Forget(f)
    BY <1>7, <2>1, <2>2 DEF Replica!Forget
  <2>4. disk[f] = "none" /\ jobs' = jobs \cup {f} => Replica!Remove(f)
    <3>1. disk \in [Files -> Items] /\ f \in Files
      BY <1>7 DEF IInv, TypesOK, DiskOK, Files
    <3>2. disk[f] = "none" => disk' = [disk EXCEPT ![f] = "none"]
      BY <2>1, <3>1
    <3> QED
      BY <1>7, <2>1, <2>2, <3>2 DEF Replica!Remove
  <2> QED
    BY <1>1, <1>7, <2>1, <2>3, <2>4 DEF Replica!Next, Replica!Files
<1> QED
  BY <1>1, <1>2, <1>3, <1>4, <1>5, <1>6, <1>7, QuietSteps

\* Only complete files get their real name, but for those whose size could not
\* or need not be set; only the old version or a late edit is ever in their
\* place; and the database is told only what has happened on disk, or deletions
\* that cannot be reached: the pipeline implements FileReplica.
THEOREM PullImplementsReplica == Spec => ImplementsReplica
<1>1. Spec => Replica!Init /\ [][Replica!Next]_(Replica!vars)
  BY ReplicaInit, ReplicaStep, Inductive, PTL DEF Spec
<1> QED
  BY <1>1 DEF ImplementsReplica, Replica!Spec

\* Where the size of every temporary file can be set, and is, each file that
\* gets its real name is complete, whatever old temporary file it started from.
THEOREM FilesAppearComplete ==
  ASSUME ~TruncateFails, ~DisableSparseFiles
  PROVE  Spec => []AppearsComplete
<1>1. MayBeShort = {} /\ MayBeLong = {}
  BY DEF MayBeShort, MayBeLong
<1>2. Init => AppearsComplete
  BY DEF Init, AppearsComplete, Files
<1>3. AppearsComplete /\ IInv /\ [Next]_vars => AppearsComplete'
  <2> SUFFICES ASSUME AppearsComplete, IInv, [Next]_vars PROVE AppearsComplete'
    OBVIOUS
  <2>1. disk \in [Files -> Items]
    BY DEF IInv, TypesOK, DiskOK
  <2>2. [Replica!Next]_(Replica!vars)
    BY ReplicaStep
  <2>3. \/ UNCHANGED disk
        \/ \E f \in Files, w \in {"user", "alike", "late", "none", "away", "new"} :
             disk' = [disk EXCEPT ![f] = w]
    BY <1>1, <2>2 DEF Replica!Next, Replica!vars, Replica!Record, Replica!UserEdits,
       Replica!Remove, Replica!Forget, Replica!Appear, Replica!Files, Files
  <2> QED
    BY <2>1, <2>3 DEF AppearsComplete, Files
<1> QED
  BY <1>2, <1>3, Inductive, PTL DEF Spec
=============================================================================
