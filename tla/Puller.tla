------------------------------- MODULE Puller -------------------------------
(***************************************************************************)
(* One call of pull() of a send-receive folder (lib/model/                 *)
(* folder_sendrecv.go, sharedpullerstate.go): the files that are needed go *)
(* from processNeeded through the copiers, the puller routine and one      *)
(* goroutine per block to the finisher; the deletions follow; and all of   *)
(* it is repeated while it changes something.                              *)
(*                                                                         *)
(* All channels of the pipeline are unbuffered: sending is a step together *)
(* with the receiver.  The user edits files meanwhile, the folder may be   *)
(* stopped at any time, and reading, writing and requesting may fail.      *)
(* Regular files of a folder that is not receive-encrypted and does not    *)
(* ignore deletions; what is needed does not change during the call, and   *)
(* no rename shortcut applies.                                             *)
(***************************************************************************)
EXTENDS Integers, FiniteSets

CONSTANTS
  Updates, Deletions,  \* the needed files: to be fetched, to be deleted
  BlocksOf,            \* update -> its block numbers, in the order of the file
  ZeroBlocks,          \* those of them that are all zeroes
  Copiers,
  MaxPending,          \* what requestLimiter admits, in blocks
  MaxIterations,       \* maxPullerIterations
  Versioned,           \* does the folder have a versioner?
  MaxConflicts,        \* how many conflict copies are kept, -1 for all
  ConflictCopies,      \* the files whose name is that of a conflict copy
  DisableSparseFiles,
  TempFails,           \* may creating a temporary file fail?
  TruncateFails,       \* may setting the size of a new one fail?
  MayStop,             \* may the folder be stopped?
  MaxEdits,            \* bound: edits by the user
  OldTemps(_),         \* the temporary files an earlier pull may have left of f
  NoFile               \* stands for no file

Files  == Updates \cup Deletions
Blocks == UNION {BlocksOf[f] : f \in Updates}

ASSUME PullerAssumption ==
  /\ Updates \cap Deletions = {} /\ NoFile \notin Files
  /\ ZeroBlocks \subseteq Blocks /\ Blocks \subseteq Nat \ {0} /\ IsFiniteSet(Blocks)
  /\ MaxPending \in Nat \ {0} /\ MaxIterations \in Nat \ {0}
  /\ MaxConflicts \in Nat \cup {-1} /\ MaxEdits \in Nat
  /\ ConflictCopies \subseteq Files
  /\ {Versioned, DisableSparseFiles, TempFails, TruncateFails, MayStop} \subseteq BOOLEAN

VARIABLES
  \* pull, pullerIteration and processNeeded
  phase,      \* what the iteration is waiting for
  tries, queue, dels, popped, procErr, result,
  \* the sharedPullerStates and the temporary files
  st, temp,
  \* the goroutines
  copier, puller, job, taken, fin, del,
  \* what they leave behind
  jobs, errors, scans, synced,
  \* the files as the database and the disk have them
  row, conflict, disk,
  ctxDone, edits,
  \* history: contents that were destroyed, files whose last attempt to have a
  \* temporary file failed
  destroyed, noTemp

loop  == <<phase, tries, queue, dels, popped, procErr, result>>
disks == <<row, conflict, disk, edits, destroyed>>
outs  == <<jobs, errors, scans, synced>>
vars  == <<phase, tries, queue, dels, popped, procErr, result, st, temp, copier,
           puller, job, taken, fin, del, jobs, errors, scans, synced, row,
           conflict, disk, ctxDone, edits, destroyed, noTemp>>

----------------------------------------------------------------------------
\* Contents of a block of a temporary file, and what it should be.  Slot 0 is
\* what the file has after the last block: it should be missing.
Cells    == {"zero", "data", "junk", "missing"}
Slots(f) == BlocksOf[f] \cup {0}
Want(b)  == IF b \in ZeroBlocks THEN "zero" ELSE "data"
NoTemp(f) == [b \in Slots(f) |-> "missing"]

ASSUME OldTempsAssumption ==
  \A f \in Updates : OldTemps(f) \subseteq [Slots(f) -> Cells]

Idle == [pc |-> "idle", file |-> NoFile, block |-> 0]
At(pc, f, b) == [pc |-> pc, file |-> f, block |-> b]

\* A sharedPullerState that no copier has got yet.
Unused == [on |-> FALSE, err |-> "none", open |-> FALSE, todo |-> {}, total |-> 0,
           copyNeeded |-> 0, pullNeeded |-> 0, closed |-> FALSE, reused |-> FALSE]

Init ==
  /\ phase = "need" /\ tries = 1 /\ queue = Updates /\ dels = Deletions
  /\ popped = NoFile /\ procErr = FALSE /\ result = "none"
  /\ st = [f \in Updates |-> Unused]
  /\ temp \in [Updates -> UNION {OldTemps(f) : f \in Updates}]
  /\ \A f \in Updates : temp[f] \in OldTemps(f)
  /\ copier = [c \in Copiers |-> Idle] /\ puller = Idle
  /\ job = [f \in Updates |-> [b \in BlocksOf[f] |-> "none"]] /\ taken = 0
  /\ fin = Idle /\ del = Idle
  /\ jobs = {} /\ errors = {} /\ scans = {} /\ synced = {}
  /\ row \in [Files -> {"none", "file"}]
  /\ conflict \in SUBSET {f \in Files : row[f] = "file"}
  /\ disk = [f \in Files |-> IF row[f] = "file" THEN "cur" ELSE "none"]
  /\ ctxDone = FALSE /\ edits = 0 /\ destroyed = {} /\ noTemp = {}

----------------------------------------------------------------------------
(***************************************************************************)
(* processNeeded: the queue of files, once everything needed is listed     *)
(* (deletions of files that we do not have are done while listing).  A     *)
(* file that has no parent, no device or no space is an error at once; the *)
(* others are handed to a copier with the blocks that an older temporary   *)
(* file does not have, which is hashed for that.                           *)
(***************************************************************************)
Reusable(f) == {b \in BlocksOf[f] : temp[f][b] = Want(b)}

Listed == \A f \in dels : row[f] = "file"

Pop(f) ==
  /\ phase = "need" /\ Listed /\ popped = NoFile /\ ~ctxDone /\ f \in queue
  /\ queue' = queue \ {f}

Reject(f) ==
  /\ Pop(f)
  /\ errors' = errors \cup {f}
  /\ UNCHANGED <<phase, tries, dels, popped, procErr, result, st, temp, copier,
                 puller, job, taken, fin, del, jobs, scans, synced, disks,
                 ctxDone, noTemp>>

HandleFile(f, hashed) ==
  /\ Pop(f)
  /\ popped' = f
  /\ LET have == IF hashed THEN Reusable(f) ELSE {}
         need == BlocksOf[f] \ have
     IN /\ temp' = [temp EXCEPT ![f] = IF have = {} THEN NoTemp(f) ELSE @]
        /\ st' = [st EXCEPT ![f] =
                    [Unused EXCEPT !.on = TRUE, !.todo = need,
                                   !.total = Cardinality(need),
                                   !.copyNeeded = Cardinality(need),
                                   !.reused = have # {}]]
  /\ UNCHANGED <<phase, tries, dels, procErr, result, copier, puller, job, taken,
                 fin, del, outs, disks, ctxDone, noTemp>>

CopierReceive(c) ==
  /\ popped # NoFile /\ copier[c] = Idle
  /\ copier' = [copier EXCEPT ![c] = At("block", popped, 0)]
  /\ popped' = NoFile
  /\ UNCHANGED <<phase, tries, queue, dels, procErr, result, st, temp, puller, job,
                 taken, fin, del, outs, disks, ctxDone, noTemp>>

----------------------------------------------------------------------------
(***************************************************************************)
(* The shared state of a file.  Each of these runs under its mutex.        *)
(***************************************************************************)
Fail(s, f, e) == [s EXCEPT ![f].err = IF @ = "none" THEN e ELSE @]

\* Mutant of CopyDone: a block that the copier passes on is counted as done too.
CopyDoneTwice(s, f) == [s EXCEPT ![f].copyNeeded = @ - 2]

CopyDone(s, f)    == [s EXCEPT ![f].copyNeeded = @ - 1]
PullStarted(s, f) == [s EXCEPT ![f].copyNeeded = @ - 1, ![f].pullNeeded = @ + 1]
PullDone(s, f)    == [s EXCEPT ![f].pullNeeded = @ - 1]

\* The temporary file with its size set: cut at the end, filled with zeroes.
Truncated(t) ==
  [b \in DOMAIN t |-> CASE b = 0 -> "missing"
                       [] b # 0 /\ t[b] = "missing" -> "zero"
                       [] b # 0 /\ t[b] # "missing" -> t[b]]

\* What opening the file may give: created anew unless blocks of it are reused.
\* The size is set where sparse files are used; failing at that is tolerated
\* for a new file.
Opened(f) ==
  LET t == IF st[f].reused THEN temp[f] ELSE NoTemp(f)
  IN IF DisableSparseFiles THEN {t}
     ELSE {Truncated(t)} \cup {x \in {t} : TruncateFails /\ ~st[f].reused}

\* A failure may remove a file that was to be reused.
AddWriterLocked(f, ok) ==
  /\ ok \/ TempFails
  /\ \/ ok /\ \E t \in Opened(f) : temp' = [temp EXCEPT ![f] = t]
     \/ ~ok /\ UNCHANGED temp
     \/ ~ok /\ st[f].reused /\ temp' = [temp EXCEPT ![f] = NoTemp(f)]

\* tempFile: got says whether the caller gets the open file.
TempFile(f, got) ==
  IF st[f].err # "none" \/ st[f].open
  THEN got = (st[f].err = "none") /\ UNCHANGED <<st, temp>>
  ELSE /\ AddWriterLocked(f, got)
       /\ st' = IF got THEN [st EXCEPT ![f].open = TRUE] ELSE Fail(st, f, "io")

\* A write through the open file: into the block, with zeroes up to it if the
\* file was shorter; or an error, always after the file has been closed.
Written(t, b, what) ==
  [c \in DOMAIN t |-> CASE c = b -> what
                       [] c # b /\ c \in 1..b /\ t[c] = "missing" -> "zero"
                       [] c # b /\ ~(c \in 1..b /\ t[c] = "missing") -> t[c]]

WriteAt(f, b, what, ok) ==
  /\ ok => ~st[f].closed
  /\ temp' = IF ok THEN [temp EXCEPT ![f] = Written(@, b, what)] ELSE temp

IOError == IF ctxDone THEN {"io", "ctx"} ELSE {"io"}

----------------------------------------------------------------------------
(***************************************************************************)
(* A copier works through the blocks of its file.                          *)
(***************************************************************************)
\* Zeroes need no copying into a new sparse file.
Skipped(f, b) == ~DisableSparseFiles /\ ~st[f].reused /\ b \in ZeroBlocks

CopierGoes(c, pc, b) ==
  copier' = [copier EXCEPT ![c] = At(pc, copier[c].file, b)]

CopierStopped(c) ==
  LET f == copier[c].file IN
  /\ copier[c].pc = "block" /\ st[f].todo # {} /\ ctxDone
  /\ st' = Fail(st, f, "ctx")
  /\ CopierGoes(c, "out", 0)
  /\ UNCHANGED <<loop, temp, puller, job, taken, fin, del, outs, disks, ctxDone, noTemp>>

CopierSkips(c, b) ==
  LET f == copier[c].file IN
  /\ copier[c].pc = "block" /\ ~ctxDone /\ b \in st[f].todo /\ Skipped(f, b)
  /\ st' = [CopyDone(st, f) EXCEPT ![f].todo = @ \ {b}]
  /\ UNCHANGED <<loop, temp, copier, puller, job, taken, fin, del, outs, disks,
                 ctxDone, noTemp>>

\* copyBlock: a verified source is found and the temporary file opened, or not.
CopyBlock(c, b) ==
  LET f == copier[c].file IN
  /\ copier[c].pc = "block" /\ ~ctxDone /\ b \in st[f].todo /\ ~Skipped(f, b)
  /\ \/ /\ CopierGoes(c, "check", b)
        /\ UNCHANGED <<st, temp>>
     \/ \E got \in BOOLEAN :
          /\ TempFile(f, got)
          /\ CopierGoes(c, IF got THEN "write" ELSE "check", b)
  /\ UNCHANGED <<loop, puller, job, taken, fin, del, outs, disks, ctxDone, noTemp>>

CopierWrites(c) ==
  LET f == copier[c].file
      b == copier[c].block IN
  /\ copier[c].pc = "write"
  /\ \E ok \in BOOLEAN, e \in IOError :
       /\ WriteAt(f, b, Want(b), ok)
       /\ IF ok
          THEN /\ st' = [CopyDone(st, f) EXCEPT ![f].todo = @ \ {b}]
               /\ CopierGoes(c, "block", 0)
          ELSE st' = Fail(st, f, e) /\ CopierGoes(c, "check", b)
  /\ UNCHANGED <<loop, puller, job, taken, fin, del, outs, disks, ctxDone, noTemp>>

\* The block was not copied: the file has failed, or the block is pulled.
CopierPasses(c) ==
  LET f == copier[c].file
      b == copier[c].block IN
  /\ copier[c].pc = "check"
  /\ IF st[f].err # "none"
     THEN CopierGoes(c, "out", 0) /\ UNCHANGED st
     ELSE /\ CopierGoes(c, "send", b)
          /\ st' = [PullStarted(st, f) EXCEPT ![f].todo = @ \ {b}]
  /\ UNCHANGED <<loop, temp, puller, job, taken, fin, del, outs, disks, ctxDone, noTemp>>

\* The last block is passed on; without any the temporary file is opened here.
CopierEnds(c) ==
  LET f == copier[c].file IN
  /\ copier[c].pc = "block" /\ st[f].todo = {}
  /\ IF st[f].total = 0
     THEN \E got \in BOOLEAN : TempFile(f, got)
     ELSE UNCHANGED <<st, temp>>
  /\ CopierGoes(c, "out", 0)
  /\ UNCHANGED <<loop, puller, job, taken, fin, del, outs, disks, ctxDone, noTemp>>

----------------------------------------------------------------------------
(***************************************************************************)
(* The puller routine starts a goroutine per block, as far as the limiter  *)
(* lets it; pullBlock asks the devices that have the block, one by one.    *)
(***************************************************************************)
PullerReceive(c) ==
  /\ copier[c].pc = "send" /\ puller = Idle
  /\ puller' = At("got", copier[c].file, copier[c].block)
  /\ CopierGoes(c, "block", 0)
  /\ UNCHANGED <<loop, st, temp, job, taken, fin, del, outs, disks, ctxDone, noTemp>>

PullerGives(pc) == puller' = [puller EXCEPT !.pc = pc]

PullerChecks ==
  /\ puller.pc = "got"
  /\ PullerGives(IF st[puller.file].err # "none" THEN "out" ELSE "take")
  /\ UNCHANGED <<loop, st, temp, copier, job, taken, fin, del, outs, disks, ctxDone,
                 noTemp>>

PullerTakes ==
  /\ puller.pc = "take"
  /\ \/ /\ taken < MaxPending
        /\ taken' = taken + 1
        /\ job' = [job EXCEPT ![puller.file][puller.block] = "open"]
        /\ puller' = Idle
        /\ UNCHANGED st
     \/ /\ ctxDone
        /\ st' = Fail(st, puller.file, "ctx")
        /\ PullerGives("out")
        /\ UNCHANGED <<taken, job>>
  /\ UNCHANGED <<loop, temp, copier, fin, del, outs, disks, ctxDone, noTemp>>

JobGoes(f, b, pc) == job' = [job EXCEPT ![f][b] = pc]

\* Zeroes are not requested, and not written into a new sparse file.
PullOpens(f, b) ==
  /\ job[f][b] = "open"
  /\ \E got \in BOOLEAN :
       /\ TempFile(f, got)
       /\ JobGoes(f, b, CASE ~got -> "out"
                          [] got /\ b \notin ZeroBlocks -> "request"
                          [] got /\ Skipped(f, b) -> "skip"
                          [] got /\ b \in ZeroBlocks /\ ~Skipped(f, b) -> "zero")
  /\ UNCHANGED <<loop, copier, puller, taken, fin, del, outs, disks, ctxDone, noTemp>>

Verified(buf, b) == buf = Want(b)

\* Some device answers with the block, or none of them does.
RequestBlock(f, b) ==
  /\ job[f][b] = "request"
  /\ \/ /\ \E buf \in {"data", "junk"} :
             Verified(buf, b) /\ JobGoes(f, b, buf)
        /\ UNCHANGED st
     \/ /\ \E e \in IOError : st' = Fail(st, f, e)
        /\ JobGoes(f, b, "out")
  /\ UNCHANGED <<loop, temp, copier, puller, taken, fin, del, outs, disks, ctxDone,
                 noTemp>>

PullWrites(f, b) ==
  /\ job[f][b] \in {"data", "junk", "zero", "skip"}
  /\ \E ok \in BOOLEAN, e \in IOError :
       /\ IF job[f][b] = "skip"
          THEN ok /\ UNCHANGED temp
          ELSE WriteAt(f, b, job[f][b], ok)
       /\ st' = IF ok THEN PullDone(st, f) ELSE Fail(st, f, e)
  /\ JobGoes(f, b, "out")
  /\ UNCHANGED <<loop, copier, puller, taken, fin, del, outs, disks, ctxDone, noTemp>>

----------------------------------------------------------------------------
(***************************************************************************)
(* The finisher gets a file from everyone who has worked on it.            *)
(***************************************************************************)
FinisherGets(f) ==
  /\ fin = Idle /\ phase \in {"need", "copy", "pull", "finish"}
  /\ fin' = At("close", f, 0)

FinisherReceivesCopier(c) ==
  /\ copier[c].pc = "out" /\ FinisherGets(copier[c].file)
  /\ copier' = [copier EXCEPT ![c] = Idle]
  /\ UNCHANGED <<loop, st, temp, puller, job, taken, del, outs, disks, ctxDone, noTemp>>

FinisherReceivesPuller ==
  /\ puller.pc = "out" /\ FinisherGets(puller.file)
  /\ puller' = Idle
  /\ UNCHANGED <<loop, st, temp, copier, job, taken, del, outs, disks, ctxDone, noTemp>>

FinisherReceivesBlock(f, b) ==
  /\ job[f][b] = "out" /\ FinisherGets(f)
  /\ JobGoes(f, b, "none") /\ taken' = taken - 1
  /\ UNCHANGED <<loop, st, temp, copier, puller, del, outs, disks, ctxDone, noTemp>>

\* Mutants of Closable: a failed file is closed only once nobody works on it;
\* a file is closed once nothing is left to copy.
ClosableWhenDone(f)   == ~st[f].closed /\ st[f].copyNeeded + st[f].pullNeeded = 0
ClosableWhenCopied(f) ==
  ~st[f].closed /\ (st[f].copyNeeded = 0 \/ st[f].err # "none")

Closable(f) ==
  /\ ~st[f].closed
  /\ st[f].copyNeeded + st[f].pullNeeded = 0 \/ st[f].err # "none"

NewPullError(f, e) == errors' = IF e = "ctx" THEN errors ELSE errors \cup {f}

\* finalClose, and what the finisher does with its answer.
FinalClose ==
  LET f == fin.file IN
  /\ fin.pc = "close"
  /\ \/ /\ ~Closable(f)
        /\ fin' = Idle
        /\ UNCHANGED <<st, temp, errors, noTemp>>
     \/ /\ Closable(f) /\ ~st[f].open /\ AddWriterLocked(f, FALSE)
        /\ fin' = Idle /\ noTemp' = noTemp \cup {f}
        /\ UNCHANGED <<st, errors>>
     \/ /\ Closable(f)
        /\ IF st[f].open THEN UNCHANGED temp ELSE AddWriterLocked(f, TRUE)
        /\ \E e \in {"none"} \cup IOError :
             LET s == IF e = "none" THEN st ELSE Fail(st, f, e) IN
             /\ st' = [s EXCEPT ![f].open = FALSE, ![f].closed = TRUE]
             /\ IF s[f].err = "none"
                THEN fin' = At("check", f, 0) /\ UNCHANGED errors
                ELSE fin' = Idle /\ NewPullError(f, s[f].err)
        /\ UNCHANGED noTemp
  /\ UNCHANGED <<loop, copier, puller, job, taken, del, jobs, scans, synced, disks,
                 ctxDone>>

\* Mutant of Changed: only an item that the database does not have counts.
ChangedUnknown(f) == row[f] = "none"

\* scanIfItemChanged: does what is on disk look different from what the database
\* has?  Sizes, times and permissions are compared, not contents.
Changed(f) == row[f] = "none" \/ disk[f] \notin {"cur", "alike"}

\* Mutant of Modified: schedules the scan and reports nothing.
ModifiedUnreported(f) == scans' = scans \cup {f} /\ UNCHANGED errors

Modified(f) == scans' = scans \cup {f} /\ errors' = errors \cup {f}

\* Mutant of FinishFails: the finisher ends at the first failure.
FinishFailsAndEnds ==
  /\ fin' = At("ended", NoFile, 0) /\ errors' = errors \cup {fin.file}

FinishFails ==
  /\ fin' = Idle /\ errors' = errors \cup {fin.file}

\* performFinish, first part: permissions, then a look at what is in the way.
FinishChecks ==
  LET f == fin.file IN
  /\ fin.pc = "check"
  /\ \/ FinishFails /\ UNCHANGED scans
     \/ /\ disk[f] = "none" /\ fin' = At("rename", f, 0)
        /\ UNCHANGED <<errors, scans>>
     \/ /\ disk[f] # "none" /\ Changed(f)
        /\ Modified(f) /\ fin' = Idle
     \/ /\ disk[f] # "none" /\ ~Changed(f) /\ fin' = At("replace", f, 0)
        /\ UNCHANGED <<errors, scans>>
  /\ UNCHANGED <<loop, st, temp, copier, puller, job, taken, del, jobs, synced, disks,
                 ctxDone, noTemp>>

\* Does taking the item out of the way destroy it?  A conflicting one becomes a
\* conflict copy, unless it is one already or there are to be none; others are
\* archived or removed.  (The copy gets a name of its own, under which it is
\* scanned later.)
Destroys(f) ==
  IF f \in conflict THEN f \in ConflictCopies \/ MaxConflicts = 0 ELSE ~Versioned

RemoveItem(f) ==
  /\ disk' = [disk EXCEPT ![f] = "none"]
  /\ destroyed' = IF disk[f] # "none" /\ Destroys(f)
                  THEN destroyed \cup {<<f, disk[f]>>} ELSE destroyed
  /\ UNCHANGED <<row, conflict, edits, scans>>

FinishReplaces ==
  /\ fin.pc = "replace"
  /\ \/ FinishFails /\ UNCHANGED <<disks, scans>>
     \/ RemoveItem(fin.file) /\ fin' = At("rename", fin.file, 0) /\ UNCHANGED errors
  /\ UNCHANGED <<loop, st, temp, copier, puller, job, taken, del, jobs, synced,
                 ctxDone, noTemp>>

\* What the temporary file is as the file it is to be: short when some of its
\* last blocks are missing and they are zeroes, long when more follows.
Content(f) ==
  LET wrong == {b \in BlocksOf[f] : temp[f][b] # Want(b)}
      tail  == temp[f][0] # "missing"
  IN CASE wrong = {} /\ ~tail -> "new"
       [] wrong = {} /\ tail -> "long"
       [] wrong # {} -> IF ~tail /\ \A b \in wrong : b \in ZeroBlocks /\ temp[f][b] = "missing"
                        THEN "short" ELSE "broken"

FinishRenames ==
  LET f == fin.file IN
  /\ fin.pc = "rename"
  /\ \/ FinishFails /\ UNCHANGED <<disks, temp, jobs>>
     \/ /\ destroyed' = IF disk[f] # "none" THEN destroyed \cup {<<f, disk[f]>>}
                        ELSE destroyed
        /\ disk' = [disk EXCEPT ![f] = Content(f)]
        /\ temp' = [temp EXCEPT ![f] = NoTemp(f)]
        /\ jobs' = jobs \cup {f} /\ fin' = Idle
        /\ UNCHANGED <<row, conflict, edits, errors>>
  /\ UNCHANGED <<loop, st, copier, puller, job, taken, del, scans, synced, ctxDone,
                 noTemp>>

----------------------------------------------------------------------------
(***************************************************************************)
(* pullerIteration: the channels are closed one after the other, each once *)
(* the goroutines that send on it are done.  Then the deletions.           *)
(***************************************************************************)
QueueEnds ==
  /\ phase = "need" /\ popped = NoFile
  /\ (Listed /\ queue = {}) \/ ctxDone
  /\ phase' = "copy" /\ procErr' = ctxDone
  /\ UNCHANGED <<tries, queue, dels, popped, result, st, temp, copier, puller, job,
                 taken, fin, del, outs, disks, ctxDone, noTemp>>

Waits(from, to, condition) ==
  /\ phase = from /\ condition /\ phase' = to
  /\ UNCHANGED <<tries, queue, dels, popped, procErr, result, st, temp, copier,
                 puller, job, taken, fin, del, outs, disks, ctxDone, noTemp>>

CopiersEnd  == Waits("copy", "pull", \A c \in Copiers : copier[c] = Idle)
PullersEnd  == Waits("pull", "finish",
                     /\ puller = Idle
                     /\ \A f \in Updates : \A b \in BlocksOf[f] : job[f][b] = "none")
FinisherEnds == Waits("finish", IF procErr THEN "end" ELSE "delete", fin = Idle)
DeletionsEnd == Waits("delete", "end", del = Idle /\ (dels = {} \/ ctxDone))

\* deleteFileWithCurrent.  What has changed, or is gone and the database does
\* not know, is scanned first; the database is told at once of what it does not
\* have, and of what is behind a symlink now.
DeleteChecks(f) ==
  /\ phase = (IF row[f] = "none" THEN "need" ELSE "delete")
  /\ popped = NoFile /\ del = Idle /\ ~ctxDone /\ f \in dels
  /\ dels' = dels \ {f}
  /\ \/ errors' = errors \cup {f} /\ UNCHANGED <<del, jobs, scans>>
     \/ /\ disk[f] = "away" \/ (disk[f] = "none" /\ row[f] = "none")
        /\ jobs' = jobs \cup {f} /\ UNCHANGED <<del, errors, scans>>
     \/ /\ disk[f] # "away" /\ ~(disk[f] = "none" /\ row[f] = "none") /\ Changed(f)
        /\ Modified(f) /\ UNCHANGED <<del, jobs>>
     \/ /\ ~Changed(f)
        /\ del' = At("remove", f, 0) /\ UNCHANGED <<errors, scans, jobs>>
  /\ UNCHANGED <<phase, tries, queue, popped, procErr, result, st, temp, copier,
                 puller, job, taken, fin, synced, disks, ctxDone, noTemp>>

\* A failure counts as done when the file cannot even be looked at any more.
DeleteRemoves ==
  /\ del.pc = "remove" /\ del' = Idle
  /\ \/ errors' = errors \cup {del.file} /\ UNCHANGED <<disks, scans, jobs>>
     \/ /\ disk[del.file] = "away"
        /\ jobs' = jobs \cup {del.file} /\ UNCHANGED <<disks, scans, errors>>
     \/ /\ disk[del.file] # "away"
        /\ RemoveItem(del.file) /\ jobs' = jobs \cup {del.file} /\ UNCHANGED errors
  /\ UNCHANGED <<loop, st, temp, copier, puller, job, taken, fin, synced, ctxDone,
                 noTemp>>

\* The database is updated; pull looks at what the iteration has changed.
IterationEnds ==
  /\ phase = "end"
  /\ synced' = synced \cup jobs
  /\ LET again == ~procErr /\ jobs # {} /\ tries < MaxIterations /\ ~ctxDone
         stopped == procErr \/ (jobs # {} /\ tries < MaxIterations /\ ctxDone)
     IN IF again
        THEN /\ tries' = tries + 1 /\ phase' = "need" /\ result' = result
             /\ queue' = Updates \ synced' /\ dels' = Deletions \ synced'
             /\ st' = [f \in Updates |-> Unused] /\ jobs' = {} /\ errors' = {}
             /\ noTemp' = {}
        ELSE /\ phase' = "returned"
             /\ result' = CASE stopped -> "error"
                            [] ~stopped /\ jobs = {} /\ errors = {} -> "true"
                            [] ~stopped /\ (jobs # {} \/ errors # {}) -> "false"
             /\ UNCHANGED <<tries, queue, dels, st, jobs, errors, noTemp>>
  /\ UNCHANGED <<popped, procErr, temp, copier, puller, job, taken, fin, del, scans,
                 disks, ctxDone>>

----------------------------------------------------------------------------
\* The user writes a file, perhaps with the size and time that the database has
\* ("alike"), removes it, or replaces its directory, so that the path leads
\* nowhere ("away": an error like any other for a file that is fetched).  What
\* is written once the last look at the file has been taken is marked: nothing
\* can protect it.
InWindow(f) == (fin.file = f /\ fin.pc \in {"replace", "rename"}) \/ del.file = f

Edit(f, what) ==
  /\ edits < MaxEdits /\ phase # "returned"
  /\ what = "alike" => row[f] = "file"
  /\ what = "away" => f \in Deletions
  /\ edits' = edits + 1
  /\ disk' = [disk EXCEPT ![f] =
                IF what \in {"user", "alike"} /\ InWindow(f) THEN "late" ELSE what]
  /\ UNCHANGED <<loop, st, temp, copier, puller, job, taken, fin, del, outs, row,
                 conflict, destroyed, ctxDone, noTemp>>

Stop ==
  /\ MayStop /\ ~ctxDone /\ phase # "returned"
  /\ ctxDone' = TRUE
  /\ UNCHANGED <<loop, st, temp, copier, puller, job, taken, fin, del, outs, disks,
                 noTemp>>

Work ==
  \/ \E f \in Updates : Reject(f) \/ \E hashed \in BOOLEAN : HandleFile(f, hashed)
  \/ \E c \in Copiers :
       \/ CopierReceive(c) \/ CopierStopped(c) \/ CopierWrites(c)
       \/ CopierPasses(c) \/ CopierEnds(c) \/ PullerReceive(c)
       \/ FinisherReceivesCopier(c)
       \/ \E b \in Blocks : CopierSkips(c, b) \/ CopyBlock(c, b)
  \/ PullerChecks \/ PullerTakes \/ FinisherReceivesPuller
  \/ \E f \in Updates : \E b \in BlocksOf[f] :
       \/ PullOpens(f, b) \/ RequestBlock(f, b) \/ PullWrites(f, b)
       \/ FinisherReceivesBlock(f, b)
  \/ FinalClose \/ FinishChecks \/ FinishReplaces \/ FinishRenames
  \/ QueueEnds \/ CopiersEnd \/ PullersEnd \/ FinisherEnds
  \/ \E f \in Deletions : DeleteChecks(f)
  \/ DeleteRemoves \/ DeletionsEnd \/ IterationEnds

Returned == phase = "returned" /\ UNCHANGED vars

Next ==
  \/ Work
  \/ \E f \in Files, what \in {"user", "alike", "none", "away"} : Edit(f, what)
  \/ Stop \/ Returned

\* Goroutines that can run do run, and devices and the disk answer.
Spec == Init /\ [][Next]_vars /\ WF_vars(Work)

----------------------------------------------------------------------------
Items == {"none", "cur", "alike", "user", "late", "away", "new", "short", "long", "broken"}

TypeOK ==
  /\ phase \in {"need", "copy", "pull", "finish", "delete", "end", "returned"}
  /\ tries \in 1..MaxIterations
  /\ queue \in SUBSET Updates /\ dels \in SUBSET Deletions
  /\ popped \in Updates \cup {NoFile} /\ procErr \in BOOLEAN
  /\ result \in {"none", "true", "false", "error"}
  /\ st \in [Updates -> [on : BOOLEAN, err : {"none", "io", "ctx"}, open : BOOLEAN,
                         todo : SUBSET Blocks, total : Nat, copyNeeded : Nat,
                         pullNeeded : Nat, closed : BOOLEAN, reused : BOOLEAN]]
  /\ \A f \in Updates : temp[f] \in [Slots(f) -> Cells]
  /\ taken \in 0..MaxPending
  /\ \A x \in {jobs, errors, scans, synced} : x \in SUBSET Files
  /\ disk \in [Files -> Items]
  /\ edits \in 0..MaxEdits /\ ctxDone \in BOOLEAN

\* The exceptions to that: a new temporary file whose size could not be set may
\* end before the file's last zeroes, which are not written; and one that is
\* reused without its size being set may go on after the file's end.
MayBeShort == {f \in Updates : /\ TruncateFails /\ ~DisableSparseFiles
                               /\ BlocksOf[f] \cap ZeroBlocks # {}}
MayBeLong  == {f \in Updates : /\ DisableSparseFiles
                               /\ \E t \in OldTemps(f) : t[0] # "missing"}

\* What pull promises about files on disk and in the database.
Replica == INSTANCE FileReplica WITH applied <- jobs \cup synced, recorded <- synced

\* The pipeline implements FileReplica: but for those exceptions only complete
\* files get their real name, however copying, pulling, reusing an old temporary
\* file and failing interleave; nothing but the old version or a late edit is
\* ever in their place; and what the database is told has happened on disk, or
\* is a deletion of what cannot be reached.
ImplementsReplica == Replica!Spec

\* Every file that gets its real name is as long as it should be: the size "is
\* set", failing at it "generally doesn't matter", and what is reused does not
\* "let the old data linger at the end".  It holds where sparse files are used
\* and their size can be set, and not otherwise.
AppearsComplete == \A f \in Updates : disk[f] \notin {"short", "long", "broken"}

\* What the user wrote before the puller's last look at a file is not destroyed
\* by it if it shows in the file's size or time, and neither is a local version
\* in conflict with the new one when conflict copies are kept, except one that
\* is a conflict copy itself.
UserChangeKept ==
  /\ \A f \in Files : <<f, "user">> \notin destroyed
  /\ MaxConflicts # 0 => \A f \in conflict \ ConflictCopies : <<f, "cur">> \notin destroyed

\* Once the finisher has stopped, every file that was handed to a copier has
\* been closed, so it was renamed or its failure recorded; only a file that
\* could get no temporary file at all is left behind.
EveryFileFinished ==
  phase \in {"delete", "end", "returned"} =>
    \A f \in Updates : st[f].on => st[f].closed \/ f \in noTemp

\* "pull returns true if it manages to get all needed items from peers".  This
\* does not hold for a file that gets no temporary file: finalClose returns
\* the error with FALSE, and the finisher looks at it only with TRUE.
SuccessMeansSynced ==
  result = "true" /\ ~ctxDone => synced = Files

\* The same for all files that get a temporary file: whatever fails on the way
\* is recorded, and makes pull return false so that it is called again.
FailuresAreReported ==
  result = "true" /\ ~ctxDone => Files \ synced \subseteq noTemp

\* pull returns: no goroutine of the pipeline waits for another one forever.
PullReturns == <>(phase = "returned")
=============================================================================
