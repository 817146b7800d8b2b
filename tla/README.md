# A verification project for thingium

thingium is a fork of Syncthing: devices keep folders in sync by announcing the
files they have (the *index*), and pulling from one another what they lack. This
directory holds TLA+ models of the parts of it whose correctness depends on the
order of events, TLC configurations that check them on small instances, and
TLAPS proofs of the most important properties for every value of the constants.

Paths in this file are relative to the repository.

## 1. The system

### 1.1 Data flow

A change of a file on one device goes through these parts:

1. the **scanner** (`lib/scanner`) finds it and gives the file a new *version
   vector* (`lib/protocol/vector.go`);
2. the **folder database** (`internal/db/sqlite`) stores it as a row of the local
   device with a new *sequence number*, and decides again which device's row is
   the *global* version of that name and whether it is *needed* here;
3. an **index handler** (`lib/model/indexhandler.go`), one per connection and
   folder, sends rows with higher sequence numbers than before to the peer, in
   `Index` or `IndexUpdate` messages;
4. the peer's **dispatcher** (`lib/protocol/protocol.go`) gives the message to
   its index handler, which stores the rows as rows of the sending device;
5. the peer's **folder service** (`lib/model/folder*.go`) pulls what is needed:
   copiers and pullers collect blocks, a finisher puts the file in place and the
   database gets a new local row, which is announced in turn.

Everything is repeated from an agreed point when a connection is lost: in its
`ClusterConfig` each side reports, per folder, the index ID and the highest
sequence number it has of the other one.

### 1.2 Inventory

| Part | State | Operations | What is hard, and what makes it right |
|---|---|---|---|
| Delta index exchange (`indexhandler.go`, `folderdb_indexid.go`) | per device an index ID and a sequence; per handler `localPrevSequence`, `sentPrevSequence` | `newIndexHandler`, `sendIndexTo`, `receive`, `SetIndexID`, `DropAllFiles` | crashes between transactions, lost connections, resets of either database, several ClusterConfigs on a connection. No announced row below the reported sequence is missing; no sequence anomaly; in the end the receiver knows everything |
| Folder database (`folderdb_update.go`) | rows by device and name with Global and Needed flags | `Update`, `DropAllFiles`, `DropFilesNamed`, `recalcGlobalForFile`, `recalcGlobalForFolder` | an order among rows made of two criteria, recalculation of only some names. One Global row per name, the latest one; Needed exactly where the local device lacks it |
| Version vectors (`vector.go`) | sorted counters | `Update`, `Merge`, `DropOthers`, `Compare` | loops over two slices in step; counters that are clock readings. Comparison agrees with what each device has seen, so that no change is overwritten unseen |
| Semaphore (`lib/semaphore`) | capacity, available, waiters | `Take`, `TakeWithContext`, `Give`, `SetCapacity` | condition variable, broadcast without the lock, capacity changes under takers. No lost wake-up, no lost capacity, cancelled takes return |
| Index handler registry (`indexhandler.go`) | start infos, folder states, handlers | `AddIndexInfo`, `Remove`, `RegisterFolderState`, the handler's pause, resume, stop | two goroutines with different views of the configuration, stop while holding a mutex. A folder that is offered and runs has a handler |
| Model (`model.go`) | folders, connections, registries, device states | `ClusterConfig`, `CommitConfiguration`, `AddConnection`, `Closed`, `Request` | one big lock, released around calls. Modelled where the parts above need it |
| BEP connection (`protocol.go`) | request table, start and close state | reader, dispatcher, writer, ping loops, `Request`, `internalClose` | five goroutines and a close from any of them. `Closed` once and last; every request is answered or fails |
| Connections of a device (`model.go`) | connection IDs by device, promoted one | `AddConnection`, `Closed`, `promoteConnections` | both sides add and lose connections on their own. The index handler of each side is on the connection the other one has promoted |
| Puller (`folder_sendrecv.go`, `sharedpullerstate.go`, `queue.go`) | blocks to copy and pull by file, job queue | copiers, pullers, finisher, `performFinish`, `moveForConflict` | parallel workers, local changes in between. Each file finished once; a change by the user is never replaced unseen |
| Folder service (`folder.go`) | timers, scheduled pulls and scans | `Serve`, `pull`, `scanSubdirs`, `SchedulePull` | retries with growing pauses, events in one loop. An announced change is pulled in the end |
| Events (`lib/events`) | subscriptions, ring buffer | `Log`, `Subscribe`, `Poll`, `Since` | slow readers lose events. IDs grow, a reader can tell that it lost something |
| Configuration (`lib/config/wrapper.go`) | configuration, queue, subscribers | `Modify`, `Serve`, `Subscribe` | full queue, one change at a time. Committers see changes in order |
| TCP tunnels (`lib/model/tunnel_*.go`) | endpoints by device and tunnel ID | open, data, close from both sides | data and close crossing. No data after close, no endpoint left over |
| Watch aggregator (`lib/watchaggregator`) | tree of events | `newEvent`, `actOnTimer` | delays, collapsing into the parent directory. Each change is passed on |
| Download progress (`progressemitter.go`, `sentdownloadstate.go`) | what was announced to whom | `sendDownloadProgressMessages` | differences against what was sent. The peer never believes in a block that is gone |

The full list, with the parts that are not modelled and the reason for each, is in
`PROJECT.json` under `components`; what is hard to test in this code is there
under `hazards`, each at its line and with the properties that cover it.

## 2. The modules

| Module | Models | Checked by | Proved in |
|---|---|---|---|
| `IndexExchange` | the index of one folder from one device to one peer | `MCIndexExchange`, 3 configurations | `IndexExchangeProofs` |
| `FolderDB` (on `VersionOrder`) | the files table of a folder and its flags | `MCFolderDB` | `VersionProofs` |
| `VersionVector` (against `VersionOrder`) | version vectors as slices, and devices that change a file | 1 configuration | `VersionProofs` |
| `Puller` (implements `FileReplica`) | one call of `pull` of a send-receive folder | `MCPuller` | `PullerProofs` |
| `FolderLoop` | the service loop of a folder: when it scans and pulls | `MCFolderLoop` | `FolderLoopProofs` |
| `RawConnection` | the goroutines of one BEP connection and how it is closed | 1 configuration | `RawConnectionProofs` |
| `ConnectionPromotion` | the connections between two devices, seen from both | `MCConnectionPromotion` | `ConnectionPromotionProofs` |
| `IndexHandlerRegistry` | when the index handlers of a connection run | 2 configurations | `IndexHandlerRegistryProofs` |
| `Semaphore` | `lib/semaphore` | 1 configuration | `SemaphoreProofs` |

How they fit together: `RawConnection` delivers messages in order and ends in one
call of `Closed`, which is what `ConnectionPromotion` assumes of a connection;
`ConnectionPromotion` decides on which connection there is an index handler, and
`IndexHandlerRegistry` whether it runs for a folder; `IndexExchange` is one such
handler and its peer over any number of connections. Its `Update` on the receiving
side is `FolderDB`'s `Update` and sets the Needed flags, whose rows are `need` in
`FolderLoop`; `FolderLoop`'s `PullIteration` is an iteration of `Puller`, and the
limiter in `Puller` (`taken`, `MaxPending`) is a `Semaphore` whose requests are blocks.

Operators whose comment starts with "Mutant of" are plausible mistakes in the code.
They are used by no specification: substituting one for the operator after it shows
that a property notices the mistake (`PROJECT.json`, `mutants`).

### 2.1 IndexExchange

The sender's database is an index ID (`sId`), the counter of the files table
(`sCtr`), the local device's highest sequence (`sSeq`) and, by name, the sequence
of the local row (`sRow`). A version of a file *is* its sequence number. The
receiver keeps the same about the sender (`rId`, `rSeq`, `rRow`).

| Action | Code |
|---|---|
| `LocalUpdate`, `DropFilesNamed` | `folderDB.Update` and `DropFilesNamed` for the local device; the AUTOINCREMENT counter is shared by all devices, so local numbers have holes |
| `SenderPromoteConnections`, `ReceiverPromoteConnections` | `promoteConnections` with `generateClusterConfig`: the receiver's message carries the index ID and sequence it has *at that moment* |
| `SendClusterConfig` | `sendClusterConfig` after a configuration change, from a goroutine of its own: `toS` is a set, without an order |
| `SenderClusterConfig`, `StartSequence` | `AddIndexInfo` and `newIndexHandler`, sending side: start after the reported sequence, or from nothing |
| `SendIndexTo`, `Batch`, `IndexMessage` | one batch of `sendIndexTo` with its flush function; `fs = NoRow` is `FileInfoBatch.Flush`, which does not send an empty batch |
| `ReceiverClusterConfig`, `SetIndexID` | `newIndexHandler`, receiving side: two transactions, with a possible stop between them |
| `ReceiveIndexDrop`, `ReceiveIndexUpdate` | `receive`: `DropAllFiles` and `Update`, again two transactions |
| `Disconnect`, `SenderRestart`, `ReceiverRestart` | `internalClose`; the process stops; `--reset-deltas`; a new database |
| `Unshare`, `Reshare` | starting the folder without, and again with, the sender in its configuration |

Left out: errors of the database itself (logged, and the connection ends, which
is `Disconnect`); encryption checks in `ccHandleFolders`; splitting of a batch by
bytes and not by files (`SendIndexTo` may cut anywhere).

Properties:

- `NoGap`: below the sequence that the receiver has, it lacks no announced row.
  What is violated here is never repaired: the row is not sent again until it
  changes.
- `NoSequenceAnomaly`: the anomalies `receive` reports to the developers are not met.
  The rows of a message lie between its two bounds always; that it continues where the
  receiver is, holds on a connection on which the receiver has sent one ClusterConfig
  (`StartedOnce`). `UpdatesContinue` states it without this condition and does not
  hold (5.2).
- `SequenceNeverBack`: for an index ID the kept sequence never goes back, under the same
  condition. With a second ClusterConfig the sender's handler starts anew from an
  older report, and a batch that is cut below what the receiver has lowers it again.
- `EventuallySynced`: when faults and changes end, the receiver knows every
  announced file at its current version.
- `IInv`: the inductive invariant of section 4.

### 2.2 FolderDB and VersionOrder

`files` holds the rows, `global` and `needed` the two flags. `Update`,
`DropAllFiles` and `DropFilesNamed` are single transactions under `updateLock`
and one action each; the recalculation is part of the action. `SortedRows` is
what `slices.SortFunc` may return when the order of the query's result is not
defined and `fileRow.Compare` need not be an order. A row's version stands for
its contents; times and deletions are functions of it.

A batch of several files is a series of `Update` in one transaction; the states
in between are not visible to others, and the properties hold for them too.

`VersionOrder` is the mathematical order of version vectors (`Ordering`) and their
least upper bound (`Join`). `FolderDB` uses it, and the loops of `VersionVector` are
shown to compute it.

Properties: `OneGlobal`, `NeedOnRemoteGlobal`, `NeedIsReal`, `FlagsCurrent` (the
flags are what a recalculation would give now, although dropping a device
recalculates only names that lost their Global row) and `GlobalIsLatest`. The last two
need `NoCircles`: no three rows of different devices come before one another in a circle.

### 2.3 VersionVector

Slices of counters with `Updated`, `Merge`, `DropOthers` and `Compare`, and devices that change a file (`updateFileInfo` of the scanner),
change an invalid one (`DropOthers`), take over a version (the puller) or
override one (send-only folders). `seen` records, outside of the program, which changes
each device's content is based on.

The two loops over a pair of slices are functions from one turn's variables to the
next turn's, `MergeStep` (`v`, `vi`, `bi`) and `CompareStep` (`ai`, `bi`, `result`);
`Iterate` repeats them. A loop that has ended, by its condition or a `return`, stays as
it is, and `Len(v) + Len(b)` turns are enough for both (4.3).

Properties: `VectorsSorted`, `CompareIsOrder` and `MergeIsLeast` (against `VersionOrder`) and
`NoSilentLoss`: when `Compare` says that one version is newer than another, its
content is based on it, so a device that replaces the older one loses nothing.

### 2.4 Semaphore

What happens under the mutex is one action. Looking at the context and going to
sleep are two, since the end of a context is broadcast without the mutex.
`Give` returns the size the caller asked for, as all callers do, not the size the
take was cut to. `MultiSemaphore` calls these in a loop and adds no state.

Properties: `NoLostWakeup`, `NothingLost`, `CancelledReturns`.

### 2.5 IndexHandlerRegistry

One folder and one peer. The dispatcher handles ClusterConfigs and reads the
configuration in the wrapper (`cfg`), the committer calls the registry for what
it has been handed (`applied`). A folder that is not shared may be among the peer's ignored
ones (`ignored`); `ccHandleFolders` then keeps nothing of the peer's offer. `todo` holds the calls each still makes, since the
registry's mutex is released between them. `mut` is that mutex while its holder waits
for a handler to stop, and `hPc` is the handler's goroutine with the condition
variable it sleeps on when paused. `ChangeConfig` waits for the previous change
to be committed, as `wrapper.Serve` does.

Not modelled: errors of `newIndexHandler` in `startLocked`; the encryption check
that ends the handling of a ClusterConfig early.

Properties: `StartInfoOrHandler`, `HandlerPresent` (for a folder whose last offer was not
ignored), `NoDoublePause`, and three that are violated, `UnignoredPresent`,
`HandlerMatchesConfig` and `StopReturns`.

### 2.6 Puller and FileReplica

One call of `pull` with up to `MaxIterations` calls of `pullerIteration`. All
channels between the goroutines are unbuffered, so a hand-over is one step of sender
and receiver; a goroutine that waits for a receiver has `pc = "out"` or `"send"`.

| State, actions | Code |
|---|---|
| `st` | one `sharedPullerState` per file; every operation on it runs under its mutex |
| `temp` | the blocks of the temporary file: zeroes, the right data, something else, or not there; slot 0 is what follows the last block |
| `Listed`, `Pop`, `Reject`, `HandleFile`, `QueueEnds` | `processNeeded`: the list of what is needed, then the file queue; `Reusable` is `reuseBlocks`, and `hashed` whether hashing the old temporary file works |
| `Truncated`, `Opened`, `AddWriterLocked` | `tempFileInWritableDir`: the size is set where sparse files are used, and failing at that is tolerated for a new file |
| `Written` | a write into the file, with zeroes up to it if the file was shorter |
| `Content` | what gets the file's real name: the new version, one that is short or long, or something broken |
| `CopierReceive` … `CopierEnds` | `copierRoutine` and `copyBlock`: stopped, skipped, copied, passed on to be pulled |
| `PullerReceive`, `PullerChecks`, `PullerTakes` | `pullerRoutine` and its limiter |
| `PullOpens`, `RequestBlock`, `PullWrites` | `pullBlock`, one goroutine per block |
| `FinisherReceives…`, `FinalClose` | `finisherRoutine`: everyone who worked on a file hands it over, `finalClose` decides whether it is done |
| `FinishChecks`, `FinishReplaces`, `FinishRenames` | `performFinish`: the last look, the old file out of the way, the rename |
| `CopiersEnd`, `PullersEnd`, `FinisherEnds`, `DeleteChecks`, `DeleteRemoves`, `DeletionsEnd`, `IterationEnds` | the order in which `pullerIteration` closes its channels, `processDeletions`, and the loop in `pull` |
| `Edit`, `Stop` | the user and the folder's context, at any moment |

Opening, truncating, writing, requesting, closing and renaming may fail at any call. What the
user writes between the last look at a file and the rename cannot be protected by
any program; `Edit` marks it `"late"`. An edit is `"alike"` if it leaves size, time and
permissions as the database has them: `scanIfItemChanged` compares only these. A path
that leads nowhere (a parent directory that became a file or a link) is `"away"`.
Files in `ConflictCopies` have the name of a conflict copy, of which no further
copy is made. Which device has a block, its hash and the
order of blocks are left out: a block is right or not.

`FileReplica` is what all of this is for, in four actions: a file is removed, the
new version appears *as a whole*, the database records it, the user edits. `Puller`
implements it (`ImplementsReplica`, with `applied` mapped to what the finisher and
the deletions have done and `recorded` to what the database knows). A file that is
renamed with a block missing or wrong is `"broken"`, which `FileReplica` has not. It
allows three things that the code does and that are less than one would wish: files in
`MayBeShort` may appear without their last zeroes, files in `MayBeLong` with an old tail
(5.13), and a deletion of what is out of reach counts as done (`Forget`).

Properties besides that: `UserChangeKept` (edits that show, and versions in conflict),
`EveryFileFinished`, `FailuresAreReported`, `PullReturns`, and two that do not hold in
general: `AppearsComplete` (5.13), which is proved without the exceptions, and
`SuccessMeansSynced` (5.9).

### 2.7 FolderLoop

`folder.Serve` is a loop around one `select`. Each ready case is an action
(`Case…`), and `pull` and `scanSubdirs` are split where they wait or where the world
may change under them: before and after the token of `ioLimiter`, and between the
check of the folder's health and the end of the work. Channels of capacity one
(`pullScheduled`, `restartWatchChan`) and timers are booleans; a timer that runs
may fire at any time. `env` is whether the path and `.stignore` can be read and the
peers be reached.

An iteration of a pull fixes some of the needed items, fails others and passes over the rest:
deletions that the configuration ignores, and files whose failure is lost (5.9). A pull
whose last iteration neither fixed nor failed anything is a success, after which nothing
is scheduled; what it left is in the history variable `passedOver`. `LoadFails` is a failing
load of `.stignore`, which empties the patterns; `pull` restarts the watcher for that,
a scan does not.

Properties: `NoLostPull` (with something needed that the last successful pull did not pass
over, the loop never waits without a pull ahead, unless the folder has an error),
`WatchRestored`, `EventuallySynced` (but for what was passed over), `RequestAnswered`.

### 2.8 RawConnection

Reader, dispatcher and writer are program counters with the message in hand; the
pipeline between them is unbuffered. `once` is how far `internalClose` has come
(`closeOnce`): close the network connection, close the channel `closed`, drain `awaiting`,
wait for the dispatcher, call the model. `Close` may be called by a handler that the
dispatcher runs, by the dispatcher itself or by anyone else, before `Start` too; it
sends a Close message with a time-out first. `Environment` are the steps of
the peer, the network, the model's callers and the tunnel's reader, which owe us nothing.

A `select` that waits with `<-closed` among its cases is committed to that case when
the channel closes; a hand-over after that is not possible, and the guards say so.

Properties: `ClosedIsLast`, `WireOrder`, `NoSendOnClosedChannel`, `CloseEndsAll`.

### 2.9 ConnectionPromotion

Both devices, each with its list of connections in the order *it* added them, its
promoted one, the promotion timer, the actions `promoteConnections` does after
releasing the lock, and the connection its index handler is on. Per connection and
direction there is a FIFO of messages; between connections there is no order. A
ClusterConfig on the primary connection moves the peer's handler there
(`ReceivePrimary`), one marked secondary does not. `AddConnection` lists the connection under
the mutex and schedules the promotion after releasing it, in two actions; `adding` has
the connections in between.

Properties: `PromotionNotLost`, `HandlerOnPeersPrimary`, `PromotionTakesEffect` (stated
for one of the two sides, which are alike).
`ConnectedHasHandler` and `IndexHasHandler` state what comments say; they do
not hold (5.10, 5.11).

## 3. The runs

| Run | Configuration | Distinct states | Shows |
|---|---|---|---|
| `index_protocol` | `IndexExchange_protocol` | 520,637 | types, no anomaly, sequence never back; with two ClusterConfigs, hidden rows of a receive-encrypted folder, stops inside a transaction pair, unsharing, three faults |
| `index_live` | `IndexExchange_live` | 220,798 | two ClusterConfigs per connection; no gap, and in the end everything is known |
| `index_reshare` | `IndexExchange_reshare` | violation | unsharing and sharing again leaves a gap |
| `folderdb_flags` | `FolderDB_flags` | 58,996 | all properties of the flags, three devices, two names, three versions, valid and invalid rows |
| `version_order` | `VersionVector_order` | 31,855 | the loops agree with the order; nothing is lost |
| `semaphore_change` | `Semaphore_change` | 171,623 | all properties with changing capacity and cancelled takes |
| `handlers_start` | `IndexHandlerRegistry_start` | 77,087 | five changes of the configuration, ignoring the folder included, and four ClusterConfigs in any order |
| `handlers_stop` | `IndexHandlerRegistry_stop` | violation | a handler that is stopped while it goes to sleep is not woken |
| `puller_pull` | `Puller_pull` | 1,136,490 | `pull` implements `FileReplica`, keeps what the user visibly wrote, finishes and reports every file, and returns; old temporary files, failing I/O, an edit and a stop at any time |
| `folder_loop` | `FolderLoop_pull` | 196,745 | no pull is lost, the watcher comes back, the folder gets in sync and callers are answered; an update, a fault and a stop at any time |
| `connection_close` | `RawConnection_close` | 496,489 | a close from anywhere ends everything, `Closed` is last, the peer sees messages in order, no channel is misused |
| `connection_promote` | `ConnectionPromotion_promote` | 555,266 | two connections added, refused, promoted and closed by both sides in any order: no promotion is lost, the handler is where the peer promoted, and a promotion takes effect |

### 3.1 Bounds

- *IndexExchange.* Two names are the least for a row to be skipped between two
  others' numbers, three for a batch cut in the middle with a hidden row. `MaxSeq`
  3 lets every name change after it was sent. Two index IDs let one be replaced.
  Two or three faults cover a fault during the recovery from another. Two ClusterConfigs
  per connection restart the sender's handler with messages of the first one under way;
  the parts of `NoSequenceAnomaly` and `SequenceNeverBack` that need one per connection
  say so themselves (`StartedOnce`), and no bound hides the other case.
- *FolderDB.* Three devices give a tie among peers, and a circular
  comparison needs three rows. Two names show that an operation on one leaves the
  other alone, and both halves of `NamesWithoutGlobal`. Three versions are two in
  conflict and a deletion that has seen both; with these, valid or invalid,
  `fileRow.Compare` has no circles, which `FlagsCurrent` and `GlobalIsLatest` need (5.3).
  `MCThreeInOrder` has TLC evaluate that hypothesis of the theorems in 4.2.
- *VersionVector.* Three IDs put a new counter before, between and after others.
  Three changes are enough for a conflict and a change on top of one side. The same run
  with four changes (1,012,669 states) was made once and holds too; it is too
  slow to keep.
- *Semaphore.* Three takers: one holding, two waiting with different sizes, which
  tells waking one from waking all. Sizes 1 and 3 with capacity 2: a request above
  the capacity. Capacity 0 means no limit: every request is cut to nothing.
- *Puller.* One file of two blocks, the last of them zeroes, has every path of a block: skipped,
  copied, pulled, reused. Two blocks let one fail while the other is written, and
  one be copied while the other is pulled. Old temporary files are none, one with a
  wrong block, one that is complete and one that is too long. A deletion follows, of a file
  that is a conflict copy, and a second iteration sees what the first left. One edit and one
  stop come anywhere. One copier is enough: copiers share no file, and nothing else but the
  finisher. The file has no more blocks than the limiter admits, so nobody waits for it
  here. With three blocks, `MaxPending` 1, one iteration and no edit the puller
  routine waits for it, and `PullReturns` holds too (391,408 states, made once).
- *FolderLoop.* One item is fixed, fails or is passed over, and an update can make it needed
  again before, in or after a pull. Two configurations: delayed pulls, rescans and a watcher;
  and none of these. One fault can begin and end at any time. A pause limit of 2 lets the
  pause grow and stop growing, and two iterations have one that is not the last. That an
  iteration fixes one item while another fails needs two items; the theorems in 4.5 have any
  number.
- *RawConnection.* One request in each direction, two messages from the peer and one call
  by the model: an answer, a tunnel's data or a Close meets each state of the
  others. Two callers of `Close`, in and outside the dispatcher.
- *ConnectionPromotion.* Two connections are the least for an order; one further message
  (an index or a ClusterConfig after a configuration change) can come anywhere. `FirstIsC1`
  names the connections by the order in which side 1 comes to them; every behaviour
  becomes one of these by exchanging the names, and no action or property tells them apart.
- *IndexHandlerRegistry.* Five changes allow to pause, resume, unshare and share
  again, with one more in between; four ClusterConfigs come at any of these points.

Names are symmetric in the safety runs of IndexExchange and in FolderDB: no
action or property tells them apart. Runs with liveness declare no symmetry.
`CHECK_DEADLOCK FALSE` stands where the bounded behaviours come to an end, with
all bounds used up, or where the thing modelled ends (a closed connection, a stopped
folder). FolderDB and Semaphore never stop, and in Puller a call that has returned
stays so: there deadlock is checked.

### 3.2 Fairness

- *IndexExchange*: the connection service dials again and both sides add the
  connection; the handler's loop wakes up at least once a minute by its ticker,
  so lost events do not matter; the dispatcher handles what has arrived. All weak.
  Changes, faults and further ClusterConfigs are not fair.
- *Semaphore*: goroutines run on, and holders give back. Takes, cancels and changes of
  the capacity are not fair. `CancelledReturns` needs the holders: a broadcast
  before the taker sleeps is missed, and the next `Give` makes up for it.
- *IndexHandlerRegistry*: goroutines run on; strong fairness for calls, which
  compete for a mutex (Go's mutex is starvation-free).

- *Puller*: weak fairness of all goroutines together is enough, since a pull has finitely
  many steps: it states that whoever can run does, and that the disk and the devices
  answer, with an error perhaps. A request has no time-out of its own: `rawConnection.Request`
  waits for the answer, the end of the context or the close of the connection
  (`protocol.go:381-389`), so `PullReturns` rests on peers that answer or whose connection
  ends, as it does when they stay silent (`pingReceiver`). The user and `Stop` are not fair.
- *RawConnection*, *ConnectionPromotion*: likewise one weak fairness for the steps of
  the program, which are finitely many. The peer, the network, the tunnel's reader
  and the ends of contexts are not fair, so `CloseEndsAll` does not rest on them. In
  ConnectionPromotion a hello ends, as it has a deadline.
- *FolderLoop*: weak for the work itself, for the index handler that calls `SchedulePull`,
  and for callers; strong for the cases of the `select`, which picks at random
  among the ready ones: for a scheduled pull, the scan timer and a caller's request each,
  and for the three cases that go straight to a pull together (`StartsPull`), which
  is less than the code gives. Rescans by request, watcher events and everything in the
  surroundings are not fair.

## 4. The proofs

All are checked by `tlapm` with Z3, Zenon and LS4, for all values of the constants
that satisfy the `ASSUME`s of the modules.

### 4.1 IndexExchangeProofs

For any set of names, any number of faults, ClusterConfigs and changes of sharing, with the
process stopping at any point:

- `TypeCorrect`: `Spec => []TypeOK`
- `NoAnomalyReported`: `Spec => []NoSequenceAnomaly`
- `ReportedSequenceGrows`: `Spec => SequenceNeverBack`

and from `OneClusterConfig` (the receiver sends one ClusterConfig per connection,
`MaxCC = 1`, and goes on sharing the folder, `AllowUnshare = FALSE`):

- `ReceiverHasNoGap`: `Spec => []NoGap`

The invariant of the first three, `SInv`, is that of `NoGap` without `Complete`; its parts on
where messages start hold for the connections with one ClusterConfig (`StartedOnce`), and
become true again with every new connection. `NoGap` is far from inductive. It says nothing of messages under way, and these are
what will raise `rSeq`. `IInv` adds:

- `Numbering`: local rows have different numbers, none above `sSeq`;
- `Wire`: which side knows of the connection, and that nothing but the sender's
  ClusterConfig comes before the receiver's handler exists;
- `StartsWhereReported`: a ClusterConfig under way makes the sender start at
  `Reported`, the sequence the receiver *will* have once it has dealt with the
  sender's index ID;
- `HandlerCounters`: no announced row lies between `sentPrevSequence` and
  `localPrevSequence`;
- `Chain`: messages continue one another from `Reported` to `sentPrevSequence`,
  and each is `Complete`: it holds all announced rows between its bounds as they
  are *now*. A row that changes gets a number above all bounds and is no longer
  asked for; that is why completeness survives changes of the folder.

The proof has a lemma per action and, in it, a step per conjunct that the action
disturbs. Neither the assumption nor `StartedOnce` can be dropped: see 5.1 and 5.2.

### 4.2 VersionProofs: the files table

For any number of devices, names and versions, any times, and *any* result of the sort
that is a list of the name's rows:

- `GlobalIsUnique`: `Spec => []OneGlobal`
- `NeedIsOnRemoteGlobal`: `Spec => []NeedOnRemoteGlobal`
- `NeededIsLacking`: `Spec => []NeedIsReal`

The invariant `FlagsInv` is their conjunction with the types. The operations
first remove rows with their flags and then recalculate some names; the lemma on
`Recalculate` starts from a state in which all is right *except* for the names to
be recalculated (`RightElsewhere`), and shows that afterwards all is right.
None of this needs `fileRow.Compare` to be an order, so it holds in spite of 5.3.

From `NoCircles`, for any devices, names, versions and times:

- `GlobalIsLatestAlways`: `Spec => []GlobalIsLatest`
- `FlagsCurrentAlways`: `Spec => []FlagsCurrent`

`fileRow.Compare` puts one of any two rows of different devices first (`BeforeTotal`,
from the least counter in which two vectors differ). Without circles of three it is
therefore an order, and among the valid rows of a name, or among all if none is valid, at most
one is before all others: its `Latest` row. That is the row that is chosen from any sorted list
(`WinnerIsLatest`), and a sorted list exists (`SortedExists`, by induction on the number of
rows; `FlagsCurrent` claims the existence of one). The invariant `LatestFlags` says that
Global is on the latest row and Needed on it exactly if the local device lacks it.
It survives a partial recalculation because removing a row that is not the latest one leaves the
latest one what it was (`LatestStays`); that is what justifies `DropAllFiles` in looking only at
names that have lost their Global row. The hypothesis cannot be dropped (5.3).

- `GrowingTimesNoCircles`: `NoCircles` holds if all rows are valid and times do not go
  back from a version to its successors. Rows are then ordered by time, next by the
  first counter that differs, next by device.

### 4.3 VersionProofs: version vectors

For any number of devices, changes and clock readings:

- `ChangesOKAlways`: `VectorSpec => []ChangesOK`, the inductive invariant
- `VectorsSortedAlways`: `VectorSpec => []VectorsSorted`
- `CompareIsOrderAlways`: `VectorSpec => []CompareIsOrder`
- `MergeIsLeastAlways`: `VectorSpec => []MergeIsLeast`

and, for clocks that have moved on when a device has lost its own counter
(`~AnyClock`; 5.4 shows that this is needed):

- `NoSilentLossAlways`: `VectorSpec => []NoSilentLoss`

*Loops.* `Iterate` is a recursive function. That it exists and satisfies its equations is
shown for finite runs by induction on a set of numbers (`Induction`, from the least counterexample).
`LoopEnds`: when a turn stays in a set of states and lowers a number or ends the loop, that
number of turns leads to a state of the set in which the loop has ended. What is left to each
loop is its invariant. `MergeInv`: `v` is sorted and has the maximum of the original `v` and the part of
`b` before `bi`, and its IDs before `vi` are less than those still to come from `b`.
`CompareInv`: `result` is the `Verdict` on the counters that have been `Dealt` with, those whose
IDs are less than what is left of both slices. A verdict can be extended by the least ID
that is left, which is why the slices must be sorted; a settled result is a verdict on all
counters (`VerdictIsOrder`).

*Devices.* `ChangesOK` bounds counters by `MaxNow` plus the number of changes: `Update` takes
the clock or one more than before. For `NoSilentLoss` every change has a counter that `Proves`
it, that of the device which made it: whoever has this counter, in a version that it announced
or has, has seen the change. Taking over a version or merging it hands on counters together
with the past; `DropOthers` drops counters only. A new counter of a device is above all that
it has had before, so it claims no change that the device has not seen.
This is the step that a clock which stands still can break.

### 4.4 SemaphoreProofs

- `AvailableInRange`: `Spec => []TypeOK`, with `available` between 0 and `max`
- `WaitersAreWoken`: `Spec => []NoLostWakeup`

for any sizes and capacities; the invariant `WaitInv` is their conjunction.

- `CapacityIsKept`: `Spec => []NothingLost`

from `TakersAssumption`, finitely many takers (goroutines). `UnitsInv` adds what
each taker has taken: no more than it asked for, and nothing unless it is a holder. The difficulty is the sum over the takers. The library's sum is a
recursive function on sets, and that one taker's change alters it by just that much needs
induction. The induction theorems that take an operator cannot be used, but those on
well-founded relations can: by `SmallestSet`, if some subset of a finite set is in a given
set of subsets, then a smallest one is. Applied to the set of counterexamples it gives the
existence and uniqueness of the recursive function, its independence of
the order in which the takers are added up (`SumWithout`), and `SumUpdate`.

### 4.5 FolderLoopProofs

For any items, configurations and bounds:

- `TypeCorrect`: `Spec => []TypeOK`, with the pause below twice its limit
- `PullIsNeverLost`: `Spec => []NoLostPull`
- `WatcherIsRestored`: `Spec => []WatchRestored`

`NoLostPull` speaks of the loop while it waits, and of items that the last successful pull
did not pass over. `PullAhead` extends it to every point
outside of `pull`, so that a scan carries it along; inside a pull it may fail, and each
way out of a pull brings it back. `InitialPullAhead` is needed where
the initial scan ends: nothing was scheduled before, because a pull tried too early
returns without effect, but the pull after the initial scan is still to come.
`OffIsConfigured` says that only a folder with a watcher loses it, so that the end of
the error does restart it.

### 4.6 RawConnectionProofs

For any requesters, handlers, numbers of messages and calls:

- `TypeCorrect`: `Spec => []TypeOK`
- `ClosedComesLast`: `Spec => []ClosedIsLast`
- `WireInOrder`: `Spec => []WireOrder`
- `ChannelsWrittenOnce`: `Spec => []NoSendOnClosedChannel`

Besides the state of each goroutine, `IInv` has three parts. `ChannelsOK`: whoever is in
the table of awaited answers has a channel that is open and unwritten; both the dispatcher
and `internalClose` take the entry out before they touch the channel, in one step
under the mutex, so they cannot both get it. `ClosingOK`: once the closing goroutine is past
its wait for the dispatcher, that makes no further call, and `Closed` is called
in the last step only. `WireOK`: what the peer has seen, by where the writer is: nothing
before its first message, which is the ClusterConfig or a `Close`; and a writer that goes on
to another message has not written a `Close`.

### 4.7 IndexHandlerRegistryProofs

For any number of configuration changes and ClusterConfigs, with or without unsharing:

- `StartInfoExcludesHandler`: `Spec => []StartInfoOrHandler`
- `HandlerNotLost`: `Spec => []HandlerPresent`, for offers that were not ignored (5.14)
- `PausedOnce`: `Spec => NoDoublePause`, an action property

`HandlerPresent` speaks of quiet states, so the invariant has to say what each actor still
has to do and what that will lead to: `CommitterOK` and `DispatcherOK` list what `todo` can
hold, and for which configuration it was computed; an offered folder for which the
dispatcher has nothing left to do has a handler or a start info. `FolderStateOK` ties
`folderStates` to the configuration the committer has applied. `HandlerOK` says that a folder
that runs has no start info and no paused handler, and that a start info excludes a handler;
`MutexOK` that only the holder of the mutex has a handler that is being stopped.

### 4.8 PullerProofs

For any files, of finitely many blocks, any copiers, limits and number of
iterations, with edits by the user and failures of the disk at any point:

- `TypeCorrect`: `Spec => []TypeOK`
- `AllFilesFinished`: `Spec => []EveryFileFinished`
- `FailuresReported`: `Spec => []FailuresAreReported`
- `UserChangesKept`: `Spec => []UserChangeKept`
- `PullImplementsReplica`: `Spec => ImplementsReplica`, the refinement of `FileReplica`

and, where sparse files are used and their size can be set (`~DisableSparseFiles`,
`~TruncateFails`):

- `FilesAppearComplete`: `Spec => []AppearsComplete`

`OldTempsAssumption` says that a temporary file left by an earlier run has the blocks
of its file, with any contents, and perhaps something after them. The clauses of `IInv`, and why they are there:

- `PhaseOK`: the channels are closed one after the other, and a goroutine that has ended
  leaves nothing behind;
- `OnOK`, `AloneOK`, `BlockOK`: a file is with one copier, and each of its blocks in
  one place: still to be copied, in the copier's hands, with the puller, in one of the
  puller's requests, or done. Hence `CountOK`: `copyNeeded` is the number of blocks to be
  copied, and `pullNeeded` that of the blocks being pulled as long as the file has not
  failed, afterwards perhaps more;
- `WriterOK`, `EarlyOK`, `ReusedOK`: when the temporary file is open. A reused file that
  already has all blocks is with its copier alone until that has opened it, so
  `finalClose` never meets an unopened one without an error;
- `ContentOK`, `FinishOK`: a file that has not failed has, in its temporary file, every block
  that nobody owes (`Right`: with its contents, or zeroes that are missing because the size
  could not be set), and no tail where the size is set (`Cut`); when the finisher renames it,
  that is all of them. A tail comes from an old temporary file (`Tailed`);
- `HeldOK`, `ReportOK`: a file that was handed out and is not closed is held by a goroutine
  that will pass it on, unless its temporary file could not be created (5.9); a closed one is
  with the finisher, done, or in the errors of the iteration, unless the folder stops;
- `WindowOK`: an edit is at risk only between the last look at the file and its replacement;
- `TakenOK`: the limiter counts the requests under way.

In the refinement the user's edits are `FileReplica`'s `UserEdits`; the finisher's replacing
and the deletion of a file are its `Remove`, a deletion that is out of reach its `Forget`, the
rename its `Appear`, the end of an
iteration its `Record`; every other step leaves the abstract state alone. `WindowOK` gives
the guards of `Remove` and `Appear`, `FinishOK` that what appears is the complete new file
or one of the exceptions.

### 4.9 ConnectionPromotionProofs

For any finite set of connections, added in any order on both sides, and any number
of further messages:

- `TypeCorrect`: `Spec => []TypeOK`
- `NoPromotionLost`: `Spec => []PromotionNotLost`
- `HandlerFollowsPeer`: `Spec => []HandlerOnPeersPrimary`

The heart of `IInv` is `FirstOK`: a connection that is promoted, that `promoteConnections` has
decided on, whose primary ClusterConfig is under way, or that has the peer's index handler, is
the first of the list as long as it is listed at all. It holds because connections are only
appended, and removing one keeps the order of the others. `IdsOK` says that the list has
the connections that are up or closing, each once, `StartOK` that a promoted
connection that is up has been started or is about to be; a connection in `adding` has its
promotion still to be scheduled. The loop over the secondary
connections is a recursive function; `SecondaryFacts` says what it computes, by
a smallest counterexample as in 4.4.

### 4.10 Model-checked only

Liveness is beyond the prover: `EventuallySynced` of `IndexExchange` and of `FolderLoop`,
`CancelledReturns`, `PullReturns`, `CloseEndsAll`, `PromotionTakesEffect`, `RequestAnswered`.
Every other property of a passing run is the conclusion of a theorem.

## 5. Where the code and its documentation disagree

Items 1 and 6 have a run (`PROJECT.json`, `findings`). For the others the change
of a configuration is named that makes TLC show it, where a model has it; to keep the whole quick to
repeat they are not among the runs.

1. **Sharing again leaves a gap** (`index_reshare`). `model.go:390` drops the files
   of a device that a folder is no longer shared with. The `indexids` row stays, and is
   reported when the folder is shared again: the peer sends only what is newer.
2. **More than one ClusterConfig per connection.** `sendClusterConfig` sends one after every
   change of the configuration that touches the device (`model.go:1649-1666`). With two and
   no fault (`IndexExchange_protocol` with `MaxFaults = 0`, `AllowUnshare = FALSE` and the
   invariant `UpdatesContinue`) an update need not continue where the receiver is: the second one
   reports a sequence that a message under way still raises, and the sender's new handler
   starts from the reported one. `receive` reports that as a failure
   (`indexhandler.go:386`), and when the repeated rows come in smaller batches the
   kept sequence goes back for a while. With two, and the receiver stopping
   between `DropAllFiles` and `Update` of a second full index
   (`IndexExchange_live` with `CrashInReceive = TRUE`), or with three and no fault
   (`MaxCC = 3`, three names), a gap is possible: a full index that is applied
   late drops rows that a later handler was told the receiver has.
3. **The order of rows is circular** (`FolderDB_flags` with `Versions <- MCVersions`,
   `Modified <- MCRestored` and one name: `GlobalIsLatest` fails). Successive versions are
   compared by vector, conflicting ones by time (`folderdb_update.go:582`), while
   `20-files.sql:11` calls the global version "the latest one". With times that disagree
   with the version order, an older version can become global. Which row is chosen can
   also depend on a third one, and stays chosen when `DropAllFiles` removes that: in the
   same configuration `FlagsCurrent` fails. Odd times are not needed for that; an
   invalid successor of one of two conflicting versions is enough (versions `Ancestor`,
   `Newer` and `Conflict`, growing times, `AllowInvalid = TRUE`). The theorems on these two
   properties therefore assume `NoCircles` (4.2).
4. **A reused counter** (`VersionVector_order` with two IDs, `MaxChanges = 4` and
   `AnyClock = TRUE`: `NoSilentLoss` fails). The puller records a version it takes over
   without the local counter; the next change inserts that anew as `max(1, now)`
   (`vector.go:138`). If the clock has not moved on, two contents share a version, while
   `bep_fileinfo.go:190` takes a greater vector to mean that there is no conflict. With
   a clock that has moved on, this cannot happen (4.3).
5. **`Remove` keeps `folderStates`** (`IndexHandlerRegistry_start` with the invariant
   `HandlerMatchesConfig`), so a late ClusterConfig starts a handler for a folder that is
   not shared, where `indexhandler.go:605` says that for a folder "removed entirely" one
   is to "call Remove".
6. **A lost broadcast** (`handlers_stop`): the end of the context is broadcast
   without the lock, and a handler about to sleep misses it. The one that stops
   it holds the registry's mutex meanwhile.
7. **Lowering a semaphore's capacity** forgets a shortage: capacity 2, two taken, capacity
   1, one gives back, and another may take. `NothingLost` therefore bounds
   the sum from below only.
8. The comment in `indexHandler.Serve`, that one index is sent regardless of
   whether there is anything in it, does not hold: an empty batch is not flushed.
   `SendIndexTo` follows the code.
9. **A lost failure of the puller** (`Puller_pull` with the invariant `SuccessMeansSynced`). When a temporary file cannot be
   created, `finalClose` tries once more and on failure returns `false, err`
   (`sharedpullerstate.go:340`) without marking the file closed. `finisherRoutine` looks at
   the error only together with `true`, so nothing is recorded, and `pull` returns true if
   nothing else changed or failed, although "pull returns true if it manages to get all
   needed items from peers" (`folder_sendrecv.go:162`). `folder.pull` then sets no retry timer
   (`folder.go:455-457`), and a scan that finds no change schedules no pull
   (`folder.go:533`): the file stays needed until something changes. `FailuresAreReported`
   shows that no other failure *of the paths that are modelled* is lost. `FolderLoop` has such
   pulls, as it has deletions that the configuration ignores (`passedOver`).
10. **A connected device without an index handler** (`ConnectionPromotion_promote` with
    the property `ConnectedHasHandler`). Each connection has its own dispatcher. A
    ClusterConfig of the old primary connection can be handled after that of the new
    one: `ensureIndexHandler` (`model.go:1371`) moves the handler back to a connection that
    is about to close, and `Closed` then removes it. The peer has sent its ClusterConfig
    on the new connection already and sends no other until something changes,
    while `AddConnection` promises "thereafter index updates whenever the local folder
    changes" (`model.go:2305`).
11. **An index without a handler** (the same with the invariant `IndexHasHandler`):
    `handleIndex` says "This should be impossible" of an index message on a connection
    without an index handler. It is not when the sides add two connections in different
    order: each promotes its own first one, the second side's handler goes to the connection
    that the first side promoted, and the index it sends there meets a first side
    that got a secondary ClusterConfig on it. The error ends that connection.
12. **The folder loop.** Three remarks that no comment contradicts. A pull that meets a folder
    error has stopped its retry timer, so without a rescan interval only an update or
    a request notices that the error is over (`EventuallySynced` assumes `cfg.rescan`).
    Callers of `Scan` wait for the initial scan without looking at the folder's end
    (`folder.go:319`), and wait on when the folder stops before; `ScanCalled` therefore begins after
    that wait. A watcher that could not be started because of a folder error at start-up is
    started only when `setError` has seen that error: `watch = "never"`.
13. **Files that are too short or too long** (`Puller_pull` with the invariant
    `AppearsComplete`, and the same with `DisableSparseFiles = TRUE`). Blocks of zeroes
    are not written into a new sparse file (`folder_sendrecv.go:1354-1365`), since `Truncate` has
    given it its size. A failure of `Truncate` is tolerated for a new file: "This generally
    doesn't matter" (`sharedpullerstate.go:212`). If the file ends in zeroes it is then renamed
    without them. With `DisableSparseFiles` no size is set at all, and a reused temporary file
    of a longer version keeps its end, although "we can't just overwrite blocks and let
    the old data linger at the end" (`sharedpullerstate.go:216`). In both cases the database has
    the new version until a scan finds the file to differ, and announces that as a
    local change.
14. **A folder that was ignored** (`IndexHandlerRegistry_start` with the invariant
    `UnignoredPresent`). `ccHandleFolders` keeps nothing of a
    folder that is ignored (`model.go:1428-1431`). "Ignored folder was removed, reconnect to
    retrigger the prompt" (`model.go:3100`) is reached only if the same change resumes the
    device (3091-3093), so a folder that is taken off the ignored ones and shared has
    neither start info nor handler. As a rule the peer, told by our ClusterConfig, sends
    an index, which is refused (`indexhandler.go:661-669`); that ends the connection, and the next
    one has a handler.
15. **Edits that do not show.** Before a file is replaced or deleted its size, time and
    permissions are compared with the database, not its contents (`folder_sendrecv.go:2111-2118`).
    An edit that leaves these alone is lost unseen. A file that is in conflict and is
    a conflict copy itself is removed without another copy, whatever `MaxConflicts`
    (1864-1870), and conflict copies beyond `MaxConflicts` are removed, the oldest
    first (1889-1900). `UserChangeKept` excepts the first two; older copies are not modelled.
16. **Deletions out of reach.** A deletion is recorded as done when the path leads through a
    symbolic link (`folder_sendrecv.go:2129-2132`), or when removing fails and the file cannot be
    looked at either (939-946). The file may exist, and is found as a new one when it
    comes into reach again.

## 6. Not modelled, and the plan

Within the modelled parts: errors of the database (the connection or the folder ends; one
while `processNeeded` lists what is needed ends the iteration like a stop);
fatal errors and restarts of services by their supervisor; in the puller directories, symbolic
links, the removal of surplus conflict copies, the rename shortcut, changes of metadata only, and receive-encrypted files; in the
folder loop the cleaning of old versions, the statistics and the states shown to the user;
on connections `Request`'s choice of one, introductions and pending devices. The parts
left out altogether are in `PROJECT.json` with the reason: most are I/O, functions
on bytes or strings, user interface, or programs of their own. That is the larger
part of the repository's lines.

Next, in this order:

1. *An abstract index replica*, "the receiver's rows are a copy of the sender's that only
   moves forward", and `IndexExchange` shown to implement it.
2. `Tunnels`: open, data and close from both sides over `RawConnection`'s dispatcher.
3. `Events`, `ConfigWrapper`, `WatchAggregator`, download progress.

A new module brings a run; questions that are answered once are described in section 5 rather
than repeated.
