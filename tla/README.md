# ZeroFS: TLA+ models, checks and proofs

ZeroFS serves a file system (9P, NFS, NBD) out of a SlateDB database on an
object store.  This project models the four places where it promises something
that several tasks, nodes or restarts could break:

* high availability: who may serve (the ownership record and the serving lease)
  and what a takeover may promise clients (shipping, tail, replay, lineage);
* the data plane: extents in segments, uploads, flushes, crashes, and the
  collector that deletes segments under readers and checkpoints;
* the write-back tier: objects acknowledged from memory or from a local journal
  and uploaded later, with crash recovery;
* the mutation pipeline: writes acknowledged from memory, applied by lanes.

Each is checked on small instances with TLC, and of each the safety properties are
proved with TLAPS for every instance, but for those listed under Proofs.

## Inventory

| Component | State | Operations | Interacts with | What makes it correct |
|---|---|---|---|---|
| Ownership record (`replication/leader_record.rs`) | one object, `.zerofs_ha_ownership`, changed by conditional PUT; a token and a renewal task per attempt | claim (observed or forced), renew, begin_open, activate, validate_opening, validate_active | role election, lease, database open | one owner per generation; writer epochs follow generations; the last Active writer is never forgotten; no superseded record returns; a handoff ends |
| Serving lease (`replication/lease.rs`) | deadline, state (uninitialized, held, suspended, revoked), reads under way | activate, renew from a read or an acknowledgement, suspend, final recovery, revoke | record, heartbeats, server | never two valid leases; a successor opens after the predecessor's lease is over |
| Role election (`cli/init.rs`) | startup context, Opening token, open database | quiesce, claim, wait, open, promote, reconcile, activate, retry | all of the above | retries and fenced openers leave a consistent record and receiver |
| Receiver and heartbeats (`replication/transport.rs`, `failover.rs`) | phase (standby, fenced), highest observed epoch, tail | receive_ship, receive_heartbeat, begin/complete_promotion, return_to_standby | replicator, lease | a fenced receiver accepts nothing; a claimant acknowledges nothing |
| Replicator (`replication/replicator.rs`) | next sequence, provenance, dirty base, durability tracker, connection | ship, apply permits, base repair, reconnect, watermark | commit worker, receiver | what the standby may prune is durable; gaps are repaired |
| Tail and replay (`replication/tail.rs`, `replay.rs`) | batches, highest and durable sequence | accept, prune, observe coverage, replay decision | receiver, database | coverage is never claimed without the batches; nothing newer is overwritten |
| Write coordinator (`fs/write_coordinator.rs`) | queue, batch in hand, taint flag | ship, taint, apply, acknowledge | replicator, flush coordinator, database | acknowledged only when applied; Solo writes after the taint |
| Lineage (`fs/boot.rs`) | durable token and taint | resolve_lineage_token, fsync check | takeover, clients | a kept token implies every write acknowledged under it |
| Flush coordinator (`fs/flush_coordinator.rs`) | queue of requests, batch in hand, result | request, drain, barrier, seal, flush, answer | write coordinator, segments, collector | an answered flush covers what was written before it was asked; every request is answered |
| Segments and extents (`fs/store/extent/`) | open lanes, sealing segments, objects, pointers and counters in the database | reserve, fill, rotate, upload, seal_open, read, compact | flush coordinator, collector | a durable pointer resolves; the live counters are exact; a crash falls back to the last flush |
| Collector and checkpoints (`fs/store/extent/reclaim.rs`, `checkpoint_manager.rs`) | deadline of each dead segment, the checkpoints | pass (flush, gate, scan, verify, delete), sweep, create and delete a checkpoint | segments, readers | no reader and no checkpoint loses a segment |
| Write-back tier (`writeback/`) | overlay in memory, journal rows and blobs, local and remote watermark, versions | put, update, delete, rename, stage, commit, upload, mark, sweep, recover | object store | an answer survives a crash; recovery opens; the remote store is a prefix of the log; reads see the latest |
| Mutation pipeline (`fs/mutation/`) | admission gate, overlay and lane of each inode, progress, budgets | admit, prepare, stage, publish, dispatch, commit, retire, read, flush, fence, poison, stop | inode operations, write coordinator | a write is seen at once, whole and once; a flush waits for what it covers; nobody waits for ever |
| Deduplication (`dedup`) | results of numbered requests | record, answer a retried request, ship with the batch | replication, servers | not modelled yet |
| Inodes, directories, handles, quota | database rows, lock table, reservations | POSIX operations | mutation pipeline | the write and punch paths are in Mutation; the rest not modelled yet |
| Read caches, prefetch, object store adapters, codecs, protocol servers, clients, tools | | | | not modelled: performance, parsing, I/O, separate programs |

What is hard here: a store whose PUTs arrive late or whose answers are lost;
nodes that die between any two steps of a handoff; openers that stall after
their check; leases renewed by two sources and judged against clocks; ships that
time out and arrive later; a standby that restarts with an empty tail while its
leader counts on it; replays that are fenced half way; a flush that must freeze
lanes whose writers wait for memory that only an upload gives back; a collector
that decides from a list and a scan of different moments; a journal that commits
batches staged out of order, on a disk that may fail after it committed;
completions that retire what a read is about to look for; one member of a
striped write failing after another.  `PROJECT.json` lists each of these at its
line, with the properties that would catch it.

## Modules

```
OwnershipRecord   the record as a value: claim_base, renewed_handoff, validate, ...
OwnershipCell     abstract: an atomic cell that only moves to a successor record
Ownership         EXTENDS OwnershipCell: nodes, PUTs in flight, orphans, crashes
OwnershipProofs   theorems about OwnershipCell and Ownership
Authority         record, lease, heartbeats, drain, on a discrete clock
AuthorityProofs   theorems about Authority
ReplicationTail   the tail as a value, the replay decision
Replication       EXTENDS ReplicationTail: commit worker, ships, takeover, lineage
ReplicationInvariants  the inductive invariants RepInv and HonestInv
ReplicationProofs theorems about Replication
DurableStore      abstract: contents that a crash resets to the last flush
Segments          writers, lanes, uploads, commit worker, flush coordinator, crash
SegmentsProofs    theorems about Segments, the refinement of DurableStore included
Reclaim           EXTENDS Segments: collector, compaction, checkpoints, readers
ReclaimProofs     EXTENDS SegmentsProofs: theorems about Reclaim, the refinement included
Writeback         overlay, journal, remote scheduler, crash and recovery
WritebackReads    EXTENDS Writeback: a reader, its look-up and its fetch two steps
WritebackProofs   theorems about Writeback and WritebackReads
VolatileFile      abstract: an array of cells that a write changes at once
Mutation          admission, overlay, lanes, commit, reads, flushes, fences
MutationProofs    theorems about Mutation, the refinement of VolatileFile included
NaturalsFacts     lemmas about sets of naturals that the proofs share
MC*               symmetry sets for TLC; the .cfg files give the constants
```

Three detailed specifications are checked against an abstract one.

* Ownership implements `OwnershipCell` with the identity as refinement mapping.
* Segments and Reclaim implement `DurableStore`: `mem` is what a reader of each
  extent gets now (`Contents`: from an open lane, a sealing segment or an
  object), `durable` what the flushed pointers resolve to in the object store
  alone (`StoredContents`), `pinned` the same for each checkpoint's pointers.
  Uploads, rotations, compaction and collection are stutters, and every crash is
  exactly a fall back to the last flush.  Checkpoints created inside the
  window of `reclaim_race` (below) are left out of `pinned`.
* Mutation implements `VolatileFile`: `file` is the canonical base overlaid with
  the published entries.  A striped write changes all its inodes in the one step
  that shows it; commit, retirement, rollback, poisoning and shutdown are stutters.

### Ownership

`object` is the record in the store, `att[n]` the attempt of the process on node
`n` (its pc is the token type it holds: `ClaimToken`, `OpeningToken`, ...; `op`,
`st` its PUT under way), `orphans` the PUTs of attempts that are gone, `dbEpoch`
SlateDB's writer epoch.  A PUT is three steps: it is sent with the expected
revision, the store applies it if the revision still matches (`StoreApplies`,
`StoreAppliesLate`), and its outcome is learned (`PutOk`), reconciled by reading
the record again (`PutReconciled`), given up (`PutUnknown`) or found to be
superseded (`PutChanged`).  `ClaimNow` is a claim that need not observe (no
handoff, or forced recovery); `Observe`, `ObservedStale` and `ObservedLive` are
the observation of a handoff.  The writer epoch that `Activate` records is read
from the status manifest, and so may be that of a writer that fenced this one.
`RetryWriter` is `close_writer_for_retry`.  `history` (all installed records) is
a ghost.  `OwnershipCell` is the abstract specification: the same record changed
atomically, in revision order; `Ownership` is checked and proved to implement it
(property `CellSpec`, with the identity as refinement mapping, since both share
`object`, `marker` and `history`).

### Authority

Each node's process has a role, the generation it owns, the claim grace it still
waits for, its lease with the time left, the ownership read and the heartbeat
under way with their ages, and its drain.  `Tick` moves all clocks together;
every reaction (an expiry noticed, an answer taken) is a step of its own and may
be late.  A grant lasts `TTL - age`, the age counted from the request's start.
The code keeps absolute deadlines; the model keeps what is left, and ages stop at
`TTL`, from where on they are all too old.
With `Prompt`, time waits for the step-down reactions, which may take `Slack`
altogether: that is the second that `CLAIM_GRACE` adds.  Left out: the wall clock
that detects a suspended host, and clean shutdown.  The record's CAS is atomic
here, which Ownership justifies.

### Replication

`disk` is the durable database (the sequence of writes with their provenance, the
last stamp, the lineage token, the taint), `node[n]` the process (role, writer
epoch, lease, unflushed entries, replicator state, the batch in the commit
worker, the heartbeat under way), `rcv[n]` the receiver, `ships` the ship
requests.  Who may claim is abstracted: a standby may claim at any time, and
opening the database ends the predecessor's lease, which is what
`SuccessorOpensAlone` shows of Authority.  A ship is delivered at most once, at
any later time; a heartbeat carries the frontiers read when it was sent.
`stranded` is a history variable, for `OnlyStrandedLost` alone: no guard reads it.
`StrayOpen` is a stalled opener that takes an epoch and goes away.  The taint and
its flush are one step.  Left out: dedup results, `sync_writes`, sequence
exhaustion; `demote_leader`, which only tests call.

### Segments

`lane[l]` is an open segment with its append gate, `sealing` the segments in RAM
whose upload is not over, `store` the objects (a failed PUT may have stored the
object all the same), `mem` and `durable` the pointer and counter rows as applied
and as flushed, `queue` the batches before the commit worker.  A writer claims a
frame (`Claim`; the writer that fills the lane keeps its gate), encrypts it
(`Fill`), rotates a full lane once a residency permit is free (`SpawnSeal`), and
submits a transaction that `Apply` turns into pointer and counters (`SegDeltas`).  A background upload, `seal_open`
(`PublishPending`, `TakeGate`, `SealRotate`, `SealPut`, `SealEnd`) and the flush
coordinator's steps are actions of their own, so they interleave with all of it.
A content is the set of writes that the bytes of an extent come from.  Group
commit is one transaction at a time; frames have no encoding.

### Reclaim

A pass takes the steps of the code: barrier and seal, flush, gate on the
checkpoints, scan of the durable counters, verification, deletion after the
horizon, counters dropped; the sweep lists objects without a counter; compaction
gathers frames, packs them into a new segment and repoints each extent if its
pointer is unchanged and nothing is queued for it.  Time is the discrete clock
that `Tick` moves.  A reader resolves a location and fetches it later; the
collector's floor is what makes this safe.  With `PromptScan` no time passes
between listing the checkpoints and the scan, so that `reclaim_race` does not
rest on a slow pass.

### Writeback

`log` is every mutation accepted, in order; `overlay[s]` whether mutation `s` is
held in memory or by the journal; `drain` the batches of the journaler, with
their stages, which end out of order, while `Commit` takes them in order; `disk`
what a crash leaves (rows, blobs, local and remote watermark, the versions of
remote objects); `sched` the remote scheduler with its window of uploads; `remote` the
object store.  A local commit that reports an error may be durable
(`CommitFails`, `MarkFails`), an upload that reports one may have happened
(`UploadFails`), and recovery (`RemoveUncommitted`, `OpenSweep`, `OpenPrune`,
`Reopen`) may be cut short by another crash.  Keys of immutable data and of
fenced metadata differ in what a scheduler may run side by side.

WritebackReads adds the reader.  `Lookup` is `visible_entry` and what `get_opts`
answers from its copy of the entry; `Fetch` opens the blob or asks the remote store
after the await, when the tier may have taken any steps; `FetchFails` is a record or a
container that `commit_remote_run` has unlinked meanwhile (`overlay.rs:449`).  `seen`
is a history variable: what the object held since the look-up.

### Mutation

`write[n]` is the n-th write with its dispatch (its members, sizes, result),
`runtime[i]` the overlay of inode `i` (sequence applied, entries, terminal),
`lane[i]` its worker and queue, `attrs` the previewed attributes, `base` the
canonical contents, `progress` the gap-free record of what was applied.  The
pipeline is `Begin`, `Reserve`, `Prepare`, `Stage`, `Publish`, `Show`; the lanes'
steps are `Arrive`, `WaitResult`, `TakeReceiver`, `Receive`, `Submit`, `Commit`,
`Record`, `Complete` and their failures.  A read takes the inode first, then the
overlay, then the base; a flush snapshots its cutoff and its targets; a hole
punch closes the gate of its inode, waits for preparation and lanes, then
punches.

## Runs

| Run | Bounds | Shows |
|---|---|---|
| `ownership` | 2 nodes, 2 generations, 3 revisions, 2 epochs, 2 attempts, 1 orphan, a database with an old marker; fairness, no symmetry | `EpochsFollowGenerations`, `LatestWriterExact`, `OpenedAboveFloor`, `OneOwnerPerGeneration`, refinement `CellSpec`, `HandoffResolves`, `TypeOK` |
| `authority` | half-second ticks: TTL 6, final read 6, drain 4, slack 2; 3 generations, `Prompt` | `ExclusiveAuthority`, `SuccessorOpensAlone`, `PredecessorStopped`, `OnlyOwnershipRevives`, `TypeOK` |
| `replication` | 2 writes, 3 epochs, 1 restart | `OnlyStrandedLost`, `PrunedIsDurable`, `NoRegression`, `TypeOK` |
| `replication_live` | 2 writes, 1 epoch, 1 restart; fairness, no symmetry | `WriteSettles`, `GapsClose` |
| `replication_pending` | 2 writes, 2 epochs, 1 restart | `LineageHonest` is violated |
| `segments` | 2 extents, 2 writers, 1 lane that one or two frames fill, 1 residency permit, 1 flush request at a time, 2 writes, 1 failure, 1 crash; fairness | `DurableResolves`, `LiveExact`, `FlushCovers`, refinement `ImplementsDurableStore`, `FlushAnswered`, `WriteReturns`, `TypeOK` |
| `segments_wait` | 2 lanes that one frame fills, no failure, no crash | `FlushAnswered` is violated |
| `reclaim` | 1 extent, 1 writer, lanes of two frames, 1 checkpoint name, 1 reader, 2 writes, 1 failure, 1 crash, 1 deletion per pass, 1 compaction, lifetime and floor of one tick | `LiveExact`, `ReadsSucceed`, refinement `ReclaimImplementsDurableStore` |
| `reclaim_race` | 1 extent, 2 writes, no failure, a checkpoint that lives longer than the floor | `CheckpointsIntact` is violated |
| `writeback` | 1 data key, 1 fenced key, acknowledged from the journal, batches of 2, 2 staging writers, 2 lanes of 1, 2 operations, 1 disk failure, 1 store error, 1 crash, 1 read at a time; fairness | `ReadsCurrent`, `AnswersSurvive`, `RecoveryOpens`, `RemotePrefix`, `NoFalseDivergence`, `Drains`, `TypeOK` |
| `mutation` | 2 inodes of 2 cells, 2 writes (striped or not), 1 client, 1 punch, 1 failure, a shutdown; symmetry of the inodes | `ReadsRegular`, `FlushApplies`, `NobodyStuck`, refinement `ImplementsVolatileFile`, `TypeOK` |
| `mutation_read` | 1 empty inode, 1 write that extends it, 1 reader | `ReadsRegular` is violated |

Why the bounds are enough.  Ownership: a late PUT needs a record superseded
twice, which three revisions give; delayed openers need a third epoch and a third
claimant, which the proofs cover for any bounds.  Authority: the lease compares
two generations at a time, three let a node be successor and predecessor; all
delays without `Prompt` are covered by the proofs.  Replication: the lineage
hazards need one batch that is covered and one that is not, a takeover of a
takeover, and a standby that comes back with an empty tail; deaths are not bounded,
and the proofs cover any number of restarts.  Segments: one permit and segments that a single frame may fill put every
pool at its limit with the first write, and the second writer is the one that
waits; segments that are not yet full are those that a flush seals itself; a
failed upload, of the background or of the seal, may have stored its object.  Reclaim: one
extent written twice is one segment that dies, and lanes of two frames make it
die either with its neighbour in it or before it is sealed; the pass, the
compaction, the checkpoint and the crash can each fall anywhere.  Writeback: two
mutations on two keys or on one give every order of staging, commit and upload;
a crash may fall into recovery.  Mutation: two inodes make a write that needs
both lanes, two writes make a rollback between two admitted sequences; an
operation budget of two is reached.

Only `authority` checks deadlock: somebody can always move there.  In the others
the system may stop when the bounded attempts, writes, failures and crashes are
used up.

Fairness.  Ownership: role election never leaves an unresolved handoff alone
(`immediate_role_decision` answers Lead, and then the handoff is recovered), the
object store answers, and transitions queue on the FIFO mutex that renewals
release between turns; some observation is not cut short by a crash.
Replication: ships end in `SHIP_TIMEOUT`, flushes end or end the process, a
deposed leader exits (weak fairness of the commit worker); the heartbeat loop
repeats (weak), and of heartbeats that are sent again and again while a standby
could hear them, one gets through and is answered (strong).  Crashes, restarts
and claims are never assumed to happen.  Segments: every task that can run does
(weak fairness); the gates, the write barrier and the semaphores of tokio are FIFO, so
a waiter whose turn comes again and again gets it (strong fairness of the
commit, of taking a gate and of starting a flush); the flush interval asks for
flushes; failures are bounded.  Writeback: the journaler and the remote
scheduler are loops of their own, each of which goes on while it can (weak).
Mutation assumes none: `NobodyStuck` says that whenever the pipeline has no step
left to take, every request was answered, and the pipeline's own steps never
cycle.

### The violations

`replication_pending`: the standby accepts ship 2 and restarts before the leader applied it; a heartbeat
tells the new process that the leader has applied up to 1, which is durable; the
leader applies and acknowledges write 2 and dies.  The new process takes over
with a tail that looks covered and keeps the lineage token, though write 2 is
gone.  The documentation promises that "a successor that cannot prove it received
the complete lineage generates a new token" (`high-availability/page.mdx:201`).
How far the promise holds is `OnlyStrandedLost`, which `replication` checks and
`LineageStaysHonest` proves, with restarts of either node at any moment: the history
variable `stranded` collects what a standby's death leaves to its leader alone
(`Exposed`: the batch it accepted that its leader has still to apply, and those
applied since the heartbeat under way was sent), and no other write is lost under a
token that is kept.

`segments_wait`: `seal_open` takes every upload permit, then freezes the lanes one
by one, publishing what waits in RAM before it queues for each gate
(`write.rs:1078-1088`).  A writer that keeps the gate of lane 1 while it
encrypts the frame that fills it comes to need a residency permit (`:1205`);
meanwhile a rotation on lane 2 took the last one, and its upload waits for a
permit that `seal_open` holds.  Nobody moves again.  With one lane (`segments`)
the comment's argument holds, also after failed uploads.  `max_inflight_seals`
is capped by the write concurrency with SFTP.

`reclaim_race`: the pass reads the checkpoints (`reclaim.rs:230`) before it scans
the durable counters (`:374`).  A checkpoint created in between pins the manifest
of the pass's flush; an overwrite and a flush before the scan make a segment of
that manifest look dead, with a horizon that does not know the checkpoint and
that later passes keep (`:454`).  The comment says that a concurrently created
checkpoint is either visible or pins a manifest "in which everything this pass
reclaims is unreferenced".

`mutation_read`: a read keeps the canonical size it found first
(`overlay.rs:1375`, `:1387`, `:1397`) and looks at the overlay later.  When an
acknowledged write commits and retires in between, the read finds it in neither
and returns the file as it was before the write.  The comment at
`volatile_overlay.rs:321` promises that retirement cannot pass a read.  In
`mutation`, files have their full size from the start, and `ReadsRegular` holds:
every cell a read returns was the file's at some moment of the read.

### Observed while modelling, without a run

* A replay that was fenced half way is repeated by the same process and may write
  a batch twice.  `NoRegression` is therefore about writes that their own leader
  stamped.
* The write-back scheduler's window follows the journal's `local_seq`, not the
  barrier that waits for the journaler to observe a commit (`remote.rs:1132`).  A
  batch can therefore be uploaded and retired before the journaler marks it,
  which then fails ("overlay sequence N does not exist") and ends the journaler.
  No data is lost: the properties hold with it.
* A failed publication drops its sender before it cancels what is unpublished
  (`overlay.rs:559-574`).  A lane that sees the closed channel first poisons the
  service, which the test
  `publish_failure_cancels_taken_dispatch_and_releases_ownership`
  (`overlay.rs:2035`) does not expect.
* A read that looked up a journal entry fails when the record is uploaded, retired and
  unlinked before its blob is opened (`overlay.rs:406`, `:449`, `:551`;
  `remote.rs:1825-1831`), though the object is at the remote store: there is no second
  look.  No doc or test promises otherwise.  `ReadsCurrent` says that this is the only
  failure, and that the entry is then gone, so that another read does not meet it.
* Once progress is terminal, `apply_held` refuses every batch
  (`materializer.rs:342`), so a shutdown after one lane failed does not
  materialize the others, for which `shutdown_with_timeout` says that "a bounded
  materialization attempt" is made.
* A read that overlaps a hole punch and a later write may return cells of
  different moments.
* The repository's `README.md:342` calls `volatile_memory` an NBD mode; the pipeline serves
  every protocol.

## Proofs

`OwnershipProofs` (any set of nodes, any bounds).  For the cell: `history` is
ordered by generation and revision, an Active record ends its generation, floors
and last writers only grow (`CellSafety`); `CellNeverReinstalls` follows from the
order.  For Ownership, the inductive invariant relates every attempt and every
PUT, orphaned or not, to the history: what a node holds was installed, what it
sends is a successor of what it holds, an attempt's incarnation is its own, and
no opened epoch exceeds `dbEpoch`.  This is needed because `OneOwnerPerGeneration`
and the rest say nothing about PUTs in flight.  From it each step is an `Install`
of the cell or leaves it alone (`OwnershipRefinesCell`), and `EpochOrder`,
`SingleOwner`, `LatestWriterKnown`, `RecordsParse` and `SupersededForever` carry
over; `WriterAboveFloor` and `OwnershipTypeCorrect` are parts of the invariant.

`AuthorityProofs` (any two nodes, TTL, final timeout, drain, slack).  The
invariant is about pairs: for a process and a successor with a newer generation,
whatever still grants the former something (its lease, an exact answer, an
acknowledged heartbeat) was requested before the successor's claim, so what
remains of it is at most what remains of the successor's grace, less what final
read and drain take under `Prompt`.  A tick lowers both sides.  Exclusive authority,
`GraceCoversLease`, `GraceCoversDrain` and `AuthorityFromOwnership` follow.  The
assumptions are on the constants: at most two nodes, a positive TTL, final timeout and
slack.

`SegmentsProofs` (any number of files, writers, flush callers, lanes, permits,
writes, failures and crashes).  `SegInv` is the inductive invariant.
`DurableResolves` says something only of the image a restart would find, and the
image is what `FlushManifest` copies from memory: so the argument is about memory,
and about the moment of the copy.

* `Segids`: a segment id is given out once, so a location means the same in an open
  lane, in RAM and as an object, and sealing or uploading a segment does not change
  what a location reads as.
* `Locks`, `Ids`: between its reservation and its submission a writer holds the
  inode lock and no transaction of the slot waits, so the pointer it debits is still
  the pointer when its transaction is applied.  `LiveExact` is inductive only with
  this.
* `Frames`: what a reader, a queued transaction or a filled reservation points to
  is readable; a claimed frame is not, and nobody else points to it.
* `Gates`, `Sealed`: a seal that has not failed holds the gates of the lanes it
  passed and uploads all that was in RAM, so at its end every pointer in memory
  names an object.  Since the write barrier keeps new transactions out, this holds
  at the copy as well, and gives `Durable`.
* `Clocks`: what a flush request was promised has been applied, and what is synced
  has been copied.
* `Drops`: a transaction drops counters only of segments that nobody points to and
  nobody can come to point to (`Buried`).  Writers never drop any; the collector of
  Reclaim does, and its transactions, which move a slot or drop counters, are among
  those `SegInv` allows.

From `SegInv`, `SegmentsImplement` maps each step: a claim, a fill, a rotation, an
upload and a seal leave what readers see alone (`ReadsKept`), an apply is one write,
a copy of memory is a flush, a crash goes back to the last one.  Beyond the bounds,
the proof assumes that there are finitely many files and that the names of the tasks
are not names of writers (`SegmentsNames`).

`ReclaimProofs` (any number of files, writers, readers, checkpoints, passes,
compactions, failures and crashes, any floor, lifetime and deletion limit, with or
without `PromptScan`).  `RecInv` is the inductive invariant; it extends `SegInv`.
A pass decides from a flush, a list of checkpoints and a scan of different moments
and acts later, so the invariant has to say what can no longer change.

* `Old`, `Buried`: a segment that is neither open nor in RAM, with no location held or
  queued, and whose pointers are all durable ones, gains no pointer.  `Aged` says that
  what a pass may pick (below the cutoff of its flush and not open, or of an earlier
  epoch) is such a segment, and that what it took for dead has no pointer at all.  That
  the flush of a pass has this effect needs both barriers: `Phases` says that with the
  reference barrier held every location is published, and that the seal leaves nothing
  in RAM.
* `Moved`: compaction's copies read as the frames they were made from, which are still
  there; a swap under the inode lock, with the slot settled and still pointing to the
  gathered frame, therefore changes no content, and a pack without a swap is buried.
* `CollectSegInv`: each step of the collector is a step `Collect`, which keeps `SegInv`.
* `Reads`: a location that a read resolved and cannot read any more is of a buried
  segment that is gone, so the second resolution finds another.  That one is not about
  to be removed (`Doomed`), is counted, and outlasts the read in the waiting list or by
  the horizon of the scan under way.  The latter is asked of a read that lost its place
  and has yet to retry as well: otherwise a scan could take the new location before it
  is fetched.
* `Keeps`: the same of the rows of a checkpoint, for as long as it lasts, unless it was
  taken between the list and the scan of a pass (`raced`): of those nothing is claimed,
  and `reclaim_race` shows that nothing can be.

From `RecInv`, `ReadsNeverFail`, `CountersExactWithReclaim` and
`DurableResolvesWithReclaim` follow.  `ReclaimImplements` maps each step: those of the
data plane as before, the flush of a pass is a flush, the other steps of the collector
change nothing that readers, restarts or the checkpoints in force see.

`ReplicationProofs` (at most two nodes, any terms, writes and restarts).  `RepInv` is
the inductive invariant (it and `HonestInv` are in ReplicationInvariants).
`PrunedIsDurable` is about a standby's watermark, which was a field of a ship or a heartbeat, which was the
leader's, which was set when the leader saw its own flush: `Watermarks` says of each
of these places that it is a frontier below which every ship of the term is on
shared storage (`DurableTo`), and that the leader is past it, so no later ship can
fall below.  That a flush has this effect needs `Processing`: sequences are used up
in order, one per batch, and a ship the leader applied is on shared storage or
in its memory in front of every stamp that claims it.  `Epochs` makes a term belong
to one process; `Receiving` says that a tail holds what was shipped in its term;
`Ordered` keeps what the last durable stamp does not claim newer than every write a
leader made durable itself, which is what a replay relies on (`NoRegression`).  Of
batches that were themselves replayed it says nothing: a replay that is repeated
writes them again.

The lineage token (in the same module; no hypothesis).  `LineageStaysHonest` says that
the window of `replication_pending` is the only way to lose a write that was
acknowledged under the token in force: outside it, ships and heartbeats lost or late,
crashes, fencing and lost claims at any moment do no harm, and a death inside it
costs only the writes it strands.  `HonestInv` is the inductive invariant; it rests on
`RepInv` in the state before and after a step.  A write is acknowledged when only the leader's memory
and the standby's tail have it, and both may then be lost or left behind, so the
invariant has to say who would know.

* `Leases`, `Owning`: a lease belongs to the newest term and to the lineage in force;
  so at most one process acknowledges.  `Tokens`: who wrote alone tainted the lineage.
* `Sending`: a sequence of a term is one batch, and while no answer was missed the
  request in flight is the one its sender waits for.  `Fences`: a tail knows of no
  batch its leader has not sent.  Hence an accepted request completes the tail, and
  the standby keeps it until the leader has applied the batch (`Accepting`), unless it
  dies, and then the batch is stranded (`Told` fails).
* `Exposing`: what is stranded before it is applied is a batch that was accepted, and
  what is applied is not in the worker's hands again.  So what goes out anew is not
  stranded, and is owed to the client like any other.
* `Recoverable`: as long as the lineage is not tainted, a write acknowledged under it,
  not stranded and not on shared storage is batch k of the last term e that served, and every tail
  a takeover would go by, of the term it would ask for, is of term e and has heard of
  k (`Knows`).  A tail that has heard of k and misses it is not covered, and proves
  nothing.  A late request must not make an older tail look current: what is in flight
  from before comes too late, and what is in flight of term e is newer than k
  (`Newest`).  A heartbeat tells of k too, or finds a tail that is up to date
  (`Tells`).  A heartbeat that was sent before k was applied and finds a standby that
  has restarted since tells of less; k was stranded when that standby died.
* `Proven`: a takeover that proved coverage has what is missing in its replay, and
  after the flush nothing is missing.  This needs that a replay leaves out no batch of
  the tail (`ReplaysAll`).

`MutationProofs` (any number of inodes, cells, clients, writes, punches and failures,
any budget, with or without a shutdown).  `MutInv` is the inductive invariant.

* `Tracking`: while its runtime has not failed, an inode's entries are its lane's job
  and queue, in this order; once it has failed they are among the entries.
  `Waiting`: a staged write without an outcome is in the lanes of all its inodes.
* `Arrivals`, `Outcomes`: the count of a write's arrivals is the number of lanes that
  have it as their job, so one lane dispatches it, when all have.  A lane that retires
  an acknowledged write was told the outcome of its commit.
* `Locking`: the write that holds the lock of an inode is the last of its entries.
  This is why an answer shows a write over all earlier ones, though entries are
  staged long before they are shown.
* `Applied`: what a lane's job committed is still canonical when its entry goes.
* `Sequenced`: a sequence is given to one write, and the gap-free prefix of `progress`
  counts committed writes only; with `Flushing` it gives `FlushApplies`.
* `Previewed`: the previewed attributes are the acknowledged writes without an outcome,
  in the order of the lane, so the one that `Record` takes off is the one it recorded.
* `Fencing`: a fenced inode has no write in preparation, then no entry beyond the
  target, then no entry at all.

From `MutInv`, `MutationRefines` maps each step.  What a client sees of a cell is the
last published entry that covers it, or else the canonical cell (`Shows`).  A commit
changes only cells that the write's own entry covers (`CommitUnseen`); a retirement
takes an entry whose cells are canonical (`CompleteUnseen`); an answer adds the last
entry of each member (`ShowSeen`); a punch finds no entry (`PunchSeen`).  Beyond the
bounds, the proof assumes that there are finitely many inodes and that a client's name
is not the number of a write (`MutationNames`).

`WritebackProofs` (any keys, batch size, writers, lanes and window, any number of
operations, disk failures, store errors and crashes).  `WbInv` is the inductive
invariant.  `RecoveryOpens` is about what `validate_recovery_state` finds after the
three cleaning steps of `Journal::open`, so the invariant has to say of every moment
what a crash then would leave.

* `Watermarks`: the rows are those of the sequences between the remote and the local
  watermark, and maybe some below, which a crash kept from being pruned.
* `Payloads`: a payload between the watermarks is in a whole container that ends at or
  below the local watermark.  That a commit keeps this needs the same of every batch
  before it is committed: it has its container, whole once it is staged.
* `Draining`: the batches are disjoint and in order, and only the first is committed,
  from the local watermark on.  So a batch that is given up takes no container along
  that another batch, or a committed record, needs.
* `Endings`: a container ends with a payload, so one that ends between the watermarks
  holds something pending and is no stray.  Recovery establishes this step by step:
  after a crash a container may end beyond the log, after `RemoveUncommitted` none
  does, after `OpenPrune` none ends at or below the remote watermark.
* `Scheduling`: what is swept and pruned is what the remote watermark covers.

What readers and the remote store see is `SeenInv`, which rests on `WbInv` in the
state before and after a step.

* `Accepted`: a record was valid against the records before it, which the log alone
  tells; so what the remote store must look like when it is applied is a function of
  the log (`Base`).
* `Overlaid`: what is not yet remote is in the overlay or was withdrawn, an overlay
  entry without a hole above it, and readable where it is.  With it a look-up
  finds the newest record (`ReadersSeeLatest`), and a crash, which leaves the rows, shows the same for what was answered (`AnswersAreKept`).
* `Mirrored`: the remote store is the log up to the remote watermark, except for what
  may run ahead: the next record, done, untouched or half done, and creations of
  immutable objects that no earlier pending record touches.  The half-done rename must
  be part of it: the store has no atomic rename, and a crash between its two requests
  leaves it so.  `RemoteIsPrefix` follows.
* `Uploading`: what the lanes have in hand may run ahead, and what they report as done
  is settled in the remote store; `Versioned`: the version kept of a fenced object is
  that of the last record up to the watermark.  An upload that finds something in its
  way finds its own work, or the version it expects (`NeverDiverges`).

`ReadsAreCurrent` is about the tier with its reader.  A step of the reader is a stutter
of the tier (`ReadersLeaveNoTrace`), so `WbInv` and `SeenInv` hold while it reads.
`ReadInv` says what a read under way may still find: of a read that went to the remote
store, that what the store holds now and the effect of every entry still pending are
among what the object held since the look-up (`FromRemote`); of one that has a journal
entry, that the entry is in the overlay, and then readable, or is remote already
(`FromJournal`).  `Goes` is what a step of the tier may do to the log, the overlay and
the store; each action has its lemma.

Only model-checked:

* liveness, everything under fairness, and `NobodyStuck`, which uses `ENABLED`:
  these are out of the prover's reach;
* `ReadsRegular` of Mutation, which holds only of files that have their full size
  from the start (run `mutation_read` shows why).

## Plan

1. Done: ownership, authority, replication; the theorems above; data plane,
   collector, write-back tier and mutation pipeline with two abstract
   specifications.
2. Done: `PrunedIsDurable` and `NoRegression` of Replication; `DurableResolves`,
   `LiveExact`, `FlushCovers` of Segments and its refinement of `DurableStore`;
   `FlushApplies` of Mutation and its refinement of `VolatileFile`; every safety
   invariant of Writeback; `OnlyStrandedLost` of Replication;
   `ReadsSucceed` and `LiveExact` of Reclaim and its refinement of `DurableStore`.
3. Model: the dedup results on top of Replication (exactly-once across a
   failover), directories, rename and remove with their locks, quota.

## Not modelled

* In modelled components: byte budgets, space reservations and multipart uploads
  of the write-back tier, a remote request that takes effect after its timeout
  (`remote.rs:1616-1645`), renames that must not overwrite (`store.rs:864`: only the
  overwriting mode is modelled), and that the create of a trusted segment looks at
  the local overlay alone (`store.rs:672-679`): the model's `Create` looks at the
  remote store as well, which comes to the same for names that are never reused; the
  rotation of `seal_open` that returns an error (`write.rs:1149-1152`, `:1215-1218`)
  and a `db.flush` that fails after the seal (`flush_coordinator.rs:125`); the
  request cache and the drain deadline of the mutation pipeline, a staging failure between two members of a striped write, an `accepted_tx.send` that fails
  (`mutation/overlay.rs:620-637`), a lane that sets the result between the two halves
  of `cancel_unpublished` (`overlay_dispatch.rs:102-113`, one step in `Cancel`), and
  the await between the visible size and the first snapshot of a read
  (`mutation/overlay.rs:1387`, one step in `ReadOverlay`); the wall clock of the lease;
  exhaustion of the u64 sequences, which needs more steps than a process takes.
* Deduplication, directories, rename, links, locks of several inodes, quota and
  statistics: planned.
* Read caches and prefetch: they change performance and repeat what Segments
  says of a location.  Object store adapters, encryption and codecs: I/O and data
  transformation.  Protocol servers: parsing and dispatch; they hold most of the
  source, and their state is per connection.  Clients, kernel module, CSI driver
  and command line: separate programs.  The map's share of the whole repository
  is small for this reason.
