------------------------------ MODULE Segments ------------------------------
(***************************************************************************)
(* The data plane of one ZeroFS server: file extents become frames of      *)
(* segment objects (fs/store/extent/write.rs, segment_store.rs), their      *)
(* pointers become rows of the database (fs/write_coordinator.rs), and a    *)
(* flush makes both durable in the right order (fs/flush_coordinator.rs).   *)
(*                                                                         *)
(* A writer reserves a frame in an open segment, encrypts into it, and      *)
(* submits a transaction with the frame's location.  An open segment that   *)
(* reaches its threshold is rotated and uploaded in the background; until   *)
(* then, and until its upload succeeds, its only copy is in RAM.  The       *)
(* commit worker applies transactions to the database's memory; a flush     *)
(* first uploads every segment and only then makes that memory durable.     *)
(* A crash keeps the durable rows and the uploaded objects.                 *)
(*                                                                         *)
(* Abstractions.  A slot is a file with one extent, so its inode lock and   *)
(* its extent range coincide.  A frame's bytes are the set of writes they   *)
(* come from (see DurableStore) and every frame has length one.  The caches *)
(* of locations, tails and decoded frames hold what the database and the    *)
(* segments hold, and are left out.  Affinity of files to lanes is a        *)
(* preference only: any lane whose gate is free may take a frame.  Closing  *)
(* the coordinator and the write-back tier below the store are left out.    *)
(***************************************************************************)
EXTENDS Naturals, Sequences, FiniteSets, SequencesExt, Functions

CONSTANTS
    Slot,             \* the files
    Writer,           \* the tasks that write them
    Request,          \* the callers that ask for flushes
    Free,             \* nobody, for locks; also "no segment" and "no location"
    LaneCount,        \* open segments (OPEN_SEGMENT_LANES)
    SealMinimum,      \* the number of frames from which a segment may be full,
    SealThreshold,    \* and from which it is: compressed frames vary in size
    MaxInflightSeals, \* rotated segments that may wait in RAM
    MaxWrites,        \* bound on the number of writes
    MaxFails,         \* bound on the number of failing operations
    MaxEpoch          \* bound on the number of crashes

ASSUME SegmentsBounds ==
    /\ {LaneCount, SealMinimum, SealThreshold, MaxInflightSeals} \subseteq Nat \ {0}
    /\ {MaxWrites, MaxFails, MaxEpoch} \subseteq Nat
    /\ Free \notin Slot \cup Writer \cup Request

(* A segment's id, a frame's place in it, and a frame.                      *)
Segid == [epoch : 0..MaxEpoch, counter : Nat]
Location == [segid : Segid, frame : Nat \ {0}]
Frame == [slot : Slot, data : SUBSET (0..MaxWrites)]

(* There are finitely many files; nobody is not a segment or a location,    *)
(* and the server's own tasks are none of the writers.                      *)
ASSUME SegmentsNames ==
    /\ IsFiniteSet(Slot)
    /\ Free \notin Segid \cup Location \cup {"seal", "flush", "gc"}
    /\ {"seal", "flush", "gc"} \cap Writer = {}

VARIABLES
    lane,      \* lane[l]: the open segment [segid, dir] of lane l
    gate,      \* gate[l]: who holds lane l's append gate
    sealing,   \* rotated segments still in RAM: segid -> dir
    uploads,   \* rotated segments with a background upload task
    store,     \* uploaded segment objects: segid -> dir
    nextSegid, \* the next segment id [epoch, counter]
    mem,       \* the database as readers see it: [ptr, count]
    durable,   \* the database as a restart finds it
    queue,     \* transactions submitted to the commit worker
    lock,      \* lock[s]: who holds the inode lock of s
    writer,    \* writer[w]: what task w is doing
    refs,      \* whether the extent reference barrier is held exclusively
    barrier,   \* who holds the flush barrier exclusively
    seal,      \* the barrier holder's progress through seal_open
    flusher,   \* the flush worker: the requests it is serving
    request,   \* request[r]: [pc, covers]
    written,   \* the writes that were applied
    clock      \* counters: writes, applies, durable applies, answered, failures

dataVars == <<lane, gate, sealing, uploads, store, nextSegid>>
dbVars == <<mem, durable, queue, written>>
flushVars == <<barrier, seal, flusher, request>>
segVars == <<lane, gate, sealing, uploads, store, nextSegid, mem, durable, queue, written,
             lock, writer, refs, barrier, seal, flusher, request, clock>>

-----------------------------------------------------------------------------
(* Segments and locations *)

Lane == 1..LaneCount

(* A reservation nobody filled reads as garbage: AEAD rejects it.           *)
Unreadable == {0}

(* Where the bytes of a segment are read from: an open buffer, a rotated    *)
(* one, or the object.                                                      *)
InRam(segid) == segid \in DOMAIN sealing \/ \E l \in Lane : lane[l].segid = segid

Directory(segid) ==
    IF \E l \in Lane : lane[l].segid = segid
    THEN lane[CHOOSE l \in Lane : lane[l].segid = segid].dir
    ELSE IF segid \in DOMAIN sealing THEN sealing[segid]
    ELSE IF segid \in DOMAIN store THEN store[segid] ELSE <<>>

(* One frame of a directory, as read for slot s: its slot and index are     *)
(* bound to its bytes.                                                      *)
FrameIn(dir, loc, s) ==
    IF loc.frame \in DOMAIN dir /\ dir[loc.frame].slot = s
    THEN dir[loc.frame].data ELSE Unreadable

ReadFrame(loc, s) == FrameIn(Directory(loc.segid), loc, s)

Hole(loc) == loc = Free

(* What a reader, and what a restarted server, would read from slot s.      *)
Contents == [s \in Slot |->
    IF Hole(mem.ptr[s]) THEN {} ELSE ReadFrame(mem.ptr[s], s)]
StoredContents(ptr) == [s \in Slot |->
    IF Hole(ptr[s]) THEN {}
    ELSE IF ptr[s].segid \in DOMAIN store THEN FrameIn(store[ptr[s].segid], ptr[s], s)
    ELSE Unreadable]

SegidOf(loc) == IF Hole(loc) THEN Free ELSE loc.segid
NextSegid == [nextSegid EXCEPT !.counter = @ + 1]

Failing == clock.fails < MaxFails
-----------------------------------------------------------------------------
Fresh(epoch) == [l \in Lane |-> [segid |-> [epoch |-> epoch, counter |-> l - 1], dir |-> <<>>]]
Idle == [pc |-> "idle", id |-> 0, slot |-> Free, data |-> {}, lane |-> 1, loc |-> Free,
         old |-> Free, rotate |-> FALSE]
NoSeal == [pc |-> "none", lane |-> 1, ups |-> {}, failed |-> FALSE]

Init ==
    /\ lane = Fresh(0)
    /\ gate = [l \in Lane |-> Free]
    /\ sealing = <<>>
    /\ uploads = {}
    /\ store = <<>>
    /\ nextSegid = [epoch |-> 0, counter |-> LaneCount]
    /\ mem = [ptr |-> [s \in Slot |-> Free], count |-> <<>>]
    /\ durable = mem
    /\ queue = <<>>
    /\ written = {}
    /\ lock = [s \in Slot |-> Free]
    /\ writer = [w \in Writer |-> Idle]
    /\ refs = FALSE
    /\ barrier = Free
    /\ seal = NoSeal
    /\ flusher = [pc |-> "idle", batch |-> {}]
    /\ request = [r \in Request |-> [pc |-> "idle", covers |-> 0]]
    /\ clock = [writes |-> 0, applied |-> 0, durable |-> 0, synced |-> 0, fails |-> 0]

-----------------------------------------------------------------------------
(* Writing *)

(* Mutant: an inode lock alone is enough to read the superseded location.   *)
MutSettledAlways(s) == TRUE

(* No transaction queued for the slot has yet to apply.                     *)
Settled(s) == \A i \in DOMAIN queue : queue[i].slot # s

(* A transaction: who waits for it, what it writes, what it supersedes, and *)
(* whether it carries a reference guard.                                    *)
Txn(owner, id, s, loc, old, guard) ==
    [owner |-> owner, id |-> id, slot |-> s, loc |-> loc, debit |-> SegidOf(old), guard |-> guard, drop |-> {}]

(* prepare_write and stage_edits up to the reservation: under the inode     *)
(* lock, and with no queued write on the slot, read the bytes a partial     *)
(* write keeps and the location it supersedes, take the reference guard,    *)
(* and claim the next frame of a lane.  The claim that reaches the          *)
(* threshold keeps the gate until the lane is rotated.  The gate is a       *)
(* first-come mutex: a seal waiting for it goes first.                      *)
Claim(w, s, partial, l) ==
    /\ writer[w].pc = "idle" /\ clock.writes < MaxWrites
    /\ lock[s] = Free /\ Settled(s)
    /\ ~refs
    /\ gate[l] = Free /\ ~(seal.pc = "gate" /\ seal.lane = l)
    /\ LET n == clock.writes + 1
           frame == Len(lane[l].dir) + 1
       IN \E rotate \in BOOLEAN :
          /\ rotate => frame >= SealMinimum
          /\ frame >= SealThreshold => rotate
          /\ lane' = [lane EXCEPT ![l].dir = Append(@, [slot |-> s, data |-> Unreadable])]
          /\ writer' = [writer EXCEPT ![w] =
                [pc |-> "claimed", id |-> n, slot |-> s, lane |-> l,
                 data |-> {n} \cup (IF partial THEN Contents[s] ELSE {}),
                 loc |-> [segid |-> lane[l].segid, frame |-> frame],
                 old |-> mem.ptr[s], rotate |-> rotate]]
          /\ gate' = [gate EXCEPT ![l] = IF rotate THEN w ELSE Free]
          /\ clock' = [clock EXCEPT !.writes = n]
    /\ lock' = [lock EXCEPT ![s] = w]
    /\ UNCHANGED <<sealing, uploads, store, nextSegid, dbVars, refs, flushVars>>

(* Reservation::fill: the encrypted bytes go where they were claimed.       *)
Fill(w) ==
    /\ writer[w].pc = "claimed"
    /\ lane' = [lane EXCEPT ![writer[w].lane].dir[writer[w].loc.frame].data = writer[w].data]
    /\ writer' = [writer EXCEPT ![w].pc = "filled"]
    /\ UNCHANGED <<gate, sealing, uploads, store, nextSegid, dbVars, lock, refs, flushVars, clock>>

(* Encryption fails: the claim stays, unfilled and unreferenced, the gate   *)
(* is let go without a rotation, and the write returns an error.            *)
FailFill(w) ==
    /\ writer[w].pc = "claimed" /\ Failing
    /\ gate' = [l \in Lane |-> IF gate[l] = w THEN Free ELSE gate[l]]
    /\ lock' = [lock EXCEPT ![writer[w].slot] = Free]
    /\ writer' = [writer EXCEPT ![w] = Idle]
    /\ clock' = [clock EXCEPT !.fails = @ + 1]
    /\ UNCHANGED <<lane, sealing, uploads, store, nextSegid, dbVars, refs, flushVars>>

(* Mutant: a lane is rotated while reservations are still being filled.     *)
MutFrozenAlways(l) == TRUE

(* LaneFreeze: no reservation on the lane is still to be filled.            *)
Frozen(l) == \A w \in Writer : ~(writer[w].pc = "claimed" /\ writer[w].lane = l)

(* A permit of seal_residency_sem is free: a rotated segment holds one      *)
(* until it leaves `sealing'.                                               *)
Residency == Cardinality(DOMAIN sealing) < MaxInflightSeals

(* rotate_sealing_generation: the lane's frames become an immutable segment *)
(* in `sealing', the lane goes on with the next segment id.                 *)
RotateLane(l) ==
    /\ sealing' = [g \in DOMAIN sealing \cup {lane[l].segid} |->
                      IF g = lane[l].segid THEN lane[l].dir ELSE sealing[g]]
    /\ lane' = [lane EXCEPT ![l] = [segid |-> nextSegid, dir |-> <<>>]]
    /\ nextSegid' = NextSegid

(* spawn_seal, by the writer that crossed the threshold: wait for a         *)
(* residency permit and for the lane's reservations, rotate, and leave the  *)
(* upload to a task.                                                        *)
SpawnSeal(w) ==
    /\ writer[w].pc = "filled" /\ writer[w].rotate
    /\ LET l == writer[w].lane
       IN /\ Residency
          /\ Frozen(l)
          /\ RotateLane(l)
          /\ uploads' = uploads \cup {lane[l].segid}
          /\ gate' = [gate EXCEPT ![l] = Free]
    /\ writer' = [writer EXCEPT ![w].rotate = FALSE]
    /\ UNCHANGED <<store, dbVars, lock, refs, flushVars, clock>>

(* apply_prepared_batch: register the queued range, submit, release the     *)
(* inode lock, and wait for the commit worker.                              *)
Submit(w) ==
    /\ writer[w].pc = "filled" /\ ~writer[w].rotate
    /\ queue' = Append(queue, Txn(w, writer[w].id, writer[w].slot, writer[w].loc, writer[w].old, TRUE))
    /\ lock' = [lock EXCEPT ![writer[w].slot] = Free]
    /\ writer' = [writer EXCEPT ![w] = [Idle EXCEPT !.pc = "queued"]]
    /\ UNCHANGED <<dataVars, mem, durable, written, refs, flushVars, clock>>

(* A write of zeroes, a hole punch, a truncation or the removal of a        *)
(* deleted file's extents: the pointer goes, and its frame is debited.      *)
Punch(w, s) ==
    /\ writer[w].pc = "idle" /\ clock.writes < MaxWrites
    /\ lock[s] = Free /\ Settled(s)
    /\ ~Hole(mem.ptr[s])
    /\ queue' = Append(queue, Txn(w, clock.writes + 1, s, Free, mem.ptr[s], FALSE))
    /\ writer' = [writer EXCEPT ![w] = [Idle EXCEPT !.pc = "queued"]]
    /\ clock' = [clock EXCEPT !.writes = @ + 1]
    /\ UNCHANGED <<dataVars, mem, durable, written, lock, refs, flushVars>>

-----------------------------------------------------------------------------
(* The commit worker *)

(* stage_seg_deltas: the segment counters after a transaction.  `total'     *)
(* only grows, `live' never goes below zero.                                *)
Counter(count, g) == IF g \in DOMAIN count THEN count[g] ELSE [live |-> 0, total |-> 0]

(* Mutant: the superseded location is debited even if there was none.       *)
MutSegDeltasHole(count, t) ==
    LET credit == SegidOf(t.loc)
    IN [g \in (DOMAIN count \cup {credit, t.debit}) \ t.drop |->
          [live |-> Counter(count, g).live + (IF g = credit THEN 1 ELSE 0),
           total |-> Counter(count, g).total + (IF g = credit THEN 1 ELSE 0)]]

SegDeltas(count, t) ==
    LET credit == SegidOf(t.loc)
        touched == {credit, t.debit} \ {Free}
        Live(g) == LET up == Counter(count, g).live + (IF g = credit THEN 1 ELSE 0)
                   IN IF g = t.debit /\ up > 0 THEN up - 1 ELSE up
    IN [g \in (DOMAIN count \cup touched) \ t.drop |->
          IF g \in touched
          THEN [live |-> Live(g),
                total |-> Counter(count, g).total + (IF g = credit THEN 1 ELSE 0)]
          ELSE count[g]]

(* The submitter gets its answer; compaction kept the inode lock until now.  *)
Reply(t) ==
    /\ writer' = [w \in Writer |-> IF w = t.owner THEN Idle ELSE writer[w]]
    /\ lock' = [s \in Slot |-> IF lock[s] = t.owner THEN Free ELSE lock[s]]

(* The worker applies the oldest transaction, outside any seal and flush,   *)
(* and acknowledges it.                                                     *)
Apply ==
    /\ queue # <<>> /\ barrier = Free
    /\ LET t == Head(queue)
       IN /\ mem' = [ptr |-> IF t.slot = Free THEN mem.ptr ELSE [mem.ptr EXCEPT ![t.slot] = t.loc],
                     count |-> SegDeltas(mem.count, t)]
          /\ Reply(t)
    /\ queue' = Tail(queue)
    /\ written' = written \cup ({Head(queue).id} \ {0})
    /\ clock' = [clock EXCEPT !.applied = @ + 1]
    /\ UNCHANGED <<dataVars, durable, refs, flushVars>>

(* Mutant: the submitters of a failed batch are never answered.             *)
MutAbortBatchSilent ==
    /\ queue # <<>> /\ Failing
    /\ queue' = Tail(queue)
    /\ clock' = [clock EXCEPT !.fails = @ + 1]
    /\ UNCHANGED <<dataVars, mem, durable, written, lock, writer, refs, flushVars>>

(* A segment counter cannot be read: the batch fails before it applies.     *)
AbortBatch ==
    /\ queue # <<>> /\ Failing
    /\ Reply(Head(queue))
    /\ queue' = Tail(queue)
    /\ clock' = [clock EXCEPT !.fails = @ + 1]
    /\ UNCHANGED <<dataVars, mem, durable, written, refs, flushVars>>

-----------------------------------------------------------------------------
(* Uploads *)

(* put_segment: a create that is retried until its bytes are known to be    *)
(* there.  It may fail before the object lands, or land and fail all the    *)
(* same when neither the answer nor the readback arrives.                   *)
Put(ok, lost) == store' = [g \in DOMAIN store \cup ok \cup lost |->
                              IF g \in DOMAIN store THEN store[g] ELSE sealing[g]]

Keep(f, S) == [g \in S |-> f[g]]

(* The background task of a rotated segment; a flush may have uploaded it   *)
(* already, and keeps every upload permit while it seals.                   *)
BackgroundPut(g) ==
    /\ g \in uploads /\ seal.pc = "none"
    /\ uploads' = uploads \ {g}
    /\ \/ /\ g \in DOMAIN sealing => Put({g}, {})
          /\ g \notin DOMAIN sealing => UNCHANGED store
          /\ sealing' = Keep(sealing, DOMAIN sealing \ {g})
          /\ UNCHANGED clock
       \/ /\ Failing /\ g \in DOMAIN sealing
          /\ \E lost \in SUBSET {g} : Put({}, lost)
          /\ clock' = [clock EXCEPT !.fails = @ + 1]
          /\ UNCHANGED sealing
    /\ UNCHANGED <<lane, gate, nextSegid, dbVars, lock, writer, refs, flushVars>>

-----------------------------------------------------------------------------
(* seal_open, by whoever holds the flush barrier *)

SealRest == <<dbVars, lock, writer, refs, barrier, flusher, request, uploads>>

(* Mutant: what waits in RAM is uploaded only when every gate is held.      *)
MutPublishPendingLast ==
    /\ seal.pc = "publish"
    /\ IF seal.lane \in Lane
       THEN seal' = [seal EXCEPT !.pc = "gate"] /\ UNCHANGED <<sealing, store>>
       ELSE /\ Put(DOMAIN sealing, {}) /\ sealing' = <<>>
            /\ seal' = [seal EXCEPT !.pc = "rotate"]
    /\ UNCHANGED <<gate, clock, lane, nextSegid, SealRest>>

(* publish_pending_seals, before each gate and once more when all are held: *)
(* upload what is waiting in RAM, and give up if anything fails.            *)
PublishPending ==
    /\ seal.pc = "publish"
    /\ \E failed \in SUBSET DOMAIN sealing, lost \in SUBSET DOMAIN sealing :
          /\ failed # {} => Failing
          /\ lost \subseteq failed
          /\ Put(DOMAIN sealing \ failed, lost)
          /\ sealing' = Keep(sealing, failed)
          /\ clock' = [clock EXCEPT !.fails = @ + (IF failed = {} THEN 0 ELSE 1)]
          /\ seal' = [seal EXCEPT !.pc =
                        IF failed # {} THEN "failed"
                        ELSE IF seal.lane \in Lane THEN "gate" ELSE "rotate"]
          /\ gate' = IF failed = {} THEN gate
                     ELSE [l \in Lane |-> IF gate[l] = "seal" THEN Free ELSE gate[l]]
    /\ UNCHANGED <<lane, nextSegid, SealRest>>

(* LaneAppendGuard::lock on the next lane.                                  *)
TakeGate ==
    /\ seal.pc = "gate" /\ gate[seal.lane] = Free
    /\ gate' = [gate EXCEPT ![seal.lane] = "seal"]
    /\ seal' = [seal EXCEPT !.pc = "publish", !.lane = @ + 1]
    /\ UNCHANGED <<lane, nextSegid, sealing, store, clock, SealRest>>

DirtyLanes == {l \in Lane : lane[l].dir # <<>>}
NextDirty == CHOOSE l \in DirtyLanes : \A k \in DirtyLanes : l <= k

(* With every gate held, rotate the dirty lanes in order, as far as the     *)
(* residency permits go.                                                    *)
SealRotate ==
    /\ seal.pc = "rotate" /\ DirtyLanes # {}
    /\ Residency /\ Frozen(NextDirty)
    /\ RotateLane(NextDirty)
    /\ seal' = [seal EXCEPT !.ups = @ \cup {lane[NextDirty].segid}]
    /\ UNCHANGED <<gate, store, clock, SealRest>>

(* Every lane is rotated: let the writers go on in fresh segments.          *)
ReleaseGates ==
    /\ seal.pc = "rotate" /\ DirtyLanes = {}
    /\ gate' = [l \in Lane |-> Free]
    /\ seal' = [seal EXCEPT !.pc = "upload"]
    /\ UNCHANGED <<lane, nextSegid, sealing, store, clock, SealRest>>

(* One of this seal's own uploads ends; a failed one stays in RAM.          *)
SealPut(g) ==
    /\ seal.pc \in {"rotate", "upload"} /\ g \in seal.ups
    /\ \/ /\ Put({g}, {})
          /\ sealing' = Keep(sealing, DOMAIN sealing \ {g})
          /\ seal' = [seal EXCEPT !.ups = @ \ {g}]
          /\ UNCHANGED clock
       \/ /\ Failing
          /\ \E lost \in SUBSET {g} : Put({}, lost)
          /\ seal' = [seal EXCEPT !.ups = @ \ {g}, !.failed = TRUE]
          /\ clock' = [clock EXCEPT !.fails = @ + 1]
          /\ UNCHANGED sealing
    /\ UNCHANGED <<lane, gate, nextSegid, SealRest>>

(* Mutant: a failed upload does not fail the seal.                          *)
MutSealEndOk ==
    /\ seal.ups = {}
    /\ \/ seal.pc = "upload"
       \/ seal.pc = "rotate" /\ DirtyLanes # {} /\ ~Residency
    /\ gate' = [l \in Lane |-> IF gate[l] = "seal" THEN Free ELSE gate[l]]
    /\ seal' = [seal EXCEPT !.pc = "ok"]
    /\ UNCHANGED <<lane, nextSegid, sealing, store, clock, SealRest>>

(* Nothing is left to upload: the seal succeeded, unless an upload failed   *)
(* or failed uploads used up the residency and lanes were left.             *)
SealEnd ==
    /\ seal.ups = {}
    /\ \/ seal.pc = "upload"
       \/ seal.pc = "rotate" /\ DirtyLanes # {} /\ ~Residency
    /\ gate' = [l \in Lane |-> IF gate[l] = "seal" THEN Free ELSE gate[l]]
    /\ seal' = [seal EXCEPT !.pc =
                  IF seal.failed \/ seal.pc = "rotate" THEN "failed" ELSE "ok"]
    /\ UNCHANGED <<lane, nextSegid, sealing, store, clock, SealRest>>

SealOpen ==
    \/ PublishPending \/ TakeGate \/ SealRotate \/ ReleaseGates \/ SealEnd
    \/ \E g \in seal.ups : SealPut(g)

-----------------------------------------------------------------------------
(* The flush coordinator *)

FlushRest == <<dataVars, mem, queue, written, lock, writer, refs>>

(* A caller asks for a flush; everything applied by now was acknowledged.   *)
RequestFlush(r) ==
    /\ request[r].pc = "idle"
    /\ request' = [request EXCEPT ![r] = [pc |-> "pending", covers |-> clock.applied]]
    /\ UNCHANGED <<FlushRest, durable, barrier, seal, flusher, clock>>

(* The worker takes every request that has arrived ...                      *)
DrainRequests ==
    /\ flusher.pc = "idle"
    /\ \E r \in Request : request[r].pc = "pending"
    /\ flusher' = [pc |-> "barrier", batch |-> {r \in Request : request[r].pc = "pending"}]
    /\ UNCHANGED <<FlushRest, durable, barrier, seal, request, clock>>

(* ... and waits for the barrier, then seals.                               *)
FlushBegin ==
    /\ flusher.pc = "barrier" /\ barrier = Free
    /\ barrier' = "flush"
    /\ seal' = [NoSeal EXCEPT !.pc = "publish"]
    /\ flusher' = [flusher EXCEPT !.pc = "seal"]
    /\ UNCHANGED <<FlushRest, durable, request, clock>>

Answer(batch) == [r \in Request |->
    IF r \in batch THEN [pc |-> "idle", covers |-> 0] ELSE request[r]]

(* The seal succeeded: the database is flushed, the barrier released and    *)
(* the requests taken at the start are answered.                            *)
FlushManifest ==
    /\ flusher.pc = "seal" /\ seal.pc = "ok"
    /\ durable' = mem
    /\ clock' = [clock EXCEPT !.durable = clock.applied,
                              !.synced = Max({@} \cup {request[r].covers : r \in flusher.batch})]
    /\ request' = Answer(flusher.batch)
    /\ flusher' = [pc |-> "idle", batch |-> {}]
    /\ barrier' = Free /\ seal' = NoSeal
    /\ UNCHANGED FlushRest

(* Mutant: the error of a failed seal is swallowed.                         *)
MutFlushFailedOk ==
    /\ flusher.pc = "seal" /\ seal.pc = "failed"
    /\ clock' = [clock EXCEPT !.synced = Max({@} \cup {request[r].covers : r \in flusher.batch})]
    /\ request' = Answer(flusher.batch)
    /\ flusher' = [pc |-> "idle", batch |-> {}]
    /\ barrier' = Free /\ seal' = NoSeal
    /\ UNCHANGED <<FlushRest, durable>>

(* The seal failed: nothing is flushed and the requests fail.               *)
FlushFailed ==
    /\ flusher.pc = "seal" /\ seal.pc = "failed"
    /\ request' = Answer(flusher.batch)
    /\ flusher' = [pc |-> "idle", batch |-> {}]
    /\ barrier' = Free /\ seal' = NoSeal
    /\ UNCHANGED <<FlushRest, durable, clock>>

-----------------------------------------------------------------------------
(* The process dies and a new one opens the database with the next epoch.   *)
(* An upload that was under way may still land.                             *)
Crash ==
    /\ nextSegid.epoch < MaxEpoch
    /\ \E lost \in SUBSET DOMAIN sealing : Put({}, lost)
    /\ mem' = durable
    /\ lane' = Fresh(nextSegid.epoch + 1)
    /\ nextSegid' = [epoch |-> nextSegid.epoch + 1, counter |-> LaneCount]
    /\ gate' = [l \in Lane |-> Free]
    /\ sealing' = <<>> /\ uploads' = {} /\ queue' = <<>>
    /\ lock' = [s \in Slot |-> Free]
    /\ writer' = [w \in Writer |-> Idle]
    /\ refs' = FALSE
    /\ barrier' = Free /\ seal' = NoSeal
    /\ flusher' = [pc |-> "idle", batch |-> {}]
    /\ request' = Answer(Request)
    /\ clock' = [clock EXCEPT !.applied = clock.durable]
    /\ UNCHANGED <<durable, written>>

WriterStep(w) ==
    \/ \E s \in Slot, partial \in BOOLEAN, l \in Lane : Claim(w, s, partial, l)
    \/ Fill(w) \/ FailFill(w) \/ SpawnSeal(w) \/ Submit(w)
    \/ \E s \in Slot : Punch(w, s)

Commit == Apply \/ AbortBatch

FlushWorker == DrainRequests \/ FlushBegin \/ FlushManifest \/ FlushFailed

DataPlane ==
    \/ \E w \in Writer : WriterStep(w)
    \/ Commit
    \/ \E g \in uploads : BackgroundPut(g)
    \/ SealOpen
    \/ \E r \in Request : RequestFlush(r)
    \/ FlushWorker

Next == DataPlane \/ Crash

Spec == Init /\ [][Next]_segVars

-----------------------------------------------------------------------------
(* Properties *)

(* Type correctness of the data plane's state, the two database images      *)
(* apart from their counters' domains included.                             *)
TypeOK ==
    /\ \A l \in Lane : lane[l].segid \in Segid /\ lane[l].dir \in Seq(Frame)
    /\ gate \in [Lane -> Writer \cup {Free, "seal"}]
    /\ \A g \in DOMAIN sealing : g \in Segid /\ sealing[g] \in Seq(Frame)
    /\ \A g \in DOMAIN store : g \in Segid /\ store[g] \in Seq(Frame)
    /\ uploads \subseteq Segid /\ nextSegid \in Segid
    /\ \A d \in {mem, durable} :
          /\ d.ptr \in [Slot -> Location \cup {Free}]
          /\ DOMAIN d.count \subseteq Segid
          /\ \A g \in DOMAIN d.count : d.count[g] \in [live : Nat, total : Nat]
    /\ lock \in [Slot -> Writer \cup {Free, "gc"}]
    /\ \A w \in Writer : writer[w].pc \in {"idle", "claimed", "filled", "queued"}
    /\ refs \in BOOLEAN
    /\ written \subseteq 1..MaxWrites
    /\ barrier \in {Free, "flush", "gc"}
    /\ seal.pc \in {"none", "publish", "gate", "rotate", "upload", "ok", "failed"}
    /\ flusher.pc \in {"idle", "barrier", "seal"} /\ flusher.batch \subseteq Request
    /\ request \in [Request -> [pc : {"idle", "pending"}, covers : Nat]]
    /\ clock \in [{"writes", "applied", "durable", "synced", "fails"} -> Nat]

(* "A durable manifest never points to an unuploaded segment": every        *)
(* pointer a restart would find names an uploaded object and a frame of it  *)
(* that holds the slot's bytes.                                             *)
DurableResolves ==
    \A s \in Slot : StoredContents(durable.ptr)[s] # Unreadable

(* A segment's live counter is exactly the number of pointers to it, in     *)
(* memory and on disk: an undercount would let the collector delete         *)
(* referenced bytes, an overcount would leak them.                          *)
Pointers(d, g) == Cardinality({s \in Slot : SegidOf(d.ptr[s]) = g})
LiveExact ==
    \A d \in {mem, durable} :
       /\ \A g \in DOMAIN d.count : d.count[g].live = Pointers(d, g)
       /\ \A s \in Slot : Hole(d.ptr[s]) \/ SegidOf(d.ptr[s]) \in DOMAIN d.count

(* A flush answered with success covers every write acknowledged before it  *)
(* was asked for, whatever requests it was coalesced with.                  *)
FlushCovers == clock.durable >= clock.synced

(* The data plane implements DurableStore: a reader sees the writes in the  *)
(* order they were acknowledged, each takes effect once, none of a partial  *)
(* write's surroundings is lost, and a crash falls back to the last flush.                          *)
Promise == INSTANCE DurableStore WITH
    Datum <- 1..MaxWrites, epoch <- nextSegid.epoch, Name <- {}, mem <- Contents,
    durable <- StoredContents(durable.ptr), pinned <- <<>>
ImplementsDurableStore == Promise!Spec

-----------------------------------------------------------------------------
(* Liveness.  Every task that can take a step takes it; a task waiting for  *)
(* an append gate or the flush barrier gets it in turn (tokio's locks are   *)
(* first come, first served); some task flushes periodically; failures are  *)
(* bounded.                                                                 *)
Fairness ==
    /\ \A w \in Writer : WF_segVars(Fill(w)) /\ WF_segVars(SpawnSeal(w)) /\ WF_segVars(Submit(w))
    /\ SF_segVars(Apply)
    /\ WF_segVars(\E g \in uploads : BackgroundPut(g))
    /\ WF_segVars(PublishPending \/ SealRotate \/ ReleaseGates \/ SealEnd)
    /\ WF_segVars(\E g \in seal.ups : SealPut(g))
    /\ SF_segVars(TakeGate)
    /\ \A r \in Request : WF_segVars(RequestFlush(r))
    /\ WF_segVars(DrainRequests \/ FlushManifest \/ FlushFailed) /\ SF_segVars(FlushBegin)

FairSpec == Spec /\ Fairness

(* A flush request is always answered, with success or with an error, even  *)
(* when a failed upload holds the residency a writer waits for inside the   *)
(* gate the flush needs.                                                    *)
FlushAnswered == \A r \in Request : request[r].pc = "pending" ~> request[r].pc = "idle"

(* Every write is acknowledged or fails: one that waits for residency gets  *)
(* it back from the next flush.                                             *)
WriteReturns == \A w \in Writer : writer[w].pc # "idle" ~> writer[w].pc = "idle"
=============================================================================
