------------------------------ MODULE Reclaim ------------------------------
(***************************************************************************)
(* Garbage collection beside the data plane of Segments: the reclaim pass   *)
(* and the orphan sweep (fs/gc.rs, fs/store/extent/reclaim.rs), compaction  *)
(* (fs/store/extent/compact.rs), the checkpoints that gate them             *)
(* (checkpoint_manager.rs) and a reader whose location may go stale         *)
(* (fs/store/extent/read.rs).                                               *)
(*                                                                         *)
(* A pass drains the publishers of locations, seals and flushes, lists the  *)
(* checkpoints, scans the durable counters, and deletes the segments that   *)
(* are dead and past their horizon after checking their directory; then it  *)
(* packs the live frames of sparse segments into a new one and swaps the    *)
(* pointers that still name the old frame.                                  *)
(*                                                                         *)
(* Abstractions.  Which segments are worth compacting (fragmentation, heat, *)
(* chains, budgets) is a free choice: the pass may select any eligible live *)
(* segments.  The age gate of the sweep is a free choice of objects.  Times *)
(* are kept as what is left of them and all clocks agree, so the margin for *)
(* clock skew is zero.  A checkpoint keeps the rows of the durable          *)
(* manifest; SlateDB's own files are not modelled.                          *)
(***************************************************************************)
EXTENDS Segments

CONSTANTS
    Name,        \* the checkpoints: of the checkpoint manager, kept until deleted,
                 \* or of a read replica, with a lifetime
    Reader,      \* tasks that read
    Lifetime,    \* of a replica's checkpoint
    Floor,       \* how long a pass protects reads in flight (INFLIGHT_FLOOR_SECS)
    PromptScan,  \* whether a pass scans at once after it listed the checkpoints
    MaxDeletes,  \* deletions per pass (MAX_SEGMENT_DELETES_PER_PASS)
    MaxPacks     \* bound on the number of compactions

ASSUME ReclaimBounds ==
    /\ {Lifetime, Floor, MaxDeletes} \subseteq Nat \ {0}
    /\ MaxPacks \in Nat /\ PromptScan \in BOOLEAN

VARIABLES
    gc,        \* the collector's pass
    deleteAt,  \* dead segments the collector waits for: segid -> time left
    kept,      \* checkpoints: name -> [ptr, lasting, left, raced]
    reader,    \* reader[r]: the read in flight of r
    packs      \* compactions so far

gcVars == <<gc, deleteAt, kept, reader, packs>>
vars == <<segVars, gcVars>>

Asleep == [pc |-> "idle", sweep |-> FALSE, cutoff |-> 0, open |-> {}, horizon |-> 0,
           pinned |-> FALSE, cand |-> {}, todo |-> {}, target |-> Free, freed |-> {},
           frames |-> {}, pack |-> Free, swapped |-> 0]
NotReading == [pc |-> "idle", slot |-> Free, loc |-> Free, left |-> 0]

GcInit ==
    /\ Init
    /\ gc = Asleep
    /\ deleteAt = <<>>
    /\ kept = <<>>
    /\ reader = [r \in Reader |-> NotReading]
    /\ packs = 0

-----------------------------------------------------------------------------
(* The durable barrier of a pass: reclaim_segments_gated, sweep_orphans *)

PassRest == <<deleteAt, kept, reader, packs>>

(* extent_ref_barrier, taken exclusively: no location is assigned and not   *)
(* yet applied.                                                             *)
Published ==
    /\ \A w \in Writer : writer[w].pc \notin {"claimed", "filled"}
    /\ \A i \in DOMAIN queue : ~queue[i].guard

BeginPass(sweep) ==
    /\ gc.pc = "idle"
    /\ Published
    /\ refs' = TRUE
    /\ gc' = [Asleep EXCEPT !.pc = "barrier", !.sweep = sweep]
    /\ UNCHANGED <<dataVars, dbVars, lock, writer, flushVars, clock, PassRest>>

PassBarrier ==
    /\ gc.pc = "barrier" /\ barrier = Free
    /\ barrier' = "gc"
    /\ seal' = [NoSeal EXCEPT !.pc = "publish"]
    /\ gc' = [gc EXCEPT !.pc = "seal"]
    /\ UNCHANGED <<dataVars, dbVars, lock, writer, refs, flusher, request, clock, PassRest>>

OpenSegids == {lane[l].segid : l \in Lane}

(* The seal succeeded: flush, note the open segments (their counters bound  *)
(* what may still gain references), release both barriers.                  *)
PassFlushed ==
    /\ gc.pc = "seal" /\ seal.pc = "ok"
    /\ durable' = mem
    /\ clock' = [clock EXCEPT !.durable = clock.applied]
    /\ gc' = [gc EXCEPT !.pc = IF gc.sweep THEN "list" ELSE "gate",
                        !.cutoff = Max({g.counter : g \in OpenSegids}) + 1,
                        !.open = OpenSegids]
    /\ barrier' = Free /\ seal' = NoSeal
    /\ refs' = FALSE
    /\ UNCHANGED <<dataVars, mem, queue, written, lock, writer, flusher, request, PassRest>>

PassSealFailed ==
    /\ gc.pc = "seal" /\ seal.pc = "failed"
    /\ gc' = Asleep
    /\ barrier' = Free /\ seal' = NoSeal
    /\ refs' = FALSE
    /\ UNCHANGED <<dataVars, dbVars, lock, writer, flusher, request, clock, PassRest>>

(* A segment that can no longer gain references.                            *)
Eligible(g) ==
    \/ g.epoch < nextSegid.epoch
    \/ g.epoch = nextSegid.epoch /\ g.counter < gc.cutoff /\ g \notin gc.open

-----------------------------------------------------------------------------
(* Reclaiming dead segments *)

(* Mutant: persistent checkpoints have no expiry to wait for, so they are   *)
(* not waited for.                                                          *)
MutGateUnpinned ==
    /\ gc.pc = "gate"
    /\ gc' = [gc EXCEPT !.pc = "scan", !.pinned = FALSE,
                !.horizon = Max({Floor} \cup {kept[n].left : n \in DOMAIN kept})]
    /\ UNCHANGED <<segVars, PassRest>>

(* maybe_reclaim_segments' gate lists the checkpoints: the latest expiry    *)
(* pushes the horizon out, a persistent checkpoint pauses everything.       *)
Gate ==
    /\ gc.pc = "gate"
    /\ gc' = [gc EXCEPT !.pc = "scan",
                !.horizon = Max({Floor} \cup {kept[n].left : n \in DOMAIN kept}),
                !.pinned = \E n \in DOMAIN kept : kept[n].lasting]
    /\ UNCHANGED <<segVars, PassRest>>

(* The checkpoints cannot be listed: the pass is skipped.                   *)
GateUnavailable ==
    /\ gc.pc = "gate" /\ Failing
    /\ gc' = Asleep
    /\ clock' = [clock EXCEPT !.fails = @ + 1]
    /\ UNCHANGED <<dataVars, dbVars, lock, writer, refs, flushVars, PassRest>>

(* Mutant: a dead segment does not wait for a horizon.                      *)
MutScanAtOnce ==
    /\ gc.pc = "scan"
    /\ LET counted == IF gc.pinned THEN {} ELSE {g \in DOMAIN durable.count : Eligible(g)}
           dead == {g \in counted : durable.count[g].live = 0}
       IN gc' = [Asleep EXCEPT !.pc = "verify", !.todo = dead, !.cand = counted \ dead]
    /\ UNCHANGED <<segVars, PassRest>>

(* Scan the durable counters and classify: a dead segment waits for the     *)
(* horizon of the pass that first saw it dead; at most MaxDeletes of those  *)
(* past it are taken.  Whatever is no longer dead is forgotten.             *)
Scan ==
    /\ gc.pc = "scan"
    /\ LET counted == IF gc.pinned THEN {} ELSE {g \in DOMAIN durable.count : Eligible(g)}
           dead == {g \in counted : durable.count[g].live = 0}
           Due(g) == IF g \in DOMAIN deleteAt THEN deleteAt[g] ELSE gc.horizon
           late == {g \in dead : Due(g) = 0}
       IN \E D \in SUBSET late :
             /\ Cardinality(D) = Min({MaxDeletes, Cardinality(late)})
             /\ deleteAt' = [g \in dead \ D |-> Due(g)]
             /\ gc' = [Asleep EXCEPT !.pc = "verify", !.todo = D, !.cand = counted \ dead]
    /\ UNCHANGED <<segVars, kept, reader, packs>>

(* directory_still_referenced: a frame the directory names is still the     *)
(* one its slot points to, in memory or on disk.                            *)
StillReferenced(g) ==
    \E i \in DOMAIN store[g], d \in {mem, durable} :
        SegidOf(d.ptr[store[g][i].slot]) = g

(* verify_segment_reclaimable and the counter recheck: only a segment that  *)
(* passes both goes on; one whose object is gone only loses its counter.    *)
Verify(g) ==
    /\ gc.pc = "verify" /\ g \in gc.todo
    /\ LET sure == IF gc.sweep THEN TRUE ELSE g \in DOMAIN mem.count /\ mem.count[g].live = 0
           absent == g \notin DOMAIN store
           doomed == ~absent /\ ~StillReferenced(g) /\ sure
       IN gc' = [gc EXCEPT !.todo = @ \ {g},
                           !.pc = IF doomed THEN "delete" ELSE "verify",
                           !.target = IF doomed THEN g ELSE Free,
                           !.freed = IF absent /\ sure /\ ~gc.sweep THEN @ \cup {g} ELSE @]
    /\ UNCHANGED <<segVars, PassRest>>

(* delete_segment; a failed delete leaves the segment for a later pass.     *)
Delete ==
    /\ gc.pc = "delete"
    /\ \/ /\ store' = Keep(store, DOMAIN store \ {gc.target})
          /\ gc' = [gc EXCEPT !.pc = "verify", !.target = Free,
                              !.freed = IF gc.sweep THEN @ ELSE @ \cup {gc.target}]
          /\ UNCHANGED clock
       \/ /\ Failing
          /\ gc' = [gc EXCEPT !.pc = "verify", !.target = Free]
          /\ clock' = [clock EXCEPT !.fails = @ + 1]
          /\ UNCHANGED store
    /\ UNCHANGED <<lane, gate, sealing, uploads, nextSegid, dbVars, lock, writer,
                   refs, flushVars, PassRest>>

(* Drop the counters of the deleted segments, through the commit worker.    *)
DropCounters ==
    /\ gc.pc = "verify" /\ gc.todo = {}
    /\ IF gc.freed \cap DOMAIN mem.count = {}
       THEN /\ gc' = IF gc.sweep THEN Asleep ELSE [gc EXCEPT !.pc = "select", !.freed = {}]
            /\ UNCHANGED queue
       ELSE /\ gc' = [gc EXCEPT !.pc = "dropping", !.freed = {}]
            /\ queue' = Append(queue, [Txn("gc", 0, Free, Free, Free, FALSE)
                                       EXCEPT !.drop = gc.freed \cap DOMAIN mem.count])
    /\ UNCHANGED <<dataVars, mem, durable, written, lock, writer, refs, flushVars, clock, PassRest>>

(* sweep_orphans after its barrier: objects without a counter, old enough.  *)
ListOrphans ==
    /\ gc.pc = "list"
    /\ \E old \in SUBSET DOMAIN store :
          gc' = [Asleep EXCEPT !.pc = "verify", !.sweep = TRUE,
                   !.todo = {g \in old : Eligible(g) /\ g \notin DOMAIN mem.count}]
    /\ UNCHANGED <<segVars, PassRest>>

-----------------------------------------------------------------------------
(* Compaction *)

(* compact_segments, gather_source: the frames of the selected segments     *)
(* that their slots still point to, with the location each was found at.    *)
Gather ==
    /\ gc.pc = "select"
    /\ \E sources \in SUBSET gc.cand :
          LET live == {s \in Slot : SegidOf(mem.ptr[s]) \in sources}
          IN /\ live # {} => packs < MaxPacks
             /\ gc' = IF live = {} THEN Asleep
                      ELSE [gc EXCEPT !.pc = "pack", !.cand = @ \ sources,
                              !.frames = {[slot |-> s, src |-> mem.ptr[s],
                                           data |-> ReadFrame(mem.ptr[s], s)] : s \in live}]
    /\ UNCHANGED <<segVars, PassRest>>

(* A source segment cannot be read, or is gone: the pass is over.           *)
GatherFails ==
    /\ gc.pc = "select" /\ Failing
    /\ gc' = Asleep
    /\ clock' = [clock EXCEPT !.fails = @ + 1]
    /\ UNCHANGED <<dataVars, dbVars, lock, writer, refs, flushVars, PassRest>>

PackOrder == CHOOSE q \in [1..Cardinality(gc.frames) -> gc.frames] : IsInjective(q)

(* seal_and_repoint, up to the upload: the new segment is on the store      *)
(* before any pointer names it (the collector holds a shared reference      *)
(* guard meanwhile, which only its own passes would wait for).              *)
Pack ==
    /\ gc.pc = "pack"
    /\ LET frame(i) == [slot |-> PackOrder[i].slot, data |-> PackOrder[i].data]
           put == [g \in DOMAIN store \cup {nextSegid} |->
                     IF g = nextSegid THEN [i \in 1..Cardinality(gc.frames) |-> frame(i)]
                     ELSE store[g]]
       IN \/ /\ store' = put
             /\ gc' = [gc EXCEPT !.pc = "repoint", !.pack = nextSegid, !.swapped = 0,
                         !.frames = {[slot |-> PackOrder[i].slot, src |-> PackOrder[i].src,
                                      new |-> [segid |-> nextSegid, frame |-> i]] :
                                     i \in DOMAIN PackOrder}]
             /\ UNCHANGED clock
          \/ /\ Failing
             /\ store' \in {store, put}
             /\ gc' = Asleep
             /\ clock' = [clock EXCEPT !.fails = @ + 1]
    /\ nextSegid' = NextSegid
    /\ packs' = packs + 1
    /\ UNCHANGED <<lane, gate, sealing, uploads, dbVars, lock, writer, refs, flushVars,
                   deleteAt, kept, reader>>

(* Mutant: the swap does not wait for the slot's queued writes.             *)
MutRepointQueued(f) ==
    /\ gc.pc = "repoint" /\ f \in gc.frames
    /\ lock[f.slot] = Free
    /\ IF mem.ptr[f.slot] = f.src
       THEN /\ queue' = Append(queue, Txn("gc", 0, f.slot, f.new, f.src, TRUE))
            /\ lock' = [lock EXCEPT ![f.slot] = "gc"]
            /\ gc' = [gc EXCEPT !.pc = "swapping", !.frames = @ \ {f}, !.swapped = @ + 1]
       ELSE /\ gc' = [gc EXCEPT !.frames = @ \ {f}]
            /\ UNCHANGED <<queue, lock>>
    /\ UNCHANGED <<dataVars, mem, durable, written, writer, refs, flushVars, clock, PassRest>>

(* One slot's swap, under its inode lock and with its queued writes applied:*)
(* only if it still points to exactly the frame that was gathered.          *)
Repoint(f) ==
    /\ gc.pc = "repoint" /\ f \in gc.frames
    /\ lock[f.slot] = Free /\ Settled(f.slot)
    /\ IF mem.ptr[f.slot] = f.src
       THEN /\ queue' = Append(queue, Txn("gc", 0, f.slot, f.new, f.src, TRUE))
            /\ lock' = [lock EXCEPT ![f.slot] = "gc"]
            /\ gc' = [gc EXCEPT !.pc = "swapping", !.frames = @ \ {f}, !.swapped = @ + 1]
       ELSE /\ gc' = [gc EXCEPT !.frames = @ \ {f}]
            /\ UNCHANGED <<queue, lock>>
    /\ UNCHANGED <<dataVars, mem, durable, written, writer, refs, flushVars, clock, PassRest>>

(* Every slot is done.  A pack nobody points to is deleted, best effort;    *)
(* then the pass selects again or ends.                                     *)
PackEnd ==
    /\ gc.pc = "repoint" /\ gc.frames = {}
    /\ \/ store' = IF gc.swapped = 0 THEN Keep(store, DOMAIN store \ {gc.pack}) ELSE store
       \/ gc.swapped = 0 /\ Failing /\ UNCHANGED store
    /\ gc' \in {Asleep, [gc EXCEPT !.pc = "select", !.pack = Free, !.swapped = 0]}
    /\ UNCHANGED <<lane, gate, sealing, uploads, nextSegid, dbVars, lock, writer,
                   refs, flushVars, clock, PassRest>>

(* The commit worker answers whoever submitted the transaction: a collector *)
(* whose transaction failed gives up its pass.                              *)
CommitFor(step, ok) ==
    /\ step
    /\ gc' = IF Head(queue).owner # "gc" THEN gc
             ELSE IF ~ok THEN Asleep
             ELSE [gc EXCEPT !.pc = IF gc.pc = "swapping" THEN "repoint" ELSE "select"]
    /\ UNCHANGED PassRest

-----------------------------------------------------------------------------
(* Checkpoints *)

(* After the pass listed the checkpoints and before it scans, a new one is  *)
(* not seen by the pass and the rows it keeps may still be overwritten and  *)
(* flushed in time for the scan: see CheckpointsIntact.                     *)
Racing == gc.pc = "scan"

(* create_checkpoint (after its flush, an answered request) or a replica    *)
(* that opens the current manifest: the durable rows are kept.  A replica   *)
(* refreshes its checkpoint while it shows the current manifest, and takes  *)
(* a new one when it does not.                                              *)
CreateCheckpoint(n, lasting) ==
    /\ n \in DOMAIN kept => ~lasting /\ ~kept[n].lasting
    /\ kept' = [m \in DOMAIN kept \cup {n} |->
                  IF m = n THEN [ptr |-> durable.ptr, lasting |-> lasting, raced |-> Racing,
                                 left |-> IF lasting THEN 0 ELSE Lifetime]
                  ELSE kept[m]]
    /\ UNCHANGED <<segVars, gc, deleteAt, reader, packs>>

(* delete_checkpoint, or a replica closes.                                  *)
DeleteCheckpoint(n) ==
    /\ n \in DOMAIN kept
    /\ kept' = [m \in DOMAIN kept \ {n} |-> kept[m]]
    /\ UNCHANGED <<segVars, gc, deleteAt, reader, packs>>

-----------------------------------------------------------------------------
(* Reads *)

(* get: the location is resolved first ...                                  *)
Resolve(r, s) ==
    /\ reader[r].pc = "idle" /\ ~Hole(mem.ptr[s])
    /\ reader' = [reader EXCEPT ![r] =
                    [pc |-> "fetch", slot |-> s, loc |-> mem.ptr[s], left |-> Floor - 1]]
    /\ UNCHANGED <<segVars, gc, deleteAt, kept, packs>>

(* ... and the frame fetched later; if its segment is gone by then, the     *)
(* location is resolved once more, and a second miss is an I/O error.       *)
Fetch(r) ==
    /\ reader[r].pc \in {"fetch", "retry"}
    /\ LET loc == reader[r].loc
           found == ReadFrame(loc, reader[r].slot) # Unreadable
           again == mem.ptr[reader[r].slot]
           moved == reader[r].pc = "fetch" /\ again.segid # loc.segid
       IN reader' = [reader EXCEPT ![r] =
                       IF found \/ Hole(again) THEN NotReading
                       ELSE IF moved THEN [@ EXCEPT !.pc = "retry", !.loc = again]
                       ELSE [@ EXCEPT !.pc = "error"]]
    /\ UNCHANGED <<segVars, gc, deleteAt, kept, packs>>

(* Time passes, and expired checkpoints are dropped.  A read is shorter     *)
(* than the floor.                                                          *)
Less(t) == IF t = 0 THEN 0 ELSE t - 1

Tick ==
    /\ \A r \in Reader : reader[r].pc = "idle" \/ reader[r].left > 0
    /\ ~(PromptScan /\ gc.pc = "scan")
    /\ gc' = [gc EXCEPT !.horizon = Less(@)]
    /\ deleteAt' = [g \in DOMAIN deleteAt |-> Less(deleteAt[g])]
    /\ kept' = [n \in {m \in DOMAIN kept : kept[m].lasting \/ kept[m].left > 1} |->
                  [kept[n] EXCEPT !.left = Less(@)]]
    /\ reader' = [r \in Reader |-> [reader[r] EXCEPT !.left = Less(@)]]
    /\ UNCHANGED <<segVars, packs>>

-----------------------------------------------------------------------------
(* The collector's pass and its list of dead segments are in memory only.   *)
ReclaimCrash ==
    /\ Crash
    /\ gc' = Asleep
    /\ deleteAt' = <<>>
    /\ reader' = [r \in Reader |-> NotReading]
    /\ UNCHANGED <<kept, packs>>

PassStep ==
    \/ PassBarrier \/ PassFlushed \/ PassSealFailed
    \/ Gate \/ GateUnavailable \/ Scan
    \/ \E g \in gc.todo : Verify(g)
    \/ Delete \/ DropCounters \/ ListOrphans
    \/ Gather \/ GatherFails \/ Pack
    \/ \E f \in gc.frames : Repoint(f)
    \/ PackEnd

DataStep ==
    /\ \/ \E w \in Writer : WriterStep(w)
       \/ \E g \in uploads : BackgroundPut(g)
       \/ SealOpen
       \/ \E r \in Request : RequestFlush(r)
       \/ FlushWorker
    /\ UNCHANGED gcVars

ReclaimNext ==
    \/ DataStep
    \/ CommitFor(Apply, TRUE) \/ CommitFor(AbortBatch, FALSE)
    \/ \E sweep \in BOOLEAN : BeginPass(sweep)
    \/ PassStep
    \/ \E n \in Name, lasting \in BOOLEAN : CreateCheckpoint(n, lasting)
    \/ \E n \in Name : DeleteCheckpoint(n)
    \/ \E r \in Reader : Fetch(r) \/ \E s \in Slot : Resolve(r, s)
    \/ Tick
    \/ ReclaimCrash

ReclaimSpec == GcInit /\ [][ReclaimNext]_vars

-----------------------------------------------------------------------------
(* Properties *)

(* Reclaiming, compacting and sweeping change nothing a client can see: the *)
(* data plane with its collector still implements DurableStore, and every   *)
(* checkpoint in force keeps exactly the contents it was taken with.  The   *)
(* checkpoints a pass may miss (Racing) are excepted: CheckpointsIntact.    *)
PromiseKept == INSTANCE DurableStore WITH
    Datum <- 1..MaxWrites, epoch <- nextSegid.epoch, mem <- Contents,
    durable <- StoredContents(durable.ptr),
    pinned <- [n \in {m \in DOMAIN kept : ~kept[m].raced} |-> StoredContents(kept[n].ptr)]
ReclaimImplementsDurableStore == PromiseKept!Spec

(* What reclaim.rs says of a checkpoint created while a pass runs: it is    *)
(* either visible to the gate or pins a manifest in which everything the    *)
(* pass reclaims is unreferenced.                                           *)
CheckpointsIntact ==
    \A n \in DOMAIN kept, s \in Slot : StoredContents(kept[n].ptr)[s] # Unreadable

(* A read that resolved its location before a compaction or a deletion, and *)
(* takes less than the floor, never fails: one retry is enough.             *)
ReadsSucceed == \A r \in Reader : reader[r].pc # "error"
=============================================================================
