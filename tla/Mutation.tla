------------------------------ MODULE Mutation ------------------------------
(***************************************************************************)
(* The mutation pipeline (fs/mutation) in the mode that acknowledges from   *)
(* memory.  A write is admitted (admission.rs), prepared under its inode    *)
(* locks (fs/ops/write.rs), staged into the overlay of every inode it       *)
(* touches together with a job in that inode's lane (overlay.rs,            *)
(* volatile_overlay.rs, materializer.rs), published, shown and answered.    *)
(* Later the lanes apply it: the last lane to arrive takes the batch        *)
(* (overlay_dispatch.rs), submits it, waits for the commit, and records it  *)
(* (progress.rs); each lane then retires its entry.  Reads overlay the      *)
(* canonical bytes with the published entries; a flush waits for what was   *)
(* accepted; a metadata operation fences its inode first (fence.rs).        *)
(*                                                                         *)
(* Abstractions.  A cell is an extent, and the members of a striped write   *)
(* cover the same cells.  A cell's content is the number of the write it    *)
(* came from.  Budgets count operations, not bytes.  A request that the raw *)
(* budget or the gate refuses changes nothing and is left out, and so are   *)
(* the request cache and the ledger of replayed operations.  The members of *)
(* a write are locked in one step (the code takes the locks in ascending    *)
(* order) and staged in one step (under the enqueue gate): a failure that   *)
(* falls between two members is left out.  The size a read clips to and the *)
(* overlay it starts from are read in one step.  The canonical store is     *)
(* what the running process sees; what a crash leaves of it is the subject  *)
(* of Segments.  The drain deadline of a shutdown is left out.              *)
(***************************************************************************)
EXTENDS Integers, Sequences, FiniteSets, FiniteSetsExt, SequencesExt

CONSTANTS
    Inode,
    Client,         \* who reads, flushes and punches, one request at a time
    Cells,          \* the cells of an inode are 1..Cells
    Extents,        \* the sets of cells that are written
    InitSize,       \* the size of every inode at the start, in cells
    MaxOperations,  \* volatile_max_operations, for both budgets
    Stops,          \* whether the server may begin to shut down
    MaxWrites, MaxPunches, MaxFails    \* bounds of the model

ASSUME MutationBounds ==
    /\ {Cells, MaxOperations} \subseteq Nat \ {0}
    /\ Extents \subseteq (SUBSET (1..Cells)) \ {{}}
    /\ InitSize \in 0..Cells /\ Stops \in BOOLEAN
    /\ {MaxWrites, MaxPunches, MaxFails} \subseteq Nat

\* There are finitely many inodes, and a client is not the number of a write.
ASSUME MutationNames == IsFiniteSet(Inode) /\ Client \cap (1..MaxWrites) = {}

VARIABLES
    write,     \* the writes admitted so far, with their PendingDispatch
    gate,      \* PreparationGate: published_through, terminal
    runtime,   \* runtime[i]: the VolatileWriteRuntime of i, if registered
    lane,      \* lane[i]: the worker of i and its queue
    attrs,     \* latest_attrs[i]: the writes whose attributes are previewed
    base,      \* base[i]: the canonical contents and size
    progress,  \* MutationProgress
    down,      \* what has become terminal: the budget, the overlay (frozen)
    reader, flusher, fence,
    punched, fails

vars == <<write, gate, runtime, lane, attrs, base, progress, down,
          reader, flusher, fence, punched, fails>>

clients == <<reader, flusher, fence, punched>>
pipeline == <<write, gate, lane, attrs, progress, down, fails>>

Cell == 1..Cells
Nobody == 0
Zero == 0

NoRuntime == [up |-> FALSE, through |-> 0, entries |-> <<>>, done |-> {}, terminal |-> FALSE]
NoLane == [up |-> FALSE, queue |-> <<>>, job |-> Nobody, at |-> "idle"]
NotReading == [pc |-> "idle", ino |-> Nobody, canon |-> 0, pinned |-> FALSE,
               data |-> <<>>, seen |-> {}]
NoFlush == [pc |-> "idle", cutoff |-> 0, targets |-> <<>>, must |-> {}]
NoFence == [pc |-> "idle", ino |-> Nobody, cutoff |-> 0, target |-> 0]

Init ==
    /\ write = <<>>
    /\ gate = [through |-> 0, terminal |-> FALSE]
    /\ runtime = [i \in Inode |-> NoRuntime]
    /\ lane = [i \in Inode |-> NoLane]
    /\ attrs = [i \in Inode |-> <<>>]
    /\ base = [i \in Inode |-> [size |-> InitSize, at |-> [x \in Cell |-> Zero]]]
    /\ progress = [through |-> 0, pending |-> {}, terminal |-> FALSE]
    /\ down = [budget |-> FALSE, frozen |-> FALSE]
    /\ reader = [c \in Client |-> NotReading]
    /\ flusher = [c \in Client |-> NoFlush]
    /\ fence = [c \in Client |-> NoFence]
    /\ punched = 0 /\ fails = 0

Failing == fails < MaxFails /\ fails' = fails + 1

-----------------------------------------------------------------------------
(* What the state means *)

Active(n) == write[n].pc \in {"waiting", "reserved", "prepared", "staged"}
Visible(n) == write[n].pc = "acked"
Idle(c) == {reader[c].pc, flusher[c].pc, fence[c].pc} = {"idle"}
On(i) == {n \in DOMAIN write : i \in write[n].inos}

\* RawMutationPermit and BudgetOperationPermit: one of each per write, until the
\* batch is applied and until the last entry is retired.
RawUsed ==
    {n \in DOMAIN write : \/ Active(n) \/ write[n].pc = "published"
                          \/ Visible(n) /\ write[n].result = "none"}
VolatileUsed ==
    {n \in DOMAIN write : \/ write[n].pc \in {"reserved", "prepared"}
                          \/ \E i \in Inode : n \in Range(runtime[i].entries)}

\* The transactions submitted and not yet committed.
Committing == {lane[i].job : i \in {j \in Inode : lane[j].at = "commit"}}

\* inode_store.get: a submitted inode is seen before its commit.
CanonicalSize(i) == Max({base[i].size} \cup {write[n].size[i] : n \in Committing \cap On(i)})

\* snapshot: the places of the published entries of an inode, oldest first.
Snapshot(i) == {k \in DOMAIN runtime[i].entries : Visible(runtime[i].entries[k])}

\* visible_size, from a canonical size that was read earlier.
SizeFrom(i, canonical) ==
    Max({canonical} \cup {Max(write[runtime[i].entries[k]].cells) : k \in Snapshot(i)}
                    \cup (IF attrs[i] = <<>> THEN {} ELSE {write[Last(attrs[i])].size[i]}))

\* apply_entry for every entry of the snapshot, over the canonical bytes.
Overlaid(i, bytes) ==
    [x \in DOMAIN bytes |->
        LET over == {k \in Snapshot(i) : x \in write[runtime[i].entries[k]].cells}
        IN  IF over = {} THEN bytes[x] ELSE runtime[i].entries[Max(over)]]

Contents(i) == Overlaid(i, base[i].at)

View(i) == SubSeq(Contents(i), 1, SizeFrom(i, CanonicalSize(i)))

-----------------------------------------------------------------------------
(* The runtime registry *)

\* The holders of a RuntimeHandle of i.
Holders(i) ==
    {n \in On(i) : Active(n) \/ write[n].pc \in {"published", "dropped", "releasing"}}
    \cup {c \in Client : reader[c].pinned /\ reader[c].ino = i}
    \cup {c \in Client : i \in DOMAIN flusher[c].targets}
    \cup {c \in Client : fence[c].pc = "lane" /\ fence[c].ino = i}

Reapable(rt) == ~rt.terminal /\ rt.entries = <<>> /\ rt.done = {}

\* release_runtime_handle and try_reap_runtime: rt is the runtime of i when h
\* lets go of it.
Reaped(rt, i, h) == IF Holders(i) \subseteq {h} /\ Reapable(rt) THEN NoRuntime ELSE rt

Release(h, inos) ==
    runtime' = [i \in Inode |-> IF i \in inos THEN Reaped(runtime[i], i, h) ELSE runtime[i]]

\* runtime: the handle is taken, and the runtime registered if need be.
Registered(inos) == [i \in Inode |-> [runtime[i] EXCEPT !.up = @ \/ i \in inos]]

-----------------------------------------------------------------------------
(* A write, up to its answer *)

\* begin_write_admission (the raw budget, then register) and the handles.
Begin(inos, cells) ==
    /\ Len(write) < MaxWrites
    /\ Cardinality(RawUsed) < MaxOperations
    /\ ~gate.terminal
    /\ \A c \in Client : fence[c].ino \notin inos
    /\ write' = Append(write,
          [pc |-> "waiting", inos |-> inos, cells |-> cells, size |-> [i \in Inode |-> 0],
           seq |-> 0, held |-> FALSE, arrived |-> 0, cancelled |-> FALSE,
           result |-> "none", committed |-> FALSE])
    /\ runtime' = Registered(inos)
    /\ UNCHANGED <<gate, lane, attrs, base, progress, down, clients, fails>>

\* The guard, the permits, the locks and the handles of n are dropped.
Abort(n) ==
    /\ write' = [write EXCEPT ![n].pc = "failed", ![n].held = FALSE]
    /\ Release(n, write[n].inos)
    /\ UNCHANGED <<gate, lane, attrs, base, progress, down, clients, fails>>

\* reserve, reserve_batch: a striped write also gives up when frozen.
Refused(n) ==
    \/ down.budget
    \/ \E i \in write[n].inos : runtime[i].terminal
    \/ down.frozen /\ Cardinality(write[n].inos) > 1

Reserve(n) ==
    /\ write[n].pc = "waiting" /\ ~Refused(n)
    /\ Cardinality(VolatileUsed) < MaxOperations
    /\ write' = [write EXCEPT ![n].pc = "reserved"]
    /\ UNCHANGED <<gate, runtime, lane, attrs, base, progress, down, clients, fails>>

ReserveFails(n) == write[n].pc = "waiting" /\ Refused(n) /\ Abort(n)

\* prepare_write: the inode locks, which the batch keeps; then the overlapping
\* extents in flight; then the size the write leaves.
Locked(i) == \E n \in On(i) : write[n].held

Prepare(n) ==
    LET w == write[n]
    IN  /\ w.pc = "reserved"
        /\ \A i \in w.inos : ~Locked(i)
        /\ \A m \in Committing : write[m].inos \cap w.inos = {} \/ write[m].cells \cap w.cells = {}
        /\ write' = [write EXCEPT ![n].pc = "prepared", ![n].held = TRUE,
                        ![n].size = [i \in Inode |-> IF i \in w.inos
                           THEN Max({SizeFrom(i, CanonicalSize(i)), Max(w.cells)}) ELSE 0]]
        /\ UNCHANGED <<gate, runtime, lane, attrs, base, progress, down, clients, fails>>

\* Access is denied, or the quota is exhausted.
PrepareFails(n) == write[n].pc = "reserved" /\ Abort(n)

\* accept_members, under the enqueue gate: an entry and a job for every member,
\* in a lane that is started if need be.
Stage(n) ==
    LET inos == write[n].inos
    IN  /\ write[n].pc = "prepared"
        /\ ~down.frozen /\ ~down.budget
        /\ write' = [write EXCEPT ![n].pc = "staged"]
        /\ runtime' = [i \in Inode |-> IF i \in inos
                          THEN [runtime[i] EXCEPT !.entries = Append(@, n)] ELSE runtime[i]]
        /\ lane' = [i \in Inode |-> IF i \in inos
                       THEN [lane[i] EXCEPT !.up = TRUE, !.queue = Append(@, n)] ELSE lane[i]]
        /\ UNCHANGED <<gate, attrs, base, progress, down, clients, fails>>

StageFails(n) == write[n].pc = "prepared" /\ (down.frozen \/ down.budget) /\ Abort(n)

\* PreparationGuard::publish.  A closed gate refuses: the batch is dropped with
\* its locks, and so is the sender that the dispatch waits for.
Publish(n) ==
    /\ write[n].pc = "staged"
    /\ IF gate.terminal
       THEN /\ write' = [write EXCEPT ![n].pc = "dropped", ![n].held = FALSE]
            /\ UNCHANGED gate
       ELSE /\ write' = [write EXCEPT ![n].pc = "published", ![n].seq = gate.through + 1]
            /\ gate' = [gate EXCEPT !.through = @ + 1]
    /\ UNCHANGED <<runtime, lane, attrs, base, progress, down, clients, fails>>

\* Readers of inos see what is there now as well.
Witness(inos) ==
    reader' = [c \in Client |-> IF reader[c].ino \in inos
                  THEN [reader[c] EXCEPT !.seen = @ \cup {View(i)' : i \in {reader[c].ino}}]
                  ELSE reader[c]]

\* The attributes are previewed, the entries shown, the batch sent to the
\* dispatch and the client answered.
Show(n) ==
    LET inos == write[n].inos
    IN  /\ write[n].pc = "published"
        /\ write' = [write EXCEPT ![n].pc = "acked"]
        /\ attrs' = [i \in Inode |-> IF i \in inos THEN Append(attrs[i], n) ELSE attrs[i]]
        /\ Release(n, inos)
        /\ UNCHANGED base /\ UNCHANGED lane
        /\ Witness(inos)
        /\ UNCHANGED <<gate, progress, down, flusher, fence, punched, fails>>

\* rollback_unpublished: cancel_unpublished, then wait_released.
SetResult(w, r) == [w EXCEPT !.result = IF @ = "none" THEN r ELSE @]

Cancel(n) ==
    /\ write[n].pc = "dropped"
    /\ write' = [write EXCEPT ![n] = [SetResult(@, "ok") EXCEPT !.pc = "releasing", !.cancelled = TRUE]]
    /\ UNCHANGED <<gate, runtime, lane, attrs, base, progress, down, clients, fails>>

Released(n) ==
    /\ write[n].pc = "releasing"
    /\ \A i \in write[n].inos : n \in Range(runtime[i].entries) => runtime[i].terminal
    /\ Abort(n)

WriteStep(n) ==
    \/ Reserve(n) \/ ReserveFails(n) \/ Prepare(n)
    \/ Stage(n) \/ StageFails(n) \/ Publish(n) \/ Show(n) \/ Cancel(n) \/ Released(n)

-----------------------------------------------------------------------------
(* A lane: spawn_lane, run_lane_job *)

At(i, step) == lane' = [lane EXCEPT ![i].at = step]

\* Mutant: the worker retires without looking at its queue again.
MutRetireBlind(i) ==
    /\ lane[i].up /\ lane[i].job = Nobody
    /\ lane' = [lane EXCEPT ![i] = NoLane]
    /\ UNCHANGED <<write, gate, runtime, attrs, base, progress, down, clients, fails>>

\* next_lane_job_or_retire, under the lock that enqueues.
Retire(i) ==
    /\ lane[i].up /\ lane[i].job = Nobody /\ lane[i].queue = <<>>
    /\ lane' = [lane EXCEPT ![i] = NoLane]
    /\ UNCHANGED <<write, gate, runtime, attrs, base, progress, down, clients, fails>>

Taken(i, step) ==
    lane' = [lane EXCEPT ![i].job = Head(lane[i].queue), ![i].queue = Tail(@), ![i].at = step]

\* The next job, and arrive_held: the last member to arrive dispatches, the
\* others wait.
Arrive(i) ==
    /\ lane[i].job = Nobody /\ lane[i].queue # <<>>
    /\ LET n == Head(lane[i].queue)
           last == write[n].arrived + 1 = Cardinality(write[n].inos)
       IN  IF write[n].result # "none"
           THEN Taken(i, write[n].result) /\ UNCHANGED write
           ELSE /\ Taken(i, IF last THEN "take" ELSE "wait")
                /\ write' = [write EXCEPT ![n].arrived = @ + 1]
    /\ UNCHANGED <<gate, runtime, attrs, base, progress, down, clients, fails>>

WaitResult(i) ==
    /\ lane[i].at = "wait" /\ write[lane[i].job].result # "none"
    /\ At(i, write[lane[i].job].result)
    /\ UNCHANGED <<write, gate, runtime, attrs, base, progress, down, clients, fails>>

\* The dispatching lane ends with outcome r, which the first result hides from
\* the other members.
Dispatched(i, r) ==
    /\ write' = [write EXCEPT ![lane[i].job] = [SetResult(@, r) EXCEPT !.held = FALSE]]
    /\ At(i, r)

\* dispatch_held: the receiver is taken, unless a cancellation took it first.
TakeReceiver(i) ==
    /\ lane[i].at = "take"
    /\ IF write[lane[i].job].cancelled THEN Dispatched(i, "err")
                                       ELSE At(i, "receive") /\ UNCHANGED write
    /\ UNCHANGED <<gate, runtime, attrs, base, progress, down, clients, fails>>

\* The select: a cancellation wins, a dropped sender is an error.
Receive(i) ==
    LET w == write[lane[i].job]
    IN  /\ lane[i].at = "receive"
        /\ \/ w.cancelled /\ Dispatched(i, "ok")
           \/ ~w.cancelled /\ w.pc = "dropped" /\ Dispatched(i, "err")
           \/ w.pc = "acked" /\ At(i, "apply") /\ UNCHANGED write
        /\ UNCHANGED <<gate, runtime, attrs, base, progress, down, clients, fails>>

\* Materializer::poison
Poison ==
    /\ progress' = [progress EXCEPT !.terminal = TRUE]
    /\ down' = [down EXCEPT !.frozen = TRUE]

\* apply_held refuses once progress is terminal.
ApplyRefused(i) ==
    /\ lane[i].at = "apply" /\ progress.terminal
    /\ Dispatched(i, "err")
    /\ UNCHANGED <<gate, runtime, attrs, base, progress, down, clients, fails>>

\* Mutant: the batch counts as applied once it is submitted.
MutSubmitEarly(i) ==
    /\ lane[i].at = "apply" /\ ~progress.terminal
    /\ write' = [write EXCEPT ![lane[i].job].held = FALSE]
    /\ At(i, "record")
    /\ UNCHANGED <<gate, runtime, attrs, base, progress, down, clients, fails>>

\* apply_prepared_batch up to submit_owned, which ends the inode locks.
Submit(i) ==
    /\ lane[i].at = "apply" /\ ~progress.terminal
    /\ write' = [write EXCEPT ![lane[i].job].held = FALSE]
    /\ At(i, "commit")
    /\ UNCHANGED <<gate, runtime, attrs, base, progress, down, clients, fails>>

\* The transaction fails, before or after it was submitted.
ApplyFails(i) ==
    /\ \/ lane[i].at = "apply" /\ ~progress.terminal
       \/ lane[i].at = "commit"
    /\ Failing
    /\ Dispatched(i, "err")
    /\ Poison
    /\ UNCHANGED <<gate, runtime, attrs, base, clients>>

\* One transaction for all the members.
Commit(i) ==
    LET n == lane[i].job
        w == write[n]
    IN  /\ lane[i].at = "commit"
        /\ base' = [j \in Inode |-> IF j \notin w.inos THEN base[j] ELSE
                      [size |-> w.size[j],
                       at |-> [x \in Cell |-> IF x \in w.cells THEN n ELSE base[j].at[x]]]]
        /\ write' = [write EXCEPT ![n].committed = TRUE]
        /\ At(i, "record")
        /\ UNCHANGED <<gate, runtime, attrs, progress, down, clients, fails>>

\* record_materialized advances the gap-free prefix; then the attributes
\* previewed for the write are retired.
Advanced(p, seq) ==
    LET done == p.pending \cup {seq}
        through == Max({k \in p.through .. p.through + Cardinality(done) :
                          (p.through + 1) .. k \subseteq done})
    IN  [p EXCEPT !.through = through, !.pending = {s \in done : s > through}]

Record(i) ==
    LET w == write[lane[i].job]
    IN  /\ lane[i].at = "record"
        /\ IF progress.terminal
           THEN Dispatched(i, "err") /\ UNCHANGED <<progress, attrs>>
           ELSE /\ Dispatched(i, "ok")
                /\ progress' = Advanced(progress, w.seq)
                /\ attrs' = [j \in Inode |-> IF j \in w.inos THEN Tail(attrs[j]) ELSE attrs[j]]
        /\ UNCHANGED <<gate, runtime, base, down, clients, fails>>

\* runtime.complete waits for the readers that hold the retirement lock, retires
\* the completed prefix of the entries and lets an idle runtime go.
Retired(rt, n) ==
    LET done == rt.done \cup {n}
        k == Max({m \in 0..Len(rt.entries) : \A j \in 1..m : rt.entries[j] \in done})
    IN  [rt EXCEPT !.through = @ + k, !.entries = SubSeq(@, k + 1, Len(@)),
                   !.done = done \ Range(SubSeq(rt.entries, 1, k))]

Complete(i) ==
    /\ lane[i].at = "ok"
    /\ \A c \in Client : ~(reader[c].pinned /\ reader[c].ino = i)
    /\ runtime' = [runtime EXCEPT ![i] =
                     IF @.terminal THEN @ ELSE Reaped(Retired(@, lane[i].job), i, Nobody)]
    /\ lane' = [lane EXCEPT ![i].job = Nobody, ![i].at = "idle"]
    /\ UNCHANGED <<write, gate, attrs, base, progress, down, clients, fails>>

\* runtime.fail and poison: the entry stays pinned, nothing more is accepted.
Fail(i) ==
    /\ lane[i].at = "err"
    /\ runtime' = [runtime EXCEPT ![i].terminal = TRUE]
    /\ progress' = [progress EXCEPT !.terminal = TRUE]
    /\ down' = [budget |-> TRUE, frozen |-> TRUE]
    /\ lane' = [lane EXCEPT ![i].job = Nobody, ![i].at = "idle"]
    /\ UNCHANGED <<write, gate, attrs, base, clients, fails>>

LaneStep(i) ==
    \/ Retire(i) \/ Arrive(i) \/ WaitResult(i) \/ TakeReceiver(i) \/ Receive(i)
    \/ ApplyRefused(i) \/ Submit(i) \/ Commit(i) \/ Record(i) \/ Complete(i) \/ Fail(i)
-----------------------------------------------------------------------------
(* Reads: read_file_visible, VolatileWriteRuntime::read *)

\* The inode is read first; its size is used to the end.
ReadInode(c, i) ==
    /\ Idle(c)
    /\ reader' = [reader EXCEPT ![c] =
                    [NotReading EXCEPT !.pc = "inode", !.ino = i, !.canon = CanonicalSize(i),
                                       !.seen = {View(i)}]]
    /\ UNCHANGED <<pipeline, runtime, base, flusher, fence, punched>>

Answer(c, data) == [reader[c] EXCEPT !.pc = "done", !.data = data, !.pinned = FALSE]

\* The visible size, then the runtime, if there is one, with its retirement lock
\* shared; published entries that cover everything are the answer.
ReadOverlay(c) ==
    LET i == reader[c].ino
        size == SizeFrom(i, reader[c].canon)
        blank == [x \in 1..size |-> Zero]
        cover == Overlaid(i, blank)
    IN  /\ reader[c].pc = "inode"
        /\ reader' = [reader EXCEPT ![c] =
                        IF Zero \notin Range(cover) THEN Answer(c, cover)
                        ELSE [@ EXCEPT !.pc = "base", !.data = blank, !.pinned = runtime[i].up]]
        /\ UNCHANGED <<pipeline, runtime, base, flusher, fence, punched>>

\* Mutant: the overlay is the one of before the canonical read, not pinned.
MutReadBaseUnpinned(c) ==
    LET bytes == [x \in DOMAIN reader[c].data |->
                    IF x <= reader[c].canon THEN base[reader[c].ino].at[x] ELSE Zero]
    IN  /\ reader[c].pc = "base"
        /\ reader' = [reader EXCEPT ![c] = [@ EXCEPT !.pc = "merge", !.data = bytes, !.pinned = FALSE]]
        /\ UNCHANGED <<pipeline, runtime, base, flusher, fence, punched>>

\* canonical_read_base: zeros above the size that was read with the inode.
ReadBase(c) ==
    LET bytes == [x \in DOMAIN reader[c].data |->
                    IF x <= reader[c].canon THEN base[reader[c].ino].at[x] ELSE Zero]
    IN  /\ reader[c].pc = "base"
        /\ reader' = [reader EXCEPT ![c] =
                        IF reader[c].pinned THEN [@ EXCEPT !.pc = "merge", !.data = bytes]
                                            ELSE Answer(c, bytes)]
        /\ UNCHANGED <<pipeline, runtime, base, flusher, fence, punched>>

\* The entries published by now go on top; the runtime is released.
ReadMerge(c) ==
    LET i == reader[c].ino
    IN  /\ reader[c].pc = "merge"
        /\ reader' = [reader EXCEPT ![c] = Answer(c, Overlaid(i, reader[c].data))]
        /\ Release(c, {i})
        /\ UNCHANGED <<pipeline, base, flusher, fence, punched>>

ReadEnd(c) ==
    /\ reader[c].pc = "done"
    /\ reader' = [reader EXCEPT ![c] = NotReading]
    /\ UNCHANGED <<pipeline, runtime, base, flusher, fence, punched>>

ReadStep(c) == ReadOverlay(c) \/ ReadBase(c) \/ ReadMerge(c) \/ ReadEnd(c)

-----------------------------------------------------------------------------
(* A flush: capture_mutation_cutoff, then materialize_through_cutoff *)

Unapplied(i, target) == runtime[i].through < target

\* Mutant: a waiter looks at the sequence alone.
MutLaneErrorUnseen(i) == FALSE

\* wait_materialized of a runtime fails once the runtime or the budget did.
LaneError(i) == runtime[i].terminal \/ down.budget

BeginFlush(c) ==
    /\ Idle(c)
    /\ flusher' = [flusher EXCEPT ![c] =
                     [NoFlush EXCEPT !.pc = "cutoff", !.cutoff = gate.through,
                                     !.must = {n \in DOMAIN write : Visible(n)}]]
    /\ UNCHANGED <<pipeline, runtime, base, reader, fence, punched>>

\* wait_all captures every registered runtime and its accepted sequence.
FlushTargets(c) ==
    /\ flusher[c].pc = "cutoff"
    /\ flusher' = [flusher EXCEPT ![c].pc = "lanes",
                     ![c].targets = [i \in {j \in Inode : runtime[j].up} |->
                                        runtime[i].through + Len(runtime[i].entries)]]
    /\ UNCHANGED <<pipeline, runtime, base, reader, fence, punched>>

FlushLanes(c) ==
    LET targets == flusher[c].targets
        wrong == \E i \in DOMAIN targets : LaneError(i)
    IN  /\ flusher[c].pc = "lanes"
        /\ wrong \/ \A i \in DOMAIN targets : ~Unapplied(i, targets[i])
        /\ flusher' = [flusher EXCEPT ![c] = IF wrong THEN NoFlush
                                             ELSE [@ EXCEPT !.pc = "progress", !.targets = <<>>]]
        /\ Release(c, DOMAIN targets)
        /\ UNCHANGED <<pipeline, base, reader, fence, punched>>

FlushProgress(c) ==
    /\ flusher[c].pc = "progress"
    /\ progress.terminal \/ progress.through >= flusher[c].cutoff
    /\ flusher' = [flusher EXCEPT ![c] = IF progress.terminal THEN NoFlush ELSE [@ EXCEPT !.pc = "ok"]]
    /\ UNCHANGED <<pipeline, runtime, base, reader, fence, punched>>

FlushEnd(c) ==
    /\ flusher[c].pc = "ok"
    /\ flusher' = [flusher EXCEPT ![c] = NoFlush]
    /\ UNCHANGED <<pipeline, runtime, base, reader, fence, punched>>

FlushStep(c) == FlushTargets(c) \/ FlushLanes(c) \/ FlushProgress(c) \/ FlushEnd(c)

-----------------------------------------------------------------------------
(* A metadata operation behind its fence: fence_metadata, then a hole punch *)

FenceRest == <<pipeline, reader, flusher>>

\* begin_close
FenceClose(c, i) ==
    /\ Idle(c) /\ ~gate.terminal /\ punched < MaxPunches
    /\ fence' = [fence EXCEPT ![c] = [NoFence EXCEPT !.pc = "close", !.ino = i]]
    /\ UNCHANGED <<FenceRest, runtime, base, punched>>

\* Mutant: the guards that were registered before the closure are not waited for.
MutFenceQuietEager(c) ==
    /\ fence[c].pc = "close"
    /\ fence' = [fence EXCEPT ![c] = IF gate.terminal THEN NoFence
                                     ELSE [@ EXCEPT !.pc = "drain", !.cutoff = gate.through]]
    /\ UNCHANGED <<FenceRest, runtime, base, punched>>

\* wait_closed: the guards of before the closure are gone; an error reopens.
FenceQuiet(c) ==
    /\ fence[c].pc = "close"
    /\ gate.terminal \/ \A n \in On(fence[c].ino) : ~Active(n)
    /\ fence' = [fence EXCEPT ![c] = IF gate.terminal THEN NoFence
                                     ELSE [@ EXCEPT !.pc = "drain", !.cutoff = gate.through]]
    /\ UNCHANGED <<FenceRest, runtime, base, punched>>

\* wait_materialized, and the target of quiesce_overlay_inode.
FenceDrain(c) ==
    LET rt == runtime[fence[c].ino]
        wrong == progress.terminal /\ fence[c].cutoff > 0
    IN  /\ fence[c].pc = "drain"
        /\ wrong \/ progress.through >= fence[c].cutoff
        /\ fence' = [fence EXCEPT ![c] = IF wrong THEN NoFence ELSE
                       [@ EXCEPT !.pc = IF rt.up THEN "lane" ELSE "held",
                                 !.target = rt.through + Len(rt.entries)]]
        /\ UNCHANGED <<FenceRest, runtime, base, punched>>

FenceLane(c) ==
    LET i == fence[c].ino
    IN  /\ fence[c].pc = "lane"
        /\ LaneError(i) \/ ~Unapplied(i, fence[c].target)
        /\ fence' = [fence EXCEPT ![c] = IF LaneError(i) THEN NoFence ELSE [@ EXCEPT !.pc = "held"]]
        /\ Release(c, {i})
        /\ UNCHANGED <<FenceRest, base, punched>>

\* fallocate under the inode lock (one that fails changes nothing and is left
\* out); the fence reopens when it is dropped.
Punch(c) ==
    LET i == fence[c].ino
    IN  /\ fence[c].pc = "held" /\ ~Locked(i)
        /\ base' = [base EXCEPT ![i].at = [x \in Cell |-> Zero]]
        /\ punched' = punched + 1
        /\ fence' = [fence EXCEPT ![c] = NoFence]
        /\ UNCHANGED <<pipeline, runtime, flusher>>
        /\ Witness({i})

FenceStep(c) == FenceQuiet(c) \/ FenceDrain(c) \/ FenceLane(c) \/ Punch(c)

\* stop_new_mutation_admission and freeze_terminal.
Stop ==
    /\ Stops /\ ~gate.terminal
    /\ gate' = [gate EXCEPT !.terminal = TRUE]
    /\ down' = [down EXCEPT !.frozen = TRUE]
    /\ UNCHANGED <<write, runtime, lane, attrs, base, progress, clients, fails>>

-----------------------------------------------------------------------------
\* What goes on by itself once it was begun.
Work ==
    \/ \E n \in DOMAIN write : WriteStep(n)
    \/ \E i \in Inode : LaneStep(i)
    \/ \E c \in Client : ReadStep(c) \/ FlushStep(c) \/ FenceStep(c)

Next ==
    \/ Work
    \/ \E inos \in (SUBSET Inode) \ {{}}, cells \in Extents : Begin(inos, cells)
    \/ \E c \in Client, i \in Inode : ReadInode(c, i) \/ FenceClose(c, i)
    \/ \E c \in Client : BeginFlush(c)
    \/ \E n \in DOMAIN write : PrepareFails(n)
    \/ \E i \in Inode : ApplyFails(i)
    \/ Stop

Spec == Init /\ [][Next]_vars

-----------------------------------------------------------------------------
(* Properties *)

\* Types; a lane's jobs are the entries not yet retired, in their order, unless
\* the inode's runtime has failed; a write is recorded only when committed.
TypeOK ==
    /\ \A n \in DOMAIN write :
          /\ write[n].inos \subseteq Inode /\ write[n].cells \in Extents
          /\ write[n].result \in {"none", "ok", "err"}
          /\ write[n].seq \in 0..gate.through
          /\ Visible(n) /\ write[n].result = "ok" => write[n].committed
    /\ progress.through <= gate.through
    /\ \A i \in Inode :
          /\ ~runtime[i].terminal =>
                runtime[i].entries = (IF lane[i].job = Nobody THEN <<>> ELSE <<lane[i].job>>)
                                        \o lane[i].queue
          /\ runtime[i].done = {}
          /\ Len(attrs[i]) <= MaxWrites

\* The pipeline implements VolatileFile: whatever the lanes, the rollbacks, the
\* failures and the fences do behind it, a client sees every acknowledged write
\* at once on all its inodes, once, and never again after a later hole punch.
Promise == INSTANCE VolatileFile WITH
    Data <- 1..MaxWrites, file <- [i \in Inode |-> Contents(i)],
    acked <- {n \in DOMAIN write : Visible(n)}
ImplementsVolatileFile == Promise!Spec

\* "Partially materialized data can never escape through the base layer": every
\* cell of a read is one the inode had at some moment of the read, and the read
\* reaches at least as far as the inode always did.
ReadsRegular ==
    \A c \in Client : reader[c].pc = "done" =>
        LET data == reader[c].data
        IN  /\ \A k \in DOMAIN data : \E v \in reader[c].seen : k <= Len(v) /\ data[k] = v[k]
            /\ \E v \in reader[c].seen : Len(v) <= Len(data)

\* A flush that succeeds covers every write acknowledged before it was asked for.
FlushApplies ==
    \A c \in Client : flusher[c].pc = "ok" => \A n \in flusher[c].must : write[n].committed

\* Nobody is left waiting.  Work never goes round in a circle, so it ends; and
\* when there is none left, every write was acknowledged or has failed, every
\* acknowledged one was applied unless the service is poisoned, and every read,
\* flush and fence has ended.
NobodyStuck ==
    ENABLED Work \/
        /\ \A n \in DOMAIN write :
              /\ write[n].pc \in {"acked", "failed"}
              /\ Visible(n) => write[n].committed \/ progress.terminal
        /\ \A c \in Client : Idle(c)
=============================================================================
