----------------------------- MODULE Writeback -----------------------------
(***************************************************************************)
(* The write-back tier (zerofs/src/writeback): an object store in front of *)
(* the slow one.  A mutation is accepted into memory (overlay.rs), made    *)
(* durable on the local disk in batches (journaler.rs, journal.rs) and     *)
(* applied to the remote store later, in order (remote.rs).  The process   *)
(* may crash between any two steps and is started again on the same disk.  *)
(*                                                                         *)
(* Abstractions.  A payload is a number, and so is the version the remote  *)
(* store gives an object with that content.  Preparing a record does no    *)
(* input or output and is part of assembling its batch.  Byte budgets      *)
(* (admission.rs, reservation.rs), multipart uploads and the graceful      *)
(* shutdown are left out: a shutdown is a crash that comes late enough.    *)
(* A request to the remote store takes effect before its answer or its     *)
(* error is seen, or never.  Nobody else writes to the remote store.       *)
(***************************************************************************)
EXTENDS Integers, Sequences, FiniteSets, FiniteSetsExt, SequencesExt

CONSTANTS
    DataKey,    \* immutable objects: segments and sorted tables
    FenceKey,   \* objects that are overwritten: manifests and the like
    NoKey,
    AckSsd,     \* AckMode::Ssd: the caller waits for the local journal
    BatchMax,   \* MAX_LOCAL_PUBLISH_BATCH_RECORDS
    Writers,    \* MAX_CONCURRENT_CONTAINER_WRITES
    Lanes,      \* upload_concurrency
    PerLane,    \* SCHEDULER_WINDOW_PER_LANE
    MaxOps, MaxFails, MaxErrors, MaxCrashes    \* bounds of the model

ASSUME WritebackBounds ==
    /\ DataKey \cap FenceKey = {} /\ NoKey \notin DataKey \cup FenceKey
    /\ AckSsd \in BOOLEAN
    /\ {BatchMax, Writers, Lanes, PerLane} \subseteq Nat \ {0}
    /\ {MaxOps, MaxFails, MaxErrors, MaxCrashes} \subseteq Nat

VARIABLES
    log,      \* the mutations accepted and not lost; the index is the sequence
    overlay,  \* OverlayState: where the payload of a pending sequence is read
    disk,     \* the journal: its records, watermarks, versions and containers
    drain,    \* run_journaler: the batches between assembly and commit
    barrier,  \* the local watermark that wait_local answers from
    failed,   \* the sequences withdrawn when their caller was told of an error
    sched,    \* run_remote_scheduler
    remote,   \* the remote store: the content of each object
    proc,     \* the process: serving, or a step of Journal::open
    used      \* how much of each bound is used

vars == <<log, overlay, disk, drain, barrier, failed, sched, remote, proc, used>>

Key == DataKey \cup FenceKey
Absent == 0
Lost == -1
Content == 1..MaxOps
Sequence == 1..MaxOps

\* MutationRecord: its path, kind, rename source and payload and, for a
\* conditional update, the version it replaces: a local one (seq) or one of
\* the remote store (tag).
Mutation ==
    [key : Key, kind : {"create", "overwrite", "update", "delete", "rename"},
     src : Key \cup {NoKey}, val : Content \cup {Absent},
     seq : Sequence \cup {0}, tag : Content \cup {Absent}]

HasPayload(m) == m.kind # "delete"

\* classify_mutation_fence: only the creation of an immutable object may
\* overtake earlier mutations.
ImmutableCreate(m) == m.kind = "create" /\ m.key \in DataKey

Touched(m) == {m.key, m.src} \ {NoKey}

\* What m leaves at k, one of the keys it touches.
Effect(m, k) == IF m.key = k THEN m.val ELSE Absent

\* The content of k once the mutations S of the log have been applied.
View(S, k) ==
    LET on == {s \in S : k \in Touched(log[s])}
    IN  IF on = {} THEN Absent ELSE Effect(log[Max(on)], k)

-----------------------------------------------------------------------------
Idle(next) ==
    [mode |-> "wait", next |-> next, window |-> {}, active |-> {}, done |-> {},
     commit |-> "idle", last |-> 0, retry |-> FALSE, why |-> "none"]

NoVersion == [seq |-> 0, tag |-> Absent]

Init ==
    /\ log = <<>>
    /\ overlay = <<>>
    /\ disk = [rows |-> {}, local |-> 0, remote |-> 0, blobs |-> {},
               versions |-> [k \in Key |-> NoVersion]]
    /\ drain = [state |-> "up", admitted |-> 0, batches |-> <<>>]
    /\ barrier = 0
    /\ failed = {}
    /\ sched = Idle(1)
    /\ remote = [k \in Key |-> Absent]
    /\ proc = "up"
    /\ used = [ops |-> 0, fails |-> 0, errors |-> 0, crashes |-> 0]

Use(b) == used' = [used EXCEPT ![b] = @ + 1]

\* open_verified_blob: the record is there and its container is complete.
BlobReadable(s) ==
    /\ s \in disk.rows
    /\ \E c \in disk.blobs : c.state = "whole" /\ s \in c.first..c.last

\* What k holds to one who looks it up and fetches it with nothing in between:
\* the newest pending entry, else the remote store.  A writer looks while it
\* holds the lock of k, when no other writer changes it; WritebackReads.tla takes
\* the steps of a reader apart.
Visible(k) ==
    LET on == {s \in DOMAIN overlay : k \in Touched(log[s])}
        s == Max(on)
    IN  IF on = {} THEN remote[k]
        ELSE IF Effect(log[s], k) = Absent THEN Absent
        ELSE IF overlay[s] = "memory" \/ BlobReadable(s) THEN log[s].val
        ELSE Lost

-----------------------------------------------------------------------------
(* Accepting a mutation. *)


\* owned_put_verified_inner, owned_delete, owned_copy_or_rename from the
\* allocation of the sequence on: the global order lock is held until the
\* record is in the overlay and in the journaler's queue.
Accept(m) ==
    /\ proc = "up" /\ drain.state # "failed" /\ sched.why = "none"
    /\ used.ops < MaxOps
    /\ log' = Append(log, m)
    /\ overlay' = [s \in DOMAIN overlay \cup {Len(log) + 1} |->
                      IF s \in DOMAIN overlay THEN overlay[s] ELSE "memory"]
    /\ Use("ops")
    /\ UNCHANGED <<disk, drain, barrier, failed, sched, remote, proc>>

Plain(k, kind, src, val) ==
    [key |-> k, kind |-> kind, src |-> src, val |-> val, seq |-> 0, tag |-> Absent]

NewContent == used.ops + 1

\* validate_put_mode: a create needs a key where nothing is visible.
Create(k) ==
    /\ Visible(k) = Absent
    /\ Accept(Plain(k, "create", NoKey, NewContent))

Overwrite(k) == Accept(Plain(k, "overwrite", NoKey, NewContent))

Delete(k) == Accept(Plain(k, "delete", NoKey, Absent))

\* visible_version and validate_put_mode for a caller that knows the current
\* version: it is a local one while the entry is pending.
Update(k) ==
    LET on == {s \in DOMAIN overlay : k \in Touched(log[s])}
    IN  /\ Visible(k) # Absent
        /\ Accept([Plain(k, "update", NoKey, NewContent) EXCEPT
                      !.seq = IF on = {} THEN 0 ELSE Max(on),
                      !.tag = IF on = {} THEN remote[k] ELSE Absent])

\* The payload of a rename is what its source holds, read under both key locks.
\* Where that read fails the rename does too, and nothing is accepted.
Rename(from, to) ==
    /\ Visible(from) \notin {Absent, Lost}
    /\ Accept(Plain(to, "rename", from, Visible(from)))

-----------------------------------------------------------------------------
(* The local journal: stage a container, commit its records, observe.      *)


Members(b) == b.first..b.last

\* stage_batch names a container after the records that refer to it.
ContainerOf(b) ==
    LET heavy == {s \in Members(b) : HasPayload(log[s])}
    IN  IF heavy = {} THEN {}
        ELSE {[first |-> Min(heavy), last |-> Max(heavy), state |-> "torn"]}

\* The container of b written out, and b's container unlinked.
Written(b) == {IF Members(b) \cap (c.first..c.last) # {} THEN [c EXCEPT !.state = "whole"]
               ELSE c : c \in disk.blobs}
Unlinked(b) == {c \in disk.blobs : Members(b) \cap (c.first..c.last) = {}}

InStage(stage) == {i \in DOMAIN drain.batches : drain.batches[i].stage = stage}

Serving == proc = "up"

\* assemble_batch and the staging loop: the longest run that is prepared, of
\* any length, becomes a batch whose container is being written.
Assemble(n) ==
    LET b == [first |-> drain.admitted + 1, last |-> drain.admitted + n,
              stage |-> "staging"]
    IN  /\ Serving /\ drain.state = "up"
        /\ Cardinality(InStage("staging")) < Writers
        /\ Len(drain.batches) < Writers + 1
        /\ b.last <= Len(log)
        /\ drain' = [drain EXCEPT !.admitted = b.last, !.batches = Append(@, b)]
        /\ disk' = [disk EXCEPT !.blobs = @ \cup ContainerOf(b)]
        /\ UNCHANGED <<log, overlay, barrier, failed, sched, remote, proc, used>>

\* write_container and the directory sync end; after a failure elsewhere the
\* batch is discarded instead.
StageEnd(i) ==
    LET b == drain.batches[i]
    IN  /\ Serving /\ i \in InStage("staging")
        /\ IF drain.state = "up"
           THEN /\ drain' = [drain EXCEPT !.batches[i].stage = "ready"]
                /\ disk' = [disk EXCEPT !.blobs = Written(b)]
           ELSE /\ drain' = [drain EXCEPT !.batches = RemoveAt(@, i)]
                /\ disk' = [disk EXCEPT !.blobs = Unlinked(b)]
        /\ UNCHANGED <<log, overlay, barrier, failed, sched, remote, proc, used>>

\* A container cannot be written: it is unlinked and the drain gives up.
StageFails(i) ==
    /\ Serving /\ i \in InStage("staging")
    /\ used.fails < MaxFails /\ Use("fails")
    /\ drain' = [drain EXCEPT !.state = "failing", !.batches = RemoveAt(@, i)]
    /\ disk' = [disk EXCEPT !.blobs = Unlinked(drain.batches[i])]
    /\ UNCHANGED <<log, overlay, barrier, failed, sched, remote, proc>>

\* The oldest batch in assembly order enters the commit half when it is free.
CommitStart ==
    /\ Serving /\ drain.state = "up" /\ 1 \in InStage("ready")
    /\ drain' = [drain EXCEPT !.batches[1].stage = "committing"]
    /\ UNCHANGED <<log, overlay, disk, barrier, failed, sched, remote, proc, used>>

\* Mutant: the watermark counts one record too many.
MutCommittedAhead(b) == [disk EXCEPT !.rows = @ \cup Members(b), !.local = b.last + 1]

\* commit_record_batch: the records and the watermark in one transaction.
Committed(b) == [disk EXCEPT !.rows = @ \cup Members(b), !.local = b.last]

Commit ==
    /\ Serving /\ 1 \in InStage("committing")
    /\ drain.batches[1].first = disk.local + 1
    /\ disk' = Committed(drain.batches[1])
    /\ drain' = [drain EXCEPT !.batches[1].stage = "observing"]
    /\ UNCHANGED <<log, overlay, barrier, failed, sched, remote, proc, used>>

\* The transaction fails, before or after it took effect; the container stays.
CommitFails(durable) ==
    /\ Serving /\ 1 \in InStage("committing")
    /\ used.fails < MaxFails /\ Use("fails")
    /\ disk' = IF durable THEN Committed(drain.batches[1]) ELSE disk
    /\ drain' = [drain EXCEPT !.state = "failing", !.batches = Tail(@)]
    /\ UNCHANGED <<log, overlay, barrier, failed, sched, remote, proc>>

\* mark_local_batch on the entries S.
Spilled(S) == [s \in DOMAIN overlay |-> IF s \in S THEN "journal" ELSE overlay[s]]

\* finish_commit: the observer moves the entries of the batch onto the journal,
\* then the barrier moves; an entry that is gone stops the drain.
Observe ==
    LET b == drain.batches[1]
        gone == Members(b) \ DOMAIN overlay
    IN  /\ Serving /\ 1 \in InStage("observing")
        /\ IF gone = {}
           THEN /\ overlay' = Spilled(Members(b))
                /\ barrier' = b.last
                /\ drain' = [drain EXCEPT !.batches = Tail(@)]
           ELSE /\ overlay' = Spilled(b.first..Min(gone))
                /\ UNCHANGED barrier
                /\ drain' = [drain EXCEPT !.state = "failing", !.batches = Tail(@)]
        /\ UNCHANGED <<log, disk, failed, sched, remote, proc, used>>

\* The loop ends after what was in flight: staged containers are unlinked and
\* the failure is published to the waiters.
GiveUp ==
    /\ Serving /\ drain.state = "failing"
    /\ InStage("ready") = DOMAIN drain.batches
    /\ drain' = [drain EXCEPT !.state = "failed", !.batches = <<>>]
    /\ disk' = [disk EXCEPT !.blobs =
                   {c \in @ : \A i \in DOMAIN drain.batches : c \in Unlinked(drain.batches[i])}]
    /\ UNCHANGED <<log, overlay, barrier, failed, sched, remote, proc, used>>

\* Mutant: the waiter's error is taken for the fate of its record.
MutReconcileWithdraws(s) ==
    /\ Serving /\ AckSsd /\ drain.state = "failed"
    /\ s \in DOMAIN overlay /\ barrier < s
    /\ overlay' = [t \in DOMAIN overlay \ {s} |-> overlay[t]]
    /\ failed' = failed \cup {s}
    /\ UNCHANGED <<log, disk, drain, barrier, sched, remote, proc, used>>

\* reconcile_local_wait_error, for a caller that waited for sequence s: what is
\* durable stays visible, the rest is withdrawn.
Reconcile(s) ==
    /\ Serving /\ AckSsd /\ drain.state = "failed"
    /\ s \in DOMAIN overlay /\ barrier < s
    /\ IF s <= disk.local
       THEN /\ s \in disk.rows /\ overlay[s] = "memory"
            /\ overlay' = Spilled({s})
            /\ UNCHANGED failed
       ELSE /\ overlay' = [t \in DOMAIN overlay \ {s} |-> overlay[t]]
            /\ failed' = failed \cup {s}
    /\ UNCHANGED <<log, disk, drain, barrier, sched, remote, proc, used>>

-----------------------------------------------------------------------------
(* The remote scheduler. *)

WindowSize == Lanes * PerLane

\* load_scheduler_window: the first records from the frontier on, of what the
\* journal holds; validate_scheduler_window rejects a hole above the watermark.
Window ==
    LET from == {s \in disk.rows : s >= sched.next}
    IN  {s \in from : Cardinality({t \in from : t < s}) < WindowSize}

\* Mutant: a frontier that was just pruned counts as a hole.
MutWindowValidStrict ==
    disk.local >= sched.next => sched.next \in Window

WindowValid ==
    LET frontier == Min({Max({disk.remote + 1, sched.next}), disk.local + 1})
    IN  disk.local >= sched.next =>
            IF Window = {} THEN frontier > disk.local
            ELSE /\ Min(Window) <= frontier
                 /\ Window = Min(Window)..Max(Window)

Stop(why) == [sched EXCEPT !.mode = "stopped", !.why = why, !.active = {}]

SchedRest == <<log, drain, barrier, failed, proc>>

\* wait_local(next), then a first window.
Load ==
    /\ Serving /\ sched.mode = "wait"
    /\ \/ /\ barrier >= sched.next
          /\ sched' = IF WindowValid
                      THEN [sched EXCEPT !.mode = "run", !.window = Window]
                      ELSE Stop("corrupt")
       \/ /\ barrier < sched.next /\ drain.state = "failed"
          /\ sched' = Stop("local")
    /\ UNCHANGED <<SchedRest, overlay, disk, remote, used>>

\* Mutant: a fence may overtake too.
MutDispatchableAny ==
    {s \in sched.window :
        /\ sched.next <= s /\ sched.next..s \subseteq sched.window
        /\ s \notin sched.active \cup sched.done
        /\ \A t \in sched.next..(s - 1) : Touched(log[t]) \cap Touched(log[s]) = {}}

\* collect_pipeline_batch: the frontier, and immutable objects ahead of it that
\* no earlier pending record touches.
Dispatchable ==
    {s \in sched.window :
        /\ sched.next <= s /\ sched.next..s \subseteq sched.window
        /\ s \notin sched.active \cup sched.done
        /\ s = sched.next \/ ImmutableCreate(log[s])
        /\ \A t \in sched.next..(s - 1) : Touched(log[t]) \cap Touched(log[s]) = {}}

Available ==
    /\ Cardinality(sched.active) < Lanes
    /\ Cardinality(sched.done) < WindowSize \/ sched.next \in Dispatchable

Dispatch ==
    /\ Serving /\ sched.mode = "run" /\ ~sched.retry
    /\ Dispatchable # {} /\ Available
    /\ sched' = [sched EXCEPT !.active = @ \cup {Min(Dispatchable)}]
    /\ UNCHANGED <<SchedRest, overlay, disk, remote, used>>

\* remote_put_mode: the version a conditional update must find.
Predecessor(m) ==
    IF m.seq = 0 THEN m.tag
    ELSE IF disk.versions[m.key].seq = m.seq THEN disk.versions[m.key].tag
    ELSE Absent

\* apply_record, stream_record_to_remote, verify_existing and
\* is_terminal_remote_error: what applying record s to the remote store comes to.
Outcome(s) ==
    LET m == log[s]
    IN  CASE m.kind = "update" /\ Predecessor(m) = Absent -> "diverged"
          [] m.kind = "update" /\ remote[m.key] = Absent -> "retry"
          [] HasPayload(m) /\ ~BlobReadable(s) -> "retry"
          [] m.kind = "create" /\ remote[m.key] \notin {Absent, m.val} -> "diverged"
          [] m.kind = "update" /\ remote[m.key] \notin {Predecessor(m), m.val} -> "diverged"
          [] OTHER -> "applied"

Applied(m) == [k \in Key |-> IF k \in Touched(m) THEN Effect(m, k) ELSE remote[k]]

\* An upload ends; after a success the window is read again, unless a retry is
\* due.  A divergence is terminal.
Upload(s) ==
    /\ Serving /\ s \in sched.active
    /\ LET result == Outcome(s)
       IN  /\ remote' = IF result = "applied" THEN Applied(log[s]) ELSE remote
           /\ sched' =
                CASE result = "retry" -> [sched EXCEPT !.active = @ \ {s}, !.retry = TRUE]
                  [] result = "diverged" -> Stop("diverged")
                  [] result = "applied" /\ ~sched.retry /\ ~WindowValid -> Stop("corrupt")
                  [] OTHER -> [sched EXCEPT !.active = @ \ {s}, !.done = @ \cup {s},
                                            !.window = IF sched.retry THEN @ ELSE Window]
    /\ UNCHANGED <<SchedRest, overlay, disk, used>>

\* An upload fails: the store did nothing, did everything and the answer was
\* lost, or a rename has its target and still its source.
UploadFails(s) ==
    LET m == log[s]
        half == IF m.kind = "rename" THEN {[remote EXCEPT ![m.key] = m.val]} ELSE {}
        full == IF Outcome(s) = "applied" THEN {Applied(m)} ELSE {}
    IN  /\ Serving /\ s \in sched.active
        /\ used.errors < MaxErrors /\ Use("errors")
        /\ remote' \in {remote} \cup half \cup full
        /\ sched' = [sched EXCEPT !.active = @ \ {s}, !.retry = TRUE]
        /\ UNCHANGED <<SchedRest, overlay, disk>>

\* apply_remote_object_version for the run of sequences S, in order.
Versions(S) ==
    [k \in Key |->
        LET on == {s \in S : k \in Touched(log[s]) /\ ~ImmutableCreate(log[s])}
            s == Max(on)
        IN  IF on = {} THEN disk.versions[k]
            ELSE IF Effect(log[s], k) = Absent THEN NoVersion
            ELSE [seq |-> s, tag |-> log[s].val]]

Marked(last) ==
    [disk EXCEPT !.remote = last, !.versions = Versions(sched.next..last)]

\* start_ready_commit, mark_remote_batch: a run of uploads from the frontier on.
MarkRemote(last) ==
    /\ Serving /\ sched.mode = "run" /\ sched.commit = "idle"
    /\ sched.next <= last /\ sched.next..last \subseteq sched.done
    /\ disk.remote + 1 = sched.next /\ last <= disk.local
    /\ disk' = Marked(last)
    /\ sched' = [sched EXCEPT !.commit = "marked", !.last = last]
    /\ UNCHANGED <<SchedRest, overlay, remote, used>>

\* The transaction fails, before or after it took effect.
MarkFails(last, durable) ==
    /\ Serving /\ sched.mode = "run" /\ sched.commit = "idle"
    /\ sched.next <= last /\ sched.next..last \subseteq sched.done
    /\ used.fails < MaxFails /\ Use("fails")
    /\ disk' = IF durable THEN Marked(last) ELSE disk
    /\ sched' = Stop("io")
    /\ UNCHANGED <<SchedRest, overlay, remote>>

\* Mutant: the last record of the run stays in the overlay.
MutRetireKeepsLast ==
    /\ Serving /\ sched.commit = "marked"
    /\ overlay' = [s \in {t \in DOMAIN overlay : t >= sched.last} |-> overlay[s]]
    /\ sched' = [sched EXCEPT !.commit = "retired"]
    /\ UNCHANGED <<SchedRest, disk, remote, used>>

\* overlay.remove_remote_prefix
Retire ==
    /\ Serving /\ sched.commit = "marked"
    /\ overlay' = [s \in {t \in DOMAIN overlay : t > sched.last} |-> overlay[s]]
    /\ sched' = [sched EXCEPT !.commit = "retired"]
    /\ UNCHANGED <<SchedRest, disk, remote, used>>

\* remove_remote_prefix up to the first transaction: the containers that the
\* records up to `through` refer to and that end there are unlinked.
Swept(through) ==
    {IF /\ c.state = "whole" /\ c.last <= through
        /\ \E s \in disk.rows : s <= through /\ s \in c.first..c.last
     THEN [c EXCEPT !.state = "unlinked"] ELSE c : c \in disk.blobs}

Sweep ==
    /\ Serving /\ sched.commit = "retired"
    /\ disk' = [disk EXCEPT !.blobs = Swept(sched.last)]
    /\ sched' = [sched EXCEPT !.commit = "swept"]
    /\ UNCHANGED <<SchedRest, overlay, remote, used>>

\* The unlinks are synced, and only then the records go.
Pruned(through) ==
    [disk EXCEPT !.rows = {s \in @ : s > through},
                 !.blobs = {c \in @ : c.state # "unlinked"}]

Prune ==
    /\ Serving /\ sched.commit = "swept"
    /\ disk' = Pruned(sched.last)
    /\ sched' = [sched EXCEPT !.commit = "pruned"]
    /\ UNCHANGED <<SchedRest, overlay, remote, used>>

\* finish_ordered_commit
Finish ==
    /\ Serving /\ sched.commit = "pruned"
    /\ sched' = [sched EXCEPT !.commit = "idle", !.next = sched.last + 1,
                              !.done = {s \in @ : s > sched.last}]
    /\ UNCHANGED <<SchedRest, overlay, disk, remote, used>>

\* Mutant: the retry flag survives the round.
MutRestStillRetrying ==
    /\ Serving /\ sched.mode = "run" /\ sched.commit = "idle"
    /\ sched.active = {} /\ sched.next \notin sched.done
    /\ sched.retry \/ Dispatchable = {}
    /\ sched' = [sched EXCEPT !.mode = "wait"]
    /\ UNCHANGED <<SchedRest, overlay, disk, remote, used>>

\* Nothing is in flight and nothing can start: wait for the barrier again.
Rest ==
    /\ Serving /\ sched.mode = "run" /\ sched.commit = "idle"
    /\ sched.active = {} /\ sched.next \notin sched.done
    /\ sched.retry \/ Dispatchable = {}
    /\ sched' = [sched EXCEPT !.mode = "wait", !.retry = FALSE]
    /\ UNCHANGED <<SchedRest, overlay, disk, remote, used>>

-----------------------------------------------------------------------------
(* Crash and Journal::open. *)

\* Unwritten containers and unlinks that were not synced may be there or not;
\* what was only in memory is gone.
Crash ==
    /\ proc # "refused"
    /\ used.crashes < MaxCrashes /\ Use("crashes")
    /\ \E back \in SUBSET {c \in disk.blobs : c.state # "whole"} :
           disk' = [disk EXCEPT !.blobs =
                       {c \in @ : c.state = "whole"} \cup
                       {IF c.state = "torn" THEN c ELSE [c EXCEPT !.state = "whole"] : c \in back}]
    /\ proc' = "opening"
    /\ log' = SubSeq(log, 1, disk.local)
    /\ overlay' = <<>>
    /\ drain' = [state |-> "up", admitted |-> 0, batches |-> <<>>]
    /\ barrier' = 0
    /\ failed' = {}
    /\ sched' = Idle(1)
    /\ UNCHANGED remote

OpenRest == <<log, overlay, drain, barrier, failed, sched, remote, used>>

\* Mutant: a container one past the watermark is taken for a committed one.
MutRemoveUncommittedAhead ==
    /\ proc = "opening"
    /\ disk' = [disk EXCEPT !.blobs = {c \in @ : c.last <= disk.local + 1}]
    /\ proc' = "sweeping"
    /\ UNCHANGED OpenRest

\* recover_local_artifacts, remove_uncommitted_containers
RemoveUncommitted ==
    /\ proc = "opening"
    /\ disk' = [disk EXCEPT !.blobs = {c \in @ : c.last <= disk.local}]
    /\ proc' = "sweeping"
    /\ UNCHANGED OpenRest

\* The cleanup a crash may have interrupted is done again.
OpenSweep ==
    /\ proc = "sweeping"
    /\ disk' = [disk EXCEPT !.blobs = Swept(disk.remote)]
    /\ proc' = "pruning"
    /\ UNCHANGED OpenRest

\* Its second half, and reclaim_drained_containers.
OpenPrune ==
    /\ proc = "pruning"
    /\ disk' = [Pruned(disk.remote) EXCEPT !.blobs = {c \in @ : c.last > disk.remote}]
    /\ proc' = "checking"
    /\ UNCHANGED OpenRest

\* validate_recovery_state: no hole between the watermarks, every payload
\* there, and no container that nothing refers to.
Recoverable ==
    LET pending == {s \in disk.rows : s > disk.remote}
    IN  /\ disk.remote <= disk.local
        /\ pending = disk.remote + 1..disk.local
        /\ \A s \in pending : HasPayload(log[s]) => BlobReadable(s)
        /\ \A c \in disk.blobs : \E s \in pending : HasPayload(log[s]) /\ s \in c.first..c.last

\* The end of Journal::open, OverlayIndex::recover and open_with_remote_state.
Reopen ==
    /\ proc = "checking"
    /\ IF Recoverable
       THEN /\ proc' = "up"
            /\ overlay' = [s \in disk.rows |-> "journal"]
            /\ drain' = [drain EXCEPT !.admitted = disk.local]
            /\ barrier' = disk.local
            /\ sched' = Idle(disk.remote + 1)
       ELSE proc' = "refused" /\ UNCHANGED <<overlay, drain, barrier, sched>>
    /\ UNCHANGED <<log, disk, failed, remote, used>>

-----------------------------------------------------------------------------
ClientStep ==
    \/ \E k \in Key : Create(k) \/ Delete(k)
    \/ \E k \in FenceKey : Overwrite(k) \/ Update(k)
    \/ \E from, to \in Key : from # to /\ Rename(from, to)
    \/ \E s \in Sequence : Reconcile(s)

LocalStep ==
    \/ \E n \in 1..BatchMax : Assemble(n)
    \/ \E i \in DOMAIN drain.batches : StageEnd(i)
    \/ CommitStart \/ Commit \/ Observe \/ GiveUp

RemoteStep ==
    \/ Load \/ Dispatch \/ Retire \/ Sweep \/ Prune \/ Finish \/ Rest
    \/ \E s \in Sequence : Upload(s) \/ MarkRemote(s)

FaultStep ==
    \/ \E i \in DOMAIN drain.batches : StageFails(i)
    \/ \E durable \in BOOLEAN : CommitFails(durable) \/ \E s \in Sequence : MarkFails(s, durable)
    \/ \E s \in Sequence : UploadFails(s)
    \/ Crash

OpenStep == RemoveUncommitted \/ OpenSweep \/ OpenPrune \/ Reopen

Next == ClientStep \/ LocalStep \/ RemoteStep \/ FaultStep \/ OpenStep

Spec == Init /\ [][Next]_vars

\* The journaler and the scheduler are loops that never wait on each other's
\* locks: a step that stays possible is taken.
FairSpec ==
    Spec /\ WF_vars(LocalStep) /\ WF_vars(RemoteStep) /\ WF_vars(OpenStep)

-----------------------------------------------------------------------------
(* Properties. *)

\* Types of the variables.
TypeOK ==
    /\ log \in Seq(Mutation) /\ Len(log) <= MaxOps
    /\ DOMAIN overlay \subseteq DOMAIN log
    /\ \A s \in DOMAIN overlay : overlay[s] \in {"memory", "journal"}
    /\ disk.rows \subseteq DOMAIN log
    /\ {disk.local, disk.remote, barrier, drain.admitted} \subseteq 0..Len(log)
    /\ \A c \in disk.blobs : c.state \in {"torn", "whole", "unlinked"}
    /\ drain.state \in {"up", "failing", "failed"}
    /\ sched.mode \in {"wait", "run", "stopped"}
    /\ remote \in [Key -> Content \cup {Absent}]

\* The content of k that the disk and the remote store give after a crash now.
AfterCrash(k) ==
    LET on == {s \in disk.rows : s > disk.remote /\ k \in Touched(log[s])}
        s == Max(on)
    IN  IF on = {} THEN remote[k]
        ELSE IF Effect(log[s], k) = Absent THEN Absent
        ELSE IF BlobReadable(s) THEN log[s].val
        ELSE Lost

\* An object whose callers all have their answer reads the same after a crash:
\* what was acknowledged is kept and what was withdrawn does not come back
\* (journal.rs commit_record_batch; store.rs await_ack, reconcile_local_wait_error).
AnswersSurvive ==
    proc = "up" =>
        \A k \in Key :
            (\A s \in DOMAIN log :
                k \in Touched(log[s]) =>
                    \/ s <= barrier
                    \/ s \in failed
                    \/ drain.state = "failed" /\ s <= disk.local)
            => AfterCrash(k) = Visible(k)

\* After a crash at any moment the journal opens again (journal.rs
\* validate_recovery_state finds no hole, no missing and no stray container).
RecoveryOpens == proc # "refused"

\* If the local disk is lost, the remote store is still a state the tier went
\* through: fences are those of one moment, with every object accepted before
\* it, and only immutable objects and a half-done rename are ahead of it
\* (remote.rs collect_pipeline_batch, finish_ordered_commit).
RemotePrefix ==
    \E j \in disk.remote..disk.local :
        /\ sched.next <= j + 1 \/ proc # "up"
        /\ \A k \in Key :
            \/ remote[k] = View(1..j, k)
            \/ j < Len(log) /\ k \in Touched(log[j + 1]) /\ remote[k] = log[j + 1].val
               /\ log[j + 1].kind = "rename" /\ log[j + 1].key = k
            \/ \E s \in (j + 1)..disk.local :
                   ImmutableCreate(log[s]) /\ log[s].key = k /\ remote[k] = log[s].val

\* With no other writer the scheduler never meets content or a version it does
\* not know, nor a hole in its window: retries, restarts and the pruning of old
\* records are reconciled (remote.rs remote_put_mode, verify_existing,
\* validate_scheduler_window).
NoFalseDivergence == sched.why \notin {"diverged", "corrupt"}

\* Everything the barrier answered for reaches the remote store, through
\* retries, a failed journaler and restarts, unless the journal's own disk
\* fails (remote.rs run_remote_scheduler).
Drains ==
    \A n \in Sequence : (proc = "up" /\ n <= barrier) ~> (n <= disk.remote \/ sched.why = "io")
=============================================================================
