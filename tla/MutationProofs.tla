--------------------------- MODULE MutationProofs ---------------------------
(***************************************************************************)
(* The mutation pipeline of Mutation, for any number of inodes, clients,   *)
(* writes, punches and failures:                                           *)
(*   - a flush that succeeds covers every write acknowledged before it;    *)
(*   - the clients see an array of cells that a write changes at once, on  *)
(*     all its inodes and exactly once (VolatileFile).                     *)
(* MutInv below is the inductive invariant both rest on.                   *)
(***************************************************************************)
EXTENDS Mutation, NaturalsFacts, FiniteSetTheorems, FunctionTheorems, SequenceTheorems, TLAPS

-----------------------------------------------------------------------------
(* The inductive invariant *)

Names == 1..MaxWrites
Sizes == 0..Cells
Pcs == {"waiting", "reserved", "prepared", "staged", "published", "acked", "dropped", "releasing", "failed"}
Results == {"none", "ok", "err"}
Steps == {"idle", "wait", "take", "receive", "apply", "commit", "record", "ok", "err"}

Writes == [pc : Pcs, inos : (SUBSET Inode) \ {{}}, cells : Extents, size : [Inode -> Sizes],
           seq : Nat, held : BOOLEAN, arrived : Nat, cancelled : BOOLEAN,
           result : Results, committed : BOOLEAN]
Runtimes == [up : BOOLEAN, through : Nat, entries : Seq(Names), done : {{}}, terminal : BOOLEAN]
Lanes == [up : BOOLEAN, queue : Seq(Names), job : 0..MaxWrites, at : Steps]
Files == [size : Sizes, at : [Cell -> 0..MaxWrites]]
Targets == {<<>>} \cup UNION {[S -> Nat] : S \in SUBSET Inode}
Flushers == [pc : {"idle", "cutoff", "lanes", "progress", "ok"}, cutoff : Nat, targets : Targets, must : SUBSET Names]
FenceTypes == [pc : {"idle", "close", "drain", "lane", "held"}, ino : Inode \cup {Nobody}, cutoff : Nat, target : Nat]

Types ==
    /\ write \in Seq(Writes) /\ Len(write) <= MaxWrites
    /\ gate \in [through : Nat, terminal : BOOLEAN]
    /\ runtime \in [Inode -> Runtimes]
    /\ lane \in [Inode -> Lanes]
    /\ attrs \in [Inode -> Seq(Names)]
    /\ base \in [Inode -> Files]
    /\ progress \in [through : Nat, pending : SUBSET Nat, terminal : BOOLEAN]
    /\ IsFiniteSet(progress.pending)
    /\ down \in [budget : BOOLEAN, frozen : BOOLEAN]
    /\ fence \in [Client -> FenceTypes]

(* What the outcome and the permits of a write say of how far it has got.   *)
Life(n) ==
    /\ write[n].cancelled => write[n].pc \in {"releasing", "failed"}
    /\ write[n].result # "none" => write[n].pc \in {"acked", "dropped", "releasing", "failed"}
    /\ write[n].pc = "releasing" => write[n].result # "none"
    /\ write[n].committed => Visible(n)
    /\ Visible(n) /\ write[n].result = "ok" => write[n].committed
    /\ write[n].pc \in {"prepared", "staged", "published"} => write[n].held
    /\ \A i \in write[n].inos : Active(n) => runtime[i].up
Lives == \A n \in DOMAIN write : Life(n)

(* The runtime and the lane of an inode: its jobs are its entries, unless   *)
(* the runtime has failed, and then they are among them.                    *)
Staged == {"staged", "published", "acked", "dropped", "releasing", "failed"}
Injective(s) == \A j, k \in DOMAIN s : s[j] = s[k] => j = k
InLane(i, n) == lane[i].job = n \/ n \in Range(lane[i].queue)
Tracked(i) ==
    /\ ~runtime[i].up => runtime[i] = NoRuntime
    /\ runtime[i].terminal => progress.terminal /\ down.frozen
    /\ Injective(runtime[i].entries) /\ Injective(lane[i].queue)
    /\ \A n \in Range(runtime[i].entries) :
          n \in DOMAIN write /\ write[n].pc \in Staged /\ i \in write[n].inos
    /\ \A n \in Range(lane[i].queue) : n \in Range(runtime[i].entries) /\ n # lane[i].job /\ ~write[n].committed
    /\ lane[i].job # Nobody => lane[i].job \in Range(runtime[i].entries)
    /\ lane[i].at = "idle" <=> lane[i].job = Nobody
    /\ ~runtime[i].terminal =>
          IF lane[i].job = Nobody THEN runtime[i].entries = lane[i].queue
          ELSE Len(runtime[i].entries) > 0 /\ Head(runtime[i].entries) = lane[i].job
               /\ Tail(runtime[i].entries) = lane[i].queue
Tracking == \A i \in Inode : Tracked(i)

(* A write that was staged and has no outcome is in the lanes of its inodes. *)
Unsettled(n) == write[n].pc \in Staged \ {"failed"} /\ write[n].result = "none"
Waiting == \A n \in DOMAIN write : Unsettled(n) => \A i \in write[n].inos : InLane(i, n)

(* The inode locks: one write has that of an inode, and it is the last of   *)
(* the inode's entries.                                                     *)
Locking ==
    /\ \A n, m \in DOMAIN write :
          write[n].held /\ write[m].held /\ write[n].inos \cap write[m].inos # {} => n = m
    /\ \A i \in Inode : \A k \in DOMAIN runtime[i].entries :
          write[runtime[i].entries[k]].held => k = Len(runtime[i].entries)

(* A write without an outcome has arrived in the lanes that have it as      *)
(* their job.  One lane dispatches it, when all have.                       *)
Dispatching(i) == lane[i].at \in {"take", "receive", "apply", "commit", "record"}
Applying(i) == lane[i].at \in {"apply", "commit", "record"}
Arrived(n) == {i \in write[n].inos : lane[i].job = n}
Arrivals ==
    /\ \A n \in DOMAIN write : write[n].result = "none" => write[n].arrived = Cardinality(Arrived(n))
    /\ \A i \in Inode : Dispatching(i) /\ write[lane[i].job].result = "none" =>
          \A j \in write[lane[i].job].inos : lane[j].job = lane[i].job
    /\ \A i, j \in Inode : Dispatching(i) /\ Dispatching(j) /\ lane[i].job = lane[j].job => i = j
OutcomeOf(i) ==
    /\ Applying(i) => Visible(lane[i].job)
    /\ Dispatching(i) /\ Visible(lane[i].job) => write[lane[i].job].result = "none"
    /\ lane[i].at = "record" => write[lane[i].job].committed
    /\ lane[i].at \in {"ok", "err"} =>
          /\ write[lane[i].job].result # "none"
          /\ Visible(lane[i].job) => write[lane[i].job].result = lane[i].at
Outcomes == \A i \in Inode : OutcomeOf(i)

(* What a lane's job has committed is still there.                          *)
Applied == \A i \in Inode : lane[i].job # Nobody /\ write[lane[i].job].committed =>
    \A x \in write[lane[i].job].cells : base[i].at[x] = lane[i].job

(* Sequences are given out once, and only committed writes are recorded.    *)
Recorded(s) == \E n \in DOMAIN write : write[n].seq = s /\ write[n].committed
Sequenced ==
    /\ \A n \in DOMAIN write : /\ write[n].seq <= gate.through
                               /\ write[n].seq > 0 <=> write[n].pc \in {"published", "acked"}
    /\ \A n, m \in DOMAIN write : write[n].seq = write[m].seq /\ write[n].seq > 0 => n = m
    /\ \A s \in Nat \ {0} : s <= progress.through \/ s \in progress.pending => Recorded(s)

(* A flush waits for what it must cover.                                    *)
Covering(c) ==
    /\ flusher[c].pc # "idle" =>
          \A n \in flusher[c].must : n \in DOMAIN write /\ Visible(n) /\ write[n].seq <= flusher[c].cutoff
    /\ flusher[c].pc = "ok" => flusher[c].cutoff <= progress.through
Flushing == flusher \in [Client -> Flushers] /\ \A c \in Client : Covering(c)

(* The attributes previewed are those of the acknowledged writes not yet    *)
(* applied, in the order of the lane, unless the pipeline is poisoned.      *)
Ordered(i) ==
    \A a, b \in DOMAIN attrs[i], p, q \in DOMAIN runtime[i].entries :
       a < b /\ runtime[i].entries[p] = attrs[i][a] /\ runtime[i].entries[q] = attrs[i][b] => p < q
PreviewOf(i) ==
    /\ Injective(attrs[i])
    /\ \A n \in Range(attrs[i]) : n \in On(i) /\ Visible(n)
    /\ ~progress.terminal =>
          /\ \A n \in Range(attrs[i]) : write[n].result = "none"
          /\ \A n \in On(i) : Visible(n) /\ write[n].result = "none" => n \in Range(attrs[i])
          /\ Ordered(i)
Previewed == \A i \in Inode : PreviewOf(i)

(* An inode that is fenced has no write on its way, then no entry to wait   *)
(* for beyond the target, then none at all.                                 *)
Emptied(i) == runtime[i].entries = <<>> /\ lane[i].job = Nobody /\ lane[i].queue = <<>>
FenceOf(c) ==
    /\ fence[c].pc # "idle" => fence[c].ino \in Inode
    /\ fence[c].pc \in {"drain", "lane", "held"} => \A n \in On(fence[c].ino) : ~Active(n)
    /\ fence[c].pc = "lane" =>
          fence[c].target >= runtime[fence[c].ino].through + Len(runtime[fence[c].ino].entries)
    /\ fence[c].pc = "held" => Emptied(fence[c].ino)
Fencing == \A c \in Client : FenceOf(c)

MutInv ==
    /\ Types /\ Lives /\ Tracking /\ Waiting /\ Locking /\ Arrivals /\ Outcomes /\ Applied
    /\ Sequenced /\ Flushing /\ Previewed /\ Fencing

-----------------------------------------------------------------------------
(* Constants, types, sizes *)

\* The assumptions on the constants, in the form the proofs use.
LEMMA Constants ==
    /\ MaxWrites \in Nat /\ Cells \in Nat \ {0} /\ InitSize \in Sizes
    /\ \A e \in Extents : e \subseteq Cell /\ e # {}
    /\ IsFiniteSet(Inode) /\ Client \cap Names = {}
  <1>1. MaxWrites \in Nat /\ Cells \in Nat \ {0} /\ InitSize \in Sizes
    BY MutationBounds DEF Sizes
  <1>2. \A e \in Extents : e \in SUBSET Cell /\ e # {}
    BY MutationBounds, Zenon DEF Cell
  <1>3. IsFiniteSet(Inode) /\ Client \cap Names = {}
    BY MutationNames DEF Names
  <1>. QED
    BY <1>1, <1>2, <1>3

\* The fields of a write.
LEMMA WriteTypes ==
    ASSUME Types, NEW n \in DOMAIN write
    PROVE  /\ write[n] \in Writes /\ n \in Names /\ n \in 1..Len(write) /\ write[n].inos \subseteq Inode /\ write[n].inos # {}
           /\ write[n].cells \subseteq Cell /\ write[n].cells # {} /\ write[n].cells \in Extents
           /\ write[n].seq \in Nat /\ write[n].arrived \in Nat /\ write[n].pc \in Pcs
           /\ write[n].held \in BOOLEAN /\ write[n].committed \in BOOLEAN
  <1>1. write[n] \in Writes /\ n \in 1..Len(write) /\ Len(write) \in Nat /\ Len(write) <= MaxWrites
    BY DEF Types
  <1>2. n \in Names
    BY <1>1, Constants DEF Names
  <1>3. write[n].cells \in Extents
    BY <1>1 DEF Writes
  <1>4. write[n].cells \subseteq Cell /\ write[n].cells # {}
    BY <1>3, Constants
  <1>5. /\ write[n].inos \subseteq Inode /\ write[n].inos # {} /\ write[n].seq \in Nat /\ write[n].arrived \in Nat
        /\ write[n].pc \in Pcs /\ write[n].held \in BOOLEAN /\ write[n].committed \in BOOLEAN
    BY <1>1 DEF Writes
  <1>. QED
    BY <1>1, <1>2, <1>3, <1>4, <1>5

\* The fields of a runtime and of a lane.
LEMMA LaneTypes ==
    ASSUME Types, NEW i \in Inode
    PROVE  /\ runtime[i] \in Runtimes /\ runtime[i].entries \in Seq(Names) /\ runtime[i].through \in Nat
           /\ runtime[i].done = {} /\ runtime[i].terminal \in BOOLEAN /\ runtime[i].up \in BOOLEAN
           /\ lane[i] \in Lanes /\ lane[i].queue \in Seq(Names) /\ lane[i].job \in 0..MaxWrites
           /\ lane[i].at \in Steps /\ attrs[i] \in Seq(Names)
           /\ base[i] \in Files /\ base[i].size \in Sizes /\ base[i].at \in [Cell -> 0..MaxWrites]
  <1>1. runtime[i] \in Runtimes /\ lane[i] \in Lanes /\ attrs[i] \in Seq(Names) /\ base[i] \in Files
    BY DEF Types
  <1>. QED
    BY <1>1 DEF Runtimes, Lanes, Files

\* The elements of a sequence of writes.
LEMMA RangeTypes ==
    ASSUME NEW s \in Seq(Names)
    PROVE  /\ Range(s) \subseteq Names /\ \A n \in Range(s) : n \in Nat /\ n # 0 /\ n # Nobody
           /\ \A n \in Range(s) : \E k \in DOMAIN s : s[k] = n
           /\ \A k \in DOMAIN s : s[k] \in Range(s)
  <1>1. \A k \in DOMAIN s : s[k] \in Names
    OBVIOUS
  <1>2. Range(s) \subseteq Names
    BY <1>1 DEF Range
  <1>3. \A n \in Names : n \in Nat /\ n # 0 /\ n # Nobody
    BY Constants DEF Names, Nobody
  <1>. QED
    BY <1>2, <1>3 DEF Range

\* A nonempty set of sizes has a maximum, which is a size.
LEMMA SizeMax ==
    ASSUME NEW S, S \subseteq Sizes, S # {}
    PROVE  Max(S) \in Sizes
  <1>1. S \subseteq Nat /\ \A x \in S : x <= Cells
    BY Constants DEF Sizes
  <1>. QED
    BY <1>1, Constants, GreatestElement

\* Every size the code computes is one.
LEMMA CanonicalSizes ==
    ASSUME Types, NEW i \in Inode
    PROVE  CanonicalSize(i) \in Sizes
  <1>. DEFINE S == {base[i].size} \cup {write[n].size[i] : n \in Committing \cap On(i)}
  <1>1. ASSUME NEW n \in On(i) PROVE write[n].size[i] \in Sizes
    <2>1. write[n] \in Writes
      BY WriteTypes DEF On
    <2>. QED
      BY <2>1 DEF Writes
  <1>2. S \subseteq Sizes /\ S # {}
    BY <1>1, LaneTypes
  <1>. HIDE DEF S
  <1>3. Max(S) \in Sizes
    BY <1>2, SizeMax
  <1>. QED
    BY <1>3 DEF S, CanonicalSize

LEMMA VisibleSizes ==
    ASSUME Types, Tracking, Previewed, NEW i \in Inode, NEW z \in Sizes
    PROVE  SizeFrom(i, z) \in Sizes
  <1>. DEFINE E == {Max(write[runtime[i].entries[k]].cells) : k \in Snapshot(i)}
              A == IF attrs[i] = <<>> THEN {} ELSE {write[Last(attrs[i])].size[i]}
  <1>1. ASSUME NEW k \in Snapshot(i) PROVE Max(write[runtime[i].entries[k]].cells) \in Sizes
    <2>1. runtime[i].entries[k] \in DOMAIN write
      BY <1>1, LaneTypes, RangeTypes DEF Snapshot, Tracking, Tracked
    <2>2. write[runtime[i].entries[k]].cells \subseteq Sizes /\ write[runtime[i].entries[k]].cells # {}
      BY <2>1, WriteTypes, Constants DEF Cell, Sizes
    <2>. QED
      BY <2>2, SizeMax
  <1>2. attrs[i] # <<>> => write[Last(attrs[i])].size[i] \in Sizes
    <2>1. SUFFICES ASSUME attrs[i] # <<>> PROVE write[Last(attrs[i])].size[i] \in Sizes
      OBVIOUS
    <2>2. Last(attrs[i]) \in Range(attrs[i])
      BY <2>1, LaneTypes DEF Last, Range
    <2>3. Last(attrs[i]) \in DOMAIN write
      BY <2>2 DEF Previewed, PreviewOf, Ordered, On
    <2>4. write[Last(attrs[i])] \in Writes
      BY <2>3, WriteTypes
    <2>. QED
      BY <2>4 DEF Writes
  <1>3. {z} \cup E \cup A \subseteq Sizes /\ {z} \cup E \cup A # {}
    BY <1>1, <1>2
  <1>. HIDE DEF E, A
  <1>4. Max({z} \cup E \cup A) \in Sizes
    BY <1>3, SizeMax
  <1>. QED
    BY <1>4 DEF E, A, SizeFrom

-----------------------------------------------------------------------------
(* What the steps do to the writes, the lanes and the runtimes *)

\* One write is changed, and neither its inodes nor its cells.
Rewrites(n, pc, seq, held, arrived, cancelled, result, committed) ==
    /\ write' \in Seq(Writes) /\ Len(write') = Len(write) /\ DOMAIN write' = DOMAIN write
    /\ \A m \in DOMAIN write : m # n => write'[m] = write[m]
    /\ write'[n].inos = write[n].inos /\ write'[n].cells = write[n].cells
    /\ write'[n].pc = pc /\ write'[n].seq = seq /\ write'[n].held = held
    /\ write'[n].arrived = arrived /\ write'[n].cancelled = cancelled
    /\ write'[n].result = result /\ write'[n].committed = committed

\* The same, when its stage alone, or its lock as well, is changed.
Becomes(n, pc, held) ==
    Rewrites(n, pc, write[n].seq, held, write[n].arrived, write[n].cancelled, write[n].result, write[n].committed)

\* The outcome of a write that is given r.
Outcome(n, r) == IF write[n].result = "none" THEN r ELSE write[n].result

\* One lane moves on with its job.
Moves(i, step) ==
    /\ lane' \in [Inode -> Lanes]
    /\ \A j \in Inode : /\ lane'[j].job = lane[j].job /\ lane'[j].queue = lane[j].queue
                        /\ j # i => lane'[j].at = lane[j].at
    /\ lane'[i].at = step

\* A handle is let go of: runtimes that are empty may go.
Reaps(h) ==
    /\ runtime' \in [Inode -> Runtimes]
    /\ \A i \in Inode :
          \/ runtime'[i] = runtime[i]
          \/ /\ runtime'[i] = NoRuntime /\ runtime[i].entries = <<>> /\ ~runtime[i].terminal
             /\ \A m \in On(i) : Active(m) => m = h

LEMMA NoRuntimeTypes == NoRuntime \in Runtimes /\ NoLane \in Lanes
  <1>1. <<>> \in Seq(Names)
    OBVIOUS
  <1>2. 0 \in 0..MaxWrites /\ 0 \in Nat
    BY Constants
  <1>. QED
    BY <1>1, <1>2 DEF NoRuntime, NoLane, Runtimes, Lanes, Steps, Nobody

LEMMA Rewriting ==
    ASSUME Types, NEW n \in DOMAIN write, NEW t \in Writes, write' = [write EXCEPT ![n] = t],
           t.inos = write[n].inos, t.cells = write[n].cells
    PROVE  Rewrites(n, t.pc, t.seq, t.held, t.arrived, t.cancelled, t.result, t.committed)
  <1>1. write \in Seq(Writes) /\ n \in 1..Len(write)
    BY DEF Types
  <1>2. write' \in Seq(Writes) /\ Len(write') = Len(write)
    BY <1>1
  <1>3. DOMAIN write' = DOMAIN write /\ write'[n] = t /\ \A m \in DOMAIN write : m # n => write'[m] = write[m]
    BY <1>1
  <1>. QED
    BY <1>2, <1>3 DEF Rewrites

\* Its stage.
LEMMA Renaming ==
    ASSUME Types, NEW n \in DOMAIN write, NEW pc \in Pcs,
           write' = [write EXCEPT ![n].pc = pc]
    PROVE  Becomes(n, pc, write[n].held)
  <1>. DEFINE t == [write[n] EXCEPT !.pc = pc]
  <1>1. write[n] \in Writes
    BY WriteTypes
  <1>2. t \in Writes
    BY <1>1 DEF Writes, Pcs, Results, Outcome
  <1>3. /\ t.inos = write[n].inos /\ t.cells = write[n].cells
        /\ t.pc = pc /\ t.seq = write[n].seq /\ t.held = write[n].held
        /\ t.arrived = write[n].arrived /\ t.cancelled = write[n].cancelled /\ t.result = write[n].result /\ t.committed = write[n].committed
    BY <1>1 DEF Writes
  <1>4. write' = [write EXCEPT ![n] = t]
    BY DEF Types, SetResult, Outcome
  <1>. HIDE DEF t
  <1>5. Rewrites(n, t.pc, t.seq, t.held, t.arrived, t.cancelled, t.result, t.committed)
    BY <1>2, <1>3, <1>4, Rewriting
  <1>. QED
    BY <1>3, <1>5 DEF Becomes

\* Its stage, and its locks are dropped.
LEMMA Dropping ==
    ASSUME Types, NEW n \in DOMAIN write, NEW pc \in Pcs,
           write' = [write EXCEPT ![n].pc = pc, ![n].held = FALSE]
    PROVE  Becomes(n, pc, FALSE)
  <1>. DEFINE t == [write[n] EXCEPT !.pc = pc, !.held = FALSE]
  <1>1. write[n] \in Writes
    BY WriteTypes
  <1>2. t \in Writes
    BY <1>1 DEF Writes, Pcs, Results, Outcome
  <1>3. /\ t.inos = write[n].inos /\ t.cells = write[n].cells
        /\ t.pc = pc /\ t.seq = write[n].seq /\ t.held = FALSE
        /\ t.arrived = write[n].arrived /\ t.cancelled = write[n].cancelled /\ t.result = write[n].result /\ t.committed = write[n].committed
    BY <1>1 DEF Writes
  <1>4. write' = [write EXCEPT ![n] = t]
    BY DEF Types, SetResult, Outcome
  <1>. HIDE DEF t
  <1>5. Rewrites(n, t.pc, t.seq, t.held, t.arrived, t.cancelled, t.result, t.committed)
    BY <1>2, <1>3, <1>4, Rewriting
  <1>. QED
    BY <1>3, <1>5 DEF Becomes

\* Its stage and its sequence.
LEMMA Numbering ==
    ASSUME Types, NEW n \in DOMAIN write, NEW pc \in Pcs, NEW seq \in Nat,
           write' = [write EXCEPT ![n].pc = pc, ![n].seq = seq]
    PROVE  Rewrites(n, pc, seq, write[n].held, write[n].arrived, write[n].cancelled, write[n].result, write[n].committed)
  <1>. DEFINE t == [write[n] EXCEPT !.pc = pc, !.seq = seq]
  <1>1. write[n] \in Writes
    BY WriteTypes
  <1>2. t \in Writes
    BY <1>1 DEF Writes, Pcs, Results, Outcome
  <1>3. /\ t.inos = write[n].inos /\ t.cells = write[n].cells
        /\ t.pc = pc /\ t.seq = seq /\ t.held = write[n].held
        /\ t.arrived = write[n].arrived /\ t.cancelled = write[n].cancelled /\ t.result = write[n].result /\ t.committed = write[n].committed
    BY <1>1 DEF Writes
  <1>4. write' = [write EXCEPT ![n] = t]
    BY DEF Types, SetResult, Outcome
  <1>. HIDE DEF t
  <1>5. Rewrites(n, t.pc, t.seq, t.held, t.arrived, t.cancelled, t.result, t.committed)
    BY <1>2, <1>3, <1>4, Rewriting
  <1>. QED
    BY <1>3, <1>5 DEF Becomes

\* Its locks.
LEMMA Unlocking ==
    ASSUME Types, NEW n \in DOMAIN write,
           write' = [write EXCEPT ![n].held = FALSE]
    PROVE  Becomes(n, write[n].pc, FALSE)
  <1>. DEFINE t == [write[n] EXCEPT !.held = FALSE]
  <1>1. write[n] \in Writes
    BY WriteTypes
  <1>2. t \in Writes
    BY <1>1 DEF Writes, Pcs, Results, Outcome
  <1>3. /\ t.inos = write[n].inos /\ t.cells = write[n].cells
        /\ t.pc = write[n].pc /\ t.seq = write[n].seq /\ t.held = FALSE
        /\ t.arrived = write[n].arrived /\ t.cancelled = write[n].cancelled /\ t.result = write[n].result /\ t.committed = write[n].committed
    BY <1>1 DEF Writes
  <1>4. write' = [write EXCEPT ![n] = t]
    BY DEF Types, SetResult, Outcome
  <1>. HIDE DEF t
  <1>5. Rewrites(n, t.pc, t.seq, t.held, t.arrived, t.cancelled, t.result, t.committed)
    BY <1>2, <1>3, <1>4, Rewriting
  <1>. QED
    BY <1>3, <1>5 DEF Becomes

\* The lanes it has arrived in.
LEMMA Arriving ==
    ASSUME Types, NEW n \in DOMAIN write,
           write' = [write EXCEPT ![n].arrived = @ + 1]
    PROVE  Rewrites(n, write[n].pc, write[n].seq, write[n].held, write[n].arrived + 1, write[n].cancelled, write[n].result, write[n].committed)
  <1>. DEFINE t == [write[n] EXCEPT !.arrived = write[n].arrived + 1]
  <1>1. write[n] \in Writes
    BY WriteTypes
  <1>2. t \in Writes
    BY <1>1 DEF Writes, Pcs, Results, Outcome
  <1>3. /\ t.inos = write[n].inos /\ t.cells = write[n].cells
        /\ t.pc = write[n].pc /\ t.seq = write[n].seq /\ t.held = write[n].held
        /\ t.arrived = write[n].arrived + 1 /\ t.cancelled = write[n].cancelled /\ t.result = write[n].result /\ t.committed = write[n].committed
    BY <1>1 DEF Writes
  <1>4. write' = [write EXCEPT ![n] = t]
    BY DEF Types, SetResult, Outcome
  <1>. HIDE DEF t
  <1>5. Rewrites(n, t.pc, t.seq, t.held, t.arrived, t.cancelled, t.result, t.committed)
    BY <1>2, <1>3, <1>4, Rewriting
  <1>. QED
    BY <1>3, <1>5 DEF Becomes

\* Its commit.
LEMMA MarkCommitted ==
    ASSUME Types, NEW n \in DOMAIN write,
           write' = [write EXCEPT ![n].committed = TRUE]
    PROVE  Rewrites(n, write[n].pc, write[n].seq, write[n].held, write[n].arrived, write[n].cancelled, write[n].result, TRUE)
  <1>. DEFINE t == [write[n] EXCEPT !.committed = TRUE]
  <1>1. write[n] \in Writes
    BY WriteTypes
  <1>2. t \in Writes
    BY <1>1 DEF Writes, Pcs, Results, Outcome
  <1>3. /\ t.inos = write[n].inos /\ t.cells = write[n].cells
        /\ t.pc = write[n].pc /\ t.seq = write[n].seq /\ t.held = write[n].held
        /\ t.arrived = write[n].arrived /\ t.cancelled = write[n].cancelled /\ t.result = write[n].result /\ t.committed = TRUE
    BY <1>1 DEF Writes
  <1>4. write' = [write EXCEPT ![n] = t]
    BY DEF Types, SetResult, Outcome
  <1>. HIDE DEF t
  <1>5. Rewrites(n, t.pc, t.seq, t.held, t.arrived, t.cancelled, t.result, t.committed)
    BY <1>2, <1>3, <1>4, Rewriting
  <1>. QED
    BY <1>3, <1>5 DEF Becomes

\* Its outcome, unless it has one, and its locks.
LEMMA Settling ==
    ASSUME Types, NEW n \in DOMAIN write, NEW r \in {"ok", "err"},
           write' = [write EXCEPT ![n] = [SetResult(@, r) EXCEPT !.held = FALSE]]
    PROVE  Rewrites(n, write[n].pc, write[n].seq, FALSE, write[n].arrived, write[n].cancelled, Outcome(n, r), write[n].committed)
  <1>. DEFINE t == [write[n] EXCEPT !.result = Outcome(n, r), !.held = FALSE]
  <1>1. write[n] \in Writes
    BY WriteTypes
  <1>2. t \in Writes
    BY <1>1 DEF Writes, Pcs, Results, Outcome
  <1>3. /\ t.inos = write[n].inos /\ t.cells = write[n].cells
        /\ t.pc = write[n].pc /\ t.seq = write[n].seq /\ t.held = FALSE
        /\ t.arrived = write[n].arrived /\ t.cancelled = write[n].cancelled /\ t.result = Outcome(n, r) /\ t.committed = write[n].committed
    BY <1>1 DEF Writes
  <1>4. write' = [write EXCEPT ![n] = t]
    BY DEF Types, SetResult, Outcome
  <1>. HIDE DEF t
  <1>5. Rewrites(n, t.pc, t.seq, t.held, t.arrived, t.cancelled, t.result, t.committed)
    BY <1>2, <1>3, <1>4, Rewriting
  <1>. QED
    BY <1>3, <1>5 DEF Becomes

\* Its cancellation.
LEMMA Cancelling ==
    ASSUME Types, NEW n \in DOMAIN write,
           write' = [write EXCEPT ![n] = [SetResult(@, "ok") EXCEPT !.pc = "releasing", !.cancelled = TRUE]]
    PROVE  Rewrites(n, "releasing", write[n].seq, write[n].held, write[n].arrived, TRUE, Outcome(n, "ok"), write[n].committed)
  <1>. DEFINE t == [write[n] EXCEPT !.result = Outcome(n, "ok"), !.pc = "releasing", !.cancelled = TRUE]
  <1>1. write[n] \in Writes
    BY WriteTypes
  <1>2. t \in Writes
    BY <1>1 DEF Writes, Pcs, Results, Outcome
  <1>3. /\ t.inos = write[n].inos /\ t.cells = write[n].cells
        /\ t.pc = "releasing" /\ t.seq = write[n].seq /\ t.held = write[n].held
        /\ t.arrived = write[n].arrived /\ t.cancelled = TRUE /\ t.result = Outcome(n, "ok") /\ t.committed = write[n].committed
    BY <1>1 DEF Writes
  <1>4. write' = [write EXCEPT ![n] = t]
    BY DEF Types, SetResult, Outcome
  <1>. HIDE DEF t
  <1>5. Rewrites(n, t.pc, t.seq, t.held, t.arrived, t.cancelled, t.result, t.committed)
    BY <1>2, <1>3, <1>4, Rewriting
  <1>. QED
    BY <1>3, <1>5 DEF Becomes

LEMMA ReleaseFacts ==
    ASSUME Types, NEW h, NEW S, Release(h, S)
    PROVE  Reaps(h)
  <1>1. ASSUME NEW i \in Inode
        PROVE  \/ runtime'[i] = runtime[i]
               \/ /\ runtime'[i] = NoRuntime /\ runtime[i].entries = <<>> /\ ~runtime[i].terminal
                  /\ \A m \in On(i) : Active(m) => m = h
    <2>1. runtime'[i] = runtime[i] \/ (runtime'[i] = NoRuntime /\ Holders(i) \subseteq {h} /\ Reapable(runtime[i]))
      BY DEF Release, Reaped
    <2>. QED
      BY <2>1 DEF Holders, Reapable
  <1>2. \A i \in Inode : runtime'[i] \in Runtimes
    BY <1>1, NoRuntimeTypes, LaneTypes
  <1>3. runtime' \in [Inode -> Runtimes]
    BY <1>2 DEF Release
  <1>. QED
    BY <1>1, <1>3 DEF Reaps

LEMMA AbortFacts ==
    ASSUME Types, NEW n \in DOMAIN write, Abort(n)
    PROVE  Becomes(n, "failed", FALSE) /\ Reaps(n)
  <1>1. "failed" \in Pcs
    BY DEF Pcs
  <1>. QED
    BY <1>1, Dropping, ReleaseFacts DEF Abort

LEMMA PrepareFacts ==
    ASSUME Types, Tracking, Previewed, NEW n \in DOMAIN write, Prepare(n)
    PROVE  Becomes(n, "prepared", TRUE)
  <1>. DEFINE z == [i \in Inode |-> IF i \in write[n].inos
                      THEN Max({SizeFrom(i, CanonicalSize(i)), Max(write[n].cells)}) ELSE 0]
              t == [write[n] EXCEPT !.pc = "prepared", !.held = TRUE, !.size = z]
  <1>0. z \in [Inode -> Sizes]
    <2>1. Max(write[n].cells) \in Sizes
      <3>1. write[n].cells \subseteq Sizes /\ write[n].cells # {}
        BY WriteTypes, Constants DEF Cell, Sizes
      <3>. QED
        BY <3>1, SizeMax
    <2>2. \A i \in Inode : SizeFrom(i, CanonicalSize(i)) \in Sizes
      BY CanonicalSizes, VisibleSizes
    <2>3. \A i \in Inode : Max({SizeFrom(i, CanonicalSize(i)), Max(write[n].cells)}) \in Sizes
      BY <2>1, <2>2, SizeMax
    <2>4. 0 \in Sizes
      BY Constants DEF Sizes
    <2>. QED
      BY <2>3, <2>4
  <1>4. write' = [write EXCEPT ![n] = t]
    BY DEF Prepare, Types
  <1>. HIDE DEF z
  <1>1. write[n] \in Writes
    BY WriteTypes
  <1>2. t \in Writes
    BY <1>0, <1>1 DEF Writes, Pcs
  <1>3. /\ t.inos = write[n].inos /\ t.cells = write[n].cells /\ t.pc = "prepared" /\ t.seq = write[n].seq
        /\ t.held = TRUE /\ t.arrived = write[n].arrived /\ t.cancelled = write[n].cancelled
        /\ t.result = write[n].result /\ t.committed = write[n].committed
    BY <1>1 DEF Writes
  <1>. HIDE DEF t
  <1>5. Rewrites(n, t.pc, t.seq, t.held, t.arrived, t.cancelled, t.result, t.committed)
    BY <1>2, <1>3, <1>4, Rewriting
  <1>. QED
    BY <1>3, <1>5 DEF Becomes

\* A job of a lane is a write, and has an entry.
LEMMA JobFacts ==
    ASSUME Types, Tracking, NEW i \in Inode, lane[i].job # Nobody \/ lane[i].at # "idle"
    PROVE  /\ lane[i].job \in DOMAIN write /\ lane[i].job # Nobody /\ i \in write[lane[i].job].inos
           /\ lane[i].job \in Range(runtime[i].entries) /\ write[lane[i].job].pc \in Staged
  BY DEF Tracking, Tracked

\* A new write is the last.
Begun(n, inos) ==
    /\ n = Len(write) + 1 /\ n \notin DOMAIN write /\ DOMAIN write' = DOMAIN write \cup {n}
    /\ \A m \in DOMAIN write : write'[m] = write[m]
    /\ write'[n].inos = inos /\ write'[n].pc = "waiting" /\ write'[n].seq = 0 /\ ~write'[n].held
    /\ write'[n].arrived = 0 /\ ~write'[n].cancelled /\ write'[n].result = "none" /\ ~write'[n].committed
Registers(inos) ==
    /\ runtime' \in [Inode -> Runtimes]
    /\ \A i \in Inode : /\ runtime'[i].entries = runtime[i].entries /\ runtime'[i].through = runtime[i].through
                        /\ runtime'[i].terminal = runtime[i].terminal
                        /\ runtime'[i].up <=> runtime[i].up \/ i \in inos
                        /\ i \notin inos => runtime'[i] = runtime[i]

LEMMA BeginFacts ==
    ASSUME Types, NEW inos \in (SUBSET Inode) \ {{}}, NEW cells \in Extents, Begin(inos, cells)
    PROVE  /\ write' \in Seq(Writes) /\ Len(write') = Len(write) + 1 /\ Len(write') <= MaxWrites
           /\ Begun(Len(write) + 1, inos) /\ Registers(inos)
  <1>. DEFINE t == [pc |-> "waiting", inos |-> inos, cells |-> cells, size |-> [i \in Inode |-> 0],
                    seq |-> 0, held |-> FALSE, arrived |-> 0, cancelled |-> FALSE,
                    result |-> "none", committed |-> FALSE]
  <1>1. write \in Seq(Writes) /\ Len(write) \in Nat /\ Len(write) < MaxWrites /\ write' = Append(write, t)
    BY DEF Types, Begin
  <1>2. t \in Writes
    <2>1. 0 \in Sizes
      BY Constants DEF Sizes
    <2>2. [i \in Inode |-> 0] \in [Inode -> Sizes]
      BY <2>1
    <2>. QED
      BY <2>2 DEF Writes, Pcs, Results
  <1>3. /\ t.inos = inos /\ t.pc = "waiting" /\ t.seq = 0 /\ ~t.held /\ t.arrived = 0 /\ ~t.cancelled
        /\ t.result = "none" /\ ~t.committed
    OBVIOUS
  <1>. HIDE DEF t
  <1>4. /\ write' \in Seq(Writes) /\ Len(write') = Len(write) + 1 /\ write'[Len(write) + 1] = t
        /\ \A m \in 1..Len(write) : write'[m] = write[m]
    BY <1>1, <1>2, AppendProperties
  <1>5. DOMAIN write = 1..Len(write) /\ DOMAIN write' = 1..(Len(write) + 1)
    BY <1>1, <1>4
  <1>6. Begun(Len(write) + 1, inos)
    BY <1>1, <1>3, <1>4, <1>5 DEF Begun
  <1>7. Registers(inos)
    <2>1. runtime' = [i \in Inode |-> [runtime[i] EXCEPT !.up = @ \/ i \in inos]]
      BY DEF Begin, Registered
    <2>2. ASSUME NEW i \in Inode
          PROVE  /\ runtime'[i] \in Runtimes
                 /\ runtime'[i].entries = runtime[i].entries /\ runtime'[i].through = runtime[i].through
                 /\ runtime'[i].terminal = runtime[i].terminal
                 /\ runtime'[i].up <=> runtime[i].up \/ i \in inos
                 /\ i \notin inos => runtime'[i] = runtime[i]
      <3>1. runtime[i] \in Runtimes /\ runtime'[i] = [runtime[i] EXCEPT !.up = @ \/ i \in inos]
        BY <2>1, LaneTypes
      <3>2. runtime'[i] \in Runtimes
        BY <3>1 DEF Runtimes
      <3>3. /\ runtime'[i].entries = runtime[i].entries /\ runtime'[i].through = runtime[i].through
            /\ runtime'[i].terminal = runtime[i].terminal /\ runtime'[i].done = runtime[i].done
            /\ runtime'[i].up = (runtime[i].up \/ i \in inos)
        BY <3>1 DEF Runtimes
      <3>4. i \notin inos => runtime'[i] = runtime[i]
        BY <3>1, <3>2, <3>3 DEF Runtimes
      <3>. QED
        BY <3>2, <3>3, <3>4
    <2>3. runtime' \in [Inode -> Runtimes]
      BY <2>1, <2>2
    <2>. QED
      BY <2>2, <2>3 DEF Registers
  <1>. QED
    BY <1>1, <1>4, <1>6, <1>7, Constants

\* A write gets an entry and a job for each of its inodes.
Appends(n) ==
    /\ runtime' \in [Inode -> Runtimes] /\ lane' \in [Inode -> Lanes]
    /\ \A i \in Inode : /\ runtime'[i].up = runtime[i].up /\ runtime'[i].terminal = runtime[i].terminal
                        /\ runtime'[i].through = runtime[i].through
                        /\ lane'[i].job = lane[i].job /\ lane'[i].at = lane[i].at
    /\ \A i \in write[n].inos : /\ runtime'[i].entries = Append(runtime[i].entries, n)
                                /\ lane'[i].queue = Append(lane[i].queue, n)
    /\ \A i \in Inode \ write[n].inos : runtime'[i] = runtime[i] /\ lane'[i] = lane[i]

LEMMA StageFacts ==
    ASSUME Types, NEW n \in DOMAIN write, Stage(n)
    PROVE  Becomes(n, "staged", write[n].held) /\ Appends(n)
  <1>1. Becomes(n, "staged", write[n].held)
    <2>1. "staged" \in Pcs
      BY DEF Pcs
    <2>. QED
      BY <2>1, Renaming DEF Stage
  <1>. DEFINE inos == write[n].inos
  <1>2. /\ runtime' = [i \in Inode |-> IF i \in inos
                        THEN [runtime[i] EXCEPT !.entries = Append(@, n)] ELSE runtime[i]]
        /\ lane' = [i \in Inode |-> IF i \in inos
                     THEN [lane[i] EXCEPT !.up = TRUE, !.queue = Append(@, n)] ELSE lane[i]]
    BY DEF Stage
  <1>3. inos \subseteq Inode /\ n \in Names
    BY WriteTypes
  <1>. HIDE DEF inos
  <1>4. ASSUME NEW i \in inos
        PROVE  /\ runtime'[i] \in Runtimes /\ lane'[i] \in Lanes
               /\ runtime'[i].up = runtime[i].up /\ runtime'[i].terminal = runtime[i].terminal
               /\ runtime'[i].through = runtime[i].through
               /\ lane'[i].job = lane[i].job /\ lane'[i].at = lane[i].at
               /\ runtime'[i].entries = Append(runtime[i].entries, n)
               /\ lane'[i].queue = Append(lane[i].queue, n)
    <2>0. i \in Inode
      BY <1>3
    <2>1. /\ runtime'[i] = [runtime[i] EXCEPT !.entries = Append(@, n)]
          /\ lane'[i] = [lane[i] EXCEPT !.up = TRUE, !.queue = Append(@, n)]
      BY <1>2, <2>0
    <2>2. runtime[i] \in Runtimes /\ lane[i] \in Lanes
      BY <2>0, LaneTypes
    <2>3. Append(runtime[i].entries, n) \in Seq(Names) /\ Append(lane[i].queue, n) \in Seq(Names)
      BY <1>3, <2>0, LaneTypes, AppendProperties
    <2>4. runtime'[i] \in Runtimes
      BY <2>1, <2>2, <2>3 DEF Runtimes
    <2>5. lane'[i] \in Lanes
      BY <2>1, <2>2, <2>3 DEF Lanes
    <2>6. /\ runtime'[i].up = runtime[i].up /\ runtime'[i].terminal = runtime[i].terminal
          /\ runtime'[i].through = runtime[i].through
          /\ runtime'[i].entries = Append(runtime[i].entries, n)
      BY <2>1, <2>2 DEF Runtimes
    <2>7. /\ lane'[i].job = lane[i].job /\ lane'[i].at = lane[i].at
          /\ lane'[i].queue = Append(lane[i].queue, n)
      BY <2>1, <2>2 DEF Lanes
    <2>. QED
      BY <2>4, <2>5, <2>6, <2>7
  <1>5. ASSUME NEW i \in Inode \ inos
        PROVE  runtime'[i] = runtime[i] /\ lane'[i] = lane[i] /\ runtime'[i] \in Runtimes /\ lane'[i] \in Lanes
    BY <1>2, LaneTypes
  <1>6. runtime' \in [Inode -> Runtimes] /\ lane' \in [Inode -> Lanes]
    BY <1>2, <1>4, <1>5
  <1>. QED
    BY <1>1, <1>4, <1>5, <1>6 DEF Appends, inos

LEMMA MoveFacts ==
    ASSUME Types, NEW i \in Inode, NEW step \in Steps, At(i, step)
    PROVE  Moves(i, step)
  <1>1. lane[i] \in Lanes /\ lane' = [lane EXCEPT ![i] = [lane[i] EXCEPT !.at = step]]
    BY LaneTypes DEF At, Types
  <1>2. [lane[i] EXCEPT !.at = step] \in Lanes
    BY <1>1 DEF Lanes
  <1>3. lane' \in [Inode -> Lanes]
    BY <1>1, <1>2 DEF Types
  <1>. QED
    BY <1>1, <1>3 DEF Moves, Types, Lanes

\* The end of a dispatch.
Settles(i, r) ==
    LET n == lane[i].job
    IN  /\ Rewrites(n, write[n].pc, write[n].seq, FALSE, write[n].arrived, write[n].cancelled, Outcome(n, r), write[n].committed)
        /\ Moves(i, r)

LEMMA SettleFacts ==
    ASSUME Types, Tracking, NEW i \in Inode, lane[i].at # "idle", NEW r \in {"ok", "err"}, Dispatched(i, r)
    PROVE  Settles(i, r)
  <1>1. lane[i].job \in DOMAIN write /\ r \in Steps
    BY JobFacts DEF Steps
  <1>. QED
    BY <1>1, MoveFacts, Settling DEF Dispatched, Settles

\* A lane takes its next job.
Takes(i, step) ==
    /\ lane' \in [Inode -> Lanes]
    /\ \A j \in Inode : j # i => lane'[j] = lane[j]
    /\ lane'[i].job = Head(lane[i].queue) /\ lane'[i].queue = Tail(lane[i].queue) /\ lane'[i].at = step

LEMMA TakeFacts ==
    ASSUME Types, NEW i \in Inode, lane[i].queue # <<>>, NEW step \in Steps, Taken(i, step)
    PROVE  Takes(i, step)
  <1>. DEFINE h == Head(lane[i].queue)
              q == Tail(lane[i].queue)
  <1>1. lane[i] \in Lanes /\ lane' = [lane EXCEPT ![i] = [lane[i] EXCEPT !.job = h, !.queue = q, !.at = step]]
    BY LaneTypes DEF Taken, Types
  <1>2. h \in Names /\ q \in Seq(Names)
    BY LaneTypes, HeadTailProperties
  <1>3. h \in 0..MaxWrites
    BY <1>2, Constants DEF Names
  <1>. HIDE DEF h, q
  <1>4. [lane[i] EXCEPT !.job = h, !.queue = q, !.at = step] \in Lanes
    BY <1>1, <1>2, <1>3 DEF Lanes
  <1>5. lane' \in [Inode -> Lanes]
    BY <1>1, <1>4 DEF Types
  <1>. QED
    BY <1>1, <1>5 DEF Takes, Types, Lanes, h, q

\* A lane lets go of its job.
Ends(i) ==
    /\ lane' \in [Inode -> Lanes]
    /\ \A j \in Inode : j # i => lane'[j] = lane[j]
    /\ lane'[i].job = Nobody /\ lane'[i].queue = lane[i].queue /\ lane'[i].at = "idle"

LEMMA EndFacts ==
    ASSUME Types, NEW i \in Inode, lane' = [lane EXCEPT ![i].job = Nobody, ![i].at = "idle"]
    PROVE  Ends(i)
  <1>1. lane[i] \in Lanes /\ lane' = [lane EXCEPT ![i] = [lane[i] EXCEPT !.job = Nobody, !.at = "idle"]]
    BY LaneTypes DEF Types
  <1>0. Nobody \in 0..MaxWrites /\ "idle" \in Steps
    BY Constants DEF Steps, Nobody
  <1>2. [lane[i] EXCEPT !.job = Nobody, !.at = "idle"] \in Lanes
    BY <1>0, <1>1 DEF Lanes
  <1>3. lane' \in [Inode -> Lanes]
    BY <1>1, <1>2 DEF Types
  <1>. QED
    BY <1>1, <1>3 DEF Ends, Types, Lanes

\* An entry that is first is retired alone.
LEMMA RetiredFacts ==
    ASSUME NEW rt \in Runtimes, NEW n \in Names, Len(rt.entries) > 0, Head(rt.entries) = n, Injective(rt.entries)
    PROVE  /\ Retired(rt, n) \in Runtimes /\ Retired(rt, n).entries = Tail(rt.entries)
           /\ Retired(rt, n).through = rt.through + 1 /\ Retired(rt, n).up = rt.up
           /\ Retired(rt, n).terminal = rt.terminal
  <1>. DEFINE e == rt.entries
              K == {m \in 0..Len(e) : \A j \in 1..m : e[j] \in rt.done \cup {n}}
  <1>1. e \in Seq(Names) /\ Len(e) \in Nat /\ rt.done = {} /\ rt.through \in Nat /\ e[1] = n /\ 1 \in DOMAIN e
    BY DEF Runtimes
  <1>2. K \subseteq Nat /\ K # {} /\ 1 \in K /\ (\A x \in K : x <= 1)
    <2>1. 1 \in K
      BY <1>1
    <2>2. ASSUME NEW m \in K, m > 1 PROVE FALSE
      <3>1. 2 \in 1..m /\ 2 \in DOMAIN e
        BY <1>1, <2>2
      <3>2. e[2] = n
        BY <1>1, <2>2, <3>1
      <3>. QED
        BY <1>1, <3>1, <3>2 DEF Injective
    <2>3. K \subseteq Nat
      BY <1>1
    <2>. QED
      BY <2>1, <2>2, <2>3
  <1>3. Max(K) = 1
    <2>. HIDE DEF K
    <2>1. Max(K) \in K /\ \A x \in K : x <= Max(K)
      BY <1>2, GreatestElement
    <2>2. Max(K) \in Nat /\ Max(K) <= 1 /\ 1 <= Max(K)
      BY <1>2, <2>1
    <2>. QED
      BY <2>2
  <1>4. SubSeq(e, 1 + 1, Len(e)) = Tail(e) /\ Tail(e) \in Seq(Names)
    BY <1>1, TailIsSubSeq, HeadTailProperties
  <1>5. (rt.done \cup {n}) \ Range(SubSeq(e, 1, 1)) = {}
    <2>. DEFINE u == SubSeq(e, 1, 1)
    <2>1. u \in Seq(Names) /\ Len(u) = 1 /\ u[1] = n
      BY <1>1, SubSeqProperties
    <2>. HIDE DEF u
    <2>2. n \in Range(u)
      BY <2>1 DEF Range
    <2>. QED
      BY <1>1, <2>2 DEF u
  <1>6. Retired(rt, n) = [rt EXCEPT !.through = @ + 1, !.entries = Tail(e), !.done = {}]
    <2>1. Retired(rt, n) = [rt EXCEPT !.through = @ + Max(K), !.entries = SubSeq(@, Max(K) + 1, Len(@)),
                              !.done = (rt.done \cup {n}) \ Range(SubSeq(rt.entries, 1, Max(K)))]
      BY DEF Retired
    <2>. QED
      BY <1>3, <1>4, <1>5, <2>1 DEF Runtimes
  <1>. HIDE DEF K, e
  <1>7. Retired(rt, n) \in Runtimes
    <2>1. rt.through + 1 \in Nat /\ Tail(e) \in Seq(Names)
      BY <1>1, <1>4
    <2>. QED
      BY <1>6, <2>1 DEF Runtimes
  <1>. QED
    BY <1>6, <1>7 DEF Runtimes, e

Retires(i) ==
    /\ runtime' \in [Inode -> Runtimes]
    /\ \A j \in Inode : j # i => runtime'[j] = runtime[j]
    /\ runtime'[i].entries = Tail(runtime[i].entries) /\ ~runtime'[i].terminal
    /\ \/ runtime'[i].up = runtime[i].up /\ runtime'[i].through = runtime[i].through + 1
       \/ runtime'[i] = NoRuntime /\ \A m \in On(i) : ~Active(m)

LEMMA CompleteFacts ==
    ASSUME Types, Tracking, NEW i \in Inode, Complete(i)
    PROVE  /\ Ends(i)
           /\ runtime[i].terminal => runtime' = runtime
           /\ ~runtime[i].terminal => Retires(i)
  <1>1. Ends(i)
    BY EndFacts DEF Complete
  <1>2. /\ runtime \in [Inode -> Runtimes] /\ runtime[i] \in Runtimes
        /\ runtime' = [runtime EXCEPT ![i] = IF runtime[i].terminal THEN runtime[i]
                                            ELSE Reaped(Retired(runtime[i], lane[i].job), i, Nobody)]
    BY LaneTypes DEF Complete, Types
  <1>3. runtime[i].terminal => runtime' = runtime
    BY <1>2
  <1>4. ASSUME ~runtime[i].terminal PROVE Retires(i)
    <2>. DEFINE r == Retired(runtime[i], lane[i].job)
    <2>1. lane[i].job \in Names /\ lane[i].job # Nobody
      <3>1. lane[i].at # "idle"
        BY DEF Complete
      <3>. QED
        BY <3>1, JobFacts, WriteTypes
    <2>2. Len(runtime[i].entries) > 0 /\ Head(runtime[i].entries) = lane[i].job /\ Injective(runtime[i].entries)
      BY <1>4, <2>1 DEF Tracking, Tracked
    <2>3. /\ r \in Runtimes /\ r.entries = Tail(runtime[i].entries)
          /\ r.through = runtime[i].through + 1 /\ r.up = runtime[i].up /\ ~r.terminal
      BY <1>2, <1>4, <2>1, <2>2, RetiredFacts
    <2>4. runtime' = [runtime EXCEPT ![i] = Reaped(r, i, Nobody)]
      BY <1>2, <1>4
    <2>. HIDE DEF r
    <2>5. \/ runtime'[i] = r
          \/ runtime'[i] = NoRuntime /\ Reapable(r) /\ Holders(i) \subseteq {Nobody}
      BY <1>2, <2>4 DEF Reaped
    <2>6. \A j \in Inode : j # i => runtime'[j] = runtime[j]
      BY <1>2, <2>4
    <2>7. runtime' \in [Inode -> Runtimes]
      BY <1>2, <2>3, <2>4, <2>5, NoRuntimeTypes
    <2>8. CASE runtime'[i] = r
      BY <2>3, <2>6, <2>7, <2>8 DEF Retires
    <2>9. CASE runtime'[i] = NoRuntime /\ Reapable(r) /\ Holders(i) \subseteq {Nobody}
      <3>1. \A m \in On(i) : ~Active(m)
        <4>1. \A m \in On(i) : m \in Names /\ m # Nobody
          BY WriteTypes, Constants DEF On, Names, Nobody
        <4>. QED
          BY <2>9, <4>1 DEF Holders
      <3>2. runtime'[i].entries = Tail(runtime[i].entries) /\ ~runtime'[i].terminal
        <4>1. NoRuntime.entries = <<>> /\ NoRuntime.terminal = FALSE
          BY DEF NoRuntime
        <4>2. r.entries = <<>>
          BY <2>9 DEF Reapable
        <4>. QED
          BY <2>3, <2>9, <4>1, <4>2
      <3>. QED
        BY <2>6, <2>7, <2>9, <3>1, <3>2 DEF Retires
    <2>. QED
      BY <2>5, <2>8, <2>9
  <1>. QED
    BY <1>1, <1>3, <1>4

LEMMA FailFacts ==
    ASSUME Types, NEW i \in Inode, Fail(i)
    PROVE  /\ Ends(i) /\ runtime' \in [Inode -> Runtimes]
           /\ \A j \in Inode : /\ runtime'[j].up = runtime[j].up /\ runtime'[j].through = runtime[j].through
                               /\ runtime'[j].entries = runtime[j].entries
                               /\ j # i => runtime'[j] = runtime[j]
           /\ runtime'[i].terminal
  <1>1. Ends(i)
    BY EndFacts DEF Fail
  <1>2. runtime \in [Inode -> Runtimes] /\ runtime[i] \in Runtimes
        /\ runtime' = [runtime EXCEPT ![i] = [runtime[i] EXCEPT !.terminal = TRUE]]
    BY LaneTypes DEF Fail, Types
  <1>3. [runtime[i] EXCEPT !.terminal = TRUE] \in Runtimes
    BY <1>2 DEF Runtimes
  <1>. QED
    BY <1>1, <1>2, <1>3 DEF Runtimes

-----------------------------------------------------------------------------
(* The steps, by what they do *)

Aborts(n) == write[n].pc \in {"waiting", "reserved", "prepared", "releasing"} /\ Abort(n)

\* The steps of a lane that only move it on ...
Proceeds(i, step) ==
    /\ lane[i].at # "idle" /\ Moves(i, step)
    /\ \/ lane[i].at = "wait" /\ step = write[lane[i].job].result /\ step # "none"
       \/ lane[i].at = "take" /\ step = "receive"
       \/ lane[i].at = "receive" /\ step = "apply" /\ Visible(lane[i].job)
    /\ UNCHANGED <<write, gate, runtime, attrs, base, progress, down, clients, fails>>

\* ... or end the dispatch of its job.
Concludes(i, r) ==
    /\ Dispatching(i) /\ Settles(i, r) /\ r \in {"ok", "err"}
    /\ write[lane[i].job].pc \in {"acked", "dropped", "releasing", "failed"}
    /\ Visible(lane[i].job) /\ r = "ok" => write[lane[i].job].committed
    /\ UNCHANGED <<gate, runtime, base, clients>>

\* What is recorded, and what is poisoned, by the end of a dispatch.
Poisons(i, r) ==
    /\ attrs' = attrs /\ r = "err"
    /\ progress' = [progress EXCEPT !.terminal = TRUE] /\ down' = [down EXCEPT !.frozen = TRUE]
Records(i, r) ==
    /\ lane[i].at = "record" /\ r = "ok" /\ ~progress.terminal /\ down' = down
    /\ progress' = Advanced(progress, write[lane[i].job].seq)
    /\ attrs' = [j \in Inode |-> IF j \in write[lane[i].job].inos THEN Tail(attrs[j]) ELSE attrs[j]]
Leaves(i, r) ==
    /\ Visible(lane[i].job) => r = "err" /\ progress.terminal
    /\ UNCHANGED <<progress, attrs, down>>

LaneMove(i) ==
    \/ \E step \in Steps : Proceeds(i, step)
    \/ \E r \in {"ok", "err"} : Concludes(i, r) /\ (Poisons(i, r) \/ Records(i, r) \/ Leaves(i, r))

LEMMA LaneMoves ==
    ASSUME Types, Lives, Tracking, Outcomes, NEW i \in Inode,
           WaitResult(i) \/ TakeReceiver(i) \/ Receive(i) \/ ApplyRefused(i) \/ ApplyFails(i) \/ Record(i)
    PROVE  LaneMove(i)
  <1>. DEFINE n == lane[i].job
  <1>0. ASSUME lane[i].at # "idle" PROVE n \in DOMAIN write /\ Life(n) /\ write[n] \in Writes
    BY <1>0, JobFacts, WriteTypes DEF Lives
  <1>1. CASE WaitResult(i)
    <2>1. lane[i].at = "wait" /\ write[n].result # "none" /\ write[n].result \in Steps
      BY <1>0, <1>1 DEF WaitResult, Writes, Results, Steps
    <2>2. Moves(i, write[n].result)
      BY <1>1, <2>1, MoveFacts DEF WaitResult
    <2>. QED
      BY <1>1, <2>1, <2>2 DEF WaitResult, Proceeds, LaneMove
  <1>2. CASE TakeReceiver(i)
    <2>0. lane[i].at = "take"
      BY <1>2 DEF TakeReceiver
    <2>1. CASE write[n].cancelled
      <3>1. Settles(i, "err")
        BY <1>2, <2>0, <2>1, SettleFacts DEF TakeReceiver
      <3>2. write[n].pc \in {"releasing", "failed"}
        BY <1>0, <2>0, <2>1 DEF Life
      <3>3. Concludes(i, "err") /\ Leaves(i, "err")
        BY <1>2, <2>0, <3>1, <3>2 DEF TakeReceiver, Concludes, Leaves, Dispatching, Visible, clients
      <3>. QED
        BY <3>3 DEF LaneMove
    <2>2. CASE ~write[n].cancelled
      <3>1. Moves(i, "receive") /\ "receive" \in Steps
        BY <1>2, <2>2, MoveFacts DEF TakeReceiver, Steps
      <3>2. Proceeds(i, "receive")
        BY <1>2, <2>0, <2>2, <3>1 DEF TakeReceiver, Proceeds
      <3>. QED
        BY <3>1, <3>2 DEF LaneMove
    <2>. QED
      BY <2>1, <2>2
  <1>3. CASE Receive(i)
    <2>0. lane[i].at = "receive"
      BY <1>3 DEF Receive
    <2>1. CASE write[n].cancelled /\ Dispatched(i, "ok")
      <3>1. Settles(i, "ok")
        BY <2>0, <2>1, SettleFacts
      <3>2. write[n].pc \in {"releasing", "failed"}
        BY <1>0, <2>0, <2>1 DEF Life
      <3>3. Concludes(i, "ok") /\ Leaves(i, "ok")
        BY <1>3, <2>0, <3>1, <3>2 DEF Receive, Concludes, Leaves, Dispatching, Visible, clients
      <3>. QED
        BY <3>3 DEF LaneMove
    <2>2. CASE write[n].pc = "dropped" /\ Dispatched(i, "err")
      <3>1. Settles(i, "err")
        BY <2>0, <2>2, SettleFacts
      <3>3. Concludes(i, "err") /\ Leaves(i, "err")
        BY <1>3, <2>0, <2>2, <3>1 DEF Receive, Concludes, Leaves, Dispatching, Visible, clients
      <3>. QED
        BY <3>3 DEF LaneMove
    <2>3. CASE write[n].pc = "acked" /\ At(i, "apply") /\ UNCHANGED write
      <3>1. Moves(i, "apply") /\ "apply" \in Steps
        BY <2>3, MoveFacts DEF Steps
      <3>2. Proceeds(i, "apply")
        BY <1>3, <2>0, <2>3, <3>1 DEF Receive, Proceeds, Visible
      <3>. QED
        BY <3>1, <3>2 DEF LaneMove
    <2>. QED
      BY <1>3, <2>1, <2>2, <2>3 DEF Receive
  <1>4. CASE ApplyRefused(i)
    <2>0. lane[i].at = "apply" /\ progress.terminal /\ Visible(n)
      BY <1>4 DEF ApplyRefused, Outcomes, OutcomeOf, Applying
    <2>1. Settles(i, "err")
      BY <1>4, <2>0, SettleFacts DEF ApplyRefused
    <2>2. Concludes(i, "err") /\ Leaves(i, "err")
      BY <1>4, <2>0, <2>1 DEF ApplyRefused, Concludes, Leaves, Dispatching, Visible, clients
    <2>. QED
      BY <2>2 DEF LaneMove
  <1>5. CASE ApplyFails(i)
    <2>0. lane[i].at \in {"apply", "commit"} /\ Visible(n)
      BY <1>5 DEF ApplyFails, Outcomes, OutcomeOf, Applying
    <2>1. Settles(i, "err")
      BY <1>5, <2>0, SettleFacts DEF ApplyFails
    <2>2. Concludes(i, "err") /\ Poisons(i, "err")
      BY <1>5, <2>0, <2>1 DEF ApplyFails, Concludes, Poisons, Poison, Dispatching, Visible, clients
    <2>. QED
      BY <2>2 DEF LaneMove
  <1>6. CASE Record(i)
    <2>0. lane[i].at = "record" /\ Visible(n) /\ write[n].committed
      BY <1>6 DEF Record, Outcomes, OutcomeOf, Applying
    <2>1. CASE progress.terminal
      <3>1. Settles(i, "err")
        BY <1>6, <2>0, <2>1, SettleFacts DEF Record
      <3>2. Concludes(i, "err") /\ Leaves(i, "err")
        BY <1>6, <2>0, <2>1, <3>1 DEF Record, Concludes, Leaves, Dispatching, Visible, clients
      <3>. QED
        BY <3>2 DEF LaneMove
    <2>2. CASE ~progress.terminal
      <3>1. Settles(i, "ok")
        BY <1>6, <2>0, <2>2, SettleFacts DEF Record
      <3>2. Concludes(i, "ok") /\ Records(i, "ok")
        BY <1>6, <2>0, <2>2, <3>1 DEF Record, Concludes, Records, Dispatching, Visible, clients
      <3>. QED
        BY <3>2 DEF LaneMove
    <2>. QED
      BY <2>1, <2>2
  <1>. QED
    BY <1>1, <1>2, <1>3, <1>4, <1>5, <1>6

\* The requests of a client, up to a hole punch, only let go of runtimes.
Reads(c) == (\E i \in Inode : ReadInode(c, i)) \/ ReadStep(c)
Flushes(c) == BeginFlush(c) \/ FlushStep(c)
Fences(c) == (\E i \in Inode : FenceClose(c, i)) \/ FenceQuiet(c) \/ FenceDrain(c) \/ FenceLane(c)
Asks(c) == Reads(c) \/ Flushes(c) \/ Fences(c)

LEMMA AskFacts ==
    ASSUME Types, NEW c \in Client, Asks(c)
    PROVE  /\ UNCHANGED <<write, gate, lane, attrs, progress, down, fails, base, punched>>
           /\ Reaps(c)
           /\ Reads(c) => UNCHANGED <<flusher, fence>>
           /\ Flushes(c) => UNCHANGED <<reader, fence>>
           /\ Fences(c) => UNCHANGED <<reader, flusher>>
  <1>1. ASSUME runtime' = runtime PROVE Reaps(c)
    BY <1>1 DEF Reaps, Types
  <1>2. ASSUME Reads(c)
        PROVE  UNCHANGED <<write, gate, lane, attrs, progress, down, fails, base, punched, flusher, fence>> /\ Reaps(c)
    <2>1. CASE ReadMerge(c)
      BY <2>1, ReleaseFacts DEF ReadMerge, pipeline
    <2>2. CASE ~ReadMerge(c)
      <3>1. /\ UNCHANGED <<write, gate, lane, attrs, progress, down, fails, base, punched, flusher, fence>>
            /\ runtime' = runtime
        BY <1>2, <2>2, Zenon DEF Reads, ReadStep, ReadInode, ReadOverlay, ReadBase, ReadEnd, pipeline
      <3>. QED
        BY <1>1, <3>1
    <2>. QED
      BY <2>1, <2>2
  <1>3. ASSUME Flushes(c)
        PROVE  UNCHANGED <<write, gate, lane, attrs, progress, down, fails, base, punched, reader, fence>> /\ Reaps(c)
    <2>1. CASE FlushLanes(c)
      BY <2>1, ReleaseFacts DEF FlushLanes, pipeline
    <2>2. CASE ~FlushLanes(c)
      <3>1. /\ UNCHANGED <<write, gate, lane, attrs, progress, down, fails, base, punched, reader, fence>>
            /\ runtime' = runtime
        BY <1>3, <2>2, Zenon DEF Flushes, FlushStep, BeginFlush, FlushTargets, FlushProgress, FlushEnd, pipeline
      <3>. QED
        BY <1>1, <3>1
    <2>. QED
      BY <2>1, <2>2
  <1>4. ASSUME Fences(c)
        PROVE  UNCHANGED <<write, gate, lane, attrs, progress, down, fails, base, punched, reader, flusher>> /\ Reaps(c)
    <2>1. CASE FenceLane(c)
      BY <2>1, ReleaseFacts DEF FenceLane, FenceRest, pipeline
    <2>2. CASE ~FenceLane(c)
      <3>1. /\ UNCHANGED <<write, gate, lane, attrs, progress, down, fails, base, punched, reader, flusher>>
            /\ runtime' = runtime
        BY <1>4, <2>2, Zenon DEF Fences, FenceClose, FenceQuiet, FenceDrain, FenceRest, pipeline
      <3>. QED
        BY <1>1, <3>1
    <2>. QED
      BY <2>1, <2>2
  <1>. QED
    BY <1>2, <1>3, <1>4 DEF Asks

WriteMove(n) == Reserve(n) \/ Aborts(n) \/ Prepare(n) \/ Stage(n) \/ Publish(n) \/ Show(n) \/ Cancel(n)
JobMove(i) == Retire(i) \/ Arrive(i) \/ LaneMove(i) \/ Submit(i) \/ Commit(i) \/ Complete(i) \/ Fail(i)

LEMMA Cases ==
    ASSUME MutInv, Next
    PROVE  \/ \E inos \in (SUBSET Inode) \ {{}}, cells \in Extents : Begin(inos, cells)
           \/ \E n \in DOMAIN write : WriteMove(n)
           \/ \E i \in Inode : JobMove(i)
           \/ \E c \in Client : Asks(c) \/ Punch(c)
           \/ Stop
  <1>1. ASSUME NEW n \in DOMAIN write, WriteStep(n) \/ PrepareFails(n) PROVE WriteMove(n)
    BY <1>1 DEF WriteStep, WriteMove, Aborts, ReserveFails, PrepareFails, StageFails, Released
  <1>2. ASSUME NEW i \in Inode, LaneStep(i) \/ ApplyFails(i) PROVE JobMove(i)
    <2>1. Types /\ Lives /\ Tracking /\ Outcomes
      BY DEF MutInv
    <2>2. WaitResult(i) \/ TakeReceiver(i) \/ Receive(i) \/ ApplyRefused(i) \/ ApplyFails(i) \/ Record(i) => LaneMove(i)
      BY <2>1, LaneMoves
    <2>. QED
      BY <1>2, <2>2 DEF LaneStep, JobMove
  <1>3. ASSUME NEW c \in Client, ReadStep(c) \/ FlushStep(c) \/ FenceStep(c) PROVE Asks(c) \/ Punch(c)
    BY <1>3 DEF Asks, Reads, Flushes, Fences, FenceStep
  <1>4. ASSUME NEW c \in Client, BeginFlush(c) \/ (\E i \in Inode : ReadInode(c, i) \/ FenceClose(c, i)) PROVE Asks(c)
    BY <1>4 DEF Asks, Reads, Flushes, Fences
  <1>. QED
    BY <1>1, <1>2, <1>3, <1>4 DEF Next, Work

-----------------------------------------------------------------------------
(* Types *)

\* record_materialized advances over a gap-free prefix of what was recorded.
LEMMA AdvancedFacts ==
    ASSUME NEW p \in [through : Nat, pending : SUBSET Nat, terminal : BOOLEAN], IsFiniteSet(p.pending), NEW seq \in Nat
    PROVE  /\ Advanced(p, seq) \in [through : Nat, pending : SUBSET Nat, terminal : BOOLEAN]
           /\ IsFiniteSet(Advanced(p, seq).pending) /\ Advanced(p, seq).terminal = p.terminal
           /\ p.through <= Advanced(p, seq).through
           /\ \A s \in Nat : s <= Advanced(p, seq).through \/ s \in Advanced(p, seq).pending =>
                 s <= p.through \/ s \in p.pending \/ s = seq
  <1>. DEFINE done == p.pending \cup {seq}
              K == {k \in p.through .. p.through + Cardinality(done) : (p.through + 1) .. k \subseteq done}
              t == Max(K)
              rest == {s \in done : s > t}
  <1>1. p.through \in Nat /\ p.pending \subseteq Nat /\ p.terminal \in BOOLEAN
    OBVIOUS
  <1>2. IsFiniteSet(done) /\ Cardinality(done) \in Nat
    BY FS_AddElement, FS_CardinalityType
  <1>3. K \subseteq Nat /\ p.through \in K /\ \A x \in K : x <= p.through + Cardinality(done)
    <2>1. (p.through + 1) .. p.through = {}
      BY <1>1
    <2>. HIDE DEF done
    <2>. QED
      BY <1>1, <1>2, <2>1
  <1>4. t \in K /\ p.through <= t
    <2>. HIDE DEF K
    <2>1. p.through + Cardinality(done) \in Nat
      BY <1>1, <1>2
    <2>. QED
      BY <1>3, <2>1, GreatestElement
  <1>5. t \in Nat /\ (p.through + 1) .. t \subseteq done
    BY <1>3, <1>4
  <1>. HIDE DEF K, t
  <1>6. IsFiniteSet(rest)
    BY <1>2, FS_Subset
  <1>7. Advanced(p, seq) = [p EXCEPT !.through = t, !.pending = rest]
    BY DEF Advanced, t, K
  <1>8. rest \subseteq Nat /\ rest \subseteq done
    BY <1>1
  <1>. HIDE DEF rest
  <1>9. /\ Advanced(p, seq) \in [through : Nat, pending : SUBSET Nat, terminal : BOOLEAN]
        /\ Advanced(p, seq).through = t /\ Advanced(p, seq).pending = rest /\ Advanced(p, seq).terminal = p.terminal
    BY <1>5, <1>7, <1>8
  <1>10. ASSUME NEW s \in Nat, s <= t \/ s \in rest PROVE s <= p.through \/ s \in p.pending \/ s = seq
    <2>1. s > p.through /\ s <= t => s \in (p.through + 1) .. t
      BY <1>1, <1>5
    <2>. QED
      BY <1>1, <1>5, <1>8, <1>10, <2>1
  <1>. QED
    BY <1>4, <1>6, <1>9, <1>10

\* What is recorded is the first of the writes whose attributes are previewed.
LEMMA RecordHead ==
    ASSUME MutInv, NEW i \in Inode, lane[i].at = "record", ~progress.terminal, NEW j \in write[lane[i].job].inos
    PROVE  j \in Inode /\ Len(attrs[j]) > 0 /\ attrs[j][1] = lane[i].job
  <1>. DEFINE n == lane[i].job
  <1>0. Types /\ Tracking /\ Previewed /\ Arrivals /\ Outcomes /\ Waiting
    BY DEF MutInv
  <1>1. n \in DOMAIN write /\ Visible(n) /\ write[n].result = "none" /\ j \in Inode /\ lane[j].job = n /\ n # Nobody
    BY <1>0, JobFacts, WriteTypes DEF Outcomes, OutcomeOf, Applying, Dispatching, Arrivals
  <1>2. n \in Range(attrs[j]) /\ attrs[j] \in Seq(Names) /\ ~runtime[j].terminal /\ runtime[j].entries \in Seq(Names)
    BY <1>0, <1>1, LaneTypes DEF Previewed, PreviewOf, Ordered, On, Tracking, Tracked
  <1>. HIDE DEF n
  <1>3. 1 \in DOMAIN runtime[j].entries /\ runtime[j].entries[1] = n
    BY <1>0, <1>1, <1>2 DEF Tracking, Tracked
  <1>4. PICK b \in DOMAIN attrs[j] : attrs[j][b] = n
    BY <1>2, RangeTypes
  <1>5. 1 \in DOMAIN attrs[j] /\ Len(attrs[j]) > 0 /\ b \in Nat /\ 1 <= b
    BY <1>2, <1>4
  <1>6. attrs[j][1] \in Range(attrs[j])
    BY <1>2, <1>5, RangeTypes
  <1>7. PICK p \in DOMAIN runtime[j].entries : runtime[j].entries[p] = attrs[j][1]
    <2>1. attrs[j][1] \in On(j) /\ Visible(attrs[j][1]) /\ write[attrs[j][1]].result = "none"
      BY <1>0, <1>1, <1>6 DEF Previewed, PreviewOf, Ordered
    <2>2. InLane(j, attrs[j][1])
      BY <1>0, <2>1 DEF Waiting, Unsettled, On, Visible, Staged
    <2>3. attrs[j][1] \in Range(runtime[j].entries)
      BY <1>0, <1>1, <2>2 DEF Tracking, Tracked, InLane
    <2>. QED
      BY <1>2, <2>3, RangeTypes
  <1>8. 1 < b => p < 1
    BY <1>0, <1>1, <1>3, <1>4, <1>5, <1>7 DEF Previewed, PreviewOf, Ordered
  <1>9. p \in Nat /\ 1 <= p
    BY <1>2, <1>7
  <1>. QED
    BY <1>1, <1>4, <1>5, <1>8, <1>9 DEF n

\* Publication gives the next sequence, or drops the write.
LEMMA PublishFacts ==
    ASSUME Types, NEW n \in DOMAIN write, Publish(n)
    PROVE  \/ Becomes(n, "dropped", FALSE) /\ gate.terminal /\ gate' = gate
           \/ /\ Rewrites(n, "published", gate.through + 1, write[n].held, write[n].arrived, write[n].cancelled, write[n].result, write[n].committed)
              /\ ~gate.terminal /\ gate'.through = gate.through + 1 /\ gate' \in [through : Nat, terminal : BOOLEAN]
  <1>0. gate \in [through : Nat, terminal : BOOLEAN] /\ "dropped" \in Pcs /\ "published" \in Pcs
    BY DEF Types, Pcs
  <1>1. CASE gate.terminal
    BY <1>0, <1>1, Dropping DEF Publish
  <1>2. CASE ~gate.terminal
    <2>1. gate.through + 1 \in Nat
      BY <1>0
    <2>2. write' = [write EXCEPT ![n].pc = "published", ![n].seq = gate.through + 1] /\ gate' = [gate EXCEPT !.through = @ + 1]
      BY <1>2 DEF Publish
    <2>3. Rewrites(n, "published", gate.through + 1, write[n].held, write[n].arrived, write[n].cancelled, write[n].result, write[n].committed)
      BY <1>0, <2>1, <2>2, Numbering
    <2>. QED
      BY <1>0, <1>2, <2>1, <2>2, <2>3
  <1>. QED
    BY <1>1, <1>2

\* What a step makes of the write it is about.
LEMMA WriteFacts ==
    ASSUME Types, Tracking, Previewed, NEW n \in DOMAIN write
    PROVE  /\ Reserve(n) => Becomes(n, "reserved", write[n].held)
           /\ Show(n) => Becomes(n, "acked", write[n].held) /\ Reaps(n)
           /\ Cancel(n) => Rewrites(n, "releasing", write[n].seq, write[n].held, write[n].arrived, TRUE, Outcome(n, "ok"), write[n].committed)
  <1>1. "reserved" \in Pcs /\ "acked" \in Pcs
    BY DEF Pcs
  <1>2. ASSUME Show(n) PROVE Becomes(n, "acked", write[n].held) /\ Reaps(n)
    BY <1>1, <1>2, Renaming, ReleaseFacts DEF Show
  <1>3. ASSUME Reserve(n) PROVE Becomes(n, "reserved", write[n].held)
    BY <1>1, <1>3, Renaming DEF Reserve
  <1>4. ASSUME Cancel(n) PROVE Rewrites(n, "releasing", write[n].seq, write[n].held, write[n].arrived, TRUE, Outcome(n, "ok"), write[n].committed)
    BY <1>4, Cancelling DEF Cancel
  <1>. QED
    BY <1>2, <1>3, <1>4

LEMMA SubmitFacts ==
    ASSUME Types, Tracking, NEW i \in Inode, Submit(i)
    PROVE  /\ lane[i].job \in DOMAIN write /\ lane[i].at = "apply"
           /\ Becomes(lane[i].job, write[lane[i].job].pc, FALSE) /\ Moves(i, "commit")
  <1>1. lane[i].at = "apply" /\ lane[i].job \in DOMAIN write /\ "commit" \in Steps
    BY JobFacts DEF Submit, Steps
  <1>. QED
    BY <1>1, Unlocking, MoveFacts DEF Submit

\* The bytes of a write become canonical.
Applies(n) ==
    \A j \in Inode :
       /\ j \notin write[n].inos => base'[j] = base[j]
       /\ j \in write[n].inos => \A x \in Cell : /\ x \in write[n].cells => base'[j].at[x] = n
                                                 /\ x \notin write[n].cells => base'[j].at[x] = base[j].at[x]

LEMMA CommitFacts ==
    ASSUME Types, Tracking, NEW i \in Inode, Commit(i)
    PROVE  /\ lane[i].job \in DOMAIN write /\ lane[i].at = "commit"
           /\ LET n == lane[i].job
              IN  Rewrites(n, write[n].pc, write[n].seq, write[n].held, write[n].arrived, write[n].cancelled, write[n].result, TRUE)
           /\ Moves(i, "record")
           /\ base' \in [Inode -> Files] /\ Applies(lane[i].job)
  <1>. DEFINE n == lane[i].job
              w == write[n]
  <1>1. lane[i].at = "commit" /\ n \in DOMAIN write /\ "record" \in Steps
    BY JobFacts DEF Commit, Steps
  <1>2. Rewrites(n, write[n].pc, write[n].seq, write[n].held, write[n].arrived, write[n].cancelled, write[n].result, TRUE)
    BY <1>1, MarkCommitted DEF Commit
  <1>3. Moves(i, "record")
    BY <1>1, MoveFacts DEF Commit
  <1>4. n \in 0..MaxWrites
    BY LaneTypes
  <1>5. base' = [j \in Inode |-> IF j \notin w.inos THEN base[j] ELSE
                      [size |-> w.size[j],
                       at |-> [x \in Cell |-> IF x \in w.cells THEN n ELSE base[j].at[x]]]]
    BY DEF Commit
  <1>. HIDE DEF n
  <1>6. ASSUME NEW j \in Inode
        PROVE  /\ base'[j] \in Files
               /\ j \notin w.inos => base'[j] = base[j]
               /\ j \in w.inos => \A x \in Cell : base'[j].at[x] = IF x \in w.cells THEN n ELSE base[j].at[x]
    <2>. DEFINE a == [x \in Cell |-> IF x \in w.cells THEN n ELSE base[j].at[x]]
    <2>1. a \in [Cell -> 0..MaxWrites]
      BY <1>4, LaneTypes
    <2>2. w.size[j] \in Sizes
      <3>1. w \in Writes
        BY <1>1, WriteTypes
      <3>. QED
        BY <3>1 DEF Writes
    <2>3. CASE j \notin w.inos
      BY <1>5, <2>3, LaneTypes
    <2>4. CASE j \in w.inos
      <3>1. base'[j] = [size |-> w.size[j], at |-> a]
        BY <1>5, <2>4
      <3>2. \A x \in Cell : a[x] = IF x \in w.cells THEN n ELSE base[j].at[x]
        OBVIOUS
      <3>. HIDE DEF a
      <3>. QED
        BY <2>1, <2>2, <2>4, <3>1, <3>2 DEF Files
    <2>. QED
      BY <2>3, <2>4
  <1>7. base' \in [Inode -> Files]
    BY <1>5, <1>6
  <1>8. Applies(n)
    BY <1>6 DEF Applies
  <1>. QED
    BY <1>1, <1>2, <1>3, <1>7, <1>8 DEF n

\* A lane's next job, and whether it dispatches it.
LEMMA ArriveFacts ==
    ASSUME Types, Tracking, NEW i \in Inode, Arrive(i)
    PROVE  LET n == Head(lane[i].queue)
           IN  /\ n \in DOMAIN write /\ n \in Range(lane[i].queue) /\ lane[i].job = Nobody /\ lane[i].at = "idle"
               /\ lane[i].queue # <<>>
               /\ \/ write[n].result # "none" /\ write' = write /\ Takes(i, write[n].result)
                  \/ /\ write[n].result = "none"
                     /\ Rewrites(n, write[n].pc, write[n].seq, write[n].held, write[n].arrived + 1, write[n].cancelled, write[n].result, write[n].committed)
                     /\ Takes(i, IF write[n].arrived + 1 = Cardinality(write[n].inos) THEN "take" ELSE "wait")
  <1>. DEFINE n == Head(lane[i].queue)
  <1>1. lane[i].job = Nobody /\ lane[i].queue # <<>> /\ lane[i].at = "idle"
    BY DEF Arrive, Tracking, Tracked
  <1>2. n \in Range(lane[i].queue)
    BY <1>1, LaneTypes DEF Range
  <1>3. n \in DOMAIN write
    BY <1>2 DEF Tracking, Tracked
  <1>4. write[n].result \in Results
    BY <1>3, WriteTypes DEF Writes
  <1>5. CASE write[n].result # "none"
    <2>1. write[n].result \in Steps /\ Taken(i, write[n].result) /\ write' = write
      BY <1>4, <1>5 DEF Arrive, Results, Steps
    <2>. QED
      BY <1>1, <1>2, <1>3, <1>5, <2>1, TakeFacts
  <1>6. CASE write[n].result = "none"
    <2>. DEFINE step == IF write[n].arrived + 1 = Cardinality(write[n].inos) THEN "take" ELSE "wait"
    <2>1. step \in Steps /\ Taken(i, step) /\ write' = [write EXCEPT ![n].arrived = @ + 1]
      BY <1>6 DEF Arrive, Steps
    <2>2. Takes(i, step)
      BY <1>1, <2>1, TakeFacts
    <2>. QED
      BY <1>1, <1>2, <1>3, <1>6, <2>1, <2>2, Arriving
  <1>. QED
    BY <1>5, <1>6

\* The attributes after an answer, and after a record.
LEMMA ShowAttrs ==
    ASSUME Types, NEW n \in DOMAIN write, Show(n)
    PROVE  /\ attrs' \in [Inode -> Seq(Names)]
           /\ \A i \in Inode : attrs'[i] = IF i \in write[n].inos THEN Append(attrs[i], n) ELSE attrs[i]
  <1>1. attrs' = [i \in Inode |-> IF i \in write[n].inos THEN Append(attrs[i], n) ELSE attrs[i]]
    BY DEF Show
  <1>2. \A i \in Inode : attrs[i] \in Seq(Names) /\ Append(attrs[i], n) \in Seq(Names)
    BY LaneTypes, WriteTypes, AppendProperties
  <1>. QED
    BY <1>1, <1>2

LEMMA RecordAttrs ==
    ASSUME MutInv, NEW i \in Inode, Records(i, "ok")
    PROVE  /\ attrs' \in [Inode -> Seq(Names)]
           /\ \A j \in Inode : attrs'[j] = IF j \in write[lane[i].job].inos THEN Tail(attrs[j]) ELSE attrs[j]
  <1>0. Types
    BY DEF MutInv
  <1>1. ASSUME NEW j \in Inode PROVE IF j \in write[lane[i].job].inos THEN Tail(attrs[j]) \in Seq(Names) ELSE attrs[j] \in Seq(Names)
    BY <1>0, LaneTypes, RecordHead, HeadTailProperties DEF Records
  <1>2. attrs' = [j \in Inode |-> IF j \in write[lane[i].job].inos THEN Tail(attrs[j]) ELSE attrs[j]]
    BY DEF Records
  <1>. QED
    BY <1>1, <1>2

LEMMA ProgressTypes ==
    ASSUME MutInv, NEW i \in Inode, NEW r \in {"ok", "err"}, lane[i].at # "idle", Poisons(i, r) \/ Records(i, r) \/ Leaves(i, r)
    PROVE  /\ progress' \in [through : Nat, pending : SUBSET Nat, terminal : BOOLEAN] /\ IsFiniteSet(progress'.pending)
           /\ down' \in [budget : BOOLEAN, frozen : BOOLEAN] /\ attrs' \in [Inode -> Seq(Names)]
           /\ progress.terminal => progress'.terminal
           /\ down.frozen => down'.frozen
           /\ progress.through <= progress'.through
  <1>0. /\ Types /\ progress \in [through : Nat, pending : SUBSET Nat, terminal : BOOLEAN] /\ IsFiniteSet(progress.pending)
        /\ down \in [budget : BOOLEAN, frozen : BOOLEAN] /\ Tracking /\ attrs \in [Inode -> Seq(Names)]
    BY DEF MutInv, Types
  <1>1. CASE Poisons(i, r)
    <2>1. progress' \in [through : Nat, pending : SUBSET Nat, terminal : BOOLEAN]
      BY <1>0, <1>1 DEF Poisons
    <2>2. progress'.pending = progress.pending /\ progress'.through = progress.through /\ progress'.terminal
      BY <1>0, <1>1 DEF Poisons
    <2>3. down' \in [budget : BOOLEAN, frozen : BOOLEAN] /\ down'.frozen
      BY <1>0, <1>1 DEF Poisons
    <2>4. progress.through \in Nat /\ attrs' = attrs
      BY <1>0, <1>1 DEF Poisons
    <2>. QED
      BY <1>0, <2>1, <2>2, <2>3, <2>4
  <1>2. CASE Records(i, r)
    <2>1. write[lane[i].job].seq \in Nat
      BY <1>0, JobFacts, WriteTypes
    <2>2. r = "ok"
      BY <1>2 DEF Records
    <2>3. attrs' \in [Inode -> Seq(Names)]
      BY <1>2, <2>2, RecordAttrs
    <2>4. progress' = Advanced(progress, write[lane[i].job].seq) /\ down' = down
      BY <1>2 DEF Records
    <2>5. /\ progress' \in [through : Nat, pending : SUBSET Nat, terminal : BOOLEAN] /\ IsFiniteSet(progress'.pending)
          /\ progress'.terminal = progress.terminal /\ progress.through <= progress'.through
      BY <1>0, <2>1, <2>4, AdvancedFacts
    <2>. QED
      BY <1>0, <2>3, <2>4, <2>5
  <1>3. CASE Leaves(i, r)
    <2>1. progress.through \in Nat
      BY <1>0
    <2>. QED
      BY <1>0, <1>3, <2>1 DEF Leaves
  <1>. QED
    BY <1>1, <1>2, <1>3

LEMMA FenceTypesStep ==
    ASSUME Types, Fencing, NEW c \in Client, Asks(c) \/ Punch(c)
    PROVE  fence' \in [Client -> FenceTypes]
  <1>0. /\ fence \in [Client -> FenceTypes] /\ gate \in [through : Nat, terminal : BOOLEAN] /\ fence[c] \in FenceTypes
    BY DEF Types
  <1>1. NoFence \in FenceTypes
    BY DEF NoFence, FenceTypes, Nobody
  <1>2. CASE Reads(c) \/ Flushes(c)
    BY <1>0, <1>2, AskFacts DEF Asks
  <1>3. ASSUME NEW i \in Inode, FenceClose(c, i) PROVE fence' \in [Client -> FenceTypes]
    <2>1. [NoFence EXCEPT !.pc = "close", !.ino = i] \in FenceTypes
      BY <1>1 DEF FenceTypes
    <2>. QED
      BY <1>0, <1>3, <2>1 DEF FenceClose
  <1>4. CASE FenceQuiet(c)
    <2>1. [fence[c] EXCEPT !.pc = "drain", !.cutoff = gate.through] \in FenceTypes
      BY <1>0 DEF FenceTypes
    <2>. QED
      BY <1>0, <1>1, <1>4, <2>1 DEF FenceQuiet
  <1>5. CASE FenceDrain(c)
    <2>. DEFINE rt == runtime[fence[c].ino]
                f == [fence[c] EXCEPT !.pc = IF rt.up THEN "lane" ELSE "held", !.target = rt.through + Len(rt.entries)]
    <2>0. PICK t : t = rt.through + Len(rt.entries)
      OBVIOUS
    <2>1. fence' = [fence EXCEPT ![c] = NoFence] \/ fence' = [fence EXCEPT ![c] = f]
      BY <1>5 DEF FenceDrain
    <2>2. f \in FenceTypes
      <3>1. fence[c].ino \in Inode
        BY <1>5 DEF FenceDrain, Fencing, FenceOf
      <3>2. t \in Nat
        BY <2>0, <3>1, LaneTypes
      <3>. QED
        BY <1>0, <2>0, <3>2 DEF FenceTypes
    <2>. QED
      BY <1>0, <1>1, <2>1, <2>2
  <1>6. CASE FenceLane(c)
    <2>1. [fence[c] EXCEPT !.pc = "held"] \in FenceTypes
      BY <1>0 DEF FenceTypes
    <2>. QED
      BY <1>0, <1>1, <1>6, <2>1 DEF FenceLane
  <1>7. CASE Punch(c)
    BY <1>0, <1>1, <1>7 DEF Punch
  <1>. QED
    BY <1>2, <1>3, <1>4, <1>5, <1>6, <1>7 DEF Asks, Fences

LEMMA TypesStep ==
    ASSUME MutInv, [Next]_vars
    PROVE  Types'
  <1>0. /\ Types /\ Lives /\ Tracking /\ Previewed /\ Fencing
        /\ write \in Seq(Writes) /\ Len(write) <= MaxWrites
        /\ gate \in [through : Nat, terminal : BOOLEAN] /\ runtime \in [Inode -> Runtimes]
        /\ lane \in [Inode -> Lanes] /\ attrs \in [Inode -> Seq(Names)] /\ base \in [Inode -> Files]
        /\ progress \in [through : Nat, pending : SUBSET Nat, terminal : BOOLEAN] /\ IsFiniteSet(progress.pending)
        /\ down \in [budget : BOOLEAN, frozen : BOOLEAN] /\ fence \in [Client -> FenceTypes]
    BY DEF MutInv, Types
  <1>1. ASSUME NEW inos \in (SUBSET Inode) \ {{}}, NEW cells \in Extents, Begin(inos, cells) PROVE Types'
    <2>1. UNCHANGED <<gate, lane, attrs, base, progress, down, fence>>
      BY <1>1 DEF Begin, clients
    <2>. QED
      BY <1>0, <1>1, <2>1, BeginFacts DEF Types, Registers
  <1>2. ASSUME NEW n \in DOMAIN write, WriteMove(n) PROVE Types'
    <2>1. CASE Reserve(n) \/ Prepare(n) \/ Cancel(n)
      <3>1. UNCHANGED <<gate, runtime, lane, attrs, base, progress, down, fence>>
        BY <2>1 DEF Reserve, Prepare, Cancel, clients
      <3>2. write' \in Seq(Writes) /\ Len(write') = Len(write)
        BY <1>0, <2>1, WriteFacts, PrepareFacts DEF Becomes, Rewrites
      <3>. QED
        BY <1>0, <3>1, <3>2 DEF Types
    <2>2. CASE Aborts(n)
      <3>1. UNCHANGED <<gate, lane, attrs, base, progress, down, fence>>
        BY <2>2 DEF Aborts, Abort, clients
      <3>2. write' \in Seq(Writes) /\ Len(write') = Len(write) /\ runtime' \in [Inode -> Runtimes]
        BY <1>0, <2>2, AbortFacts DEF Aborts, Becomes, Rewrites, Reaps
      <3>. QED
        BY <1>0, <3>1, <3>2 DEF Types
    <2>3. CASE Stage(n)
      <3>1. UNCHANGED <<gate, attrs, base, progress, down, fence>>
        BY <2>3 DEF Stage, clients
      <3>2. write' \in Seq(Writes) /\ Len(write') = Len(write) /\ runtime' \in [Inode -> Runtimes] /\ lane' \in [Inode -> Lanes]
        BY <1>0, <2>3, StageFacts DEF Becomes, Rewrites, Appends
      <3>. QED
        BY <1>0, <3>1, <3>2 DEF Types
    <2>4. CASE Publish(n)
      <3>1. UNCHANGED <<runtime, lane, attrs, base, progress, down, fence>>
        BY <2>4 DEF Publish, clients
      <3>2. write' \in Seq(Writes) /\ Len(write') = Len(write) /\ gate' \in [through : Nat, terminal : BOOLEAN]
        BY <1>0, <2>4, PublishFacts DEF Becomes, Rewrites
      <3>. QED
        BY <1>0, <3>1, <3>2 DEF Types
    <2>5. CASE Show(n)
      <3>1. UNCHANGED <<gate, lane, base, progress, down, fence>>
        BY <2>5 DEF Show
      <3>2. write' \in Seq(Writes) /\ Len(write') = Len(write) /\ runtime' \in [Inode -> Runtimes]
        BY <1>0, <2>5, WriteFacts DEF Becomes, Rewrites, Reaps
      <3>. QED
        BY <1>0, <2>5, <3>1, <3>2, ShowAttrs DEF Types
    <2>. QED
      BY <1>2, <2>1, <2>2, <2>3, <2>4, <2>5 DEF WriteMove
  <1>3. ASSUME NEW i \in Inode, JobMove(i) PROVE Types'
    <2>1. CASE Retire(i)
      <3>1. lane' \in [Inode -> Lanes] /\ UNCHANGED <<write, gate, runtime, attrs, base, progress, down, fence>>
        BY <1>0, <2>1, NoRuntimeTypes DEF Retire, clients
      <3>. QED
        BY <1>0, <3>1 DEF Types
    <2>2. CASE Arrive(i)
      <3>1. UNCHANGED <<gate, runtime, attrs, base, progress, down, fence>>
        BY <2>2 DEF Arrive, clients
      <3>2. lane' \in [Inode -> Lanes] /\ write' \in Seq(Writes) /\ Len(write') = Len(write)
        BY <1>0, <2>2, ArriveFacts DEF Takes, Rewrites
      <3>. QED
        BY <1>0, <3>1, <3>2 DEF Types
    <2>3. ASSUME NEW step \in Steps, Proceeds(i, step) PROVE Types'
      <3>1. UNCHANGED <<write, gate, runtime, attrs, base, progress, down, fence>> /\ lane' \in [Inode -> Lanes]
        BY <2>3 DEF Proceeds, clients, Moves
      <3>. QED
        BY <1>0, <3>1 DEF Types
    <2>4. ASSUME NEW r \in {"ok", "err"}, Concludes(i, r), Poisons(i, r) \/ Records(i, r) \/ Leaves(i, r) PROVE Types'
      <3>1. UNCHANGED <<gate, runtime, base, fence>> /\ lane' \in [Inode -> Lanes] /\ lane[i].at # "idle"
        BY <2>4 DEF Concludes, clients, Settles, Moves, Dispatching
      <3>2. write' \in Seq(Writes) /\ Len(write') = Len(write)
        BY <2>4 DEF Concludes, Settles, Rewrites
      <3>3. /\ progress' \in [through : Nat, pending : SUBSET Nat, terminal : BOOLEAN] /\ IsFiniteSet(progress'.pending)
            /\ down' \in [budget : BOOLEAN, frozen : BOOLEAN] /\ attrs' \in [Inode -> Seq(Names)]
        BY <2>4, <3>1, ProgressTypes
      <3>. QED
        BY <1>0, <3>1, <3>2, <3>3 DEF Types
    <2>5. CASE Submit(i)
      <3>1. UNCHANGED <<gate, runtime, attrs, base, progress, down, fence>>
        BY <2>5 DEF Submit, clients
      <3>2. lane' \in [Inode -> Lanes] /\ write' \in Seq(Writes) /\ Len(write') = Len(write)
        BY <1>0, <2>5, SubmitFacts DEF Moves, Rewrites, Becomes
      <3>. QED
        BY <1>0, <3>1, <3>2 DEF Types
    <2>6. CASE Commit(i)
      <3>1. UNCHANGED <<gate, runtime, attrs, progress, down, fence>>
        BY <2>6 DEF Commit, clients
      <3>2. lane' \in [Inode -> Lanes] /\ write' \in Seq(Writes) /\ Len(write') = Len(write) /\ base' \in [Inode -> Files]
        BY <1>0, <2>6, CommitFacts DEF Moves, Rewrites
      <3>. QED
        BY <1>0, <3>1, <3>2 DEF Types
    <2>7. CASE Complete(i)
      <3>1. UNCHANGED <<write, gate, attrs, base, progress, down, fence>>
        BY <2>7 DEF Complete, clients
      <3>2. lane' \in [Inode -> Lanes] /\ runtime' \in [Inode -> Runtimes]
        BY <1>0, <2>7, CompleteFacts DEF Ends, Retires
      <3>. QED
        BY <1>0, <3>1, <3>2 DEF Types
    <2>8. CASE Fail(i)
      <3>1. UNCHANGED <<write, gate, attrs, base, fence>>
        BY <2>8 DEF Fail, clients
      <3>2. lane' \in [Inode -> Lanes] /\ runtime' \in [Inode -> Runtimes]
        BY <1>0, <2>8, FailFacts DEF Ends
      <3>3. progress' \in [through : Nat, pending : SUBSET Nat, terminal : BOOLEAN] /\ progress'.pending = progress.pending
        BY <1>0, <2>8 DEF Fail
      <3>4. down' \in [budget : BOOLEAN, frozen : BOOLEAN]
        BY <2>8 DEF Fail
      <3>. QED
        BY <1>0, <3>1, <3>2, <3>3, <3>4 DEF Types
    <2>. QED
      BY <1>3, <2>1, <2>2, <2>3, <2>4, <2>5, <2>6, <2>7, <2>8 DEF JobMove, LaneMove
  <1>4. ASSUME NEW c \in Client, Asks(c) PROVE Types'
    <2>1. UNCHANGED <<write, gate, lane, attrs, progress, down, base>> /\ runtime' \in [Inode -> Runtimes]
      BY <1>0, <1>4, AskFacts DEF Reaps
    <2>. QED
      BY <1>0, <1>4, <2>1, FenceTypesStep DEF Types
  <1>5. ASSUME NEW c \in Client, Punch(c) PROVE Types'
    <2>1. UNCHANGED <<write, gate, lane, attrs, progress, down, runtime>>
      BY <1>5 DEF Punch, pipeline
    <2>2. base' \in [Inode -> Files]
      <3>. DEFINE j == fence[c].ino
      <3>1. j \in Inode /\ base[j] \in Files
        BY <1>0, <1>5 DEF Punch, Fencing, FenceOf
      <3>2. [x \in Cell |-> Zero] \in [Cell -> 0..MaxWrites]
        BY Constants DEF Zero
      <3>3. [base[j] EXCEPT !.at = [x \in Cell |-> Zero]] \in Files
        BY <3>1, <3>2 DEF Files
      <3>4. base' = [base EXCEPT ![j] = [base[j] EXCEPT !.at = [x \in Cell |-> Zero]]]
        BY <1>0, <1>5 DEF Punch
      <3>. QED
        BY <1>0, <3>1, <3>3, <3>4
    <2>. QED
      BY <1>0, <1>5, <2>1, <2>2, FenceTypesStep DEF Types
  <1>6. CASE Stop
    <2>1. UNCHANGED <<write, runtime, lane, attrs, base, progress, fence>>
      BY <1>6 DEF Stop, clients
    <2>2. gate' \in [through : Nat, terminal : BOOLEAN]
      BY <1>0, <1>6 DEF Stop
    <2>3. down' \in [budget : BOOLEAN, frozen : BOOLEAN]
      BY <1>0, <1>6 DEF Stop
    <2>. QED
      BY <1>0, <2>1, <2>2, <2>3 DEF Types
  <1>7. CASE UNCHANGED vars
    BY <1>0, <1>7 DEF vars, Types
  <1>. QED
    BY <1>1, <1>2, <1>3, <1>4, <1>5, <1>6, <1>7, Cases

-----------------------------------------------------------------------------
(* The life of a write *)

\* Runtimes that writes other than h need stay.
Ups(h) == \A i \in Inode : \A m \in On(i) : Active(m) /\ m # h /\ runtime[i].up => runtime'[i].up

LEMMA UpsOf ==
    ASSUME Types
    PROVE  /\ \A h : Reaps(h) => Ups(h)
           /\ \A c \in Client : Reaps(c) => Ups(Nobody)
           /\ runtime' = runtime => Ups(Nobody)
           /\ \A i \in Inode : Tracking /\ (Complete(i) \/ Fail(i)) => Ups(Nobody)
           /\ \A n \in DOMAIN write : Appends(n) => Ups(Nobody)
  <1>1. ASSUME NEW h, Reaps(h) PROVE Ups(h)
    BY <1>1 DEF Reaps, Ups
  <1>2. ASSUME NEW c \in Client, Reaps(c) PROVE Ups(Nobody)
    <2>1. \A i \in Inode : \A m \in On(i) : m # c
      BY WriteTypes, Constants DEF On
    <2>. QED
      BY <1>2, <2>1 DEF Reaps, Ups
  <1>3. ASSUME runtime' = runtime PROVE Ups(Nobody)
    BY <1>3 DEF Ups
  <1>4. ASSUME NEW i \in Inode, Tracking, Complete(i) \/ Fail(i) PROVE Ups(Nobody)
    <2>1. CASE Complete(i)
      BY <1>4, <2>1, CompleteFacts DEF Retires, Ups
    <2>2. CASE Fail(i)
      BY <2>2, FailFacts DEF Ups
    <2>. QED
      BY <1>4, <2>1, <2>2
  <1>5. ASSUME NEW n \in DOMAIN write, Appends(n) PROVE Ups(Nobody)
    BY <1>5 DEF Appends, Ups
  <1>. QED
    BY <1>1, <1>2, <1>3, <1>4, <1>5

\* One write changes, and what it becomes is alive.
LEMMA LivesKept ==
    ASSUME Types, Lives, NEW n, DOMAIN write' = DOMAIN write, n \in DOMAIN write => Life(n)',
           \A m \in DOMAIN write : m # n => write'[m] = write[m], Ups(n)
    PROVE  Lives'
  <1>1. ASSUME NEW m \in DOMAIN write, m # n PROVE Life(m)'
    <2>1. write'[m] = write[m] /\ Life(m) /\ write[m].inos \subseteq Inode
      BY <1>1, WriteTypes DEF Lives
    <2>2. \A i \in write[m].inos : Active(m) => runtime'[i].up
      BY <1>1, <2>1 DEF Life, Ups, On
    <2>. QED
      BY <2>1, <2>2 DEF Life, Active, Visible
  <1>. QED
    BY <1>1 DEF Lives

LEMMA LivesUnchanged ==
    ASSUME Types, Lives, write' = write, Ups(Nobody)
    PROVE  Lives'
  <1>1. Nobody \notin DOMAIN write
    BY DEF Types, Nobody
  <1>. QED
    BY <1>1, LivesKept

LEMMA LivesStep ==
    ASSUME MutInv, [Next]_vars
    PROVE  Lives'
  <1>0. Types /\ Lives /\ Tracking /\ Previewed /\ Fencing /\ Outcomes /\ Nobody \notin DOMAIN write
    BY DEF MutInv, Types, Nobody
  <1>1. ASSUME NEW inos \in (SUBSET Inode) \ {{}}, NEW cells \in Extents, Begin(inos, cells) PROVE Lives'
    <2>0. PICK n : n = Len(write) + 1
      OBVIOUS
    <2>1. Begun(n, inos) /\ Registers(inos)
      BY <1>0, <1>1, <2>0, BeginFacts
    <2>2. Life(n)'
      BY <2>1 DEF Begun, Registers, Life, Visible, Active
    <2>3. ASSUME NEW m \in DOMAIN write PROVE Life(m)'
      <3>1. write'[m] = write[m] /\ Life(m) /\ write[m].inos \subseteq Inode
        BY <1>0, <2>1, WriteTypes DEF Lives, Begun
      <3>2. \A i \in write[m].inos : runtime[i].up => runtime'[i].up
        BY <2>1, <3>1 DEF Registers
      <3>. QED
        BY <3>1, <3>2 DEF Life, Active, Visible
    <2>. QED
      BY <2>1, <2>2, <2>3 DEF Begun, Lives
  <1>2. ASSUME NEW n \in DOMAIN write, WriteMove(n) PROVE Lives'
    <2>0. Life(n) /\ write[n].inos \subseteq Inode
      BY <1>0, WriteTypes DEF Lives
    <2>1. CASE Reserve(n)
      <3>1. Becomes(n, "reserved", write[n].held) /\ runtime' = runtime /\ write[n].pc = "waiting"
        BY <1>0, <2>1, WriteFacts DEF Reserve
      <3>2. Life(n)'
        BY <2>0, <3>1 DEF Becomes, Rewrites, Life, Active, Visible
      <3>. QED
        BY <1>0, <3>1, <3>2, LivesKept DEF Becomes, Rewrites, Ups
    <2>2. CASE Prepare(n)
      <3>1. Becomes(n, "prepared", TRUE) /\ runtime' = runtime /\ write[n].pc = "reserved"
        BY <1>0, <2>2, PrepareFacts DEF Prepare
      <3>2. Life(n)'
        BY <2>0, <3>1 DEF Becomes, Rewrites, Life, Active, Visible
      <3>. QED
        BY <1>0, <3>1, <3>2, LivesKept DEF Becomes, Rewrites, Ups
    <2>3. CASE Cancel(n)
      <3>1. /\ Rewrites(n, "releasing", write[n].seq, write[n].held, write[n].arrived, TRUE, Outcome(n, "ok"), write[n].committed)
            /\ runtime' = runtime /\ write[n].pc = "dropped"
        BY <1>0, <2>3, WriteFacts DEF Cancel
      <3>2. Life(n)'
        BY <2>0, <3>1 DEF Rewrites, Outcome, Life, Active, Visible
      <3>. QED
        BY <1>0, <3>1, <3>2, LivesKept DEF Rewrites, Ups
    <2>4. CASE Aborts(n)
      <3>1. Becomes(n, "failed", FALSE) /\ Ups(n) /\ write[n].pc # "acked"
        BY <1>0, <2>4, AbortFacts, UpsOf DEF Aborts
      <3>2. Life(n)'
        BY <2>0, <3>1 DEF Becomes, Rewrites, Life, Active, Visible
      <3>. QED
        BY <1>0, <3>1, <3>2, LivesKept DEF Becomes, Rewrites
    <2>5. CASE Stage(n)
      <3>1. Becomes(n, "staged", write[n].held) /\ Appends(n) /\ write[n].pc = "prepared"
        BY <1>0, <2>5, StageFacts DEF Stage
      <3>2. Life(n)'
        BY <2>0, <3>1 DEF Becomes, Rewrites, Life, Active, Visible, Appends
      <3>. QED
        BY <1>0, <3>1, <3>2, LivesKept DEF Becomes, Rewrites, Appends, Ups
    <2>6. CASE Publish(n)
      <3>1. /\ \/ Becomes(n, "dropped", FALSE)
               \/ Rewrites(n, "published", gate.through + 1, write[n].held, write[n].arrived, write[n].cancelled, write[n].result, write[n].committed)
            /\ runtime' = runtime /\ write[n].pc = "staged"
        BY <1>0, <2>6, PublishFacts DEF Publish
      <3>2. Life(n)'
        BY <2>0, <3>1 DEF Becomes, Rewrites, Life, Active, Visible
      <3>. QED
        BY <1>0, <3>1, <3>2, LivesKept DEF Becomes, Rewrites, Ups
    <2>7. CASE Show(n)
      <3>1. Becomes(n, "acked", write[n].held) /\ Ups(n) /\ write[n].pc = "published"
        BY <1>0, <2>7, WriteFacts, UpsOf DEF Show
      <3>2. Life(n)'
        BY <2>0, <3>1 DEF Becomes, Rewrites, Life, Active, Visible
      <3>. QED
        BY <1>0, <3>1, <3>2, LivesKept DEF Becomes, Rewrites
    <2>. QED
      BY <1>2, <2>1, <2>2, <2>3, <2>4, <2>5, <2>6, <2>7 DEF WriteMove
  <1>3. ASSUME NEW i \in Inode, JobMove(i) PROVE Lives'
    <2>1. CASE Retire(i) \/ (\E step \in Steps : Proceeds(i, step))
      <3>1. write' = write /\ runtime' = runtime
        BY <2>1 DEF Retire, Proceeds
      <3>. QED
        BY <1>0, <3>1, LivesUnchanged, UpsOf
    <2>2. CASE Complete(i) \/ Fail(i)
      <3>1. write' = write /\ Ups(Nobody)
        BY <1>0, <2>2, UpsOf DEF Complete, Fail
      <3>. QED
        BY <1>0, <3>1, LivesUnchanged
    <2>3. CASE Arrive(i)
      <3>1. runtime' = runtime
        BY <2>3 DEF Arrive
      <3>0. PICK n : n = Head(lane[i].queue)
        OBVIOUS
      <3>2. /\ n \in DOMAIN write
            /\ \/ write' = write
               \/ Rewrites(n, write[n].pc, write[n].seq, write[n].held, write[n].arrived + 1, write[n].cancelled, write[n].result, write[n].committed)
        BY <1>0, <2>3, <3>0, ArriveFacts
      <3>3. CASE write' = write
        BY <1>0, <3>1, <3>3, LivesUnchanged, UpsOf
      <3>4. CASE Rewrites(n, write[n].pc, write[n].seq, write[n].held, write[n].arrived + 1, write[n].cancelled, write[n].result, write[n].committed)
        <4>1. Life(n)'
          BY <1>0, <3>1, <3>2, <3>4 DEF Lives, Rewrites, Life, Active, Visible
        <4>. QED
          BY <1>0, <3>1, <3>4, <4>1, LivesKept DEF Rewrites, Ups
      <3>. QED
        BY <3>2, <3>3, <3>4
    <2>4. ASSUME NEW r \in {"ok", "err"}, Concludes(i, r) PROVE Lives'
      <3>0. PICK n : n = lane[i].job
        OBVIOUS
      <3>1. n \in DOMAIN write /\ runtime' = runtime
        BY <1>0, <2>4, <3>0, JobFacts DEF Concludes, Dispatching
      <3>2. Life(n) /\ (Visible(n) => write[n].result = "none")
        BY <1>0, <2>4, <3>0, <3>1 DEF Lives, Outcomes, OutcomeOf, Concludes
      <3>3. /\ Rewrites(n, write[n].pc, write[n].seq, FALSE, write[n].arrived, write[n].cancelled, Outcome(n, r), write[n].committed)
            /\ write[n].pc \in {"acked", "dropped", "releasing", "failed"}
            /\ Visible(n) /\ r = "ok" => write[n].committed
        BY <2>4, <3>0 DEF Concludes, Settles
      <3>4. Life(n)'
        BY <3>1, <3>2, <3>3 DEF Rewrites, Outcome, Life, Active, Visible
      <3>. QED
        BY <1>0, <3>1, <3>3, <3>4, LivesKept DEF Rewrites, Ups
    <2>5. CASE Submit(i)
      <3>0. PICK n : n = lane[i].job
        OBVIOUS
      <3>1. n \in DOMAIN write /\ runtime' = runtime /\ Becomes(n, write[n].pc, FALSE) /\ write[n].pc = "acked"
        BY <1>0, <2>5, <3>0, SubmitFacts DEF Submit, Outcomes, OutcomeOf, Applying, Visible
      <3>2. Life(n)'
        BY <1>0, <3>1 DEF Lives, Becomes, Rewrites, Life, Active, Visible
      <3>. QED
        BY <1>0, <3>1, <3>2, LivesKept DEF Rewrites, Becomes, Ups
    <2>6. CASE Commit(i)
      <3>0. PICK n : n = lane[i].job
        OBVIOUS
      <3>1. /\ n \in DOMAIN write /\ runtime' = runtime /\ write[n].pc = "acked"
            /\ Rewrites(n, write[n].pc, write[n].seq, write[n].held, write[n].arrived, write[n].cancelled, write[n].result, TRUE)
        BY <1>0, <2>6, <3>0, CommitFacts DEF Commit, Outcomes, OutcomeOf, Applying, Visible
      <3>2. Life(n)'
        BY <1>0, <3>1 DEF Lives, Rewrites, Life, Active, Visible
      <3>. QED
        BY <1>0, <3>1, <3>2, LivesKept DEF Rewrites, Ups
    <2>. QED
      BY <1>3, <2>1, <2>2, <2>3, <2>4, <2>5, <2>6 DEF JobMove, LaneMove
  <1>4. ASSUME NEW c \in Client, Asks(c) \/ Punch(c) PROVE Lives'
    <2>1. write' = write /\ Ups(Nobody)
      BY <1>0, <1>4, AskFacts, UpsOf DEF Punch, pipeline
    <2>. QED
      BY <1>0, <2>1, LivesUnchanged
  <1>5. CASE Stop \/ UNCHANGED vars
    <2>1. write' = write /\ runtime' = runtime
      BY <1>5 DEF Stop, vars
    <2>. QED
      BY <1>0, <2>1, LivesUnchanged, UpsOf
  <1>. QED
    BY <1>1, <1>2, <1>3, <1>4, <1>5, Cases

-----------------------------------------------------------------------------
(* The entries and the jobs of an inode *)

\* What the first element of a sequence without repetitions leaves, ...
LEMMA TailFacts ==
    ASSUME NEW s \in Seq(Names), s # <<>>
    PROVE  /\ Tail(s) \in Seq(Names) /\ Len(Tail(s)) = Len(s) - 1 /\ Head(s) = s[1] /\ Head(s) \in Range(s)
           /\ \A k \in DOMAIN Tail(s) : k + 1 \in DOMAIN s /\ Tail(s)[k] = s[k + 1]
           /\ \A k \in DOMAIN s : k # 1 => k - 1 \in DOMAIN Tail(s) /\ Tail(s)[k - 1] = s[k]
           /\ Range(s) = {Head(s)} \cup Range(Tail(s))
           /\ Injective(s) => Injective(Tail(s)) /\ Head(s) \notin Range(Tail(s))
  <1>1. /\ Tail(s) \in Seq(Names) /\ Len(Tail(s)) = Len(s) - 1 /\ Head(s) = s[1] /\ Len(s) > 0 /\ Len(s) \in Nat
        /\ \A k \in 1..Len(Tail(s)) : Tail(s)[k] = s[k + 1]
    BY HeadTailProperties
  <1>2. PICK t : t = Tail(s)
    OBVIOUS
  <1>3. /\ t \in Seq(Names) /\ Len(t) = Len(s) - 1 /\ DOMAIN t = 1..(Len(s) - 1) /\ DOMAIN s = 1..Len(s)
        /\ \A k \in DOMAIN t : k + 1 \in DOMAIN s /\ t[k] = s[k + 1]
    BY <1>1, <1>2
  <1>4. \A k \in DOMAIN s : k # 1 => k - 1 \in DOMAIN t /\ t[k - 1] = s[k]
    BY <1>1, <1>3
  <1>5. 1 \in DOMAIN s /\ Head(s) \in Range(s)
    BY <1>1, <1>3 DEF Range
  <1>6. Range(s) = {Head(s)} \cup Range(t)
    <2>1. ASSUME NEW x \in Range(s) PROVE x \in {Head(s)} \cup Range(t)
      BY <1>1, <1>4 DEF Range
    <2>2. ASSUME NEW x \in Range(t) PROVE x \in Range(s)
      BY <1>3 DEF Range
    <2>. QED
      BY <1>5, <2>1, <2>2
  <1>7. ASSUME Injective(s) PROVE Injective(t)
    <2>. SUFFICES ASSUME NEW j \in DOMAIN t, NEW k \in DOMAIN t, t[j] = t[k] PROVE j = k
      BY DEF Injective
    <2>1. j + 1 \in DOMAIN s /\ k + 1 \in DOMAIN s /\ s[j + 1] = s[k + 1] /\ j \in Nat /\ k \in Nat
      BY <1>3
    <2>. QED
      BY <1>7, <2>1 DEF Injective
  <1>8. ASSUME Injective(s), Head(s) \in Range(t) PROVE FALSE
    <2>1. PICK k \in DOMAIN t : t[k] = Head(s)
      BY <1>8 DEF Range
    <2>2. k + 1 \in DOMAIN s /\ s[k + 1] = s[1] /\ k \in Nat /\ k >= 1
      BY <1>1, <1>3, <2>1
    <2>. QED
      BY <1>5, <1>8, <2>2 DEF Injective
  <1>. QED
    BY <1>1, <1>2, <1>3, <1>4, <1>5, <1>6, <1>7, <1>8

\* ... and what a new last one makes of it.
LEMMA AppendFacts ==
    ASSUME NEW s \in Seq(Names), NEW n \in Names
    PROVE  /\ Append(s, n) \in Seq(Names) /\ Len(Append(s, n)) = Len(s) + 1 /\ Len(s) \in Nat
           /\ \A k \in DOMAIN s : k \in DOMAIN Append(s, n) /\ Append(s, n)[k] = s[k]
           /\ Append(s, n)[Len(s) + 1] = n /\ DOMAIN Append(s, n) = DOMAIN s \cup {Len(s) + 1}
           /\ Range(Append(s, n)) = Range(s) \cup {n}
           /\ Injective(s) /\ n \notin Range(s) => Injective(Append(s, n))
  <1>1. PICK t : t = Append(s, n)
    OBVIOUS
  <1>2. /\ t \in Seq(Names) /\ Len(t) = Len(s) + 1 /\ Len(s) \in Nat /\ DOMAIN s = 1..Len(s)
        /\ \A k \in 1..Len(s) : t[k] = s[k]
        /\ t[Len(s) + 1] = n
    BY <1>1, AppendProperties
  <1>3. DOMAIN t = DOMAIN s \cup {Len(s) + 1}
    BY <1>2
  <1>4. Range(t) = Range(s) \cup {n}
    BY <1>2, <1>3 DEF Range
  <1>5. ASSUME Injective(s), n \notin Range(s) PROVE Injective(t)
    BY <1>2, <1>3, <1>5 DEF Injective, Range
  <1>. QED
    BY <1>1, <1>2, <1>3, <1>4, <1>5

\* Writes grow older and poison stays.
Ages ==
    /\ \A m \in DOMAIN write : /\ m \in DOMAIN write' /\ write'[m].inos = write[m].inos
                               /\ write[m].pc \in Staged => write'[m].pc \in Staged
    /\ progress.terminal => progress'.terminal
    /\ down.frozen => down'.frozen
Uncommitted(n) == \A m \in DOMAIN write : m # n => write'[m].committed = write[m].committed

LEMMA TrackedKept ==
    ASSUME Types, NEW i \in Inode, Tracked(i), Ages, NEW n, Uncommitted(n), n \notin Range(lane[i].queue),
           lane'[i].job = lane[i].job, lane'[i].queue = lane[i].queue, lane[i].at = "idle" <=> lane'[i].at = "idle",
           runtime'[i].entries = runtime[i].entries, runtime'[i].terminal = runtime[i].terminal,
           runtime'[i].up \/ runtime'[i] = NoRuntime
    PROVE  Tracked(i)'
  <1>1. \A m \in Range(runtime[i].entries) : m \in DOMAIN write' /\ write'[m].pc \in Staged /\ i \in write'[m].inos
    BY DEF Tracked, Ages
  <1>2. \A m \in Range(lane[i].queue) : m \in Range(runtime[i].entries) /\ m # lane[i].job /\ ~write'[m].committed
    BY DEF Tracked, Uncommitted
  <1>. QED
    BY <1>1, <1>2 DEF Tracked, Ages

LEMMA TrackedReaped ==
    ASSUME Types, NEW i \in Inode, Tracked(i), NEW h, Reaps(h)
    PROVE  /\ runtime'[i].entries = runtime[i].entries /\ runtime'[i].terminal = runtime[i].terminal
           /\ runtime'[i].up \/ runtime'[i] = NoRuntime
  <1>1. NoRuntime.entries = <<>> /\ NoRuntime.terminal = FALSE
    BY DEF NoRuntime
  <1>2. CASE runtime'[i] = runtime[i]
    BY <1>2 DEF Tracked
  <1>3. CASE runtime'[i] = NoRuntime /\ runtime[i].entries = <<>> /\ ~runtime[i].terminal
    <2>1. runtime[i].terminal = FALSE
      BY <1>3, LaneTypes
    <2>. QED
      BY <1>1, <1>3, <2>1
  <1>. QED
    BY <1>2, <1>3 DEF Reaps

\* A lane that moves on, or not at all, has the jobs it had.
LEMMA TrackingMoves ==
    ASSUME Types, Tracking, Ages, NEW n, Uncommitted(n), \A i \in Inode : n \notin Range(lane[i].queue),
           runtime' = runtime \/ (\E h : Reaps(h)),
           \A i \in Inode : /\ lane'[i].job = lane[i].job /\ lane'[i].queue = lane[i].queue
                            /\ lane[i].at = "idle" <=> lane'[i].at = "idle"
    PROVE  Tracking'
  <1>1. ASSUME NEW i \in Inode PROVE Tracked(i)'
    <2>1. Tracked(i)
      BY DEF Tracking
    <2>2. /\ runtime'[i].entries = runtime[i].entries /\ runtime'[i].terminal = runtime[i].terminal
          /\ runtime'[i].up \/ runtime'[i] = NoRuntime
      BY <2>1, TrackedReaped DEF Tracked
    <2>. QED
      BY <2>1, <2>2, TrackedKept
  <1>. QED
    BY <1>1 DEF Tracking

\* The same when nothing is committed.
LEMMA TrackingStays ==
    ASSUME Types, Tracking, Ages, Uncommitted(Nobody), runtime' = runtime \/ (\E h : Reaps(h)),
           \A i \in Inode : /\ lane'[i].job = lane[i].job /\ lane'[i].queue = lane[i].queue
                            /\ lane[i].at = "idle" <=> lane'[i].at = "idle"
    PROVE  Tracking'
  <1>1. \A i \in Inode : Nobody \notin Range(lane[i].queue)
    BY LaneTypes, RangeTypes
  <1>. QED
    BY <1>1, TrackingMoves

LEMMA TrackingStage ==
    ASSUME MutInv, NEW n \in DOMAIN write, Stage(n)
    PROVE  Tracking'
  <1>0. Types /\ Tracking /\ Lives
    BY DEF MutInv
  <1>1. Becomes(n, "staged", write[n].held) /\ Appends(n) /\ write[n].pc = "prepared" /\ ~down.frozen
    BY <1>0, StageFacts DEF Stage
  <1>2. Ages /\ Uncommitted(n) /\ ~write[n].committed /\ ~write'[n].committed /\ UNCHANGED <<progress, down>>
    <2>1. write[n].committed => write[n].pc = "acked"
      BY <1>0 DEF Lives, Life, Visible
    <2>. QED
      BY <1>1, <2>1 DEF Becomes, Rewrites, Ages, Uncommitted, Stage, Staged
  <1>3. ASSUME NEW i \in Inode PROVE n \notin Range(runtime[i].entries) /\ n \notin Range(lane[i].queue) /\ n # lane[i].job
    <2>1. Tracked(i) /\ n # Nobody /\ "prepared" \notin Staged
      BY <1>0, WriteTypes DEF Tracking, Staged, Names, Nobody
    <2>2. n \notin Range(runtime[i].entries)
      BY <1>1, <2>1 DEF Tracked
    <2>. QED
      BY <2>1, <2>2 DEF Tracked
  <1>4. ASSUME NEW i \in Inode \ write[n].inos PROVE Tracked(i)'
    <2>1. Tracked(i) /\ runtime'[i] = runtime[i] /\ lane'[i] = lane[i]
      BY <1>0, <1>1 DEF Tracking, Appends
    <2>2. runtime'[i].up \/ runtime'[i] = NoRuntime
      BY <2>1 DEF Tracked
    <2>. QED
      BY <1>0, <1>2, <1>3, <2>1, <2>2, TrackedKept
  <1>5. ASSUME NEW i \in write[n].inos PROVE Tracked(i)'
    <2>. DEFINE e == runtime[i].entries
                q == lane[i].queue
    <2>0. i \in Inode /\ n \in Names
      BY <1>0, WriteTypes
    <2>1. e \in Seq(Names) /\ q \in Seq(Names) /\ Tracked(i)
      BY <1>0, <2>0, LaneTypes DEF Tracking
    <2>2. runtime[i].up /\ ~runtime[i].terminal /\ Injective(e) /\ Injective(q)
      BY <1>0, <1>1, <2>1 DEF Lives, Life, Active, Tracked
    <2>3. /\ runtime'[i].up = runtime[i].up /\ runtime'[i].terminal = runtime[i].terminal
          /\ lane'[i].job = lane[i].job /\ lane'[i].at = lane[i].at
          /\ runtime'[i].entries = Append(e, n) /\ lane'[i].queue = Append(q, n)
      BY <1>1, <2>0 DEF Appends
    <2>4. /\ Range(Append(e, n)) = Range(e) \cup {n} /\ Injective(Append(e, n))
          /\ Range(Append(q, n)) = Range(q) \cup {n} /\ Injective(Append(q, n))
      BY <1>3, <2>0, <2>1, <2>2, AppendFacts
    <2>5. \A m \in Range(e) \cup {n} : m \in DOMAIN write' /\ write'[m].pc \in Staged /\ i \in write'[m].inos
      BY <1>1, <1>2, <2>1 DEF Tracked, Ages, Becomes, Rewrites, Staged
    <2>6. \A m \in Range(q) \cup {n} : m \in Range(e) \cup {n} /\ m # lane[i].job /\ ~write'[m].committed
      BY <1>2, <1>3, <2>0, <2>1 DEF Tracked, Uncommitted
    <2>7. IF lane[i].job = Nobody THEN Append(e, n) = Append(q, n)
          ELSE Len(Append(e, n)) > 0 /\ Head(Append(e, n)) = lane[i].job /\ Tail(Append(e, n)) = Append(q, n)
      <3>1. CASE lane[i].job = Nobody
        BY <2>1, <2>2, <3>1 DEF Tracked
      <3>2. CASE lane[i].job # Nobody
        <4>1. Len(e) > 0 /\ Head(e) = lane[i].job /\ Tail(e) = q
          BY <2>1, <2>2, <3>2 DEF Tracked
        <4>2. e # <<>> /\ Len(Append(e, n)) > 0
          BY <2>0, <2>1, <4>1, AppendFacts
        <4>3. Head(Append(e, n)) = Head(e) /\ Tail(Append(e, n)) = Append(Tail(e), n)
          BY <2>0, <2>1, <4>2, HeadTailAppend
        <4>. QED
          BY <3>2, <4>1, <4>2, <4>3
      <3>. QED
        BY <3>1, <3>2
    <2>. HIDE DEF e, q
    <2>. QED
      BY <1>2, <2>1, <2>2, <2>3, <2>4, <2>5, <2>6, <2>7 DEF Tracked, e, q
  <1>. QED
    BY <1>4, <1>5 DEF Tracking

LEMMA TrackingArrive ==
    ASSUME MutInv, NEW i \in Inode, Arrive(i)
    PROVE  Tracking'
  <1>0. Types /\ Tracking /\ Nobody \notin DOMAIN write
    BY DEF MutInv, Types, Nobody
  <1>1. PICK n : n = Head(lane[i].queue)
    OBVIOUS
  <1>2. /\ n \in DOMAIN write /\ n # Nobody /\ lane[i].job = Nobody /\ lane[i].at = "idle" /\ lane[i].queue # <<>>
        /\ UNCHANGED <<progress, down, runtime>>
        /\ \/ write[n].result # "none" /\ write' = write /\ Takes(i, write[n].result)
           \/ /\ Rewrites(n, write[n].pc, write[n].seq, write[n].held, write[n].arrived + 1, write[n].cancelled, write[n].result, write[n].committed)
              /\ Takes(i, IF write[n].arrived + 1 = Cardinality(write[n].inos) THEN "take" ELSE "wait")
    BY <1>0, <1>1, ArriveFacts DEF Arrive
  <1>3. PICK step : Takes(i, step) /\ step # "idle"
    <2>1. write[n].result \in Results
      BY <1>0, <1>2, WriteTypes DEF Writes
    <2>. QED
      BY <1>2, <2>1 DEF Results
  <1>4. Ages /\ Uncommitted(Nobody)
    BY <1>2 DEF Rewrites, Ages, Uncommitted
  <1>5. ASSUME NEW j \in Inode, j # i PROVE Tracked(j)'
    <2>1. Tracked(j) /\ lane'[j] = lane[j] /\ runtime'[j] = runtime[j] /\ Nobody \notin Range(lane[j].queue)
      BY <1>0, <1>2, <1>3, <1>5, LaneTypes, RangeTypes DEF Tracking, Takes
    <2>2. runtime'[j].up \/ runtime'[j] = NoRuntime
      BY <2>1 DEF Tracked
    <2>. QED
      BY <1>0, <1>4, <2>1, <2>2, TrackedKept
  <1>6. Tracked(i)'
    <2>. DEFINE e == runtime[i].entries
                q == lane[i].queue
    <2>1. Tracked(i) /\ q \in Seq(Names) /\ e \in Seq(Names) /\ runtime'[i] = runtime[i]
      BY <1>0, <1>2, LaneTypes DEF Tracking
    <2>2. /\ Injective(q) /\ q # <<>> /\ \A m \in Range(q) : m \in Range(e) /\ ~write[m].committed
      BY <1>2, <2>1 DEF Tracked
    <2>3. Range(q) = {n} \cup Range(Tail(q)) /\ Injective(Tail(q)) /\ n \notin Range(Tail(q)) /\ Len(q) > 0
      BY <1>1, <2>1, <2>2, TailFacts
    <2>4. lane'[i].job = n /\ lane'[i].queue = Tail(q) /\ lane'[i].at # "idle"
      BY <1>1, <1>3 DEF Takes
    <2>5. \A m \in Range(e) : m \in DOMAIN write' /\ write'[m].pc \in Staged /\ i \in write'[m].inos
      BY <1>4, <2>1 DEF Tracked, Ages
    <2>6. \A m \in Range(Tail(q)) : m \in Range(e) /\ m # n /\ ~write'[m].committed
      BY <1>0, <1>4, <2>1, <2>2, <2>3 DEF Uncommitted, Tracked
    <2>7. n \in Range(e)
      BY <2>2, <2>3
    <2>8. ~runtime[i].terminal => Len(e) > 0 /\ Head(e) = n /\ Tail(e) = Tail(q)
      BY <1>1, <1>2, <2>1, <2>3 DEF Tracked
    <2>. HIDE DEF e, q
    <2>. QED
      BY <1>2, <2>1, <2>3, <2>4, <2>5, <2>6, <2>7, <2>8 DEF Tracked, e, q
  <1>. QED
    BY <1>5, <1>6 DEF Tracking

LEMMA TrackingComplete ==
    ASSUME MutInv, NEW i \in Inode, Complete(i) \/ Fail(i)
    PROVE  Tracking'
  <1>0. Types /\ Tracking
    BY DEF MutInv
  <1>1. Ends(i) /\ write' = write
    BY <1>0, CompleteFacts, FailFacts DEF Complete, Fail
  <1>6. Fail(i) => progress'.terminal /\ down'.frozen
    BY <1>0 DEF Fail, Types
  <1>2. Ages /\ Uncommitted(Nobody)
    <2>1. Complete(i) => UNCHANGED <<progress, down>>
      BY DEF Complete
    <2>. QED
      BY <1>1, <1>6, <2>1 DEF Ages, Uncommitted
  <1>3. \A j \in Inode : j # i => runtime'[j] = runtime[j]
    BY <1>0, CompleteFacts, FailFacts DEF Retires
  <1>4. ASSUME NEW j \in Inode, j # i PROVE Tracked(j)'
    <2>1. Tracked(j) /\ lane'[j] = lane[j] /\ runtime'[j] = runtime[j] /\ Nobody \notin Range(lane[j].queue)
      BY <1>0, <1>1, <1>3, <1>4, LaneTypes, RangeTypes DEF Tracking, Ends
    <2>2. runtime'[j].up \/ runtime'[j] = NoRuntime
      BY <2>1 DEF Tracked
    <2>. QED
      BY <1>0, <1>2, <2>1, <2>2, TrackedKept
  <1>5. Tracked(i)'
    <2>1. /\ Tracked(i) /\ lane'[i].job = Nobody /\ lane'[i].queue = lane[i].queue /\ lane'[i].at = "idle"
          /\ \A m \in Range(lane[i].queue) : m # Nobody
      BY <1>0, <1>1, LaneTypes, RangeTypes DEF Tracking, Ends
    <2>2. CASE runtime'[i].entries = runtime[i].entries /\ runtime'[i].terminal /\ progress'.terminal /\ down'.frozen
               /\ (runtime'[i].up \/ runtime'[i] = NoRuntime)
      BY <1>1, <2>1, <2>2 DEF Tracked
    <2>3. CASE ~runtime[i].terminal /\ Retires(i) /\ lane[i].at = "ok"
      <3>1. /\ runtime'[i].entries = Tail(runtime[i].entries) /\ ~runtime'[i].terminal
            /\ runtime'[i].up = runtime[i].up \/ runtime'[i] = NoRuntime
        BY <2>3 DEF Retires
      <3>2. Tail(runtime[i].entries) = lane[i].queue /\ runtime[i].entries # <<>>
        BY <2>1, <2>3 DEF Tracked
      <3>3. runtime[i].up
        BY <2>1, <3>2 DEF Tracked, NoRuntime
      <3>4. \A m \in Range(lane[i].queue) : m \in DOMAIN write /\ write[m].pc \in Staged /\ i \in write[m].inos /\ ~write[m].committed
        BY <2>1 DEF Tracked
      <3>. QED
        BY <1>1, <2>1, <3>1, <3>2, <3>3, <3>4 DEF Tracked
    <2>4. CASE Fail(i)
      <3>1. /\ runtime'[i].entries = runtime[i].entries /\ runtime'[i].terminal /\ runtime'[i].up = runtime[i].up
            /\ lane[i].at = "err" /\ progress'.terminal /\ down'.frozen
        BY <1>0, <1>6, <2>4, FailFacts DEF Fail
      <3>2. runtime[i].entries # <<>>
        BY <1>0, <3>1, JobFacts DEF Range
      <3>3. runtime'[i].up
        BY <2>1, <3>1, <3>2 DEF Tracked, NoRuntime
      <3>. QED
        BY <2>2, <3>1, <3>3
    <2>5. CASE Complete(i)
      BY <1>0, <2>1, <2>2, <2>3, <2>5, CompleteFacts DEF Complete, Tracked
    <2>. QED
      BY <2>4, <2>5
  <1>. QED
    BY <1>4, <1>5 DEF Tracking

\* The job a lane dispatches is in no queue.
LEMMA DispatchedAlone ==
    ASSUME MutInv, NEW i \in Inode, Dispatching(i), write[lane[i].job].result = "none", NEW j \in Inode
    PROVE  lane[i].job \notin Range(lane[j].queue)
  <1>1. SUFFICES ASSUME lane[i].job \in Range(lane[j].queue) PROVE FALSE
    OBVIOUS
  <1>2. j \in write[lane[i].job].inos /\ lane[i].job # lane[j].job
    BY <1>1 DEF MutInv, Tracking, Tracked
  <1>. QED
    BY <1>2 DEF MutInv, Arrivals

\* The outcome of the job that is dispatched, once it was acknowledged.
LEMMA DispatchFacts ==
    ASSUME MutInv, NEW i \in Inode, Dispatching(i)
    PROVE  /\ lane[i].job \in DOMAIN write /\ i \in write[lane[i].job].inos /\ lane[i].at # "idle"
           /\ Visible(lane[i].job) => write[lane[i].job].result = "none"
           /\ Applying(i) => Visible(lane[i].job)
  <1>1. lane[i].at # "idle" /\ Types /\ Tracking
    BY DEF Dispatching, MutInv
  <1>. QED
    BY <1>1, JobFacts DEF MutInv, Outcomes, OutcomeOf

LEMMA TrackingStep ==
    ASSUME MutInv, [Next]_vars
    PROVE  Tracking'
  <1>0. Types /\ Tracking /\ Lives /\ Previewed /\ Nobody \notin DOMAIN write
    BY DEF MutInv, Types, Nobody
  <1>1. ASSUME NEW inos \in (SUBSET Inode) \ {{}}, NEW cells \in Extents, Begin(inos, cells) PROVE Tracking'
    <2>1. PICK n : Begun(n, inos) /\ Registers(inos) /\ lane' = lane
      BY <1>0, <1>1, BeginFacts DEF Begin
    <2>2. Ages /\ Uncommitted(Nobody)
      BY <1>1, <2>1 DEF Begun, Ages, Uncommitted, Begin
    <2>3. ASSUME NEW i \in Inode PROVE Tracked(i)'
      <3>1. Tracked(i) /\ Nobody \notin Range(lane[i].queue)
        BY <1>0, LaneTypes, RangeTypes DEF Tracking
      <3>2. runtime'[i].up \/ runtime'[i] = NoRuntime
        BY <2>1, <3>1 DEF Registers, Tracked
      <3>. QED
        BY <1>0, <2>1, <2>2, <3>1, <3>2, TrackedKept DEF Registers
    <2>. QED
      BY <2>3 DEF Tracking
  <1>2. ASSUME NEW n \in DOMAIN write, WriteMove(n) PROVE Tracking'
    <2>1. ASSUME lane' = lane, UNCHANGED <<progress, down>>, NEW pc, NEW seq, NEW held, NEW arrived, NEW cancelled, NEW result,
                 Rewrites(n, pc, seq, held, arrived, cancelled, result, write[n].committed),
                 write[n].pc \in Staged => pc \in Staged, runtime' = runtime \/ (\E h : Reaps(h))
          PROVE  Tracking'
      <3>1. Ages /\ Uncommitted(Nobody)
        BY <2>1 DEF Rewrites, Ages, Uncommitted
      <3>. QED
        BY <1>0, <2>1, <3>1, TrackingStays
    <2>2. CASE Reserve(n)
      BY <1>0, <2>1, <2>2, WriteFacts DEF Reserve, Becomes, Staged
    <2>3. CASE Prepare(n)
      BY <1>0, <2>1, <2>3, PrepareFacts DEF Prepare, Becomes, Staged
    <2>4. CASE Publish(n)
      BY <1>0, <2>1, <2>4, PublishFacts DEF Publish, Becomes, Staged
    <2>5. CASE Show(n)
      BY <1>0, <2>1, <2>5, WriteFacts DEF Show, Becomes, Staged
    <2>6. CASE Cancel(n)
      BY <1>0, <2>1, <2>6, WriteFacts DEF Cancel, Becomes, Staged
    <2>7. CASE Aborts(n)
      BY <1>0, <2>1, <2>7, AbortFacts DEF Aborts, Abort, Becomes, Staged
    <2>. QED
      BY <1>2, <2>2, <2>3, <2>4, <2>5, <2>6, <2>7, TrackingStage DEF WriteMove
  <1>3. ASSUME NEW i \in Inode, JobMove(i) PROVE Tracking'
    <2>1. CASE Retire(i)
      <3>1. Tracked(i) /\ lane[i].job = Nobody /\ lane[i].queue = <<>> /\ lane' = [lane EXCEPT ![i] = NoLane]
        BY <1>0, <2>1 DEF Retire, Tracking
      <3>2. NoLane.job = Nobody /\ NoLane.queue = <<>> /\ NoLane.at = "idle" /\ lane[i].at = "idle"
        BY <3>1 DEF NoLane, Tracked
      <3>3. \A j \in Inode : lane'[j] = IF j = i THEN NoLane ELSE lane[j]
        BY <1>0, <3>1 DEF Types
      <3>4. Ages /\ Uncommitted(Nobody) /\ runtime' = runtime
        BY <2>1 DEF Ages, Uncommitted, Retire
      <3>. QED
        BY <1>0, <3>1, <3>2, <3>3, <3>4, TrackingStays
    <2>2. ASSUME NEW step \in Steps, Proceeds(i, step) PROVE Tracking'
      <3>1. Ages /\ Uncommitted(Nobody) /\ runtime' = runtime
        BY <2>2 DEF Ages, Uncommitted, Proceeds
      <3>2. lane[i].at # "idle" /\ step # "idle" /\ Moves(i, step)
        <4>1. write[lane[i].job].result \in Results
          BY <1>0, <2>2, JobFacts, WriteTypes DEF Proceeds, Writes
        <4>. QED
          BY <2>2, <4>1 DEF Proceeds, Results
      <3>. QED
        BY <1>0, <3>1, <3>2, TrackingStays DEF Moves
    <2>3. ASSUME NEW r \in {"ok", "err"}, Concludes(i, r), Poisons(i, r) \/ Records(i, r) \/ Leaves(i, r) PROVE Tracking'
      <3>1. PICK n : n = lane[i].job
        OBVIOUS
      <3>2. lane[i].at # "idle" /\ Moves(i, r) /\ runtime' = runtime
        BY <2>3 DEF Concludes, Settles, Dispatching
      <3>3. Rewrites(n, write[n].pc, write[n].seq, FALSE, write[n].arrived, write[n].cancelled, Outcome(n, r), write[n].committed)
        BY <2>3, <3>1 DEF Concludes, Settles
      <3>4. (progress.terminal => progress'.terminal) /\ (down.frozen => down'.frozen)
        BY <2>3, <3>2, ProgressTypes
      <3>5. Ages /\ Uncommitted(Nobody)
        BY <3>3, <3>4 DEF Rewrites, Ages, Uncommitted
      <3>. QED
        BY <1>0, <3>2, <3>5, TrackingStays DEF Moves
    <2>4. CASE Submit(i)
      <3>1. PICK n : n = lane[i].job
        OBVIOUS
      <3>2. Becomes(n, write[n].pc, FALSE) /\ Moves(i, "commit") /\ lane[i].at = "apply" /\ UNCHANGED <<runtime, progress, down>>
        BY <1>0, <2>4, <3>1, SubmitFacts DEF Submit
      <3>3. Ages /\ Uncommitted(Nobody)
        BY <3>2 DEF Becomes, Rewrites, Ages, Uncommitted
      <3>. QED
        BY <1>0, <3>2, <3>3, TrackingStays DEF Moves
    <2>5. CASE Commit(i)
      <3>1. PICK n : n = lane[i].job
        OBVIOUS
      <3>2. /\ Rewrites(n, write[n].pc, write[n].seq, write[n].held, write[n].arrived, write[n].cancelled, write[n].result, TRUE)
            /\ Moves(i, "record") /\ lane[i].at = "commit" /\ UNCHANGED <<runtime, progress, down>>
        BY <1>0, <2>5, <3>1, CommitFacts DEF Commit
      <3>3. Ages /\ Uncommitted(n)
        BY <3>2 DEF Rewrites, Ages, Uncommitted
      <3>4. Dispatching(i) /\ Applying(i)
        BY <3>2 DEF Dispatching, Applying
      <3>5. \A j \in Inode : n \notin Range(lane[j].queue)
        BY <3>1, <3>4, DispatchFacts, DispatchedAlone
      <3>. QED
        BY <1>0, <3>2, <3>3, <3>5, TrackingMoves DEF Moves
    <2>. QED
      BY <1>3, <2>1, <2>2, <2>3, <2>4, <2>5, TrackingArrive, TrackingComplete DEF JobMove, LaneMove
  <1>4. ASSUME NEW c \in Client, Asks(c) \/ Punch(c) PROVE Tracking'
    <2>1. UNCHANGED <<write, progress, down, lane>> /\ (runtime' = runtime \/ Reaps(c))
      BY <1>0, <1>4, AskFacts DEF Punch, pipeline
    <2>2. Ages /\ Uncommitted(Nobody)
      BY <2>1 DEF Ages, Uncommitted
    <2>. QED
      BY <1>0, <2>1, <2>2, TrackingStays
  <1>5. CASE Stop \/ UNCHANGED vars
    <2>1. UNCHANGED <<write, progress, lane, runtime>> /\ (down.frozen => down'.frozen)
      BY <1>0, <1>5 DEF Stop, vars, Types
    <2>2. Ages /\ Uncommitted(Nobody)
      BY <2>1 DEF Ages, Uncommitted
    <2>. QED
      BY <1>0, <2>1, <2>2, TrackingStays
  <1>. QED
    BY <1>1, <1>2, <1>3, <1>4, <1>5, Cases

-----------------------------------------------------------------------------
(* A write without an outcome is in its lanes *)

LEMMA WaitingKept ==
    ASSUME Types, Waiting,
           \A m \in DOMAIN write' : Unsettled(m)' => m \in DOMAIN write /\ Unsettled(m) /\ write'[m].inos = write[m].inos,
           \A i \in Inode, m \in DOMAIN write : write[m].result = "none" /\ InLane(i, m) => InLane(i, m)'
    PROVE  Waiting'
  <1>1. ASSUME NEW m \in DOMAIN write', Unsettled(m)', NEW i \in write'[m].inos PROVE InLane(i, m)'
    <2>1. m \in DOMAIN write /\ Unsettled(m) /\ i \in write[m].inos
      BY <1>1
    <2>2. i \in Inode /\ InLane(i, m) /\ write[m].result = "none"
      BY <2>1, WriteTypes DEF Waiting, Unsettled
    <2>. QED
      BY <2>1, <2>2
  <1>. QED
    BY <1>1 DEF Waiting

\* One write changes, and does not become unsettled; the lanes keep their jobs.
LEMMA WaitingRewrites ==
    ASSUME Types, Waiting, NEW n \in DOMAIN write, NEW pc, NEW seq, NEW held, NEW arrived, NEW cancelled, NEW result, NEW committed,
           Rewrites(n, pc, seq, held, arrived, cancelled, result, committed),
           pc \in Staged \ {"failed"} /\ result = "none" => Unsettled(n),
           \A i \in Inode : lane'[i].job = lane[i].job /\ lane'[i].queue = lane[i].queue
    PROVE  Waiting'
  <1>1. \A m \in DOMAIN write' : Unsettled(m)' => m \in DOMAIN write /\ Unsettled(m) /\ write'[m].inos = write[m].inos
    BY DEF Rewrites, Unsettled
  <1>2. \A i \in Inode, m \in DOMAIN write : InLane(i, m) => InLane(i, m)'
    BY DEF InLane
  <1>. QED
    BY <1>1, <1>2, WaitingKept

LEMMA WaitingUnchanged ==
    ASSUME Types, Waiting, write' = write,
           \A i \in Inode, m \in DOMAIN write : write[m].result = "none" /\ InLane(i, m) => InLane(i, m)'
    PROVE  Waiting'
  BY WaitingKept DEF Unsettled

LEMMA WaitingStep ==
    ASSUME MutInv, [Next]_vars
    PROVE  Waiting'
  <1>0. Types /\ Waiting /\ Tracking /\ Lives /\ Previewed /\ Nobody \notin DOMAIN write
    BY DEF MutInv, Types, Nobody
  <1>1. ASSUME NEW inos \in (SUBSET Inode) \ {{}}, NEW cells \in Extents, Begin(inos, cells) PROVE Waiting'
    <2>1. PICK n : Begun(n, inos) /\ lane' = lane
      BY <1>0, <1>1, BeginFacts DEF Begin
    <2>2. \A m \in DOMAIN write' : Unsettled(m)' => m \in DOMAIN write /\ Unsettled(m) /\ write'[m].inos = write[m].inos
      BY <2>1 DEF Begun, Unsettled, Staged
    <2>. QED
      BY <1>0, <2>1, <2>2, WaitingKept DEF InLane
  <1>2. ASSUME NEW n \in DOMAIN write, WriteMove(n) PROVE Waiting'
    <2>0. Life(n)
      BY <1>0 DEF Lives
    <2>1. CASE Reserve(n)
      BY <1>0, <2>1, WriteFacts, WaitingRewrites DEF Reserve, Becomes, Staged, Unsettled
    <2>2. CASE Prepare(n)
      BY <1>0, <2>2, PrepareFacts, WaitingRewrites DEF Prepare, Becomes, Staged, Unsettled
    <2>3. CASE Publish(n)
      BY <1>0, <2>3, PublishFacts, WaitingRewrites DEF Publish, Becomes, Staged, Unsettled
    <2>4. CASE Show(n)
      BY <1>0, <2>4, WriteFacts, WaitingRewrites DEF Show, Becomes, Staged, Unsettled
    <2>5. CASE Cancel(n)
      BY <1>0, <2>5, WriteFacts, WaitingRewrites DEF Cancel, Becomes, Staged, Unsettled, Outcome
    <2>6. CASE Aborts(n)
      BY <1>0, <2>6, AbortFacts, WaitingRewrites DEF Aborts, Abort, Becomes, Staged, Unsettled
    <2>7. CASE Stage(n)
      <3>1. Becomes(n, "staged", write[n].held) /\ Appends(n)
        BY <1>0, <2>7, StageFacts
      <3>2. ASSUME NEW i \in Inode, NEW m, InLane(i, m) \/ (m = n /\ i \in write[n].inos) PROVE InLane(i, m)'
        <4>1. lane[i].queue \in Seq(Names) /\ n \in Names
          BY <1>0, LaneTypes, WriteTypes
        <4>2. Range(Append(lane[i].queue, n)) = Range(lane[i].queue) \cup {n}
          BY <4>1, AppendFacts
        <4>. QED
          BY <3>1, <3>2, <4>2 DEF Appends, InLane
      <3>3. ASSUME NEW m \in DOMAIN write', Unsettled(m)', NEW i \in write'[m].inos PROVE InLane(i, m)'
        <4>1. m \in DOMAIN write /\ write'[m].inos = write[m].inos /\ (m # n => Unsettled(m)) /\ i \in Inode
          BY <1>0, <3>1, <3>3, WriteTypes DEF Becomes, Rewrites, Unsettled
        <4>. QED
          BY <1>0, <3>2, <3>3, <4>1 DEF Waiting
      <3>. QED
        BY <3>3 DEF Waiting
    <2>. QED
      BY <1>2, <2>1, <2>2, <2>3, <2>4, <2>5, <2>6, <2>7 DEF WriteMove
  <1>3. ASSUME NEW i \in Inode, JobMove(i) PROVE Waiting'
    <2>1. CASE Retire(i)
      <3>1. write' = write /\ lane[i].job = Nobody /\ lane[i].queue = <<>> /\ lane' = [lane EXCEPT ![i] = NoLane]
        BY <2>1 DEF Retire
      <3>2. \A j \in Inode : lane'[j].job = lane[j].job /\ lane'[j].queue = lane[j].queue
        BY <1>0, <3>1 DEF Types, NoLane
      <3>. QED
        BY <1>0, <3>1, <3>2, WaitingUnchanged DEF InLane
    <2>2. ASSUME NEW step \in Steps, Proceeds(i, step) PROVE Waiting'
      BY <1>0, <2>2, WaitingUnchanged DEF Proceeds, Moves, InLane
    <2>3. ASSUME NEW r \in {"ok", "err"}, Concludes(i, r) PROVE Waiting'
      <3>1. PICK n : n = lane[i].job
        OBVIOUS
      <3>2. n \in DOMAIN write /\ Moves(i, r)
        BY <2>3, <3>1, DispatchFacts DEF Concludes, Settles
      <3>3. Rewrites(n, write[n].pc, write[n].seq, FALSE, write[n].arrived, write[n].cancelled, Outcome(n, r), write[n].committed)
        BY <2>3, <3>1 DEF Concludes, Settles
      <3>4. Outcome(n, r) # "none"
        BY DEF Outcome
      <3>. QED
        BY <1>0, <3>2, <3>3, <3>4, WaitingRewrites DEF Moves
    <2>4. CASE Submit(i)
      <3>1. PICK n : n = lane[i].job
        OBVIOUS
      <3>2. n \in DOMAIN write /\ Becomes(n, write[n].pc, FALSE) /\ Moves(i, "commit")
        BY <1>0, <2>4, <3>1, SubmitFacts
      <3>. QED
        BY <1>0, <3>2, WaitingRewrites DEF Moves, Becomes, Unsettled
    <2>5. CASE Commit(i)
      <3>1. PICK n : n = lane[i].job
        OBVIOUS
      <3>2. /\ n \in DOMAIN write /\ Moves(i, "record")
            /\ Rewrites(n, write[n].pc, write[n].seq, write[n].held, write[n].arrived, write[n].cancelled, write[n].result, TRUE)
        BY <1>0, <2>5, <3>1, CommitFacts
      <3>. QED
        BY <1>0, <3>2, WaitingRewrites DEF Moves, Unsettled
    <2>6. CASE Arrive(i)
      <3>1. PICK n : n = Head(lane[i].queue)
        OBVIOUS
      <3>2. /\ n \in DOMAIN write /\ lane[i].job = Nobody /\ lane[i].queue # <<>>
            /\ \/ write' = write
               \/ Rewrites(n, write[n].pc, write[n].seq, write[n].held, write[n].arrived + 1, write[n].cancelled, write[n].result, write[n].committed)
            /\ \E step : Takes(i, step)
        BY <1>0, <2>6, <3>1, ArriveFacts
      <3>3. \A m \in DOMAIN write' : Unsettled(m)' => m \in DOMAIN write /\ Unsettled(m) /\ write'[m].inos = write[m].inos
        BY <3>2 DEF Rewrites, Unsettled
      <3>4. Range(lane[i].queue) = {n} \cup Range(Tail(lane[i].queue))
        BY <1>0, <3>1, <3>2, LaneTypes, TailFacts
      <3>5. \A j \in Inode, m \in DOMAIN write : InLane(j, m) => InLane(j, m)'
        BY <1>0, <3>1, <3>2, <3>4 DEF InLane, Takes
      <3>. QED
        BY <1>0, <3>3, <3>5, WaitingKept
    <2>7. CASE Complete(i) \/ Fail(i)
      <3>1. Ends(i) /\ write' = write /\ lane[i].at \in {"ok", "err"}
        BY <1>0, <2>7, CompleteFacts, FailFacts DEF Complete, Fail
      <3>2. write[lane[i].job].result # "none"
        BY <3>1 DEF MutInv, Outcomes, OutcomeOf
      <3>3. \A j \in Inode, m \in DOMAIN write : write[m].result = "none" /\ InLane(j, m) => InLane(j, m)'
        BY <3>1, <3>2 DEF InLane, Ends
      <3>. QED
        BY <1>0, <3>1, <3>3, WaitingUnchanged
    <2>. QED
      BY <1>3, <2>1, <2>2, <2>3, <2>4, <2>5, <2>6, <2>7 DEF JobMove, LaneMove
  <1>4. ASSUME NEW c \in Client, Asks(c) \/ Punch(c) PROVE Waiting'
    <2>1. UNCHANGED <<write, lane>>
      BY <1>0, <1>4, AskFacts DEF Punch, pipeline
    <2>. QED
      BY <1>0, <2>1, WaitingUnchanged DEF InLane
  <1>5. CASE Stop \/ UNCHANGED vars
    BY <1>0, <1>5, WaitingUnchanged DEF Stop, vars, InLane
  <1>. QED
    BY <1>1, <1>2, <1>3, <1>4, <1>5, Cases

-----------------------------------------------------------------------------
(* The inode locks *)

\* Locks are dropped or kept, and entries too.
LEMMA LockingKept ==
    ASSUME Types, Locking,
           \A m \in DOMAIN write' : write'[m].held => m \in DOMAIN write /\ write[m].held /\ write'[m].inos = write[m].inos,
           \A i \in Inode : \A k \in DOMAIN runtime[i].entries :
              runtime[i].entries[k] \in DOMAIN write /\ (write'[runtime[i].entries[k]].held => write[runtime[i].entries[k]].held),
           \A i \in Inode : runtime'[i].entries = runtime[i].entries
    PROVE  Locking'
  <1>1. \A n, m \in DOMAIN write' :
          write'[n].held /\ write'[m].held /\ write'[n].inos \cap write'[m].inos # {} => n = m
    BY DEF Locking
  <1>. QED
    BY <1>1 DEF Locking

LEMMA LockingRewrites ==
    ASSUME Types, Locking, Tracking, NEW n \in DOMAIN write, NEW pc, NEW seq, NEW held, NEW arrived, NEW cancelled, NEW result, NEW committed,
           Rewrites(n, pc, seq, held, arrived, cancelled, result, committed), held \in {write[n].held, FALSE},
           runtime' = runtime \/ (\E h : Reaps(h))
    PROVE  Locking'
  <1>1. \A m \in DOMAIN write' : m \in DOMAIN write /\ (write'[m].held => write[m].held) /\ write'[m].inos = write[m].inos
    BY DEF Rewrites
  <1>2. \A i \in Inode : runtime'[i].entries = runtime[i].entries
    BY TrackedReaped DEF Tracking
  <1>3. \A i \in Inode : \A k \in DOMAIN runtime[i].entries : runtime[i].entries[k] \in DOMAIN write
    BY LaneTypes, RangeTypes DEF Tracking, Tracked
  <1>4. DOMAIN write' = DOMAIN write
    BY DEF Rewrites
  <1>. QED
    BY <1>1, <1>2, <1>3, <1>4, LockingKept

LEMMA LockingUnchanged ==
    ASSUME Types, Locking, write' = write, \A i \in Inode : runtime'[i].entries = runtime[i].entries
    PROVE  Locking'
  BY DEF Locking

LEMMA LockingPrepare ==
    ASSUME MutInv, NEW n \in DOMAIN write, Prepare(n)
    PROVE  Locking'
  <1>0. Types /\ Tracking /\ Previewed /\ Locking
    BY DEF MutInv
  <1>1. /\ Becomes(n, "prepared", TRUE) /\ runtime' = runtime /\ write[n].pc = "reserved"
        /\ \A i \in write[n].inos : ~Locked(i)
    BY <1>0, PrepareFacts DEF Prepare
  <1>2. \A m \in DOMAIN write : write[m].held => write[m].inos \cap write[n].inos = {}
    BY <1>0, <1>1 DEF Locked, On
  <1>3. \A l, m \in DOMAIN write' :
          write'[l].held /\ write'[m].held /\ write'[l].inos \cap write'[m].inos # {} => l = m
    BY <1>0, <1>1, <1>2 DEF Becomes, Rewrites, Locking
  <1>4. \A i \in Inode : \A k \in DOMAIN runtime[i].entries : runtime[i].entries[k] \in DOMAIN write /\ runtime[i].entries[k] # n
    <2>1. "reserved" \notin Staged
      BY DEF Staged
    <2>. QED
      BY <1>0, <1>1, <2>1, LaneTypes, RangeTypes DEF Tracking, Tracked
  <1>5. \A i \in Inode : \A k \in DOMAIN runtime[i].entries :
          write'[runtime[i].entries[k]].held => k = Len(runtime[i].entries)
    BY <1>0, <1>1, <1>4 DEF Becomes, Rewrites, Locking
  <1>. QED
    BY <1>1, <1>3, <1>5 DEF Locking

LEMMA LockingStage ==
    ASSUME MutInv, NEW n \in DOMAIN write, Stage(n)
    PROVE  Locking'
  <1>0. Types /\ Tracking /\ Lives /\ Locking
    BY DEF MutInv
  <1>1. Becomes(n, "staged", write[n].held) /\ Appends(n) /\ write[n].pc = "prepared"
    BY <1>0, StageFacts DEF Stage
  <1>2. write[n].held /\ n \in Names
    BY <1>0, <1>1, WriteTypes DEF Lives, Life
  <1>3. \A m \in DOMAIN write : write'[m].held = write[m].held /\ write'[m].inos = write[m].inos
    BY <1>1 DEF Becomes, Rewrites
  <1>4. DOMAIN write' = DOMAIN write
    BY <1>1 DEF Becomes, Rewrites
  <1>5. ASSUME NEW i \in Inode, NEW k \in DOMAIN runtime'[i].entries, write'[runtime'[i].entries[k]].held
        PROVE  k = Len(runtime'[i].entries)
    <2>. DEFINE e == runtime[i].entries
    <2>1. /\ e \in Seq(Names) /\ \A j \in DOMAIN e : e[j] \in DOMAIN write /\ i \in write[e[j]].inos
      BY <1>0, LaneTypes, RangeTypes DEF Tracking, Tracked
    <2>2. CASE i \notin write[n].inos
      <3>1. runtime'[i] = runtime[i]
        BY <1>1, <2>2 DEF Appends
      <3>. QED
        BY <1>0, <1>3, <1>5, <2>1, <3>1 DEF Locking
    <2>3. CASE i \in write[n].inos
      <3>1. runtime'[i].entries = Append(e, n)
        BY <1>1, <2>3 DEF Appends
      <3>. HIDE DEF e
      <3>2. /\ Len(Append(e, n)) = Len(e) + 1 /\ DOMAIN Append(e, n) = DOMAIN e \cup {Len(e) + 1}
            /\ \A j \in DOMAIN e : Append(e, n)[j] = e[j]
        BY <1>2, <2>1, AppendFacts
      <3>3. ASSUME k \in DOMAIN e PROVE FALSE
        <4>1. write[e[k]].held /\ e[k] \in DOMAIN write /\ i \in write[e[k]].inos
          BY <1>3, <1>5, <2>1, <3>1, <3>2, <3>3
        <4>2. e[k] = n
          BY <1>0, <1>2, <2>3, <4>1 DEF Locking
        <4>3. "prepared" \notin Staged
          BY DEF Staged
        <4>. QED
          BY <1>0, <1>1, <2>1, <3>3, <4>2, <4>3, LaneTypes, RangeTypes DEF Tracking, Tracked, e
      <3>. QED
        BY <1>5, <3>1, <3>2, <3>3
    <2>. QED
      BY <2>2, <2>3
  <1>. QED
    BY <1>0, <1>3, <1>4, <1>5 DEF Locking

LEMMA LockingComplete ==
    ASSUME MutInv, NEW i \in Inode, Complete(i)
    PROVE  Locking'
  <1>0. Types /\ Tracking /\ Locking /\ write' = write /\ lane[i].at = "ok"
    BY DEF MutInv, Complete
  <1>1. CASE runtime[i].terminal
    BY <1>0, <1>1, CompleteFacts, LockingUnchanged
  <1>2. CASE ~runtime[i].terminal
    <2>1. Retires(i)
      BY <1>0, <1>2, CompleteFacts
    <2>2. ASSUME NEW j \in Inode, NEW k \in DOMAIN runtime'[j].entries, write[runtime'[j].entries[k]].held
          PROVE  k = Len(runtime'[j].entries)
      <3>1. CASE j # i
        BY <1>0, <2>1, <2>2, <3>1 DEF Locking, Retires
      <3>2. CASE j = i
        <4>. DEFINE e == runtime[i].entries
        <4>1. e \in Seq(Names) /\ e # <<>> /\ runtime'[i].entries = Tail(e)
          BY <1>0, <1>2, <2>1, LaneTypes DEF Tracking, Tracked, Retires
        <4>2. \A l \in DOMAIN e : write[e[l]].held => l = Len(e)
          BY <1>0 DEF Locking
        <4>. HIDE DEF e
        <4>3. Len(Tail(e)) = Len(e) - 1 /\ Tail(e) \in Seq(Names) /\ \A l \in DOMAIN Tail(e) : l + 1 \in DOMAIN e /\ Tail(e)[l] = e[l + 1]
          BY <4>1, TailFacts
        <4>4. k + 1 = Len(e) /\ k \in Nat
          BY <2>2, <3>2, <4>1, <4>2, <4>3
        <4>. QED
          BY <3>2, <4>1, <4>3, <4>4
      <3>. QED
        BY <3>1, <3>2
    <2>. QED
      BY <1>0, <2>2 DEF Locking
  <1>. QED
    BY <1>1, <1>2

LEMMA LockingStep ==
    ASSUME MutInv, [Next]_vars
    PROVE  Locking'
  <1>0. Types /\ Locking /\ Tracking /\ Lives /\ Previewed /\ Nobody \notin DOMAIN write
    BY DEF MutInv, Types, Nobody
  <1>1. ASSUME NEW inos \in (SUBSET Inode) \ {{}}, NEW cells \in Extents, Begin(inos, cells) PROVE Locking'
    <2>1. PICK n : Begun(n, inos) /\ Registers(inos)
      BY <1>0, <1>1, BeginFacts
    <2>2. \A m \in DOMAIN write' : write'[m].held => m \in DOMAIN write /\ write[m].held /\ write'[m].inos = write[m].inos
      BY <2>1 DEF Begun
    <2>3. \A i \in Inode : \A k \in DOMAIN runtime[i].entries : runtime[i].entries[k] \in DOMAIN write
      BY <1>0, LaneTypes, RangeTypes DEF Tracking, Tracked
    <2>. QED
      BY <1>0, <2>1, <2>2, <2>3, LockingKept DEF Registers, Begun
  <1>2. ASSUME NEW n \in DOMAIN write, WriteMove(n) PROVE Locking'
    <2>1. CASE Reserve(n)
      BY <1>0, <2>1, WriteFacts, LockingRewrites DEF Reserve, Becomes
    <2>2. CASE Publish(n)
      BY <1>0, <2>2, PublishFacts, LockingRewrites DEF Publish, Becomes
    <2>3. CASE Show(n)
      BY <1>0, <2>3, WriteFacts, LockingRewrites DEF Becomes
    <2>4. CASE Cancel(n)
      BY <1>0, <2>4, WriteFacts, LockingRewrites DEF Cancel
    <2>5. CASE Aborts(n)
      BY <1>0, <2>5, AbortFacts, LockingRewrites DEF Aborts, Becomes
    <2>. QED
      BY <1>2, <2>1, <2>2, <2>3, <2>4, <2>5, LockingPrepare, LockingStage DEF WriteMove
  <1>3. ASSUME NEW i \in Inode, JobMove(i) PROVE Locking'
    <2>1. CASE Retire(i) \/ (\E step \in Steps : Proceeds(i, step))
      <3>1. write' = write /\ runtime' = runtime
        BY <2>1 DEF Retire, Proceeds
      <3>. QED
        BY <1>0, <3>1, LockingUnchanged
    <2>2. ASSUME NEW r \in {"ok", "err"}, Concludes(i, r) PROVE Locking'
      <3>1. PICK n : n = lane[i].job
        OBVIOUS
      <3>2. /\ n \in DOMAIN write /\ runtime' = runtime
            /\ Rewrites(n, write[n].pc, write[n].seq, FALSE, write[n].arrived, write[n].cancelled, Outcome(n, r), write[n].committed)
        BY <2>2, <3>1, DispatchFacts DEF Concludes, Settles
      <3>. QED
        BY <1>0, <3>2, LockingRewrites
    <2>3. CASE Submit(i)
      <3>1. PICK n : n = lane[i].job
        OBVIOUS
      <3>2. n \in DOMAIN write /\ Becomes(n, write[n].pc, FALSE) /\ runtime' = runtime
        BY <1>0, <2>3, <3>1, SubmitFacts DEF Submit
      <3>. QED
        BY <1>0, <3>2, LockingRewrites DEF Becomes
    <2>4. CASE Commit(i)
      <3>1. PICK n : n = lane[i].job
        OBVIOUS
      <3>2. /\ n \in DOMAIN write /\ runtime' = runtime
            /\ Rewrites(n, write[n].pc, write[n].seq, write[n].held, write[n].arrived, write[n].cancelled, write[n].result, TRUE)
        BY <1>0, <2>4, <3>1, CommitFacts DEF Commit
      <3>. QED
        BY <1>0, <3>2, LockingRewrites
    <2>5. CASE Arrive(i)
      <3>1. PICK n : n = Head(lane[i].queue)
        OBVIOUS
      <3>2. /\ n \in DOMAIN write /\ runtime' = runtime
            /\ \/ write' = write
               \/ Rewrites(n, write[n].pc, write[n].seq, write[n].held, write[n].arrived + 1, write[n].cancelled, write[n].result, write[n].committed)
        BY <1>0, <2>5, <3>1, ArriveFacts DEF Arrive
      <3>. QED
        BY <1>0, <3>2, LockingRewrites, LockingUnchanged
    <2>6. CASE Fail(i)
      BY <1>0, <2>6, FailFacts, LockingUnchanged DEF Fail
    <2>. QED
      BY <1>3, <2>1, <2>2, <2>3, <2>4, <2>5, <2>6, LockingComplete DEF JobMove, LaneMove
  <1>4. ASSUME NEW c \in Client, Asks(c) \/ Punch(c) PROVE Locking'
    <2>1. write' = write /\ (runtime' = runtime \/ Reaps(c))
      BY <1>0, <1>4, AskFacts DEF Punch, pipeline
    <2>2. \A i \in Inode : runtime'[i].entries = runtime[i].entries
      BY <1>0, <2>1, TrackedReaped DEF Tracking
    <2>. QED
      BY <1>0, <2>1, <2>2, LockingUnchanged
  <1>5. CASE Stop \/ UNCHANGED vars
    BY <1>0, <1>5, LockingUnchanged DEF Stop, vars
  <1>. QED
    BY <1>1, <1>2, <1>3, <1>4, <1>5, Cases

-----------------------------------------------------------------------------
(* Arrivals *)

LEMMA ArrivalsKept ==
    ASSUME Types, Tracking, Arrivals, DOMAIN write' = DOMAIN write,
           \A m \in DOMAIN write : /\ write'[m].inos = write[m].inos /\ write'[m].arrived = write[m].arrived
                                   /\ write'[m].result = "none" => write[m].result = "none",
           \A i \in Inode : lane'[i].job = lane[i].job /\ (Dispatching(i)' => Dispatching(i))
    PROVE  Arrivals'
  <1>1. ASSUME NEW n \in DOMAIN write PROVE Arrived(n)' = Arrived(n)
    BY WriteTypes DEF Arrived
  <1>2. \A n \in DOMAIN write' : write'[n].result = "none" => write'[n].arrived = Cardinality(Arrived(n)')
    BY <1>1 DEF Arrivals
  <1>3. ASSUME NEW i \in Inode, Dispatching(i)', write'[lane'[i].job].result = "none", NEW j \in write'[lane'[i].job].inos
        PROVE  lane'[j].job = lane'[i].job
    <2>1. Dispatching(i) /\ lane'[i].job = lane[i].job /\ lane[i].job \in DOMAIN write
      BY <1>3, JobFacts DEF Dispatching
    <2>2. write[lane[i].job].result = "none" /\ j \in write[lane[i].job].inos /\ j \in Inode
      BY <1>3, <2>1, WriteTypes
    <2>. QED
      BY <2>1, <2>2 DEF Arrivals
  <1>4. \A i, j \in Inode : Dispatching(i)' /\ Dispatching(j)' /\ lane'[i].job = lane'[j].job => i = j
    BY DEF Arrivals
  <1>. QED
    BY <1>2, <1>3, <1>4 DEF Arrivals

LEMMA ArrivalsRewrites ==
    ASSUME Types, Tracking, Arrivals, NEW n \in DOMAIN write, NEW pc, NEW seq, NEW held, NEW cancelled, NEW result, NEW committed,
           Rewrites(n, pc, seq, held, write[n].arrived, cancelled, result, committed),
           result = "none" => write[n].result = "none",
           \A i \in Inode : lane'[i].job = lane[i].job /\ (Dispatching(i)' => Dispatching(i))
    PROVE  Arrivals'
  BY ArrivalsKept DEF Rewrites

\* A lane that moves on does not begin a dispatch.
LEMMA MovesOn ==
    ASSUME NEW i \in Inode, NEW step, Moves(i, step), step \in {"ok", "err"} \/ Dispatching(i)
    PROVE  \A j \in Inode : lane'[j].job = lane[j].job /\ (Dispatching(j)' => Dispatching(j))
  BY DEF Moves, Dispatching

LEMMA ArrivalsArrive ==
    ASSUME MutInv, NEW i \in Inode, Arrive(i)
    PROVE  Arrivals'
  <1>0. Types /\ Tracking /\ Arrivals /\ Nobody \notin DOMAIN write
    BY DEF MutInv, Types, Nobody
  <1>1. PICK n : n = Head(lane[i].queue)
    OBVIOUS
  <1>2. /\ n \in DOMAIN write /\ n \in Range(lane[i].queue) /\ lane[i].job = Nobody /\ lane[i].at = "idle"
        /\ \/ write[n].result # "none" /\ write' = write /\ Takes(i, write[n].result)
           \/ /\ write[n].result = "none"
              /\ Rewrites(n, write[n].pc, write[n].seq, write[n].held, write[n].arrived + 1, write[n].cancelled, write[n].result, write[n].committed)
              /\ Takes(i, IF write[n].arrived + 1 = Cardinality(write[n].inos) THEN "take" ELSE "wait")
    BY <1>0, <1>1, ArriveFacts
  <1>3. PICK step : Takes(i, step) /\ (step \in {"wait", "take"} <=> write[n].result = "none") /\ step # "receive"
                    /\ step \notin {"apply", "commit", "record"}
                    /\ (step = "take" => write[n].arrived + 1 = Cardinality(write[n].inos))
    <2>1. write[n].result \in Results
      BY <1>0, <1>2, WriteTypes DEF Writes
    <2>2. CASE write[n].result # "none"
      BY <1>2, <2>1, <2>2 DEF Results
    <2>3. CASE write[n].result = "none"
      BY <1>2, <2>3
    <2>. QED
      BY <2>2, <2>3
  <1>4. /\ DOMAIN write' = DOMAIN write
        /\ \A m \in DOMAIN write : /\ write'[m].inos = write[m].inos /\ write'[m].result = write[m].result
                                   /\ m # n => write'[m].arrived = write[m].arrived
        /\ write[n].result = "none" => write'[n].arrived = write[n].arrived + 1
    BY <1>2 DEF Rewrites
  <1>5. i \in write[n].inos /\ n # Nobody /\ lane'[i].job = n /\ (\A j \in Inode : j # i => lane'[j] = lane[j])
    BY <1>0, <1>1, <1>2, <1>3 DEF Tracking, Tracked, Takes
  <1>6. Arrived(n)' = Arrived(n) \cup {i} /\ i \notin Arrived(n)
    BY <1>0, <1>2, <1>4, <1>5, WriteTypes DEF Arrived
  <1>7. \A m \in DOMAIN write : m # n => Arrived(m)' = Arrived(m)
    BY <1>0, <1>2, <1>4, <1>5, WriteTypes DEF Arrived
  <1>8. IsFiniteSet(write[n].inos) /\ IsFiniteSet(Arrived(n)) /\ Arrived(n) \subseteq write[n].inos
    BY <1>0, <1>2, WriteTypes, Constants, FS_Subset DEF Arrived
  <1>9. Cardinality(Arrived(n) \cup {i}) = Cardinality(Arrived(n)) + 1
    BY <1>6, <1>8, FS_AddElement
  <1>10. \A m \in DOMAIN write' : write'[m].result = "none" => write'[m].arrived = Cardinality(Arrived(m)')
    <2>1. write[n].result = "none" => write'[n].arrived = Cardinality(Arrived(n)')
      BY <1>0, <1>2, <1>4, <1>6, <1>9 DEF Arrivals
    <2>2. \A m \in DOMAIN write : m # n /\ write[m].result = "none" => write'[m].arrived = Cardinality(Arrived(m)')
      BY <1>0, <1>4, <1>7 DEF Arrivals
    <2>. QED
      BY <1>4, <2>1, <2>2
  <1>11. ASSUME NEW j \in Inode, Dispatching(j), lane[j].job = n, write[n].result = "none" PROVE FALSE
    BY <1>0, <1>2, <1>5, <1>11 DEF Arrivals
  <1>12. ASSUME step = "take" PROVE \A j \in write[n].inos : lane'[j].job = n
    <2>1. Cardinality(Arrived(n) \cup {i}) = Cardinality(write[n].inos) /\ Arrived(n) \cup {i} \subseteq write[n].inos
      BY <1>0, <1>2, <1>3, <1>5, <1>8, <1>9, <1>12 DEF Arrivals
    <2>2. Arrived(n) \cup {i} = write[n].inos
      BY <1>8, <2>1, FS_Subset
    <2>. QED
      BY <1>2, <1>4, <1>6, <2>2 DEF Arrived
  <1>13. ASSUME NEW k \in Inode, Dispatching(k)', write'[lane'[k].job].result = "none", NEW j \in write'[lane'[k].job].inos
         PROVE  lane'[j].job = lane'[k].job
    <2>1. CASE k = i
      <3>1. step = "take"
        BY <1>3, <1>13, <2>1 DEF Dispatching, Takes
      <3>. QED
        BY <1>2, <1>4, <1>5, <1>12, <1>13, <2>1, <3>1
    <2>2. CASE k # i
      <3>1. lane'[k] = lane[k] /\ Dispatching(k) /\ lane[k].job \in DOMAIN write
        BY <1>0, <1>5, <1>13, <2>2, JobFacts DEF Dispatching
      <3>2. write[lane[k].job].result = "none" /\ j \in write[lane[k].job].inos /\ j \in Inode
        BY <1>0, <1>4, <1>13, <3>1, WriteTypes
      <3>3. lane[j].job = lane[k].job /\ j # i
        BY <1>0, <1>2, <3>1, <3>2 DEF Arrivals
      <3>. QED
        BY <1>5, <3>1, <3>2, <3>3
    <2>. QED
      BY <2>1, <2>2
  <1>14. ASSUME NEW k \in Inode, NEW j \in Inode, Dispatching(k)', Dispatching(j)', lane'[k].job = lane'[j].job PROVE k = j
    <2>1. \A l \in Inode : Dispatching(l)' => (l = i /\ write[n].result = "none") \/ (l # i /\ Dispatching(l))
      BY <1>3, <1>5 DEF Dispatching, Takes
    <2>. QED
      BY <1>0, <1>5, <1>11, <1>14, <2>1 DEF Arrivals
  <1>. QED
    BY <1>10, <1>13, <1>14 DEF Arrivals

LEMMA ArrivalsEnd ==
    ASSUME MutInv, NEW i \in Inode, Complete(i) \/ Fail(i)
    PROVE  Arrivals'
  <1>0. Types /\ Tracking /\ Arrivals /\ Nobody \notin DOMAIN write
    BY DEF MutInv, Types, Nobody
  <1>1. Ends(i) /\ write' = write /\ lane[i].at \in {"ok", "err"}
    BY <1>0, CompleteFacts, FailFacts DEF Complete, Fail
  <1>2. write[lane[i].job].result # "none"
    BY <1>1 DEF MutInv, Outcomes, OutcomeOf
  <1>3. lane'[i].job = Nobody /\ lane'[i].at = "idle" /\ \A j \in Inode : j # i => lane'[j] = lane[j]
    BY <1>1 DEF Ends
  <1>4. \A m \in DOMAIN write : write[m].result = "none" => Arrived(m)' = Arrived(m)
    BY <1>0, <1>1, <1>2, <1>3, WriteTypes DEF Arrived
  <1>5. \A k \in Inode : Dispatching(k)' => Dispatching(k) /\ k # i
    BY <1>3 DEF Dispatching
  <1>6. ASSUME NEW k \in Inode, Dispatching(k)', write[lane'[k].job].result = "none", NEW j \in write[lane'[k].job].inos
        PROVE  lane'[j].job = lane'[k].job
    <2>1. lane'[k] = lane[k] /\ Dispatching(k) /\ lane[k].job \in DOMAIN write
      BY <1>0, <1>3, <1>5, <1>6, JobFacts DEF Dispatching
    <2>2. j \in Inode /\ lane[j].job = lane[k].job
      BY <1>0, <1>6, <2>1, WriteTypes DEF Arrivals
    <2>3. j # i
      BY <1>2, <1>6, <2>1, <2>2
    <2>. QED
      BY <1>3, <2>1, <2>2, <2>3
  <1>7. \A k, j \in Inode : Dispatching(k)' /\ Dispatching(j)' /\ lane'[k].job = lane'[j].job => k = j
    BY <1>0, <1>3, <1>5 DEF Arrivals
  <1>. QED
    BY <1>0, <1>1, <1>4, <1>6, <1>7 DEF Arrivals

LEMMA ArrivalsStep ==
    ASSUME MutInv, [Next]_vars
    PROVE  Arrivals'
  <1>0. Types /\ Arrivals /\ Tracking /\ Lives /\ Previewed /\ Nobody \notin DOMAIN write
    BY DEF MutInv, Types, Nobody
  <1>u. lane' = lane => \A i \in Inode : lane'[i].job = lane[i].job /\ (Dispatching(i)' => Dispatching(i))
    BY DEF Dispatching
  <1>1. ASSUME NEW inos \in (SUBSET Inode) \ {{}}, NEW cells \in Extents, Begin(inos, cells) PROVE Arrivals'
    <2>1. PICK n : Begun(n, inos) /\ lane' = lane
      BY <1>0, <1>1, BeginFacts DEF Begin
    <2>2. \A i \in Inode : lane[i].job # n
      BY <1>0, <2>1, JobFacts DEF Begun, Nobody, Types
    <2>3. Arrived(n)' = {}
      BY <2>1, <2>2 DEF Arrived, Begun
    <2>4. \A m \in DOMAIN write : Arrived(m)' = Arrived(m)
      BY <2>1 DEF Arrived, Begun
    <2>5. \A m \in DOMAIN write' : write'[m].result = "none" => write'[m].arrived = Cardinality(Arrived(m)')
      BY <1>0, <2>1, <2>3, <2>4, FS_EmptySet DEF Arrivals, Begun
    <2>6. \A i \in Inode : Dispatching(i)' => Dispatching(i) /\ write'[lane[i].job] = write[lane[i].job]
      BY <1>0, <2>1, JobFacts DEF Dispatching, Begun
    <2>. QED
      BY <1>0, <2>1, <2>5, <2>6 DEF Arrivals
  <1>2. ASSUME NEW n \in DOMAIN write, WriteMove(n) PROVE Arrivals'
    <2>1. CASE Reserve(n)
      BY <1>0, <1>u, <2>1, WriteFacts, ArrivalsRewrites DEF Reserve, Becomes
    <2>2. CASE Publish(n)
      BY <1>0, <1>u, <2>2, PublishFacts, ArrivalsRewrites DEF Publish, Becomes
    <2>3. CASE Show(n)
      BY <1>0, <1>u, <2>3, WriteFacts, ArrivalsRewrites DEF Show, Becomes
    <2>4. CASE Cancel(n)
      BY <1>0, <1>u, <2>4, WriteFacts, ArrivalsRewrites DEF Cancel, Outcome
    <2>5. CASE Aborts(n)
      BY <1>0, <1>u, <2>5, AbortFacts, ArrivalsRewrites DEF Aborts, Abort, Becomes
    <2>6. CASE Prepare(n)
      BY <1>0, <1>u, <2>6, PrepareFacts, ArrivalsRewrites DEF Prepare, Becomes
    <2>7. CASE Stage(n)
      <3>1. \A i \in Inode : lane'[i].job = lane[i].job /\ (Dispatching(i)' => Dispatching(i))
        BY <1>0, <2>7, StageFacts DEF Appends, Dispatching
      <3>. QED
        BY <1>0, <2>7, <3>1, StageFacts, ArrivalsRewrites DEF Becomes
    <2>. QED
      BY <1>2, <2>1, <2>2, <2>3, <2>4, <2>5, <2>6, <2>7 DEF WriteMove
  <1>3. ASSUME NEW i \in Inode, JobMove(i) PROVE Arrivals'
    <2>1. CASE Retire(i)
      <3>1. write' = write /\ lane[i].job = Nobody /\ lane' = [lane EXCEPT ![i] = NoLane]
        BY <2>1 DEF Retire
      <3>2. \A j \in Inode : lane'[j].job = lane[j].job /\ (Dispatching(j)' => Dispatching(j))
        BY <1>0, <3>1 DEF Types, NoLane, Dispatching
      <3>. QED
        BY <1>0, <3>1, <3>2, ArrivalsKept
    <2>2. ASSUME NEW step \in Steps, Proceeds(i, step) PROVE Arrivals'
      <3>1. write[lane[i].job].result \in Results
        BY <1>0, <2>2, JobFacts, WriteTypes DEF Proceeds, Writes
      <3>2. Moves(i, step) /\ (step \in {"ok", "err"} \/ Dispatching(i)) /\ write' = write
        BY <2>2, <3>1 DEF Proceeds, Dispatching, Results
      <3>. QED
        BY <1>0, <3>2, MovesOn, ArrivalsKept
    <2>3. ASSUME NEW r \in {"ok", "err"}, Concludes(i, r) PROVE Arrivals'
      <3>1. PICK n : n = lane[i].job
        OBVIOUS
      <3>2. /\ n \in DOMAIN write /\ Moves(i, r)
            /\ Rewrites(n, write[n].pc, write[n].seq, FALSE, write[n].arrived, write[n].cancelled, Outcome(n, r), write[n].committed)
        BY <2>3, <3>1, DispatchFacts DEF Concludes, Settles
      <3>3. Outcome(n, r) # "none"
        BY DEF Outcome
      <3>4. \A j \in Inode : lane'[j].job = lane[j].job /\ (Dispatching(j)' => Dispatching(j))
        BY <3>2, MovesOn
      <3>. QED
        BY <1>0, <3>2, <3>3, <3>4, ArrivalsRewrites
    <2>4. CASE Submit(i)
      <3>1. PICK n : n = lane[i].job
        OBVIOUS
      <3>2. n \in DOMAIN write /\ Becomes(n, write[n].pc, FALSE) /\ Moves(i, "commit") /\ Dispatching(i)
        BY <1>0, <2>4, <3>1, SubmitFacts DEF Dispatching
      <3>4. \A j \in Inode : lane'[j].job = lane[j].job /\ (Dispatching(j)' => Dispatching(j))
        BY <3>2, MovesOn
      <3>. QED
        BY <1>0, <3>2, <3>4, ArrivalsRewrites DEF Becomes
    <2>5. CASE Commit(i)
      <3>1. PICK n : n = lane[i].job
        OBVIOUS
      <3>2. /\ n \in DOMAIN write /\ Moves(i, "record") /\ Dispatching(i)
            /\ Rewrites(n, write[n].pc, write[n].seq, write[n].held, write[n].arrived, write[n].cancelled, write[n].result, TRUE)
        BY <1>0, <2>5, <3>1, CommitFacts DEF Dispatching
      <3>4. \A j \in Inode : lane'[j].job = lane[j].job /\ (Dispatching(j)' => Dispatching(j))
        BY <3>2, MovesOn
      <3>. QED
        BY <1>0, <3>2, <3>4, ArrivalsRewrites
    <2>. QED
      BY <1>3, <2>1, <2>2, <2>3, <2>4, <2>5, ArrivalsArrive, ArrivalsEnd DEF JobMove, LaneMove
  <1>4. ASSUME NEW c \in Client, Asks(c) \/ Punch(c) PROVE Arrivals'
    <2>1. UNCHANGED <<write, lane>>
      BY <1>0, <1>4, AskFacts DEF Punch, pipeline
    <2>. QED
      BY <1>0, <1>u, <2>1, ArrivalsKept
  <1>5. CASE Stop \/ UNCHANGED vars
    BY <1>0, <1>u, <1>5, ArrivalsKept DEF Stop, vars
  <1>. QED
    BY <1>1, <1>2, <1>3, <1>4, <1>5, Cases

-----------------------------------------------------------------------------
(* Outcomes *)

\* One write changes, and is neither acknowledged nor, if it was, given an outcome.
LEMMA OutcomesRewrites ==
    ASSUME Types, Tracking, Outcomes, NEW n \in DOMAIN write, NEW pc, NEW seq, NEW held, NEW arrived, NEW cancelled, NEW result, NEW committed,
           Rewrites(n, pc, seq, held, arrived, cancelled, result, committed),
           write[n].pc = "acked" <=> pc = "acked", write[n].result = result \/ (write[n].result = "none" /\ pc # "acked"),
           committed \in {write[n].committed, TRUE},
           \A i \in Inode : lane'[i].job = lane[i].job /\ lane'[i].at = lane[i].at
    PROVE  Outcomes'
  <1>1. ASSUME NEW i \in Inode PROVE OutcomeOf(i)'
    <2>1. OutcomeOf(i) /\ lane'[i].job = lane[i].job /\ lane'[i].at = lane[i].at
      BY DEF Outcomes
    <2>2. CASE lane[i].at = "idle"
      BY <2>1, <2>2 DEF OutcomeOf, Applying, Dispatching
    <2>3. CASE lane[i].at # "idle" /\ lane[i].job # n
      <3>1. write'[lane[i].job] = write[lane[i].job]
        BY <2>3, JobFacts DEF Rewrites
      <3>. QED
        BY <2>1, <3>1 DEF OutcomeOf, Applying, Dispatching, Visible
    <2>4. CASE lane[i].job = n
      <3>1. /\ write'[n].pc = pc /\ write'[n].result = result /\ (write[n].committed => write'[n].committed)
        BY DEF Rewrites
      <3>. QED
        BY <2>1, <2>4, <3>1 DEF OutcomeOf, Applying, Dispatching, Visible
    <2>. QED
      BY <2>2, <2>3, <2>4
  <1>. QED
    BY <1>1 DEF Outcomes

LEMMA OutcomesShow ==
    ASSUME MutInv, NEW n \in DOMAIN write, Show(n)
    PROVE  Outcomes'
  <1>0. Types /\ Tracking /\ Outcomes /\ Previewed /\ Lives
    BY DEF MutInv
  <1>1. Becomes(n, "acked", write[n].held) /\ lane' = lane /\ write[n].pc = "published" /\ write[n].result = "none"
    BY <1>0, WriteFacts DEF Show, Lives, Life
  <1>2. ASSUME NEW i \in Inode PROVE OutcomeOf(i)'
    <2>1. OutcomeOf(i)
      BY <1>0 DEF Outcomes
    <2>2. CASE lane[i].at = "idle"
      BY <1>1, <2>2 DEF OutcomeOf, Applying, Dispatching
    <2>3. CASE lane[i].at # "idle" /\ lane[i].job # n
      <3>1. write'[lane[i].job] = write[lane[i].job]
        BY <1>0, <1>1, <2>3, JobFacts DEF Becomes, Rewrites
      <3>. QED
        BY <1>1, <2>1, <3>1 DEF OutcomeOf, Applying, Dispatching, Visible
    <2>4. CASE lane[i].job = n
      <3>1. write'[n].pc = "acked" /\ write'[n].result = "none"
        BY <1>1 DEF Becomes, Rewrites
      <3>. QED
        BY <1>1, <2>1, <2>4, <3>1 DEF OutcomeOf, Applying, Dispatching, Visible
    <2>. QED
      BY <2>2, <2>3, <2>4
  <1>. QED
    BY <1>2 DEF Outcomes

\* A lane moves and the writes keep what the outcomes say of them.
LEMMA OutcomesMoves ==
    ASSUME Types, Tracking, Outcomes, NEW i \in Inode, NEW step, Moves(i, step), OutcomeOf(i)',
           \A j \in Inode : j # i /\ lane[j].at # "idle" =>
              LET m == lane[j].job
              IN  /\ write'[m].pc = write[m].pc /\ (write[m].committed => write'[m].committed)
                  /\ write'[m].result = write[m].result \/ (write[m].result = "none" /\ write'[m].result # "none" /\ ~(Dispatching(j) /\ Visible(m)))
    PROVE  Outcomes'
  <1>1. ASSUME NEW j \in Inode, j # i PROVE OutcomeOf(j)'
    <2>1. OutcomeOf(j) /\ lane'[j].job = lane[j].job /\ lane'[j].at = lane[j].at
      BY <1>1 DEF Outcomes, Moves
    <2>2. CASE lane[j].at = "idle"
      BY <2>1, <2>2 DEF OutcomeOf, Applying, Dispatching
    <2>3. CASE lane[j].at # "idle"
      <3>1. PICK m : m = lane[j].job
        OBVIOUS
      <3>2. /\ write'[m].pc = write[m].pc /\ (write[m].committed => write'[m].committed)
            /\ write'[m].result = write[m].result \/ (write[m].result = "none" /\ write'[m].result # "none" /\ ~(Dispatching(j) /\ Visible(m)))
        BY <1>1, <2>3, <3>1
      <3>. QED
        BY <2>1, <3>1, <3>2 DEF OutcomeOf, Applying, Dispatching, Visible
    <2>. QED
      BY <2>2, <2>3
  <1>. QED
    BY <1>1 DEF Outcomes

LEMMA OutcomesLane ==
    ASSUME MutInv, NEW i \in Inode, LaneMove(i) \/ Submit(i) \/ Commit(i)
    PROVE  Outcomes'
  <1>0. Types /\ Tracking /\ Outcomes /\ Lives /\ OutcomeOf(i)
    BY DEF MutInv, Outcomes
  <1>1. PICK n : n = lane[i].job
    OBVIOUS
  <1>2. ASSUME NEW step \in Steps, Proceeds(i, step) PROVE Outcomes'
    <2>1. n \in DOMAIN write /\ write[n].result \in Results /\ write' = write /\ Moves(i, step)
      BY <1>0, <1>1, <1>2, JobFacts, WriteTypes DEF Proceeds, Writes
    <2>2. lane'[i].at = step /\ lane'[i].job = n
      BY <1>1, <2>1 DEF Moves
    <2>3. CASE lane[i].at = "wait"
      <3>1. step = write[n].result /\ step # "none"
        BY <1>1, <1>2, <2>3 DEF Proceeds
      <3>2. OutcomeOf(i)'
        BY <2>1, <2>2, <3>1 DEF OutcomeOf, Applying, Dispatching, Visible, Results
      <3>. QED
        BY <1>0, <2>1, <3>2, OutcomesMoves
    <2>4. CASE lane[i].at # "wait"
      <3>1. Dispatching(i) /\ step \in {"receive", "apply"} /\ (step = "apply" => Visible(n))
        BY <1>1, <1>2, <2>4 DEF Proceeds, Dispatching
      <3>2. Visible(n) => write[n].result = "none"
        BY <1>0, <1>1, <3>1 DEF OutcomeOf
      <3>3. OutcomeOf(i)'
        BY <2>1, <2>2, <3>1, <3>2 DEF OutcomeOf, Applying, Dispatching, Visible
      <3>. QED
        BY <1>0, <2>1, <3>3, OutcomesMoves
    <2>. QED
      BY <2>3, <2>4
  <1>3. ASSUME NEW r \in {"ok", "err"}, Concludes(i, r) PROVE Outcomes'
    <2>1. /\ n \in DOMAIN write /\ Moves(i, r) /\ Dispatching(i) /\ (Visible(n) => write[n].result = "none")
          /\ Rewrites(n, write[n].pc, write[n].seq, FALSE, write[n].arrived, write[n].cancelled, Outcome(n, r), write[n].committed)
      BY <1>1, <1>3, DispatchFacts DEF Concludes, Settles
    <2>2. lane'[i].at = r /\ lane'[i].job = n
      BY <1>1, <2>1 DEF Moves
    <2>3. /\ write'[n].pc = write[n].pc /\ write'[n].result = Outcome(n, r) /\ write'[n].committed = write[n].committed
          /\ Outcome(n, r) # "none" /\ (Visible(n) => Outcome(n, r) = r)
      BY <2>1 DEF Rewrites, Outcome
    <2>4. OutcomeOf(i)'
      BY <2>2, <2>3 DEF OutcomeOf, Applying, Dispatching, Visible
    <2>5. ASSUME NEW j \in Inode, j # i, lane[j].at # "idle", NEW m, m = lane[j].job
          PROVE  /\ write'[m].pc = write[m].pc /\ (write[m].committed => write'[m].committed)
                 /\ write'[m].result = write[m].result \/ (write[m].result = "none" /\ write'[m].result # "none" /\ ~(Dispatching(j) /\ Visible(m)))
      <3>1. CASE m = n
        <4>1. ~Dispatching(j)
          BY <1>1, <2>1, <2>5, <3>1 DEF MutInv, Arrivals
        <4>. QED
          BY <2>3, <3>1, <4>1 DEF Outcome
      <3>2. CASE m # n
        BY <1>0, <2>1, <2>5, <3>2, JobFacts DEF Rewrites
      <3>. QED
        BY <3>1, <3>2
    <2>. QED
      BY <1>0, <2>1, <2>4, <2>5, OutcomesMoves
  <1>4. ASSUME NEW step \in {"commit", "record"}, Moves(i, step), n \in DOMAIN write, Applying(i), write'[n].pc = write[n].pc,
               write'[n].result = write[n].result, step = "record" => write'[n].committed, write[n].committed => write'[n].committed,
               \A m \in DOMAIN write : m # n => write'[m] = write[m]
        PROVE  Outcomes'
    <2>1. Visible(n) /\ write[n].result = "none" /\ lane'[i].at = step /\ lane'[i].job = n
      BY <1>0, <1>1, <1>4 DEF OutcomeOf, Applying, Dispatching, Moves
    <2>2. OutcomeOf(i)'
      BY <1>4, <2>1 DEF OutcomeOf, Applying, Dispatching, Visible
    <2>3. ASSUME NEW j \in Inode, j # i, lane[j].at # "idle", NEW m, m = lane[j].job
          PROVE  write'[m].pc = write[m].pc /\ (write[m].committed => write'[m].committed) /\ write'[m].result = write[m].result
      BY <1>0, <1>4, <2>3, JobFacts
    <2>. QED
      BY <1>0, <1>4, <2>2, <2>3, OutcomesMoves
  <1>5. CASE Submit(i)
    BY <1>0, <1>1, <1>4, <1>5, SubmitFacts DEF Becomes, Rewrites, Applying
  <1>6. CASE Commit(i)
    <2>1. /\ n \in DOMAIN write /\ Moves(i, "record") /\ Applying(i)
          /\ Rewrites(n, write[n].pc, write[n].seq, write[n].held, write[n].arrived, write[n].cancelled, write[n].result, TRUE)
      BY <1>0, <1>1, <1>6, CommitFacts DEF Applying
    <2>. QED
      BY <1>4, <2>1 DEF Rewrites
  <1>. QED
    BY <1>2, <1>3, <1>5, <1>6 DEF LaneMove

LEMMA OutcomesStep ==
    ASSUME MutInv, [Next]_vars
    PROVE  Outcomes'
  <1>0. Types /\ Outcomes /\ Tracking /\ Lives /\ Previewed /\ Nobody \notin DOMAIN write
    BY DEF MutInv, Types, Nobody
  <1>u. ASSUME write' = write, \A i \in Inode : (lane'[i].job = lane[i].job /\ lane'[i].at = lane[i].at) \/ lane'[i].at = "idle"
        PROVE  Outcomes'
    BY <1>0, <1>u DEF Outcomes, OutcomeOf, Applying, Dispatching, Visible
  <1>v. lane' = lane => \A i \in Inode : lane'[i].job = lane[i].job /\ lane'[i].at = lane[i].at
    OBVIOUS
  <1>1. ASSUME NEW inos \in (SUBSET Inode) \ {{}}, NEW cells \in Extents, Begin(inos, cells) PROVE Outcomes'
    <2>1. PICK n : Begun(n, inos) /\ lane' = lane
      BY <1>0, <1>1, BeginFacts DEF Begin
    <2>2. \A i \in Inode : lane[i].at # "idle" => write'[lane[i].job] = write[lane[i].job]
      BY <1>0, <2>1, JobFacts DEF Begun
    <2>. QED
      BY <1>0, <2>1, <2>2 DEF Outcomes, OutcomeOf, Applying, Dispatching, Visible
  <1>2. ASSUME NEW n \in DOMAIN write, WriteMove(n) PROVE Outcomes'
    <2>1. CASE Reserve(n)
      BY <1>0, <1>v, <2>1, WriteFacts, OutcomesRewrites DEF Reserve, Becomes
    <2>2. CASE Publish(n)
      <3>1. PICK pc, seq, held :
              /\ Rewrites(n, pc, seq, held, write[n].arrived, write[n].cancelled, write[n].result, write[n].committed)
              /\ pc # "acked" /\ write[n].pc # "acked" /\ lane' = lane
        BY <1>0, <2>2, PublishFacts DEF Publish, Becomes
      <3>. QED
        BY <1>0, <1>v, <3>1, OutcomesRewrites
    <2>4. CASE Cancel(n)
      BY <1>0, <1>v, <2>4, WriteFacts, OutcomesRewrites DEF Cancel, Outcome
    <2>5. CASE Aborts(n)
      BY <1>0, <1>v, <2>5, AbortFacts, OutcomesRewrites DEF Aborts, Abort, Becomes
    <2>6. CASE Prepare(n)
      BY <1>0, <1>v, <2>6, PrepareFacts, OutcomesRewrites DEF Prepare, Becomes
    <2>7. CASE Stage(n)
      <3>1. \A i \in Inode : lane'[i].job = lane[i].job /\ lane'[i].at = lane[i].at
        BY <1>0, <2>7, StageFacts DEF Appends
      <3>. QED
        BY <1>0, <2>7, <3>1, StageFacts, OutcomesRewrites DEF Stage, Becomes
    <2>. QED
      BY <1>2, <2>1, <2>2, <2>4, <2>5, <2>6, <2>7, OutcomesShow DEF WriteMove
  <1>3. ASSUME NEW i \in Inode, JobMove(i) PROVE Outcomes'
    <2>1. CASE Retire(i)
      <3>1. write' = write /\ lane' = [lane EXCEPT ![i] = NoLane]
        BY <2>1 DEF Retire
      <3>. QED
        BY <1>0, <1>u, <3>1 DEF Types, NoLane
    <2>2. CASE Complete(i) \/ Fail(i)
      <3>1. Ends(i) /\ write' = write
        BY <1>0, <2>2, CompleteFacts, FailFacts DEF Complete, Fail
      <3>. QED
        BY <1>u, <3>1 DEF Ends
    <2>3. CASE Arrive(i)
      <3>1. PICK n : n = Head(lane[i].queue)
        OBVIOUS
      <3>2. /\ n \in DOMAIN write
            /\ \/ write[n].result # "none" /\ write' = write /\ Takes(i, write[n].result)
               \/ /\ write[n].result = "none"
                  /\ Rewrites(n, write[n].pc, write[n].seq, write[n].held, write[n].arrived + 1, write[n].cancelled, write[n].result, write[n].committed)
                  /\ Takes(i, IF write[n].arrived + 1 = Cardinality(write[n].inos) THEN "take" ELSE "wait")
        BY <1>0, <2>3, <3>1, ArriveFacts
      <3>3. \A m \in DOMAIN write : write'[m].pc = write[m].pc /\ write'[m].result = write[m].result /\ write'[m].committed = write[m].committed
        BY <3>2 DEF Rewrites
      <3>4. /\ lane'[i].job = n /\ \A j \in Inode : j # i => lane'[j] = lane[j]
            /\ \/ write[n].result # "none" /\ lane'[i].at = write[n].result
               \/ write[n].result = "none" /\ lane'[i].at \in {"take", "wait"}
        BY <3>1, <3>2 DEF Takes
      <3>5. OutcomeOf(i)'
        <4>1. write[n].result \in Results
          BY <1>0, <3>2, WriteTypes DEF Writes
        <4>. QED
          BY <3>2, <3>3, <3>4, <4>1 DEF OutcomeOf, Applying, Dispatching, Visible, Results
      <3>6. ASSUME NEW j \in Inode, j # i PROVE OutcomeOf(j)'
        <4>1. OutcomeOf(j) /\ lane'[j] = lane[j] /\ (lane[j].at # "idle" => lane[j].job \in DOMAIN write)
          BY <1>0, <3>4, <3>6, JobFacts DEF Outcomes
        <4>. QED
          BY <3>3, <4>1 DEF OutcomeOf, Applying, Dispatching, Visible
      <3>. QED
        BY <3>5, <3>6 DEF Outcomes
    <2>. QED
      BY <1>3, <2>1, <2>2, <2>3, OutcomesLane DEF JobMove
  <1>4. ASSUME NEW c \in Client, Asks(c) \/ Punch(c) PROVE Outcomes'
    <2>1. UNCHANGED <<write, lane>>
      BY <1>0, <1>4, AskFacts DEF Punch, pipeline
    <2>. QED
      BY <1>u, <2>1
  <1>5. CASE Stop \/ UNCHANGED vars
    BY <1>u, <1>5 DEF Stop, vars
  <1>. QED
    BY <1>1, <1>2, <1>3, <1>4, <1>5, Cases

-----------------------------------------------------------------------------
(* What was applied is there until its lane lets go of it *)

\* A lane gets no committed job, and the canonical bytes stay.
LEMMA AppliedKept ==
    ASSUME Types, Tracking, Applied, base' = base, \A m \in DOMAIN write : write'[m].committed = write[m].committed /\ write'[m].cells = write[m].cells,
           \A i \in Inode : lane'[i].job \in {lane[i].job, Nobody}
    PROVE  Applied'
  <1>1. ASSUME NEW i \in Inode, lane'[i].job # Nobody, write'[lane'[i].job].committed, NEW x \in write'[lane'[i].job].cells
        PROVE  base'[i].at[x] = lane'[i].job
    <2>1. lane'[i].job = lane[i].job /\ lane[i].job # Nobody /\ lane[i].job \in DOMAIN write
      BY <1>1, JobFacts
    <2>. QED
      BY <1>1, <2>1 DEF Applied
  <1>. QED
    BY <1>1 DEF Applied

LEMMA AppliedRewrites ==
    ASSUME Types, Tracking, Applied, base' = base, NEW n, NEW pc, NEW seq, NEW held, NEW arrived, NEW cancelled, NEW result,
           Rewrites(n, pc, seq, held, arrived, cancelled, result, write[n].committed),
           \A i \in Inode : lane'[i].job \in {lane[i].job, Nobody}
    PROVE  Applied'
  <1>1. \A m \in DOMAIN write : write'[m].committed = write[m].committed /\ write'[m].cells = write[m].cells
    BY DEF Rewrites
  <1>. QED
    BY <1>1, AppliedKept

LEMMA AppliedCommit ==
    ASSUME MutInv, NEW i \in Inode, Commit(i)
    PROVE  Applied'
  <1>0. Types /\ Tracking /\ Applied /\ Arrivals
    BY DEF MutInv
  <1>1. PICK n : n = lane[i].job
    OBVIOUS
  <1>2. /\ n \in DOMAIN write /\ Moves(i, "record") /\ lane[i].at = "commit" /\ Dispatching(i) /\ Applying(i)
        /\ Rewrites(n, write[n].pc, write[n].seq, write[n].held, write[n].arrived, write[n].cancelled, write[n].result, TRUE)
        /\ Applies(n)
    BY <1>0, <1>1, CommitFacts DEF Dispatching, Applying
  <1>3. write[n].result = "none" /\ \A j \in write[n].inos : lane[j].job = n
    BY <1>0, <1>1, <1>2, DispatchFacts DEF Arrivals
  <1>4. ASSUME NEW j \in Inode, lane'[j].job # Nobody, write'[lane'[j].job].committed, NEW x \in write'[lane'[j].job].cells
        PROVE  base'[j].at[x] = lane'[j].job
    <2>1. lane'[j].job = lane[j].job /\ lane[j].job \in DOMAIN write /\ j \in write[lane[j].job].inos
      BY <1>0, <1>2, <1>4, JobFacts DEF Moves
    <2>2. CASE lane[j].job = n
      <3>1. x \in write[n].cells /\ x \in Cell
        BY <1>0, <1>2, <1>4, <2>1, <2>2, WriteTypes DEF Rewrites
      <3>2. base'[j].at[x] = n
        BY <1>2, <2>1, <2>2, <3>1 DEF Applies
      <3>. QED
        BY <2>1, <2>2, <3>2
    <2>3. CASE lane[j].job # n
      <3>1. base'[j] = base[j] /\ write'[lane[j].job] = write[lane[j].job]
        BY <1>2, <1>3, <2>1, <2>3 DEF Rewrites, Applies
      <3>. QED
        BY <1>0, <1>4, <2>1, <3>1 DEF Applied
    <2>. QED
      BY <2>2, <2>3
  <1>. QED
    BY <1>4 DEF Applied

LEMMA AppliedStep ==
    ASSUME MutInv, [Next]_vars
    PROVE  Applied'
  <1>0. Types /\ Applied /\ Tracking /\ Lives /\ Previewed /\ Nobody \notin DOMAIN write
    BY DEF MutInv, Types, Nobody
  <1>v. lane' = lane => \A i \in Inode : lane'[i].job \in {lane[i].job, Nobody}
    OBVIOUS
  <1>1. ASSUME NEW inos \in (SUBSET Inode) \ {{}}, NEW cells \in Extents, Begin(inos, cells) PROVE Applied'
    <2>1. PICK n : Begun(n, inos) /\ lane' = lane /\ base' = base
      BY <1>0, <1>1, BeginFacts DEF Begin
    <2>. QED
      BY <1>0, <1>v, <2>1, AppliedKept DEF Begun
  <1>2. ASSUME NEW n \in DOMAIN write, WriteMove(n) PROVE Applied'
    <2>1. CASE Reserve(n)
      BY <1>0, <1>v, <2>1, WriteFacts, AppliedRewrites DEF Reserve, Becomes
    <2>2. CASE Publish(n)
      BY <1>0, <1>v, <2>2, PublishFacts, AppliedRewrites DEF Publish, Becomes
    <2>3. CASE Show(n)
      BY <1>0, <1>v, <2>3, WriteFacts, AppliedRewrites DEF Show, Becomes
    <2>4. CASE Cancel(n)
      BY <1>0, <1>v, <2>4, WriteFacts, AppliedRewrites DEF Cancel
    <2>5. CASE Aborts(n)
      BY <1>0, <1>v, <2>5, AbortFacts, AppliedRewrites DEF Aborts, Abort, Becomes
    <2>6. CASE Prepare(n)
      BY <1>0, <1>v, <2>6, PrepareFacts, AppliedRewrites DEF Prepare, Becomes
    <2>7. CASE Stage(n)
      <3>1. \A i \in Inode : lane'[i].job \in {lane[i].job, Nobody}
        BY <1>0, <2>7, StageFacts DEF Appends
      <3>. QED
        BY <1>0, <2>7, <3>1, StageFacts, AppliedRewrites DEF Stage, Becomes
    <2>. QED
      BY <1>2, <2>1, <2>2, <2>3, <2>4, <2>5, <2>6, <2>7 DEF WriteMove
  <1>3. ASSUME NEW i \in Inode, JobMove(i) PROVE Applied'
    <2>1. CASE Retire(i)
      <3>1. write' = write /\ lane' = [lane EXCEPT ![i] = NoLane] /\ base' = base
        BY <2>1 DEF Retire
      <3>2. \A j \in Inode : lane'[j].job \in {lane[j].job, Nobody}
        BY <1>0, <3>1 DEF Types, NoLane
      <3>. QED
        BY <1>0, <3>1, <3>2, AppliedKept
    <2>2. CASE Complete(i) \/ Fail(i)
      <3>1. Ends(i) /\ write' = write /\ base' = base
        BY <1>0, <2>2, CompleteFacts, FailFacts DEF Complete, Fail
      <3>2. \A j \in Inode : lane'[j].job \in {lane[j].job, Nobody}
        BY <3>1 DEF Ends
      <3>. QED
        BY <1>0, <3>1, <3>2, AppliedKept
    <2>3. CASE Arrive(i)
      <3>1. PICK n : n = Head(lane[i].queue)
        OBVIOUS
      <3>2. /\ n \in DOMAIN write /\ n \in Range(lane[i].queue) /\ base' = base
            /\ \/ write' = write
               \/ Rewrites(n, write[n].pc, write[n].seq, write[n].held, write[n].arrived + 1, write[n].cancelled, write[n].result, write[n].committed)
            /\ \E step : Takes(i, step)
        BY <1>0, <2>3, <3>1, ArriveFacts DEF Arrive
      <3>3. \A m \in DOMAIN write : write'[m].committed = write[m].committed /\ write'[m].cells = write[m].cells
        BY <3>2 DEF Rewrites
      <3>4. ~write'[n].committed /\ lane'[i].job = n /\ \A j \in Inode : j # i => lane'[j] = lane[j]
        BY <1>0, <3>1, <3>2, <3>3 DEF Tracking, Tracked, Takes
      <3>5. ASSUME NEW j \in Inode, lane'[j].job # Nobody, write'[lane'[j].job].committed, NEW x \in write'[lane'[j].job].cells
            PROVE  base'[j].at[x] = lane'[j].job
        <4>1. j # i /\ lane'[j] = lane[j] /\ lane[j].job \in DOMAIN write
          BY <1>0, <3>4, <3>5, JobFacts
        <4>. QED
          BY <1>0, <3>2, <3>3, <3>5, <4>1 DEF Applied
      <3>. QED
        BY <3>5 DEF Applied
    <2>4. ASSUME NEW step \in Steps, Proceeds(i, step) PROVE Applied'
      <3>1. write' = write /\ base' = base /\ \A j \in Inode : lane'[j].job \in {lane[j].job, Nobody}
        BY <2>4 DEF Proceeds, Moves
      <3>. QED
        BY <1>0, <3>1, AppliedKept
    <2>5. ASSUME NEW r \in {"ok", "err"}, Concludes(i, r) PROVE Applied'
      <3>1. PICK n : n = lane[i].job
        OBVIOUS
      <3>2. /\ base' = base /\ Moves(i, r)
            /\ Rewrites(n, write[n].pc, write[n].seq, FALSE, write[n].arrived, write[n].cancelled, Outcome(n, r), write[n].committed)
        BY <2>5, <3>1 DEF Concludes, Settles
      <3>3. \A j \in Inode : lane'[j].job \in {lane[j].job, Nobody}
        BY <3>2 DEF Moves
      <3>. QED
        BY <1>0, <3>2, <3>3, AppliedRewrites
    <2>6. CASE Submit(i)
      <3>1. PICK n : n = lane[i].job
        OBVIOUS
      <3>2. base' = base /\ Becomes(n, write[n].pc, FALSE) /\ Moves(i, "commit")
        BY <1>0, <2>6, <3>1, SubmitFacts DEF Submit
      <3>3. \A j \in Inode : lane'[j].job \in {lane[j].job, Nobody}
        BY <3>2 DEF Moves
      <3>. QED
        BY <1>0, <3>2, <3>3, AppliedRewrites DEF Becomes
    <2>. QED
      BY <1>3, <2>1, <2>2, <2>3, <2>4, <2>5, <2>6, AppliedCommit DEF JobMove, LaneMove
  <1>4. ASSUME NEW c \in Client, Asks(c) PROVE Applied'
    <2>1. UNCHANGED <<write, lane, base>>
      BY <1>0, <1>4, AskFacts
    <2>. QED
      BY <1>0, <1>v, <2>1, AppliedKept
  <1>5. ASSUME NEW c \in Client, Punch(c) PROVE Applied'
    <2>1. UNCHANGED <<write, lane>> /\ fence[c].pc = "held" /\ base' = [base EXCEPT ![fence[c].ino].at = [x \in Cell |-> Zero]]
      BY <1>5 DEF Punch, pipeline
    <2>2. lane[fence[c].ino].job = Nobody
      BY <2>1 DEF MutInv, Fencing, FenceOf, Emptied
    <2>3. \A i \in Inode : i # fence[c].ino => base'[i] = base[i]
      BY <1>0, <2>1 DEF Types
    <2>. QED
      BY <1>0, <2>1, <2>2, <2>3 DEF Applied
  <1>6. CASE Stop \/ UNCHANGED vars
    BY <1>0, <1>v, <1>6, AppliedKept DEF Stop, vars
  <1>. QED
    BY <1>1, <1>2, <1>3, <1>4, <1>5, <1>6, Cases

-----------------------------------------------------------------------------
(* Sequences, and what was recorded *)

Numbered == {"published", "acked"}

LEMMA SequencedKept ==
    ASSUME Types, Sequenced, gate'.through = gate.through, DOMAIN write \subseteq DOMAIN write',
           \A m \in DOMAIN write : /\ write'[m].seq = write[m].seq /\ (write'[m].pc \in Numbered <=> write[m].pc \in Numbered)
                                   /\ write[m].committed => write'[m].committed,
           \A m \in DOMAIN write' : m \in DOMAIN write \/ (write'[m].seq = 0 /\ write'[m].pc \notin Numbered),
           \A s \in Nat : s <= progress'.through \/ s \in progress'.pending =>
                             s <= progress.through \/ s \in progress.pending \/ Recorded(s)'
    PROVE  Sequenced'
  <1>1. \A m \in DOMAIN write' : /\ write'[m].seq <= gate'.through
                                 /\ write'[m].seq > 0 <=> write'[m].pc \in {"published", "acked"}
    BY DEF Sequenced, Numbered, Types
  <1>2. \A n, m \in DOMAIN write' : write'[n].seq = write'[m].seq /\ write'[n].seq > 0 => n = m
    BY DEF Sequenced
  <1>3. \A s \in Nat \ {0} : Recorded(s) => Recorded(s)'
    BY DEF Recorded
  <1>4. \A s \in Nat \ {0} : s <= progress'.through \/ s \in progress'.pending => Recorded(s)'
    BY <1>3 DEF Sequenced
  <1>. QED
    BY <1>1, <1>2, <1>4 DEF Sequenced

\* One write changes, and is neither published nor dropped.
LEMMA SequencedRewrites ==
    ASSUME Types, Sequenced, gate'.through = gate.through, NEW n \in DOMAIN write,
           NEW pc, NEW held, NEW arrived, NEW cancelled, NEW result, NEW committed,
           Rewrites(n, pc, write[n].seq, held, arrived, cancelled, result, committed),
           pc \in Numbered <=> write[n].pc \in Numbered, committed \in {write[n].committed, TRUE},
           \A s \in Nat : s <= progress'.through \/ s \in progress'.pending =>
                             s <= progress.through \/ s \in progress.pending \/ Recorded(s)'
    PROVE  Sequenced'
  <1>1. \A m \in DOMAIN write : /\ write'[m].seq = write[m].seq /\ (write'[m].pc \in Numbered <=> write[m].pc \in Numbered)
                                /\ write[m].committed => write'[m].committed
    BY DEF Rewrites
  <1>2. DOMAIN write' = DOMAIN write
    BY DEF Rewrites
  <1>. QED
    BY <1>1, <1>2, SequencedKept

LEMMA SequencedPublish ==
    ASSUME MutInv, NEW n \in DOMAIN write, Publish(n), ~gate.terminal
    PROVE  Sequenced'
  <1>0. Types /\ Sequenced /\ Lives
    BY DEF MutInv
  <1>1. /\ write[n].pc = "staged" /\ gate'.through = gate.through + 1 /\ progress' = progress
        /\ Rewrites(n, "published", gate.through + 1, write[n].held, write[n].arrived, write[n].cancelled, write[n].result, write[n].committed)
    BY <1>0, PublishFacts DEF Publish
  <1>2. gate.through \in Nat /\ ~write[n].committed
    BY <1>0, <1>1 DEF Types, Lives, Life, Visible
  <1>3. \A m \in DOMAIN write : write[m].seq \in Nat /\ write[m].seq <= gate.through /\ (write[m].seq > 0 <=> write[m].pc \in {"published", "acked"})
    BY <1>0, WriteTypes DEF Sequenced
  <1>4. /\ DOMAIN write' = DOMAIN write /\ write'[n].seq = gate.through + 1 /\ write'[n].pc = "published"
        /\ \A m \in DOMAIN write : m # n => write'[m] = write[m]
    BY <1>1 DEF Rewrites
  <1>5. \A m \in DOMAIN write' : /\ write'[m].seq <= gate'.through
                                 /\ write'[m].seq > 0 <=> write'[m].pc \in {"published", "acked"}
    BY <1>1, <1>2, <1>3, <1>4
  <1>6. \A k, m \in DOMAIN write' : write'[k].seq = write'[m].seq /\ write'[k].seq > 0 => k = m
    <2>1. \A k, m \in DOMAIN write : write[k].seq = write[m].seq /\ write[k].seq > 0 => k = m
      BY <1>0 DEF Sequenced
    <2>2. \A m \in DOMAIN write : m # n => write'[m].seq # write'[n].seq
      BY <1>2, <1>3, <1>4
    <2>. QED
      BY <1>4, <2>1, <2>2
  <1>7. \A s \in Nat \ {0} : Recorded(s) => Recorded(s)'
    BY <1>2, <1>4 DEF Recorded
  <1>. QED
    BY <1>0, <1>1, <1>5, <1>6, <1>7 DEF Sequenced

LEMMA SequencedStep ==
    ASSUME MutInv, [Next]_vars
    PROVE  Sequenced'
  <1>0. /\ Types /\ Sequenced /\ Tracking /\ Lives /\ Previewed
        /\ progress \in [through : Nat, pending : SUBSET Nat, terminal : BOOLEAN] /\ IsFiniteSet(progress.pending)
    BY DEF MutInv, Types
  <1>v. progress' = progress => \A s \in Nat : s <= progress'.through \/ s \in progress'.pending =>
                                    s <= progress.through \/ s \in progress.pending \/ Recorded(s)'
    OBVIOUS
  <1>u. ASSUME write' = write, gate'.through = gate.through, progress'.through = progress.through, progress'.pending = progress.pending
        PROVE  Sequenced'
    BY <1>0, <1>u, SequencedKept
  <1>1. ASSUME NEW inos \in (SUBSET Inode) \ {{}}, NEW cells \in Extents, Begin(inos, cells) PROVE Sequenced'
    <2>1. PICK n : Begun(n, inos) /\ gate' = gate /\ progress' = progress
      BY <1>0, <1>1, BeginFacts DEF Begin
    <2>2. \A m \in DOMAIN write : /\ write'[m].seq = write[m].seq /\ (write'[m].pc \in Numbered <=> write[m].pc \in Numbered)
                                  /\ write[m].committed => write'[m].committed
      BY <2>1 DEF Begun
    <2>3. \A m \in DOMAIN write' : m \in DOMAIN write \/ (write'[m].seq = 0 /\ write'[m].pc \notin Numbered)
      BY <2>1 DEF Begun, Numbered
    <2>4. DOMAIN write \subseteq DOMAIN write'
      BY <2>1 DEF Begun
    <2>. QED
      BY <1>0, <1>v, <2>1, <2>2, <2>3, <2>4, SequencedKept
  <1>2. ASSUME NEW n \in DOMAIN write, WriteMove(n) PROVE Sequenced'
    <2>1. CASE Reserve(n)
      <3>1. Becomes(n, "reserved", write[n].held) /\ gate' = gate /\ progress' = progress /\ write[n].pc = "waiting"
        BY <1>0, <2>1, WriteFacts DEF Reserve
      <3>. QED
        BY <1>0, <1>v, <3>1, SequencedRewrites DEF Becomes, Numbered
    <2>2. CASE Publish(n)
      <3>1. CASE gate.terminal
        <4>1. Becomes(n, "dropped", FALSE) /\ gate' = gate /\ progress' = progress /\ write[n].pc = "staged"
          BY <1>0, <2>2, <3>1, PublishFacts DEF Publish
        <4>. QED
          BY <1>0, <1>v, <4>1, SequencedRewrites DEF Becomes, Numbered
      <3>. QED
        BY <2>2, <3>1, SequencedPublish
    <2>3. CASE Show(n)
      <3>1. Becomes(n, "acked", write[n].held) /\ gate' = gate /\ progress' = progress /\ write[n].pc = "published"
        BY <1>0, <2>3, WriteFacts DEF Show
      <3>. QED
        BY <1>0, <1>v, <3>1, SequencedRewrites DEF Becomes, Numbered
    <2>4. CASE Cancel(n)
      <3>1. Rewrites(n, "releasing", write[n].seq, write[n].held, write[n].arrived, TRUE, Outcome(n, "ok"), write[n].committed) /\ gate' = gate /\ progress' = progress /\ write[n].pc = "dropped"
        BY <1>0, <2>4, WriteFacts DEF Cancel
      <3>. QED
        BY <1>0, <1>v, <3>1, SequencedRewrites DEF Becomes, Numbered
    <2>5. CASE Aborts(n)
      <3>1. Becomes(n, "failed", FALSE) /\ gate' = gate /\ progress' = progress /\ write[n].pc \notin Numbered
        BY <1>0, <2>5, AbortFacts DEF Aborts, Abort, Numbered
      <3>. QED
        BY <1>0, <1>v, <3>1, SequencedRewrites DEF Becomes, Numbered
    <2>6. CASE Prepare(n)
      <3>1. Becomes(n, "prepared", TRUE) /\ gate' = gate /\ progress' = progress /\ write[n].pc = "reserved"
        BY <1>0, <2>6, PrepareFacts DEF Prepare
      <3>. QED
        BY <1>0, <1>v, <3>1, SequencedRewrites DEF Becomes, Numbered
    <2>7. CASE Stage(n)
      <3>1. Becomes(n, "staged", write[n].held) /\ gate' = gate /\ progress' = progress /\ write[n].pc = "prepared"
        BY <1>0, <2>7, StageFacts DEF Stage
      <3>. QED
        BY <1>0, <1>v, <3>1, SequencedRewrites DEF Becomes, Numbered
    <2>. QED
      BY <1>2, <2>1, <2>2, <2>3, <2>4, <2>5, <2>6, <2>7 DEF WriteMove
  <1>3. ASSUME NEW i \in Inode, JobMove(i) PROVE Sequenced'
    <2>1. CASE Retire(i) \/ (\E step \in Steps : Proceeds(i, step)) \/ Complete(i) \/ Fail(i)
      <3>1. write' = write /\ gate' = gate /\ (progress' = progress \/ progress' = [progress EXCEPT !.terminal = TRUE])
        BY <2>1 DEF Retire, Proceeds, Complete, Fail
      <3>2. progress'.through = progress.through /\ progress'.pending = progress.pending
        BY <1>0, <3>1
      <3>. QED
        BY <1>u, <3>1, <3>2
    <2>2. CASE Arrive(i)
      <3>1. PICK n : n = Head(lane[i].queue)
        OBVIOUS
      <3>2. /\ n \in DOMAIN write /\ gate' = gate /\ progress' = progress
            /\ \/ write' = write
               \/ Rewrites(n, write[n].pc, write[n].seq, write[n].held, write[n].arrived + 1, write[n].cancelled, write[n].result, write[n].committed)
        BY <1>0, <2>2, <3>1, ArriveFacts DEF Arrive
      <3>. QED
        BY <1>0, <1>u, <1>v, <3>2, SequencedRewrites
    <2>3. ASSUME NEW r \in {"ok", "err"}, Concludes(i, r), Poisons(i, r) \/ Records(i, r) \/ Leaves(i, r) PROVE Sequenced'
      <3>1. PICK n : n = lane[i].job
        OBVIOUS
      <3>2. /\ n \in DOMAIN write /\ gate' = gate
            /\ Rewrites(n, write[n].pc, write[n].seq, FALSE, write[n].arrived, write[n].cancelled, Outcome(n, r), write[n].committed)
        BY <2>3, <3>1, DispatchFacts DEF Concludes, Settles
      <3>3. \A s \in Nat : s <= progress'.through \/ s \in progress'.pending =>
                             s <= progress.through \/ s \in progress.pending \/ Recorded(s)'
        <4>1. CASE Poisons(i, r) \/ Leaves(i, r)
          <5>1. progress'.through = progress.through /\ progress'.pending = progress.pending
            BY <1>0, <4>1 DEF Poisons, Leaves
          <5>. QED
            BY <5>1
        <4>2. CASE Records(i, r)
          <5>1. lane[i].at = "record" /\ progress' = Advanced(progress, write[n].seq) /\ write[n].seq \in Nat
            BY <1>0, <3>1, <3>2, <4>2, WriteTypes DEF Records
          <5>2. write[n].committed
            BY <3>1, <5>1 DEF MutInv, Outcomes, OutcomeOf
          <5>0. PICK z : z = write[n].seq
            OBVIOUS
          <5>3. Recorded(z)'
            BY <3>2, <5>0, <5>2 DEF Recorded, Rewrites
          <5>4. \A s \in Nat : s <= progress'.through \/ s \in progress'.pending =>
                                 s <= progress.through \/ s \in progress.pending \/ s = write[n].seq
            BY <1>0, <5>1, AdvancedFacts
          <5>. QED
            BY <5>0, <5>3, <5>4
        <4>. QED
          BY <2>3, <4>1, <4>2
      <3>. QED
        BY <1>0, <3>2, <3>3, SequencedRewrites
    <2>4. CASE Submit(i)
      <3>1. PICK n : n = lane[i].job
        OBVIOUS
      <3>2. n \in DOMAIN write /\ Becomes(n, write[n].pc, FALSE) /\ gate' = gate /\ progress' = progress
        BY <1>0, <2>4, <3>1, SubmitFacts DEF Submit
      <3>. QED
        BY <1>0, <1>v, <3>2, SequencedRewrites DEF Becomes
    <2>5. CASE Commit(i)
      <3>1. PICK n : n = lane[i].job
        OBVIOUS
      <3>2. /\ n \in DOMAIN write /\ gate' = gate /\ progress' = progress
            /\ Rewrites(n, write[n].pc, write[n].seq, write[n].held, write[n].arrived, write[n].cancelled, write[n].result, TRUE)
        BY <1>0, <2>5, <3>1, CommitFacts DEF Commit
      <3>. QED
        BY <1>0, <1>v, <3>2, SequencedRewrites
    <2>. QED
      BY <1>3, <2>1, <2>2, <2>3, <2>4, <2>5 DEF JobMove, LaneMove
  <1>4. ASSUME NEW c \in Client, Asks(c) \/ Punch(c) PROVE Sequenced'
    <2>1. UNCHANGED <<write, gate, progress>>
      BY <1>0, <1>4, AskFacts DEF Punch, pipeline
    <2>. QED
      BY <1>u, <2>1
  <1>5. CASE Stop \/ UNCHANGED vars
    <2>1. UNCHANGED <<write, progress>> /\ gate'.through = gate.through
      BY <1>0, <1>5 DEF Stop, vars, Types
    <2>. QED
      BY <1>u, <2>1
  <1>. QED
    BY <1>1, <1>2, <1>3, <1>4, <1>5, Cases

-----------------------------------------------------------------------------
(* A flush *)

\* An acknowledged write stays so, with its sequence, and what was recorded stays recorded.
Endures ==
    /\ \A m \in DOMAIN write : Visible(m) => m \in DOMAIN write' /\ write'[m].pc = "acked" /\ write'[m].seq = write[m].seq
    /\ progress.through <= progress'.through

LEMMA EnduresStep ==
    ASSUME MutInv, [Next]_vars
    PROVE  /\ Endures
           /\ flusher' = flusher \/ \E c \in Client : Flushes(c)
  <1>0. /\ Types /\ Tracking /\ Lives /\ Previewed
        /\ progress \in [through : Nat, pending : SUBSET Nat, terminal : BOOLEAN]
    BY DEF MutInv, Types
  <1>v. progress'.through = progress.through => progress.through <= progress'.through
    BY <1>0
  <1>r. ASSUME NEW n, NEW pc, NEW seq, NEW held, NEW arrived, NEW cancelled, NEW result, NEW committed,
               Rewrites(n, pc, seq, held, arrived, cancelled, result, committed),
               write[n].pc # "acked" \/ (pc = "acked" /\ seq = write[n].seq), progress.through <= progress'.through
        PROVE  Endures
    BY <1>r DEF Rewrites, Endures, Visible
  <1>u. ASSUME write' = write, progress.through <= progress'.through PROVE Endures
    BY <1>u DEF Endures, Visible
  <1>1. ASSUME NEW inos \in (SUBSET Inode) \ {{}}, NEW cells \in Extents, Begin(inos, cells) PROVE Endures /\ flusher' = flusher
    <2>1. PICK n : Begun(n, inos) /\ progress' = progress /\ flusher' = flusher
      BY <1>0, <1>1, BeginFacts DEF Begin, clients
    <2>. QED
      BY <1>v, <2>1 DEF Begun, Endures, Visible
  <1>2. ASSUME NEW n \in DOMAIN write, WriteMove(n) PROVE Endures /\ flusher' = flusher
    <2>1. CASE Reserve(n)
      BY <1>0, <1>r, <1>v, <2>1, WriteFacts DEF Reserve, Becomes, clients
    <2>2. CASE Publish(n)
      BY <1>0, <1>r, <1>v, <2>2, PublishFacts DEF Publish, Becomes, clients
    <2>3. CASE Show(n)
      BY <1>0, <1>r, <1>v, <2>3, WriteFacts DEF Show, Becomes
    <2>4. CASE Cancel(n)
      BY <1>0, <1>r, <1>v, <2>4, WriteFacts DEF Cancel, clients
    <2>5. CASE Aborts(n)
      BY <1>0, <1>r, <1>v, <2>5, AbortFacts DEF Aborts, Abort, Becomes, clients
    <2>6. CASE Prepare(n)
      BY <1>0, <1>r, <1>v, <2>6, PrepareFacts DEF Prepare, Becomes, clients
    <2>7. CASE Stage(n)
      BY <1>0, <1>r, <1>v, <2>7, StageFacts DEF Stage, Becomes, clients
    <2>. QED
      BY <1>2, <2>1, <2>2, <2>3, <2>4, <2>5, <2>6, <2>7 DEF WriteMove
  <1>3. ASSUME NEW i \in Inode, JobMove(i) PROVE Endures /\ flusher' = flusher
    <2>0. PICK n : n = lane[i].job
      OBVIOUS
    <2>1. CASE Retire(i) \/ (\E step \in Steps : Proceeds(i, step)) \/ Complete(i) \/ Fail(i)
      <3>1. write' = write /\ flusher' = flusher /\ (progress' = progress \/ progress' = [progress EXCEPT !.terminal = TRUE])
        BY <2>1 DEF Retire, Proceeds, Complete, Fail, clients
      <3>2. progress'.through = progress.through
        BY <1>0, <3>1
      <3>. QED
        BY <1>u, <1>v, <3>1, <3>2
    <2>2. CASE Arrive(i)
      <3>1. PICK h : h = Head(lane[i].queue)
        OBVIOUS
      <3>2. /\ flusher' = flusher /\ progress' = progress
            /\ \/ write' = write
               \/ Rewrites(h, write[h].pc, write[h].seq, write[h].held, write[h].arrived + 1, write[h].cancelled, write[h].result, write[h].committed)
        BY <1>0, <2>2, <3>1, ArriveFacts DEF Arrive, clients
      <3>. QED
        BY <1>r, <1>u, <1>v, <3>2
    <2>3. ASSUME NEW r \in {"ok", "err"}, Concludes(i, r), Poisons(i, r) \/ Records(i, r) \/ Leaves(i, r) PROVE Endures /\ flusher' = flusher
      <3>1. /\ flusher' = flusher /\ lane[i].at # "idle"
            /\ Rewrites(n, write[n].pc, write[n].seq, FALSE, write[n].arrived, write[n].cancelled, Outcome(n, r), write[n].committed)
        BY <2>0, <2>3 DEF Concludes, Settles, Dispatching, clients
      <3>2. progress.through <= progress'.through
        BY <2>3, <3>1, ProgressTypes
      <3>. QED
        BY <1>r, <3>1, <3>2
    <2>4. CASE Submit(i)
      <3>1. Becomes(n, write[n].pc, FALSE) /\ flusher' = flusher /\ progress' = progress
        BY <1>0, <2>0, <2>4, SubmitFacts DEF Submit, clients
      <3>. QED
        BY <1>r, <1>v, <3>1 DEF Becomes
    <2>5. CASE Commit(i)
      <3>1. /\ flusher' = flusher /\ progress' = progress
            /\ Rewrites(n, write[n].pc, write[n].seq, write[n].held, write[n].arrived, write[n].cancelled, write[n].result, TRUE)
        BY <1>0, <2>0, <2>5, CommitFacts DEF Commit, clients
      <3>. QED
        BY <1>r, <1>v, <3>1
    <2>. QED
      BY <1>3, <2>1, <2>2, <2>3, <2>4, <2>5 DEF JobMove, LaneMove
  <1>4. ASSUME NEW c \in Client, Asks(c) \/ Punch(c) PROVE Endures /\ (flusher' = flusher \/ Flushes(c))
    <2>1. UNCHANGED <<write, progress>> /\ (flusher' = flusher \/ Flushes(c))
      BY <1>0, <1>4, AskFacts DEF Punch, pipeline, Asks
    <2>. QED
      BY <1>u, <1>v, <2>1
  <1>5. CASE Stop \/ UNCHANGED vars
    BY <1>u, <1>v, <1>5 DEF Stop, vars, clients
  <1>. QED
    BY <1>1, <1>2, <1>3, <1>4, <1>5, Cases

LEMMA CoveringKept ==
    ASSUME Flushing, Endures, Sequenced, Types, NEW c \in Client, flusher'[c] = flusher[c], progress' \in [through : Nat, pending : SUBSET Nat, terminal : BOOLEAN]
    PROVE  Covering(c)'
  <1>1. Covering(c) /\ flusher[c] \in Flushers
    BY DEF Flushing
  <1>2. \A n \in flusher[c].must : flusher[c].pc # "idle" => n \in DOMAIN write' /\ write'[n].pc = "acked" /\ write'[n].seq <= flusher[c].cutoff
    BY <1>1 DEF Covering, Endures
  <1>3. flusher[c].pc = "ok" => flusher[c].cutoff <= progress'.through
    <2>1. flusher[c].cutoff \in Nat /\ progress.through \in Nat /\ progress'.through \in Nat /\ progress.through <= progress'.through
      BY <1>1 DEF Flushers, Types, Endures
    <2>. QED
      BY <1>1, <2>1 DEF Covering
  <1>. QED
    BY <1>2, <1>3 DEF Covering, Visible

LEMMA FlushingStep ==
    ASSUME MutInv, [Next]_vars
    PROVE  Flushing'
  <1>0. /\ Types /\ Flushing /\ Sequenced /\ gate \in [through : Nat, terminal : BOOLEAN] /\ flusher \in [Client -> Flushers]
        /\ progress \in [through : Nat, pending : SUBSET Nat, terminal : BOOLEAN]
    BY DEF MutInv, Types, Flushing
  <1>1. Endures /\ (flusher' = flusher \/ \E c \in Client : Flushes(c))
    BY EnduresStep
  <1>2. progress' \in [through : Nat, pending : SUBSET Nat, terminal : BOOLEAN]
    BY TypesStep DEF Types
  <1>3. CASE flusher' = flusher
    BY <1>0, <1>1, <1>2, <1>3, CoveringKept DEF Flushing
  <1>4. ASSUME NEW c \in Client, Flushes(c) PROVE Flushing'
    <2>0. Asks(c) /\ Covering(c) /\ flusher[c] \in Flushers
      BY <1>0, <1>4 DEF Asks, Flushing
    <2>1. UNCHANGED <<write, progress, gate>>
      BY <1>0, <2>0, AskFacts
    <2>2. ASSUME NEW f \in Flushers, flusher' = [flusher EXCEPT ![c] = f],
                 f.pc # "idle" => \A n \in f.must : n \in DOMAIN write /\ Visible(n) /\ write[n].seq <= f.cutoff,
                 f.pc = "ok" => f.cutoff <= progress.through
          PROVE  Flushing'
      <3>1. flusher' \in [Client -> Flushers] /\ flusher'[c] = f /\ \A d \in Client : d # c => flusher'[d] = flusher[d]
        BY <1>0, <2>2
      <3>2. Covering(c)'
        BY <2>1, <2>2, <3>1 DEF Covering, Visible
      <3>3. \A d \in Client : d # c => Covering(d)'
        BY <1>0, <1>1, <1>2, <3>1, CoveringKept
      <3>. QED
        BY <3>1, <3>2, <3>3 DEF Flushing
    <2>n. NoFlush \in Flushers /\ NoFlush.pc = "idle"
      BY DEF NoFlush, Flushers, Targets
    <2>3. CASE BeginFlush(c)
      <3>. DEFINE M == {n \in DOMAIN write : Visible(n)}
                  f == [NoFlush EXCEPT !.pc = "cutoff", !.cutoff = gate.through, !.must = M]
      <3>1. flusher' = [flusher EXCEPT ![c] = f]
        BY <2>3 DEF BeginFlush
      <3>2. M \in SUBSET Names /\ \A n \in M : n \in DOMAIN write /\ Visible(n) /\ write[n].seq <= gate.through
        BY <1>0, WriteTypes DEF Sequenced
      <3>. HIDE DEF M
      <3>3. f \in Flushers /\ f.pc = "cutoff" /\ f.cutoff = gate.through /\ f.must = M
        BY <1>0, <2>n, <3>2 DEF NoFlush, Flushers, Targets
      <3>. HIDE DEF f
      <3>. QED
        BY <2>2, <3>1, <3>2, <3>3
    <2>4. CASE FlushTargets(c)
      <3>. DEFINE S == {j \in Inode : runtime[j].up}
                  T == [i \in S |-> runtime[i].through + Len(runtime[i].entries)]
                  f == [flusher[c] EXCEPT !.pc = "lanes", !.targets = T]
      <3>1. flusher' = [flusher EXCEPT ![c] = f] /\ flusher[c].pc = "cutoff"
        BY <1>0, <2>4 DEF FlushTargets
      <3>2. T \in Targets
        <4>1. \A i \in Inode : runtime[i].through + Len(runtime[i].entries) \in Nat
          BY <1>0, LaneTypes
        <4>2. T \in [S -> Nat]
          BY <4>1
        <4>. HIDE DEF T
        <4>. QED
          BY <4>2 DEF Targets
      <3>. HIDE DEF T
      <3>3. f \in Flushers /\ f.pc = "lanes" /\ f.cutoff = flusher[c].cutoff /\ f.must = flusher[c].must
        BY <2>0, <3>2 DEF Flushers
      <3>. HIDE DEF f
      <3>. QED
        BY <2>0, <2>2, <3>1, <3>3 DEF Covering
    <2>5. CASE FlushLanes(c)
      <3>. DEFINE f == [flusher[c] EXCEPT !.pc = "progress", !.targets = <<>>]
      <3>1. flusher[c].pc = "lanes" /\ (flusher' = [flusher EXCEPT ![c] = NoFlush] \/ flusher' = [flusher EXCEPT ![c] = f])
        BY <1>0, <2>5 DEF FlushLanes
      <3>2. f \in Flushers /\ f.pc = "progress" /\ f.cutoff = flusher[c].cutoff /\ f.must = flusher[c].must
        BY <2>0 DEF Flushers, Targets
      <3>. HIDE DEF f
      <3>. QED
        BY <2>0, <2>2, <2>n, <3>1, <3>2 DEF Covering
    <2>6. CASE FlushProgress(c)
      <3>. DEFINE f == [flusher[c] EXCEPT !.pc = "ok"]
      <3>1. /\ flusher[c].pc = "progress"
            /\ \/ flusher' = [flusher EXCEPT ![c] = NoFlush]
               \/ flusher' = [flusher EXCEPT ![c] = f] /\ progress.through >= flusher[c].cutoff
        BY <1>0, <2>6 DEF FlushProgress
      <3>2. f \in Flushers /\ f.pc = "ok" /\ f.cutoff = flusher[c].cutoff /\ f.must = flusher[c].must /\ f.cutoff \in Nat
        BY <2>0 DEF Flushers
      <3>. HIDE DEF f
      <3>. QED
        BY <1>0, <2>0, <2>2, <2>n, <3>1, <3>2 DEF Covering
    <2>7. CASE FlushEnd(c)
      BY <2>2, <2>7, <2>n DEF FlushEnd
    <2>. QED
      BY <1>4, <2>3, <2>4, <2>5, <2>6, <2>7 DEF Flushes, FlushStep
  <1>. QED
    BY <1>1, <1>3, <1>4

-----------------------------------------------------------------------------
(* The attributes previewed *)

\* The attributes of i stay; what is acknowledged is what was, with its outcome.
LEMMA PreviewKept ==
    ASSUME Types, NEW i \in Inode, PreviewOf(i), attrs'[i] = attrs[i], DOMAIN write \subseteq DOMAIN write',
           \A m \in DOMAIN write : write'[m].inos = write[m].inos /\ (Visible(m) => write'[m].pc = "acked"),
           ~progress'.terminal =>
              /\ ~progress.terminal /\ (Ordered(i) => Ordered(i)')
              /\ \A m \in DOMAIN write' : write'[m].pc = "acked" => m \in DOMAIN write /\ Visible(m) /\ write'[m].result = write[m].result
    PROVE  PreviewOf(i)'
  <1>1. \A n \in Range(attrs[i]) : n \in DOMAIN write /\ i \in write[n].inos /\ Visible(n)
    BY DEF PreviewOf, On
  <1>2. \A n \in Range(attrs[i]) : n \in DOMAIN write' /\ i \in write'[n].inos /\ write'[n].pc = "acked"
    BY <1>1
  <1>3. ASSUME ~progress'.terminal
        PROVE  /\ \A n \in Range(attrs[i]) : write'[n].result = "none"
               /\ \A n \in DOMAIN write' : i \in write'[n].inos /\ write'[n].pc = "acked" /\ write'[n].result = "none" => n \in Range(attrs[i])
               /\ Ordered(i)'
    <2>1. ~progress.terminal /\ Ordered(i)'
      BY <1>3 DEF PreviewOf
    <2>2. \A m \in DOMAIN write' : write'[m].pc = "acked" => m \in DOMAIN write /\ Visible(m) /\ write'[m].result = write[m].result
      BY <1>3
    <2>3. \A n \in Range(attrs[i]) : write'[n].result = "none"
      BY <1>2, <2>1, <2>2 DEF PreviewOf
    <2>4. \A n \in DOMAIN write' : i \in write'[n].inos /\ write'[n].pc = "acked" /\ write'[n].result = "none" => n \in Range(attrs[i])
      BY <2>1, <2>2 DEF PreviewOf, On
    <2>. QED
      BY <2>1, <2>3, <2>4
  <1>. QED
    BY <1>2, <1>3 DEF PreviewOf, On, Visible

LEMMA OrderedKept ==
    ASSUME NEW i, attrs'[i] = attrs[i], runtime'[i].entries = runtime[i].entries, Ordered(i)
    PROVE  Ordered(i)'
  BY DEF Ordered

\* One write changes, and is neither acknowledged nor, if it was, given an outcome.
LEMMA PreviewedRewrites ==
    ASSUME Types, Previewed, Tracking, NEW n \in DOMAIN write, NEW pc, NEW seq, NEW held, NEW arrived, NEW cancelled, NEW result, NEW committed,
           Rewrites(n, pc, seq, held, arrived, cancelled, result, committed),
           write[n].pc = "acked" <=> pc = "acked", pc = "acked" => result = write[n].result,
           attrs' = attrs, progress' = progress, runtime' = runtime \/ (\E h : Reaps(h))
    PROVE  Previewed'
  <1>1. ASSUME NEW i \in Inode PROVE PreviewOf(i)'
    <2>1. PreviewOf(i) /\ runtime'[i].entries = runtime[i].entries
      BY TrackedReaped DEF Previewed, Tracking
    <2>2. Ordered(i) => Ordered(i)'
      BY <2>1, OrderedKept
    <2>3. \A m \in DOMAIN write : /\ write'[m].inos = write[m].inos /\ (Visible(m) => write'[m].pc = "acked")
                                  /\ write'[m].pc = "acked" => Visible(m) /\ write'[m].result = write[m].result
      BY DEF Rewrites, Visible
    <2>4. DOMAIN write' = DOMAIN write
      BY DEF Rewrites
    <2>. QED
      BY <2>1, <2>2, <2>3, <2>4, PreviewKept
  <1>. QED
    BY <1>1 DEF Previewed

LEMMA PreviewedUnchanged ==
    ASSUME Types, Previewed, write' = write, attrs' = attrs, progress'.terminal = progress.terminal \/ progress'.terminal,
           \A i \in Inode : runtime'[i].entries = runtime[i].entries
    PROVE  Previewed'
  <1>1. ASSUME NEW i \in Inode PROVE PreviewOf(i)'
    <2>1. PreviewOf(i) /\ (Ordered(i) => Ordered(i)')
      BY OrderedKept DEF Previewed
    <2>. QED
      BY <2>1, PreviewKept DEF Visible
  <1>. QED
    BY <1>1 DEF Previewed

LEMMA PreviewedStage ==
    ASSUME MutInv, NEW n \in DOMAIN write, Stage(n)
    PROVE  Previewed'
  <1>0. Types /\ Tracking /\ Previewed
    BY DEF MutInv
  <1>1. Becomes(n, "staged", write[n].held) /\ Appends(n) /\ write[n].pc = "prepared" /\ attrs' = attrs /\ progress' = progress
    BY <1>0, StageFacts DEF Stage
  <1>2. \A m \in DOMAIN write : /\ write'[m].inos = write[m].inos /\ (Visible(m) => write'[m].pc = "acked")
                                /\ write'[m].pc = "acked" => Visible(m) /\ write'[m].result = write[m].result
    BY <1>1 DEF Becomes, Rewrites, Visible
  <1>3. DOMAIN write' = DOMAIN write
    BY <1>1 DEF Becomes, Rewrites
  <1>4. ASSUME NEW i \in Inode PROVE PreviewOf(i)'
    <2>1. PreviewOf(i)
      BY <1>0 DEF Previewed
    <2>2. ASSUME Ordered(i) PROVE Ordered(i)'
      <3>1. CASE i \notin write[n].inos
        <4>1. runtime'[i] = runtime[i]
          BY <1>1, <3>1 DEF Appends
        <4>. QED
          BY <1>1, <2>2, <4>1, OrderedKept
      <3>2. CASE i \in write[n].inos
        <4>. DEFINE e == runtime[i].entries
        <4>1. runtime'[i].entries = Append(e, n) /\ e \in Seq(Names) /\ n \in Names /\ attrs[i] \in Seq(Names)
          BY <1>0, <1>1, <3>2, LaneTypes, WriteTypes DEF Appends
        <4>2. \A a \in DOMAIN attrs[i] : attrs[i][a] # n
          BY <1>1, <2>1, <4>1, RangeTypes DEF PreviewOf, Visible
        <4>3. /\ DOMAIN Append(e, n) = DOMAIN e \cup {Len(e) + 1} /\ Append(e, n)[Len(e) + 1] = n
              /\ \A k \in DOMAIN e : Append(e, n)[k] = e[k]
          BY <4>1, AppendFacts
        <4>4. \A a, b \in DOMAIN attrs[i], p, q \in DOMAIN e : a < b /\ e[p] = attrs[i][a] /\ e[q] = attrs[i][b] => p < q
          BY <2>2 DEF Ordered
        <4>. HIDE DEF e
        <4>5. \A a, b \in DOMAIN attrs[i], p, q \in DOMAIN Append(e, n) :
                a < b /\ Append(e, n)[p] = attrs[i][a] /\ Append(e, n)[q] = attrs[i][b] => p < q
          BY <4>2, <4>3, <4>4
        <4>. QED
          BY <1>1, <4>1, <4>5 DEF Ordered
      <3>. QED
        BY <3>1, <3>2
    <2>. QED
      BY <1>0, <1>1, <1>2, <1>3, <2>1, <2>2, PreviewKept
  <1>. QED
    BY <1>4 DEF Previewed

LEMMA PreviewedComplete ==
    ASSUME MutInv, NEW i \in Inode, Complete(i)
    PROVE  Previewed'
  <1>0. Types /\ Tracking /\ Previewed /\ write' = write /\ attrs' = attrs /\ progress' = progress /\ lane[i].at = "ok"
    BY DEF MutInv, Complete
  <1>1. CASE runtime[i].terminal
    BY <1>0, <1>1, CompleteFacts, PreviewedUnchanged
  <1>2. CASE ~runtime[i].terminal
    <2>1. Retires(i)
      BY <1>0, <1>2, CompleteFacts
    <2>2. ASSUME NEW j \in Inode PROVE PreviewOf(j)'
      <3>1. PreviewOf(j)
        BY <1>0 DEF Previewed
      <3>2. ASSUME Ordered(j) PROVE Ordered(j)'
        <4>1. CASE j # i
          BY <1>0, <2>1, <3>2, <4>1, OrderedKept DEF Retires
        <4>2. CASE j = i
          <5>. DEFINE e == runtime[i].entries
          <5>1. e \in Seq(Names) /\ e # <<>> /\ runtime'[i].entries = Tail(e)
            BY <1>0, <1>2, <2>1, LaneTypes DEF Tracking, Tracked, Retires
          <5>2. \A a, b \in DOMAIN attrs[i], p, q \in DOMAIN e : a < b /\ e[p] = attrs[i][a] /\ e[q] = attrs[i][b] => p < q
            BY <3>2, <4>2 DEF Ordered
          <5>. HIDE DEF e
          <5>3. Tail(e) \in Seq(Names) /\ \A l \in DOMAIN Tail(e) : l \in Nat /\ l + 1 \in DOMAIN e /\ Tail(e)[l] = e[l + 1]
            BY <5>1, TailFacts
          <5>4. ASSUME NEW a \in DOMAIN attrs[i], NEW b \in DOMAIN attrs[i], NEW p \in DOMAIN Tail(e), NEW q \in DOMAIN Tail(e),
                       a < b, Tail(e)[p] = attrs[i][a], Tail(e)[q] = attrs[i][b]
                PROVE  p < q
            <6>1. p + 1 < q + 1 /\ p \in Nat /\ q \in Nat
              BY <5>2, <5>3, <5>4
            <6>. QED
              BY <6>1
          <5>. QED
            BY <1>0, <4>2, <5>1, <5>4 DEF Ordered
        <4>. QED
          BY <4>1, <4>2
      <3>. QED
        BY <1>0, <3>1, <3>2, PreviewKept DEF Visible
    <2>. QED
      BY <2>2 DEF Previewed
  <1>. QED
    BY <1>1, <1>2

LEMMA PreviewedShow ==
    ASSUME MutInv, NEW n \in DOMAIN write, Show(n)
    PROVE  Previewed'
  <1>0. Types /\ Tracking /\ Previewed /\ Lives /\ Locking
    BY DEF MutInv
  <1>1. Becomes(n, "acked", write[n].held) /\ Reaps(n) /\ progress' = progress /\ write[n].pc = "published" /\ n \in Names
    BY <1>0, WriteFacts, WriteTypes DEF Show
  <1>2. write[n].held /\ write[n].result = "none"
    BY <1>0, <1>1 DEF Lives, Life
  <1>3. /\ DOMAIN write' = DOMAIN write /\ write'[n].pc = "acked" /\ write'[n].result = "none" /\ write'[n].inos = write[n].inos
        /\ \A m \in DOMAIN write : m # n => write'[m] = write[m]
    BY <1>1, <1>2 DEF Becomes, Rewrites
  <1>4. ASSUME NEW i \in Inode PROVE PreviewOf(i)'
    <2>. DEFINE A == attrs[i]
                e == runtime[i].entries
    <2>1. /\ PreviewOf(i) /\ runtime'[i].entries = e /\ A \in Seq(Names) /\ e \in Seq(Names)
          /\ attrs'[i] = IF i \in write[n].inos THEN Append(A, n) ELSE A
      BY <1>0, <1>1, LaneTypes, TrackedReaped, ShowAttrs DEF Previewed, Tracking
    <2>2. /\ Injective(A) /\ \A m \in Range(A) : m \in DOMAIN write /\ i \in write[m].inos /\ Visible(m)
      BY <2>1 DEF PreviewOf, On
    <2>3. n \notin Range(A) /\ \A a \in DOMAIN A : A[a] \in Range(A) /\ A[a] # n
      BY <1>1, <2>1, <2>2, RangeTypes DEF Visible
    <2>4. CASE i \in write[n].inos
      <3>. HIDE DEF A, e
      <3>0. attrs'[i] = Append(A, n)
        BY <2>1, <2>4
      <3>1. /\ Append(A, n) \in Seq(Names) /\ Range(Append(A, n)) = Range(A) \cup {n} /\ Injective(Append(A, n))
            /\ DOMAIN Append(A, n) = DOMAIN A \cup {Len(A) + 1} /\ Len(A) \in Nat /\ Append(A, n)[Len(A) + 1] = n
            /\ \A k \in DOMAIN A : Append(A, n)[k] = A[k]
        BY <1>1, <2>1, <2>2, <2>3, AppendFacts
      <3>2. \A m \in Range(A) \cup {n} : m \in DOMAIN write' /\ i \in write'[m].inos /\ write'[m].pc = "acked"
        BY <1>3, <2>2, <2>4 DEF Visible
      <3>3. ASSUME ~progress.terminal
            PROVE  /\ \A m \in Range(A) \cup {n} : write'[m].result = "none"
                   /\ \A m \in DOMAIN write' : i \in write'[m].inos /\ write'[m].pc = "acked" /\ write'[m].result = "none" => m \in Range(A) \cup {n}
                   /\ \A a, b \in DOMAIN Append(A, n), p, q \in DOMAIN e :
                         a < b /\ e[p] = Append(A, n)[a] /\ e[q] = Append(A, n)[b] => p < q
        <4>1. /\ \A m \in Range(A) : write[m].result = "none"
              /\ \A m \in DOMAIN write : i \in write[m].inos /\ Visible(m) /\ write[m].result = "none" => m \in Range(A)
              /\ \A a, b \in DOMAIN A, p, q \in DOMAIN e : a < b /\ e[p] = A[a] /\ e[q] = A[b] => p < q
          BY <2>1, <3>3 DEF PreviewOf, On, Ordered, A, e
        <4>2. \A m \in Range(A) \cup {n} : write'[m].result = "none"
          BY <1>3, <2>2, <2>3, <4>1
        <4>3. \A m \in DOMAIN write' : i \in write'[m].inos /\ write'[m].pc = "acked" /\ write'[m].result = "none" => m \in Range(A) \cup {n}
          BY <1>3, <4>1 DEF Visible
        <4>4. ASSUME NEW a \in DOMAIN Append(A, n), NEW b \in DOMAIN Append(A, n), NEW p \in DOMAIN e, NEW q \in DOMAIN e,
                     a < b, e[p] = Append(A, n)[a], e[q] = Append(A, n)[b]
              PROVE  p < q
          <5>1. a \in DOMAIN A
            BY <2>1, <3>1, <4>4
          <5>2. CASE b \in DOMAIN A
            BY <3>1, <4>1, <4>4, <5>1, <5>2
          <5>3. CASE b = Len(A) + 1
            <6>1. e[q] = n /\ e[p] = A[a] /\ A[a] # n
              BY <2>3, <3>1, <4>4, <5>1, <5>3
            <6>2. \A k \in DOMAIN e : write[e[k]].held => k = Len(e)
              BY <1>0 DEF Locking, e
            <6>3. q = Len(e) /\ p # q
              BY <1>2, <6>1, <6>2
            <6>. QED
              BY <2>1, <6>3
          <5>. QED
            BY <3>1, <5>2, <5>3
        <4>. QED
          BY <4>2, <4>3, <4>4
      <3>4. ~progress.terminal => Ordered(i)'
        BY <2>1, <3>0, <3>3 DEF Ordered, e
      <3>. QED
        BY <1>1, <2>1, <3>0, <3>1, <3>2, <3>3, <3>4 DEF PreviewOf, On, Visible
    <2>5. CASE i \notin write[n].inos
      <3>1. attrs'[i] = attrs[i] /\ (Ordered(i) => Ordered(i)')
        BY <2>1, <2>5, OrderedKept
      <3>2. \A m \in Range(A) : m \in DOMAIN write' /\ i \in write'[m].inos /\ write'[m].pc = "acked" /\ write'[m].result = write[m].result
        BY <1>3, <2>2, <2>3 DEF Visible
      <3>3. \A m \in DOMAIN write' : i \in write'[m].inos /\ write'[m].pc = "acked" => m \in On(i) /\ Visible(m) /\ write'[m].result = write[m].result
        BY <1>3, <2>5 DEF On, Visible
      <3>. QED
        BY <1>1, <2>1, <3>1, <3>2, <3>3 DEF PreviewOf, On, Visible
    <2>. QED
      BY <2>4, <2>5
  <1>. QED
    BY <1>4 DEF Previewed

LEMMA PreviewedRecord ==
    ASSUME MutInv, NEW i \in Inode, Concludes(i, "ok"), Records(i, "ok")
    PROVE  Previewed'
  <1>0. /\ Types /\ Tracking /\ Previewed /\ progress \in [through : Nat, pending : SUBSET Nat, terminal : BOOLEAN]
        /\ IsFiniteSet(progress.pending)
    BY DEF MutInv, Types
  <1>1. PICK n : n = lane[i].job
    OBVIOUS
  <1>2. /\ n \in DOMAIN write /\ write[n].result = "none" /\ Visible(n) /\ lane[i].at = "record" /\ runtime' = runtime
        /\ Rewrites(n, write[n].pc, write[n].seq, FALSE, write[n].arrived, write[n].cancelled, Outcome(n, "ok"), write[n].committed)
    BY <1>1, DispatchFacts DEF Concludes, Records, Settles, Applying
  <1>3. /\ DOMAIN write' = DOMAIN write /\ write'[n].result = "ok" /\ write'[n].inos = write[n].inos /\ write'[n].pc = "acked"
        /\ \A m \in DOMAIN write : m # n => write'[m] = write[m]
    BY <1>2 DEF Rewrites, Outcome, Visible
  <1>4. ~progress.terminal /\ ~progress'.terminal
    <2>1. write[n].seq \in Nat
      BY <1>0, <1>2, WriteTypes
    <2>. QED
      BY <1>0, <1>1, <2>1, AdvancedFacts DEF Records
  <1>5. ASSUME NEW j \in Inode PROVE PreviewOf(j)'
    <2>. DEFINE A == attrs[j]
                e == runtime[j].entries
    <2>1. /\ PreviewOf(j) /\ A \in Seq(Names) /\ e \in Seq(Names)
          /\ attrs'[j] = IF j \in write[n].inos THEN Tail(A) ELSE A
      BY <1>0, <1>1, LaneTypes, RecordAttrs DEF Previewed
    <2>2. /\ Injective(A) /\ Ordered(j)
          /\ \A m \in Range(A) : m \in DOMAIN write /\ j \in write[m].inos /\ Visible(m) /\ write[m].result = "none"
          /\ \A m \in DOMAIN write : j \in write[m].inos /\ Visible(m) /\ write[m].result = "none" => m \in Range(A)
      BY <1>4, <2>1 DEF PreviewOf, On
    <2>3. CASE j \in write[n].inos
      <3>0. attrs'[j] = Tail(A)
        BY <2>1, <2>3
      <3>1. A # <<>> /\ Head(A) = n
        BY <1>1, <1>2, <1>4, <2>1, <2>3, RecordHead, TailFacts
      <3>2. \A a, b \in DOMAIN A, p, q \in DOMAIN e : a < b /\ e[p] = A[a] /\ e[q] = A[b] => p < q
        BY <2>2 DEF Ordered
      <3>. HIDE DEF A, e
      <3>3. /\ Tail(A) \in Seq(Names) /\ Injective(Tail(A)) /\ n \notin Range(Tail(A)) /\ Range(A) = {n} \cup Range(Tail(A))
            /\ \A k \in DOMAIN Tail(A) : k \in Nat /\ k + 1 \in DOMAIN A /\ Tail(A)[k] = A[k + 1]
        BY <2>1, <2>2, <3>1, TailFacts
      <3>4. \A m \in Range(Tail(A)) : m \in DOMAIN write' /\ j \in write'[m].inos /\ write'[m].pc = "acked" /\ write'[m].result = "none"
        BY <1>3, <2>2, <3>3 DEF Visible
      <3>5. \A m \in DOMAIN write' : j \in write'[m].inos /\ write'[m].pc = "acked" /\ write'[m].result = "none" => m \in Range(Tail(A))
        BY <1>3, <2>2, <3>3 DEF Visible
      <3>6. ASSUME NEW a \in DOMAIN Tail(A), NEW b \in DOMAIN Tail(A), NEW p \in DOMAIN e, NEW q \in DOMAIN e,
                   a < b, e[p] = Tail(A)[a], e[q] = Tail(A)[b]
            PROVE  p < q
        <4>1. a + 1 \in DOMAIN A /\ b + 1 \in DOMAIN A /\ a + 1 < b + 1 /\ e[p] = A[a + 1] /\ e[q] = A[b + 1]
          BY <3>3, <3>6
        <4>. QED
          BY <3>2, <4>1
      <3>7. Ordered(j)'
        BY <1>2, <3>0, <3>6 DEF Ordered, e
      <3>. QED
        BY <3>0, <3>3, <3>4, <3>5, <3>7 DEF PreviewOf, On, Visible
    <2>4. CASE j \notin write[n].inos
      <3>1. attrs'[j] = attrs[j] /\ Ordered(j)'
        BY <1>2, <2>1, <2>2, <2>4, OrderedKept
      <3>2. n \notin Range(A)
        BY <2>2, <2>4
      <3>3. \A m \in Range(A) : m \in DOMAIN write' /\ j \in write'[m].inos /\ write'[m].pc = "acked" /\ write'[m].result = "none"
        BY <1>3, <2>2, <3>2 DEF Visible
      <3>4. \A m \in DOMAIN write' : j \in write'[m].inos /\ write'[m].pc = "acked" /\ write'[m].result = "none" => m \in Range(A)
        BY <1>3, <2>2, <2>4 DEF Visible
      <3>. QED
        BY <2>2, <3>1, <3>3, <3>4 DEF PreviewOf, On, Visible
    <2>. QED
      BY <2>3, <2>4
  <1>. QED
    BY <1>5 DEF Previewed

LEMMA PreviewedConclude ==
    ASSUME MutInv, NEW i \in Inode, NEW r \in {"ok", "err"}, Concludes(i, r), Poisons(i, r) \/ Leaves(i, r)
    PROVE  Previewed'
  <1>0. /\ Types /\ Tracking /\ Previewed /\ progress \in [through : Nat, pending : SUBSET Nat, terminal : BOOLEAN]
    BY DEF MutInv, Types
  <1>1. PICK n : n = lane[i].job
    OBVIOUS
  <1>2. /\ n \in DOMAIN write /\ runtime' = runtime /\ attrs' = attrs
        /\ Rewrites(n, write[n].pc, write[n].seq, FALSE, write[n].arrived, write[n].cancelled, Outcome(n, r), write[n].committed)
    BY <1>1, DispatchFacts DEF Concludes, Poisons, Leaves, Settles
  <1>3. ~progress'.terminal => ~progress.terminal /\ ~Visible(n)
    BY <1>0, <1>1 DEF Poisons, Leaves
  <1>4. /\ DOMAIN write' = DOMAIN write
        /\ \A m \in DOMAIN write : write'[m].inos = write[m].inos /\ write'[m].pc = write[m].pc /\ (m # n => write'[m].result = write[m].result)
    BY <1>2 DEF Rewrites
  <1>5. ASSUME NEW j \in Inode PROVE PreviewOf(j)'
    <2>1. PreviewOf(j) /\ (Ordered(j) => Ordered(j)')
      BY <1>0, <1>2, OrderedKept DEF Previewed
    <2>2. ~progress'.terminal => \A m \in DOMAIN write' : write'[m].pc = "acked" => m \in DOMAIN write /\ Visible(m) /\ write'[m].result = write[m].result
      BY <1>3, <1>4 DEF Visible
    <2>. QED
      BY <1>0, <1>2, <1>3, <1>4, <2>1, <2>2, PreviewKept DEF Visible
  <1>. QED
    BY <1>5 DEF Previewed

LEMMA PreviewedStep ==
    ASSUME MutInv, [Next]_vars
    PROVE  Previewed'
  <1>0. /\ Types /\ Tracking /\ Lives /\ Previewed /\ progress \in [through : Nat, pending : SUBSET Nat, terminal : BOOLEAN]
    BY DEF MutInv, Types
  <1>1. ASSUME NEW inos \in (SUBSET Inode) \ {{}}, NEW cells \in Extents, Begin(inos, cells) PROVE Previewed'
    <2>1. PICK n : Begun(n, inos) /\ Registers(inos) /\ progress' = progress /\ attrs' = attrs
      BY <1>0, <1>1, BeginFacts DEF Begin
    <2>2. ASSUME NEW i \in Inode PROVE PreviewOf(i)'
      <3>1. PreviewOf(i) /\ runtime'[i].entries = runtime[i].entries
        BY <1>0, <2>1 DEF Previewed, Registers
      <3>2. Ordered(i) => Ordered(i)'
        BY <2>1, <3>1, OrderedKept
      <3>3. \A m \in DOMAIN write : write'[m] = write[m]
        BY <2>1 DEF Begun
      <3>4. \A m \in DOMAIN write' : write'[m].pc = "acked" => m \in DOMAIN write
        BY <2>1 DEF Begun
      <3>5. DOMAIN write \subseteq DOMAIN write'
        BY <2>1 DEF Begun
      <3>. QED
        BY <1>0, <2>1, <3>1, <3>2, <3>3, <3>4, <3>5, PreviewKept DEF Visible
    <2>. QED
      BY <2>2 DEF Previewed
  <1>2. ASSUME NEW n \in DOMAIN write, WriteMove(n) PROVE Previewed'
    <2>1. CASE Reserve(n)
      <3>1. Becomes(n, "reserved", write[n].held) /\ UNCHANGED <<attrs, progress, runtime>> /\ write[n].pc = "waiting"
        BY <1>0, <2>1, WriteFacts DEF Reserve
      <3>. QED
        BY <1>0, <3>1, PreviewedRewrites DEF Becomes
    <2>2. CASE Publish(n)
      <3>1. PICK pc, seq, held :
              /\ Rewrites(n, pc, seq, held, write[n].arrived, write[n].cancelled, write[n].result, write[n].committed)
              /\ pc # "acked" /\ write[n].pc # "acked" /\ UNCHANGED <<attrs, progress, runtime>>
        BY <1>0, <2>2, PublishFacts DEF Publish, Becomes
      <3>. QED
        BY <1>0, <3>1, PreviewedRewrites
    <2>4. CASE Cancel(n)
      <3>1. PICK pc, held, cancelled, result :
              /\ Rewrites(n, pc, write[n].seq, held, write[n].arrived, cancelled, result, write[n].committed)
              /\ pc # "acked" /\ write[n].pc # "acked" /\ UNCHANGED <<attrs, progress, runtime>>
        BY <1>0, <2>4, WriteFacts DEF Cancel
      <3>. QED
        BY <1>0, <3>1, PreviewedRewrites
    <2>5. CASE Aborts(n)
      <3>1. PICK pc, held, cancelled, result :
              /\ Rewrites(n, pc, write[n].seq, held, write[n].arrived, cancelled, result, write[n].committed)
              /\ pc # "acked" /\ write[n].pc # "acked" /\ UNCHANGED <<attrs, progress>> /\ Reaps(n)
        BY <1>0, <2>5, AbortFacts DEF Aborts, Abort, Becomes
      <3>. QED
        BY <1>0, <3>1, PreviewedRewrites
    <2>6. CASE Prepare(n)
      <3>1. PICK pc, held, cancelled, result :
              /\ Rewrites(n, pc, write[n].seq, held, write[n].arrived, cancelled, result, write[n].committed)
              /\ pc # "acked" /\ write[n].pc # "acked" /\ UNCHANGED <<attrs, progress, runtime>>
        BY <1>0, <2>6, PrepareFacts DEF Prepare, Becomes
      <3>. QED
        BY <1>0, <3>1, PreviewedRewrites
    <2>. QED
      BY <1>2, <2>1, <2>2, <2>4, <2>5, <2>6, PreviewedStage, PreviewedShow DEF WriteMove
  <1>3. ASSUME NEW i \in Inode, JobMove(i) PROVE Previewed'
    <2>0. PICK n : n = lane[i].job
      OBVIOUS
    <2>1. CASE Retire(i) \/ (\E step \in Steps : Proceeds(i, step))
      <3>1. UNCHANGED <<write, attrs, progress, runtime>>
        BY <2>1 DEF Retire, Proceeds
      <3>. QED
        BY <1>0, <3>1, PreviewedUnchanged
    <2>2. CASE Fail(i)
      <3>1. UNCHANGED <<write, attrs>> /\ progress'.terminal
        BY <1>0, <2>2 DEF Fail
      <3>. QED
        BY <1>0, <2>2, <3>1, FailFacts, PreviewedUnchanged
    <2>3. CASE Arrive(i)
      <3>1. PICK h : h = Head(lane[i].queue)
        OBVIOUS
      <3>2. /\ h \in DOMAIN write /\ UNCHANGED <<attrs, progress, runtime>>
            /\ \/ write' = write
               \/ Rewrites(h, write[h].pc, write[h].seq, write[h].held, write[h].arrived + 1, write[h].cancelled, write[h].result, write[h].committed)
        BY <1>0, <2>3, <3>1, ArriveFacts DEF Arrive
      <3>. QED
        BY <1>0, <3>2, PreviewedRewrites, PreviewedUnchanged
    <2>4. ASSUME NEW r \in {"ok", "err"}, Concludes(i, r), Poisons(i, r) \/ Records(i, r) \/ Leaves(i, r) PROVE Previewed'
      <3>1. Records(i, r) => r = "ok"
        BY DEF Records
      <3>. QED
        BY <2>4, <3>1, PreviewedRecord, PreviewedConclude
    <2>5. CASE Submit(i)
      <3>1. n \in DOMAIN write /\ Becomes(n, write[n].pc, FALSE) /\ UNCHANGED <<attrs, progress, runtime>>
        BY <1>0, <2>0, <2>5, SubmitFacts DEF Submit
      <3>. QED
        BY <1>0, <3>1, PreviewedRewrites DEF Becomes
    <2>6. CASE Commit(i)
      <3>1. /\ n \in DOMAIN write /\ UNCHANGED <<attrs, progress, runtime>>
            /\ Rewrites(n, write[n].pc, write[n].seq, write[n].held, write[n].arrived, write[n].cancelled, write[n].result, TRUE)
        BY <1>0, <2>0, <2>6, CommitFacts DEF Commit
      <3>. QED
        BY <1>0, <3>1, PreviewedRewrites
    <2>. QED
      BY <1>3, <2>1, <2>2, <2>3, <2>4, <2>5, <2>6, PreviewedComplete DEF JobMove, LaneMove
  <1>4. ASSUME NEW c \in Client, Asks(c) \/ Punch(c) PROVE Previewed'
    <2>1. UNCHANGED <<write, attrs, progress>> /\ (runtime' = runtime \/ Reaps(c))
      BY <1>0, <1>4, AskFacts DEF Punch, pipeline
    <2>2. \A i \in Inode : runtime'[i].entries = runtime[i].entries
      BY <1>0, <2>1, TrackedReaped DEF Tracking
    <2>. QED
      BY <1>0, <2>1, <2>2, PreviewedUnchanged
  <1>5. CASE Stop \/ UNCHANGED vars
    BY <1>0, <1>5, PreviewedUnchanged DEF Stop, vars
  <1>. QED
    BY <1>1, <1>2, <1>3, <1>4, <1>5, Cases

-----------------------------------------------------------------------------
(* The fences *)

\* No write begins to prepare.
Calm == \A m \in DOMAIN write' : Active(m)' => m \in DOMAIN write /\ Active(m) /\ write'[m].inos = write[m].inos

\* Nothing is added to an inode.
Shrinks(i) ==
    /\ runtime'[i].through + Len(runtime'[i].entries) <= runtime[i].through + Len(runtime[i].entries)
    /\ Emptied(i) => Emptied(i)'

LEMMA CalmRewrites ==
    ASSUME NEW n \in DOMAIN write, NEW pc, NEW seq, NEW held, NEW arrived, NEW cancelled, NEW result, NEW committed,
           Rewrites(n, pc, seq, held, arrived, cancelled, result, committed),
           pc \in {"waiting", "reserved", "prepared", "staged"} => Active(n)
    PROVE  Calm
  BY DEF Rewrites, Calm, Active

\* A fence that stays.
LEMMA FenceKept ==
    ASSUME Types, Types', NEW c \in Client, FenceOf(c), fence'[c] = fence[c],
           fence[c].pc \in {"drain", "lane", "held"} =>
              \A m \in DOMAIN write' : Active(m)' /\ fence[c].ino \in write'[m].inos => m \in On(fence[c].ino) /\ Active(m),
           \A i \in Inode : Shrinks(i) \/ \E m \in On(i) : Active(m)
    PROVE  FenceOf(c)'
  <1>1. PICK i : i = fence[c].ino
    OBVIOUS
  <1>2. CASE fence[c].pc \notin {"drain", "lane", "held"}
    BY <1>2 DEF FenceOf
  <1>3. CASE fence[c].pc \in {"drain", "lane", "held"}
    <2>1. i \in Inode /\ \A m \in On(i) : ~Active(m)
      BY <1>1, <1>3 DEF FenceOf
    <2>2. \A m \in DOMAIN write' : i \in write'[m].inos => ~Active(m)'
      BY <1>1, <1>3, <2>1
    <2>3. Shrinks(i)
      BY <2>1
    <2>4. fence[c].pc = "lane" => fence[c].target >= runtime'[i].through + Len(runtime'[i].entries)
      <3>1. fence[c].target \in Nat
        BY DEF Types, FenceTypes
      <3>2. /\ runtime[i].through + Len(runtime[i].entries) \in Nat
            /\ runtime'[i].through + Len(runtime'[i].entries) \in Nat
        <4>1. runtime[i].through \in Nat /\ runtime[i].entries \in Seq(Names)
          BY <2>1, LaneTypes
        <4>2. runtime'[i] \in Runtimes
          BY <2>1 DEF Types
        <4>3. runtime'[i].through \in Nat /\ runtime'[i].entries \in Seq(Names)
          BY <4>2 DEF Runtimes
        <4>4. Len(runtime[i].entries) \in Nat /\ Len(runtime'[i].entries) \in Nat
          BY <4>1, <4>3, LenProperties
        <4>. QED
          BY <4>1, <4>3, <4>4
      <3>. QED
        BY <1>1, <2>3, <3>1, <3>2 DEF FenceOf, Shrinks
    <2>5. fence[c].pc = "held" => Emptied(i)'
      BY <1>1, <2>3 DEF FenceOf, Shrinks
    <2>. QED
      BY <1>1, <1>3, <2>1, <2>2, <2>4, <2>5 DEF FenceOf, On, Emptied
  <1>. QED
    BY <1>2, <1>3

LEMMA FencingKept ==
    ASSUME Types, Types', Fencing, Calm, fence' = fence, \A i \in Inode : Shrinks(i) \/ \E m \in On(i) : Active(m)
    PROVE  Fencing'
  <1>1. ASSUME NEW c \in Client PROVE FenceOf(c)'
    BY FenceKept DEF Fencing, Calm, On
  <1>. QED
    BY <1>1 DEF Fencing

\* Runtimes that stay, or go, and lanes that keep their jobs.
LEMMA ShrinksReaped ==
    ASSUME Types, Tracking, NEW i \in Inode, runtime'[i] = runtime[i] \/ (\E h : Reaps(h)),
           lane'[i].job = lane[i].job /\ lane'[i].queue = lane[i].queue
    PROVE  Shrinks(i)
  <1>1. runtime[i].through \in Nat /\ runtime[i].entries \in Seq(Names)
    BY LaneTypes
  <1>2. CASE runtime'[i] = runtime[i]
    BY <1>1, <1>2 DEF Shrinks, Emptied
  <1>3. CASE runtime'[i] = NoRuntime
    <2>1. runtime'[i].through = 0 /\ runtime'[i].entries = <<>>
      BY <1>3 DEF NoRuntime
    <2>. QED
      BY <1>1, <2>1 DEF Shrinks, Emptied
  <1>. QED
    BY <1>2, <1>3 DEF Reaps

LEMMA ShrinksEnd ==
    ASSUME MutInv, NEW i \in Inode, Complete(i) \/ Fail(i), NEW j \in Inode
    PROVE  Shrinks(j)
  <1>0. Types /\ Tracking /\ lane[i].at # "idle" /\ runtime[j].through \in Nat /\ runtime[j].entries \in Seq(Names)
    BY LaneTypes DEF MutInv, Complete, Fail
  <1>1. Ends(i) /\ lane[i].job # Nobody
    BY <1>0, CompleteFacts, FailFacts, JobFacts
  <1>2. Emptied(j) => j # i
    BY <1>1 DEF Emptied
  <1>3. CASE runtime'[j].entries = runtime[j].entries /\ runtime'[j].through = runtime[j].through
    BY <1>0, <1>1, <1>2, <1>3 DEF Shrinks, Emptied, Ends
  <1>4. CASE j = i /\ Retires(i) /\ ~runtime[i].terminal
    <2>1. runtime[i].entries # <<>> /\ runtime[i].entries \in Seq(Names)
      BY <1>0, <1>1, <1>4 DEF Tracking, Tracked
    <2>2. /\ runtime'[i].entries = Tail(runtime[i].entries) /\ Len(Tail(runtime[i].entries)) = Len(runtime[i].entries) - 1
          /\ Len(runtime[i].entries) \in Nat
      BY <1>4, <2>1, TailFacts, LenProperties DEF Retires
    <2>3. runtime'[i].through = runtime[i].through + 1 \/ runtime'[i] = NoRuntime
      BY <1>4 DEF Retires
    <2>4. NoRuntime.through = 0
      BY DEF NoRuntime
    <2>5. runtime'[i].through + Len(runtime'[i].entries) <= runtime[i].through + Len(runtime[i].entries)
      <3>1. runtime'[i].through = runtime[i].through + 1 \/ runtime'[i].through = 0
        BY <2>3, <2>4
      <3>2. PICK l : l = Len(runtime[i].entries)
        OBVIOUS
      <3>3. l \in Nat /\ Len(runtime'[i].entries) = l - 1 /\ runtime[i].through \in Nat
        BY <1>0, <1>4, <2>2, <3>2
      <3>. QED
        BY <3>1, <3>2, <3>3
    <2>. QED
      BY <1>2, <1>4, <2>5 DEF Shrinks
  <1>5. CASE Fail(i)
    BY <1>0, <1>3, <1>5, FailFacts
  <1>6. CASE Complete(i)
    <2>1. CASE runtime[i].terminal
      BY <1>0, <1>3, <1>6, <2>1, CompleteFacts
    <2>2. CASE ~runtime[i].terminal
      <3>1. Retires(i)
        BY <1>0, <1>6, <2>2, CompleteFacts
      <3>. QED
        BY <1>3, <1>4, <2>2, <3>1 DEF Retires
    <2>. QED
      BY <2>1, <2>2
  <1>. QED
    BY <1>5, <1>6

LEMMA FencingAsks ==
    ASSUME MutInv, Types', NEW a \in Client, Asks(a)
    PROVE  Fencing'
  <1>0. Types /\ Tracking /\ Fencing /\ UNCHANGED <<write, lane>> /\ Reaps(a)
    BY AskFacts DEF MutInv
  <1>1. \A i \in Inode : Shrinks(i)
    BY <1>0, ShrinksReaped
  <1>2. ASSUME NEW c \in Client, fence'[c] = fence[c] PROVE FenceOf(c)'
    BY <1>0, <1>1, <1>2, FenceKept DEF Fencing, On, Active
  <1>3. fence \in [Client -> FenceTypes] /\ fence[a] \in FenceTypes
    BY <1>0 DEF Types
  <1>4. PICK i : i = fence[a].ino
    OBVIOUS
  <1>5. FenceOf(a) /\ fence[a].target \in Nat
    BY <1>0, <1>3 DEF Fencing, FenceTypes
  <1>6. ASSUME fence'[a].pc = "idle" PROVE FenceOf(a)'
    BY <1>6 DEF FenceOf
  <1>7. NoFence.pc = "idle"
    BY DEF NoFence
  <1>8. ASSUME FenceOf(a)', \A c \in Client : c # a => fence'[c] = fence[c] PROVE Fencing'
    BY <1>2, <1>8 DEF Fencing
  <1>9. CASE Reads(a) \/ Flushes(a)
    BY <1>0, <1>2, <1>9, AskFacts DEF Fencing
  <1>10. ASSUME NEW j \in Inode, FenceClose(a, j) PROVE Fencing'
    <2>1. fence' = [fence EXCEPT ![a] = [NoFence EXCEPT !.pc = "close", !.ino = j]]
      BY <1>10 DEF FenceClose
    <2>2. fence'[a] = [NoFence EXCEPT !.pc = "close", !.ino = j] /\ \A c \in Client : c # a => fence'[c] = fence[c]
      BY <1>3, <2>1
    <2>3. fence'[a].pc = "close" /\ fence'[a].ino = j
      BY <2>2 DEF NoFence
    <2>4. FenceOf(a)'
      BY <2>3 DEF FenceOf
    <2>. QED
      BY <1>8, <2>2, <2>4
  <1>11. CASE FenceQuiet(a)
    <2>1. fence' = [fence EXCEPT ![a] = IF gate.terminal THEN NoFence
                                        ELSE [fence[a] EXCEPT !.pc = "drain", !.cutoff = gate.through]]
      BY <1>3, <1>11 DEF FenceQuiet
    <2>2. /\ fence'[a] = IF gate.terminal THEN NoFence ELSE [fence[a] EXCEPT !.pc = "drain", !.cutoff = gate.through]
          /\ \A c \in Client : c # a => fence'[c] = fence[c]
      BY <1>3, <2>1
    <2>3. CASE gate.terminal
      BY <1>6, <1>7, <1>8, <2>2, <2>3
    <2>4. CASE ~gate.terminal
      <3>1. fence'[a].pc = "drain" /\ fence'[a].ino = i
        BY <1>3, <1>4, <2>2, <2>4 DEF FenceTypes
      <3>2. fence[a].pc = "close" /\ \A m \in On(i) : ~Active(m)
        BY <1>4, <1>11, <2>4 DEF FenceQuiet
      <3>3. i \in Inode
        BY <1>4, <1>5, <3>2 DEF FenceOf
      <3>4. FenceOf(a)'
        BY <1>0, <3>1, <3>2, <3>3 DEF FenceOf, On, Active
      <3>. QED
        BY <1>8, <2>2, <3>4
    <2>. QED
      BY <2>3, <2>4
  <1>12. CASE FenceDrain(a)
    <2>. DEFINE rt == runtime[fence[a].ino]
                wrong == progress.terminal /\ fence[a].cutoff > 0
    <2>1. fence' = [fence EXCEPT ![a] = IF wrong THEN NoFence ELSE
                       [fence[a] EXCEPT !.pc = IF rt.up THEN "lane" ELSE "held", !.target = rt.through + Len(rt.entries)]]
      BY <1>3, <1>12 DEF FenceDrain
    <2>2. /\ fence'[a] = IF wrong THEN NoFence ELSE
                       [fence[a] EXCEPT !.pc = IF rt.up THEN "lane" ELSE "held", !.target = rt.through + Len(rt.entries)]
          /\ \A c \in Client : c # a => fence'[c] = fence[c]
      BY <1>3, <2>1
    <2>3. CASE wrong
      BY <1>6, <1>7, <1>8, <2>2, <2>3
    <2>4. CASE ~wrong
      <3>1. fence'[a].pc = (IF rt.up THEN "lane" ELSE "held") /\ fence'[a].ino = i /\ fence'[a].target = rt.through + Len(rt.entries)
        BY <1>3, <1>4, <2>2, <2>4 DEF FenceTypes
      <3>2. fence[a].pc = "drain" /\ runtime' = runtime
        BY <1>12 DEF FenceDrain
      <3>3. i \in Inode /\ \A m \in On(i) : ~Active(m)
        BY <1>4, <1>5, <3>2 DEF FenceOf
      <3>4. ASSUME ~rt.up PROVE Emptied(i)
        <4>1. runtime[i] = NoRuntime /\ Tracked(i)
          BY <1>0, <1>4, <3>3, <3>4 DEF Tracking, Tracked
        <4>2. NoRuntime.entries = <<>> /\ ~NoRuntime.terminal
          BY DEF NoRuntime
        <4>3. lane[i].job = Nobody
          BY <4>1, <4>2 DEF Tracked
        <4>. QED
          BY <4>1, <4>2, <4>3 DEF Tracked, Emptied
      <3>5. rt.through + Len(rt.entries) \in Nat
        <4>1. rt.through \in Nat /\ Len(rt.entries) \in Nat
          BY <1>0, <1>4, <3>3, LaneTypes, LenProperties
        <4>. QED
          BY <4>1
      <3>6. FenceOf(a)'
        BY <1>0, <1>4, <3>1, <3>2, <3>3, <3>4, <3>5 DEF FenceOf, On, Active, Emptied
      <3>. QED
        BY <1>8, <2>2, <3>6
    <2>. QED
      BY <2>3, <2>4
  <1>13. CASE FenceLane(a)
    <2>1. fence' = [fence EXCEPT ![a] = IF LaneError(i) THEN NoFence ELSE [fence[a] EXCEPT !.pc = "held"]]
      BY <1>3, <1>4, <1>13 DEF FenceLane
    <2>2. /\ fence'[a] = IF LaneError(i) THEN NoFence ELSE [fence[a] EXCEPT !.pc = "held"]
          /\ \A c \in Client : c # a => fence'[c] = fence[c]
      BY <1>3, <2>1
    <2>3. CASE LaneError(i)
      BY <1>6, <1>7, <1>8, <2>2, <2>3
    <2>4. CASE ~LaneError(i)
      <3>1. fence'[a].pc = "held" /\ fence'[a].ino = i
        BY <1>3, <1>4, <2>2, <2>4 DEF FenceTypes
      <3>2. fence[a].pc = "lane" /\ ~(runtime[i].through < fence[a].target)
        BY <1>4, <1>13, <2>4 DEF FenceLane, Unapplied
      <3>3. /\ i \in Inode /\ \A m \in On(i) : ~Active(m)
            /\ fence[a].target >= runtime[i].through + Len(runtime[i].entries)
        BY <1>4, <1>5, <3>2 DEF FenceOf
      <3>4. runtime[i].entries = <<>> /\ ~runtime[i].terminal /\ Tracked(i)
        <4>1. runtime[i].through \in Nat /\ runtime[i].entries \in Seq(Names) /\ Len(runtime[i].entries) \in Nat
          BY <1>0, <3>3, LaneTypes, LenProperties
        <4>2. Len(runtime[i].entries) = 0
          BY <1>5, <3>2, <3>3, <4>1
        <4>. QED
          BY <1>0, <2>4, <3>3, <4>1, <4>2, EmptySeq DEF LaneError, Tracking
      <3>5. lane[i].job = Nobody
        BY <3>4 DEF Tracked
      <3>6. Emptied(i)
        BY <3>4, <3>5 DEF Tracked, Emptied
      <3>7. Emptied(i)'
        BY <1>1, <3>3, <3>6 DEF Shrinks
      <3>8. FenceOf(a)'
        BY <1>0, <3>1, <3>3, <3>7 DEF FenceOf, On, Active, Emptied
      <3>. QED
        BY <1>8, <2>2, <3>8
    <2>. QED
      BY <2>3, <2>4
  <1>. QED
    BY <1>9, <1>10, <1>11, <1>12, <1>13 DEF Asks, Fences

LEMMA FencingStep ==
    ASSUME MutInv, [Next]_vars
    PROVE  Fencing'
  <1>0. Types /\ Types' /\ Tracking /\ Lives /\ Previewed /\ Fencing
    BY TypesStep DEF MutInv
  <1>s. ASSUME runtime' = runtime \/ (\E h : Reaps(h)),
               \A i \in Inode : lane'[i].job = lane[i].job /\ lane'[i].queue = lane[i].queue
        PROVE  \A i \in Inode : Shrinks(i)
    BY <1>0, <1>s, ShrinksReaped
  <1>1. ASSUME NEW inos \in (SUBSET Inode) \ {{}}, NEW cells \in Extents, Begin(inos, cells) PROVE Fencing'
    <2>1. PICK n : Begun(n, inos) /\ Registers(inos) /\ UNCHANGED <<lane, fence>> /\ \A c \in Client : fence[c].ino \notin inos
      BY <1>0, <1>1, BeginFacts DEF Begin, clients
    <2>2. ASSUME NEW i \in Inode PROVE Shrinks(i)
      <3>1. runtime'[i].entries = runtime[i].entries /\ runtime'[i].through = runtime[i].through /\ lane'[i] = lane[i]
        BY <2>1 DEF Registers
      <3>2. runtime[i].through \in Nat /\ Len(runtime[i].entries) \in Nat
        BY <1>0, LaneTypes, LenProperties
      <3>3. runtime'[i].through + Len(runtime'[i].entries) <= runtime[i].through + Len(runtime[i].entries)
        BY <3>1, <3>2
      <3>. QED
        BY <3>1, <3>3 DEF Shrinks, Emptied
    <2>3. ASSUME NEW c \in Client PROVE FenceOf(c)'
      <3>1. \A m \in DOMAIN write' : Active(m)' /\ fence[c].ino \in write'[m].inos => m \in On(fence[c].ino) /\ Active(m)
        BY <2>1 DEF Begun, On, Active
      <3>. QED
        BY <1>0, <2>1, <2>2, <3>1, FenceKept DEF Fencing
    <2>. QED
      BY <2>3 DEF Fencing
  <1>2. ASSUME NEW n \in DOMAIN write, WriteMove(n) PROVE Fencing'
    <2>s. ASSUME lane' = lane, runtime' = runtime \/ (\E h : Reaps(h)) PROVE \A i \in Inode : Shrinks(i)
      BY <1>s, <2>s
    <2>1. CASE Stage(n)
      <3>1. Becomes(n, "staged", write[n].held) /\ Appends(n) /\ fence' = fence /\ Active(n)
        BY <1>0, <2>1, StageFacts DEF Stage, clients, Active
      <3>2. Calm
        BY <3>1, CalmRewrites DEF Becomes
      <3>3. ASSUME NEW i \in Inode PROVE Shrinks(i) \/ \E m \in On(i) : Active(m)
        <4>1. CASE i \in write[n].inos
          BY <3>1, <4>1 DEF On
        <4>2. CASE i \notin write[n].inos
          <5>1. runtime'[i] = runtime[i] /\ lane'[i] = lane[i]
            BY <3>1, <4>2 DEF Appends
          <5>. QED
            BY <1>0, <5>1, ShrinksReaped
        <4>. QED
          BY <4>1, <4>2
      <3>. QED
        BY <1>0, <3>1, <3>2, <3>3, FencingKept
    <2>2. CASE ~Stage(n)
      <3>1. fence' = fence /\ lane' = lane /\ (runtime' = runtime \/ (\E h : Reaps(h)))
        BY <1>0, <1>2, <2>2, WriteFacts, AbortFacts, ReleaseFacts
           DEF WriteMove, Reserve, Aborts, Abort, Prepare, Publish, Show, Cancel, clients
      <3>3. Calm
        <4>1. CASE Reserve(n)
          <5>1. Becomes(n, "reserved", write[n].held) /\ Active(n)
            BY <1>0, <4>1, WriteFacts DEF Reserve, Active
          <5>. QED
            BY <5>1, CalmRewrites DEF Becomes
        <4>2. CASE Aborts(n)
          <5>1. PICK pc, held : Becomes(n, pc, held) /\ pc = "failed"
            BY <1>0, <4>2, AbortFacts DEF Aborts
          <5>. QED
            BY <5>1, CalmRewrites DEF Becomes
        <4>3. CASE Prepare(n)
          <5>1. Becomes(n, "prepared", TRUE) /\ Active(n)
            BY <1>0, <4>3, PrepareFacts DEF Prepare, Active
          <5>. QED
            BY <5>1, CalmRewrites DEF Becomes
        <4>4. CASE Publish(n)
          <5>1. PICK pc, seq, held :
                  /\ Rewrites(n, pc, seq, held, write[n].arrived, write[n].cancelled, write[n].result, write[n].committed)
                  /\ pc \in {"published", "dropped"}
            BY <1>0, <4>4, PublishFacts DEF Becomes
          <5>. QED
            BY <5>1, CalmRewrites
        <4>5. CASE Show(n)
          <5>1. Becomes(n, "acked", write[n].held)
            BY <1>0, <4>5, WriteFacts
          <5>. QED
            BY <5>1, CalmRewrites DEF Becomes
        <4>6. CASE Cancel(n)
          <5>1. PICK pc, cancelled, result :
                  /\ Rewrites(n, pc, write[n].seq, write[n].held, write[n].arrived, cancelled, result, write[n].committed)
                  /\ pc = "releasing"
            BY <1>0, <4>6, WriteFacts
          <5>. QED
            BY <5>1, CalmRewrites
        <4>. QED
          BY <1>2, <2>2, <4>1, <4>2, <4>3, <4>4, <4>5, <4>6 DEF WriteMove
      <3>. QED
        BY <1>0, <2>s, <3>1, <3>3, FencingKept
    <2>. QED
      BY <2>1, <2>2
  <1>3. ASSUME NEW i \in Inode, JobMove(i) PROVE Fencing'
    <2>0. PICK n : n = lane[i].job
      OBVIOUS
    <2>c. ASSUME write' = write PROVE Calm
      BY <2>c DEF Calm, Active
    <2>d. ASSUME NEW m \in DOMAIN write, NEW held, NEW arrived, NEW result, NEW committed,
                 Rewrites(m, write[m].pc, write[m].seq, held, arrived, write[m].cancelled, result, committed)
          PROVE  Calm
      BY <2>d, CalmRewrites DEF Active
    <2>1. CASE Retire(i)
      <3>1. UNCHANGED <<write, runtime, fence>> /\ lane' = [lane EXCEPT ![i] = NoLane] /\ lane[i].job = Nobody /\ lane[i].queue = <<>>
        BY <2>1 DEF Retire, clients
      <3>2. NoLane.job = Nobody /\ NoLane.queue = <<>>
        BY DEF NoLane
      <3>3. \A j \in Inode : lane'[j].job = lane[j].job /\ lane'[j].queue = lane[j].queue
        BY <1>0, <3>1, <3>2 DEF Types
      <3>. QED
        BY <1>0, <1>s, <2>c, <3>1, <3>3, FencingKept
    <2>2. CASE Arrive(i)
      <3>1. PICK h : h = Head(lane[i].queue)
        OBVIOUS
      <3>2. /\ h \in DOMAIN write /\ UNCHANGED <<fence, runtime>> /\ lane[i].queue # <<>>
            /\ \/ write' = write
               \/ Rewrites(h, write[h].pc, write[h].seq, write[h].held, write[h].arrived + 1, write[h].cancelled, write[h].result, write[h].committed)
            /\ \A j \in Inode : j # i => lane'[j] = lane[j]
        BY <1>0, <2>2, <3>1, ArriveFacts DEF Arrive, Takes, clients
      <3>3. Calm
        BY <2>c, <2>d, <3>2
      <3>4. ASSUME NEW j \in Inode PROVE Shrinks(j)
        <4>1. CASE j = i
          <5>1. runtime[i].through \in Nat /\ Len(runtime[i].entries) \in Nat /\ runtime'[i] = runtime[i]
            BY <1>0, <3>2, LaneTypes, LenProperties
          <5>2. runtime'[i].through + Len(runtime'[i].entries) <= runtime[i].through + Len(runtime[i].entries)
            BY <5>1
          <5>. QED
            BY <3>2, <4>1, <5>2 DEF Shrinks, Emptied
        <4>2. CASE j # i
          BY <1>0, <3>2, <4>2, ShrinksReaped
        <4>. QED
          BY <4>1, <4>2
      <3>. QED
        BY <1>0, <3>2, <3>3, <3>4, FencingKept
    <2>3. ASSUME NEW step \in Steps, Proceeds(i, step) PROVE Fencing'
      <3>1. UNCHANGED <<write, runtime, fence>> /\ \A j \in Inode : lane'[j].job = lane[j].job /\ lane'[j].queue = lane[j].queue
        BY <2>3 DEF Proceeds, Moves, clients
      <3>. QED
        BY <1>0, <1>s, <2>c, <3>1, FencingKept
    <2>4. ASSUME NEW r \in {"ok", "err"}, Concludes(i, r) PROVE Fencing'
      <3>1. /\ UNCHANGED <<runtime, fence>> /\ n \in DOMAIN write
            /\ \A j \in Inode : lane'[j].job = lane[j].job /\ lane'[j].queue = lane[j].queue
            /\ Rewrites(n, write[n].pc, write[n].seq, FALSE, write[n].arrived, write[n].cancelled, Outcome(n, r), write[n].committed)
        BY <2>0, <2>4, DispatchFacts DEF Concludes, Settles, Moves, clients
      <3>2. Calm
        BY <2>d, <3>1
      <3>. QED
        BY <1>0, <1>s, <3>1, <3>2, FencingKept
    <2>5. CASE Submit(i)
      <3>1. /\ n \in DOMAIN write /\ Becomes(n, write[n].pc, FALSE) /\ UNCHANGED <<fence, runtime>>
            /\ \A j \in Inode : lane'[j].job = lane[j].job /\ lane'[j].queue = lane[j].queue
        BY <1>0, <2>0, <2>5, SubmitFacts DEF Submit, Moves, clients
      <3>2. Calm
        BY <2>d, <3>1 DEF Becomes
      <3>. QED
        BY <1>0, <1>s, <3>1, <3>2, FencingKept
    <2>6. CASE Commit(i)
      <3>1. /\ n \in DOMAIN write /\ UNCHANGED <<fence, runtime>>
            /\ Rewrites(n, write[n].pc, write[n].seq, write[n].held, write[n].arrived, write[n].cancelled, write[n].result, TRUE)
            /\ \A j \in Inode : lane'[j].job = lane[j].job /\ lane'[j].queue = lane[j].queue
        BY <1>0, <2>0, <2>6, CommitFacts DEF Commit, Moves, clients
      <3>2. Calm
        BY <2>d, <3>1
      <3>. QED
        BY <1>0, <1>s, <3>1, <3>2, FencingKept
    <2>7. CASE Complete(i) \/ Fail(i)
      <3>1. UNCHANGED <<write, fence>>
        BY <2>7 DEF Complete, Fail, clients
      <3>2. \A j \in Inode : Shrinks(j)
        BY <2>7, ShrinksEnd
      <3>. QED
        BY <1>0, <2>c, <3>1, <3>2, FencingKept
    <2>. QED
      BY <1>3, <2>1, <2>2, <2>3, <2>4, <2>5, <2>6, <2>7 DEF JobMove, LaneMove
  <1>4. ASSUME NEW a \in Client, Punch(a) PROVE Fencing'
    <2>1. /\ UNCHANGED <<write, lane, runtime>> /\ fence' = [fence EXCEPT ![a] = NoFence] /\ fence \in [Client -> FenceTypes]
      BY <1>0, <1>4 DEF Punch, pipeline, Types
    <2>2. \A i \in Inode : Shrinks(i)
      BY <1>s, <2>1
    <2>3. ASSUME NEW c \in Client PROVE FenceOf(c)'
      <3>1. CASE c = a
        BY <2>1, <3>1 DEF FenceOf, NoFence
      <3>2. CASE c # a
        <4>1. fence'[c] = fence[c]
          BY <2>1, <3>2
        <4>. QED
          BY <1>0, <2>1, <2>2, <4>1, FenceKept DEF Fencing, On, Active
      <3>. QED
        BY <3>1, <3>2
    <2>. QED
      BY <2>3 DEF Fencing
  <1>5. CASE Stop \/ UNCHANGED vars
    <2>1. UNCHANGED <<write, lane, runtime, fence>>
      BY <1>5 DEF Stop, vars, clients
    <2>2. Calm
      BY <2>1 DEF Calm, Active
    <2>. QED
      BY <1>0, <1>s, <2>1, <2>2, FencingKept
  <1>. QED
    BY <1>0, <1>1, <1>2, <1>3, <1>4, <1>5, Cases, FencingAsks

-----------------------------------------------------------------------------
(* The invariant *)

LEMMA Initially == Init => MutInv
  <1>. SUFFICES ASSUME Init PROVE MutInv
    OBVIOUS
  <1>0. /\ write = <<>> /\ DOMAIN write = {} /\ Len(write) = 0 /\ gate.through = 0
        /\ progress.through = 0 /\ progress.pending = {}
    BY DEF Init
  <1>r. \A i \in Inode : runtime[i] = NoRuntime /\ lane[i] = NoLane /\ attrs[i] = <<>>
    BY DEF Init
  <1>n. /\ NoRuntime.entries = <<>> /\ ~NoRuntime.terminal /\ ~NoRuntime.up /\ NoRuntime.through = 0
        /\ NoLane.queue = <<>> /\ NoLane.job = Nobody /\ NoLane.at = "idle" /\ NoFence.pc = "idle"
        /\ NoFlush.pc = "idle"
    BY DEF NoRuntime, NoLane, NoFence, NoFlush
  <1>e. Range(<<>>) = {} /\ DOMAIN <<>> = {}
    BY DEF Range
  <1>1. Types
    <2>1. write \in Seq(Writes) /\ Len(write) <= MaxWrites
      BY <1>0, Constants
    <2>2. gate \in [through : Nat, terminal : BOOLEAN] /\ down \in [budget : BOOLEAN, frozen : BOOLEAN]
      BY DEF Init
    <2>3. runtime \in [Inode -> Runtimes] /\ lane \in [Inode -> Lanes]
      BY NoRuntimeTypes DEF Init
    <2>4. attrs \in [Inode -> Seq(Names)]
      BY DEF Init
    <2>5. base \in [Inode -> Files]
      <3>1. [x \in Cell |-> Zero] \in [Cell -> 0..MaxWrites]
        BY Constants DEF Zero
      <3>2. [size |-> InitSize, at |-> [x \in Cell |-> Zero]] \in Files
        BY <3>1, Constants DEF Files
      <3>. QED
        BY <3>2 DEF Init
    <2>6. progress \in [through : Nat, pending : SUBSET Nat, terminal : BOOLEAN] /\ IsFiniteSet(progress.pending)
      <3>1. IsFiniteSet({})
        BY FS_EmptySet
      <3>2. progress = [through |-> 0, pending |-> {}, terminal |-> FALSE]
        BY DEF Init
      <3>. QED
        BY <3>1, <3>2
    <2>7. fence \in [Client -> FenceTypes]
      <3>1. NoFence \in FenceTypes
        BY DEF NoFence, FenceTypes
      <3>. QED
        BY <3>1 DEF Init
    <2>. QED
      BY <2>1, <2>2, <2>3, <2>4, <2>5, <2>6, <2>7 DEF Types
  <1>2. Lives /\ Waiting
    BY <1>0 DEF Lives, Waiting
  <1>3. Tracking
    <2>1. ASSUME NEW i \in Inode PROVE Tracked(i)
      <3>1. runtime[i] = NoRuntime /\ runtime[i].entries = <<>> /\ ~runtime[i].terminal /\ lane[i].queue = <<>>
            /\ lane[i].job = Nobody /\ lane[i].at = "idle"
        BY <1>r, <1>n
      <3>. QED
        BY <1>e, <3>1 DEF Tracked, Injective
    <2>. QED
      BY <2>1 DEF Tracking
  <1>4. Locking
    <2>1. \A i \in Inode : DOMAIN runtime[i].entries = {}
      BY <1>r, <1>n, <1>e
    <2>. QED
      BY <1>0, <2>1 DEF Locking
  <1>5. Arrivals /\ Outcomes /\ Applied
    <2>1. \A i \in Inode : lane[i].at = "idle" /\ lane[i].job = Nobody
      BY <1>r, <1>n
    <2>2. \A i \in Inode : ~Dispatching(i) /\ ~Applying(i)
      BY <2>1 DEF Dispatching, Applying
    <2>. QED
      BY <1>0, <2>1, <2>2 DEF Arrivals, Outcomes, OutcomeOf, Applied
  <1>6. Sequenced
    <2>1. ASSUME NEW s \in Nat \ {0} PROVE ~(s <= progress.through \/ s \in progress.pending)
      BY <1>0
    <2>. QED
      BY <1>0, <2>1 DEF Sequenced
  <1>7. Flushing
    <2>1. NoFlush \in Flushers
      BY DEF NoFlush, Flushers, Targets
    <2>2. flusher = [c \in Client |-> NoFlush]
      BY DEF Init
    <2>3. \A c \in Client : flusher[c].pc = "idle"
      BY <1>n, <2>2
    <2>. QED
      BY <2>1, <2>2, <2>3 DEF Flushing, Covering
  <1>8. Previewed
    <2>1. ASSUME NEW i \in Inode PROVE PreviewOf(i)
      <3>1. DOMAIN attrs[i] = {} /\ Range(attrs[i]) = {}
        BY <1>r, <1>e
      <3>2. On(i) = {}
        BY <1>0 DEF On
      <3>. QED
        BY <3>1, <3>2 DEF PreviewOf, Ordered, Injective
    <2>. QED
      BY <2>1 DEF Previewed
  <1>9. Fencing
    <2>1. \A c \in Client : fence[c].pc = "idle"
      BY <1>n DEF Init
    <2>. QED
      BY <2>1 DEF Fencing, FenceOf
  <1>. QED
    BY <1>1, <1>2, <1>3, <1>4, <1>5, <1>6, <1>7, <1>8, <1>9 DEF MutInv

\* The inductive invariant holds in every state of the pipeline.
THEOREM MutationInvariant == Spec => []MutInv
  <1>1. MutInv /\ [Next]_vars => MutInv'
    BY TypesStep, LivesStep, TrackingStep, WaitingStep, LockingStep, ArrivalsStep, OutcomesStep, AppliedStep,
       SequencedStep, FlushingStep, PreviewedStep, FencingStep DEF MutInv
  <1>. QED
    BY Initially, <1>1, PTL DEF Spec

-----------------------------------------------------------------------------
(* What the runs check *)

\* A flush that succeeds covers every write acknowledged before it was asked for.
THEOREM FlushesApply == Spec => []FlushApplies
  <1>1. ASSUME MutInv PROVE FlushApplies
    <2>. SUFFICES ASSUME NEW c \in Client, flusher[c].pc = "ok", NEW n \in flusher[c].must PROVE write[n].committed
      BY DEF FlushApplies
    <2>0. Types /\ Sequenced /\ Covering(c) /\ flusher[c] \in Flushers
      BY <1>1 DEF MutInv, Flushing
    <2>1. n \in DOMAIN write /\ Visible(n) /\ write[n].seq <= flusher[c].cutoff /\ flusher[c].cutoff <= progress.through
      BY <2>0 DEF Covering
    <2>2. write[n].seq \in Nat /\ write[n].seq > 0 /\ progress.through \in Nat /\ flusher[c].cutoff \in Nat
      BY <2>0, <2>1, WriteTypes DEF Sequenced, Visible, Types, Flushers
    <2>3. PICK s : s = write[n].seq
      OBVIOUS
    <2>4. s \in Nat \ {0} /\ s <= progress.through
      BY <2>1, <2>2, <2>3
    <2>5. PICK m \in DOMAIN write : write[m].seq = s /\ write[m].committed
      BY <2>0, <2>4 DEF Sequenced, Recorded
    <2>6. m = n
      BY <2>0, <2>1, <2>2, <2>3, <2>5 DEF Sequenced
    <2>. QED
      BY <2>5, <2>6
  <1>. QED
    BY <1>1, MutationInvariant, PTL

\* Types, and how the lanes, the entries and the counters of the pipeline fit.
THEOREM MutationTypes == Spec => []TypeOK
  <1>1. ASSUME MutInv PROVE TypeOK
    <2>0. Types /\ Lives /\ Tracking /\ Sequenced /\ Previewed
      BY <1>1 DEF MutInv
    <2>1. ASSUME NEW n \in DOMAIN write
          PROVE  /\ write[n].inos \subseteq Inode /\ write[n].cells \in Extents
                 /\ write[n].result \in {"none", "ok", "err"}
                 /\ write[n].seq \in 0..gate.through
                 /\ Visible(n) /\ write[n].result = "ok" => write[n].committed
      <3>1. write[n].inos \subseteq Inode /\ write[n].cells \in Extents /\ write[n].seq \in Nat /\ write[n] \in Writes
        BY <2>0, WriteTypes
      <3>2. write[n].result \in {"none", "ok", "err"}
        BY <3>1 DEF Writes, Results
      <3>3. write[n].seq <= gate.through /\ gate.through \in Nat
        BY <2>0 DEF Sequenced, Types
      <3>. QED
        BY <2>0, <3>1, <3>2, <3>3 DEF Lives, Life
    <2>2. progress.through <= gate.through
      <3>1. progress.through \in Nat /\ gate.through \in Nat
        BY <2>0 DEF Types
      <3>2. ASSUME progress.through # 0 PROVE progress.through <= gate.through
        <4>1. PICK s : s = progress.through
          OBVIOUS
        <4>2. PICK n \in DOMAIN write : write[n].seq = s
          BY <2>0, <3>1, <3>2, <4>1 DEF Sequenced, Recorded
        <4>. QED
          BY <2>0, <4>1, <4>2 DEF Sequenced
      <3>. QED
        BY <3>1, <3>2
    <2>3. ASSUME NEW i \in Inode, ~runtime[i].terminal
          PROVE  runtime[i].entries = (IF lane[i].job = Nobody THEN <<>> ELSE <<lane[i].job>>) \o lane[i].queue
      <3>1. PICK e, q, n : e = runtime[i].entries /\ q = lane[i].queue /\ n = lane[i].job
        OBVIOUS
      <3>2. e \in Seq(Names) /\ q \in Seq(Names) /\ Tracked(i)
        BY <2>0, <3>1, LaneTypes DEF Tracking
      <3>3. CASE n = Nobody
        <4>1. e = q
          BY <2>3, <3>1, <3>2, <3>3 DEF Tracked
        <4>. QED
          BY <3>1, <3>2, <3>3, <4>1, ConcatEmptySeq
      <3>4. CASE n # Nobody
        <4>1. Len(e) > 0 /\ Head(e) = n /\ Tail(e) = q
          BY <2>3, <3>1, <3>2, <3>4 DEF Tracked
        <4>2. e # <<>>
          BY <4>1
        <4>3. /\ Len(q) = Len(e) - 1 /\ e[1] = n /\ n \in Names /\ Len(e) \in Nat
              /\ \A k \in 1..Len(q) : q[k] = e[k + 1]
          BY <3>2, <4>1, <4>2, HeadTailProperties, LenProperties
        <4>4. PICK u : u = <<n>>
          OBVIOUS
        <4>5. u \in Seq(Names) /\ Len(u) = 1 /\ u[1] = n
          BY <4>3, <4>4
        <4>6. /\ u \o q \in Seq(Names) /\ Len(u \o q) = Len(u) + Len(q)
              /\ \A k \in 1 .. Len(u) + Len(q) : (u \o q)[k] = IF k <= Len(u) THEN u[k] ELSE q[k - Len(u)]
          BY <3>2, <4>5, ConcatProperties
        <4>7. PICK w : w = u \o q
          OBVIOUS
        <4>8. /\ w \in Seq(Names) /\ Len(w) = Len(e)
              /\ \A k \in 1..Len(e) : w[k] = IF k <= 1 THEN n ELSE q[k - 1]
          BY <4>3, <4>5, <4>6, <4>7
        <4>9. ASSUME NEW k \in 1..Len(e) PROVE e[k] = w[k]
          <5>1. CASE k = 1
            BY <4>3, <4>8, <5>1
          <5>2. CASE k # 1
            <6>1. k - 1 \in 1..Len(q) /\ (k - 1) + 1 = k /\ ~(k <= 1)
              BY <4>3, <5>2
            <6>2. q[k - 1] = e[k]
              BY <4>3, <6>1
            <6>. QED
              BY <4>8, <6>1, <6>2
          <5>. QED
            BY <5>1, <5>2
        <4>10. e = w
          BY <3>2, <4>8, <4>9, SeqEqual
        <4>. QED
          BY <3>1, <3>4, <4>4, <4>7, <4>10
      <3>. QED
        BY <3>3, <3>4
    <2>4. ASSUME NEW i \in Inode PROVE runtime[i].done = {} /\ Len(attrs[i]) <= MaxWrites
      <3>1. runtime[i].done = {} /\ attrs[i] \in Seq(Names) /\ Len(attrs[i]) \in Nat
        BY <2>0, LaneTypes, LenProperties
      <3>2. attrs[i] \in [1..Len(attrs[i]) -> Names] /\ Injective(attrs[i])
        BY <2>0, <3>1 DEF Previewed, PreviewOf
      <3>3. PICK f, l : f = attrs[i] /\ l = Len(attrs[i])
        OBVIOUS
      <3>4. l \in Nat /\ f \in [1..l -> Names] /\ \A a, b \in 1..l : f[a] = f[b] => a = b
        BY <3>1, <3>2, <3>3 DEF Injective
      <3>5. f \in Injection(1..l, Names)
        BY <3>4, Fun_IsInj
      <3>6. IsFiniteSet(Names) /\ Cardinality(Names) = MaxWrites /\ Cardinality(1..l) = l
        BY <3>4, Constants, FS_Interval DEF Names
      <3>7. Cardinality(1..l) <= Cardinality(Names)
        BY <3>5, <3>6, FS_Injection
      <3>. QED
        BY <3>1, <3>3, <3>6, <3>7
    <2>. QED
      BY <2>1, <2>2, <2>3, <2>4 DEF TypeOK
  <1>. QED
    BY <1>1, MutationInvariant, PTL

-----------------------------------------------------------------------------
(* What the clients see *)

\* The entry at place k of an inode gives its cell x, ...
Covers(i, x, k) == Visible(runtime[i].entries[k]) /\ x \in write[runtime[i].entries[k]].cells
\* ... and the last that does is what is seen, over the canonical bytes.
Shows(i, x, v) ==
    LET e == runtime[i].entries
    IN  \/ \E k \in DOMAIN e : /\ Covers(i, x, k) /\ v = e[k]
                               /\ \A l \in DOMAIN e : Covers(i, x, l) => l <= k
        \/ (\A k \in DOMAIN e : ~Covers(i, x, k)) /\ v = base[i].at[x]
Seen(i) == /\ Contents(i) = [x \in Cell |-> Contents(i)[x]]
           /\ \A x \in Cell : /\ Shows(i, x, Contents(i)[x])
                              /\ \A v : Shows(i, x, v) => v = Contents(i)[x]

LEMMA ContentsSeen == Types => \A i \in Inode : Seen(i)
  <1>. SUFFICES ASSUME Types, NEW i \in Inode PROVE Seen(i)
    OBVIOUS
  <1>1. /\ runtime[i].entries \in Seq(Names) /\ base[i].at \in [Cell -> 0..MaxWrites]
        /\ Len(runtime[i].entries) \in Nat /\ DOMAIN runtime[i].entries = 1..Len(runtime[i].entries)
    BY LaneTypes, LenProperties
  <1>. DEFINE e == runtime[i].entries
              over(x) == {k \in Snapshot(i) : x \in write[e[k]].cells}
  <1>2. Contents(i) = [x \in Cell |-> IF over(x) = {} THEN base[i].at[x] ELSE e[Max(over(x))]]
    BY <1>1 DEF Contents, Overlaid
  <1>3. ASSUME NEW x \in Cell
        PROVE  Shows(i, x, Contents(i)[x]) /\ \A v : Shows(i, x, v) => v = Contents(i)[x]
    <2>1. \A k : k \in over(x) <=> k \in DOMAIN e /\ Covers(i, x, k)
      BY DEF Snapshot, Covers
    <2>2. over(x) \subseteq Nat /\ \A k \in over(x) : k <= Len(e)
      BY <1>1, <2>1
    <2>3. PICK O : O = over(x)
      OBVIOUS
    <2>4. Contents(i)[x] = IF O = {} THEN base[i].at[x] ELSE e[Max(O)]
      BY <1>2, <2>3
    <2>5. \A k : k \in O <=> k \in DOMAIN e /\ Covers(i, x, k)
      BY <2>1, <2>3
    <2>6. O \subseteq Nat /\ \A k \in O : k <= Len(e)
      BY <2>2, <2>3
    <2>. HIDE DEF over
    <2>7. CASE O = {}
      BY <2>4, <2>5, <2>7 DEF Shows
    <2>8. CASE O # {}
      <3>1. Max(O) \in O /\ \A k \in O : k <= Max(O)
        BY <1>1, <2>6, <2>8, GreatestElement
      <3>2. Shows(i, x, Contents(i)[x])
        BY <2>4, <2>5, <2>8, <3>1 DEF Shows
      <3>3. ASSUME NEW v, Shows(i, x, v) PROVE v = Contents(i)[x]
        <4>1. PICK k \in DOMAIN e : Covers(i, x, k) /\ v = e[k] /\ \A l \in DOMAIN e : Covers(i, x, l) => l <= k
          BY <2>5, <2>8, <3>3 DEF Shows
        <4>2. k \in O /\ Max(O) <= k /\ k <= Max(O) /\ k \in Nat /\ Max(O) \in Nat
          BY <2>5, <2>6, <3>1, <4>1
        <4>3. k = Max(O)
          BY <4>2
        <4>. QED
          BY <2>4, <2>8, <4>1, <4>3
      <3>. QED
        BY <3>2, <3>3
    <2>. QED
      BY <2>7, <2>8
  <1>4. Contents(i) = [x \in Cell |-> Contents(i)[x]]
    BY <1>2
  <1>. QED
    BY <1>3, <1>4 DEF Seen

LEMMA ContentsSeenNext == Types' => (\A i \in Inode : Seen(i))'
  BY ContentsSeen, PTL

\* What is seen of an inode stays.
Still(i) == \A x \in Cell : \A v : Shows(i, x, v) => Shows(i, x, v)'

LEMMA StillSeen ==
    ASSUME Types, Types', NEW i \in Inode, Still(i)
    PROVE  Contents(i)' = Contents(i)
  <1>1. Seen(i) /\ Seen(i)'
    BY ContentsSeen, ContentsSeenNext
  <1>2. ASSUME NEW x \in Cell PROVE Contents(i)'[x] = Contents(i)[x]
    BY <1>1 DEF Seen, Still
  <1>. QED
    BY <1>1, <1>2 DEF Seen

\* Nothing is acknowledged.
Quiet ==
    /\ \A m \in DOMAIN write : m \in DOMAIN write' /\ write'[m].cells = write[m].cells /\ (Visible(m) <=> Visible(m)')
    /\ \A m \in DOMAIN write' : Visible(m)' => m \in DOMAIN write

LEMMA QuietRewrites ==
    ASSUME NEW n \in DOMAIN write, NEW pc, NEW seq, NEW held, NEW arrived, NEW cancelled, NEW result, NEW committed,
           Rewrites(n, pc, seq, held, arrived, cancelled, result, committed),
           pc = "acked" <=> write[n].pc = "acked"
    PROVE  Quiet
  BY DEF Rewrites, Quiet, Visible

LEMMA StillKept ==
    ASSUME Types, Tracking, NEW i \in Inode, Quiet, runtime'[i].entries = runtime[i].entries, base'[i] = base[i]
    PROVE  Still(i)
  <1>1. ASSUME NEW k \in DOMAIN runtime[i].entries, NEW x PROVE Covers(i, x, k) <=> Covers(i, x, k)'
    <2>1. runtime[i].entries[k] \in DOMAIN write
      BY LaneTypes, RangeTypes DEF Tracking, Tracked
    <2>. QED
      BY <2>1 DEF Covers, Quiet, Visible
  <1>. QED
    BY <1>1 DEF Still, Shows

Acked == {n \in DOMAIN write : Visible(n)}

\* A step that no client can see, ...
Stutters == /\ punched' = punched /\ Acked' = Acked
            /\ \A i \in Inode : Contents(i)' = Contents(i)
\* ... an answer to a write, ...
Answers(n) ==
    /\ n \in Names /\ write[n].inos \in (SUBSET Inode) \ {{}} /\ write[n].cells \in (SUBSET Cell) \ {{}}
    /\ punched' = punched /\ n \notin Acked /\ Acked' = Acked \cup {n}
    /\ \A i \in Inode : Contents(i)' = [x \in Cell |-> IF i \in write[n].inos /\ x \in write[n].cells THEN n ELSE Contents(i)[x]]
\* ... and a hole.
Clears(i) ==
    /\ punched' = punched + 1 /\ Acked' = Acked
    /\ Contents(i)' = [x \in Cell |-> Zero]
    /\ \A j \in Inode : j # i => Contents(j)' = Contents(j)

LEMMA StuttersStill ==
    ASSUME Types, Types', Quiet, punched' = punched, \A i \in Inode : Still(i)
    PROVE  Stutters
  <1>1. Acked' = Acked
    BY DEF Acked, Quiet, Visible
  <1>. QED
    BY <1>1, StillSeen DEF Stutters

LEMMA StuttersKept ==
    ASSUME Types, Types', Tracking, Quiet, UNCHANGED <<punched, base>>, \A i \in Inode : runtime'[i].entries = runtime[i].entries
    PROVE  Stutters
  BY StillKept, StuttersStill

\* A staged entry is not shown.
LEMMA StageUnseen ==
    ASSUME MutInv, Types', NEW n \in DOMAIN write, Stage(n)
    PROVE  Stutters
  <1>0. /\ Types /\ Tracking /\ UNCHANGED <<punched, base>> /\ write[n].pc = "prepared"
        /\ Becomes(n, "staged", write[n].held) /\ Appends(n) /\ n \in Names
    BY StageFacts, WriteTypes DEF MutInv, Stage, clients
  <1>1. Quiet
    BY <1>0, QuietRewrites DEF Becomes
  <1>2. ASSUME NEW i \in Inode PROVE Still(i)
    <2>1. CASE i \notin write[n].inos
      <3>1. runtime'[i] = runtime[i]
        BY <1>0, <2>1 DEF Appends
      <3>. QED
        BY <1>0, <1>1, <3>1, StillKept
    <2>2. CASE i \in write[n].inos
      <3>1. PICK e, f : e = runtime[i].entries /\ f = runtime'[i].entries
        OBVIOUS
      <3>2. e \in Seq(Names) /\ f = Append(e, n)
        BY <1>0, <2>2, <3>1, LaneTypes DEF Appends
      <3>3. /\ \A k \in DOMAIN e : k \in DOMAIN f /\ f[k] = e[k]
            /\ f[Len(e) + 1] = n /\ DOMAIN f = DOMAIN e \cup {Len(e) + 1}
        BY <1>0, <3>2, AppendFacts
      <3>4. ASSUME NEW k \in DOMAIN e, NEW x PROVE Covers(i, x, k) <=> Covers(i, x, k)'
        <4>1. e[k] \in DOMAIN write
          BY <1>0, <3>1, <3>2, RangeTypes DEF Tracking, Tracked
        <4>. QED
          BY <1>1, <3>1, <3>3, <4>1 DEF Covers, Quiet, Visible
      <3>5. ASSUME NEW x PROVE ~Covers(i, x, Len(e) + 1)'
        <4>1. write'[n].pc = "staged"
          BY <1>0 DEF Becomes, Rewrites
        <4>. QED
          BY <3>1, <3>3, <4>1 DEF Covers, Visible
      <3>6. ASSUME NEW x, NEW v, Shows(i, x, v) PROVE Shows(i, x, v)'
        <4>1. CASE \E k \in DOMAIN e : Covers(i, x, k) /\ v = e[k] /\ \A l \in DOMAIN e : Covers(i, x, l) => l <= k
          <5>1. PICK k \in DOMAIN e : Covers(i, x, k) /\ v = e[k] /\ \A l \in DOMAIN e : Covers(i, x, l) => l <= k
            BY <4>1
          <5>2. k \in DOMAIN f /\ Covers(i, x, k)' /\ v = f[k] /\ \A l \in DOMAIN f : Covers(i, x, l)' => l <= k
            BY <3>3, <3>4, <3>5, <5>1
          <5>. QED
            BY <3>1, <5>2 DEF Shows
        <4>2. CASE (\A k \in DOMAIN e : ~Covers(i, x, k)) /\ v = base[i].at[x]
          <5>1. (\A k \in DOMAIN f : ~Covers(i, x, k)') /\ v = base'[i].at[x]
            BY <1>0, <3>3, <3>4, <3>5, <4>2
          <5>. QED
            BY <3>1, <5>1 DEF Shows
        <4>. QED
          BY <3>1, <3>6, <4>1, <4>2 DEF Shows
      <3>. QED
        BY <3>6 DEF Still
    <2>. QED
      BY <2>1, <2>2
  <1>. QED
    BY <1>0, <1>1, <1>2, StuttersStill

\* The bytes of a commit are under those of the entry they come from.
LEMMA CommitUnseen ==
    ASSUME MutInv, Types', NEW a \in Inode, Commit(a)
    PROVE  Stutters
  <1>0. Types /\ Tracking /\ UNCHANGED <<punched, runtime>>
    BY DEF MutInv, Commit, clients
  <1>1. PICK n : n = lane[a].job
    OBVIOUS
  <1>2. /\ n \in DOMAIN write /\ lane[a].at = "commit" /\ Applies(n)
        /\ Rewrites(n, write[n].pc, write[n].seq, write[n].held, write[n].arrived, write[n].cancelled, write[n].result, TRUE)
    BY <1>0, <1>1, CommitFacts
  <1>3. Quiet
    BY <1>2, QuietRewrites
  <1>4. Visible(n) /\ write[n].result = "none" /\ Dispatching(a)
    BY <1>1, <1>2, DispatchFacts DEF Dispatching, Applying
  <1>5. \A j \in write[n].inos : lane[j].job = n
    BY <1>1, <1>4 DEF MutInv, Arrivals
  <1>6. ASSUME NEW i \in Inode PROVE Still(i)
    <2>1. CASE i \notin write[n].inos
      <3>1. base'[i] = base[i]
        BY <1>2, <2>1 DEF Applies
      <3>. QED
        BY <1>0, <1>3, <3>1, StillKept
    <2>2. CASE i \in write[n].inos
      <3>1. PICK e : e = runtime[i].entries
        OBVIOUS
      <3>2. /\ e \in Seq(Names) /\ lane[i].job = n /\ n # Nobody
        BY <1>0, <1>2, <1>5, <2>2, <3>1, LaneTypes, WriteTypes, Constants DEF Names, Nobody
      <3>3. PICK p \in DOMAIN e : e[p] = n
        BY <1>0, <3>1, <3>2, RangeTypes DEF Tracking, Tracked
      <3>4. ASSUME NEW k \in DOMAIN e, NEW x PROVE Covers(i, x, k) <=> Covers(i, x, k)'
        <4>1. e[k] \in DOMAIN write
          BY <1>0, <3>1, <3>2, RangeTypes DEF Tracking, Tracked
        <4>. QED
          BY <1>0, <1>3, <3>1, <4>1 DEF Covers, Quiet, Visible
      <3>5. ASSUME NEW x \in Cell, \A k \in DOMAIN e : ~Covers(i, x, k) PROVE base'[i].at[x] = base[i].at[x]
        <4>1. x \notin write[n].cells
          BY <1>4, <3>1, <3>3, <3>5 DEF Covers
        <4>. QED
          BY <1>2, <2>2, <4>1 DEF Applies
      <3>6. ASSUME NEW x \in Cell, NEW v, Shows(i, x, v) PROVE Shows(i, x, v)'
        <4>1. runtime'[i].entries = e
          BY <1>0, <3>1
        <4>. QED
          BY <3>1, <3>4, <3>5, <3>6, <4>1 DEF Shows
      <3>. QED
        BY <3>6 DEF Still
    <2>. QED
      BY <2>1, <2>2
  <1>. QED
    BY <1>0, <1>3, <1>6, StuttersStill

\* What an entry shows when it is retired is canonical.
LEMMA CompleteUnseen ==
    ASSUME MutInv, Types', NEW i \in Inode, Complete(i)
    PROVE  Stutters
  <1>0. /\ Types /\ Tracking /\ Lives /\ UNCHANGED <<punched, write, base>> /\ lane[i].at = "ok" /\ lane[i].at # "idle"
    BY DEF MutInv, Complete, clients
  <1>1. Quiet
    BY <1>0 DEF Quiet, Visible
  <1>2. CASE runtime[i].terminal
    <2>1. runtime' = runtime
      BY <1>0, <1>2, CompleteFacts
    <2>. QED
      BY <1>0, <1>1, <2>1, StuttersKept
  <1>3. CASE ~runtime[i].terminal
    <2>0. Retires(i)
      BY <1>0, <1>3, CompleteFacts
    <2>1. ASSUME NEW j \in Inode, j # i PROVE Still(j)
      <3>1. runtime'[j] = runtime[j]
        BY <2>0, <2>1 DEF Retires
      <3>. QED
        BY <1>0, <1>1, <3>1, StillKept
    <2>2. PICK n, e, f : n = lane[i].job /\ e = runtime[i].entries /\ f = runtime'[i].entries
      OBVIOUS
    <2>3. /\ n \in DOMAIN write /\ n # Nobody /\ e \in Seq(Names) /\ f = Tail(e)
      BY <1>0, <2>0, <2>2, JobFacts, LaneTypes DEF Retires
    <2>4. Len(e) > 0 /\ Head(e) = n
      BY <1>0, <1>3, <2>2, <2>3 DEF Tracking, Tracked
    <2>5. e # <<>>
      BY <2>4
    <2>6. /\ e[1] = n /\ 1 \in DOMAIN e
          /\ \A k \in DOMAIN f : k + 1 \in DOMAIN e /\ f[k] = e[k + 1]
          /\ \A k \in DOMAIN e : k # 1 => k - 1 \in DOMAIN f /\ f[k - 1] = e[k]
          /\ DOMAIN e \subseteq Nat \ {0} /\ DOMAIN f \subseteq Nat \ {0}
      <3>1. e[1] = n /\ 1 \in DOMAIN e /\ f \in Seq(Names)
        BY <2>3, <2>4, <2>5, TailFacts
      <3>2. DOMAIN e \subseteq Nat \ {0} /\ DOMAIN f \subseteq Nat \ {0}
        BY <2>3, <3>1
      <3>. QED
        BY <2>3, <2>5, <3>1, <3>2, TailFacts
    <2>7. ASSUME Visible(n), NEW x \in write[n].cells PROVE base[i].at[x] = n
      <3>1. write[n].result = "ok"
        BY <1>0, <2>2, <2>7 DEF MutInv, Outcomes, OutcomeOf
      <3>2. write[n].committed
        BY <1>0, <2>3, <2>7, <3>1 DEF Lives, Life
      <3>. QED
        BY <2>2, <2>3, <2>7, <3>2 DEF MutInv, Applied
    <2>8. ASSUME NEW k \in DOMAIN f, NEW x PROVE Covers(i, x, k)' <=> Covers(i, x, k + 1)
      BY <1>0, <2>2, <2>6 DEF Covers, Visible
    <2>9. ASSUME NEW x \in Cell, NEW v, Shows(i, x, v) PROVE Shows(i, x, v)'
      <3>1. CASE \E k \in DOMAIN e : Covers(i, x, k) /\ v = e[k] /\ \A l \in DOMAIN e : Covers(i, x, l) => l <= k
        <4>1. PICK k \in DOMAIN e : Covers(i, x, k) /\ v = e[k] /\ \A l \in DOMAIN e : Covers(i, x, l) => l <= k
          BY <3>1
        <4>2. CASE k = 1
          <5>1. v = n /\ Visible(n) /\ x \in write[n].cells
            BY <2>2, <2>6, <4>1, <4>2 DEF Covers
          <5>2. base'[i].at[x] = v
            BY <1>0, <2>7, <5>1
          <5>3. ASSUME NEW l \in DOMAIN f, Covers(i, x, l)' PROVE FALSE
            <6>1. l + 1 \in DOMAIN e /\ l \in Nat \ {0} /\ Covers(i, x, l + 1)
              BY <2>6, <2>8, <5>3
            <6>2. l + 1 <= 1
              BY <4>1, <4>2, <6>1
            <6>. QED
              BY <6>1, <6>2
          <5>. QED
            BY <2>2, <5>2, <5>3 DEF Shows
        <4>3. CASE k # 1
          <5>1. k - 1 \in DOMAIN f /\ f[k - 1] = v /\ k \in Nat /\ (k - 1) + 1 = k
            BY <2>6, <4>1, <4>3
          <5>2. Covers(i, x, k - 1)'
            BY <2>8, <4>1, <5>1
          <5>3. ASSUME NEW l \in DOMAIN f, Covers(i, x, l)' PROVE l <= k - 1
            <6>1. l + 1 \in DOMAIN e /\ l \in Nat /\ Covers(i, x, l + 1)
              BY <2>6, <2>8, <5>3
            <6>2. l + 1 <= k
              BY <4>1, <6>1
            <6>. QED
              BY <5>1, <6>1, <6>2
          <5>. QED
            BY <2>2, <5>1, <5>2, <5>3 DEF Shows
        <4>. QED
          BY <4>2, <4>3
      <3>2. CASE (\A k \in DOMAIN e : ~Covers(i, x, k)) /\ v = base[i].at[x]
        <4>1. (\A k \in DOMAIN f : ~Covers(i, x, k)') /\ v = base'[i].at[x]
          BY <1>0, <2>6, <2>8, <3>2
        <4>. QED
          BY <2>2, <4>1 DEF Shows
      <3>. QED
        BY <2>2, <2>9, <3>1, <3>2 DEF Shows
    <2>10. \A j \in Inode : Still(j)
      BY <2>1, <2>9 DEF Still
    <2>. QED
      BY <1>0, <1>1, <2>10, StuttersStill
  <1>. QED
    BY <1>2, <1>3

\* A write is answered when its entry is the last of each of its inodes.
LEMMA ShowSeen ==
    ASSUME MutInv, Types', NEW n \in DOMAIN write, Show(n)
    PROVE  Answers(n)
  <1>0. /\ Types /\ Tracking /\ Lives /\ Previewed /\ UNCHANGED <<punched, base>> /\ write[n].pc = "published"
    BY DEF MutInv, Show
  <1>1. Becomes(n, "acked", write[n].held) /\ Reaps(n)
    BY <1>0, WriteFacts DEF Show
  <1>2. /\ n \in Names /\ write[n].inos \in (SUBSET Inode) \ {{}} /\ write[n].cells \in (SUBSET Cell) \ {{}}
    BY <1>0, WriteTypes
  <1>3. /\ \A m \in DOMAIN write : /\ m \in DOMAIN write' /\ write'[m].cells = write[m].cells
                                   /\ m # n => (Visible(m) <=> Visible(m)')
        /\ DOMAIN write' = DOMAIN write /\ Visible(n)' /\ ~Visible(n)
    BY <1>0, <1>1 DEF Becomes, Rewrites, Visible
  <1>4. n \notin Acked /\ Acked' = Acked \cup {n}
    BY <1>3 DEF Acked
  <1>5. Unsettled(n) /\ write[n].held
    BY <1>0 DEF Unsettled, Staged, Lives, Life
  <1>6. ASSUME NEW i \in Inode
        PROVE  Contents(i)' = [x \in Cell |-> IF i \in write[n].inos /\ x \in write[n].cells THEN n ELSE Contents(i)[x]]
    <2>1. PICK e : e = runtime[i].entries
      OBVIOUS
    <2>2. runtime'[i].entries = e /\ e \in Seq(Names)
      BY <1>0, <1>1, <2>1, TrackedReaped, LaneTypes DEF Tracking
    <2>3. \A k \in DOMAIN e : e[k] \in DOMAIN write /\ i \in write[e[k]].inos
      BY <1>0, <2>1, <2>2, RangeTypes DEF Tracking, Tracked
    <2>4. ASSUME NEW k \in DOMAIN e, e[k] # n, NEW x PROVE Covers(i, x, k) <=> Covers(i, x, k)'
      BY <1>3, <2>1, <2>2, <2>3, <2>4 DEF Covers, Visible
    <2>5. ASSUME NEW k \in DOMAIN e, e[k] = n, NEW x
          PROVE  ~Covers(i, x, k) /\ (Covers(i, x, k)' <=> x \in write[n].cells) /\ k = Len(e) /\ i \in write[n].inos
      <3>1. k = Len(e)
        BY <1>5, <2>1, <2>5 DEF MutInv, Locking
      <3>2. ~Covers(i, x, k)
        BY <1>3, <2>1, <2>5 DEF Covers
      <3>3. Covers(i, x, k)' <=> x \in write[n].cells
        BY <1>3, <2>2, <2>5 DEF Covers, Visible
      <3>. QED
        BY <2>3, <2>5, <3>1, <3>2, <3>3
    <2>6. i \in write[n].inos => \E p \in DOMAIN e : e[p] = n
      <3>1. SUFFICES ASSUME i \in write[n].inos PROVE n \in Range(e)
        BY <2>2, RangeTypes
      <3>2. InLane(i, n)
        BY <1>5, <3>1 DEF MutInv, Waiting
      <3>3. n # Nobody
        BY <1>2, Constants DEF Names, Nobody
      <3>. QED
        BY <1>0, <2>1, <3>2, <3>3 DEF InLane, Tracking, Tracked
    <2>7. Seen(i) /\ Seen(i)'
      BY <1>0, ContentsSeen, ContentsSeenNext
    <2>8. ASSUME NEW x \in Cell
          PROVE  Contents(i)'[x] = IF i \in write[n].inos /\ x \in write[n].cells THEN n ELSE Contents(i)[x]
      <3>1. CASE i \in write[n].inos /\ x \in write[n].cells
        <4>1. PICK p \in DOMAIN e : e[p] = n
          BY <2>6, <3>1
        <4>2. Covers(i, x, p)' /\ p = Len(e)
          BY <2>5, <3>1, <4>1
        <4>3. \A l \in DOMAIN e : l <= p
          BY <2>2, <4>2
        <4>4. Shows(i, x, n)'
          BY <2>2, <4>1, <4>2, <4>3 DEF Shows
        <4>. QED
          BY <2>7, <3>1, <4>4 DEF Seen
      <3>2. CASE ~(i \in write[n].inos /\ x \in write[n].cells)
        <4>1. ASSUME NEW k \in DOMAIN e PROVE Covers(i, x, k) <=> Covers(i, x, k)'
          BY <2>4, <2>5, <3>2
        <4>2. PICK v : v = Contents(i)[x]
          OBVIOUS
        <4>3. Shows(i, x, v)
          BY <2>7, <4>2 DEF Seen
        <4>4. Shows(i, x, v)'
          BY <1>0, <2>1, <2>2, <4>1, <4>3 DEF Shows
        <4>. QED
          BY <2>7, <3>2, <4>2, <4>4 DEF Seen
      <3>. QED
        BY <3>1, <3>2
    <2>. QED
      BY <2>7, <2>8 DEF Seen
  <1>. QED
    BY <1>0, <1>2, <1>4, <1>6 DEF Answers

\* A hole is punched when nothing is on its way to the inode.
LEMMA PunchSeen ==
    ASSUME MutInv, Types', NEW c \in Client, Punch(c)
    PROVE  \E i \in Inode : Clears(i)
  <1>1. PICK i : i = fence[c].ino
    OBVIOUS
  <1>0. /\ Types /\ Tracking /\ UNCHANGED <<write, runtime>> /\ punched' = punched + 1
        /\ base' = [base EXCEPT ![i].at = [x \in Cell |-> Zero]] /\ fence[c].pc = "held"
    BY <1>1 DEF MutInv, Punch, pipeline
  <1>2. i \in Inode /\ runtime[i].entries = <<>>
    BY <1>0, <1>1 DEF MutInv, Fencing, FenceOf, Emptied
  <1>3. Quiet
    BY <1>0 DEF Quiet, Visible
  <1>4. Acked' = Acked
    BY <1>0 DEF Acked, Visible
  <1>5. base \in [Inode -> Files] /\ base[i] \in Files
    BY <1>0, <1>2 DEF Types
  <1>6. base'[i].at = [x \in Cell |-> Zero] /\ \A j \in Inode : j # i => base'[j] = base[j]
    BY <1>0, <1>2, <1>5 DEF Files
  <1>7. ASSUME NEW j \in Inode, j # i PROVE Contents(j)' = Contents(j)
    BY <1>0, <1>3, <1>6, <1>7, StillKept, StillSeen
  <1>8. Contents(i)' = [x \in Cell |-> Zero]
    <2>1. Seen(i)'
      BY <1>2, ContentsSeenNext
    <2>2. ASSUME NEW x \in Cell PROVE Contents(i)'[x] = Zero
      <3>1. DOMAIN runtime'[i].entries = {}
        BY <1>0, <1>2
      <3>2. base'[i].at[x] = Zero
        BY <1>6
      <3>3. Shows(i, x, 0)'
        BY <3>1, <3>2 DEF Shows, Zero
      <3>. QED
        BY <2>1, <3>3 DEF Seen, Zero
    <2>. QED
      BY <2>1, <2>2 DEF Seen
  <1>. QED
    BY <1>0, <1>1, <1>2, <1>4, <1>7, <1>8 DEF Clears

\* What a step is to the clients.
LEMMA SeenStep ==
    ASSUME MutInv, [Next]_vars
    PROVE  Stutters \/ (\E n \in DOMAIN write : Answers(n)) \/ (\E i \in Inode : Clears(i))
  <1>0. Types /\ Types' /\ Tracking /\ Lives /\ Previewed
    BY TypesStep DEF MutInv
  <1>q. ASSUME write' = write PROVE Quiet
    BY <1>q DEF Quiet, Visible
  <1>r. ASSUME runtime' = runtime \/ (\E h : Reaps(h)) PROVE \A i \in Inode : runtime'[i].entries = runtime[i].entries
    BY <1>0, <1>r, TrackedReaped DEF Tracking
  <1>1. ASSUME NEW inos \in (SUBSET Inode) \ {{}}, NEW cells \in Extents, Begin(inos, cells) PROVE Stutters
    <2>1. PICK n : Begun(n, inos) /\ Registers(inos) /\ UNCHANGED <<base, punched>>
      BY <1>0, <1>1, BeginFacts DEF Begin, clients
    <2>2. Quiet
      BY <2>1 DEF Begun, Quiet, Visible
    <2>3. \A i \in Inode : runtime'[i].entries = runtime[i].entries
      BY <2>1 DEF Registers
    <2>. QED
      BY <1>0, <2>1, <2>2, <2>3, StuttersKept
  <1>2. ASSUME NEW n \in DOMAIN write, WriteMove(n), ~Stage(n), ~Show(n) PROVE Stutters
    <2>1. UNCHANGED <<base, punched>> /\ (runtime' = runtime \/ (\E h : Reaps(h)))
      BY <1>0, <1>2, AbortFacts DEF WriteMove, Reserve, Aborts, Abort, Prepare, Publish, Cancel, clients
    <2>2. Quiet
      <3>1. CASE Reserve(n)
        <4>1. PICK pc, held : Becomes(n, pc, held) /\ pc = "reserved" /\ write[n].pc = "waiting"
          BY <1>0, <3>1, WriteFacts DEF Reserve
        <4>. QED
          BY <4>1, QuietRewrites DEF Becomes
      <3>2. CASE Aborts(n)
        <4>1. PICK pc, held : Becomes(n, pc, held) /\ pc = "failed" /\ write[n].pc # "acked"
          BY <1>0, <3>2, AbortFacts DEF Aborts
        <4>. QED
          BY <4>1, QuietRewrites DEF Becomes
      <3>3. CASE Prepare(n)
        <4>1. PICK pc, held : Becomes(n, pc, held) /\ pc = "prepared" /\ write[n].pc # "acked"
          BY <1>0, <3>3, PrepareFacts DEF Prepare
        <4>. QED
          BY <4>1, QuietRewrites DEF Becomes
      <3>4. CASE Publish(n)
        <4>1. PICK pc, seq, held :
                /\ Rewrites(n, pc, seq, held, write[n].arrived, write[n].cancelled, write[n].result, write[n].committed)
                /\ pc \in {"published", "dropped"} /\ write[n].pc # "acked"
          BY <1>0, <3>4, PublishFacts DEF Becomes, Publish
        <4>. QED
          BY <4>1, QuietRewrites
      <3>5. CASE Cancel(n)
        <4>1. PICK pc, cancelled, result :
                /\ Rewrites(n, pc, write[n].seq, write[n].held, write[n].arrived, cancelled, result, write[n].committed)
                /\ pc = "releasing" /\ write[n].pc # "acked"
          BY <1>0, <3>5, WriteFacts DEF Cancel
        <4>. QED
          BY <4>1, QuietRewrites
      <3>. QED
        BY <1>2, <3>1, <3>2, <3>3, <3>4, <3>5 DEF WriteMove
    <2>. QED
      BY <1>0, <1>r, <2>1, <2>2, StuttersKept
  <1>3. ASSUME NEW i \in Inode, JobMove(i), ~Commit(i), ~Complete(i) PROVE Stutters
    <2>0. PICK n : n = lane[i].job
      OBVIOUS
    <2>1. CASE Retire(i) \/ (\E step \in Steps : Proceeds(i, step))
      <3>1. UNCHANGED <<write, runtime, base, punched>>
        BY <2>1 DEF Retire, Proceeds, clients
      <3>. QED
        BY <1>0, <1>q, <3>1, StuttersKept
    <2>2. CASE Fail(i)
      <3>1. UNCHANGED <<write, base, punched>> /\ \A j \in Inode : runtime'[j].entries = runtime[j].entries
        BY <1>0, <2>2, FailFacts DEF Fail, clients
      <3>. QED
        BY <1>0, <1>q, <3>1, StuttersKept
    <2>3. CASE Arrive(i)
      <3>1. PICK h : h = Head(lane[i].queue)
        OBVIOUS
      <3>2. /\ h \in DOMAIN write /\ UNCHANGED <<base, punched, runtime>>
            /\ \/ write' = write
               \/ Rewrites(h, write[h].pc, write[h].seq, write[h].held, write[h].arrived + 1, write[h].cancelled, write[h].result, write[h].committed)
        BY <1>0, <2>3, <3>1, ArriveFacts DEF Arrive, clients
      <3>3. Quiet
        BY <1>q, <3>2, QuietRewrites
      <3>. QED
        BY <1>0, <3>2, <3>3, StuttersKept
    <2>4. ASSUME NEW r \in {"ok", "err"}, Concludes(i, r) PROVE Stutters
      <3>1. /\ UNCHANGED <<runtime, base, punched>> /\ n \in DOMAIN write
            /\ Rewrites(n, write[n].pc, write[n].seq, FALSE, write[n].arrived, write[n].cancelled, Outcome(n, r), write[n].committed)
        BY <2>0, <2>4, DispatchFacts DEF Concludes, Settles, clients
      <3>2. PICK held, result : Rewrites(n, write[n].pc, write[n].seq, held, write[n].arrived, write[n].cancelled, result, write[n].committed)
        BY <3>1
      <3>3. Quiet
        BY <3>1, <3>2, QuietRewrites
      <3>. QED
        BY <1>0, <3>1, <3>3, StuttersKept
    <2>5. CASE Submit(i)
      <3>1. n \in DOMAIN write /\ Becomes(n, write[n].pc, FALSE) /\ UNCHANGED <<base, punched, runtime>>
        BY <1>0, <2>0, <2>5, SubmitFacts DEF Submit, clients
      <3>2. PICK held : Becomes(n, write[n].pc, held)
        BY <3>1
      <3>3. Quiet
        BY <3>1, <3>2, QuietRewrites DEF Becomes
      <3>. QED
        BY <1>0, <3>1, <3>3, StuttersKept
    <2>. QED
      BY <1>3, <2>1, <2>2, <2>3, <2>4, <2>5 DEF JobMove, LaneMove
  <1>4. ASSUME NEW c \in Client, Asks(c) PROVE Stutters
    <2>1. UNCHANGED <<write, base, punched>> /\ Reaps(c)
      BY <1>0, <1>4, AskFacts
    <2>. QED
      BY <1>0, <1>q, <1>r, <2>1, StuttersKept
  <1>5. CASE Stop \/ UNCHANGED vars
    <2>1. UNCHANGED <<write, base, punched, runtime>>
      BY <1>5 DEF Stop, vars, clients
    <2>. QED
      BY <1>0, <1>q, <2>1, StuttersKept
  <1>6. ASSUME NEW n \in DOMAIN write, WriteMove(n) PROVE Stutters \/ Answers(n)
    BY <1>0, <1>2, <1>6, StageUnseen, ShowSeen
  <1>7. ASSUME NEW i \in Inode, JobMove(i) PROVE Stutters
    BY <1>0, <1>3, <1>7, CommitUnseen, CompleteUnseen
  <1>8. ASSUME NEW c \in Client, Punch(c) PROVE \E i \in Inode : Clears(i)
    BY <1>0, <1>8, PunchSeen
  <1>. QED
    BY <1>1, <1>4, <1>5, <1>6, <1>7, <1>8, Cases

\* The pipeline implements VolatileFile: a client sees every acknowledged write at
\* once on all its inodes, once, and never again after a later hole punch, whatever
\* the lanes, the rollbacks, the failures and the fences do behind it.
THEOREM MutationRefines == Spec => ImplementsVolatileFile
  <1>1. Init => Promise!Init
    <2>. SUFFICES ASSUME Init PROVE Promise!Init
      OBVIOUS
    <2>1. MutInv /\ Types
      BY Initially DEF MutInv
    <2>2. {n \in DOMAIN write : Visible(n)} = {} /\ punched = 0
      BY DEF Init
    <2>3. ASSUME NEW i \in Inode PROVE Contents(i) = [x \in Cell |-> 0]
      <3>1. Seen(i)
        BY <2>1, ContentsSeen
      <3>2. runtime[i].entries = <<>> /\ \A x \in Cell : base[i].at[x] = 0
        BY DEF Init, NoRuntime, Zero
      <3>3. ASSUME NEW x \in Cell PROVE Contents(i)[x] = 0
        <4>1. Shows(i, x, 0)
          BY <3>2 DEF Shows
        <4>. QED
          BY <3>1, <4>1 DEF Seen
      <3>. QED
        BY <3>1, <3>3 DEF Seen
    <2>. QED
      BY <2>2, <2>3 DEF Promise!Init, Promise!Zero
  <1>2. MutInv /\ [Next]_vars => [Promise!Next]_(Promise!vars)
    <2>. SUFFICES ASSUME MutInv, [Next]_vars PROVE [Promise!Next]_(Promise!vars)
      OBVIOUS
    <2>1. CASE Stutters
      <3>1. [i \in Inode |-> Contents(i)]' = [i \in Inode |-> Contents(i)]
        BY <2>1 DEF Stutters
      <3>. QED
        BY <2>1, <3>1 DEF Stutters, Acked, Promise!vars
    <2>2. ASSUME NEW n \in DOMAIN write, Answers(n) PROVE Promise!Next
      <3>1. [i \in Inode |-> Contents(i)]' =
              [i \in Inode |-> [x \in Cell |->
                 IF i \in write[n].inos /\ x \in write[n].cells THEN n ELSE [j \in Inode |-> Contents(j)][i][x]]]
        BY <2>2 DEF Answers
      <3>2. Promise!Write(n, write[n].inos, write[n].cells)
        BY <2>2, <3>1 DEF Answers, Acked, Promise!Write
      <3>. QED
        BY <2>2, <3>2 DEF Answers, Names, Promise!Next
    <2>3. ASSUME NEW i \in Inode, Clears(i) PROVE Promise!Next
      <3>1. [j \in Inode |-> Contents(j)]' = [[j \in Inode |-> Contents(j)] EXCEPT ![i] = [x \in Cell |-> 0]]
        BY <2>3 DEF Clears, Zero
      <3>2. Promise!Punch(i)
        BY <2>3, <3>1 DEF Clears, Acked, Promise!Punch, Promise!Zero
      <3>. QED
        BY <3>2 DEF Promise!Next
    <2>. QED
      BY <2>1, <2>2, <2>3, SeenStep
  <1>. QED
    BY <1>1, <1>2, MutationInvariant, PTL DEF Spec, ImplementsVolatileFile, Promise!Spec

=============================================================================
