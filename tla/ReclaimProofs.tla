--------------------------- MODULE ReclaimProofs ---------------------------
(***************************************************************************)
(* The collector of Reclaim beside the data plane of Segments, for any      *)
(* number of files, writers, readers, checkpoints, passes, compactions,     *)
(* failures and crashes:                                                    *)
(*   - no read fails, however passes and compactions race with it;          *)
(*   - live counters stay exact, and durable pointers stay readable;        *)
(*   - readers, restarts and the checkpoints that the passes have seen get  *)
(*     what DurableStore allows.                                            *)
(* RecInv below is the inductive invariant.  It extends SegInv, which every *)
(* step of the collector keeps (CollectSegInv), by what a pass knows of the *)
(* segments it picked: nobody can come to point to them any more.           *)
(***************************************************************************)
EXTENDS Reclaim, SegmentsProofs

-----------------------------------------------------------------------------
(* The inductive invariant *)

(* What compaction gathers, and where it put it.                            *)
Gathered == [slot : Slot, src : Location, data : SUBSET (0..MaxWrites)]
Placed == [slot : Slot, src : Location, new : Location]

Passes == [pc : {"idle", "barrier", "seal", "gate", "scan", "list", "verify", "delete", "dropping",
                 "select", "pack", "repoint", "swapping"},
           sweep : BOOLEAN, cutoff : Nat, open : SUBSET Segid, horizon : Nat, pinned : BOOLEAN,
           cand : SUBSET Segid, todo : SUBSET Segid, target : Segid \cup {Free}, freed : SUBSET Segid,
           frames : SUBSET (Gathered \cup Placed), pack : Segid \cup {Free}, swapped : Nat]
Fetches == [pc : {"idle", "fetch", "retry", "error"}, slot : Slot \cup {Free}, loc : Location \cup {Free},
            left : 0..(Floor - 1)]
Pins == [ptr : [Slot -> Location \cup {Free}], lasting : BOOLEAN, left : 0..Lifetime, raced : BOOLEAN]

(* Types, of the collector, its readers and the checkpoints.                *)
GcTypes ==
    /\ gc \in Passes
    /\ DOMAIN deleteAt \subseteq Segid /\ \A g \in DOMAIN deleteAt : deleteAt[g] \in Nat
    /\ DOMAIN kept \subseteq Name /\ \A n \in DOMAIN kept : kept[n] \in Pins
    /\ reader \in [Reader -> Fetches]
    /\ packs \in Nat

(* What a pass holds in each of its phases: from its start to its flush     *)
(* both barriers, with every location published and, once the seal has      *)
(* succeeded, nothing left in RAM; later at most one transaction.           *)
Moving == {"repoint", "swapping"}
Phases ==
    /\ gc.pc \notin {"gate", "scan", "list"} => gc.cutoff = 0
    /\ gc.pc \notin Moving => gc.pack = Free
    /\ gc.pc = "delete" => gc.target # Free
    /\ gc.pc = "seal" <=> barrier = "gc"
    /\ flusher.pc = "seal" <=> barrier = "flush"
    /\ gc.pc \in {"barrier", "seal"} => refs /\ Published
    /\ \A i \in DOMAIN queue : queue[i].owner = "gc" =>
          gc.pc = IF queue[i].slot = Free THEN "dropping" ELSE "swapping"
    /\ barrier = "gc" /\ seal.pc = "upload" /\ ~seal.failed => DOMAIN sealing \subseteq seal.ups
    /\ barrier = "gc" /\ seal.pc = "ok" => DOMAIN sealing = {}

(* Every segment a pass may pick can gain no pointer, and none of those it  *)
(* takes for dead has one.  A segment with a durable pointer is counted.    *)
Named == DOMAIN deleteAt \cup gc.todo \cup gc.freed \cup ({gc.target} \ {Free})
Aged ==
    /\ \A g \in Segid : Eligible(g) => Old(g) /\ g # gc.pack
    /\ \A g \in gc.cand : Old(g) /\ g # gc.pack
    /\ \A g \in Named : Buried(g) /\ g # gc.pack
    /\ \A s \in Slot : durable.ptr[s] # Free => durable.ptr[s].segid \in DOMAIN mem.count

(* Compaction's copies read as what was gathered, which is still there.     *)
Moved ==
    /\ gc.pc = "pack" => /\ IsFiniteSet(gc.frames) /\ gc.frames \subseteq Gathered
                         /\ \A f \in gc.frames : 0 \notin f.data /\ f.data = Bytes[f.src][f.slot]
    /\ gc.pc \in Moving =>
          /\ gc.pack \in DOMAIN store /\ gc.frames \subseteq Placed
          /\ \A f \in gc.frames : /\ 0 \notin Bytes[f.src][f.slot] /\ Bytes[f.new][f.slot] = Bytes[f.src][f.slot]
                                  /\ f.new.segid = gc.pack
          /\ gc.swapped = 0 => Buried(gc.pack)

(* The segments whose object or counter the collector may remove without    *)
(* another look at the clock.                                               *)
QueuedDrops == UNION {queue[i].drop : i \in DOMAIN queue}
Doomed == gc.todo \cup gc.freed \cup {gc.target} \cup QueuedDrops
          \cup (IF gc.swapped = 0 THEN {gc.pack} ELSE {})

(* A location a reader resolved is readable or nobody's any more; one that  *)
(* it resolved for the second time stays readable for as long as a read may *)
(* take.                                                                    *)
Lost(x) == x.pc = "fetch" /\ 0 \in Bytes[x.loc][x.slot]
Reads(r) ==
    /\ reader[r].pc # "error"
    /\ reader[r].pc # "idle" => reader[r].slot \in Slot /\ reader[r].loc \in Location
    /\ Lost(reader[r]) => Buried(reader[r].loc.segid) /\ reader[r].loc.segid \notin DOMAIN store
    /\ (reader[r].pc = "retry" \/ Lost(reader[r])) /\ gc.pc = "scan" => gc.horizon > reader[r].left
    /\ reader[r].pc = "retry" =>
          /\ 0 \notin Bytes[reader[r].loc][reader[r].slot]
          /\ reader[r].loc.segid \notin Doomed
          /\ reader[r].loc.segid \in DOMAIN mem.count
          /\ reader[r].loc.segid \in DOMAIN deleteAt => deleteAt[reader[r].loc.segid] > reader[r].left

(* A checkpoint the passes have seen keeps its segments: none of them is to *)
(* be removed, and those that wait for their deletion outlast it.           *)
Held(g, n) ==
    /\ g \in DOMAIN mem.count /\ g \in DOMAIN durable.count /\ g \notin Doomed
    /\ g \in DOMAIN deleteAt => ~kept[n].lasting /\ kept[n].left <= deleteAt[g]
Keeps(n) ==
    /\ ~kept[n].lasting => kept[n].left > 0
    /\ ~kept[n].raced =>
         /\ gc.pc = "scan" /\ ~gc.pinned => ~kept[n].lasting /\ kept[n].left <= gc.horizon
         /\ \A s \in Slot : 0 \notin StoredContents(kept[n].ptr)[s]
         /\ \A s \in Slot : kept[n].ptr[s] # Free => Held(kept[n].ptr[s].segid, n)

RecInv ==
    /\ SegInv /\ GcTypes /\ Phases /\ Aged /\ Moved
    /\ \A r \in Reader : Reads(r)
    /\ \A n \in DOMAIN kept : Keeps(n)

-----------------------------------------------------------------------------
(* What the collector's own steps do to the data plane *)

(* It removes objects nobody points to, and puts its pack under a new id.   *)
CollectStore ==
    /\ \A g \in DOMAIN store : IF g \in DOMAIN store' THEN store'[g] = store[g] ELSE Buried(g)
    /\ \A g \in DOMAIN store' : g \in DOMAIN store \/ (g = nextSegid /\ store'[g] \in Seq(Frame) /\ nextSegid' = NextSegid)
    /\ nextSegid' \in {nextSegid, NextSegid}

(* It submits one transaction at a time: a move of a slot nobody writes, to *)
(* the pack's copy of what it points to; or the counters of dead segments.  *)
CollectTxn(t) ==
    /\ t \in Txns /\ queue' = Append(queue, t) /\ t.owner = "gc"
    /\ \A i \in DOMAIN queue : queue[i].owner # "gc"
    /\ \A g \in t.drop : Buried(g) /\ g # gc.pack
    /\ t.slot = Free => lock' = lock
    /\ t.slot # Free =>
          /\ lock' = [lock EXCEPT ![t.slot] = "gc"] /\ lock[t.slot] = Free /\ Settled(t.slot)
          /\ t.debit = SegidOf(mem.ptr[t.slot])
          /\ Bytes[t.loc][t.slot] = Contents[t.slot]
          /\ t.loc.segid = gc.pack /\ gc.pack \in DOMAIN store /\ store' = store
CollectQueue == (queue' = queue /\ lock' = lock) \/ \E t \in Txns : CollectTxn(t)

(* It seals and flushes like the flush worker, and answers nobody.          *)
CollectSeal ==
    /\ \/ UNCHANGED <<barrier, seal>>
       \/ barrier = Free /\ barrier' = "gc" /\ seal' = [NoSeal EXCEPT !.pc = "publish"]
       \/ barrier' = Free /\ seal' = NoSeal
    /\ durable' = durable \/ (durable' = mem /\ Uploaded({}) /\ store' = store /\ nextSegid' = nextSegid)
    /\ clock' \in [writes : Nat, applied : Nat, durable : Nat, synced : Nat, fails : Nat]
    /\ clock'.writes = clock.writes /\ clock'.applied = clock.applied /\ clock'.synced = clock.synced
    /\ clock'.durable \in {clock.durable, clock.applied}
    /\ refs' \in BOOLEAN

Collect ==
    /\ UNCHANGED <<lane, gate, sealing, uploads, mem, writer, flusher, request, written>>
    /\ CollectStore /\ CollectQueue /\ CollectSeal

\* The queue after a submission of the collector.
LEMMA CollectQueueFacts ==
    ASSUME Types, CollectQueue
    PROVE  /\ \A i \in DOMAIN queue : i \in DOMAIN queue' /\ queue'[i] = queue[i]
           /\ \A i \in DOMAIN queue' : \/ i \in DOMAIN queue /\ queue'[i] = queue[i]
                                       \/ CollectTxn(queue'[i]) /\ DOMAIN queue' = DOMAIN queue \cup {i} /\ i \notin DOMAIN queue
           /\ queue' \in Seq(Txns) /\ lock' \in [Slot -> Writer \cup {Free, "gc"}]
           /\ \A w \in Writer, s \in Slot : lock'[s] = w <=> lock[s] = w
  <1>. DbTypes /\ TaskTypes
    BY DEF Types
  <1>1. CASE queue' = queue /\ lock' = lock
    BY <1>1 DEF DbTypes, TaskTypes
  <1>2. ASSUME NEW t \in Txns, CollectTxn(t)
        PROVE  /\ \A i \in DOMAIN queue : i \in DOMAIN queue' /\ queue'[i] = queue[i]
               /\ \A i \in DOMAIN queue' : \/ i \in DOMAIN queue /\ queue'[i] = queue[i]
                                           \/ CollectTxn(queue'[i]) /\ DOMAIN queue' = DOMAIN queue \cup {i} /\ i \notin DOMAIN queue
               /\ queue' \in Seq(Txns) /\ lock' \in [Slot -> Writer \cup {Free, "gc"}]
               /\ \A w \in Writer, s \in Slot : lock'[s] = w <=> lock[s] = w
    <2>1. /\ DOMAIN queue' = DOMAIN queue \cup {Len(queue) + 1} /\ Len(queue) + 1 \notin DOMAIN queue
          /\ queue'[Len(queue) + 1] = t /\ \A i \in DOMAIN queue : queue'[i] = queue[i]
      BY <1>2, QueueGrows DEF CollectTxn
    <2>2. queue' \in Seq(Txns)
      BY <1>2 DEF CollectTxn, DbTypes
    <2>3. /\ lock' \in [Slot -> Writer \cup {Free, "gc"}]
          /\ \A w \in Writer, s \in Slot : lock'[s] = w <=> lock[s] = w
      BY <1>2, Constants DEF CollectTxn, TaskTypes
    <2>. QED
      BY <1>2, <2>1, <2>2, <2>3
  <1>. QED
    BY <1>1, <1>2 DEF CollectQueue

\* The collector keeps the types, the segment ids and the gates.
LEMMA CollectTypes ==
    ASSUME SegInv, Collect
    PROVE  Types' /\ Segids' /\ Gates' /\ Clocks'
  <1>. Types /\ Segids /\ Gates /\ Clocks /\ Sealed
    BY DEF SegInv
  <1>. DataTypes /\ DbTypes /\ TaskTypes
    BY DEF Types
  <1>1. nextSegid' \in Segid /\ nextSegid'.epoch = nextSegid.epoch
        /\ \A g \in Segid : Before(g, nextSegid) => Before(g, nextSegid')
    BY BeforeFacts DEF Collect, CollectStore, NextSegid, DataTypes, Segid, Before
  <1>2. \A g \in DOMAIN store' : g \in Segid /\ store'[g] \in Seq(Frame)
    BY DEF Collect, CollectStore, DataTypes
  <1>3. DataTypes'
    BY <1>1, <1>2 DEF Collect, DataTypes
  <1>4. DbTypes'
    BY CollectQueueFacts DEF Collect, CollectSeal, DbTypes, ImageOK
  <1>5. TaskTypes'
    <2>1. seal' \in Seals /\ barrier' \in {Free, "flush", "gc"}
      BY NoSealType DEF Collect, CollectSeal, TaskTypes
    <2>. QED
      BY <2>1, CollectQueueFacts DEF Collect, CollectSeal, TaskTypes
  <1>6. Segids'
    <2>1. \A g \in DOMAIN store' : g \in DOMAIN store \/ (g = nextSegid /\ nextSegid' = NextSegid)
      BY DEF Collect, CollectStore
    <2>2. nextSegid' = NextSegid => Before(nextSegid, nextSegid')
      BY DEF NextSegid, Before, DataTypes, Segid
    <2>3. \A g \in DOMAIN store' : Before(g, nextSegid')
      BY <1>1, <2>1, <2>2 DEF Segids, DataTypes
    <2>4. ASSUME NEW l \in Lane
          PROVE  /\ lane[l].segid.epoch = nextSegid'.epoch /\ Before(lane[l].segid, nextSegid')
                 /\ lane[l].segid \notin DOMAIN sealing \cup DOMAIN store'
      BY <1>1, <2>1, BeforeFacts DEF Segids, DataTypes
    <2>5. \A g \in DOMAIN sealing : Before(g, nextSegid') /\ g # nextSegid
      BY <1>1, BeforeFacts DEF Segids, DataTypes
    <2>6. \A g \in DOMAIN sealing \cap DOMAIN store' : sealing[g] = store'[g]
      BY <2>1, <2>5 DEF Segids, Collect, CollectStore
    <2>7. lane' = lane /\ sealing' = sealing
      BY DEF Collect
    <2>. QED
      BY <2>3, <2>4, <2>5, <2>6, <2>7 DEF Segids
  <1>7. Gates'
    <2>1. UNCHANGED <<gate, writer>>
      BY DEF Collect
    <2>2. CASE seal' = seal
      BY <2>1, <2>2 DEF Gates
    <2>3. CASE seal' = NoSeal \/ seal' = [NoSeal EXCEPT !.pc = "publish"]
      <3>1. seal'.pc \in {"none", "publish"} /\ seal'.lane = 1
        BY <2>3 DEF NoSeal
      <3>2. \A l \in Lane : ~(l < 1)
        BY DEF Lane
      <3>. QED
        BY <2>1, <3>1, <3>2 DEF Gates
    <2>. QED
      BY <2>2, <2>3 DEF Collect, CollectSeal
  <1>8. Clocks'
    BY DEF Collect, CollectSeal, Clocks, TaskTypes
  <1>. QED
    BY <1>3, <1>4, <1>5, <1>6, <1>7, <1>8 DEF Types

\* Nor does the collector give a pointer to a segment that can gain none, its own pack excepted.
LEMMA CollectOld ==
    ASSUME SegInv, Collect, NEW g, Old(g), g # gc.pack \/ queue' = queue
    PROVE  Old(g)'
  <1>. Types /\ Segids /\ DataTypes
    BY DEF SegInv, Types
  <1>1. UNCHANGED <<lane, sealing, mem, writer>>
    BY DEF Collect
  <1>2. g \in Segid /\ Before(g, nextSegid')
    <2>1. /\ nextSegid.counter \in Nat /\ nextSegid'.epoch = nextSegid.epoch
          /\ nextSegid'.counter \in {nextSegid.counter, nextSegid.counter + 1}
      BY DEF Collect, CollectStore, NextSegid, DataTypes, Segid
    <2>2. g \in Segid /\ g.counter \in Nat /\ Before(g, nextSegid)
      BY BeforeFacts DEF Old
    <2>. QED
      BY <2>1, <2>2 DEF Before
  <1>3. ASSUME NEW i \in DOMAIN queue' PROVE SegidOf(queue'[i].loc) # g
    <2>1. CASE i \in DOMAIN queue /\ queue'[i] = queue[i]
      BY <2>1 DEF Old
    <2>2. CASE CollectTxn(queue'[i]) /\ i \notin DOMAIN queue
      <3>1. PICK t \in Txns : t = queue'[i]
        BY <2>2 DEF CollectTxn
      <3>2. t.slot = Free \/ t.loc.segid = gc.pack
        BY <2>2, <3>1 DEF CollectTxn
      <3>3. SegidOf(t.loc) \in {Free, gc.pack}
        BY <3>2, TxnFields DEF SegidOf, Hole
      <3>. QED
        BY <1>2, <2>2, <3>1, <3>3, Constants
    <2>. QED
      BY <2>1, <2>2, CollectQueueFacts DEF Collect
  <1>4. \A s \in Slot : SegidOf(mem.ptr[s]) = g => SegidOf(durable'.ptr[s]) = g
    BY DEF Old, Collect, CollectSeal
  <1>5. \A w \in Writer : Active(w)' <=> Active(w)
    BY <1>1 DEF Active
  <1>. QED
    BY <1>1, <1>2, <1>3, <1>4, <1>5 DEF Old

\* And a segment nobody points to stays so.
LEMMA CollectBuried ==
    ASSUME SegInv, Collect, NEW g, Buried(g), g # gc.pack \/ queue' = queue
    PROVE  Buried(g)'
  <1>1. Old(g)'
    BY CollectOld DEF Buried
  <1>2. durable' \in {mem, durable}
    BY DEF Collect, CollectSeal
  <1>3. \A s \in Slot : SegidOf(durable'.ptr[s]) # g
    BY <1>2, BuriedUnseen
  <1>. QED
    BY <1>1, <1>3 DEF Buried

(* What is readable stays so, unless its object was removed.                *)
BytesKept == \A loc \in Location, s \in Slot :
    0 \notin Bytes[loc][s] /\ (loc.segid \in DOMAIN store => loc.segid \in DOMAIN store')
       => Bytes'[loc][s] = Bytes[loc][s]

\* A readable location is in a segment that exists, which its id shows.
LEMMA ReadableBefore ==
    ASSUME Types, Segids, NEW loc \in Location, NEW s \in Slot, 0 \notin Bytes[loc][s]
    PROVE  /\ loc.segid \in Segid /\ Before(loc.segid, nextSegid) /\ loc.segid # nextSegid
           /\ \/ loc.segid \in DOMAIN sealing \cup DOMAIN store
              \/ \E l \in Lane : lane[l].segid = loc.segid
  <1>1. loc.segid \in Segid
    BY DEF Location
  <1>2. DirectoryFacts
    BY DirectoryLookup
  <1>3. Directory(loc.segid) # <<>>
    BY DEF Bytes, ReadFrame, FrameIn, Unreadable
  <1>4. loc.segid \in DOMAIN sealing \cup DOMAIN store \/ \E l \in Lane : lane[l].segid = loc.segid
    BY <1>2, <1>3 DEF DirectoryFacts
  <1>5. Before(loc.segid, nextSegid)
    BY <1>4 DEF Segids
  <1>. QED
    BY <1>1, <1>4, <1>5, BeforeFacts DEF Types

\* The collector's steps change no segment that they do not remove.
LEMMA CollectBytes ==
    ASSUME SegInv, Collect
    PROVE  BytesKept
  <1>. SUFFICES ASSUME NEW loc \in Location, NEW s \in Slot, 0 \notin Bytes[loc][s],
                       loc.segid \in DOMAIN store => loc.segid \in DOMAIN store'
                PROVE  Bytes'[loc][s] = Bytes[loc][s]
    BY DEF BytesKept
  <1>. Types /\ Segids
    BY DEF SegInv
  <1>1. DirectoryFacts /\ DirectoryFacts'
    BY CollectTypes, DirectoryLookup, DirectoryLookupNext
  <1>2. lane' = lane /\ sealing' = sealing
    BY DEF Collect
  <1>3. Directory(loc.segid)' = Directory(loc.segid)
    <2>1. CASE loc.segid \in DOMAIN store
      BY <1>1, <2>1 DEF DirectoryFacts, Collect, CollectStore
    <2>2. CASE loc.segid \in DOMAIN sealing
      BY <1>1, <1>2, <2>2 DEF DirectoryFacts
    <2>3. ASSUME NEW l \in Lane, lane[l].segid = loc.segid PROVE Directory(loc.segid)' = Directory(loc.segid)
      <3>1. Directory(loc.segid) = lane[l].dir
        BY <1>1, <2>3 DEF DirectoryFacts
      <3>2. Directory(loc.segid)' = lane'[l].dir
        BY <1>1, <1>2, <2>3 DEF DirectoryFacts
      <3>. QED
        BY <1>2, <3>1, <3>2
    <2>. QED
      BY <2>1, <2>2, <2>3, ReadableBefore
  <1>. QED
    BY <1>3 DEF Bytes, ReadFrame, FrameIn

\* What anybody holds is not in a removed object.
LEMMA CollectHeld ==
    ASSUME SegInv, Collect
    PROVE  /\ \A s \in Slot : mem.ptr[s] # Free => Bytes'[mem.ptr[s]][s] = Bytes[mem.ptr[s]][s]
           /\ \A i \in DOMAIN queue : queue[i].loc # Free =>
                 Bytes'[queue[i].loc][queue[i].slot] = Bytes[queue[i].loc][queue[i].slot]
           /\ \A w \in Writer : writer[w].pc = "filled" =>
                 Bytes'[writer[w].loc][writer[w].slot] = Bytes[writer[w].loc][writer[w].slot]
           /\ Contents' = Contents
  <1>. Types /\ Locks /\ Ids /\ Frames /\ Segids
    BY DEF SegInv
  <1>. DbTypes
    BY DEF Types
  <1>0. BytesKept /\ Types'
    BY CollectBytes, CollectTypes
  <1>1. \A g \in DOMAIN store : g \notin DOMAIN store' => Buried(g)
    BY DEF Collect, CollectStore
  <1>2. ASSUME NEW s \in Slot, mem.ptr[s] # Free PROVE Bytes'[mem.ptr[s]][s] = Bytes[mem.ptr[s]][s]
    <2>1. mem.ptr[s] \in Location /\ SegidOf(mem.ptr[s]) = mem.ptr[s].segid
      BY <1>2 DEF DbTypes, ImageOK, SegidOf, Hole
    <2>2. ~Buried(mem.ptr[s].segid)
      BY <2>1, BuriedUnseen
    <2>3. 0 \notin Bytes[mem.ptr[s]][s]
      BY <1>2 DEF Frames
    <2>. QED
      BY <1>0, <1>1, <2>1, <2>2, <2>3 DEF BytesKept
  <1>3. ASSUME NEW i \in DOMAIN queue, queue[i].loc # Free
        PROVE  Bytes'[queue[i].loc][queue[i].slot] = Bytes[queue[i].loc][queue[i].slot]
    <2>1. /\ queue[i].loc \in Location /\ queue[i].slot \in Slot
          /\ 0 \notin Bytes[queue[i].loc][queue[i].slot]
      BY <1>3, WritesReadable
    <2>2. SegidOf(queue[i].loc) = queue[i].loc.segid
      BY <1>3 DEF SegidOf, Hole
    <2>3. ~Buried(queue[i].loc.segid)
      BY <2>2 DEF Buried, Old
    <2>. QED
      BY <1>0, <1>1, <2>1, <2>3 DEF BytesKept
  <1>4. ASSUME NEW w \in Writer, writer[w].pc = "filled"
        PROVE  Bytes'[writer[w].loc][writer[w].slot] = Bytes[writer[w].loc][writer[w].slot]
    <2>1. Active(w) /\ writer[w].loc \in Location /\ writer[w].slot \in Slot
      BY <1>4 DEF Active, Frames, Locks
    <2>2. 0 \notin Bytes[writer[w].loc][writer[w].slot]
      BY <1>4, WritesReadable
    <2>3. ~Buried(writer[w].loc.segid)
      BY <2>1 DEF Buried, Old
    <2>. QED
      BY <1>0, <1>1, <2>1, <2>2, <2>3 DEF BytesKept
  <1>5. mem' = mem
    BY DEF Collect
  <1>6. \A s \in Slot : Contents'[s] = Contents[s]
    BY <1>0, <1>2, <1>5, ContentsReadable, ContentsNext
  <1>7. Contents = [s \in Slot |-> Contents[s]] /\ Contents' = [s \in Slot |-> Contents'[s]]
    BY DEF Contents
  <1>8. Contents' = Contents
    BY <1>6, <1>7, Zenon
  <1>. QED
    BY <1>2, <1>3, <1>4, <1>8

\* The collector's transaction is on a slot nobody writes.
LEMMA CollectLocks ==
    ASSUME SegInv, Collect
    PROVE  Locks' /\ Ids'
  <1>. Types /\ Locks /\ Ids
    BY DEF SegInv
  <1>. DbTypes /\ TaskTypes
    BY DEF Types
  <1>1. writer' = writer /\ written' = written /\ clock'.writes = clock.writes
    BY DEF Collect, CollectSeal
  <1>2. \A w \in Writer : Active(w)' <=> Active(w)
    BY <1>1 DEF Active
  <1>3. \A w \in Writer, s \in Slot : lock'[s] = w <=> lock[s] = w
    BY CollectQueueFacts DEF Collect
  <1>4. ASSUME NEW i \in DOMAIN queue', CollectTxn(queue'[i])
        PROVE  /\ queue'[i].id = 0 /\ queue'[i].owner = "gc" /\ queue'[i].owner \notin Writer
               /\ \A w \in Writer : Active(w) => writer[w].slot # queue'[i].slot
               /\ \A j \in DOMAIN queue : /\ queue[j].owner # queue'[i].owner /\ queue[j].id # 0
                                          /\ queue[j].slot # queue'[i].slot
    <2>1. PICK t \in Txns : t = queue'[i]
      BY <1>4 DEF CollectTxn
    <2>2. t.owner = "gc" /\ t.id = 0 /\ t.slot \in Slot \cup {Free}
      BY <1>4, <2>1, TxnFields, Constants DEF CollectTxn
    <2>3. ASSUME NEW j \in DOMAIN queue
          PROVE  queue[j].owner # "gc" /\ queue[j].id # 0 /\ queue[j].slot \in Slot
      <3>1. queue[j] \in Txns /\ queue[j].owner # "gc"
        BY <1>4 DEF DbTypes, CollectTxn
      <3>. QED
        BY <3>1, TxnFields
    <2>4. \A j \in DOMAIN queue : queue[j].slot # t.slot
      BY <1>4, <2>1, <2>3, Constants DEF CollectTxn, Settled
    <2>5. \A w \in Writer : Active(w) => writer[w].slot # t.slot
      BY <1>4, <2>1, <2>2, Constants DEF CollectTxn, Locks
    <2>. QED
      BY <2>1, <2>2, <2>3, <2>4, <2>5, Constants
  <1>5. \A i \in DOMAIN queue' : \/ i \in DOMAIN queue /\ queue'[i] = queue[i]
                                 \/ CollectTxn(queue'[i]) /\ DOMAIN queue' = DOMAIN queue \cup {i} /\ i \notin DOMAIN queue
    BY CollectQueueFacts DEF Collect
  <1>6. ASSUME NEW i \in DOMAIN queue', NEW j \in DOMAIN queue',
               queue'[i].slot = queue'[j].slot \/ queue'[i].owner = queue'[j].owner \/ queue'[i].id = queue'[j].id
        PROVE  i = j
    <2>1. CASE i \in DOMAIN queue /\ queue'[i] = queue[i] /\ j \in DOMAIN queue /\ queue'[j] = queue[j]
      BY <1>6, <2>1 DEF Locks, Ids
    <2>2. CASE CollectTxn(queue'[i]) /\ DOMAIN queue' = DOMAIN queue \cup {i} /\ i \notin DOMAIN queue
      <3>1. SUFFICES ASSUME j # i PROVE FALSE
        OBVIOUS
      <3>2. j \in DOMAIN queue /\ queue'[j] = queue[j]
        BY <1>5, <2>2, <3>1
      <3>. QED
        BY <1>4, <1>6, <2>2, <3>2
    <2>3. CASE CollectTxn(queue'[j]) /\ DOMAIN queue' = DOMAIN queue \cup {j} /\ j \notin DOMAIN queue
      <3>1. SUFFICES ASSUME j # i PROVE FALSE
        OBVIOUS
      <3>2. i \in DOMAIN queue /\ queue'[i] = queue[i]
        BY <1>5, <2>3, <3>1
      <3>. QED
        BY <1>4, <1>6, <2>3, <3>2
    <2>. QED
      BY <1>5, <2>1, <2>2, <2>3
  <1>7. Locks'
    <2>1. ASSUME NEW i \in DOMAIN queue'
          PROVE  /\ queue'[i].owner \in Writer => writer'[queue'[i].owner].pc = "queued"
                 /\ \A w \in Writer : Active(w) => writer[w].slot # queue'[i].slot
      <3>1. CASE i \in DOMAIN queue /\ queue'[i] = queue[i]
        BY <1>1, <3>1 DEF Locks
      <3>2. CASE CollectTxn(queue'[i])
        BY <1>4, <3>2
      <3>. QED
        BY <1>5, <3>1, <3>2
    <2>. QED
      BY <1>1, <1>2, <1>3, <1>6, <2>1 DEF Locks
  <1>8. Ids'
    <2>1. clock.writes \in Nat /\ 0 \notin written
      BY DEF TaskTypes, DbTypes
    <2>2. ASSUME NEW i \in DOMAIN queue' PROVE queue'[i].id <= clock.writes /\ queue'[i].id \notin written
      <3>1. CASE i \in DOMAIN queue /\ queue'[i] = queue[i]
        BY <3>1 DEF Ids
      <3>2. CASE CollectTxn(queue'[i])
        BY <1>4, <2>1, <3>2
      <3>. QED
        BY <1>5, <3>1, <3>2
    <2>3. ASSUME NEW w \in Writer, Active(w), NEW i \in DOMAIN queue' PROVE queue'[i].id # writer[w].id
      <3>1. writer[w].id \in 1..clock.writes /\ writer[w].id # 0
        BY <2>1, <2>3 DEF Ids
      <3>2. CASE i \in DOMAIN queue /\ queue'[i] = queue[i]
        BY <2>3, <3>2 DEF Ids
      <3>3. CASE CollectTxn(queue'[i])
        BY <1>4, <3>1, <3>3
      <3>. QED
        BY <1>5, <3>2, <3>3
    <2>. QED
      BY <1>1, <1>2, <1>6, <2>2, <2>3 DEF Ids
  <1>. QED
    BY <1>7, <1>8

\* Every location anybody holds still reads as the bytes that were put there.
LEMMA CollectFrames ==
    ASSUME SegInv, Collect
    PROVE  Frames' /\ Durable'
  <1>. Types /\ Locks /\ Ids /\ Frames /\ Segids /\ Durable /\ Types'
    BY CollectTypes DEF SegInv
  <1>. DbTypes /\ TaskTypes
    BY DEF Types
  <1>1. UNCHANGED <<mem, writer, lane>> /\ Contents' = Contents
    BY CollectHeld DEF Collect
  <1>2. PointersRead'
    BY <1>1, CollectHeld DEF PointersRead, Frames
  <1>3. QueueReads'
    <2>. SUFFICES ASSUME NEW i \in DOMAIN queue', queue'[i].slot # Free
                  PROVE  /\ queue'[i].debit = SegidOf(mem.ptr[queue'[i].slot])
                         /\ queue'[i].loc # Free =>
                               Writes(Bytes'[queue'[i].loc][queue'[i].slot], queue'[i].id, Contents[queue'[i].slot])
      BY <1>1 DEF QueueReads
    <2>1. CASE i \in DOMAIN queue /\ queue'[i] = queue[i]
      BY <2>1, CollectHeld DEF Frames
    <2>2. CASE CollectTxn(queue'[i])
      <3>1. PICK t \in Txns : t = queue'[i]
        BY <2>2 DEF CollectTxn
      <3>2. t.id = 0 /\ t.slot \in Slot /\ t.loc \in Location
        BY <2>2, <3>1, TxnFields, Constants DEF CollectTxn
      <3>3. Bytes[t.loc][t.slot] = Contents[t.slot] /\ t.debit = SegidOf(mem.ptr[t.slot]) /\ store' = store
        BY <2>2, <3>1 DEF CollectTxn
      <3>4. 0 \notin Bytes[t.loc][t.slot]
        BY <3>2, <3>3, ContentsReadable
      <3>5. Bytes'[t.loc][t.slot] = Bytes[t.loc][t.slot]
        BY <3>2, <3>3, <3>4, CollectBytes DEF BytesKept
      <3>. QED
        BY <3>1, <3>2, <3>3, <3>5 DEF Writes
    <2>. QED
      BY <2>1, <2>2, CollectQueueFacts DEF Collect
  <1>4. ASSUME NEW w \in Writer PROVE ClaimReads(w)'
    <2>1. ClaimReads(w)
      BY FramesParts
    <2>2. Active(w)' <=> Active(w)
      BY <1>1 DEF Active
    <2>3. writer[w].pc = "filled" => Bytes'[writer[w].loc][writer[w].slot] = Bytes[writer[w].loc][writer[w].slot]
      BY CollectHeld
    <2>. QED
      BY <1>1, <2>1, <2>2, <2>3 DEF ClaimReads
  <1>5. Frames'
    BY <1>2, <1>3, <1>4, FramesPartsNext
  <1>6. Durable'
    <2>1. CASE durable' = durable
      <3>1. ASSUME NEW s \in Slot PROVE StoredContents(durable.ptr)'[s] = StoredContents(durable.ptr)[s]
        <4>1. CASE durable.ptr[s] = Free
          BY <2>1, <4>1 DEF StoredContents, Hole
        <4>2. CASE durable.ptr[s] # Free
          <5>1. SegidOf(durable.ptr[s]) = durable.ptr[s].segid
            BY <4>2 DEF SegidOf, Hole
          <5>2. durable.ptr[s].segid \in DOMAIN store
            BY <4>2 DEF Durable, StoredContents, Hole, Unreadable
          <5>3. ~Buried(durable.ptr[s].segid)
            BY <5>1, BuriedUnseen
          <5>4. durable.ptr[s].segid \in DOMAIN store' /\ store'[durable.ptr[s].segid] = store[durable.ptr[s].segid]
            BY <5>2, <5>3 DEF Collect, CollectStore
          <5>. QED
            BY <2>1, <4>2, <5>2, <5>4 DEF StoredContents, Hole
        <4>. QED
          BY <4>1, <4>2
      <3>. QED
        BY <3>1 DEF Durable
    <2>2. CASE durable' = mem /\ Uploaded({}) /\ store' = store
      <3>1. StoredContents(durable.ptr)' = StoredContents(mem.ptr)
        BY <2>2 DEF StoredContents
      <3>. QED
        BY <2>2, <3>1, UploadedContents, ContentsReadable DEF Durable
    <2>. QED
      BY <2>1, <2>2 DEF Collect, CollectSeal
  <1>. QED
    BY <1>5, <1>6

\* The collector's steps keep the data plane's invariant.
LEMMA CollectSegInv ==
    ASSUME SegInv, Collect
    PROVE  SegInv'
  <1>. Types /\ Segids /\ Sealed /\ LiveExact /\ Drops
    BY DEF SegInv
  <1>. DbTypes /\ TaskTypes
    BY DEF Types
  <1>1. Types' /\ Segids' /\ Gates' /\ Clocks' /\ Locks' /\ Ids' /\ Frames' /\ Durable'
    BY CollectTypes, CollectLocks, CollectFrames
  <1>2. Sealed'
    <2>1. ASSUME NEW S, Uploaded(S) PROVE Uploaded(S)'
      <3>. SUFFICES ASSUME NEW s \in Slot, mem'.ptr[s] # Free PROVE mem'.ptr[s].segid \in DOMAIN store' \cup S
        BY DEF Uploaded
      <3>1. mem.ptr[s] # Free /\ mem'.ptr[s] = mem.ptr[s] /\ SegidOf(mem.ptr[s]) = mem.ptr[s].segid
        BY DEF Collect, SegidOf, Hole
      <3>2. ~Buried(mem.ptr[s].segid)
        BY <3>1, BuriedUnseen
      <3>. QED
        BY <2>1, <3>1, <3>2 DEF Uploaded, Collect, CollectStore
    <2>2. sealing' = sealing
      BY DEF Collect
    <2>3. CASE UNCHANGED <<barrier, seal>>
      BY <2>1, <2>2, <2>3 DEF Sealed
    <2>4. CASE barrier' = "gc" /\ seal' = [NoSeal EXCEPT !.pc = "publish"]
      BY <2>2, <2>4, Constants DEF Sealed, NoSeal
    <2>5. CASE barrier' = Free /\ seal' = NoSeal
      BY <2>2, <2>5 DEF Sealed, NoSeal
    <2>. QED
      BY <2>3, <2>4, <2>5 DEF Collect, CollectSeal
  <1>3. LiveExact'
    <2>1. Exact(mem) /\ Exact(durable)
      BY DEF LiveExact, Exact
    <2>2. Exact(mem') /\ Exact(durable') => LiveExact'
      BY DEF LiveExact, Exact
    <2>3. mem' = mem /\ durable' \in {mem, durable}
      BY DEF Collect, CollectSeal
    <2>. QED
      BY <2>1, <2>2, <2>3
  <1>4. Drops'
    <2>. SUFFICES ASSUME NEW i \in DOMAIN queue', NEW g \in queue'[i].drop PROVE Buried(g)'
      BY DEF Drops
    <2>1. CASE queue' = queue
      BY <2>1, CollectBuried DEF Drops
    <2>2. ASSUME NEW t \in Txns, CollectTxn(t) PROVE Buried(g)'
      <3>1. ASSUME NEW j \in DOMAIN queue PROVE queue[j].drop = {}
        <4>1. queue[j] \in Txns /\ queue[j].owner # "gc"
          BY <2>2 DEF DbTypes, CollectTxn
        <4>. QED
          BY <4>1, TxnFields, Constants
      <3>2. CollectTxn(queue'[i])
        BY <3>1, CollectQueueFacts DEF Collect
      <3>3. PICK u \in Txns : u = queue'[i]
        BY <3>2 DEF CollectTxn
      <3>4. Buried(g) /\ g # gc.pack
        BY <3>2, <3>3 DEF CollectTxn
      <3>. QED
        BY <3>4, CollectBuried
    <2>. QED
      BY <2>1, <2>2 DEF Collect, CollectQueue
  <1>. QED
    BY <1>1, <1>2, <1>3, <1>4 DEF SegInv

-----------------------------------------------------------------------------
(* The collector's steps, one by one *)

(* The invariant without its readers and checkpoints.                       *)
Core == SegInv /\ GcTypes /\ Phases /\ Aged /\ Moved

\* The collector's bounds, and its fields when it sleeps.
LEMMA CollectorConstants ==
    /\ Floor \in Nat /\ Floor > 0 /\ Lifetime \in Nat /\ Lifetime > 0
    /\ Asleep \in Passes /\ NotReading \in Fetches
  BY ReclaimBounds, Constants DEF Asleep, Passes, NotReading, Fetches

\* Compaction can put its frames in some order.
LEMMA PackOrderFacts ==
    ASSUME IsFiniteSet(gc.frames)
    PROVE  /\ Cardinality(gc.frames) \in Nat
           /\ PackOrder \in [1..Cardinality(gc.frames) -> gc.frames]
  <1>1. Cardinality(gc.frames) \in Nat /\ ExistsBijection(1..Cardinality(gc.frames), gc.frames)
    BY FS_CardinalityType
  <1>2. \E q \in [1..Cardinality(gc.frames) -> gc.frames] : IsInjective(q)
    BY <1>1 DEF ExistsBijection, Bijection, Injection
  <1>. QED
    BY <1>1, <1>2 DEF PackOrder

(* The pack's directory.                                                    *)
Packed == [i \in 1..Cardinality(gc.frames) |-> [slot |-> PackOrder[i].slot, data |-> PackOrder[i].data]]
Stored == [g \in DOMAIN store \cup {nextSegid} |-> IF g = nextSegid THEN Packed ELSE store[g]]

\* What an upload of the pack puts on the store.
LEMMA PackFacts ==
    ASSUME Core, Pack
    PROVE  /\ Packed \in Seq(Frame) /\ nextSegid \notin DOMAIN store
           /\ store' \in {store, Stored} /\ nextSegid' = NextSegid
           /\ \/ store' = Stored /\ clock' = clock
              \/ gc' = Asleep /\ clock' = [clock EXCEPT !.fails = @ + 1]
           /\ UNCHANGED <<lane, gate, sealing, uploads, dbVars, lock, writer, refs, flushVars, deleteAt, kept, reader>>
  <1>. Types /\ Segids /\ DataTypes
    BY DEF Core, SegInv, Types
  <1>1. IsFiniteSet(gc.frames) /\ gc.frames \subseteq Gathered
    BY DEF Core, Moved, Pack
  <1>2. Cardinality(gc.frames) \in Nat /\ PackOrder \in [1..Cardinality(gc.frames) -> gc.frames]
    BY <1>1, PackOrderFacts
  <1>3. \A i \in 1..Cardinality(gc.frames) : PackOrder[i] \in Gathered
    BY <1>1, <1>2
  <1>4. Packed \in [1..Cardinality(gc.frames) -> Frame]
    BY <1>3 DEF Packed, Gathered, Frame
  <1>5. Packed \in Seq(Frame)
    BY <1>2, <1>4
  <1>6. nextSegid \notin DOMAIN store
    BY BeforeFacts DEF Segids, DataTypes
  <1>. QED
    BY <1>5, <1>6 DEF Pack, Stored, Packed

\* Every step of the collector is one of those that keep the data plane's invariant.
LEMMA CollectorActs ==
    ASSUME Core,
           \/ \E sweep \in BOOLEAN : BeginPass(sweep)
           \/ PassBarrier \/ PassFlushed \/ PassSealFailed \/ GateUnavailable
           \/ Delete \/ DropCounters \/ GatherFails \/ Pack
           \/ \E f \in gc.frames : Repoint(f)
           \/ PackEnd
    PROVE  Collect
  <1>. SegInv /\ GcTypes /\ Phases /\ Aged /\ Moved /\ Types /\ Segids /\ Sealed /\ Frames
    BY DEF Core, SegInv
  <1>. DataTypes /\ DbTypes /\ TaskTypes
    BY DEF Types
  <1>0. /\ clock \in [writes : Nat, applied : Nat, durable : Nat, synced : Nat, fails : Nat]
        /\ refs \in BOOLEAN /\ Free \notin DOMAIN store
    BY Constants DEF TaskTypes, DataTypes
  <1>1. ASSUME UNCHANGED <<store, nextSegid>> PROVE CollectStore
    BY <1>1 DEF CollectStore
  <1>2. ASSUME UNCHANGED <<queue, lock>> PROVE CollectQueue
    BY <1>2 DEF CollectQueue
  <1>3. ASSUME UNCHANGED <<barrier, seal, durable, refs>>,
               clock' = clock \/ clock' = [clock EXCEPT !.fails = @ + 1]
        PROVE  CollectSeal
    BY <1>0, <1>3 DEF CollectSeal
  <1>4. ASSUME NEW sweep \in BOOLEAN, BeginPass(sweep) PROVE Collect
    <2>1. CollectSeal
      BY <1>0, <1>4 DEF BeginPass, dbVars, flushVars, CollectSeal
    <2>. QED
      BY <1>1, <1>2, <1>4, <2>1 DEF BeginPass, dataVars, dbVars, flushVars, Collect
  <1>5. CASE PassBarrier
    <2>1. CollectSeal
      BY <1>0, <1>5 DEF PassBarrier, dbVars, CollectSeal
    <2>. QED
      BY <1>1, <1>2, <1>5, <2>1 DEF PassBarrier, dataVars, dbVars, Collect
  <1>6. CASE PassFlushed
    <2>1. Uploaded({})
      BY <1>6 DEF PassFlushed, Sealed
    <2>2. CollectSeal
      BY <1>0, <1>6, <2>1 DEF PassFlushed, dataVars, CollectSeal
    <2>. QED
      BY <1>1, <1>2, <1>6, <2>2 DEF PassFlushed, dataVars, Collect
  <1>7. CASE PassSealFailed
    <2>1. CollectSeal
      BY <1>0, <1>7 DEF PassSealFailed, dbVars, CollectSeal
    <2>. QED
      BY <1>1, <1>2, <1>7, <2>1 DEF PassSealFailed, dataVars, dbVars, Collect
  <1>8. CASE GateUnavailable \/ GatherFails
    BY <1>1, <1>2, <1>3, <1>8 DEF GateUnavailable, GatherFails, dataVars, dbVars, flushVars, Collect
  <1>9. ASSUME NEW g, g = Free \/ Buried(g), store' = Keep(store, DOMAIN store \ {g}), nextSegid' = nextSegid
        PROVE  CollectStore
    BY <1>0, <1>9 DEF CollectStore, Keep
  <1>10. CASE Delete
    <2>1. gc.target = Free \/ Buried(gc.target)
      BY DEF Aged, Named
    <2>2. CollectStore
      BY <1>1, <1>9, <1>10, <2>1 DEF Delete
    <2>3. CollectQueue /\ CollectSeal
      BY <1>2, <1>3, <1>10 DEF Delete, dbVars, flushVars
    <2>. QED
      BY <1>10, <2>2, <2>3 DEF Delete, dbVars, flushVars, Collect
  <1>11. CASE PackEnd
    <2>1. gc.swapped = 0 => Buried(gc.pack)
      BY <1>11 DEF PackEnd, Moved, Moving
    <2>2. CollectStore
      BY <1>1, <1>9, <1>11, <2>1 DEF PackEnd
    <2>3. CollectQueue /\ CollectSeal
      BY <1>2, <1>3, <1>11 DEF PackEnd, dbVars, flushVars
    <2>. QED
      BY <1>11, <2>2, <2>3 DEF PackEnd, dbVars, flushVars, Collect
  <1>12. CASE Pack
    <2>1. CollectStore
      BY <1>12, PackFacts DEF CollectStore, Stored
    <2>2. CollectQueue /\ CollectSeal
      BY <1>2, <1>3, <1>12, PackFacts DEF dbVars, flushVars
    <2>. QED
      BY <1>12, <2>1, <2>2, PackFacts DEF dbVars, flushVars, Collect
  <1>13. CASE DropCounters
    <2>. DEFINE t == [Txn("gc", 0, Free, Free, Free, FALSE) EXCEPT !.drop = gc.freed \cap DOMAIN mem.count]
    <2>1. CASE queue' = Append(queue, t)
      <3>0. PICK d : d = gc.freed \cap DOMAIN mem.count
        OBVIOUS
      <3>1. /\ t.owner = "gc" /\ t.id = 0 /\ t.slot = Free /\ t.loc = Free /\ t.debit = Free /\ t.guard = FALSE
            /\ t.drop = d
            /\ t = [owner |-> "gc", id |-> 0, slot |-> Free, loc |-> Free, debit |-> Free, guard |-> FALSE, drop |-> d]
        <4>1. SegidOf(Free) = Free
          BY DEF SegidOf, Hole
        <4>2. PICK n : n = SegidOf(Free)
          OBVIOUS
        <4>3. Txn("gc", 0, Free, Free, Free, FALSE) =
                 [owner |-> "gc", id |-> 0, slot |-> Free, loc |-> Free, debit |-> n, guard |-> FALSE, drop |-> {}]
          BY <4>2 DEF Txn
        <4>4. t = [[owner |-> "gc", id |-> 0, slot |-> Free, loc |-> Free, debit |-> n, guard |-> FALSE, drop |-> {}]
                     EXCEPT !.drop = d]
          BY <3>0, <4>3
        <4>. HIDE DEF t
        <4>5. t = [owner |-> "gc", id |-> 0, slot |-> Free, loc |-> Free, debit |-> n, guard |-> FALSE, drop |-> d]
          BY <4>4
        <4>. QED
          BY <4>1, <4>2, <4>5
      <3>2. d \in SUBSET Segid
        BY <3>0 DEF GcTypes, Passes
      <3>. HIDE DEF t
      <3>3. t \in [owner : Writer \cup {"gc"}, id : 0..MaxWrites, slot : Slot \cup {Free}, loc : Location \cup {Free},
                   debit : Segid \cup {Free}, guard : BOOLEAN, drop : SUBSET Segid]
        BY <3>1, <3>2, Constants
      <3>4. t \in Txns
        BY <3>1, <3>3, Constants DEF Txns, WellFormed
      <3>5. \A i \in DOMAIN queue : queue[i].owner # "gc"
        BY <1>13 DEF DropCounters, Phases
      <3>6. \A g \in t.drop : Buried(g) /\ g # gc.pack
        BY <3>0, <3>1 DEF Aged, Named
      <3>7. lock' = lock
        BY <1>13 DEF DropCounters
      <3>8. CollectTxn(t)
        BY <2>1, <3>1, <3>4, <3>5, <3>6, <3>7 DEF CollectTxn
      <3>. QED
        BY <1>1, <1>3, <1>13, <3>4, <3>8 DEF DropCounters, dataVars, flushVars, Collect, CollectQueue
    <2>2. CASE queue' = queue
      BY <1>1, <1>2, <1>3, <1>13, <2>2 DEF DropCounters, dataVars, flushVars, Collect
    <2>. QED
      BY <1>13, <2>1, <2>2 DEF DropCounters
  <1>14. ASSUME NEW f \in gc.frames, Repoint(f) PROVE Collect
    <2>. DEFINE t == Txn("gc", 0, f.slot, f.new, f.src, TRUE)
    <2>1. CASE queue' = Append(queue, t) /\ lock' = [lock EXCEPT ![f.slot] = "gc"] /\ mem.ptr[f.slot] = f.src
      <3>1. /\ f.slot \in Slot /\ f.src \in Location /\ f.new \in Location /\ f.new.segid = gc.pack
            /\ Bytes[f.new][f.slot] = Bytes[f.src][f.slot] /\ gc.pack \in DOMAIN store
        BY <1>14 DEF Repoint, Moved, Moving, Placed
      <3>2. /\ t.owner = "gc" /\ t.id = 0 /\ t.slot = f.slot /\ t.loc = f.new /\ t.debit = SegidOf(f.src)
            /\ t.guard = TRUE /\ t.drop = {}
            /\ t = [owner |-> "gc", id |-> 0, slot |-> f.slot, loc |-> f.new, debit |-> SegidOf(f.src),
                    guard |-> TRUE, drop |-> {}]
        BY DEF Txn
      <3>3. SegidOf(f.src) \in Segid
        BY <3>1, Constants DEF SegidOf, Hole, Location
      <3>. HIDE DEF t
      <3>4. t \in [owner : Writer \cup {"gc"}, id : 0..MaxWrites, slot : Slot \cup {Free}, loc : Location \cup {Free},
                   debit : Segid \cup {Free}, guard : BOOLEAN, drop : SUBSET Segid]
        BY <3>1, <3>2, <3>3, Constants
      <3>5. t.slot # Free /\ t.loc # Free
        BY <3>1, <3>2, Constants
      <3>6. t \in Txns
        BY <3>2, <3>4, <3>5 DEF Txns, WellFormed
      <3>7. \A i \in DOMAIN queue : queue[i].owner # "gc"
        BY <1>14 DEF Repoint, Phases
      <3>8. Contents[f.slot] = Bytes[f.src][f.slot]
        BY <2>1, <3>1, ContentsReadable, Constants
      <3>9. lock[f.slot] = Free /\ Settled(f.slot) /\ store' = store
        BY <1>14 DEF Repoint, dataVars
      <3>10. CollectTxn(t)
        BY <2>1, <3>1, <3>2, <3>5, <3>6, <3>7, <3>8, <3>9 DEF CollectTxn
      <3>. QED
        BY <1>1, <1>3, <1>14, <3>6, <3>10 DEF Repoint, dataVars, flushVars, Collect, CollectQueue
    <2>2. CASE queue' = queue /\ lock' = lock
      BY <1>1, <1>2, <1>3, <1>14, <2>2 DEF Repoint, dataVars, flushVars, Collect
    <2>. QED
      BY <1>14, <2>1, <2>2 DEF Repoint
  <1>. QED
    BY <1>4, <1>5, <1>6, <1>7, <1>8, <1>10, <1>11, <1>12, <1>13, <1>14

-----------------------------------------------------------------------------
(* Types *)

\* The steps that leave the data plane alone, and those of the collector on it.
LEMMA ReclaimMoves ==
    ASSUME Core, [ReclaimNext]_vars
    PROVE  \/ [Next]_segVars
           \/ \E sweep \in BOOLEAN : BeginPass(sweep)
           \/ PassBarrier \/ PassFlushed \/ PassSealFailed \/ GateUnavailable
           \/ Delete \/ DropCounters \/ GatherFails \/ Pack
           \/ \E f \in gc.frames : Repoint(f)
           \/ PackEnd
  <1>1. DataStep => Next
    BY DEF DataStep, Next, DataPlane
  <1>2. CommitFor(Apply, TRUE) \/ CommitFor(AbortBatch, FALSE) \/ ReclaimCrash => Next
    BY DEF CommitFor, ReclaimCrash, Next, DataPlane, Commit
  <1>3. Gate \/ Scan \/ ListOrphans \/ Gather \/ Tick => UNCHANGED segVars
    BY DEF Gate, Scan, ListOrphans, Gather, Tick
  <1>4. \A g \in gc.todo : Verify(g) => UNCHANGED segVars
    BY DEF Verify
  <1>5. \A n \in Name : (\E lasting \in BOOLEAN : CreateCheckpoint(n, lasting)) \/ DeleteCheckpoint(n) => UNCHANGED segVars
    BY DEF CreateCheckpoint, DeleteCheckpoint
  <1>6. \A r \in Reader : Fetch(r) \/ (\E s \in Slot : Resolve(r, s)) => UNCHANGED segVars
    BY DEF Fetch, Resolve
  <1>7. UNCHANGED vars => UNCHANGED segVars
    BY DEF vars
  <1>. QED
    BY <1>1, <1>2, <1>3, <1>4, <1>5, <1>6, <1>7 DEF ReclaimNext, PassStep

\* Every step is one of the data plane or one of the collector on it.
LEMMA ReclaimActs ==
    ASSUME Core, [ReclaimNext]_vars
    PROVE  ([Next]_segVars \/ Collect) /\ SegInv'
  <1>1. [Next]_segVars \/ Collect
    BY ReclaimMoves, CollectorActs
  <1>. QED
    BY <1>1, SegInvStep, CollectSegInv DEF Core

NewestOpen == Max({g.counter : g \in OpenSegids})
Latest == Max({Floor} \cup {kept[n].left : n \in DOMAIN kept})

\* The open segments' counters have a greatest one, below the next id's.
LEMMA OpenCounters ==
    ASSUME Types, Segids
    PROVE  NewestOpen \in Nat /\ NewestOpen < nextSegid.counter /\ \A g \in OpenSegids : g.counter <= NewestOpen
  <1>. DataTypes
    BY DEF Types
  <1>. DEFINE S == {g.counter : g \in OpenSegids}
  <1>1. \A g \in OpenSegids : g \in Segid /\ g.counter \in Nat /\ g.counter < nextSegid.counter
    BY BeforeFacts DEF OpenSegids, Segids, DataTypes, Before
  <1>2. S \subseteq Nat /\ S # {} /\ nextSegid.counter \in Nat /\ \A x \in S : x < nextSegid.counter
    <2>1. lane[1].segid \in OpenSegids
      BY Constants DEF OpenSegids
    <2>. QED
      BY <1>1, <2>1, BeforeFacts
  <1>3. \A g \in OpenSegids : g.counter \in S
    OBVIOUS
  <1>. HIDE DEF S
  <1>4. \A x \in S : x <= nextSegid.counter
    BY <1>2
  <1>5. Max(S) \in S /\ \A x \in S : x <= Max(S)
    BY <1>2, <1>4, GreatestElement
  <1>6. Max(S) \in Nat /\ Max(S) < nextSegid.counter /\ \A g \in OpenSegids : g.counter <= Max(S)
    BY <1>2, <1>3, <1>5
  <1>. QED
    BY <1>6 DEF S, NewestOpen

\* The horizon outlasts the floor and every checkpoint the gate lists.
LEMMA GateHorizon ==
    ASSUME GcTypes
    PROVE  Latest \in Nat /\ Latest >= Floor /\ \A n \in DOMAIN kept : kept[n].left <= Latest
  <1>. DEFINE S == {Floor} \cup {kept[n].left : n \in DOMAIN kept}
  <1>1. \A n \in DOMAIN kept : kept[n].left \in 0..Lifetime
    BY DEF GcTypes, Pins
  <1>2. /\ S \subseteq Nat /\ S # {} /\ Floor + Lifetime \in Nat /\ Floor \in S
        /\ \A x \in S : x <= Floor + Lifetime
        /\ \A n \in DOMAIN kept : kept[n].left \in S
    BY <1>1, CollectorConstants
  <1>. HIDE DEF S
  <1>3. Max(S) \in S /\ \A x \in S : x <= Max(S)
    BY <1>2, GreatestElement
  <1>4. Max(S) \in Nat /\ Max(S) >= Floor /\ \A n \in DOMAIN kept : kept[n].left <= Max(S)
    BY <1>2, <1>3, CollectorConstants
  <1>. QED
    BY <1>4 DEF S, Latest

(* When a dead segment is due.                                              *)
DueOf(g) == IF g \in DOMAIN deleteAt THEN deleteAt[g] ELSE gc.horizon

\* What a scan takes for dead, what it takes on, and what it makes wait.
LEMMA ScanFacts ==
    ASSUME Core, Scan
    PROVE  \E dead \in SUBSET Segid, D \in SUBSET Segid :
              /\ D \subseteq dead
              /\ \A g \in dead : ~gc.pinned /\ g \in DOMAIN durable.count /\ Eligible(g) /\ durable.count[g].live = 0
              /\ \A g \in D : DueOf(g) = 0
              /\ DOMAIN deleteAt' = dead \ D /\ \A g \in dead \ D : deleteAt'[g] = DueOf(g)
              /\ \E cand \in SUBSET Segid : /\ \A g \in cand : Eligible(g)
                                            /\ gc' = [Asleep EXCEPT !.pc = "verify", !.todo = D, !.cand = cand]
  <1>. DbTypes
    BY DEF Core, SegInv, Types
  <1>. DEFINE counted == IF gc.pinned THEN {} ELSE {g \in DOMAIN durable.count : Eligible(g)}
              dead == {g \in counted : durable.count[g].live = 0}
              late == {g \in dead : DueOf(g) = 0}
  <1>1. counted \in SUBSET Segid /\ dead \in SUBSET Segid
    BY SMTT(30) DEF DbTypes, ImageOK
  <1>2. PICK D \in SUBSET late : /\ deleteAt' = [g \in dead \ D |-> DueOf(g)]
                                 /\ gc' = [Asleep EXCEPT !.pc = "verify", !.todo = D, !.cand = counted \ dead]
    BY DEF Scan, DueOf
  <1>3. /\ D \subseteq dead /\ counted \ dead \in SUBSET Segid /\ D \in SUBSET Segid
        /\ \A g \in D : DueOf(g) = 0
        /\ \A g \in dead : ~gc.pinned /\ g \in DOMAIN durable.count /\ Eligible(g) /\ durable.count[g].live = 0
        /\ \A g \in counted \ dead : Eligible(g)
    BY <1>1
  <1>4. DOMAIN deleteAt' = dead \ D /\ \A g \in dead \ D : deleteAt'[g] = DueOf(g)
    BY <1>2
  <1>. HIDE DEF dead, counted
  <1>. QED
    BY <1>1, <1>2, <1>3, <1>4

\* What is gathered reads as what its slot shows.
LEMMA GatherFacts ==
    ASSUME Core, Gather
    PROVE  \/ gc' = Asleep
           \/ \E frames \in SUBSET Gathered, cand \in SUBSET gc.cand :
                 /\ gc' = [gc EXCEPT !.pc = "pack", !.cand = cand, !.frames = frames]
                 /\ IsFiniteSet(frames)
                 /\ \A f \in frames : 0 \notin f.data /\ f.data = Bytes[f.src][f.slot]
  <1>. Types /\ DbTypes /\ Segids /\ Frames
    BY SMTT(30) DEF Core, SegInv, Types
  <1>1. PICK sources \in SUBSET gc.cand :
           LET live == {s \in Slot : SegidOf(mem.ptr[s]) \in sources}
           IN  gc' = IF live = {} THEN Asleep
                     ELSE [gc EXCEPT !.pc = "pack", !.cand = @ \ sources,
                             !.frames = {[slot |-> s, src |-> mem.ptr[s],
                                          data |-> ReadFrame(mem.ptr[s], s)] : s \in live}]
    BY DEF Gather
  <1>. DEFINE live == {s \in Slot : SegidOf(mem.ptr[s]) \in sources}
              R(s) == [slot |-> s, src |-> mem.ptr[s], data |-> ReadFrame(mem.ptr[s], s)]
              frames == {R(s) : s \in live}
  <1>2. gc' = Asleep \/ gc' = [gc EXCEPT !.pc = "pack", !.cand = gc.cand \ sources, !.frames = frames]
    BY <1>1
  <1>3. ASSUME NEW s \in live
        PROVE  /\ R(s) \in Gathered
               /\ 0 \notin R(s).data /\ R(s).data = Bytes[R(s).src][R(s).slot]
    <2>1. gc.cand \subseteq Segid
      BY DEF Core, GcTypes, Passes
    <2>2. mem.ptr[s] \in Location /\ mem.ptr[s] # Free
      BY <2>1, Constants DEF SegidOf, Hole, DbTypes, ImageOK
    <2>3. Bytes[mem.ptr[s]][s] = ReadFrame(mem.ptr[s], s)
      BY <2>2 DEF Bytes
    <2>4. Contents[s] = Bytes[mem.ptr[s]][s] /\ 0 \notin Contents[s]
      BY <2>2, ContentsReadable
    <2>5. PICK d \in SUBSET (0..MaxWrites) : d = ReadFrame(mem.ptr[s], s)
      BY <2>3, <2>4, ContentsType
    <2>6. R(s) = [slot |-> s, src |-> mem.ptr[s], data |-> d]
      BY <2>5
    <2>. HIDE DEF R
    <2>. QED
      BY <2>2, <2>3, <2>4, <2>5, <2>6 DEF Gathered
  <1>4. IsFiniteSet(frames)
    <2>1. IsFiniteSet(live)
      BY SegmentsNames, FS_Subset
    <2>2. PICK h : h = [s \in live |-> R(s)]
      OBVIOUS
    <2>. HIDE DEF live, R
    <2>3. h \in Surjection(live, frames)
      BY <2>2 DEF Surjection
    <2>. HIDE DEF frames
    <2>. QED
      BY <2>1, <2>3, FS_Surjection
  <1>5. frames \in SUBSET Gathered /\ gc.cand \ sources \in SUBSET gc.cand
    BY <1>3
  <1>6. \A f \in frames : 0 \notin f.data /\ f.data = Bytes[f.src][f.slot]
    BY <1>3
  <1>. HIDE DEF frames
  <1>. QED
    BY <1>2, <1>4, <1>5, <1>6

\* The parts of the collector's state that only it moves.
LEMMA PassMoves ==
    ASSUME [ReclaimNext]_vars
    PROVE  \/ UNCHANGED gcVars
           \/ CommitFor(Apply, TRUE) \/ CommitFor(AbortBatch, FALSE)
           \/ \E sweep \in BOOLEAN : BeginPass(sweep)
           \/ PassBarrier \/ PassFlushed \/ PassSealFailed \/ Gate \/ GateUnavailable \/ Scan
           \/ \E g \in gc.todo : Verify(g)
           \/ Delete \/ DropCounters \/ ListOrphans \/ Gather \/ GatherFails \/ Pack
           \/ \E f \in gc.frames : Repoint(f)
           \/ PackEnd
           \/ \E n \in Name, lasting \in BOOLEAN : CreateCheckpoint(n, lasting)
           \/ \E n \in Name : DeleteCheckpoint(n)
           \/ \E r \in Reader : Fetch(r) \/ \E s \in Slot : Resolve(r, s)
           \/ Tick
           \/ ReclaimCrash
  BY DEF ReclaimNext, PassStep, DataStep, vars

\* A pass's record, one field at a time.
LEMMA PassSet ==
    ASSUME NEW g \in Passes
    PROVE  /\ \A x \in {"idle", "barrier", "seal", "gate", "scan", "list", "verify", "delete", "dropping",
                        "select", "pack", "repoint", "swapping"} : [g EXCEPT !.pc = x] \in Passes
           /\ \A x \in SUBSET Segid : [g EXCEPT !.todo = x] \in Passes /\ [g EXCEPT !.freed = x] \in Passes
                                       /\ [g EXCEPT !.cand = x] \in Passes
           /\ \A x \in Segid \cup {Free} : [g EXCEPT !.target = x] \in Passes /\ [g EXCEPT !.pack = x] \in Passes
           /\ \A x \in SUBSET (Gathered \cup Placed) : [g EXCEPT !.frames = x] \in Passes
           /\ \A x \in Nat : [g EXCEPT !.swapped = x] \in Passes
  <1>1. \A x \in {"idle", "barrier", "seal", "gate", "scan", "list", "verify", "delete", "dropping",
                  "select", "pack", "repoint", "swapping"} : [g EXCEPT !.pc = x] \in Passes
    BY DEF Passes
  <1>2. \A x \in SUBSET Segid : [g EXCEPT !.todo = x] \in Passes /\ [g EXCEPT !.freed = x] \in Passes
    BY DEF Passes
  <1>3. \A x \in Segid \cup {Free} : [g EXCEPT !.target = x] \in Passes /\ [g EXCEPT !.pack = x] \in Passes
    BY DEF Passes
  <1>4. \A x \in SUBSET (Gathered \cup Placed) : [g EXCEPT !.frames = x] \in Passes
    BY DEF Passes
  <1>5. \A x \in Nat : [g EXCEPT !.swapped = x] \in Passes
    BY DEF Passes
  <1>6. \A x \in SUBSET Segid : [g EXCEPT !.cand = x] \in Passes
    BY DEF Passes
  <1>. QED
    BY <1>1, <1>2, <1>3, <1>4, <1>5, <1>6

\* A pass's record stays one.
LEMMA PassTypes ==
    ASSUME Core, [ReclaimNext]_vars
    PROVE  gc' \in Passes
  <1>. GcTypes /\ Types /\ Segids /\ DataTypes
    BY DEF Core, SegInv, Types
  <1>0. gc \in Passes /\ Asleep \in Passes
    BY CollectorConstants DEF GcTypes
  <1>1. CASE gc' = gc \/ gc' = Asleep
    BY <1>0, <1>1
  <1>2. CASE \E p \in {"barrier", "seal", "repoint", "select"} : gc' = [gc EXCEPT !.pc = p]
    BY <1>0, <1>2 DEF Passes
  <1>3. ASSUME NEW sweep \in BOOLEAN, BeginPass(sweep) PROVE gc' \in Passes
    BY <1>0, <1>3 DEF BeginPass, Passes
  <1>4. CASE PassFlushed
    <2>1. PICK c \in Nat : c = NewestOpen + 1
      BY OpenCounters
    <2>2. OpenSegids \in SUBSET Segid
      BY DEF OpenSegids, DataTypes
    <2>3. gc' = [gc EXCEPT !.pc = IF gc.sweep THEN "list" ELSE "gate", !.cutoff = c, !.open = OpenSegids]
      BY <1>4, <2>1 DEF PassFlushed, NewestOpen
    <2>. QED
      BY <1>0, <2>2, <2>3 DEF Passes
  <1>5. CASE Gate
    <2>1. PICK h \in Nat : h = Latest
      BY GateHorizon
    <2>2. gc' = [gc EXCEPT !.pc = "scan", !.horizon = h, !.pinned = \E n \in DOMAIN kept : kept[n].lasting]
      BY <1>5, <2>1 DEF Gate, Latest
    <2>3. PICK p \in BOOLEAN : p = \E n \in DOMAIN kept : kept[n].lasting
      OBVIOUS
    <2>4. gc' = [gc EXCEPT !.pc = "scan", !.horizon = h, !.pinned = p]
      BY <2>2, <2>3
    <2>. QED
      BY <1>0, <2>4 DEF Passes
  <1>6. CASE Scan
    <2>1. PICK todo \in SUBSET Segid, cand \in SUBSET Segid :
             gc' = [Asleep EXCEPT !.pc = "verify", !.todo = todo, !.cand = cand]
      BY <1>6, ScanFacts
    <2>2. PICK a \in Passes : a = [Asleep EXCEPT !.pc = "verify"]
      BY <1>0, PassSet
    <2>3. PICK b \in Passes : b = [a EXCEPT !.todo = todo]
      BY PassSet
    <2>4. gc' = [b EXCEPT !.cand = cand]
      BY <2>1, <2>2, <2>3
    <2>. QED
      BY <2>4, PassSet
  <1>7. ASSUME NEW g \in gc.todo, Verify(g) PROVE gc' \in Passes
    <2>1. gc.todo \in SUBSET Segid /\ gc.freed \in SUBSET Segid
      BY <1>0 DEF Passes
    <2>2. PICK todo \in SUBSET Segid : todo = gc.todo \ {g}
      BY <2>1
    <2>3. PICK pc \in {"delete", "verify"}, target \in Segid \cup {Free}, freed \in SUBSET Segid :
             gc' = [gc EXCEPT !.todo = todo, !.pc = pc, !.target = target, !.freed = freed]
      BY <1>7, <2>1, <2>2 DEF Verify
    <2>4. PICK a \in Passes : a = [gc EXCEPT !.todo = todo]
      BY <1>0, PassSet
    <2>5. PICK b \in Passes : b = [a EXCEPT !.pc = pc]
      BY PassSet
    <2>6. PICK c \in Passes : c = [b EXCEPT !.target = target]
      BY PassSet
    <2>7. gc' = [c EXCEPT !.freed = freed]
      BY <2>3, <2>4, <2>5, <2>6
    <2>. QED
      BY <2>7, PassSet
  <1>8. CASE Delete
    <2>1. gc.target \in Segid /\ gc.freed \in SUBSET Segid
      BY <1>0, <1>8 DEF Passes, Core, Phases, Delete
    <2>2. \/ gc' = [gc EXCEPT !.pc = "verify", !.target = Free]
          \/ \E freed \in SUBSET Segid : gc' = [gc EXCEPT !.pc = "verify", !.target = Free, !.freed = freed]
      BY <1>8, <2>1 DEF Delete
    <2>3. PICK a \in Passes : a = [gc EXCEPT !.pc = "verify"]
      BY <1>0, PassSet
    <2>4. PICK b \in Passes : b = [a EXCEPT !.target = Free]
      BY PassSet
    <2>5. gc' = b \/ \E freed \in SUBSET Segid : gc' = [b EXCEPT !.freed = freed]
      BY <2>2, <2>3, <2>4
    <2>. QED
      BY <2>5, PassSet
  <1>9. CASE DropCounters
    <2>1. \/ gc' = Asleep
          \/ \E p \in {"select", "dropping"} : gc' = [gc EXCEPT !.pc = p, !.freed = {}]
      BY <1>9 DEF DropCounters
    <2>2. ASSUME NEW p \in {"select", "dropping"}, gc' = [gc EXCEPT !.pc = p, !.freed = {}]
          PROVE  gc' \in Passes
      <3>1. PICK a \in Passes : a = [gc EXCEPT !.pc = p]
        BY <1>0, PassSet
      <3>2. gc' = [a EXCEPT !.freed = {}]
        BY <2>2, <3>1
      <3>. QED
        BY <3>2, PassSet
    <2>. QED
      BY <1>0, <2>1, <2>2
  <1>10. CASE ListOrphans
    <2>1. \E todo \in SUBSET Segid : gc' = [Asleep EXCEPT !.pc = "verify", !.sweep = TRUE, !.todo = todo]
      BY <1>10 DEF ListOrphans, DataTypes
    <2>2. PICK todo \in SUBSET Segid : gc' = [Asleep EXCEPT !.pc = "verify", !.sweep = TRUE, !.todo = todo]
      BY <2>1
    <2>3. PICK a \in Passes : a = [Asleep EXCEPT !.pc = "verify"]
      BY <1>0, PassSet
    <2>4. PICK b \in Passes : b = [a EXCEPT !.sweep = TRUE]
      BY DEF Passes
    <2>5. gc' = [b EXCEPT !.todo = todo]
      BY <2>2, <2>3, <2>4
    <2>. QED
      BY <2>5, PassSet
  <1>11. CASE Gather
    <2>1. CASE gc' = Asleep
      BY <1>0, <2>1
    <2>2. CASE gc' # Asleep
      <3>1. PICK frames \in SUBSET Gathered, cand \in SUBSET gc.cand :
               gc' = [gc EXCEPT !.pc = "pack", !.cand = cand, !.frames = frames]
        BY <1>11, <2>2, GatherFacts
      <3>2. cand \in SUBSET Segid /\ frames \in SUBSET (Gathered \cup Placed)
        <4>1. gc.cand \in SUBSET Segid
          BY <1>0 DEF Passes
        <4>. QED
          BY <4>1
      <3>3. PICK a \in Passes : a = [gc EXCEPT !.pc = "pack"]
        BY <1>0, PassSet
      <3>4. PICK b \in Passes : b = [a EXCEPT !.cand = cand]
        BY <3>2, PassSet
      <3>5. gc' = [b EXCEPT !.frames = frames]
        BY <3>1, <3>3, <3>4
      <3>. QED
        BY <3>2, <3>5, PassSet
    <2>. QED
      BY <2>1, <2>2
  <1>12. CASE Pack
    <2>1. IsFiniteSet(gc.frames) /\ gc.frames \subseteq Gathered
      BY <1>12 DEF Core, Moved, Pack
    <2>2. Cardinality(gc.frames) \in Nat /\ PackOrder \in [1..Cardinality(gc.frames) -> gc.frames]
      BY <2>1, PackOrderFacts
    <2>3. DOMAIN PackOrder = 1..Cardinality(gc.frames) /\ DOMAIN PackOrder \subseteq Nat \ {0}
          /\ \A i \in DOMAIN PackOrder : PackOrder[i] \in Gathered
      BY <2>1, <2>2
    <2>. DEFINE frames == {[slot |-> PackOrder[i].slot, src |-> PackOrder[i].src,
                            new |-> [segid |-> nextSegid, frame |-> i]] : i \in DOMAIN PackOrder}
    <2>4. frames \subseteq Placed
      BY <2>3 DEF Gathered, Placed, DataTypes, Location
    <2>5. gc' = Asleep \/ gc' = [gc EXCEPT !.pc = "repoint", !.pack = nextSegid, !.swapped = 0, !.frames = frames]
      BY <1>12 DEF Pack
    <2>6. PICK F \in SUBSET (Gathered \cup Placed) : F = frames
      BY <2>4
    <2>. HIDE DEF frames
    <2>7. gc' = Asleep \/ gc' = [gc EXCEPT !.pc = "repoint", !.pack = nextSegid, !.swapped = 0, !.frames = F]
      BY <2>5, <2>6
    <2>8. PICK a \in Passes : a = [gc EXCEPT !.pc = "repoint"]
      BY <1>0, PassSet
    <2>9. PICK b \in Passes : b = [a EXCEPT !.pack = nextSegid]
      BY PassSet DEF DataTypes
    <2>10. PICK c \in Passes : c = [b EXCEPT !.swapped = 0]
      BY PassSet
    <2>11. gc' = Asleep \/ gc' = [c EXCEPT !.frames = F]
      BY <2>7, <2>8, <2>9, <2>10
    <2>. QED
      BY <1>0, <2>11, PassSet
  <1>13. ASSUME NEW f \in gc.frames, Repoint(f) PROVE gc' \in Passes
    <2>1. gc.frames \in SUBSET (Gathered \cup Placed) /\ gc.swapped \in Nat
      BY <1>0 DEF Passes
    <2>2. PICK F \in SUBSET (Gathered \cup Placed) : F = gc.frames \ {f}
      BY <2>1
    <2>3. PICK n \in Nat : n = gc.swapped + 1
      BY <2>1
    <2>4. gc' = [gc EXCEPT !.pc = "swapping", !.frames = F, !.swapped = n] \/ gc' = [gc EXCEPT !.frames = F]
      BY <1>13, <2>2, <2>3 DEF Repoint
    <2>5. PICK a \in Passes : a = [gc EXCEPT !.pc = "swapping"]
      BY <1>0, PassSet
    <2>6. PICK b \in Passes : b = [a EXCEPT !.frames = F]
      BY PassSet
    <2>7. gc' = [b EXCEPT !.swapped = n] \/ gc' = [gc EXCEPT !.frames = F]
      BY <2>4, <2>5, <2>6
    <2>8. [b EXCEPT !.swapped = n] \in Passes /\ [gc EXCEPT !.frames = F] \in Passes
      BY <1>0, PassSet
    <2>. QED
      BY <2>7, <2>8
  <1>14. CASE PackEnd
    <2>1. gc' = Asleep \/ gc' = [gc EXCEPT !.pc = "select", !.pack = Free, !.swapped = 0]
      BY <1>14 DEF PackEnd
    <2>2. PICK a \in Passes : a = [gc EXCEPT !.pc = "select"]
      BY <1>0, PassSet
    <2>3. PICK b \in Passes : b = [a EXCEPT !.pack = Free]
      BY PassSet
    <2>4. gc' = Asleep \/ gc' = [b EXCEPT !.swapped = 0]
      BY <2>1, <2>2, <2>3
    <2>. QED
      BY <1>0, <2>4, PassSet
  <1>15. CASE Tick
    <2>1. Less(gc.horizon) \in Nat
      BY <1>0 DEF Less, Passes
    <2>. QED
      BY <1>0, <1>15, <2>1 DEF Tick, Passes
  <1>16. PassBarrier \/ CommitFor(Apply, TRUE) \/ CommitFor(AbortBatch, FALSE)
            => gc' = gc \/ gc' = Asleep \/ \E p \in {"barrier", "seal", "repoint", "select"} : gc' = [gc EXCEPT !.pc = p]
    BY DEF PassBarrier, CommitFor
  <1>17. PassSealFailed \/ GateUnavailable \/ GatherFails \/ ReclaimCrash => gc' = Asleep
    BY DEF PassSealFailed, GateUnavailable, GatherFails, ReclaimCrash
  <1>18. /\ \A n \in Name : (\E lasting \in BOOLEAN : CreateCheckpoint(n, lasting)) \/ DeleteCheckpoint(n) => gc' = gc
         /\ \A r \in Reader : Fetch(r) \/ (\E s \in Slot : Resolve(r, s)) => gc' = gc
    BY DEF CreateCheckpoint, DeleteCheckpoint, Fetch, Resolve
  <1>. QED
    BY <1>1, <1>2, <1>3, <1>4, <1>5, <1>6, <1>7, <1>8, <1>9, <1>10, <1>11, <1>12, <1>13, <1>14, <1>15, <1>16, <1>17,
       <1>18, PassMoves DEF gcVars

\* What waits for its deletion, the checkpoints, the readers and the count of packs, each changes only here.
LEMMA ListMoves ==
    ASSUME [ReclaimNext]_vars
    PROVE  /\ deleteAt' = deleteAt \/ Scan \/ Tick \/ ReclaimCrash
           /\ \/ kept' = kept \/ Tick
              \/ \E n \in Name, lasting \in BOOLEAN : CreateCheckpoint(n, lasting)
              \/ \E n \in Name : DeleteCheckpoint(n)
           /\ \/ reader' = reader \/ Tick \/ ReclaimCrash
              \/ \E r \in Reader : Fetch(r) \/ \E s \in Slot : Resolve(r, s)
           /\ packs' = packs \/ Pack
  <1>1. deleteAt' = deleteAt \/ Scan \/ Tick \/ ReclaimCrash
    BY PassMoves, ZenonT(60) DEF gcVars, PassRest, CommitFor, BeginPass, PassBarrier, PassFlushed, PassSealFailed, Gate, GateUnavailable,
       Verify, Delete, DropCounters, ListOrphans, Gather, GatherFails, Pack, Repoint, PackEnd, CreateCheckpoint,
       DeleteCheckpoint, Fetch, Resolve
  <1>2. \/ kept' = kept \/ Tick
        \/ \E n \in Name, lasting \in BOOLEAN : CreateCheckpoint(n, lasting)
        \/ \E n \in Name : DeleteCheckpoint(n)
    BY PassMoves, ZenonT(60) DEF gcVars, PassRest, CommitFor, BeginPass, PassBarrier, PassFlushed, PassSealFailed, Gate, GateUnavailable,
       Scan, Verify, Delete, DropCounters, ListOrphans, Gather, GatherFails, Pack, Repoint, PackEnd, Fetch, Resolve,
       ReclaimCrash
  <1>3. \/ reader' = reader \/ Tick \/ ReclaimCrash
        \/ \E r \in Reader : Fetch(r) \/ \E s \in Slot : Resolve(r, s)
    BY PassMoves, ZenonT(60) DEF gcVars, PassRest, CommitFor, BeginPass, PassBarrier, PassFlushed, PassSealFailed, Gate, GateUnavailable,
       Scan, Verify, Delete, DropCounters, ListOrphans, Gather, GatherFails, Pack, Repoint, PackEnd, CreateCheckpoint,
       DeleteCheckpoint
  <1>4. packs' = packs \/ Pack
    BY PassMoves, ZenonT(60) DEF gcVars, PassRest, CommitFor, BeginPass, PassBarrier, PassFlushed, PassSealFailed, Gate, GateUnavailable,
       Scan, Verify, Delete, DropCounters, ListOrphans, Gather, GatherFails, Repoint, PackEnd, CreateCheckpoint,
       DeleteCheckpoint, Fetch, Resolve, Tick, ReclaimCrash
  <1>. QED
    BY <1>1, <1>2, <1>3, <1>4

\* Every step keeps the types of the collector, its readers and the checkpoints.
LEMMA GcTypesStep ==
    ASSUME RecInv, [ReclaimNext]_vars
    PROVE  GcTypes'
  <1>. Core /\ GcTypes /\ Types /\ Segids /\ DataTypes /\ DbTypes
    BY DEF RecInv, Core, SegInv, Types
  <1>0. \A t \in Nat : Less(t) \in Nat /\ Less(t) <= t
    BY DEF Less
  <1>1. DOMAIN deleteAt' \subseteq Segid /\ \A g \in DOMAIN deleteAt' : deleteAt'[g] \in Nat
    <2>1. CASE Scan
      <3>1. PICK dead \in SUBSET Segid, D \in SUBSET Segid :
               DOMAIN deleteAt' = dead \ D /\ \A g \in dead \ D : deleteAt'[g] = DueOf(g)
        BY <2>1, ScanFacts
      <3>2. \A g \in Segid : DueOf(g) \in Nat
        BY DEF DueOf, GcTypes, Passes
      <3>. QED
        BY <3>1, <3>2
    <2>2. CASE Tick
      BY <1>0, <2>2 DEF Tick, GcTypes
    <2>3. CASE ReclaimCrash
      BY <2>3 DEF ReclaimCrash
    <2>. QED
      BY <2>1, <2>2, <2>3, ListMoves DEF GcTypes
  <1>2. DOMAIN kept' \subseteq Name /\ \A n \in DOMAIN kept' : kept'[n] \in Pins
    <2>1. CASE Tick
      <3>1. ASSUME NEW n \in DOMAIN kept PROVE [kept[n] EXCEPT !.left = Less(@)] \in Pins
        <4>1. kept[n] \in Pins
          BY DEF GcTypes
        <4>2. PICK t \in 0..Lifetime : t = Less(kept[n].left)
          BY <1>0, <4>1, CollectorConstants DEF Pins
        <4>. QED
          BY <4>1, <4>2 DEF Pins
      <3>. QED
        BY <2>1, <3>1 DEF Tick, GcTypes
    <2>2. ASSUME NEW n \in Name, NEW lasting \in BOOLEAN, CreateCheckpoint(n, lasting)
          PROVE  DOMAIN kept' \subseteq Name /\ \A m \in DOMAIN kept' : kept'[m] \in Pins
      <3>1. PICK left \in 0..Lifetime : left = IF lasting THEN 0 ELSE Lifetime
        BY CollectorConstants
      <3>2. durable.ptr \in [Slot -> Location \cup {Free}] /\ Racing \in BOOLEAN
        BY DEF DbTypes, ImageOK, Racing
      <3>3. [ptr |-> durable.ptr, lasting |-> lasting, raced |-> Racing, left |-> left] \in Pins
        BY <3>2 DEF Pins
      <3>4. kept' = [m \in DOMAIN kept \cup {n} |->
                       IF m = n THEN [ptr |-> durable.ptr, lasting |-> lasting, raced |-> Racing, left |-> left]
                       ELSE kept[m]]
        BY <2>2, <3>1 DEF CreateCheckpoint
      <3>. QED
        BY <3>3, <3>4 DEF GcTypes
    <2>3. ASSUME NEW n \in Name, DeleteCheckpoint(n)
          PROVE  DOMAIN kept' \subseteq Name /\ \A m \in DOMAIN kept' : kept'[m] \in Pins
      BY <2>3 DEF DeleteCheckpoint, GcTypes
    <2>. QED
      BY <2>1, <2>2, <2>3, ListMoves DEF GcTypes
  <1>3. reader' \in [Reader -> Fetches]
    <2>1. CASE Tick
      <3>1. ASSUME NEW r \in Reader PROVE [reader[r] EXCEPT !.left = Less(@)] \in Fetches
        <4>1. reader[r] \in Fetches
          BY DEF GcTypes
        <4>2. PICK t \in 0..(Floor - 1) : t = Less(reader[r].left)
          BY <1>0, <4>1, CollectorConstants DEF Fetches
        <4>. QED
          BY <4>1, <4>2 DEF Fetches
      <3>. QED
        BY <2>1, <3>1 DEF Tick
    <2>2. CASE ReclaimCrash
      BY <2>2, CollectorConstants DEF ReclaimCrash
    <2>3. ASSUME NEW r \in Reader, NEW s \in Slot, Resolve(r, s) PROVE reader' \in [Reader -> Fetches]
      <3>1. mem.ptr[s] \in Location
        BY <2>3 DEF Resolve, Hole, DbTypes, ImageOK
      <3>2. PICK left \in 0..(Floor - 1) : left = Floor - 1
        BY CollectorConstants
      <3>3. [pc |-> "fetch", slot |-> s, loc |-> mem.ptr[s], left |-> left] \in Fetches
        BY <3>1 DEF Fetches
      <3>. QED
        BY <2>3, <3>2, <3>3 DEF Resolve, GcTypes
    <2>4. ASSUME NEW r \in Reader, Fetch(r) PROVE reader' \in [Reader -> Fetches]
      <3>1. reader[r] \in Fetches /\ NotReading \in Fetches
        BY CollectorConstants DEF GcTypes
      <3>2. PICK again : again = mem.ptr[reader[r].slot]
        OBVIOUS
      <3>3. PICK x : /\ reader' = [reader EXCEPT ![r] = x]
                     /\ \/ x = NotReading \/ x = [reader[r] EXCEPT !.pc = "error"]
                        \/ ~Hole(again) /\ x = [reader[r] EXCEPT !.pc = "retry", !.loc = again]
        BY <2>4, <3>2 DEF Fetch
      <3>4. x \in Fetches
        <4>1. reader[r].slot \in Slot
          BY <2>4 DEF Fetch, RecInv, Reads
        <4>2. again \in Location \cup {Free}
          BY <3>2, <4>1 DEF DbTypes, ImageOK
        <4>. QED
          BY <3>1, <3>3, <4>2 DEF Fetches
      <3>. QED
        BY <3>3, <3>4 DEF GcTypes
    <2>. QED
      BY <2>1, <2>2, <2>3, <2>4, ListMoves DEF GcTypes
  <1>4. packs' \in Nat
    BY ListMoves DEF Pack, GcTypes
  <1>. QED
    BY <1>1, <1>2, <1>3, <1>4, PassTypes DEF GcTypes

-----------------------------------------------------------------------------
(* What a pass has in hand *)

(* The segments it may still remove, and those it may compact.              *)
Marks == gc.todo \cup gc.freed \cup {gc.target}

(* It has nothing in hand, but for what it was woken with.                  *)
Blank ==
    /\ gc.cutoff = 0 /\ gc.open = {} /\ gc.horizon = 0 /\ ~gc.pinned /\ gc.freed = {} /\ gc.target = Free
    /\ gc.frames = {} /\ gc.pack = Free /\ gc.swapped = 0

\* A pass that ends, begins, or turns to what it found has nothing else in hand.
LEMMA BlankNext ==
    /\ gc' = Asleep => gc'.pc = "idle" /\ Blank' /\ gc'.todo = {} /\ gc'.cand = {}
    /\ \A sweep : BeginPass(sweep) => gc'.pc = "barrier" /\ Blank' /\ gc'.todo = {} /\ gc'.cand = {}
    /\ \A D, cand : gc' = [Asleep EXCEPT !.pc = "verify", !.todo = D, !.cand = cand]
                      => gc'.pc = "verify" /\ Blank' /\ gc'.todo = D /\ gc'.cand = cand
    /\ \A D : gc' = [Asleep EXCEPT !.pc = "verify", !.sweep = TRUE, !.todo = D]
                => gc'.pc = "verify" /\ Blank' /\ gc'.todo = D /\ gc'.cand = {}
  <1>1. gc' = Asleep => gc'.pc = "idle" /\ Blank' /\ gc'.todo = {} /\ gc'.cand = {}
    BY DEF Asleep, Blank
  <1>2. \A sweep : BeginPass(sweep) => gc'.pc = "barrier" /\ Blank' /\ gc'.todo = {} /\ gc'.cand = {}
    BY DEF Asleep, Blank, BeginPass
  <1>3. \A D, cand : gc' = [Asleep EXCEPT !.pc = "verify", !.todo = D, !.cand = cand]
                      => gc'.pc = "verify" /\ Blank' /\ gc'.todo = D /\ gc'.cand = cand
    BY DEF Asleep, Blank
  <1>4. \A D : gc' = [Asleep EXCEPT !.pc = "verify", !.sweep = TRUE, !.todo = D]
                => gc'.pc = "verify" /\ Blank' /\ gc'.todo = D /\ gc'.cand = {}
    BY DEF Asleep, Blank
  <1>. QED
    BY <1>1, <1>2, <1>3, <1>4

\* A flushed pass knows what is open.
LEMMA FlushedFields ==
    ASSUME gc \in Passes, PassFlushed
    PROVE  /\ gc'.pc \in {"list", "gate"} /\ gc'.cutoff = NewestOpen + 1 /\ gc'.open = OpenSegids
           /\ Marks' = Marks /\ gc'.cand = gc.cand /\ gc'.frames = gc.frames
           /\ gc'.pack = gc.pack /\ gc'.swapped = gc.swapped
           /\ gc'.todo = gc.todo /\ gc'.freed = gc.freed /\ gc'.target = gc.target
  <1>1. PICK c : c = NewestOpen + 1
    OBVIOUS
  <1>2. PICK p \in {"list", "gate"} : gc' = [gc EXCEPT !.pc = p, !.cutoff = c, !.open = OpenSegids]
    BY <1>1 DEF PassFlushed, NewestOpen
  <1>. QED
    BY <1>1, <1>2 DEF Passes, Marks

\* A pass that has packed goes on to move the pointers to the new segment, or has failed.
LEMMA PackFields ==
    ASSUME gc \in Passes, Pack
    PROVE  \/ gc' = Asleep
           \/ /\ gc'.pc = "repoint" /\ gc'.pack = nextSegid /\ gc'.swapped = 0
              /\ gc'.frames = {[slot |-> PackOrder[i].slot, src |-> PackOrder[i].src,
                                new |-> [segid |-> nextSegid, frame |-> i]] : i \in DOMAIN PackOrder}
              /\ gc'.todo = gc.todo /\ gc'.freed = gc.freed /\ gc'.target = gc.target
              /\ gc'.cand = gc.cand /\ gc'.cutoff = gc.cutoff /\ gc'.open = gc.open
              /\ store' = Stored
  <1>1. PICK F : F = {[slot |-> PackOrder[i].slot, src |-> PackOrder[i].src,
                       new |-> [segid |-> nextSegid, frame |-> i]] : i \in DOMAIN PackOrder}
    OBVIOUS
  <1>2. \/ gc' = Asleep
        \/ gc' = [gc EXCEPT !.pc = "repoint", !.pack = nextSegid, !.swapped = 0, !.frames = F] /\ store' = Stored
    BY <1>1 DEF Pack, Stored, Packed
  <1>3. CASE gc' = [gc EXCEPT !.pc = "repoint", !.pack = nextSegid, !.swapped = 0, !.frames = F]
    BY <1>1, <1>2, <1>3 DEF Passes
  <1>. QED
    BY <1>2, <1>3

(* A step in which the pass takes nothing on.                               *)
PassShrinks ==
    /\ Marks' \subseteq Marks \cup {Free} /\ gc'.cand \subseteq gc.cand
    /\ gc'.pack \in {gc.pack, Free} /\ (gc'.swapped = 0 /\ gc'.pack # Free => gc.swapped = 0)
    /\ gc'.cutoff = 0 \/ (gc'.cutoff = gc.cutoff /\ gc'.open = gc.open)

\* But for its flush, its scan, its listing and its pack, a pass takes nothing on.
LEMMA PassKeeps ==
    ASSUME Core, [ReclaimNext]_vars, ~PassFlushed, ~Scan, ~ListOrphans, ~Pack
    PROVE  PassShrinks
  <1>0. gc \in Passes
    BY DEF Core, GcTypes
  <1>1. CASE gc' = Asleep \/ \E sweep \in BOOLEAN : BeginPass(sweep)
    <2>1. Blank' /\ gc'.todo = {} /\ gc'.cand = {}
      BY <1>1, BlankNext
    <2>. QED
      BY <2>1 DEF PassShrinks, Blank, Marks
  <1>2. CASE gc' = gc
    BY <1>2 DEF PassShrinks, Marks
  <1>3. CASE \E p : gc' = [gc EXCEPT !.pc = p]
    BY <1>0, <1>3 DEF PassShrinks, Marks, Passes
  <1>4. CASE Gate
    <2>1. PICK h, p : gc' = [gc EXCEPT !.pc = "scan", !.horizon = h, !.pinned = p]
      BY <1>4 DEF Gate
    <2>. QED
      BY <1>0, <2>1 DEF PassShrinks, Marks, Passes
  <1>5. ASSUME NEW g \in gc.todo, Verify(g) PROVE PassShrinks
    <2>1. PICK pc, target, freed : /\ gc' = [gc EXCEPT !.todo = gc.todo \ {g}, !.pc = pc, !.target = target, !.freed = freed]
                                   /\ target \in {g, Free} /\ freed \subseteq gc.freed \cup {g}
      BY <1>5 DEF Verify
    <2>. QED
      BY <1>0, <1>5, <2>1 DEF PassShrinks, Marks, Passes
  <1>6. CASE Delete
    <2>1. \/ gc' = [gc EXCEPT !.pc = "verify", !.target = Free]
          \/ \E freed : /\ gc' = [gc EXCEPT !.pc = "verify", !.target = Free, !.freed = freed]
                        /\ freed \subseteq gc.freed \cup {gc.target}
      BY <1>6 DEF Delete
    <2>2. CASE gc' = [gc EXCEPT !.pc = "verify", !.target = Free]
      BY <1>0, <2>2 DEF PassShrinks, Marks, Passes
    <2>3. ASSUME NEW freed, gc' = [gc EXCEPT !.pc = "verify", !.target = Free, !.freed = freed],
                 freed \subseteq gc.freed \cup {gc.target}
          PROVE  PassShrinks
      BY <1>0, <2>3 DEF PassShrinks, Marks, Passes
    <2>. QED
      BY <2>1, <2>2, <2>3
  <1>7. CASE DropCounters /\ gc' # Asleep
    <2>1. PICK p : gc' = [gc EXCEPT !.pc = p, !.freed = {}]
      BY <1>7 DEF DropCounters
    <2>. QED
      BY <1>0, <2>1 DEF PassShrinks, Marks, Passes
  <1>8. CASE Gather /\ gc' # Asleep
    <2>1. PICK frames \in SUBSET Gathered, cand \in SUBSET gc.cand : gc' = [gc EXCEPT !.pc = "pack", !.cand = cand, !.frames = frames]
      BY <1>8, GatherFacts
    <2>. QED
      BY <1>0, <2>1 DEF PassShrinks, Marks, Passes
  <1>9. ASSUME NEW f \in gc.frames, Repoint(f) PROVE PassShrinks
    <2>1. PICK F : F = gc.frames \ {f}
      OBVIOUS
    <2>2. gc.swapped \in Nat /\ gc.swapped + 1 # 0
      BY <1>0 DEF Passes
    <2>3. PICK n : n = gc.swapped + 1
      OBVIOUS
    <2>4. gc' = [gc EXCEPT !.pc = "swapping", !.frames = F, !.swapped = n] \/ gc' = [gc EXCEPT !.frames = F]
      BY <1>9, <2>1, <2>3 DEF Repoint
    <2>. QED
      BY <1>0, <2>2, <2>3, <2>4 DEF PassShrinks, Marks, Passes
  <1>10. CASE PackEnd /\ gc' # Asleep
    <2>1. gc' = [gc EXCEPT !.pc = "select", !.pack = Free, !.swapped = 0]
      BY <1>10 DEF PackEnd
    <2>. QED
      BY <1>0, <2>1 DEF PassShrinks, Marks, Passes
  <1>11. CASE Tick
    <2>1. PICK h : gc' = [gc EXCEPT !.horizon = h]
      BY <1>11 DEF Tick
    <2>. QED
      BY <1>0, <2>1 DEF PassShrinks, Marks, Passes
  <1>12. PassBarrier \/ CommitFor(Apply, TRUE) \/ CommitFor(AbortBatch, FALSE)
            => gc' = gc \/ gc' = Asleep \/ \E p : gc' = [gc EXCEPT !.pc = p]
    BY DEF PassBarrier, CommitFor
  <1>13. PassSealFailed \/ GateUnavailable \/ GatherFails \/ ReclaimCrash => gc' = Asleep
    BY DEF PassSealFailed, GateUnavailable, GatherFails, ReclaimCrash
  <1>14. /\ \A n \in Name : (\E lasting \in BOOLEAN : CreateCheckpoint(n, lasting)) \/ DeleteCheckpoint(n) => gc' = gc
         /\ \A r \in Reader : Fetch(r) \/ (\E s \in Slot : Resolve(r, s)) => gc' = gc
    BY DEF CreateCheckpoint, DeleteCheckpoint, Fetch, Resolve
  <1>. QED
    BY <1>1, <1>2, <1>3, <1>4, <1>5, <1>6, <1>7, <1>8, <1>9, <1>10, <1>11, <1>12, <1>13, <1>14, PassMoves DEF gcVars

-----------------------------------------------------------------------------
(* Segments that can gain no pointer *)

\* Only a restart begins a new epoch.
LEMMA EpochKept ==
    ASSUME Core, [ReclaimNext]_vars, ~ReclaimCrash
    PROVE  nextSegid'.epoch = nextSegid.epoch /\ ~Crash
  <1>. Types /\ DataTypes
    BY DEF Core, SegInv, Types
  <1>0. nextSegid \in Segid
    BY DEF DataTypes
  <1>1. NextSegid.epoch = nextSegid.epoch
    BY <1>0 DEF NextSegid, Segid
  <1>2. ASSUME DataStep PROVE nextSegid'.epoch = nextSegid.epoch
    <2>1. nextSegid' \in {nextSegid, NextSegid}
      <3>1. ASSUME NEW w \in Writer, WriterStep(w) PROVE nextSegid' \in {nextSegid, NextSegid}
        <4>1. \A s \in Slot, partial \in BOOLEAN, l \in Lane : Claim(w, s, partial, l) => nextSegid' = nextSegid
          BY Zenon DEF Claim
        <4>. QED
          BY <3>1, <4>1 DEF WriterStep, Fill, FailFill, SpawnSeal, RotateLane, Submit, Punch, dataVars
      <3>2. SealOpen => nextSegid' \in {nextSegid, NextSegid}
        BY DEF SealOpen, PublishPending, TakeGate, SealRotate, ReleaseGates, SealEnd, SealPut, RotateLane
      <3>3. (\E r \in Request : RequestFlush(r)) \/ FlushWorker => nextSegid' = nextSegid
        BY DEF RequestFlush, FlushWorker, DrainRequests, FlushBegin, FlushManifest, FlushFailed, FlushRest, dataVars
      <3>4. \A g \in uploads : BackgroundPut(g) => nextSegid' = nextSegid
        BY DEF BackgroundPut
      <3>. QED
        BY <1>2, <3>1, <3>2, <3>3, <3>4, SMTT(30) DEF DataStep
    <2>. QED
      BY <1>1, <2>1
  <1>3. CommitFor(Apply, TRUE) \/ CommitFor(AbortBatch, FALSE) => nextSegid'.epoch = nextSegid.epoch
    BY DEF CommitFor, Apply, AbortBatch, dataVars
  <1>4. UNCHANGED segVars => nextSegid'.epoch = nextSegid.epoch
    BY DEF segVars
  <1>5. Collect => nextSegid'.epoch = nextSegid.epoch
    BY <1>1 DEF Collect, CollectStore
  <1>6. nextSegid'.epoch = nextSegid.epoch
    <2>1. \/ DataStep \/ CommitFor(Apply, TRUE) \/ CommitFor(AbortBatch, FALSE)
          \/ UNCHANGED segVars
          \/ \E sweep \in BOOLEAN : BeginPass(sweep)
          \/ PassBarrier \/ PassFlushed \/ PassSealFailed \/ GateUnavailable
          \/ Delete \/ DropCounters \/ GatherFails \/ Pack
          \/ \E f \in gc.frames : Repoint(f)
          \/ PackEnd
      <3>1. Gate \/ Scan \/ ListOrphans \/ Gather \/ Tick => UNCHANGED segVars
        BY DEF Gate, Scan, ListOrphans, Gather, Tick
      <3>2. \A g \in gc.todo : Verify(g) => UNCHANGED segVars
        BY DEF Verify
      <3>3. \A n \in Name : (\E lasting \in BOOLEAN : CreateCheckpoint(n, lasting)) \/ DeleteCheckpoint(n) => UNCHANGED segVars
        BY DEF CreateCheckpoint, DeleteCheckpoint
      <3>4. \A r \in Reader : Fetch(r) \/ (\E s \in Slot : Resolve(r, s)) => UNCHANGED segVars
        BY DEF Fetch, Resolve
      <3>5. UNCHANGED vars => UNCHANGED segVars
        BY DEF vars
      <3>. QED
        BY <3>1, <3>2, <3>3, <3>4, <3>5 DEF ReclaimNext, PassStep
    <2>. QED
      BY <1>2, <1>3, <1>4, <1>5, <2>1, CollectorActs
  <1>7. ~Crash
    <2>1. nextSegid.epoch \in Nat
      BY <1>0 DEF Segid
    <2>2. Crash => nextSegid'.epoch = nextSegid.epoch + 1
      BY DEF Crash
    <2>. QED
      BY <1>6, <2>1, <2>2
  <1>. QED
    BY <1>6, <1>7

\* A segment that can gain no pointer stays so.
LEMMA OldKept ==
    ASSUME Core, [ReclaimNext]_vars, NEW g, Old(g), g # gc.pack \/ queue' = queue
    PROVE  Old(g)'
  <1>1. SegInv /\ SegInv' /\ ([Next]_segVars \/ Collect)
    BY ReclaimActs DEF Core
  <1>. QED
    BY <1>1, OldStep, CollectOld DEF SegInv

\* And one nobody points to as well.
LEMMA BuriedKept ==
    ASSUME Core, [ReclaimNext]_vars, NEW g, Buried(g), g # gc.pack \/ queue' = queue
    PROVE  Buried(g)'
  <1>1. SegInv /\ SegInv' /\ ([Next]_segVars \/ Collect)
    BY ReclaimActs DEF Core
  <1>. QED
    BY <1>1, BuriedStep, CollectBuried DEF SegInv

\* After a restart no segment of an earlier epoch can gain one.
LEMMA CrashOld ==
    ASSUME Types, Crash, NEW g \in Segid, g.epoch < nextSegid'.epoch
    PROVE  Old(g)'
  <1>1. /\ DOMAIN sealing' = {} /\ DOMAIN queue' = {} /\ mem' = durable /\ durable' = durable
        /\ nextSegid'.epoch = nextSegid.epoch + 1
    BY DEF Crash
  <1>2. \A w \in Writer : writer'[w].pc = "idle"
    BY DEF Crash, Idle
  <1>3. \A l \in Lane : lane'[l].segid.epoch = nextSegid'.epoch
    BY DEF Crash, Fresh
  <1>4. g.epoch \in Nat /\ nextSegid.epoch \in Nat
    BY DEF Types, DataTypes, Segid
  <1>5. \A l \in Lane : lane'[l].segid # g
    BY <1>1, <1>3, <1>4
  <1>. QED
    BY <1>1, <1>2, <1>5 DEF Old, Before, Active

\* When a pass has flushed, the segments of its epoch up to the newest open one and not open can gain none.
LEMMA FlushedOld ==
    ASSUME Core, PassFlushed, NEW g \in Segid, g.epoch = nextSegid.epoch, g.counter < NewestOpen + 1, g \notin OpenSegids
    PROVE  Old(g)'
  <1>. Types /\ Segids /\ DataTypes /\ DbTypes /\ Phases
    BY DEF Core, SegInv, Types
  <1>1. UNCHANGED <<lane, sealing, queue, writer, nextSegid>> /\ durable' = mem /\ mem' = mem
    BY DEF PassFlushed, dataVars
  <1>2. DOMAIN sealing = {} /\ Published
    BY DEF PassFlushed, Phases
  <1>3. g.counter \in Nat /\ NewestOpen \in Nat /\ NewestOpen < nextSegid.counter /\ nextSegid.counter \in Nat
    BY OpenCounters, BeforeFacts
  <1>4. Before(g, nextSegid)
    BY <1>3 DEF Before
  <1>5. \A i \in DOMAIN queue : SegidOf(queue[i].loc) # g
    <2>1. ASSUME NEW i \in DOMAIN queue PROVE queue[i].loc = Free
      <3>1. queue[i] \in Txns /\ ~queue[i].guard
        BY <1>2 DEF DbTypes, Published
      <3>. QED
        BY <3>1, TxnFields
    <2>. QED
      BY <2>1, Constants DEF SegidOf, Hole
  <1>6. \A l \in Lane : lane[l].segid # g
    BY DEF OpenSegids
  <1>7. \A w \in Writer : ~Active(w)
    BY <1>2 DEF Published, Active
  <1>. QED
    BY <1>1, <1>2, <1>4, <1>5, <1>6, <1>7 DEF Old, Before, Active

\* What may be picked next could be picked before, or is of a closed epoch, or a flush has just settled it.
LEMMA EligibleNext ==
    ASSUME Core, [ReclaimNext]_vars, NEW g \in Segid, Eligible(g)', ~ReclaimCrash, ~PassFlushed
    PROVE  Eligible(g)
  <1>0. g.counter \in Nat /\ nextSegid'.epoch = nextSegid.epoch
    BY EpochKept DEF Segid
  <1>1. gc'.cutoff = 0 \/ (gc'.cutoff = gc.cutoff /\ gc'.open = gc.open)
    <2>1. CASE Scan
      <3>1. Blank'
        BY <2>1, ScanFacts, BlankNext
      <3>. QED
        BY <3>1 DEF Blank
    <2>2. CASE ListOrphans
      <3>1. Blank'
        BY <2>2, BlankNext DEF ListOrphans
      <3>. QED
        BY <3>1 DEF Blank
    <2>3. CASE Pack
      <3>1. gc \in Passes
        BY DEF Core, GcTypes
      <3>. QED
        BY <2>3, <3>1, PackFields, BlankNext DEF Blank
    <2>. QED
      BY <2>1, <2>2, <2>3, PassKeeps DEF PassShrinks
  <1>. QED
    BY <1>0, <1>1 DEF Eligible

\* The pack of the next state is this one's, none, or a new segment.
LEMMA PackNext ==
    ASSUME Core, [ReclaimNext]_vars
    PROVE  gc'.pack \in {gc.pack, Free, nextSegid}
  <1>0. gc \in Passes
    BY DEF Core, GcTypes
  <1>1. CASE Scan
    BY <1>1, ScanFacts, BlankNext DEF Blank
  <1>2. CASE ListOrphans
    BY <1>2, BlankNext DEF ListOrphans, Blank
  <1>3. CASE Pack
    BY <1>0, <1>3, PackFields, BlankNext DEF Blank
  <1>4. CASE PassFlushed
    BY <1>0, <1>4, FlushedFields
  <1>. QED
    BY <1>1, <1>2, <1>3, <1>4, PassKeeps DEF PassShrinks

\* Every step leaves what the collector may pick without a chance of a new pointer.
LEMMA AgedEligible ==
    ASSUME Core, [ReclaimNext]_vars, NEW g \in Segid, Eligible(g)'
    PROVE  Old(g)' /\ g # gc'.pack
  <1>. Types /\ DataTypes /\ Aged /\ Phases
    BY DEF Core, SegInv, Types
  <1>0. gc \in Passes /\ g # Free /\ g.counter \in Nat
    BY Constants DEF Core, GcTypes, Segid
  <1>1. ASSUME Eligible(g) PROVE Old(g)' /\ g # gc'.pack
    <2>1. Old(g) /\ g # gc.pack
      BY <1>1 DEF Aged
    <2>2. g # nextSegid
      BY <2>1, BeforeFacts DEF Old
    <2>. QED
      BY <1>0, <2>1, <2>2, OldKept, PackNext
  <1>2. CASE ReclaimCrash
    <2>1. gc' = Asleep /\ Crash
      BY <1>2 DEF ReclaimCrash
    <2>2. gc'.cutoff = 0 /\ gc'.pack = Free
      BY <2>1, BlankNext DEF Blank
    <2>3. g.epoch < nextSegid'.epoch
      BY <1>0, <2>2 DEF Eligible
    <2>. QED
      BY <1>0, <2>1, <2>2, <2>3, CrashOld
  <1>3. CASE PassFlushed
    <2>1. gc'.cutoff = NewestOpen + 1 /\ gc'.open = OpenSegids /\ gc'.pack = gc.pack /\ nextSegid' = nextSegid
      BY <1>0, <1>3, FlushedFields DEF PassFlushed, dataVars
    <2>2. gc.pack = Free
      BY <1>3 DEF PassFlushed, Phases, Moving
    <2>3. CASE g.epoch < nextSegid.epoch
      BY <1>1, <2>3 DEF Eligible
    <2>4. CASE ~(g.epoch < nextSegid.epoch)
      <3>1. g.epoch = nextSegid.epoch /\ g.counter < NewestOpen + 1 /\ g \notin OpenSegids
        BY <2>1, <2>4 DEF Eligible
      <3>. QED
        BY <1>0, <1>3, <2>1, <2>2, <3>1, FlushedOld
    <2>. QED
      BY <2>3, <2>4
  <1>. QED
    BY <1>1, <1>2, <1>3, EligibleNext

\* A segment with no live frame on disk has no pointer there.
LEMMA DeadUnseen ==
    ASSUME LiveExact, NEW g \in DOMAIN durable.count, durable.count[g].live = 0, NEW s \in Slot
    PROVE  SegidOf(durable.ptr[s]) # g
  <1>. DEFINE P == {x \in Slot : SegidOf(durable.ptr[x]) = g}
  <1>1. IsFiniteSet(P)
    BY SegmentsNames, FS_Subset
  <1>2. Cardinality(P) = 0
    BY DEF LiveExact, Pointers
  <1>3. P = {}
    BY <1>1, <1>2, FS_EmptySet
  <1>. QED
    BY <1>3

\* Whatever the collector takes for dead was buried when it took it.
LEMMA NamedNext ==
    ASSUME Core, [ReclaimNext]_vars, NEW g \in Named'
    PROVE  Buried(g) /\ g # gc.pack /\ g \in Segid
  <1>. SegInv /\ Types /\ LiveExact /\ DataTypes /\ DbTypes /\ Aged /\ Phases /\ GcTypes
    BY DEF Core, SegInv, Types
  <1>0. gc \in Passes /\ Free \notin Segid
    BY Constants DEF GcTypes
  <1>1. \A x \in Segid : Eligible(x) => Old(x) /\ x # gc.pack
    BY DEF Aged
  <1>2. Named = DOMAIN deleteAt \cup (Marks \ {Free}) /\ Named \subseteq Segid
    BY <1>0 DEF Named, Marks, GcTypes, Passes
  <1>3. \A x \in Named : Buried(x) /\ x # gc.pack /\ x \in Segid
    BY <1>2 DEF Aged
  <1>4. Named' = DOMAIN deleteAt' \cup (Marks' \ {Free})
    <2>1. gc' \in Passes
      BY PassTypes
    <2>. QED
      BY <1>0, <2>1 DEF Named, Marks, Passes
  <1>5. CASE Scan
    <2>1. PICK dead \in SUBSET Segid, D \in SUBSET Segid :
              /\ D \subseteq dead
              /\ \A x \in dead : x \in DOMAIN durable.count /\ Eligible(x) /\ durable.count[x].live = 0
              /\ DOMAIN deleteAt' = dead \ D
              /\ \E cand \in SUBSET Segid : gc' = [Asleep EXCEPT !.pc = "verify", !.todo = D, !.cand = cand]
      BY <1>5, ScanFacts
    <2>2. Blank' /\ gc'.todo = D
      <3>1. PICK cand \in SUBSET Segid : gc' = [Asleep EXCEPT !.pc = "verify", !.todo = D, !.cand = cand]
        BY <2>1
      <3>. QED
        BY <3>1, BlankNext
    <2>3. g \in dead
      BY <1>4, <2>1, <2>2 DEF Blank, Marks
    <2>4. \A s \in Slot : SegidOf(durable.ptr[s]) # g
      BY <2>1, <2>3, DeadUnseen
    <2>. QED
      BY <1>1, <2>1, <2>3, <2>4 DEF Buried
  <1>6. CASE ListOrphans
    <2>1. PICK D \in SUBSET Segid : /\ \A x \in D : Eligible(x) /\ x \notin DOMAIN mem.count
                                    /\ gc' = [Asleep EXCEPT !.pc = "verify", !.sweep = TRUE, !.todo = D]
      BY <1>6 DEF ListOrphans, DataTypes
    <2>2. Blank' /\ gc'.todo = D /\ deleteAt' = deleteAt
      BY <1>6, <2>1, BlankNext DEF ListOrphans, PassRest
    <2>3. CASE g \in D
      <3>1. \A s \in Slot : SegidOf(durable.ptr[s]) # g
        BY <1>0, <2>1, <2>3 DEF Aged, SegidOf, Hole
      <3>. QED
        BY <1>1, <2>1, <2>3, <3>1 DEF Buried
    <2>4. CASE g \in DOMAIN deleteAt
      BY <1>2, <1>3, <2>4
    <2>. QED
      BY <1>4, <2>2, <2>3, <2>4 DEF Blank, Marks
  <1>7. CASE ~Scan /\ ~ListOrphans
    <2>1. DOMAIN deleteAt' \subseteq DOMAIN deleteAt
      BY <1>7, ListMoves DEF Tick, ReclaimCrash
    <2>2. Marks' \subseteq Marks \cup {Free}
      <3>1. CASE Pack
        BY <1>0, <3>1, PackFields, BlankNext DEF Marks, Blank
      <3>2. CASE PassFlushed
        BY <1>0, <3>2, FlushedFields
      <3>. QED
        BY <1>7, <3>1, <3>2, PassKeeps DEF PassShrinks
    <2>. QED
      BY <1>2, <1>3, <1>4, <2>1, <2>2
  <1>. QED
    BY <1>5, <1>6, <1>7

\* What compaction may take can gain no pointer.
LEMMA CandNext ==
    ASSUME Core, [ReclaimNext]_vars, NEW g \in gc'.cand
    PROVE  Old(g) /\ g # gc.pack /\ g \in Segid
  <1>. Aged
    BY DEF Core
  <1>0. gc \in Passes
    BY DEF Core, GcTypes
  <1>1. \A x \in gc.cand : Old(x) /\ x # gc.pack /\ x \in Segid
    BY DEF Aged, Old
  <1>2. CASE Scan
    <2>1. PICK D \in SUBSET Segid, cand \in SUBSET Segid :
             /\ \A x \in cand : Eligible(x)
             /\ gc' = [Asleep EXCEPT !.pc = "verify", !.todo = D, !.cand = cand]
      BY <1>2, ScanFacts
    <2>2. g \in cand
      BY <2>1, BlankNext
    <2>. QED
      BY <2>1, <2>2 DEF Aged
  <1>3. CASE ListOrphans
    BY <1>3, BlankNext DEF ListOrphans
  <1>4. CASE Pack
    BY <1>0, <1>1, <1>4, PackFields, BlankNext
  <1>5. CASE PassFlushed
    BY <1>0, <1>1, <1>5, FlushedFields
  <1>. QED
    BY <1>1, <1>2, <1>3, <1>4, <1>5, PassKeeps DEF PassShrinks

\* The counter of a segment goes only when the collector drops it, or when a restart finds none.
LEMMA CountersKept ==
    ASSUME Core, [ReclaimNext]_vars
    PROVE  \/ DOMAIN mem.count \subseteq DOMAIN mem'.count
           \/ /\ queue # <<>> /\ queue[1].slot = Free /\ queue' = Tail(queue) /\ durable' = durable
              /\ DOMAIN mem.count \subseteq DOMAIN mem'.count \cup queue[1].drop
           \/ ReclaimCrash
  <1>. SegInv /\ Types /\ DbTypes
    BY DEF Core, SegInv, Types
  <1>1. CASE Apply
    <2>1. queue # <<>> /\ queue' = Tail(queue) /\ mem'.count = SegDeltas(mem.count, queue[1]) /\ durable' = durable
      BY <1>1, ApplyFacts DEF Apply
    <2>2. DOMAIN mem.count \subseteq DOMAIN mem'.count \cup queue[1].drop
      BY <2>1 DEF SegDeltas
    <2>3. queue[1] \in Txns
      BY <2>1, HeadOfQueue
    <2>4. queue[1].slot # Free => queue[1].drop = {}
      BY <2>3, TxnFields
    <2>. QED
      BY <2>1, <2>2, <2>4
  <1>2. CASE mem' = mem
    BY <1>2
  <1>3. Apply \/ ReclaimCrash \/ mem' = mem
    <2>1. CASE Collect
      BY <2>1 DEF Collect
    <2>2. CASE [Next]_segVars
      BY <2>2, DbMoves, EpochKept DEF dbVars, Submit, Punch, AbortBatch, FlushManifest, FlushRest
    <2>. QED
      BY <2>1, <2>2, ReclaimActs
  <1>. QED
    BY <1>1, <1>2, <1>3

\* Every segment with a durable pointer stays counted.
LEMMA CountedNext ==
    ASSUME Core, [ReclaimNext]_vars, NEW s \in Slot, durable'.ptr[s] # Free
    PROVE  durable'.ptr[s].segid \in DOMAIN mem'.count
  <1>. SegInv /\ SegInv' /\ Types /\ DbTypes /\ LiveExact /\ Aged /\ Drops
    BY ReclaimActs DEF Core, SegInv, Types
  <1>0. SegidOf(durable'.ptr[s]) = durable'.ptr[s].segid
    BY DEF SegidOf, Hole
  <1>1. durable' = mem' => durable'.ptr[s].segid \in DOMAIN mem'.count
    <2>1. LiveExact'
      BY DEF SegInv
    <2>2. Hole(mem'.ptr[s]) \/ SegidOf(mem'.ptr[s]) \in DOMAIN mem'.count
      BY <2>1 DEF LiveExact, Hole, SegidOf
    <2>. QED
      BY <1>0, <2>2 DEF Hole
  <1>2. CASE durable' = durable /\ ~ReclaimCrash
    <2>1. durable.ptr[s].segid \in DOMAIN mem.count
      BY <1>2 DEF Aged
    <2>2. CASE queue # <<>> /\ DOMAIN mem.count \subseteq DOMAIN mem'.count \cup queue[1].drop
      <3>1. 1 \in DOMAIN queue
        BY <2>2, HeadOfQueue
      <3>2. \A g \in queue[1].drop : Buried(g)
        BY <3>1 DEF Drops
      <3>3. durable.ptr[s].segid \notin queue[1].drop
        BY <1>0, <1>2, <3>2, BuriedUnseen
      <3>. QED
        BY <1>2, <2>1, <2>2, <3>3
    <2>. QED
      BY <1>2, <2>1, <2>2, CountersKept
  <1>3. (durable' = durable /\ ~ReclaimCrash) \/ durable' = mem'
    <2>1. CASE Collect /\ ~ReclaimCrash
      BY <2>1 DEF Collect, CollectSeal
    <2>2. CASE ReclaimCrash
      BY <2>2 DEF ReclaimCrash, Crash
    <2>3. CASE [Next]_segVars /\ ~ReclaimCrash
      BY <2>3, DbMoves, EpochKept DEF dbVars, Submit, Punch, AbortBatch, FlushManifest, FlushRest, Apply
    <2>. QED
      BY <2>1, <2>2, <2>3, ReclaimActs
  <1>. QED
    BY <1>1, <1>2, <1>3

\* Every step keeps what the collector may pick, and what it picked, out of reach.
LEMMA AgedStep ==
    ASSUME Core, [ReclaimNext]_vars
    PROVE  Aged'
  <1>. Types /\ DataTypes
    BY DEF Core, SegInv, Types
  <1>1. \A g \in Segid : Eligible(g)' => Old(g)' /\ g # gc'.pack
    BY AgedEligible
  <1>2. ASSUME NEW g, Old(g), g # gc.pack PROVE g # gc'.pack
    <2>1. g \in Segid /\ g # nextSegid
      BY <1>2, BeforeFacts DEF Old
    <2>. QED
      BY <1>2, <2>1, PackNext, Constants
  <1>3. \A g \in gc'.cand : Old(g)' /\ g # gc'.pack
    BY <1>2, CandNext, OldKept
  <1>4. ASSUME NEW g \in Named' PROVE Buried(g)' /\ g # gc'.pack
    <2>1. Buried(g) /\ g # gc.pack /\ Old(g)
      BY NamedNext DEF Buried
    <2>. QED
      BY <1>2, <2>1, BuriedKept
  <1>5. \A s \in Slot : durable'.ptr[s] # Free => durable'.ptr[s].segid \in DOMAIN mem'.count
    BY CountedNext
  <1>. QED
    BY <1>1, <1>3, <1>4, <1>5 DEF Aged

-----------------------------------------------------------------------------
(* Phases *)

\* Whose answer the commit worker gives back to the collector.
LEMMA AnswerFacts ==
    ASSUME Core, NEW ok \in BOOLEAN, queue # <<>>,
           gc' = IF Head(queue).owner # "gc" THEN gc
                 ELSE IF ~ok THEN Asleep
                 ELSE [gc EXCEPT !.pc = IF gc.pc = "swapping" THEN "repoint" ELSE "select"]
    PROVE  \/ queue[1].owner # "gc" /\ gc' = gc
           \/ queue[1].owner = "gc" /\ gc' = Asleep
           \/ queue[1].owner = "gc" /\ gc.pc = "swapping" /\ gc' = [gc EXCEPT !.pc = "repoint"]
           \/ queue[1].owner = "gc" /\ gc.pc = "dropping" /\ gc' = [gc EXCEPT !.pc = "select"]
  <1>. DbTypes /\ Phases
    BY DEF Core, SegInv, Types
  <1>1. 1 \in DOMAIN queue /\ Head(queue) = queue[1]
    BY HeadOfQueue
  <1>2. queue[1].owner = "gc" => gc.pc \in {"dropping", "swapping"}
    BY <1>1 DEF Phases
  <1>. QED
    BY <1>1, <1>2

\* In every phase a pass has in hand what belongs to it.
LEMMA PhasesHand ==
    ASSUME Core, [ReclaimNext]_vars
    PROVE  /\ gc'.pc \notin {"gate", "scan", "list"} => gc'.cutoff = 0
           /\ gc'.pc \notin Moving => gc'.pack = Free
           /\ gc'.pc = "delete" => gc'.target # Free
  <1>. DEFINE Good == /\ gc'.pc \notin {"gate", "scan", "list"} => gc'.cutoff = 0
                      /\ gc'.pc \notin Moving => gc'.pack = Free
                      /\ gc'.pc = "delete" => gc'.target # Free
  <1>. Phases
    BY DEF Core
  <1>0. gc \in Passes
    BY DEF Core, GcTypes
  <1>1. CASE gc' = Asleep \/ \E sweep \in BOOLEAN : BeginPass(sweep)
    <2>1. Blank' /\ gc'.pc \in {"idle", "barrier"}
      BY <1>1, BlankNext
    <2>. QED
      BY <2>1 DEF Blank
  <1>2. CASE gc' = gc
    BY <1>2 DEF Phases
  <1>3. CASE \/ gc.pc = "swapping" /\ gc' = [gc EXCEPT !.pc = "repoint"]
             \/ gc.pc = "dropping" /\ gc' = [gc EXCEPT !.pc = "select"]
             \/ gc.pc = "barrier" /\ gc' = [gc EXCEPT !.pc = "seal"]
    BY <1>0, <1>3 DEF Phases, Moving, Passes
  <1>4. CASE PassFlushed
    <2>1. gc'.pc \in {"list", "gate"} /\ gc'.pack = gc.pack
      BY <1>0, <1>4, FlushedFields
    <2>. QED
      BY <1>4, <2>1 DEF PassFlushed, Phases, Moving
  <1>5. CASE Gate
    <2>1. PICK h, p : gc' = [gc EXCEPT !.pc = "scan", !.horizon = h, !.pinned = p]
      BY <1>5 DEF Gate
    <2>. QED
      BY <1>0, <1>5, <2>1 DEF Gate, Phases, Moving, Passes
  <1>6. CASE Scan
    <2>1. PICK D \in SUBSET Segid, cand \in SUBSET Segid : gc' = [Asleep EXCEPT !.pc = "verify", !.todo = D, !.cand = cand]
      BY <1>6, ScanFacts
    <2>2. Blank' /\ gc'.pc = "verify"
      BY <2>1, BlankNext
    <2>. QED
      BY <2>2 DEF Blank
  <1>7. CASE ListOrphans
    <2>1. Blank' /\ gc'.pc = "verify"
      BY <1>7, BlankNext DEF ListOrphans
    <2>. QED
      BY <2>1 DEF Blank
  <1>8. ASSUME NEW g \in gc.todo, Verify(g) PROVE Good
    <2>1. PICK pc, target, freed :
             /\ gc' = [gc EXCEPT !.todo = gc.todo \ {g}, !.pc = pc, !.target = target, !.freed = freed]
             /\ pc = "verify" \/ (pc = "delete" /\ target = g)
      BY <1>8 DEF Verify
    <2>2. g # Free
      BY <1>0, Constants DEF Passes
    <2>3. gc.pc = "verify"
      BY <1>8 DEF Verify
    <2>4. gc'.pc = pc /\ gc'.target = target /\ gc'.cutoff = gc.cutoff /\ gc'.pack = gc.pack
      BY <1>0, <2>1 DEF Passes
    <2>. QED
      BY <2>1, <2>2, <2>3, <2>4 DEF Phases, Moving
  <1>9. CASE Delete
    <2>1. \/ gc' = [gc EXCEPT !.pc = "verify", !.target = Free]
          \/ \E freed : gc' = [gc EXCEPT !.pc = "verify", !.target = Free, !.freed = freed]
      BY <1>9 DEF Delete
    <2>2. gc'.pc = "verify" /\ gc'.cutoff = gc.cutoff /\ gc'.pack = gc.pack
      BY <1>0, <2>1 DEF Passes
    <2>. QED
      BY <1>9, <2>2 DEF Delete, Phases, Moving
  <1>10. CASE DropCounters /\ gc' # Asleep
    <2>1. PICK p \in {"select", "dropping"} : gc' = [gc EXCEPT !.pc = p, !.freed = {}]
      BY <1>10 DEF DropCounters
    <2>2. gc'.pc = p /\ gc'.cutoff = gc.cutoff /\ gc'.pack = gc.pack
      BY <1>0, <2>1 DEF Passes
    <2>. QED
      BY <1>10, <2>2 DEF DropCounters, Phases, Moving
  <1>11. CASE Gather /\ gc' # Asleep
    <2>1. PICK frames \in SUBSET Gathered, cand \in SUBSET gc.cand : gc' = [gc EXCEPT !.pc = "pack", !.cand = cand, !.frames = frames]
      BY <1>11, GatherFacts
    <2>2. gc'.pc = "pack" /\ gc'.cutoff = gc.cutoff /\ gc'.pack = gc.pack
      BY <1>0, <2>1 DEF Passes
    <2>. QED
      BY <1>11, <2>2 DEF Gather, Phases, Moving
  <1>12. CASE Pack /\ gc' # Asleep
    <2>1. gc'.pc = "repoint" /\ gc'.cutoff = gc.cutoff
      BY <1>0, <1>12, PackFields
    <2>. QED
      BY <1>12, <2>1 DEF Pack, Phases, Moving
  <1>13. ASSUME NEW f \in gc.frames, Repoint(f) PROVE Good
    <2>1. PICK F, n : gc' = [gc EXCEPT !.pc = "swapping", !.frames = F, !.swapped = n] \/ gc' = [gc EXCEPT !.frames = F]
      BY <1>13 DEF Repoint
    <2>2. gc'.pc \in {"swapping", gc.pc} /\ gc'.cutoff = gc.cutoff /\ gc'.pack = gc.pack
      BY <1>0, <2>1 DEF Passes
    <2>. QED
      BY <1>13, <2>2 DEF Repoint, Phases, Moving
  <1>14. CASE PackEnd /\ gc' # Asleep
    <2>1. gc' = [gc EXCEPT !.pc = "select", !.pack = Free, !.swapped = 0]
      BY <1>14 DEF PackEnd
    <2>2. gc'.pc = "select" /\ gc'.cutoff = gc.cutoff /\ gc'.pack = Free
      BY <1>0, <2>1 DEF Passes
    <2>. QED
      BY <1>14, <2>2 DEF PackEnd, Phases, Moving
  <1>15. CASE Tick
    <2>1. PICK h : gc' = [gc EXCEPT !.horizon = h]
      BY <1>15 DEF Tick
    <2>2. gc'.pc = gc.pc /\ gc'.cutoff = gc.cutoff /\ gc'.pack = gc.pack /\ gc'.target = gc.target
      BY <1>0, <2>1 DEF Passes
    <2>. QED
      BY <2>2 DEF Phases, Moving
  <1>16. PassBarrier \/ CommitFor(Apply, TRUE) \/ CommitFor(AbortBatch, FALSE)
            => \/ gc' = gc \/ gc' = Asleep
               \/ gc.pc = "swapping" /\ gc' = [gc EXCEPT !.pc = "repoint"]
               \/ gc.pc = "dropping" /\ gc' = [gc EXCEPT !.pc = "select"]
               \/ gc.pc = "barrier" /\ gc' = [gc EXCEPT !.pc = "seal"]
    BY AnswerFacts DEF PassBarrier, CommitFor, Apply, AbortBatch
  <1>17. PassSealFailed \/ GateUnavailable \/ GatherFails \/ ReclaimCrash => gc' = Asleep
    BY DEF PassSealFailed, GateUnavailable, GatherFails, ReclaimCrash
  <1>18. /\ \A n \in Name : (\E lasting \in BOOLEAN : CreateCheckpoint(n, lasting)) \/ DeleteCheckpoint(n) => gc' = gc
         /\ \A r \in Reader : Fetch(r) \/ (\E s \in Slot : Resolve(r, s)) => gc' = gc
    BY DEF CreateCheckpoint, DeleteCheckpoint, Fetch, Resolve
  <1>. QED
    BY <1>1, <1>2, <1>3, <1>4, <1>5, <1>6, <1>7, <1>8, <1>9, <1>10, <1>11, <1>12, <1>13, <1>14, <1>15, <1>16, <1>17,
       <1>18, PassMoves DEF gcVars

\* A pass that waits for a lock, for its seal or for an answer does nothing else meanwhile.
LEMMA WaitingMoves ==
    ASSUME Core, [ReclaimNext]_vars, gc.pc \in {"barrier", "seal", "dropping", "swapping"}
    PROVE  \/ gc'.pc = gc.pc /\ [Next]_segVars
           \/ CommitFor(Apply, TRUE) \/ CommitFor(AbortBatch, FALSE)
           \/ PassBarrier \/ PassFlushed \/ PassSealFailed \/ ReclaimCrash
  <1>0. gc \in Passes
    BY DEF Core, GcTypes
  <1>1. \/ DataStep \/ UNCHANGED vars
        \/ CommitFor(Apply, TRUE) \/ CommitFor(AbortBatch, FALSE)
        \/ PassBarrier \/ PassFlushed \/ PassSealFailed \/ ReclaimCrash
        \/ \E n \in Name, lasting \in BOOLEAN : CreateCheckpoint(n, lasting)
        \/ \E n \in Name : DeleteCheckpoint(n)
        \/ \E r \in Reader : Fetch(r) \/ \E s \in Slot : Resolve(r, s)
        \/ Tick
    <2>1. (\E sweep \in BOOLEAN : BeginPass(sweep)) => gc.pc = "idle"
      BY DEF BeginPass
    <2>2. Gate \/ GateUnavailable \/ Scan \/ Delete \/ DropCounters \/ ListOrphans \/ Gather \/ GatherFails \/ Pack \/ PackEnd
            => gc.pc \in {"gate", "scan", "delete", "verify", "list", "select", "pack", "repoint"}
      BY DEF Gate, GateUnavailable, Scan, Delete, DropCounters, ListOrphans, Gather, GatherFails, Pack, PackEnd
    <2>3. \A g \in gc.todo : Verify(g) => gc.pc = "verify"
      BY DEF Verify
    <2>4. \A f \in gc.frames : Repoint(f) => gc.pc = "repoint"
      BY DEF Repoint
    <2>. QED
      BY <2>1, <2>2, <2>3, <2>4 DEF ReclaimNext, PassStep
  <1>2. DataStep => gc'.pc = gc.pc /\ Next
    BY DEF DataStep, Next, DataPlane, gcVars
  <1>3. UNCHANGED vars => gc'.pc = gc.pc /\ UNCHANGED segVars
    BY DEF vars, gcVars
  <1>4. Tick => gc'.pc = gc.pc /\ UNCHANGED segVars
    BY <1>0 DEF Tick, Passes
  <1>5. \A n \in Name : (\E lasting \in BOOLEAN : CreateCheckpoint(n, lasting)) \/ DeleteCheckpoint(n)
           => gc'.pc = gc.pc /\ UNCHANGED segVars
    BY DEF CreateCheckpoint, DeleteCheckpoint
  <1>6. \A r \in Reader : Fetch(r) \/ (\E s \in Slot : Resolve(r, s)) => gc'.pc = gc.pc /\ UNCHANGED segVars
    BY DEF Fetch, Resolve
  <1>. QED
    BY <1>1, <1>2, <1>3, <1>4, <1>5, <1>6

\* A pass comes to its barriers and to its transactions only by its own steps.
LEMMA WaitingBegins ==
    ASSUME Core, [ReclaimNext]_vars, gc'.pc \in {"barrier", "seal", "dropping", "swapping"}
    PROVE  \/ gc'.pc = gc.pc
           \/ gc'.pc = "barrier" /\ \E sweep \in BOOLEAN : BeginPass(sweep)
           \/ gc'.pc = "seal" /\ PassBarrier
           \/ gc'.pc = "dropping" /\ DropCounters
           \/ gc'.pc = "swapping" /\ \E f \in gc.frames : Repoint(f)
  <1>0. gc \in Passes
    BY DEF Core, GcTypes
  <1>1. gc' # Asleep /\ gc'.pc \notin {"idle", "gate", "list", "scan", "verify", "delete", "select", "pack", "repoint"}
    BY BlankNext
  <1>2. ~PassFlushed /\ ~Gate /\ ~Scan /\ ~ListOrphans /\ ~Delete /\ ~Gather /\ ~Pack /\ ~PackEnd
    <2>1. ~PassFlushed
      BY <1>0, <1>1, FlushedFields
    <2>2. ~Gate
      <3>1. ASSUME NEW h, NEW p, gc' = [gc EXCEPT !.pc = "scan", !.horizon = h, !.pinned = p] PROVE FALSE
        BY <1>0, <1>1, <3>1 DEF Passes
      <3>. QED
        BY <3>1 DEF Gate
    <2>3. ~Scan
      <3>1. ASSUME NEW D, NEW cand, gc' = [Asleep EXCEPT !.pc = "verify", !.todo = D, !.cand = cand] PROVE FALSE
        BY <1>1, <3>1, BlankNext
      <3>. QED
        BY <3>1, ScanFacts
    <2>4. ~ListOrphans
      BY <1>1, BlankNext DEF ListOrphans
    <2>5. ~Delete
      BY <1>0, <1>1 DEF Delete, Passes
    <2>6. ~Gather
      BY <1>0, <1>1, GatherFacts DEF Passes
    <2>7. ~Pack
      BY <1>0, <1>1, PackFields
    <2>8. ~PackEnd
      BY <1>0, <1>1 DEF PackEnd, Passes
    <2>. QED
      BY <2>1, <2>2, <2>3, <2>4, <2>5, <2>6, <2>7, <2>8
  <1>3. \A g \in gc.todo : ~Verify(g)
    BY <1>0, <1>1 DEF Verify, Passes
  <1>4. DropCounters => gc'.pc = "dropping"
    BY <1>0, <1>1 DEF DropCounters, Passes
  <1>5. \A f \in gc.frames : Repoint(f) => gc'.pc = "swapping" \/ gc'.pc = gc.pc
    BY <1>0 DEF Repoint, Passes
  <1>6. \A sweep \in BOOLEAN : BeginPass(sweep) => gc'.pc = "barrier"
    BY BlankNext
  <1>7. PassBarrier => gc'.pc = "seal"
    BY <1>0 DEF PassBarrier, Passes
  <1>8. CommitFor(Apply, TRUE) \/ CommitFor(AbortBatch, FALSE) => gc'.pc = gc.pc
    BY <1>0, <1>1, AnswerFacts DEF CommitFor, Apply, AbortBatch, Passes
  <1>9. ~PassSealFailed /\ ~GateUnavailable /\ ~GatherFails /\ ~ReclaimCrash
    BY <1>1 DEF PassSealFailed, GateUnavailable, GatherFails, ReclaimCrash
  <1>10. /\ \A n \in Name : (\E lasting \in BOOLEAN : CreateCheckpoint(n, lasting)) \/ DeleteCheckpoint(n) => gc' = gc
         /\ \A r \in Reader : Fetch(r) \/ (\E s \in Slot : Resolve(r, s)) => gc' = gc
    BY DEF CreateCheckpoint, DeleteCheckpoint, Fetch, Resolve
  <1>11. Tick => gc'.pc = gc.pc
    BY <1>0 DEF Tick, Passes
  <1>. QED
    BY <1>2, <1>3, <1>4, <1>5, <1>6, <1>7, <1>8, <1>9, <1>10, <1>11, PassMoves DEF gcVars

\* The barriers, the flush worker and the reference barrier change only here.
LEMMA BarrierMoves ==
    ASSUME Core, [ReclaimNext]_vars
    PROVE  /\ \/ UNCHANGED <<barrier, flusher>>
              \/ PassBarrier \/ PassFlushed \/ PassSealFailed \/ ReclaimCrash
              \/ (DrainRequests \/ FlushBegin \/ FlushManifest \/ FlushFailed) /\ gc' = gc
           /\ refs' = refs \/ (\E sweep \in BOOLEAN : BeginPass(sweep)) \/ PassFlushed \/ PassSealFailed \/ ReclaimCrash
  <1>. TaskTypes
    BY DEF Core, SegInv, Types
  <1>1. CASE DataStep
    <2>1. ASSUME NEW w \in Writer, WriterStep(w) PROVE UNCHANGED <<barrier, flusher, refs>>
      <3>1. \A s \in Slot, partial \in BOOLEAN, l \in Lane : Claim(w, s, partial, l) => UNCHANGED <<barrier, flusher, refs>>
        BY ClaimFacts DEF flushVars
      <3>. QED
        BY <2>1, <3>1 DEF WriterStep, Fill, FailFill, SpawnSeal, Submit, Punch, flushVars
    <2>2. SealOpen => UNCHANGED <<barrier, flusher, refs>>
      BY SealOpenKeeps
    <2>3. \A g \in uploads : BackgroundPut(g) => UNCHANGED <<barrier, flusher, refs>>
      BY DEF BackgroundPut, flushVars
    <2>4. \A r \in Request : RequestFlush(r) => UNCHANGED <<barrier, flusher, refs>>
      BY DEF RequestFlush, FlushRest
    <2>5. FlushWorker => refs' = refs /\ (DrainRequests \/ FlushBegin \/ FlushManifest \/ FlushFailed)
      BY DEF FlushWorker, DrainRequests, FlushBegin, FlushManifest, FlushFailed, FlushRest
    <2>6. gc' = gc
      BY <1>1 DEF DataStep, gcVars
    <2>. QED
      BY <1>1, <2>1, <2>2, <2>3, <2>4, <2>5, <2>6, SMTT(30) DEF DataStep
  <1>2. CASE UNCHANGED segVars
    BY <1>2 DEF segVars
  <1>3. CommitFor(Apply, TRUE) \/ CommitFor(AbortBatch, FALSE) => UNCHANGED <<barrier, flusher, refs>>
    BY DEF CommitFor, Apply, AbortBatch, flushVars
  <1>4. (\E sweep \in BOOLEAN : BeginPass(sweep)) => UNCHANGED <<barrier, flusher>>
    BY DEF BeginPass, flushVars
  <1>5. GateUnavailable \/ Delete \/ DropCounters \/ GatherFails \/ Pack \/ PackEnd => UNCHANGED <<barrier, flusher, refs>>
    BY DEF GateUnavailable, Delete, DropCounters, GatherFails, Pack, PackEnd, flushVars
  <1>6. \A f \in gc.frames : Repoint(f) => UNCHANGED <<barrier, flusher, refs>>
    BY DEF Repoint, flushVars
  <1>7. PassBarrier => refs' = refs
    BY SMTT(30) DEF PassBarrier
  <1>8. Gate \/ Scan \/ ListOrphans \/ Gather \/ Tick => UNCHANGED segVars
    BY DEF Gate, Scan, ListOrphans, Gather, Tick
  <1>9. \A g \in gc.todo : Verify(g) => UNCHANGED segVars
    BY DEF Verify
  <1>10. \A n \in Name : (\E lasting \in BOOLEAN : CreateCheckpoint(n, lasting)) \/ DeleteCheckpoint(n) => UNCHANGED segVars
    BY DEF CreateCheckpoint, DeleteCheckpoint
  <1>11. \A r \in Reader : Fetch(r) \/ (\E s \in Slot : Resolve(r, s)) => UNCHANGED segVars
    BY DEF Fetch, Resolve
  <1>12. UNCHANGED vars => UNCHANGED segVars
    BY DEF vars
  <1>. QED
    BY <1>1, <1>2, <1>3, <1>4, <1>5, <1>6, <1>7, <1>8, <1>9, <1>10, <1>11, <1>12 DEF ReclaimNext, PassStep

\* The flush barrier is the pass's while it seals, and the worker's while that seals.
LEMMA PhasesBarrier ==
    ASSUME Core, [ReclaimNext]_vars
    PROVE  /\ gc'.pc = "seal" <=> barrier' = "gc"
           /\ flusher'.pc = "seal" <=> barrier' = "flush"
  <1>. TaskTypes /\ Phases
    BY DEF Core, SegInv, Types
  <1>0. gc \in Passes /\ Free # "flush" /\ Free # "gc" /\ flusher \in [pc : {"idle", "barrier", "seal"}, batch : SUBSET Request]
    BY Constants DEF Core, GcTypes, TaskTypes
  <1>1. (gc.pc = "seal" <=> barrier = "gc") /\ (flusher.pc = "seal" <=> barrier = "flush")
    BY DEF Phases
  <1>2. CASE PassBarrier
    <2>1. gc'.pc = "seal" /\ barrier' = "gc" /\ flusher' = flusher /\ barrier = Free
      BY <1>0, <1>2 DEF PassBarrier, Passes
    <2>. QED
      BY <1>0, <1>1, <2>1
  <1>3. CASE PassFlushed \/ PassSealFailed
    <2>1. gc'.pc # "seal" /\ barrier' = Free /\ flusher' = flusher /\ gc.pc = "seal"
      BY <1>0, <1>3, FlushedFields, BlankNext DEF PassFlushed, PassSealFailed
    <2>. QED
      BY <1>0, <1>1, <2>1
  <1>4. CASE ReclaimCrash
    <2>1. gc'.pc # "seal" /\ barrier' = Free /\ flusher'.pc = "idle"
      BY <1>4, BlankNext DEF ReclaimCrash, Crash
    <2>. QED
      BY <1>0, <2>1
  <1>5. CASE (DrainRequests \/ FlushBegin \/ FlushManifest \/ FlushFailed) /\ gc' = gc
    BY <1>0, <1>1, <1>5 DEF DrainRequests, FlushBegin, FlushManifest, FlushFailed
  <1>6. CASE UNCHANGED <<barrier, flusher>> /\ ~PassBarrier /\ ~PassFlushed /\ ~PassSealFailed /\ ~ReclaimCrash
    <2>1. gc'.pc = "seal" => gc.pc = "seal"
      BY <1>6, WaitingBegins
    <2>2. gc.pc = "seal" => gc'.pc = "seal"
      <3>1. CommitFor(Apply, TRUE) \/ CommitFor(AbortBatch, FALSE)
              => gc'.pc = gc.pc \/ gc' = Asleep \/ gc.pc \in {"swapping", "dropping"}
        BY AnswerFacts DEF CommitFor, Apply, AbortBatch
      <3>2. CASE CommitFor(Apply, TRUE) \/ CommitFor(AbortBatch, FALSE)
        <4>1. queue # <<>> /\ (queue[1].owner = "gc" => gc.pc \in {"dropping", "swapping"})
          <5>1. queue # <<>>
            BY <3>2 DEF CommitFor, Apply, AbortBatch
          <5>2. 1 \in DOMAIN queue
            BY <5>1, HeadOfQueue DEF Core, SegInv, Types
          <5>. QED
            BY <5>1, <5>2 DEF Phases
        <4>. QED
          BY <3>2, <4>1, AnswerFacts DEF CommitFor, Apply, AbortBatch
      <3>. QED
        BY <1>6, <3>2, WaitingMoves
    <2>. QED
      BY <1>1, <1>6, <2>1, <2>2
  <1>. QED
    BY <1>2, <1>3, <1>4, <1>5, <1>6, BarrierMoves

\* While a pass has the reference barrier, no location is assigned and not yet applied.
LEMMA PhasesRefs ==
    ASSUME Core, [ReclaimNext]_vars, gc'.pc \in {"barrier", "seal"}
    PROVE  refs' /\ Published'
  <1>. Types /\ DbTypes /\ TaskTypes /\ Phases /\ Locks
    BY DEF Core, SegInv, Types
  <1>1. ASSUME NEW sweep \in BOOLEAN, BeginPass(sweep) PROVE refs' /\ Published'
    BY <1>1 DEF BeginPass, Published, dbVars
  <1>2. CASE PassBarrier
    BY <1>2 DEF PassBarrier, Phases, Published, dbVars
  <1>3. CASE gc.pc \in {"barrier", "seal"} /\ ~PassBarrier
    <2>1. refs /\ Published
      BY <1>3 DEF Phases
    <2>2. ~PassFlushed /\ ~PassSealFailed /\ ~ReclaimCrash
      <3>1. gc \in Passes
        BY DEF Core, GcTypes
      <3>. QED
        BY <3>1, FlushedFields, BlankNext DEF PassSealFailed, ReclaimCrash
    <2>3. refs' = refs
      BY <1>3, <2>2, BarrierMoves DEF BeginPass
    <2>4. [Next]_segVars /\ ~Crash
      BY <1>3, <2>2, WaitingMoves, EpochKept DEF CommitFor, Next, DataPlane, Commit
    <2>5. \A w \in Writer : writer[w].pc \notin {"claimed", "filled"}
      BY <2>1 DEF Published
    <2>6. \A w \in Writer : writer'[w].pc \notin {"claimed", "filled"}
      <3>1. ASSUME NEW w \in Writer, WriterStep(w) PROVE \A v \in Writer : writer'[v].pc \notin {"claimed", "filled"}
        <4>1. \A s \in Slot, partial \in BOOLEAN, l \in Lane : ~Claim(w, s, partial, l)
          BY <2>1, Zenon DEF Claim
        <4>2. PICK s \in Slot : Punch(w, s)
          BY <2>5, <3>1, <4>1 DEF WriterStep, Fill, FailFill, SpawnSeal, Submit
        <4>3. [Idle EXCEPT !.pc = "queued"].pc = "queued"
          BY DEF Idle
        <4>. QED
          BY <2>5, <4>2, <4>3 DEF Punch, TaskTypes
      <3>2. CASE Apply \/ AbortBatch
        <4>1. writer' = [w \in Writer |-> IF w = Head(queue).owner THEN Idle ELSE writer[w]]
          BY <3>2 DEF Apply, AbortBatch, Reply
        <4>2. Idle.pc = "idle"
          BY DEF Idle
        <4>. QED
          BY <2>5, <4>1, <4>2
      <3>. QED
        BY <2>4, <2>5, <3>1, <3>2, LockMoves
    <2>7. ASSUME NEW i \in DOMAIN queue' PROVE ~queue'[i].guard
      <3>1. \A j \in DOMAIN queue : ~queue[j].guard
        BY <2>1 DEF Published
      <3>2. ASSUME NEW w \in Writer, NEW s \in Slot, Punch(w, s) PROVE ~queue'[i].guard
        <4>. DEFINE t == Txn(w, clock.writes + 1, s, Free, mem.ptr[s], FALSE)
        <4>1. t \in Txns /\ queue' = Append(queue, t)
          BY <3>2, PunchFacts DEF Punch
        <4>2. ~t.guard
          BY DEF Txn
        <4>. HIDE DEF t
        <4>. QED
          BY <3>1, <4>1, <4>2, QueueGrows
      <3>3. ASSUME queue # <<>>, queue' = Tail(queue) PROVE ~queue'[i].guard
        BY <3>1, <3>3, HeadOfQueue
      <3>4. \A w \in Writer : ~Submit(w)
        BY <2>5 DEF Submit
      <3>. QED
        BY <2>4, <3>1, <3>2, <3>3, <3>4, DbMoves DEF dbVars, Apply, AbortBatch, FlushManifest, FlushRest
    <2>. QED
      BY <2>1, <2>3, <2>6, <2>7 DEF Published
  <1>. QED
    BY <1>1, <1>2, <1>3, WaitingBegins

\* A data step submits no transaction of the collector's.
LEMMA DataSubmits ==
    ASSUME Core, [Next]_segVars, NEW i \in DOMAIN queue'
    PROVE  \/ \E j \in DOMAIN queue : queue'[i] = queue[j] /\ ((Apply \/ AbortBatch) => j # 1)
           \/ queue'[i].owner \in Writer /\ queue'[i].drop = {}
  <1>. Types /\ DbTypes /\ TaskTypes /\ Locks /\ Ids /\ Frames
    BY DEF Core, SegInv, Types
  <1>1. ASSUME NEW t \in Txns, queue' = Append(queue, t), t.drop = {}, t.owner \in Writer, ~Apply, ~AbortBatch
        PROVE  \/ \E j \in DOMAIN queue : queue'[i] = queue[j] /\ ((Apply \/ AbortBatch) => j # 1)
               \/ queue'[i].owner \in Writer /\ queue'[i].drop = {}
    BY <1>1, QueueGrows
  <1>2. ASSUME NEW w \in Writer, Submit(w), ~Apply, ~AbortBatch
        PROVE  \/ \E j \in DOMAIN queue : queue'[i] = queue[j] /\ ((Apply \/ AbortBatch) => j # 1)
               \/ queue'[i].owner \in Writer /\ queue'[i].drop = {}
    <2>. DEFINE t == Txn(w, writer[w].id, writer[w].slot, writer[w].loc, writer[w].old, TRUE)
    <2>1. t \in Txns /\ queue' = Append(queue, t)
      BY <1>2, SubmitFacts
    <2>2. t.drop = {} /\ t.owner = w
      BY DEF Txn
    <2>. HIDE DEF t
    <2>. QED
      BY <1>1, <1>2, <2>1, <2>2
  <1>3. ASSUME NEW w \in Writer, NEW s \in Slot, Punch(w, s), ~Apply, ~AbortBatch
        PROVE  \/ \E j \in DOMAIN queue : queue'[i] = queue[j] /\ ((Apply \/ AbortBatch) => j # 1)
               \/ queue'[i].owner \in Writer /\ queue'[i].drop = {}
    <2>. DEFINE t == Txn(w, clock.writes + 1, s, Free, mem.ptr[s], FALSE)
    <2>1. t \in Txns /\ queue' = Append(queue, t)
      BY <1>3, PunchFacts DEF Punch
    <2>2. t.drop = {} /\ t.owner = w
      BY DEF Txn
    <2>. HIDE DEF t
    <2>. QED
      BY <1>1, <1>3, <2>1, <2>2
  <1>4. ASSUME queue # <<>>, queue' = Tail(queue) PROVE \E j \in DOMAIN queue : queue'[i] = queue[j] /\ j # 1
    BY <1>4, HeadOfQueue
  <1>5. Apply \/ AbortBatch => queue # <<>> /\ queue' = Tail(queue)
    BY DEF Apply, AbortBatch
  <1>6. queue' = <<>> => DOMAIN queue' = {}
    OBVIOUS
  <1>. QED
    BY <1>2, <1>3, <1>4, <1>5, <1>6, DbMoves DEF dbVars, FlushManifest, FlushRest, Crash

\* The collector's transactions are those it waits for.
LEMMA PhasesQueue ==
    ASSUME Core, [ReclaimNext]_vars, NEW i \in DOMAIN queue', queue'[i].owner = "gc"
    PROVE  gc'.pc = IF queue'[i].slot = Free THEN "dropping" ELSE "swapping"
  <1>. Types /\ DbTypes /\ TaskTypes /\ Phases /\ Locks /\ GcTypes
    BY DEF Core, SegInv, Types
  <1>0. gc \in Passes /\ "gc" \notin Writer
    BY Constants DEF GcTypes
  <1>1. ASSUME NEW j \in DOMAIN queue, queue'[i] = queue[j], gc'.pc = gc.pc
        PROVE  gc'.pc = IF queue'[i].slot = Free THEN "dropping" ELSE "swapping"
    BY <1>1 DEF Phases
  <1>2. CASE [Next]_segVars /\ gc'.pc = gc.pc
    <2>1. PICK j \in DOMAIN queue : queue'[i] = queue[j]
      BY <1>0, <1>2, DataSubmits
    <2>. QED
      BY <1>1, <1>2, <2>1
  <1>3. CASE CommitFor(Apply, TRUE) \/ CommitFor(AbortBatch, FALSE)
    <2>1. (Apply \/ AbortBatch) /\ [Next]_segVars /\ queue # <<>>
      BY <1>3 DEF CommitFor, Next, DataPlane, Commit, Apply, AbortBatch
    <2>2. PICK j \in DOMAIN queue : queue'[i] = queue[j] /\ j # 1
      BY <1>0, <2>1, DataSubmits
    <2>3. queue[1].owner # "gc"
      <3>1. 1 \in DOMAIN queue
        BY <2>1, HeadOfQueue
      <3>. QED
        BY <2>2, <3>1 DEF Locks
    <2>4. gc' = gc
      BY <1>3, <2>1, <2>3, AnswerFacts DEF CommitFor
    <2>. QED
      BY <1>1, <2>2, <2>4
  <1>4. CASE gc.pc \in {"dropping", "swapping"}
    <2>1. ~PassBarrier /\ ~PassFlushed /\ ~PassSealFailed
      BY <1>4 DEF PassBarrier, PassFlushed, PassSealFailed
    <2>2. ReclaimCrash => DOMAIN queue' = {}
      BY DEF ReclaimCrash, Crash
    <2>. QED
      BY <1>2, <1>3, <1>4, <2>1, <2>2, WaitingMoves
  <1>5. CASE gc.pc \notin {"dropping", "swapping"}
    <2>1. \A j \in DOMAIN queue : queue[j].owner # "gc"
      BY <1>5 DEF Phases
    <2>2. Collect
      BY <1>0, <2>1, DataSubmits, ReclaimActs
    <2>3. CollectTxn(queue'[i])
      BY <2>1, <2>2, CollectQueueFacts DEF Collect
    <2>4. queue' # queue
      BY <2>1
    <2>5. DropCounters \/ \E f \in gc.frames : Repoint(f)
      <3>1. ~([Next]_segVars)
        BY <1>0, <2>1, DataSubmits
      <3>2. (\E sweep \in BOOLEAN : BeginPass(sweep)) \/ PassBarrier \/ PassFlushed \/ PassSealFailed \/ GateUnavailable
            \/ Delete \/ GatherFails \/ Pack \/ PackEnd => queue' = queue
        BY DEF BeginPass, PassBarrier, PassFlushed, PassSealFailed, GateUnavailable, Delete, GatherFails, Pack, PackEnd,
               dbVars
      <3>. QED
        BY <2>4, <3>1, <3>2, ReclaimMoves
    <2>6. CASE DropCounters
      <3>1. gc' = [gc EXCEPT !.pc = "dropping", !.freed = {}]
        BY <2>4, <2>6 DEF DropCounters
      <3>2. gc'.pc = "dropping"
        BY <1>0, <3>1 DEF Passes
      <3>3. lock' = lock
        BY <2>6 DEF DropCounters
      <3>4. PICK t \in Txns : t = queue'[i]
        BY <2>3 DEF CollectTxn
      <3>5. t.slot # Free => t.slot \in Slot /\ lock[t.slot] = Free /\ lock'[t.slot] = "gc"
        <4>1. t.slot # Free => t.slot \in Slot
          BY <3>4, TxnFields
        <4>. QED
          BY <2>3, <3>4, <4>1 DEF CollectTxn, TaskTypes
      <3>. QED
        BY <3>2, <3>3, <3>4, <3>5, Constants
    <2>7. ASSUME NEW f \in gc.frames, Repoint(f) PROVE gc'.pc = IF queue'[i].slot = Free THEN "dropping" ELSE "swapping"
      <3>1. PICK F, n : gc' = [gc EXCEPT !.pc = "swapping", !.frames = F, !.swapped = n]
        BY <2>4, <2>7 DEF Repoint
      <3>2. gc'.pc = "swapping"
        BY <1>0, <3>1 DEF Passes
      <3>3. f.slot \in Slot
        BY <2>7 DEF Repoint, Core, Moved, Moving, Placed
      <3>4. lock' = [lock EXCEPT ![f.slot] = "gc"] /\ lock[f.slot] = Free
        BY <2>4, <2>7 DEF Repoint
      <3>5. lock' # lock
        BY <3>3, <3>4, Constants DEF TaskTypes
      <3>6. queue'[i].slot # Free
        BY <2>3, <3>5 DEF CollectTxn
      <3>. QED
        BY <3>2, <3>6
    <2>. QED
      BY <2>5, <2>6, <2>7
  <1>. QED
    BY <1>4, <1>5

\* While a pass seals, nothing comes to wait in RAM but what its seal rotated.
LEMMA PhasesSeal ==
    ASSUME Core, [ReclaimNext]_vars, barrier' = "gc"
    PROVE  /\ seal'.pc = "upload" /\ ~seal'.failed => DOMAIN sealing' \subseteq seal'.ups
           /\ seal'.pc = "ok" => DOMAIN sealing' = {}
  <1>. Types /\ DataTypes /\ TaskTypes /\ Phases /\ Sealed
    BY DEF Core, SegInv, Types
  <1>0. Free # "gc" /\ gc \in Passes
    BY Constants DEF Core, GcTypes
  <1>1. CASE PassBarrier
    BY <1>1 DEF PassBarrier, NoSeal
  <1>2. CASE UNCHANGED <<sealing, seal>> /\ barrier = "gc"
    BY <1>2 DEF Phases
  <1>3. CASE SealOpen
    <2>1. barrier = "gc"
      BY <1>3, SealOpenKeeps
    <2>2. seal \in Seals
      BY DEF TaskTypes
    <2>3. CASE PublishPending
      <3>1. seal'.pc \in {"failed", "gate", "rotate"}
        BY <2>2, <2>3 DEF PublishPending, Seals
      <3>. QED
        BY <3>1
    <2>4. CASE TakeGate
      <3>1. seal'.pc = "publish"
        BY <2>2, <2>4 DEF TakeGate, Seals
      <3>. QED
        BY <3>1
    <2>5. CASE SealRotate
      <3>1. seal'.pc = "rotate"
        BY <2>2, <2>5 DEF SealRotate, Seals
      <3>. QED
        BY <3>1
    <2>6. CASE ReleaseGates
      <3>1. seal'.pc = "upload" /\ seal'.ups = seal.ups /\ seal'.failed = seal.failed /\ sealing' = sealing
            /\ seal.pc = "rotate"
        BY <2>2, <2>6 DEF ReleaseGates, Seals
      <3>. QED
        BY <3>1 DEF Sealed
    <2>7. CASE SealEnd
      <3>1. PICK p : seal' = [seal EXCEPT !.pc = p] /\ (p = "failed" \/ (p = "ok" /\ ~seal.failed /\ seal.pc # "rotate"))
        BY <2>7 DEF SealEnd
      <3>2. seal'.pc = p /\ seal.ups = {} /\ sealing' = sealing
        BY <2>2, <2>7, <3>1 DEF SealEnd, Seals
      <3>3. p = "ok" => seal.pc = "upload"
        BY <2>7, <3>1 DEF SealEnd
      <3>. QED
        BY <2>1, <3>1, <3>2, <3>3 DEF Phases
    <2>8. ASSUME NEW g \in seal.ups, SealPut(g)
          PROVE  /\ seal'.pc = "upload" /\ ~seal'.failed => DOMAIN sealing' \subseteq seal'.ups
                 /\ seal'.pc = "ok" => DOMAIN sealing' = {}
      <3>1. CASE seal' = [seal EXCEPT !.ups = @ \ {g}] /\ sealing' = Keep(sealing, DOMAIN sealing \ {g})
        <4>1. seal'.pc = seal.pc /\ seal'.failed = seal.failed /\ seal'.ups = seal.ups \ {g}
          BY <2>2, <3>1 DEF Seals
        <4>2. DOMAIN sealing' = DOMAIN sealing \ {g} /\ seal.pc \in {"rotate", "upload"}
          BY <2>8, <3>1 DEF Keep, SealPut
        <4>. QED
          BY <2>1, <4>1, <4>2 DEF Phases
      <3>2. CASE seal' = [seal EXCEPT !.ups = @ \ {g}, !.failed = TRUE]
        <4>1. seal'.pc = seal.pc /\ seal'.failed = TRUE /\ seal.pc \in {"rotate", "upload"}
          BY <2>2, <2>8, <3>2 DEF Seals, SealPut
        <4>. QED
          BY <4>1
      <3>. QED
        BY <2>8, <3>1, <3>2 DEF SealPut
    <2>. QED
      BY <1>3, <2>3, <2>4, <2>5, <2>6, <2>7, <2>8 DEF SealOpen
  <1>4. CASE Collect /\ ~PassBarrier
    <2>1. barrier = "gc"
      BY <1>0, <1>4, BarrierMoves DEF Collect, PassFlushed, PassSealFailed, ReclaimCrash, Crash, FlushBegin,
         FlushManifest, FlushFailed, DrainRequests
    <2>2. UNCHANGED <<sealing, seal>>
      BY <1>0, <1>4, <2>1 DEF Collect, CollectSeal
    <2>. QED
      BY <1>2, <2>1, <2>2
  <1>5. CASE [Next]_segVars /\ ~PassBarrier /\ ~SealOpen
    <2>1. barrier = "gc"
      BY <1>0, <1>5, BarrierMoves DEF PassFlushed, PassSealFailed, ReclaimCrash, Crash, FlushBegin,
         FlushManifest, FlushFailed, DrainRequests
    <2>2. refs /\ Published /\ gc.pc = "seal" /\ flusher.pc # "seal"
      BY <1>0, <2>1 DEF Phases
    <2>3. ASSUME NEW w \in Writer, WriterStep(w) PROVE UNCHANGED <<sealing, seal>>
      <3>1. \A s \in Slot, partial \in BOOLEAN, l \in Lane : Claim(w, s, partial, l) => UNCHANGED <<sealing, seal>>
        BY ClaimFacts DEF flushVars
      <3>2. ~SpawnSeal(w)
        BY <2>2 DEF SpawnSeal, Published
      <3>. QED
        BY <2>3, <3>1, <3>2 DEF WriterStep, Fill, FailFill, Submit, Punch, flushVars, dataVars
    <2>4. ASSUME NEW g \in uploads, BackgroundPut(g) PROVE seal'.pc = "none"
      BY <2>4 DEF BackgroundPut, flushVars
    <2>5. Apply \/ AbortBatch => UNCHANGED <<sealing, seal>>
      BY DEF Apply, AbortBatch, flushVars, dataVars
    <2>6. (\E r \in Request : RequestFlush(r)) => UNCHANGED <<sealing, seal>>
      BY DEF RequestFlush, FlushRest, dataVars
    <2>7. FlushWorker => UNCHANGED <<sealing, seal>>
      BY <1>0, <2>1, <2>2 DEF FlushWorker, DrainRequests, FlushBegin, FlushManifest, FlushFailed, FlushRest, dataVars
    <2>8. ~Crash
      BY <1>0 DEF Crash
    <2>9. UNCHANGED <<sealing, seal>> \/ seal'.pc = "none"
      BY <1>5, <2>3, <2>4, <2>5, <2>6, <2>7, <2>8 DEF Next, DataPlane, Commit, segVars
    <2>. QED
      BY <1>2, <2>1, <2>9
  <1>. QED
    BY <1>1, <1>3, <1>4, <1>5, ReclaimActs

\* Every step keeps to the phases.
LEMMA PhasesStep ==
    ASSUME Core, [ReclaimNext]_vars
    PROVE  Phases'
  <1>1. \A i \in DOMAIN queue' : queue'[i].owner = "gc" =>
           gc'.pc = IF queue'[i].slot = Free THEN "dropping" ELSE "swapping"
    BY PhasesQueue
  <1>2. gc'.pc \in {"barrier", "seal"} => refs' /\ Published'
    BY PhasesRefs
  <1>3. /\ barrier' = "gc" /\ seal'.pc = "upload" /\ ~seal'.failed => DOMAIN sealing' \subseteq seal'.ups
        /\ barrier' = "gc" /\ seal'.pc = "ok" => DOMAIN sealing' = {}
    BY PhasesSeal
  <1>4. /\ gc'.pc \notin {"gate", "scan", "list"} => gc'.cutoff = 0
        /\ gc'.pc \notin Moving => gc'.pack = Free
        /\ gc'.pc = "delete" => gc'.target # Free
    BY PhasesHand
  <1>5. (gc'.pc = "seal" <=> barrier' = "gc") /\ (flusher'.pc = "seal" <=> barrier' = "flush")
    BY PhasesBarrier
  <1>6. Moving' = Moving
    BY DEF Moving
  <1>. QED
    BY <1>1, <1>2, <1>3, <1>4, <1>5, <1>6 DEF Phases

-----------------------------------------------------------------------------
(* Compaction *)

\* What is readable stays so until its object is removed, or the server restarts.
LEMMA BytesStep ==
    ASSUME Core, [ReclaimNext]_vars, ~ReclaimCrash
    PROVE  BytesKept
  <1>. SegInv /\ SegInv' /\ Types /\ Segids /\ Segids' /\ Frames /\ Sealed
    BY ReclaimActs DEF Core, SegInv
  <1>1. CASE Collect
    BY <1>1, CollectBytes
  <1>2. CASE [Next]_segVars
    <2>1. ReadsKept
      BY <1>2, EpochKept, ReadsKeptStep
    <2>. QED
      BY <2>1 DEF ReadsKept, BytesKept
  <1>. QED
    BY <1>1, <1>2, ReclaimActs

\* Only a deletion, or the end of a compaction, removes an object.
LEMMA ObjectsKept ==
    ASSUME Core, [ReclaimNext]_vars, ~Delete, ~PackEnd, NEW g \in DOMAIN store
    PROVE  g \in DOMAIN store'
  <1>. Types /\ Sealed
    BY DEF Core, SegInv
  <1>1. CASE [Next]_segVars
    BY <1>1, StoreGrows
  <1>2. CASE Pack
    BY <1>2, PackFacts DEF Stored
  <1>3. (\E sweep \in BOOLEAN : BeginPass(sweep)) \/ PassBarrier \/ PassFlushed \/ PassSealFailed \/ GateUnavailable
        \/ DropCounters \/ GatherFails => store' = store
    BY DEF BeginPass, PassBarrier, PassFlushed, PassSealFailed, GateUnavailable, DropCounters, GatherFails, dataVars
  <1>4. \A f \in gc.frames : Repoint(f) => store' = store
    BY DEF Repoint, dataVars
  <1>. QED
    BY <1>1, <1>2, <1>3, <1>4, ReclaimMoves

(* A compaction goes on with what it gathered or placed.                    *)
GoesOn ==
    /\ ~Delete /\ ~PackEnd /\ ~ReclaimCrash
    /\ \/ gc.pc = "pack" /\ gc'.pc = "pack" /\ gc'.frames = gc.frames
       \/ /\ gc.pc \in Moving /\ gc'.pc \in Moving /\ gc'.frames \subseteq gc.frames /\ gc'.pack = gc.pack
          /\ gc'.swapped = 0 => gc.swapped = 0 /\ ([Next]_segVars \/ queue' = queue)

\* A compaction gathers, packs, and goes on.
LEMMA CompactMoves ==
    ASSUME Core, [ReclaimNext]_vars, gc'.pc \in {"pack", "repoint", "swapping"}
    PROVE  (gc'.pc = "pack" /\ Gather /\ gc' # Asleep) \/ (gc'.pc = "repoint" /\ Pack /\ gc' # Asleep) \/ GoesOn
  <1>0. gc \in Passes /\ gc' # Asleep
    BY BlankNext DEF Core, GcTypes
  <1>1. ~PackEnd /\ ~ReclaimCrash /\ ~Delete
    <2>1. PackEnd => gc'.pc = "select"
      BY <1>0 DEF PackEnd, Passes
    <2>2. Delete => gc'.pc = "verify"
      BY <1>0 DEF Delete, Passes
    <2>. QED
      BY <1>0, <2>1, <2>2 DEF ReclaimCrash
  <1>2. CASE Gather
    <2>1. PICK frames \in SUBSET Gathered, cand \in SUBSET gc.cand : gc' = [gc EXCEPT !.pc = "pack", !.cand = cand, !.frames = frames]
      BY <1>0, <1>2, GatherFacts
    <2>2. gc'.pc = "pack"
      BY <1>0, <2>1 DEF Passes
    <2>. QED
      BY <1>0, <1>2, <2>2
  <1>3. CASE Pack
    BY <1>0, <1>3, PackFields
  <1>4. ASSUME NEW f \in gc.frames, Repoint(f) PROVE GoesOn
    <2>1. PICK F : F = gc.frames \ {f}
      OBVIOUS
    <2>2. PICK n : n = gc.swapped + 1
      OBVIOUS
    <2>3. n # 0
      BY <1>0, <2>2 DEF Passes
    <2>4. \/ gc' = [gc EXCEPT !.pc = "swapping", !.frames = F, !.swapped = n]
          \/ gc' = [gc EXCEPT !.frames = F] /\ queue' = queue
      BY <1>4, <2>1, <2>2 DEF Repoint
    <2>5. CASE gc' = [gc EXCEPT !.pc = "swapping", !.frames = F, !.swapped = n]
      <3>1. gc'.pc = "swapping" /\ gc'.frames = F /\ gc'.pack = gc.pack /\ gc'.swapped = n
        BY <1>0, <2>5 DEF Passes
      <3>. QED
        BY <1>1, <1>4, <2>1, <2>3, <3>1 DEF GoesOn, Moving, Repoint
    <2>6. CASE gc' = [gc EXCEPT !.frames = F] /\ queue' = queue
      <3>1. gc'.pc = gc.pc /\ gc'.frames = F /\ gc'.pack = gc.pack /\ gc'.swapped = gc.swapped
        BY <1>0, <2>6 DEF Passes
      <3>. QED
        BY <1>1, <1>4, <2>1, <2>6, <3>1 DEF GoesOn, Moving, Repoint
    <2>. QED
      BY <2>4, <2>5, <2>6
  <1>5. ASSUME gc'.frames = gc.frames, gc'.pack = gc.pack, gc'.swapped = gc.swapped, [Next]_segVars,
               gc'.pc = gc.pc \/ (gc'.pc = "repoint" /\ gc.pc = "swapping")
        PROVE  GoesOn
    BY <1>1, <1>5 DEF GoesOn, Moving
  <1>6. CASE CommitFor(Apply, TRUE) \/ CommitFor(AbortBatch, FALSE)
    <2>1. [Next]_segVars
      BY <1>6 DEF CommitFor, Next, DataPlane, Commit
    <2>2. \/ gc' = gc
          \/ gc.pc = "swapping" /\ gc' = [gc EXCEPT !.pc = "repoint"]
          \/ gc.pc = "dropping" /\ gc' = [gc EXCEPT !.pc = "select"]
      BY <1>0, <1>6, AnswerFacts DEF CommitFor, Apply, AbortBatch
    <2>3. /\ gc'.frames = gc.frames /\ gc'.pack = gc.pack /\ gc'.swapped = gc.swapped
          /\ gc'.pc = gc.pc \/ (gc'.pc = "repoint" /\ gc.pc = "swapping") \/ gc'.pc = "select"
      BY <1>0, <2>2 DEF Passes
    <2>. QED
      BY <1>5, <2>1, <2>3
  <1>7. CASE Tick
    <2>1. PICK h : gc' = [gc EXCEPT !.horizon = h]
      BY <1>7 DEF Tick
    <2>2. gc'.frames = gc.frames /\ gc'.pack = gc.pack /\ gc'.swapped = gc.swapped /\ gc'.pc = gc.pc
      BY <1>0, <2>1 DEF Passes
    <2>. QED
      BY <1>5, <1>7, <2>2 DEF Tick
  <1>8. CASE gc' = gc /\ [Next]_segVars
    BY <1>5, <1>8
  <1>9. ~PassBarrier /\ ~PassFlushed /\ ~Gate /\ ~Scan /\ ~ListOrphans /\ ~DropCounters
    <2>1. ~PassBarrier
      BY <1>0 DEF PassBarrier, Passes
    <2>2. ~PassFlushed
      BY <1>0, FlushedFields
    <2>3. ~Gate
      <3>1. ASSUME NEW h, NEW p, gc' = [gc EXCEPT !.pc = "scan", !.horizon = h, !.pinned = p] PROVE FALSE
        BY <1>0, <3>1 DEF Passes
      <3>. QED
        BY <3>1 DEF Gate
    <2>4. ~Scan
      <3>1. ASSUME NEW D, NEW cand, gc' = [Asleep EXCEPT !.pc = "verify", !.todo = D, !.cand = cand] PROVE FALSE
        BY <3>1, BlankNext
      <3>. QED
        BY <3>1, ScanFacts
    <2>5. ~ListOrphans
      BY BlankNext DEF ListOrphans
    <2>6. ~DropCounters
      BY <1>0 DEF DropCounters, Passes
    <2>. QED
      BY <2>1, <2>2, <2>3, <2>4, <2>5, <2>6
  <1>10. /\ \A g \in gc.todo : ~Verify(g)
         /\ \A sweep \in BOOLEAN : ~BeginPass(sweep)
    <2>1. \A g \in gc.todo : ~Verify(g)
      BY <1>0 DEF Verify, Passes
    <2>. QED
      BY <2>1, BlankNext
  <1>11. ~PassSealFailed /\ ~GateUnavailable /\ ~GatherFails
    BY <1>0 DEF PassSealFailed, GateUnavailable, GatherFails
  <1>12. DataStep => gc' = gc /\ [Next]_segVars
    BY DEF DataStep, gcVars, Next, DataPlane
  <1>13. /\ \A n \in Name : (\E lasting \in BOOLEAN : CreateCheckpoint(n, lasting)) \/ DeleteCheckpoint(n) => gc' = gc /\ UNCHANGED segVars
         /\ \A r \in Reader : Fetch(r) \/ (\E s \in Slot : Resolve(r, s)) => gc' = gc /\ UNCHANGED segVars
         /\ UNCHANGED vars => gc' = gc /\ UNCHANGED segVars
    BY DEF CreateCheckpoint, DeleteCheckpoint, Fetch, Resolve, vars, gcVars
  <1>. QED
    BY <1>1, <1>2, <1>3, <1>4, <1>6, <1>7, <1>8, <1>9, <1>10, <1>11, <1>12, <1>13 DEF ReclaimNext, PassStep

\* Nobody points to an id that has not been given out.
LEMMA NextUnseen ==
    ASSUME SegInv
    PROVE  /\ nextSegid \notin DOMAIN sealing \cup DOMAIN store
           /\ \A l \in Lane : lane[l].segid # nextSegid
           /\ \A w \in Writer : Active(w) => writer[w].loc.segid # nextSegid
           /\ \A i \in DOMAIN queue : SegidOf(queue[i].loc) # nextSegid
           /\ \A s \in Slot : SegidOf(mem.ptr[s]) # nextSegid /\ SegidOf(durable.ptr[s]) # nextSegid
  <1>. Types /\ Segids /\ Locks /\ Ids /\ Frames /\ Durable /\ DataTypes /\ DbTypes /\ TaskTypes
    BY DEF SegInv, Types
  <1>0. nextSegid \in Segid /\ nextSegid # Free
    BY Constants DEF DataTypes
  <1>1. nextSegid \notin DOMAIN sealing \cup DOMAIN store
    BY BeforeFacts DEF Segids, DataTypes
  <1>2. \A l \in Lane : lane[l].segid # nextSegid
    BY BeforeFacts DEF Segids, DataTypes
  <1>3. ASSUME NEW w \in Writer, Active(w) PROVE writer[w].loc.segid # nextSegid
    <2>1. writer[w].loc \in Location /\ writer[w].slot \in Slot
      BY <1>3 DEF Frames, Locks
    <2>2. CASE writer[w].pc = "filled"
      BY <2>1, <2>2, WritesReadable, ReadableBefore
    <2>3. CASE writer[w].pc = "claimed"
      <3>1. writer[w].loc.segid = lane[writer[w].lane].segid
        BY <2>3 DEF Frames
      <3>. QED
        BY <1>2, <3>1, WriterLane
    <2>. QED
      BY <1>3, <2>2, <2>3 DEF Active
  <1>4. ASSUME NEW i \in DOMAIN queue PROVE SegidOf(queue[i].loc) # nextSegid
    BY <1>0, WritesReadable, ReadableBefore DEF SegidOf, Hole
  <1>5. ASSUME NEW s \in Slot PROVE SegidOf(mem.ptr[s]) # nextSegid
    <2>1. mem.ptr[s] # Free => mem.ptr[s] \in Location /\ 0 \notin Bytes[mem.ptr[s]][s]
      BY DEF Frames, DbTypes, ImageOK
    <2>. QED
      BY <1>0, <2>1, ReadableBefore DEF SegidOf, Hole
  <1>6. ASSUME NEW s \in Slot PROVE SegidOf(durable.ptr[s]) # nextSegid
    <2>1. durable.ptr[s] # Free => durable.ptr[s].segid \in DOMAIN store
      BY DEF Durable, StoredContents, Hole, Unreadable
    <2>. QED
      BY <1>0, <1>1, <2>1 DEF SegidOf, Hole
  <1>. QED
    BY <1>1, <1>2, <1>3, <1>4, <1>5, <1>6

\* Nobody points to a pack that was just put on the store.
LEMMA PackBuried ==
    ASSUME Core, Pack, NEW p, p = nextSegid
    PROVE  Buried(p)'
  <1>. SegInv /\ DataTypes
    BY DEF Core, SegInv, Types
  <1>1. UNCHANGED <<lane, sealing, writer, queue, mem, durable>>
    BY PackFacts DEF dbVars
  <1>2. p \in Segid /\ Before(p, nextSegid')
    BY PackFacts DEF NextSegid, Before, DataTypes, Segid
  <1>3. \A w \in Writer : Active(w)' <=> Active(w)
    BY <1>1 DEF Active
  <1>. QED
    BY <1>1, <1>2, <1>3, NextUnseen DEF Buried, Old, Before

\* The pack's frames read as what was gathered.
LEMMA PackReads ==
    ASSUME Core, [ReclaimNext]_vars, Pack, gc' # Asleep
    PROVE  /\ gc'.pack \in DOMAIN store' /\ gc'.frames \subseteq Placed
           /\ \A f \in gc'.frames : /\ 0 \notin Bytes'[f.src][f.slot] /\ Bytes'[f.new][f.slot] = Bytes'[f.src][f.slot]
                                    /\ f.new.segid = gc'.pack
  <1>. SegInv /\ SegInv' /\ DataTypes /\ Segids /\ Moved
    BY ReclaimActs DEF Core, SegInv, Types
  <1>0. gc \in Passes
    BY DEF Core, GcTypes
  <1>1. /\ gc'.pack = nextSegid /\ store' = Stored
        /\ gc'.frames = {[slot |-> PackOrder[i].slot, src |-> PackOrder[i].src,
                          new |-> [segid |-> nextSegid, frame |-> i]] : i \in DOMAIN PackOrder}
    BY <1>0, PackFields
  <1>2. /\ IsFiniteSet(gc.frames) /\ gc.frames \subseteq Gathered
        /\ \A f \in gc.frames : 0 \notin f.data /\ f.data = Bytes[f.src][f.slot]
    BY DEF Moved, Pack
  <1>3. Cardinality(gc.frames) \in Nat /\ PackOrder \in [1..Cardinality(gc.frames) -> gc.frames]
    BY <1>2, PackOrderFacts
  <1>4. nextSegid \in DOMAIN store' /\ store'[nextSegid] = Packed
    BY <1>1 DEF Stored
  <1>5. BytesKept
    <2>1. ~ReclaimCrash
      BY DEF ReclaimCrash
    <2>. QED
      BY <2>1, BytesStep
  <1>6. \A g \in DOMAIN store : g \in DOMAIN store'
    BY <1>1 DEF Stored
  <1>7. DirectoryFacts'
    BY DirectoryLookupNext DEF SegInv
  <1>8. ASSUME NEW f \in gc'.frames
        PROVE  /\ f \in Placed /\ f.new.segid = nextSegid
               /\ 0 \notin Bytes'[f.src][f.slot] /\ Bytes'[f.new][f.slot] = Bytes'[f.src][f.slot]
    <2>1. PICK i \in 1..Cardinality(gc.frames) : f = [slot |-> PackOrder[i].slot, src |-> PackOrder[i].src,
                                                      new |-> [segid |-> nextSegid, frame |-> i]]
      BY <1>1, <1>3
    <2>2. PICK x \in gc.frames : x = PackOrder[i]
      BY <1>3
    <2>3. /\ x.slot \in Slot /\ x.src \in Location /\ 0 \notin x.data /\ x.data = Bytes[x.src][x.slot]
      BY <1>2 DEF Gathered
    <2>4. PICK new : new = [segid |-> nextSegid, frame |-> i]
      OBVIOUS
    <2>5. new \in Location /\ new.segid = nextSegid /\ new.frame = i
      BY <1>3, <2>4 DEF Location, DataTypes
    <2>6. f = [slot |-> x.slot, src |-> x.src, new |-> new]
      BY <2>1, <2>2, <2>4
    <2>7. f \in Placed /\ f.slot = x.slot /\ f.src = x.src /\ f.new = new
      BY <2>3, <2>5, <2>6 DEF Placed
    <2>8. Bytes'[x.src][x.slot] = x.data
      BY <1>5, <1>6, <2>3 DEF BytesKept
    <2>9. Bytes'[new][x.slot] = FrameIn(Packed, new, x.slot)
      BY <1>4, <1>7, <2>3, <2>5, StoreBytesNext
    <2>10. i \in DOMAIN Packed /\ Packed[i].slot = x.slot /\ Packed[i].data = x.data
      BY <2>2 DEF Packed
    <2>11. Bytes'[new][x.slot] = x.data
      BY <2>5, <2>9, <2>10 DEF FrameIn
    <2>. QED
      BY <2>3, <2>5, <2>7, <2>8, <2>11
  <1>. QED
    BY <1>1, <1>4, <1>8

\* Every step keeps compaction's copies what they are copies of.
LEMMA MovedStep ==
    ASSUME Core, [ReclaimNext]_vars
    PROVE  Moved'
  <1>. SegInv /\ SegInv' /\ DataTypes /\ Segids /\ Moved
    BY ReclaimActs DEF Core, SegInv, Types
  <1>0. gc \in Passes /\ Moving' = Moving
    BY DEF Core, GcTypes, Moving
  <1>1. CASE gc'.pc \notin {"pack", "repoint", "swapping"}
    BY <1>1 DEF Moved, Moving
  <1>2. CASE gc'.pc = "pack" /\ Gather /\ gc' # Asleep
    <2>1. PICK frames \in SUBSET Gathered, cand \in SUBSET gc.cand :
                 /\ gc' = [gc EXCEPT !.pc = "pack", !.cand = cand, !.frames = frames]
                 /\ IsFiniteSet(frames)
                 /\ \A f \in frames : 0 \notin f.data /\ f.data = Bytes[f.src][f.slot]
      BY <1>2, GatherFacts
    <2>2. gc'.frames = frames
      BY <1>0, <2>1 DEF Passes
    <2>3. BytesKept /\ store' = store
      <3>1. ~ReclaimCrash /\ store' = store
        BY <1>2 DEF ReclaimCrash, Gather, segVars
      <3>. QED
        BY <3>1, BytesStep
    <2>4. \A f \in frames : Bytes'[f.src][f.slot] = Bytes[f.src][f.slot]
      BY <2>1, <2>3 DEF BytesKept, Gathered
    <2>. QED
      BY <1>2, <2>1, <2>2, <2>4 DEF Moved, Moving
  <1>3. CASE gc'.pc = "repoint" /\ Pack /\ gc' # Asleep
    <2>1. PICK p : p = nextSegid
      OBVIOUS
    <2>2. Buried(p)' /\ gc'.pack = p
      BY <1>0, <1>3, <2>1, PackBuried, PackFields
    <2>3. Buried(gc.pack)'
      BY <2>2 DEF Buried, Old, Before, Active
    <2>. QED
      BY <1>0, <1>3, <2>3, PackReads DEF Moved, Moving
  <1>4. CASE GoesOn
    <2>1. BytesKept /\ \A g \in DOMAIN store : g \in DOMAIN store'
      BY <1>4, BytesStep, ObjectsKept DEF GoesOn
    <2>2. \A loc \in Location, s \in Slot : 0 \notin Bytes[loc][s] => Bytes'[loc][s] = Bytes[loc][s]
      BY <2>1 DEF BytesKept
    <2>3. CASE gc.pc = "pack" /\ gc'.pc = "pack" /\ gc'.frames = gc.frames
      <3>1. \A f \in gc.frames : Bytes'[f.src][f.slot] = Bytes[f.src][f.slot]
        BY <2>2, <2>3 DEF Moved, Gathered
      <3>. QED
        BY <2>3, <3>1 DEF Moved, Moving
    <2>4. CASE /\ gc.pc \in Moving /\ gc'.pc \in Moving /\ gc'.frames \subseteq gc.frames /\ gc'.pack = gc.pack
               /\ gc'.swapped = 0 => gc.swapped = 0 /\ ([Next]_segVars \/ queue' = queue)
      <3>1. gc.frames \subseteq Placed /\ gc.pack \in DOMAIN store
        BY <2>4 DEF Moved
      <3>2. ASSUME NEW f \in gc'.frames
            PROVE  /\ 0 \notin Bytes'[f.src][f.slot] /\ Bytes'[f.new][f.slot] = Bytes'[f.src][f.slot]
                   /\ f.new.segid = gc'.pack
        <4>1. /\ f \in Placed /\ f.new.segid = gc.pack
              /\ 0 \notin Bytes[f.src][f.slot] /\ Bytes[f.new][f.slot] = Bytes[f.src][f.slot]
          BY <2>4, <3>1 DEF Moved
        <4>2. f.slot \in Slot /\ f.src \in Location /\ f.new \in Location
          BY <4>1 DEF Placed
        <4>. QED
          BY <2>2, <2>4, <4>1, <4>2
      <3>3. gc'.swapped = 0 => Buried(gc.pack)'
        <4>. SUFFICES ASSUME gc'.swapped = 0 PROVE Buried(gc.pack)'
          OBVIOUS
        <4>1. PICK p : p = gc.pack
          OBVIOUS
        <4>2. Buried(p)
          BY <2>4, <4>1 DEF Moved
        <4>3. CASE queue' = queue
          BY <4>1, <4>2, <4>3, BuriedKept, <2>4 DEF Buried, Old, Before, Active
        <4>4. CASE [Next]_segVars
          <5>1. Buried(p)'
            BY <4>2, <4>4, BuriedStep DEF SegInv
          <5>. QED
            BY <2>4, <4>1, <5>1 DEF Buried, Old, Before, Active
        <4>. QED
          BY <2>4, <4>3, <4>4
      <3>. QED
        BY <1>0, <2>1, <2>4, <3>1, <3>2, <3>3 DEF Moved, Moving
    <2>. QED
      BY <1>4, <2>3, <2>4 DEF GoesOn
  <1>. QED
    BY <1>1, <1>2, <1>3, <1>4, CompactMoves

-----------------------------------------------------------------------------
(* What the collector is about to remove *)

\* Nobody points to any of it.
LEMMA DoomedBuried ==
    ASSUME Core, NEW g \in Doomed, g # Free
    PROVE  Buried(g)
  <1>. Drops /\ Aged /\ Phases /\ Moved
    BY DEF Core, SegInv
  <1>1. CASE g \in QueuedDrops
    BY <1>1 DEF QueuedDrops, Drops
  <1>2. CASE gc.swapped = 0 /\ g = gc.pack
    <2>1. gc.pc \in Moving
      BY <1>2 DEF Phases
    <2>. QED
      BY <1>2, <2>1 DEF Moved
  <1>3. CASE g \in gc.todo \cup gc.freed \cup {gc.target}
    BY <1>3 DEF Aged, Named
  <1>. QED
    BY <1>1, <1>2, <1>3 DEF Doomed

\* The counters whose removal is queued.
LEMMA QueuedDropsNext ==
    ASSUME Core, [ReclaimNext]_vars, NEW g \in QueuedDrops'
    PROVE  g \in QueuedDrops \cup gc.freed
  <1>. DbTypes
    BY DEF Core, SegInv, Types
  <1>0. PICK i \in DOMAIN queue' : g \in queue'[i].drop
    BY DEF QueuedDrops
  <1>1. ASSUME NEW j \in DOMAIN queue, queue'[i] = queue[j] PROVE g \in QueuedDrops
    BY <1>0, <1>1 DEF QueuedDrops
  <1>2. CASE [Next]_segVars
    BY <1>0, <1>1, <1>2, DataSubmits
  <1>3. CASE queue' = queue
    BY <1>0, <1>1, <1>3
  <1>4. ASSUME NEW t, queue' = Append(queue, t) PROVE (i \in DOMAIN queue /\ queue'[i] = queue[i]) \/ queue'[i] = t
    BY <1>4 DEF DbTypes
  <1>5. CASE DropCounters
    <2>1. PICK d : d = gc.freed \cap DOMAIN mem.count
      OBVIOUS
    <2>2. queue' = queue \/ queue' = Append(queue, [Txn("gc", 0, Free, Free, Free, FALSE) EXCEPT !.drop = d])
      BY <1>5, <2>1 DEF DropCounters
    <2>3. [Txn("gc", 0, Free, Free, Free, FALSE) EXCEPT !.drop = d].drop = d
      BY DEF Txn
    <2>. QED
      BY <1>0, <1>1, <1>3, <1>4, <2>1, <2>2, <2>3
  <1>6. ASSUME NEW f \in gc.frames, Repoint(f) PROVE g \in QueuedDrops
    <2>1. queue' = queue \/ queue' = Append(queue, Txn("gc", 0, f.slot, f.new, f.src, TRUE))
      BY <1>6 DEF Repoint
    <2>2. Txn("gc", 0, f.slot, f.new, f.src, TRUE).drop = {}
      BY DEF Txn
    <2>. QED
      BY <1>0, <1>1, <1>3, <1>4, <2>1, <2>2
  <1>7. (\E sweep \in BOOLEAN : BeginPass(sweep)) \/ PassBarrier \/ PassFlushed \/ PassSealFailed \/ GateUnavailable
        \/ Delete \/ GatherFails \/ Pack \/ PackEnd => queue' = queue
    BY DEF BeginPass, PassBarrier, PassFlushed, PassSealFailed, GateUnavailable, Delete, GatherFails, Pack, PackEnd,
           dbVars
  <1>. QED
    BY <1>2, <1>3, <1>5, <1>6, <1>7, ReclaimMoves

\* What is doomed next was doomed before, or is the new pack, or a segment that is due, or an orphan.
LEMMA DoomedNext ==
    ASSUME Core, [ReclaimNext]_vars, NEW g \in Doomed'
    PROVE  \/ g \in Doomed \cup {Free}
           \/ Pack /\ g = nextSegid
           \/ Scan /\ DueOf(g) = 0 /\ ~gc.pinned
           \/ ListOrphans /\ g \notin DOMAIN mem.count
  <1>0. gc \in Passes
    BY DEF Core, GcTypes
  <1>1. g \in Marks' \/ g \in QueuedDrops' \/ (gc'.swapped = 0 /\ g = gc'.pack)
    BY DEF Doomed, Marks
  <1>2. Marks \cup QueuedDrops \subseteq Doomed /\ (gc.swapped = 0 => gc.pack \in Doomed) /\ gc.freed \subseteq Doomed
    BY DEF Doomed, Marks
  <1>3. CASE g \in QueuedDrops'
    BY <1>2, <1>3, QueuedDropsNext
  <1>4. CASE Scan
    <2>1. PICK dead \in SUBSET Segid, D \in SUBSET Segid, cand \in SUBSET Segid :
              /\ D \subseteq dead
              /\ \A x \in dead : ~gc.pinned
              /\ \A x \in D : DueOf(x) = 0
              /\ gc' = [Asleep EXCEPT !.pc = "verify", !.todo = D, !.cand = cand]
      BY <1>4, ScanFacts
    <2>2. Blank' /\ gc'.todo = D
      BY <2>1, BlankNext
    <2>3. g \in D \cup {Free} \/ g \in QueuedDrops'
      BY <1>1, <2>2 DEF Blank, Marks
    <2>. QED
      BY <1>3, <1>4, <2>1, <2>3
  <1>5. CASE ListOrphans
    <2>1. PICK D : /\ \A x \in D : x \notin DOMAIN mem.count
                   /\ gc' = [Asleep EXCEPT !.pc = "verify", !.sweep = TRUE, !.todo = D]
      BY <1>5 DEF ListOrphans
    <2>2. Blank' /\ gc'.todo = D
      BY <2>1, BlankNext
    <2>3. g \in D \cup {Free} \/ g \in QueuedDrops'
      BY <1>1, <2>2 DEF Blank, Marks
    <2>. QED
      BY <1>3, <1>5, <2>1, <2>3
  <1>6. CASE Pack
    <2>1. CASE gc' = Asleep
      BY <1>1, <1>3, <2>1, BlankNext DEF Blank, Marks
    <2>2. CASE gc' # Asleep
      <3>1. gc'.pack = nextSegid /\ gc'.todo = gc.todo /\ gc'.freed = gc.freed /\ gc'.target = gc.target
        BY <1>0, <1>6, <2>2, PackFields
      <3>2. Marks' = Marks
        BY <3>1 DEF Marks
      <3>. QED
        BY <1>1, <1>2, <1>3, <1>6, <3>1, <3>2
    <2>. QED
      BY <2>1, <2>2
  <1>7. CASE PassFlushed
    BY <1>0, <1>1, <1>2, <1>3, <1>7, FlushedFields
  <1>8. CASE PassShrinks
    BY <1>1, <1>2, <1>3, <1>8 DEF PassShrinks
  <1>. QED
    BY <1>4, <1>5, <1>6, <1>7, <1>8, PassKeeps

\* A segment waits with the time it had, or with the horizon of the scan that found it dead.
LEMMA WaitsNext ==
    ASSUME Core, [ReclaimNext]_vars, NEW g \in DOMAIN deleteAt'
    PROVE  \/ g \in DOMAIN deleteAt /\ deleteAt'[g] = deleteAt[g] /\ ~Tick
           \/ g \in DOMAIN deleteAt /\ deleteAt'[g] = Less(deleteAt[g]) /\ Tick
           \/ Scan /\ deleteAt'[g] = gc.horizon /\ ~gc.pinned
  <1>1. CASE Scan
    <2>1. PICK dead \in SUBSET Segid, D \in SUBSET Segid :
              /\ \A x \in dead : ~gc.pinned
              /\ DOMAIN deleteAt' = dead \ D /\ \A x \in dead \ D : deleteAt'[x] = DueOf(x)
      BY <1>1, ScanFacts
    <2>2. ~Tick
      <3>1. gc \in Passes
        BY DEF Core, GcTypes
      <3>2. Tick => gc'.pc = gc.pc
        BY <3>1 DEF Tick, Passes
      <3>3. \A x, cand : gc' = [Asleep EXCEPT !.pc = "verify", !.todo = x, !.cand = cand] => gc'.pc = "verify"
        BY BlankNext
      <3>4. gc'.pc = "verify" /\ gc.pc = "scan"
        BY <1>1, <3>3, ScanFacts DEF Scan
      <3>. QED
        BY <3>2, <3>4
    <2>. QED
      BY <1>1, <2>1, <2>2 DEF DueOf
  <1>2. CASE Tick
    BY <1>2 DEF Tick
  <1>3. CASE ReclaimCrash
    BY <1>3 DEF ReclaimCrash
  <1>. QED
    BY <1>1, <1>2, <1>3, ListMoves

\* A pass scans with the horizon of its gate, less the time that has passed.
LEMMA HorizonNext ==
    ASSUME Core, [ReclaimNext]_vars, gc'.pc = "scan"
    PROVE  \/ /\ Gate /\ gc'.horizon = Latest /\ ~Tick
              /\ gc'.pinned <=> \E n \in DOMAIN kept : kept[n].lasting
           \/ gc.pc = "scan" /\ gc'.horizon = gc.horizon /\ gc'.pinned = gc.pinned /\ ~Tick
           \/ gc.pc = "scan" /\ gc'.horizon = Less(gc.horizon) /\ gc'.pinned = gc.pinned /\ Tick
  <1>0. gc \in Passes /\ gc' # Asleep
    BY BlankNext DEF Core, GcTypes
  <1>1. CASE Gate
    <2>1. PICK h, p : h = Latest /\ p = \E n \in DOMAIN kept : kept[n].lasting
      OBVIOUS
    <2>2. gc' = [gc EXCEPT !.pc = "scan", !.horizon = h, !.pinned = p]
      BY <1>1, <2>1 DEF Gate, Latest
    <2>3. gc'.horizon = h /\ gc'.pinned = p
      BY <1>0, <2>2 DEF Passes
    <2>4. ~Tick
      <3>1. Tick => gc'.pc = gc.pc
        BY <1>0 DEF Tick, Passes
      <3>. QED
        BY <1>1, <3>1 DEF Gate
    <2>. QED
      BY <1>1, <2>1, <2>3, <2>4
  <1>2. CASE Tick
    <2>1. PICK h : h = Less(gc.horizon)
      OBVIOUS
    <2>2. gc' = [gc EXCEPT !.horizon = h]
      BY <1>2, <2>1 DEF Tick
    <2>. QED
      BY <1>0, <1>2, <2>1, <2>2 DEF Passes
  <1>3. ~PassBarrier /\ ~PassFlushed /\ ~Scan /\ ~ListOrphans /\ ~DropCounters /\ ~Delete /\ ~Gather /\ ~Pack /\ ~PackEnd
    <2>1. ~PassBarrier
      BY <1>0 DEF PassBarrier, Passes
    <2>2. ~PassFlushed
      BY <1>0, FlushedFields
    <2>3. ~Scan
      <3>1. ASSUME NEW D, NEW cand, gc' = [Asleep EXCEPT !.pc = "verify", !.todo = D, !.cand = cand] PROVE FALSE
        BY <3>1, BlankNext
      <3>. QED
        BY <3>1, ScanFacts
    <2>4. ~ListOrphans
      BY BlankNext DEF ListOrphans
    <2>5. ~DropCounters
      BY <1>0 DEF DropCounters, Passes
    <2>6. ~Delete
      BY <1>0 DEF Delete, Passes
    <2>7. ~Gather
      BY <1>0, GatherFacts DEF Passes
    <2>8. ~Pack
      BY <1>0, PackFields
    <2>9. ~PackEnd
      BY <1>0 DEF PackEnd, Passes
    <2>. QED
      BY <2>1, <2>2, <2>3, <2>4, <2>5, <2>6, <2>7, <2>8, <2>9
  <1>4. /\ \A g \in gc.todo : ~Verify(g)
        /\ \A sweep \in BOOLEAN : ~BeginPass(sweep)
        /\ \A f \in gc.frames : ~Repoint(f)
    <2>1. \A g \in gc.todo : ~Verify(g)
      BY <1>0 DEF Verify, Passes
    <2>2. \A f \in gc.frames : ~Repoint(f)
      BY <1>0 DEF Repoint, Passes
    <2>. QED
      BY <2>1, <2>2, BlankNext
  <1>5. ~PassSealFailed /\ ~GateUnavailable /\ ~GatherFails /\ ~ReclaimCrash
    BY <1>0 DEF PassSealFailed, GateUnavailable, GatherFails, ReclaimCrash
  <1>6. CommitFor(Apply, TRUE) \/ CommitFor(AbortBatch, FALSE) => gc' = gc
    <2>1. \A p \in {"repoint", "select"} : gc' # [gc EXCEPT !.pc = p]
      BY <1>0 DEF Passes
    <2>. QED
      BY <1>0, <2>1, AnswerFacts DEF CommitFor, Apply, AbortBatch
  <1>7. /\ \A n \in Name : (\E lasting \in BOOLEAN : CreateCheckpoint(n, lasting)) \/ DeleteCheckpoint(n) => gc' = gc
        /\ \A r \in Reader : Fetch(r) \/ (\E s \in Slot : Resolve(r, s)) => gc' = gc
    BY DEF CreateCheckpoint, DeleteCheckpoint, Fetch, Resolve
  <1>. QED
    BY <1>1, <1>2, <1>3, <1>4, <1>5, <1>6, <1>7, PassMoves DEF gcVars

-----------------------------------------------------------------------------
(* Objects that go, and objects that stay *)

\* The data plane puts only what waits in RAM on the store.
LEMMA StorePuts ==
    ASSUME Types, Sealed, [Next]_segVars
    PROVE  store' = store \/ \E ok, lost \in SUBSET DOMAIN sealing : Put(ok, lost)
  <1>1. ASSUME NEW g \in uploads, BackgroundPut(g)
        PROVE  store' = store \/ \E ok, lost \in SUBSET DOMAIN sealing : Put(ok, lost)
    <2>1. CASE g \in DOMAIN sealing
      <3>1. Put({g}, {}) \/ \E lost \in SUBSET {g} : Put({}, lost)
        BY <1>1, <2>1 DEF BackgroundPut
      <3>2. SUBSET {g} \subseteq SUBSET DOMAIN sealing /\ {} \in SUBSET DOMAIN sealing /\ {g} \in SUBSET DOMAIN sealing
        BY <2>1
      <3>. QED
        BY <3>1, <3>2
    <2>2. CASE g \notin DOMAIN sealing
      BY <1>1, <2>2 DEF BackgroundPut
    <2>. QED
      BY <2>1, <2>2
  <1>2. ASSUME NEW g \in seal.ups, SealPut(g)
        PROVE  \E ok, lost \in SUBSET DOMAIN sealing : Put(ok, lost)
    <2>1. Put({g}, {}) \/ \E lost \in SUBSET {g} : Put({}, lost)
      BY <1>2 DEF SealPut
    <2>2. SUBSET {g} \subseteq SUBSET DOMAIN sealing /\ {} \in SUBSET DOMAIN sealing /\ {g} \in SUBSET DOMAIN sealing
      BY DEF Sealed
    <2>. QED
      BY <2>1, <2>2
  <1>3. CASE PublishPending
    <2>1. PICK failed \in SUBSET DOMAIN sealing, lost \in SUBSET DOMAIN sealing : Put(DOMAIN sealing \ failed, lost)
      BY <1>3 DEF PublishPending
    <2>2. DOMAIN sealing \ failed \in SUBSET DOMAIN sealing
      OBVIOUS
    <2>. QED
      BY <2>1, <2>2
  <1>4. CASE Crash
    BY <1>4 DEF Crash
  <1>5. ASSUME NEW w \in Writer, NEW s \in Slot, NEW partial \in BOOLEAN, NEW l \in Lane, Claim(w, s, partial, l)
        PROVE  store' = store
    BY <1>5, ClaimFacts
  <1>6. ASSUME NEW w \in Writer, Fill(w) \/ FailFill(w) \/ SpawnSeal(w) PROVE store' = store
    BY <1>6 DEF Fill, FailFill, SpawnSeal
  <1>7. TakeGate \/ SealRotate \/ ReleaseGates \/ SealEnd => store' = store
    BY DEF TakeGate, SealRotate, ReleaseGates, SealEnd
  <1>. QED
    BY <1>1, <1>2, <1>3, <1>4, <1>5, <1>6, <1>7, DataMoves DEF SealOpen, dataVars

\* An object that is removed was doomed, and nobody points to it.
LEMMA ObjectRemoved ==
    ASSUME Core, [ReclaimNext]_vars, NEW g \in DOMAIN store, g \notin DOMAIN store'
    PROVE  /\ g \in Doomed /\ Buried(g) /\ Buried(g)' /\ gc'.pc # "scan"
           /\ ~ReclaimCrash /\ ~Tick
  <1>. SegInv /\ Types /\ Sealed /\ DataTypes
    BY DEF Core, SegInv, Types
  <1>1. Delete \/ PackEnd
    BY ObjectsKept
  <1>2. g \in Doomed /\ queue' = queue
    <2>1. CASE Delete
      BY <2>1 DEF Delete, Keep, Doomed, dbVars
    <2>2. CASE PackEnd
      BY <2>2 DEF PackEnd, Keep, Doomed, dbVars
    <2>. QED
      BY <1>1, <2>1, <2>2
  <1>3. g # Free
    BY Constants DEF DataTypes
  <1>4. Buried(g)
    BY <1>2, <1>3, DoomedBuried
  <1>5. Buried(g)'
    BY <1>2, <1>4, BuriedKept
  <1>6. gc'.pc # "scan"
    BY <1>1, HorizonNext DEF Delete, PackEnd, Gate
  <1>7. ~ReclaimCrash
    <2>1. ReclaimCrash => [Next]_segVars
      BY DEF ReclaimCrash, Next
    <2>. QED
      BY <2>1, StoreGrows
  <1>8. ~Tick
    BY DEF Tick, segVars
  <1>. QED
    BY <1>2, <1>4, <1>5, <1>6, <1>7, <1>8

\* An object that stays keeps its frames.
LEMMA ObjectStays ==
    ASSUME Core, [ReclaimNext]_vars, NEW g \in DOMAIN store, g \in DOMAIN store'
    PROVE  store'[g] = store[g]
  <1>. Types /\ Sealed
    BY DEF Core, SegInv
  <1>1. CASE [Next]_segVars
    BY <1>1, StoreGrows
  <1>2. CASE Collect
    BY <1>2 DEF Collect, CollectStore
  <1>. QED
    BY <1>1, <1>2, ReclaimActs

\* What is gone, and nobody points to, does not come back.
LEMMA StaysGone ==
    ASSUME Core, [ReclaimNext]_vars, NEW g, Buried(g), g \notin DOMAIN store
    PROVE  Buried(g)' /\ g \notin DOMAIN store'
  <1>. SegInv /\ Types /\ Sealed /\ DataTypes /\ Phases /\ Moved
    BY DEF Core, SegInv, Types
  <1>1. g # gc.pack
    BY Constants DEF Buried, Old, Phases, Moved
  <1>2. Buried(g)'
    BY <1>1, BuriedKept
  <1>3. g \notin DOMAIN sealing /\ g # nextSegid
    BY BeforeFacts DEF Buried, Old, DataTypes
  <1>4. CASE Collect
    BY <1>2, <1>3, <1>4 DEF Collect, CollectStore
  <1>5. CASE [Next]_segVars
    <2>1. ASSUME NEW ok \in SUBSET DOMAIN sealing, NEW lost \in SUBSET DOMAIN sealing, Put(ok, lost)
          PROVE  g \notin DOMAIN store'
      BY <1>3, <2>1 DEF Put
    <2>2. store' = store \/ \E ok, lost \in SUBSET DOMAIN sealing : Put(ok, lost)
      BY <1>5, StorePuts
    <2>. QED
      BY <1>2, <2>1, <2>2
  <1>. QED
    BY <1>2, <1>4, <1>5, ReclaimActs

-----------------------------------------------------------------------------
(* Reads in flight *)

\* A segment that is not doomed and has time left is not doomed next.
LEMMA NotDoomedNext ==
    ASSUME Core, [ReclaimNext]_vars, NEW g \in Segid, g \notin Doomed, g # nextSegid, g \in DOMAIN mem.count,
           Scan => gc.pinned \/ DueOf(g) # 0
    PROVE  /\ g \notin Doomed' /\ (~ReclaimCrash => g \in DOMAIN mem'.count)
  <1>. DbTypes
    BY DEF Core, SegInv, Types
  <1>1. g \notin Doomed'
    BY DoomedNext, Constants
  <1>2. ASSUME queue # <<>> PROVE queue[1].drop \subseteq Doomed
    <2>1. 1 \in DOMAIN queue
      BY <1>2, HeadOfQueue
    <2>. QED
      BY <2>1 DEF Doomed, QueuedDrops
  <1>3. ~ReclaimCrash => g \in DOMAIN mem'.count
    BY <1>2, CountersKept
  <1>. QED
    BY <1>1, <1>3

\* A reader's record.
LEMMA ReaderFields ==
    ASSUME Core, NEW r \in Reader
    PROVE  /\ reader[r] \in Fetches /\ reader[r].left \in Nat /\ reader[r].left < Floor
           /\ reader[r].pc \in {"idle", "fetch", "retry", "error"}
           /\ gc.horizon \in Nat /\ \A g \in DOMAIN deleteAt : deleteAt[g] \in Nat
  BY CollectorConstants DEF Core, GcTypes, Fetches, Passes

\* A read that nothing happens to stays what it was.
LEMMA ReadWaits ==
    ASSUME RecInv, [ReclaimNext]_vars, NEW r \in Reader, reader'[r] = reader[r], ~Tick, ~ReclaimCrash
    PROVE  Reads(r)'
  <1>. Core /\ Types /\ Segids /\ Reads(r)
    BY DEF RecInv, Core, SegInv
  <1>0. PICK x : x = reader[r]
    OBVIOUS
  <1>1. reader'[r] = x /\ x \in Fetches /\ x.left \in Nat /\ x.left < Floor /\ x.pc \in {"idle", "fetch", "retry", "error"}
    BY <1>0, ReaderFields
  <1>2. CASE x.pc = "idle"
    BY <1>1, <1>2 DEF Reads, Lost
  <1>3. CASE x.pc \in {"fetch", "retry"}
    <2>1. x.slot \in Slot /\ x.loc \in Location
      BY <1>0, <1>3 DEF Reads
    <2>2. PICK g \in Segid : g = x.loc.segid
      BY <2>1 DEF Location
    <2>3. BytesKept
      BY BytesStep
    <2>4. ASSUME 0 \notin Bytes[x.loc][x.slot], 0 \in Bytes'[x.loc][x.slot]
          PROVE  g \in DOMAIN store /\ g \notin DOMAIN store'
      BY <2>1, <2>2, <2>3, <2>4 DEF BytesKept
    <2>5. Lost(x)' => Buried(g)' /\ g \notin DOMAIN store' /\ (gc'.pc = "scan" => Lost(x))
      <3>. SUFFICES ASSUME Lost(x)' PROVE Buried(g)' /\ g \notin DOMAIN store' /\ (gc'.pc = "scan" => Lost(x))
        OBVIOUS
      <3>1. x.pc = "fetch" /\ 0 \in Bytes'[x.loc][x.slot]
        BY DEF Lost
      <3>2. CASE Lost(x)
        <4>1. Buried(g) /\ g \notin DOMAIN store
          BY <1>0, <2>2, <3>2 DEF Reads
        <4>. QED
          BY <3>2, <4>1, StaysGone
      <3>3. CASE ~Lost(x)
        BY <2>4, <3>1, <3>3, ObjectRemoved DEF Lost
      <3>. QED
        BY <3>2, <3>3
    <2>6. (x.pc = "retry" \/ Lost(x)') /\ gc'.pc = "scan" => gc'.horizon > x.left
      <3>. SUFFICES ASSUME x.pc = "retry" \/ Lost(x)', gc'.pc = "scan" PROVE gc'.horizon > x.left
        OBVIOUS
      <3>1. x.pc = "retry" \/ Lost(x)
        BY <2>5
      <3>2. gc.pc = "scan" => gc.horizon > x.left
        BY <1>0, <3>1 DEF Reads
      <3>3. Latest \in Nat /\ Latest >= Floor
        BY GateHorizon DEF Core
      <3>. QED
        BY <1>1, <3>2, <3>3, HorizonNext, CollectorConstants
    <2>7. x.pc = "retry" => /\ 0 \notin Bytes'[x.loc][x.slot]
                            /\ g \notin Doomed' /\ g \in DOMAIN mem'.count
                            /\ g \in DOMAIN deleteAt' => deleteAt'[g] > x.left
      <3>. SUFFICES ASSUME x.pc = "retry"
                    PROVE  /\ 0 \notin Bytes'[x.loc][x.slot]
                           /\ g \notin Doomed' /\ g \in DOMAIN mem'.count
                           /\ g \in DOMAIN deleteAt' => deleteAt'[g] > x.left
        OBVIOUS
      <3>1. /\ 0 \notin Bytes[x.loc][x.slot] /\ g \notin Doomed /\ g \in DOMAIN mem.count
            /\ g \in DOMAIN deleteAt => deleteAt[g] > x.left
            /\ gc.pc = "scan" => gc.horizon > x.left
        BY <1>0, <2>2 DEF Reads
      <3>2. 0 \notin Bytes'[x.loc][x.slot]
        BY <2>4, <3>1, ObjectRemoved
      <3>3. g # nextSegid
        BY <2>1, <2>2, <3>1, ReadableBefore
      <3>4. Scan => DueOf(g) # 0
        BY <1>1, <3>1 DEF Scan, DueOf
      <3>5. g \notin Doomed' /\ g \in DOMAIN mem'.count
        BY <3>1, <3>3, <3>4, NotDoomedNext
      <3>6. g \in DOMAIN deleteAt' => deleteAt'[g] > x.left
        BY <3>1, WaitsNext DEF Scan
      <3>. QED
        BY <3>2, <3>5, <3>6
    <2>. QED
      BY <1>1, <1>3, <2>1, <2>2, <2>5, <2>6, <2>7 DEF Reads, Lost
  <1>. QED
    BY <1>0, <1>1, <1>2, <1>3 DEF Reads

\* Time passes for the read, for what waits and for the horizon alike.
LEMMA ReadTicks ==
    ASSUME RecInv, [ReclaimNext]_vars, NEW r \in Reader, Tick
    PROVE  Reads(r)'
  <1>. Core /\ Types /\ Segids /\ Reads(r)
    BY DEF RecInv, Core, SegInv
  <1>0. PICK x : x = reader[r]
    OBVIOUS
  <1>1. x \in Fetches /\ x.left \in Nat /\ x.pc \in {"idle", "fetch", "retry", "error"}
    BY <1>0, ReaderFields
  <1>2. PICK t : t = Less(x.left)
    OBVIOUS
  <1>3. reader'[r] = [x EXCEPT !.left = t]
    BY <1>0, <1>2 DEF Tick
  <1>4. reader'[r].pc = x.pc /\ reader'[r].slot = x.slot /\ reader'[r].loc = x.loc /\ reader'[r].left = t
    BY <1>1, <1>3 DEF Fetches
  <1>5. x.pc # "idle" => x.left > 0 /\ t = x.left - 1
    BY <1>0, <1>1, <1>2 DEF Tick, Less
  <1>6. UNCHANGED segVars
    BY DEF Tick
  <1>7. Bytes' = Bytes
    BY <1>6 DEF segVars, Bytes, ReadFrame, FrameIn, Directory
  <1>8. \A g : Buried(g)' <=> Buried(g)
    BY <1>6 DEF segVars, Buried, Old, Active, Before, SegidOf, Hole
  <1>9. PICK h : h = Less(gc.horizon)
    OBVIOUS
  <1>10. gc \in Passes /\ gc' = [gc EXCEPT !.horizon = h]
    BY <1>9 DEF Tick, Core, GcTypes
  <1>11. gc'.horizon = Less(gc.horizon) /\ gc'.pc = gc.pc
    BY <1>9, <1>10 DEF Passes
  <1>12. Doomed' = Doomed
    <2>1. gc'.todo = gc.todo /\ gc'.freed = gc.freed /\ gc'.target = gc.target /\ gc'.pack = gc.pack /\ gc'.swapped = gc.swapped
      BY <1>10 DEF Passes
    <2>2. QueuedDrops' = QueuedDrops
      BY <1>6 DEF segVars, QueuedDrops
    <2>. QED
      BY <2>1, <2>2 DEF Doomed
  <1>13. \A a \in Nat : a > x.left /\ x.pc # "idle" => Less(a) > t
    BY <1>1, <1>5 DEF Less
  <1>14. DOMAIN deleteAt' = DOMAIN deleteAt /\ \A g \in DOMAIN deleteAt : deleteAt'[g] = Less(deleteAt[g]) /\ deleteAt[g] \in Nat
    BY ReaderFields DEF Tick
  <1>15. gc.horizon \in Nat
    BY ReaderFields
  <1>16. DOMAIN store' = DOMAIN store /\ DOMAIN mem'.count = DOMAIN mem.count
    BY <1>6 DEF segVars
  <1>17. Lost(reader[r])' <=> Lost(x)
    BY <1>4, <1>7 DEF Lost
  <1>18. (x.pc = "retry" \/ Lost(x)) /\ gc.pc = "scan" => Less(gc.horizon) > t
    BY <1>0, <1>13, <1>15 DEF Reads, Lost
  <1>19. x.pc = "retry" /\ x.loc.segid \in DOMAIN deleteAt => deleteAt'[x.loc.segid] > t
    BY <1>0, <1>13, <1>14 DEF Reads
  <1>20. Lost(x) => Buried(x.loc.segid)' /\ x.loc.segid \notin DOMAIN store'
    BY <1>0, <1>8, <1>16 DEF Reads
  <1>21. Buried(reader[r].loc.segid)' <=> Buried(x.loc.segid)'
    <2>1. PICK g : g = x.loc.segid
      OBVIOUS
    <2>. QED
      BY <1>4, <2>1 DEF Buried, Old, Active, Before
  <1>. QED
    BY <1>0, <1>4, <1>7, <1>11, <1>12, <1>14, <1>16, <1>17, <1>18, <1>19, <1>20, <1>21 DEF Reads

\* A segment that readers point to is counted, and nobody is about to remove it.
LEMMA SeenSafe ==
    ASSUME Core, NEW s \in Slot, mem.ptr[s] # Free
    PROVE  /\ mem.ptr[s] \in Location /\ 0 \notin Bytes[mem.ptr[s]][s]
           /\ mem.ptr[s].segid \notin Doomed /\ mem.ptr[s].segid \in DOMAIN mem.count
           /\ mem.ptr[s].segid \notin DOMAIN deleteAt
           /\ ~Buried(mem.ptr[s].segid)
  <1>. DbTypes /\ Frames /\ LiveExact /\ Aged
    BY DEF Core, SegInv, Types
  <1>0. SegidOf(mem.ptr[s]) = mem.ptr[s].segid
    BY DEF SegidOf, Hole
  <1>1. mem.ptr[s] \in Location /\ 0 \notin Bytes[mem.ptr[s]][s]
    BY DEF DbTypes, ImageOK, Frames
  <1>2. PICK g \in Segid : g = mem.ptr[s].segid
    BY <1>1 DEF Location
  <1>3. ~Buried(g)
    BY <1>0, <1>2, BuriedUnseen
  <1>4. g # Free
    BY Constants
  <1>5. g \notin Doomed
    BY <1>3, <1>4, DoomedBuried
  <1>6. g \in DOMAIN mem.count
    BY <1>0, <1>2 DEF LiveExact, Hole
  <1>7. g \notin DOMAIN deleteAt
    BY <1>3 DEF Aged, Named
  <1>. QED
    BY <1>1, <1>2, <1>3, <1>5, <1>6, <1>7

\* A location is readable when it is resolved.
LEMMA ReadResolves ==
    ASSUME RecInv, [ReclaimNext]_vars, NEW r \in Reader, NEW s \in Slot, Resolve(r, s)
    PROVE  Reads(r)'
  <1>. Core /\ GcTypes
    BY DEF RecInv, Core
  <1>1. PICK left : left = Floor - 1
    OBVIOUS
  <1>2. reader'[r] = [pc |-> "fetch", slot |-> s, loc |-> mem.ptr[s], left |-> left]
    BY <1>1 DEF Resolve, GcTypes
  <1>3. UNCHANGED segVars /\ mem.ptr[s] # Free
    BY DEF Resolve, Hole
  <1>4. Bytes' = Bytes
    BY <1>3 DEF segVars, Bytes, ReadFrame, FrameIn, Directory
  <1>5. mem.ptr[s] \in Location /\ 0 \notin Bytes[mem.ptr[s]][s]
    BY <1>3, SeenSafe
  <1>. QED
    BY <1>2, <1>4, <1>5 DEF Reads, Lost

\* A fetch finds its frame, or resolves again; the second time it does find it.
LEMMA ReadFetches ==
    ASSUME RecInv, [ReclaimNext]_vars, NEW r \in Reader, Fetch(r)
    PROVE  Reads(r)'
  <1>. Core /\ GcTypes /\ Reads(r) /\ DbTypes
    BY DEF RecInv, Core, SegInv, Types
  <1>0. PICK x : x = reader[r]
    OBVIOUS
  <1>1. x \in Fetches /\ x.pc \in {"fetch", "retry"} /\ x.slot \in Slot /\ x.loc \in Location
    BY <1>0, ReaderFields DEF Fetch, Reads
  <1>2. PICK again : again = mem.ptr[x.slot]
    OBVIOUS
  <1>3. ReadFrame(x.loc, x.slot) = Bytes[x.loc][x.slot]
    BY <1>1 DEF Bytes
  <1>4. \/ reader'[r] = NotReading
        \/ /\ 0 \in Bytes[x.loc][x.slot] /\ again # Free
           /\ x.pc = "fetch" /\ again.segid # x.loc.segid
           /\ reader'[r] = [x EXCEPT !.pc = "retry", !.loc = again]
        \/ /\ 0 \in Bytes[x.loc][x.slot] /\ again # Free
           /\ ~(x.pc = "fetch" /\ again.segid # x.loc.segid)
    <2>1. reader' = [reader EXCEPT ![r] =
                       IF ReadFrame(x.loc, x.slot) # Unreadable \/ Hole(again) THEN NotReading
                       ELSE IF x.pc = "fetch" /\ again.segid # x.loc.segid
                            THEN [x EXCEPT !.pc = "retry", !.loc = again]
                       ELSE [x EXCEPT !.pc = "error"]]
      BY <1>0, <1>2 DEF Fetch
    <2>2. reader'[r] = IF ReadFrame(x.loc, x.slot) # Unreadable \/ Hole(again) THEN NotReading
                       ELSE IF x.pc = "fetch" /\ again.segid # x.loc.segid
                            THEN [x EXCEPT !.pc = "retry", !.loc = again]
                       ELSE [x EXCEPT !.pc = "error"]
      BY <2>1 DEF GcTypes
    <2>. QED
      BY <1>3, <2>2 DEF Unreadable, Hole
  <1>5. UNCHANGED segVars /\ gc' = gc /\ deleteAt' = deleteAt
    BY DEF Fetch
  <1>6. Bytes' = Bytes
    BY <1>5 DEF segVars, Bytes, ReadFrame, FrameIn, Directory
  <1>7. CASE reader'[r] = NotReading
    BY <1>7 DEF NotReading, Reads, Lost
  <1>8. ASSUME 0 \in Bytes[x.loc][x.slot], again # Free
        PROVE  x.pc = "fetch" /\ again.segid # x.loc.segid
    <2>1. x.pc = "fetch"
      BY <1>0, <1>1, <1>8 DEF Reads
    <2>2. Buried(x.loc.segid)
      BY <1>0, <1>8, <2>1 DEF Reads, Lost
    <2>. QED
      BY <1>1, <1>2, <1>8, <2>1, <2>2, SeenSafe
  <1>9. CASE /\ 0 \in Bytes[x.loc][x.slot] /\ again # Free /\ x.pc = "fetch"
             /\ reader'[r] = [x EXCEPT !.pc = "retry", !.loc = again]
    <2>1. /\ reader'[r].pc = "retry" /\ reader'[r].slot = x.slot
          /\ reader'[r].loc = again /\ reader'[r].left = x.left
      BY <1>1, <1>9 DEF Fetches
    <2>2. /\ again \in Location /\ 0 \notin Bytes[again][x.slot]
          /\ again.segid \notin Doomed /\ again.segid \in DOMAIN mem.count
          /\ again.segid \notin DOMAIN deleteAt
      BY <1>1, <1>2, <1>9, SeenSafe
    <2>3. gc.pc = "scan" => gc.horizon > x.left
      BY <1>0, <1>9 DEF Reads, Lost
    <2>4. Doomed' = Doomed /\ DOMAIN mem'.count = DOMAIN mem.count
      BY <1>5 DEF Doomed, QueuedDrops, segVars
    <2>. QED
      BY <1>1, <1>5, <1>6, <2>1, <2>2, <2>3, <2>4 DEF Reads, Lost
  <1>. QED
    BY <1>4, <1>7, <1>8, <1>9

\* No read ever fails.
LEMMA ReadsStep ==
    ASSUME RecInv, [ReclaimNext]_vars, NEW r \in Reader
    PROVE  Reads(r)'
  <1>. GcTypes
    BY DEF RecInv
  <1>1. CASE ReclaimCrash
    <2>1. reader'[r] = NotReading
      BY <1>1 DEF ReclaimCrash
    <2>. QED
      BY <2>1 DEF NotReading, Reads, Lost
  <1>2. CASE Tick
    BY <1>2, ReadTicks
  <1>3. CASE reader'[r] = reader[r] /\ ~Tick /\ ~ReclaimCrash
    BY <1>3, ReadWaits
  <1>4. ASSUME NEW q \in Reader, Fetch(q) \/ \E s \in Slot : Resolve(q, s), q # r
        PROVE  reader'[r] = reader[r]
    <2>1. \E x : reader' = [reader EXCEPT ![q] = x]
      BY <1>4, Zenon DEF Fetch, Resolve
    <2>. QED
      BY <1>4, <2>1 DEF GcTypes
  <1>. QED
    BY <1>1, <1>2, <1>3, <1>4, ReadFetches, ReadResolves, ListMoves

-----------------------------------------------------------------------------
(* Checkpoints *)

\* The durable rows are kept, or replaced by those that readers see.
LEMMA DurableMoves ==
    ASSUME Core, [ReclaimNext]_vars
    PROVE  durable' = durable \/ durable' = mem
  <1>1. CASE Collect
    BY <1>1 DEF Collect, CollectSeal
  <1>2. CASE [Next]_segVars
    BY <1>2, DbMoves DEF dbVars, Submit, Punch, AbortBatch, FlushManifest, Apply, Crash
  <1>. QED
    BY <1>1, <1>2, ReclaimActs

\* What readable rows name is on the store.
LEMMA StoredFacts ==
    ASSUME Core, NEW p \in [Slot -> Location \cup {Free}], NEW s \in Slot, 0 \notin StoredContents(p)[s], p[s] # Free
    PROVE  /\ p[s] \in Location /\ p[s].segid \in Segid /\ p[s].segid \in DOMAIN store /\ p[s].segid # nextSegid
           /\ StoredContents(p)[s] = FrameIn(store[p[s].segid], p[s], s)
  <1>1. p[s] \in Location /\ p[s].segid \in Segid
    BY DEF Location
  <1>2. p[s].segid \in DOMAIN store
    BY DEF StoredContents, Hole, Unreadable
  <1>3. nextSegid \notin DOMAIN store
    BY NextUnseen DEF Core
  <1>. QED
    BY <1>1, <1>2, <1>3 DEF StoredContents, Hole

\* Rows whose segments are not doomed read as before.
LEMMA StoredStays ==
    ASSUME Core, [ReclaimNext]_vars, NEW p \in [Slot -> Location \cup {Free}], NEW s \in Slot, 0 \notin StoredContents(p)[s],
           p[s] # Free => p[s].segid \notin Doomed
    PROVE  StoredContents(p)'[s] = StoredContents(p)[s]
  <1>1. CASE p[s] = Free
    BY <1>1 DEF StoredContents, Hole
  <1>2. CASE p[s] # Free
    <2>1. PICK g \in Segid : g = p[s].segid
      BY <1>2, StoredFacts
    <2>2. g \in DOMAIN store
      BY <1>2, <2>1, StoredFacts
    <2>3. g \in DOMAIN store' /\ store'[g] = store[g]
      BY <1>2, <2>1, <2>2, ObjectRemoved, ObjectStays
    <2>. QED
      BY <2>1, <2>2, <2>3 DEF StoredContents
  <1>. QED
    BY <1>1, <1>2

\* A checkpoint's record.
LEMMA PinFields ==
    ASSUME GcTypes, NEW n \in DOMAIN kept
    PROVE  /\ kept[n] \in Pins /\ kept[n].ptr \in [Slot -> Location \cup {Free}]
           /\ kept[n].left \in Nat /\ kept[n].lasting \in BOOLEAN /\ kept[n].raced \in BOOLEAN
  <1>1. kept[n] \in Pins
    BY DEF GcTypes
  <1>. QED
    BY <1>1, CollectorConstants DEF Pins

\* A checkpoint that nothing happens to keeps its segments.
LEMMA KeepWaits ==
    ASSUME RecInv, [ReclaimNext]_vars, NEW n \in DOMAIN kept, kept'[n] = kept[n], ~Tick
    PROVE  Keeps(n)'
  <1>. Core /\ GcTypes /\ Keeps(n)
    BY DEF RecInv, Core
  <1>0. PICK k \in Pins : k = kept[n]
    BY PinFields
  <1>1. /\ kept'[n] = k /\ k.ptr \in [Slot -> Location \cup {Free}]
        /\ k.left \in Nat /\ k.lasting \in BOOLEAN /\ k.raced \in BOOLEAN
    BY <1>0, PinFields
  <1>2. ~k.lasting => k.left > 0
    BY <1>0 DEF Keeps
  <1>3. ASSUME ~k.raced, gc'.pc = "scan", ~gc'.pinned
        PROVE  ~k.lasting /\ k.left <= gc'.horizon
    <2>1. CASE Gate /\ gc'.horizon = Latest /\ (gc'.pinned <=> \E m \in DOMAIN kept : kept[m].lasting)
      BY <1>0, <1>3, <2>1, GateHorizon
    <2>2. CASE gc.pc = "scan" /\ gc'.horizon = gc.horizon /\ gc'.pinned = gc.pinned
      BY <1>0, <1>3, <2>2 DEF Keeps
    <2>. QED
      BY <1>3, <2>1, <2>2, HorizonNext
  <1>4. ASSUME ~k.raced, NEW s \in Slot
        PROVE  /\ StoredContents(k.ptr)'[s] = StoredContents(k.ptr)[s] /\ 0 \notin StoredContents(k.ptr)'[s]
               /\ k.ptr[s] # Free => LET g == k.ptr[s].segid
                                     IN /\ g \in DOMAIN mem'.count /\ g \in DOMAIN durable'.count /\ g \notin Doomed'
                                        /\ g \in DOMAIN deleteAt' => ~k.lasting /\ k.left <= deleteAt'[g]
    <2>1. 0 \notin StoredContents(k.ptr)[s]
      BY <1>0, <1>4 DEF Keeps
    <2>2. k.ptr[s] # Free => Held(k.ptr[s].segid, n)
      BY <1>0, <1>4 DEF Keeps
    <2>3. StoredContents(k.ptr)'[s] = StoredContents(k.ptr)[s]
      BY <1>1, <2>1, <2>2, StoredStays DEF Held
    <2>4. ASSUME k.ptr[s] # Free, NEW g, g = k.ptr[s].segid
          PROVE  /\ g \in DOMAIN mem'.count /\ g \in DOMAIN durable'.count /\ g \notin Doomed'
                 /\ g \in DOMAIN deleteAt' => ~k.lasting /\ k.left <= deleteAt'[g]
      <3>1. g \in Segid /\ g # nextSegid
        BY <1>1, <2>1, <2>4, StoredFacts
      <3>2. /\ g \in DOMAIN mem.count /\ g \in DOMAIN durable.count /\ g \notin Doomed
            /\ g \in DOMAIN deleteAt => ~k.lasting /\ k.left <= deleteAt[g]
        BY <1>0, <2>2, <2>4 DEF Held
      <3>3. Scan /\ ~gc.pinned => ~k.lasting /\ k.left <= gc.horizon
        BY <1>0, <1>4 DEF Scan, Keeps
      <3>4. Scan => gc.pinned \/ DueOf(g) # 0
        <4>. SUFFICES ASSUME Scan, ~gc.pinned PROVE DueOf(g) # 0
          OBVIOUS
        <4>1. k.left > 0 /\ k.left <= gc.horizon
          BY <1>2, <3>3
        <4>2. gc.horizon \in Nat /\ \A h \in DOMAIN deleteAt : deleteAt[h] \in Nat
          BY DEF GcTypes, Passes
        <4>. QED
          BY <1>1, <3>2, <4>1, <4>2 DEF DueOf
      <3>5. g \notin Doomed' /\ (~ReclaimCrash => g \in DOMAIN mem'.count)
        BY <3>1, <3>2, <3>4, NotDoomedNext
      <3>6. g \in DOMAIN durable'.count
        BY <3>2, DurableMoves
      <3>7. g \in DOMAIN mem'.count
        BY <3>2, <3>5 DEF ReclaimCrash, Crash
      <3>8. g \in DOMAIN deleteAt' => ~k.lasting /\ k.left <= deleteAt'[g]
        BY <3>2, <3>3, WaitsNext
      <3>. QED
        BY <3>5, <3>6, <3>7, <3>8
    <2>. QED
      BY <2>1, <2>3, <2>4
  <1>. QED
    BY <1>1, <1>2, <1>3, <1>4 DEF Keeps, Held

\* Time passes for the checkpoint, for what waits and for the horizon alike.
LEMMA KeepTicks ==
    ASSUME RecInv, [ReclaimNext]_vars, NEW n \in DOMAIN kept', Tick
    PROVE  Keeps(n)'
  <1>. Core /\ GcTypes
    BY DEF RecInv, Core
  <1>0. n \in DOMAIN kept /\ (kept[n].lasting \/ kept[n].left > 1)
    BY DEF Tick
  <1>1. PICK k \in Pins : k = kept[n]
    BY <1>0, PinFields
  <1>2. /\ k.ptr \in [Slot -> Location \cup {Free}] /\ k.left \in Nat /\ k.lasting \in BOOLEAN /\ k.raced \in BOOLEAN
    BY <1>0, <1>1, PinFields
  <1>3. PICK t : t = Less(k.left)
    OBVIOUS
  <1>4. kept'[n] = [k EXCEPT !.left = t]
    BY <1>0, <1>1, <1>3 DEF Tick
  <1>5. kept'[n].ptr = k.ptr /\ kept'[n].lasting = k.lasting /\ kept'[n].raced = k.raced /\ kept'[n].left = t
    BY <1>4 DEF Pins
  <1>6. Keeps(n)
    BY <1>0 DEF RecInv
  <1>7. ~k.lasting => t > 0
    BY <1>0, <1>1, <1>2, <1>3 DEF Less
  <1>8. \A a \in Nat : k.left <= a => t <= Less(a)
    BY <1>2, <1>3 DEF Less
  <1>9. UNCHANGED segVars
    BY DEF Tick
  <1>10. PICK h : h = Less(gc.horizon)
    OBVIOUS
  <1>11. gc \in Passes /\ gc' = [gc EXCEPT !.horizon = h]
    BY <1>10 DEF Tick, GcTypes
  <1>12. /\ gc'.horizon = Less(gc.horizon) /\ gc'.pc = gc.pc /\ gc'.pinned = gc.pinned
         /\ gc'.todo = gc.todo /\ gc'.freed = gc.freed /\ gc'.target = gc.target
         /\ gc'.pack = gc.pack /\ gc'.swapped = gc.swapped
    BY <1>10, <1>11 DEF Passes
  <1>13. Doomed' = Doomed
    BY <1>9, <1>12 DEF segVars, Doomed, QueuedDrops
  <1>14. /\ DOMAIN deleteAt' = DOMAIN deleteAt
         /\ \A g \in DOMAIN deleteAt : deleteAt'[g] = Less(deleteAt[g]) /\ deleteAt[g] \in Nat
    BY DEF Tick, GcTypes
  <1>15. gc.horizon \in Nat
    BY <1>11 DEF Passes
  <1>16. StoredContents(k.ptr)' = StoredContents(k.ptr)
    BY <1>9 DEF segVars, StoredContents, FrameIn
  <1>17. ASSUME ~k.raced, gc'.pc = "scan", ~gc'.pinned PROVE ~k.lasting /\ t <= gc'.horizon
    BY <1>1, <1>6, <1>8, <1>12, <1>15, <1>17 DEF Keeps
  <1>18. ASSUME ~k.raced, NEW s \in Slot, k.ptr[s] # Free, NEW g, g = k.ptr[s].segid
         PROVE  /\ g \in DOMAIN mem'.count /\ g \in DOMAIN durable'.count /\ g \notin Doomed'
                /\ g \in DOMAIN deleteAt' => ~k.lasting /\ t <= deleteAt'[g]
    <2>1. /\ g \in DOMAIN mem.count /\ g \in DOMAIN durable.count /\ g \notin Doomed
          /\ g \in DOMAIN deleteAt => ~k.lasting /\ k.left <= deleteAt[g]
      BY <1>1, <1>6, <1>18 DEF Keeps, Held
    <2>2. mem' = mem /\ durable' = durable
      BY <1>9 DEF segVars
    <2>. QED
      BY <1>8, <1>13, <1>14, <2>1, <2>2
  <1>19. ASSUME ~k.raced, NEW s \in Slot PROVE 0 \notin StoredContents(k.ptr)'[s]
    BY <1>1, <1>6, <1>16, <1>19 DEF Keeps
  <1>20. StoredContents(kept[n].ptr)' = StoredContents(k.ptr)'
    BY <1>5 DEF StoredContents
  <1>. QED
    BY <1>5, <1>7, <1>17, <1>18, <1>19, <1>20 DEF Keeps, Held

\* What is durable is readable and held when a checkpoint is taken of it.
LEMMA KeepBegins ==
    ASSUME RecInv, [ReclaimNext]_vars, NEW n \in Name, NEW lasting \in BOOLEAN, CreateCheckpoint(n, lasting)
    PROVE  Keeps(n)'
  <1>. Core /\ GcTypes /\ LiveExact /\ Durable /\ DbTypes /\ Aged
    BY DEF RecInv, Core, SegInv, Types
  <1>1. PICK left \in Nat : left = IF lasting THEN 0 ELSE Lifetime
    BY CollectorConstants
  <1>2. PICK raced \in BOOLEAN : raced = (gc.pc = "scan")
    OBVIOUS
  <1>3. kept'[n] = [ptr |-> durable.ptr, lasting |-> lasting, raced |-> raced, left |-> left]
    BY <1>1, <1>2 DEF CreateCheckpoint, Racing
  <1>4. UNCHANGED segVars /\ gc' = gc /\ deleteAt' = deleteAt
    BY DEF CreateCheckpoint
  <1>5. ~lasting => left > 0
    BY <1>1, CollectorConstants
  <1>6. PICK p : p = durable.ptr
    OBVIOUS
  <1>7. StoredContents(p)' = StoredContents(p)
    BY <1>4 DEF segVars, StoredContents, FrameIn
  <1>8. \A s \in Slot : 0 \notin StoredContents(p)[s]
    BY <1>6 DEF Durable
  <1>9. ASSUME NEW s \in Slot, p[s] # Free, NEW g, g = p[s].segid
        PROVE  g \in DOMAIN mem'.count /\ g \in DOMAIN durable'.count /\ g \notin Doomed' /\ g \notin DOMAIN deleteAt'
    <2>1. SegidOf(durable.ptr[s]) = g /\ g \in Segid
      BY <1>6, <1>9 DEF SegidOf, Hole, DbTypes, ImageOK, Location
    <2>2. ~Buried(g) /\ g # Free
      BY <2>1, BuriedUnseen, Constants
    <2>3. g \notin Doomed /\ g \notin DOMAIN deleteAt
      BY <2>2, DoomedBuried DEF Aged, Named
    <2>4. g \in DOMAIN mem.count
      BY <1>6, <1>9 DEF Aged
    <2>5. g \in DOMAIN durable.count
      BY <1>6, <1>9, <2>1 DEF LiveExact, Hole
    <2>6. Doomed' = Doomed /\ mem' = mem /\ durable' = durable
      BY <1>4 DEF segVars, Doomed, QueuedDrops
    <2>. QED
      BY <1>4, <2>3, <2>4, <2>5, <2>6
  <1>10. kept'[n].ptr = p /\ kept'[n].lasting = lasting /\ kept'[n].left = left /\ kept'[n].raced = raced
    BY <1>3, <1>6
  <1>11. StoredContents(kept[n].ptr)' = StoredContents(p)'
    BY <1>10 DEF StoredContents
  <1>. QED
    BY <1>2, <1>4, <1>5, <1>7, <1>8, <1>9, <1>10, <1>11 DEF Keeps, Held

\* Every checkpoint that the passes have seen keeps its segments.
LEMMA KeepsStep ==
    ASSUME RecInv, [ReclaimNext]_vars, NEW n \in DOMAIN kept'
    PROVE  Keeps(n)'
  <1>1. CASE Tick
    BY <1>1, KeepTicks
  <1>2. CASE n \in DOMAIN kept /\ kept'[n] = kept[n] /\ ~Tick
    BY <1>2, KeepWaits
  <1>3. ASSUME NEW m \in Name, NEW lasting \in BOOLEAN, CreateCheckpoint(m, lasting), n # m
        PROVE  n \in DOMAIN kept /\ kept'[n] = kept[n]
    BY <1>3 DEF CreateCheckpoint
  <1>4. ASSUME NEW m \in Name, DeleteCheckpoint(m) PROVE n \in DOMAIN kept /\ kept'[n] = kept[n]
    BY <1>4 DEF DeleteCheckpoint
  <1>. QED
    BY <1>1, <1>2, <1>3, <1>4, KeepBegins, ListMoves

-----------------------------------------------------------------------------
(* The invariant *)

\* The invariant holds when the server first starts.
LEMMA RecInvInit == GcInit => RecInv
  <1>. SUFFICES ASSUME GcInit PROVE RecInv
    OBVIOUS
  <1>1. SegInv
    BY SegInvInit DEF GcInit
  <1>2. /\ gc = Asleep /\ DOMAIN deleteAt = {} /\ DOMAIN kept = {} /\ packs = 0
        /\ reader = [r \in Reader |-> NotReading]
    BY DEF GcInit
  <1>3. DOMAIN queue = {} /\ barrier = Free /\ flusher.pc = "idle" /\ nextSegid.epoch = 0 /\ \A s \in Slot : durable.ptr[s] = Free
    BY DEF GcInit, Init
  <1>4. /\ gc.pc = "idle" /\ gc.cutoff = 0 /\ gc.pack = Free /\ gc.cand = {} /\ gc.todo = {} /\ gc.freed = {}
        /\ gc.target = Free
    BY <1>2 DEF Asleep
  <1>5. GcTypes
    BY <1>2, CollectorConstants DEF GcTypes
  <1>6. Phases
    BY <1>3, <1>4, Constants DEF Phases, Moving
  <1>7. Aged
    <2>1. ASSUME NEW g \in Segid PROVE ~Eligible(g)
      <3>1. g.epoch \in Nat /\ g.counter \in Nat
        BY DEF Segid
      <3>. QED
        BY <1>3, <1>4, <3>1 DEF Eligible
    <2>. QED
      BY <1>2, <1>3, <1>4, <2>1 DEF Aged, Named
  <1>8. Moved
    BY <1>4 DEF Moved, Moving
  <1>9. \A r \in Reader : Reads(r)
    BY <1>2 DEF Reads, Lost, NotReading
  <1>. QED
    BY <1>1, <1>2, <1>5, <1>6, <1>7, <1>8, <1>9 DEF RecInv

\* Every step keeps the invariant.
LEMMA RecInvStep == RecInv /\ [ReclaimNext]_vars => RecInv'
  <1>. SUFFICES ASSUME RecInv, [ReclaimNext]_vars PROVE RecInv'
    OBVIOUS
  <1>. Core
    BY DEF RecInv, Core
  <1>1. SegInv' /\ GcTypes' /\ Phases' /\ Aged' /\ Moved'
    BY ReclaimActs, GcTypesStep, PhasesStep, AgedStep, MovedStep
  <1>2. (\A r \in Reader : Reads(r)') /\ (\A n \in DOMAIN kept' : Keeps(n)')
    BY ReadsStep, KeepsStep
  <1>. QED
    BY <1>1, <1>2 DEF RecInv

(* Every state that the data plane reaches with its collector satisfies the *)
(* inductive invariant.                                                     *)
THEOREM ReclaimInvariant == ReclaimSpec => []RecInv
  BY RecInvInit, RecInvStep, PTL DEF ReclaimSpec

(* ExtentStore::get: a read whose segment was compacted away or reclaimed   *)
(* after it resolved its location finds the frame where it resolves to the  *)
(* second time, whatever passes run meanwhile, if it is shorter than        *)
(* INFLIGHT_FLOOR_SECS.                                                     *)
THEOREM ReadsNeverFail == ReclaimSpec => []ReadsSucceed
  <1>1. RecInv => ReadsSucceed
    BY DEF RecInv, Reads, ReadsSucceed
  <1>. QED
    BY <1>1, ReclaimInvariant, PTL

(* Compaction's swaps and the collector's drops of counters keep every live *)
(* counter the number of pointers to its segment: a scan that finds zero    *)
(* has found a segment nothing points to.                                   *)
THEOREM CountersExactWithReclaim == ReclaimSpec => []LiveExact
  <1>1. RecInv => LiveExact
    BY DEF RecInv, SegInv
  <1>. QED
    BY <1>1, ReclaimInvariant, PTL

(* No pass removes what a restart would read.                               *)
THEOREM DurableResolvesWithReclaim == ReclaimSpec => []DurableResolves
  <1>1. RecInv => DurableResolves
    BY DEF RecInv, SegInv, Durable, DurableResolves, Unreadable
  <1>. QED
    BY <1>1, ReclaimInvariant, PTL

-----------------------------------------------------------------------------
(* The data plane with its collector implements DurableStore *)

(* The contents of the checkpoints that the passes have seen.               *)
InForce == {m \in DOMAIN kept : ~kept[m].raced}
Pinned == [n \in InForce |-> StoredContents(kept[n].ptr)]

\* A segment with a durable pointer is not doomed, and what it holds stays.
LEMMA DurableStays ==
    ASSUME Core, [ReclaimNext]_vars, durable' = durable
    PROVE  StoredContents(durable.ptr)' = StoredContents(durable.ptr)
  <1>. Durable /\ DbTypes
    BY DEF Core, SegInv, Types
  <1>1. PICK p \in [Slot -> Location \cup {Free}] : p = durable.ptr
    BY DEF DbTypes, ImageOK
  <1>2. ASSUME NEW s \in Slot PROVE StoredContents(p)'[s] = StoredContents(p)[s]
    <2>1. 0 \notin StoredContents(p)[s]
      BY <1>1 DEF Durable
    <2>2. ASSUME p[s] # Free PROVE p[s].segid \notin Doomed
      <3>1. SegidOf(durable.ptr[s]) = p[s].segid /\ p[s].segid \in Segid
        BY <1>1, <2>2 DEF SegidOf, Hole, Location
      <3>. QED
        BY <3>1, BuriedUnseen, DoomedBuried, Constants
    <2>. QED
      BY <2>1, <2>2, StoredStays
  <1>3. StoredContents(p)' = StoredContents(p)
    BY <1>2 DEF StoredContents
  <1>4. StoredContents(durable.ptr)' = StoredContents(p)'
    BY <1>1 DEF StoredContents
  <1>. QED
    BY <1>1, <1>3, <1>4

\* A checkpoint in force reads as before.
LEMMA PinStays ==
    ASSUME RecInv, [ReclaimNext]_vars, NEW n \in InForce, kept'[n].ptr = kept[n].ptr
    PROVE  StoredContents(kept[n].ptr)' = StoredContents(kept[n].ptr)
  <1>. Core /\ GcTypes /\ Keeps(n) /\ n \in DOMAIN kept /\ ~kept[n].raced
    BY DEF RecInv, Core, InForce
  <1>1. PICK p \in [Slot -> Location \cup {Free}] : p = kept[n].ptr
    BY PinFields
  <1>2. ASSUME NEW s \in Slot PROVE StoredContents(p)'[s] = StoredContents(p)[s]
    <2>1. 0 \notin StoredContents(p)[s] /\ (p[s] # Free => p[s].segid \notin Doomed)
      BY <1>1 DEF Keeps, Held
    <2>. QED
      BY <2>1, StoredStays
  <1>3. StoredContents(p)' = StoredContents(p)
    BY <1>2 DEF StoredContents
  <1>4. StoredContents(kept[n].ptr)' = StoredContents(p)'
    BY <1>1 DEF StoredContents
  <1>. QED
    BY <1>1, <1>3, <1>4

\* The collector changes nothing that a reader sees.
LEMMA CollectContents ==
    ASSUME Core, [ReclaimNext]_vars, Collect, ~ReclaimCrash
    PROVE  Contents' = Contents
  <1>. SegInv /\ SegInv' /\ Types /\ Types' /\ Frames /\ DbTypes
    BY ReclaimActs DEF Core, SegInv, Types
  <1>1. mem' = mem /\ BytesKept
    BY BytesStep DEF Collect
  <1>2. ASSUME NEW s \in Slot PROVE Contents'[s] = Contents[s]
    <2>1. CASE mem.ptr[s] = Free
      BY <1>1, <2>1, ContentsReadable, ContentsNext
    <2>2. CASE mem.ptr[s] # Free
      <3>1. PICK loc \in Location : loc = mem.ptr[s] /\ 0 \notin Bytes[loc][s]
        BY <2>2, SeenSafe
      <3>2. ~Buried(loc.segid)
        BY <2>2, <3>1, SeenSafe
      <3>3. loc.segid \in DOMAIN store => loc.segid \in DOMAIN store'
        BY <3>2, ObjectRemoved
      <3>4. Bytes'[loc][s] = Bytes[loc][s]
        BY <1>1, <3>1, <3>3 DEF BytesKept
      <3>. QED
        BY <1>1, <2>2, <3>1, <3>4, ContentsReadable, ContentsNext
    <2>. QED
      BY <2>1, <2>2
  <1>3. Contents = [s \in Slot |-> Contents[s]] /\ Contents' = [s \in Slot |-> Contents'[s]]
    BY DEF Contents
  <1>. QED
    BY <1>2, <1>3, Zenon

(* What a step does to what readers and restarts see, the checkpoints aside. *)
DataWrite(s) ==
    /\ \E v \in (1..MaxWrites) \ written :
          /\ \/ Contents' = [Contents EXCEPT ![s] = {v}]
             \/ Contents' = [Contents EXCEPT ![s] = @ \cup {v}]
             \/ Contents' = [Contents EXCEPT ![s] = {}]
          /\ written' = written \cup {v}
    /\ UNCHANGED <<StoredContents(durable.ptr), nextSegid.epoch>>
DataFlush ==
    /\ StoredContents(durable.ptr)' = Contents
    /\ UNCHANGED <<Contents, written, nextSegid.epoch>>
DataCrash ==
    /\ Contents' = StoredContents(durable.ptr)
    /\ nextSegid'.epoch = nextSegid.epoch + 1
    /\ UNCHANGED <<StoredContents(durable.ptr), written>>
DataSame == UNCHANGED <<Contents, StoredContents(durable.ptr), written, nextSegid.epoch>>

\* Every step is a write, a flush or a crash to a client, or nothing.
LEMMA DataPromise ==
    ASSUME Core, [ReclaimNext]_vars
    PROVE  (\E s \in Slot : DataWrite(s)) \/ DataFlush \/ DataCrash \/ DataSame
  <1>. SegInv /\ SegInv' /\ Types /\ Segids /\ DataTypes
    BY ReclaimActs DEF Core, SegInv, Types
  <1>1. CASE [Next]_segVars
    <2>1. [Promise!Next]_(Promise!avars)
      BY <1>1, PromiseStep
    <2>2. CASE UNCHANGED Promise!avars
      BY <2>2 DEF Promise!avars, DataSame
    <2>3. ASSUME NEW s \in Slot, Promise!Write(s) PROVE DataWrite(s)
      BY <2>3 DEF Promise!Write, DataWrite
    <2>4. CASE Promise!Flush
      BY <2>4 DEF Promise!Flush, DataFlush
    <2>5. CASE Promise!Crash
      BY <2>5 DEF Promise!Crash, DataCrash
    <2>6. CASE Promise!Unpin
      BY <2>6 DEF Promise!Unpin, DataSame
    <2>. QED
      BY <2>1, <2>2, <2>3, <2>4, <2>5, <2>6 DEF Promise!Next
  <1>2. CASE Collect /\ ~ReclaimCrash
    <2>1. Contents' = Contents /\ written' = written /\ nextSegid'.epoch = nextSegid.epoch
      BY <1>2, CollectContents, EpochKept DEF Collect
    <2>2. CASE durable' = durable
      BY <2>1, <2>2, DurableStays DEF DataSame
    <2>3. CASE durable' = mem /\ Uploaded({}) /\ store' = store
      <3>1. StoredContents(mem.ptr) = Contents
        BY <2>3, UploadedContents
      <3>2. StoredContents(durable.ptr)' = StoredContents(mem.ptr)
        BY <2>3 DEF StoredContents
      <3>. QED
        BY <2>1, <3>1, <3>2 DEF DataFlush
    <2>. QED
      BY <1>2, <2>2, <2>3 DEF Collect, CollectSeal
  <1>3. ReclaimCrash => [Next]_segVars
    BY DEF ReclaimCrash, Next
  <1>. QED
    BY <1>1, <1>2, <1>3, ReclaimActs

\* The checkpoints in force stay, or one is taken, or some are dropped while nothing else happens.
LEMMA PinsPromise ==
    ASSUME RecInv, [ReclaimNext]_vars
    PROVE  \/ Pinned' = Pinned
           \/ UNCHANGED segVars /\ \E n \in Name :
                 Pinned' = [m \in DOMAIN Pinned \cup {n} |-> IF m = n THEN StoredContents(durable.ptr) ELSE Pinned[m]]
           \/ UNCHANGED segVars /\ \E D \in SUBSET DOMAIN Pinned : Pinned' = [m \in DOMAIN Pinned \ D |-> Pinned[m]]
  <1>. Core /\ GcTypes
    BY DEF RecInv, Core
  <1>0. DOMAIN Pinned = InForce /\ \A n \in InForce : Pinned[n] = StoredContents(kept[n].ptr)
    BY DEF Pinned
  <1>1. Pinned' = [n \in InForce' |-> StoredContents(kept[n].ptr)']
    BY DEF Pinned
  <1>2. \A n \in InForce : kept'[n].ptr = kept[n].ptr => StoredContents(kept[n].ptr)' = Pinned[n]
    BY <1>0, PinStays
  <1>3. CASE kept' = kept
    <2>1. InForce' = InForce
      BY <1>3 DEF InForce
    <2>2. \A n \in InForce : StoredContents(kept[n].ptr)' = Pinned[n]
      BY <1>2, <1>3
    <2>3. Pinned' = [n \in InForce |-> Pinned[n]]
      BY <1>1, <2>1, <2>2
    <2>4. Pinned = [n \in InForce |-> Pinned[n]]
      BY <1>0 DEF Pinned
    <2>. QED
      BY <2>3, <2>4
  <1>4. ASSUME InForce' \subseteq InForce, \A n \in InForce' : kept'[n].ptr = kept[n].ptr
        PROVE  \E D \in SUBSET DOMAIN Pinned : Pinned' = [m \in DOMAIN Pinned \ D |-> Pinned[m]]
    <2>1. InForce' = DOMAIN Pinned \ (InForce \ InForce')
      BY <1>0, <1>4
    <2>2. \A n \in InForce' : StoredContents(kept[n].ptr)' = Pinned[n]
      BY <1>2, <1>4
    <2>3. Pinned' = [m \in DOMAIN Pinned \ (InForce \ InForce') |-> Pinned[m]]
      BY <1>1, <2>1, <2>2
    <2>4. InForce \ InForce' \in SUBSET DOMAIN Pinned
      BY <1>0
    <2>. QED
      BY <2>3, <2>4
  <1>5. CASE Tick
    <2>1. ASSUME NEW n \in DOMAIN kept'
          PROVE  n \in DOMAIN kept /\ kept'[n].raced = kept[n].raced /\ kept'[n].ptr = kept[n].ptr
      <3>1. n \in DOMAIN kept /\ kept'[n] = [kept[n] EXCEPT !.left = Less(@)]
        BY <1>5 DEF Tick
      <3>. QED
        BY <3>1, PinFields DEF Pins
    <2>. QED
      BY <1>4, <1>5, <2>1 DEF InForce, Tick
  <1>6. ASSUME NEW n \in Name, DeleteCheckpoint(n)
        PROVE  UNCHANGED segVars /\ \E D \in SUBSET DOMAIN Pinned : Pinned' = [m \in DOMAIN Pinned \ D |-> Pinned[m]]
    BY <1>4, <1>6 DEF InForce, DeleteCheckpoint
  <1>7. ASSUME NEW n \in Name, NEW lasting \in BOOLEAN, CreateCheckpoint(n, lasting)
        PROVE  \/ UNCHANGED segVars /\ \E D \in SUBSET DOMAIN Pinned : Pinned' = [m \in DOMAIN Pinned \ D |-> Pinned[m]]
               \/ UNCHANGED segVars /\ Pinned' = [m \in DOMAIN Pinned \cup {n} |->
                                                    IF m = n THEN StoredContents(durable.ptr) ELSE Pinned[m]]
    <2>0. UNCHANGED segVars
      BY <1>7 DEF CreateCheckpoint
    <2>1. DOMAIN kept' = DOMAIN kept \cup {n} /\ \A m \in DOMAIN kept : m # n => kept'[m] = kept[m]
      BY <1>7 DEF CreateCheckpoint
    <2>2. PICK left : left = IF lasting THEN 0 ELSE Lifetime
      OBVIOUS
    <2>3. kept'[n] = [ptr |-> durable.ptr, lasting |-> lasting, raced |-> Racing, left |-> left]
      BY <1>7, <2>2 DEF CreateCheckpoint
    <2>4. kept'[n].raced = Racing /\ kept'[n].ptr = durable.ptr
      BY <2>3
    <2>5. CASE Racing
      <3>1. InForce' \subseteq InForce /\ n \notin InForce'
        BY <2>1, <2>4, <2>5 DEF InForce
      <3>2. \A m \in InForce' : kept'[m].ptr = kept[m].ptr
        BY <2>1, <3>1 DEF InForce
      <3>. QED
        BY <1>4, <2>0, <3>1, <3>2
    <2>6. CASE ~Racing
      <3>1. InForce' = DOMAIN Pinned \cup {n}
        BY <1>0, <2>1, <2>4, <2>6 DEF InForce
      <3>2. \A m \in InForce : m # n => StoredContents(kept[m].ptr)' = Pinned[m]
        BY <1>2, <2>1 DEF InForce
      <3>3. StoredContents(kept[n].ptr)' = StoredContents(durable.ptr)
        BY <2>0, <2>4 DEF StoredContents, segVars
      <3>4. Pinned' = [m \in DOMAIN Pinned \cup {n} |-> StoredContents(kept[m].ptr)']
        BY <1>1, <3>1
      <3>5. \A m \in DOMAIN Pinned \cup {n} :
               StoredContents(kept[m].ptr)' = IF m = n THEN StoredContents(durable.ptr) ELSE Pinned[m]
        BY <1>0, <3>2, <3>3
      <3>. QED
        BY <2>0, <3>4, <3>5
    <2>. QED
      BY <2>5, <2>6
  <1>. QED
    BY <1>3, <1>5, <1>6, <1>7, ListMoves

\* Every step is one of the promise's, or none.
LEMMA PromiseKeptStep == RecInv /\ [ReclaimNext]_vars => [PromiseKept!Next]_(PromiseKept!avars)
  <1>. SUFFICES ASSUME RecInv, [ReclaimNext]_vars PROVE [PromiseKept!Next]_(PromiseKept!avars)
    OBVIOUS
  <1>. Core
    BY DEF RecInv, Core
  <1>0. Pinned = [n \in {m \in DOMAIN kept : ~kept[m].raced} |-> StoredContents(kept[n].ptr)]
    BY DEF Pinned, InForce
  <1>1. CASE Pinned' = Pinned
    <2>1. ASSUME NEW s \in Slot, DataWrite(s) PROVE PromiseKept!Write(s)
      BY <1>1, <2>1 DEF DataWrite, PromiseKept!Write, Pinned, InForce
    <2>2. CASE DataFlush
      BY <1>1, <2>2 DEF DataFlush, PromiseKept!Flush, PromiseKept!Next, Pinned, InForce
    <2>3. CASE DataCrash
      BY <1>1, <2>3 DEF DataCrash, PromiseKept!Crash, PromiseKept!Next, Pinned, InForce
    <2>4. CASE DataSame
      BY <1>1, <2>4 DEF DataSame, PromiseKept!avars, Pinned, InForce
    <2>. QED
      BY <2>1, <2>2, <2>3, <2>4, DataPromise DEF PromiseKept!Next
  <1>2. CASE UNCHANGED segVars
    <2>1. DataSame
      BY <1>2 DEF segVars, DataSame, Contents, StoredContents, ReadFrame, FrameIn, Directory
    <2>2. ASSUME NEW n \in Name,
                 Pinned' = [m \in DOMAIN Pinned \cup {n} |-> IF m = n THEN StoredContents(durable.ptr) ELSE Pinned[m]]
          PROVE  PromiseKept!Pin(n)
      BY <2>1, <2>2 DEF DataSame, PromiseKept!Pin, Pinned, InForce
    <2>3. ASSUME NEW D \in SUBSET DOMAIN Pinned, Pinned' = [m \in DOMAIN Pinned \ D |-> Pinned[m]]
          PROVE  PromiseKept!Unpin
      BY <2>1, <2>3 DEF DataSame, PromiseKept!Unpin, Pinned, InForce
    <2>. QED
      BY <1>1, <2>2, <2>3, PinsPromise DEF PromiseKept!Next
  <1>. QED
    BY <1>1, <1>2, PinsPromise

\* The initial database is the empty store, and there are no checkpoints.
LEMMA PromiseKeptInit == GcInit => PromiseKept!Init
  <1>. SUFFICES ASSUME GcInit PROVE PromiseKept!Init
    OBVIOUS
  <1>1. Contents = [s \in Slot |-> {}] /\ StoredContents(durable.ptr) = Contents /\ written = {} /\ nextSegid.epoch = 0
    BY DEF GcInit, Init, Contents, StoredContents, Hole
  <1>2. [n \in {m \in DOMAIN kept : ~kept[m].raced} |-> StoredContents(kept[n].ptr)] = <<>>
    <2>1. {m \in DOMAIN kept : ~kept[m].raced} = {}
      BY DEF GcInit
    <2>. QED
      BY <2>1
  <1>. QED
    BY <1>1, <1>2 DEF PromiseKept!Init

(* Reclaiming, compacting and sweeping are invisible: with the collector    *)
(* running beside it, the data plane still gives readers, restarts and the  *)
(* checkpoints that its passes have seen exactly what DurableStore promises.*)
THEOREM ReclaimImplements == ReclaimSpec => ReclaimImplementsDurableStore
  <1>1. ReclaimSpec => PromiseKept!Init /\ [][PromiseKept!Next]_(PromiseKept!avars)
    BY PromiseKeptInit, PromiseKeptStep, ReclaimInvariant, PTL DEF ReclaimSpec
  <1>. QED
    BY <1>1 DEF ReclaimImplementsDurableStore, PromiseKept!Spec
=============================================================================
