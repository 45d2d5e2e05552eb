--------------------------- MODULE SegmentsProofs ---------------------------
(***************************************************************************)
(* The data plane of Segments, for any number of files, writers, flush     *)
(* callers, lanes, permits, writes, failures and crashes:                  *)
(*   - a durable pointer names uploaded, readable bytes;                   *)
(*   - a segment's live counter is the number of pointers to it;           *)
(*   - a successful flush covers what was acknowledged before it;          *)
(*   - readers and restarts see what DurableStore allows.                  *)
(* SegInv below is the inductive invariant all four rest on.               *)
(***************************************************************************)
EXTENDS Segments, NaturalsFacts, FiniteSetTheorems, TLAPS

-----------------------------------------------------------------------------
(* The inductive invariant *)

(* The transactions of a writer; of compaction, which moves a slot without  *)
(* writing it; and of the collector, which only drops counters.  Those that *)
(* carry a location hold a reference guard.                                 *)
WellFormed(t) ==
    /\ t.loc # Free <=> t.guard
    /\ IF t.owner # "gc" THEN t.id # 0 /\ t.slot # Free /\ t.drop = {}
       ELSE /\ t.id = 0
            /\ IF t.slot # Free THEN t.loc # Free /\ t.drop = {} ELSE t.loc = Free /\ t.debit = Free
Txns == {t \in [owner : Writer \cup {"gc"}, id : 0..MaxWrites, slot : Slot \cup {Free}, loc : Location \cup {Free},
                debit : Segid \cup {Free}, guard : BOOLEAN, drop : SUBSET Segid] : WellFormed(t)}
Writers == [pc : {"idle", "claimed", "filled", "queued"}, id : 0..MaxWrites,
            slot : Slot \cup {Free}, data : SUBSET (0..MaxWrites), lane : Lane,
            loc : Location \cup {Free}, old : Location \cup {Free}, rotate : BOOLEAN]
Seals == [pc : {"none", "publish", "gate", "rotate", "upload", "ok", "failed"},
          lane : 1..(LaneCount + 1), ups : SUBSET Segid, failed : BOOLEAN]

ImageOK(d) ==
    /\ d.ptr \in [Slot -> Location \cup {Free}]
    /\ DOMAIN d.count \subseteq Segid
    /\ \A g \in DOMAIN d.count : d.count[g] \in [live : Nat, total : Nat]

(* Types, of the segments, the database and the tasks.                      *)
DataTypes ==
    /\ lane \in [Lane -> [segid : Segid, dir : Seq(Frame)]]
    /\ gate \in [Lane -> Writer \cup {Free, "seal"}]
    /\ \A g \in DOMAIN sealing : g \in Segid /\ sealing[g] \in Seq(Frame)
    /\ \A g \in DOMAIN store : g \in Segid /\ store[g] \in Seq(Frame)
    /\ uploads \subseteq Segid /\ nextSegid \in Segid
DbTypes ==
    /\ ImageOK(mem) /\ ImageOK(durable)
    /\ queue \in Seq(Txns)
    /\ written \subseteq 1..MaxWrites
TaskTypes ==
    /\ lock \in [Slot -> Writer \cup {Free, "gc"}]
    /\ writer \in [Writer -> Writers]
    /\ refs \in BOOLEAN
    /\ barrier \in {Free, "flush", "gc"}
    /\ seal \in Seals
    /\ flusher \in [pc : {"idle", "barrier", "seal"}, batch : SUBSET Request]
    /\ request \in [Request -> [pc : {"idle", "pending"}, covers : Nat]]
    /\ clock \in [writes : Nat, applied : Nat, durable : Nat, synced : Nat, fails : Nat]
Types == DataTypes /\ DbTypes /\ TaskTypes

(* A segment id is given out once: the open segments, those waiting in RAM  *)
(* and the objects are told apart by it, and the next one is new.  A        *)
(* segment that is both in RAM and uploaded has the same frames in both.    *)
Before(g, h) == g.epoch < h.epoch \/ (g.epoch = h.epoch /\ g.counter < h.counter)
Segids ==
    /\ \A l \in Lane : /\ lane[l].segid.epoch = nextSegid.epoch
                       /\ Before(lane[l].segid, nextSegid)
                       /\ lane[l].segid \notin DOMAIN sealing \cup DOMAIN store
    /\ \A l, k \in Lane : lane[l].segid = lane[k].segid => l = k
    /\ \A g \in DOMAIN sealing \cup DOMAIN store : Before(g, nextSegid)
    /\ \A g \in DOMAIN sealing \cap DOMAIN store : sealing[g] = store[g]

(* A writer between its reservation and its submission has the inode lock   *)
(* and no transaction waits for the slot; a slot and a writer have at most  *)
(* one transaction in the queue.                                            *)
Active(w) == writer[w].pc \in {"claimed", "filled"}
Locks ==
    /\ \A w \in Writer : Active(w) => writer[w].slot \in Slot
    /\ \A w \in Writer, s \in Slot : lock[s] = w <=> (Active(w) /\ writer[w].slot = s)
    /\ \A i \in DOMAIN queue : queue[i].owner \in Writer => writer[queue[i].owner].pc = "queued"
    /\ \A i \in DOMAIN queue, w \in Writer : Active(w) => writer[w].slot # queue[i].slot
    /\ \A i, j \in DOMAIN queue :
          (queue[i].slot = queue[j].slot \/ queue[i].owner = queue[j].owner) => i = j

(* Every write has an id of its own, and takes effect at most once.         *)
Ids ==
    /\ clock.writes <= MaxWrites
    /\ \A v \in written : v <= clock.writes
    /\ \A i \in DOMAIN queue : queue[i].id <= clock.writes /\ queue[i].id \notin written
    /\ \A i, j \in DOMAIN queue : queue[i].id = queue[j].id => i = j
    /\ \A w \in Writer : Active(w) =>
          /\ writer[w].id \in 1..clock.writes /\ writer[w].id \notin written
          /\ \A i \in DOMAIN queue : queue[i].id # writer[w].id
    /\ \A w, v \in Writer : Active(w) /\ Active(v) /\ writer[w].id = writer[v].id => w = v

(* What every location reads as; what a transaction leaves in a slot: a     *)
(* write puts its bytes there, a move nothing new.                          *)
Bytes == [loc \in Location |-> [s \in Slot |-> ReadFrame(loc, s)]]
Writes(data, id, old) == IF id = 0 THEN data = old ELSE data = {id} \/ data = {id} \cup old

(* Every location a reader, a queued transaction or a filled reservation    *)
(* holds reads as the bytes that were put there; a claimed one is still     *)
(* unreadable, in its lane's open segment; what a writer read under the     *)
(* inode lock is still so.                                                  *)
Frames ==
    /\ \A s \in Slot : mem.ptr[s] # Free => 0 \notin Bytes[mem.ptr[s]][s]
    /\ \A i \in DOMAIN queue : queue[i].slot # Free =>
          /\ queue[i].debit = SegidOf(mem.ptr[queue[i].slot])
          /\ queue[i].loc # Free =>
                Writes(Bytes[queue[i].loc][queue[i].slot], queue[i].id, Contents[queue[i].slot])
    /\ \A w \in Writer : Active(w) =>
          /\ writer[w].loc \in Location
          /\ writer[w].old = mem.ptr[writer[w].slot]
          /\ Writes(writer[w].data, writer[w].id, Contents[writer[w].slot])
    /\ \A w \in Writer : writer[w].pc = "filled" =>
          Bytes[writer[w].loc][writer[w].slot] = writer[w].data
    /\ \A w \in Writer : writer[w].pc = "claimed" =>
          /\ writer[w].loc.segid = lane[writer[w].lane].segid
          /\ writer[w].loc.frame \in DOMAIN lane[writer[w].lane].dir
          /\ lane[writer[w].lane].dir[writer[w].loc.frame] = [slot |-> writer[w].slot, data |-> Unreadable]

(* What a restart would find is readable.                                   *)
Durable == \A s \in Slot : 0 \notin StoredContents(durable.ptr)[s]

(* A writer that must rotate its lane has the lane's gate; a seal has the   *)
(* gates of the lanes it has passed, and of all of them while it rotates.   *)
Gates ==
    /\ \A w \in Writer : writer[w].rotate => gate[writer[w].lane] = w
    /\ seal.pc \in {"publish", "gate"} => \A l \in Lane : l < seal.lane => gate[l] = "seal"
    /\ seal.pc = "gate" => seal.lane \in Lane
    /\ seal.pc = "rotate" => \A l \in Lane : gate[l] = "seal"

(* A seal that has not failed has, in RAM, only what it is uploading, so    *)
(* that at its end every pointer names an object; nothing is applied while  *)
(* it lasts.                                                                *)
Uploaded(S) == \A s \in Slot : mem.ptr[s] # Free => mem.ptr[s].segid \in DOMAIN store \cup S
Sealed ==
    /\ barrier = Free => seal.pc = "none"
    /\ seal.ups \subseteq DOMAIN sealing
    /\ seal.pc \in {"none", "publish", "gate", "ok", "failed"} => seal.ups = {}
    /\ seal.pc = "rotate" /\ ~seal.failed => DOMAIN sealing \subseteq seal.ups
    /\ seal.pc = "upload" /\ ~seal.failed => Uploaded(seal.ups)
    /\ seal.pc = "ok" => Uploaded({})

(* The applies a flush has to cover.                                        *)
Clocks ==
    /\ clock.synced <= clock.durable /\ clock.durable <= clock.applied
    /\ \A r \in Request : request[r].covers <= clock.applied

(* A segment that can gain no pointer: it is neither open nor waiting in    *)
(* RAM, nobody holds a location in it that is not yet applied, and every    *)
(* pointer to it that readers see is one a restart would find.  Once no     *)
(* durable pointer names it, none ever will.                                *)
Old(g) ==
    /\ g \in Segid /\ Before(g, nextSegid)
    /\ g \notin DOMAIN sealing
    /\ \A l \in Lane : lane[l].segid # g
    /\ \A w \in Writer : Active(w) => writer[w].loc.segid # g
    /\ \A i \in DOMAIN queue : SegidOf(queue[i].loc) # g
    /\ \A s \in Slot : SegidOf(mem.ptr[s]) = g => SegidOf(durable.ptr[s]) = g
Buried(g) == Old(g) /\ \A s \in Slot : SegidOf(durable.ptr[s]) # g

(* Only the counters of such segments are ever dropped.                     *)
Drops == \A i \in DOMAIN queue : \A g \in queue[i].drop : Buried(g)

SegInv ==
    /\ Types /\ Segids /\ Locks /\ Ids /\ Frames /\ Durable /\ Gates /\ Sealed /\ LiveExact /\ Clocks
    /\ Drops

-----------------------------------------------------------------------------
(* Reading *)

(* Where the frames of a segment are.                                       *)
DirectoryFacts ==
    /\ \A l \in Lane : Directory(lane[l].segid) = lane[l].dir
    /\ \A g \in DOMAIN sealing : Directory(g) = sealing[g]
    /\ \A g \in DOMAIN store : Directory(g) = store[g]
    /\ \A g : g \in DOMAIN sealing \/ g \in DOMAIN store \/ (\E l \in Lane : lane[l].segid = g)
              \/ Directory(g) = <<>>

\* The unique ids make the lookup in SegmentStore unambiguous.
LEMMA DirectoryLookup == Segids => DirectoryFacts
  <1>. SUFFICES ASSUME Segids PROVE DirectoryFacts
    OBVIOUS
  <1>1. ASSUME NEW l \in Lane PROVE Directory(lane[l].segid) = lane[l].dir
    <2>. DEFINE k == CHOOSE k \in Lane : lane[k].segid = lane[l].segid
    <2>1. k \in Lane /\ lane[k].segid = lane[l].segid
      OBVIOUS
    <2>2. k = l
      BY <2>1 DEF Segids
    <2>. QED
      BY <2>1, <2>2 DEF Directory
  <1>. QED
    BY <1>1 DEF Segids, DirectoryFacts, Directory

\* The same of the next state.
LEMMA DirectoryLookupNext == Segids' => DirectoryFacts'
  BY DirectoryLookup, PTL

-----------------------------------------------------------------------------
(* What each part of the state moves with *)

\* Segments, buffers and objects change only here.
LEMMA DataMoves ==
    ASSUME [Next]_segVars
    PROVE  \/ UNCHANGED dataVars
           \/ \E w \in Writer, s \in Slot, partial \in BOOLEAN, l \in Lane : Claim(w, s, partial, l)
           \/ \E w \in Writer : Fill(w) \/ FailFill(w) \/ SpawnSeal(w)
           \/ \E g \in uploads : BackgroundPut(g)
           \/ SealOpen
           \/ Crash
  BY DEF Next, DataPlane, WriterStep, Commit, FlushWorker, segVars, dataVars, dbVars, flushVars, FlushRest,
         Submit, Punch, Apply, AbortBatch, RequestFlush, DrainRequests, FlushBegin, FlushManifest, FlushFailed

\* What a claim leaves alone, and what it does to the clock.
LEMMA ClaimFacts ==
    ASSUME NEW w, NEW s, NEW partial, NEW l, Claim(w, s, partial, l)
    PROVE  /\ UNCHANGED dbVars /\ UNCHANGED flushVars /\ UNCHANGED <<sealing, uploads, store, nextSegid, refs>>
           /\ clock' = [clock EXCEPT !.writes = @ + 1]
  <1>1. /\ clock' = [clock EXCEPT !.writes = clock.writes + 1]
        /\ UNCHANGED <<sealing, uploads, store, nextSegid, dbVars, refs, flushVars>>
    BY Zenon DEF Claim
  <1>. QED
    BY <1>1

\* The lane a writer has claimed in.
LEMMA WriterLane ==
    ASSUME TaskTypes, NEW w \in Writer
    PROVE  writer[w] \in Writers /\ writer[w].lane \in Lane
  <1>1. writer[w] \in Writers
    BY DEF TaskTypes
  <1>. QED
    BY <1>1 DEF Writers

\* The database, its queue and the applied writes change only here.
LEMMA DbMoves ==
    ASSUME [Next]_segVars
    PROVE  \/ UNCHANGED dbVars
           \/ \E w \in Writer : Submit(w) \/ (\E s \in Slot : Punch(w, s))
           \/ Apply \/ AbortBatch
           \/ FlushManifest
           \/ Crash
  <1>1. CASE SealOpen
    BY <1>1 DEF SealOpen, SealRest, PublishPending, TakeGate, SealRotate, ReleaseGates, SealEnd, SealPut, dbVars
  <1>2. ASSUME NEW w \in Writer, WriterStep(w)
        PROVE  UNCHANGED dbVars \/ Submit(w) \/ \E s \in Slot : Punch(w, s)
    <2>1. ASSUME NEW s \in Slot, NEW partial \in BOOLEAN, NEW l \in Lane, Claim(w, s, partial, l)
          PROVE  UNCHANGED dbVars
      BY <2>1, ClaimFacts, SMTT(30)
    <2>2. Fill(w) \/ FailFill(w) \/ SpawnSeal(w) => UNCHANGED dbVars
      BY DEF Fill, FailFill, SpawnSeal, dbVars
    <2>. QED
      BY <1>2, <2>1, <2>2 DEF WriterStep
  <1>3. CASE \E g \in uploads : BackgroundPut(g)
    BY <1>3 DEF BackgroundPut, dbVars
  <1>4. CASE FlushWorker
    BY <1>4 DEF FlushWorker, FlushRest, DrainRequests, FlushBegin, FlushFailed, dbVars
  <1>5. CASE \E r \in Request : RequestFlush(r)
    BY <1>5 DEF RequestFlush, FlushRest, dbVars
  <1>. QED
    BY <1>1, <1>2, <1>3, <1>4, <1>5 DEF Next, DataPlane, Commit, segVars, dbVars

-----------------------------------------------------------------------------
(* Types *)

\* The assumptions on the constants, in the form the proofs use.
LEMMA Constants ==
    /\ LaneCount \in Nat /\ LaneCount # 0 /\ 1 \in Lane /\ Lane \subseteq Nat
    /\ MaxWrites \in Nat /\ MaxEpoch \in Nat
    /\ Free \notin Slot /\ Free \notin Writer /\ Free \notin Request
    /\ Free \notin Segid /\ Free \notin Location
    /\ Free # "seal" /\ Free # "flush" /\ Free # "gc"
    /\ "seal" \notin Writer /\ "gc" \notin Writer
  BY SegmentsBounds, SegmentsNames DEF Lane

\* The three kinds of transactions.
LEMMA TxnFields ==
    ASSUME NEW t \in Txns
    PROVE  /\ t.owner \in Writer \cup {"gc"} /\ t.id \in 0..MaxWrites /\ t.slot \in Slot \cup {Free}
           /\ t.loc \in Location \cup {Free} /\ t.debit \in Segid \cup {Free} /\ t.drop \in SUBSET Segid
           /\ t.loc # Free <=> t.guard
           /\ t.owner \in Writer <=> t.id # 0
           /\ t.owner \in Writer => t.id \in 1..MaxWrites /\ t.slot \in Slot
           /\ t.slot = Free => t.loc = Free /\ t.debit = Free /\ t.owner = "gc" /\ t.id = 0
           /\ t.slot # Free => t.slot \in Slot /\ t.drop = {}
           /\ t.owner = "gc" /\ t.slot # Free => t.loc \in Location
  BY Constants DEF Txns, WellFormed

\* An upload adds the frames of segments in RAM to the store, whichever of them land.
LEMMA PutFacts ==
    ASSUME DataTypes, NEW ok \in SUBSET DOMAIN sealing, NEW lost \in SUBSET DOMAIN sealing, Put(ok, lost)
    PROVE  /\ DOMAIN store' = DOMAIN store \cup ok \cup lost
           /\ \A g \in DOMAIN store : store'[g] = store[g]
           /\ \A g \in (ok \cup lost) \ DOMAIN store : store'[g] = sealing[g]
           /\ \A g \in DOMAIN store' : g \in Segid /\ store'[g] \in Seq(Frame)
  BY DEF Put, DataTypes

\* The same of an upload that reports failure, and may have landed all the same.
LEMMA LostPutFacts ==
    ASSUME DataTypes, NEW lost \in SUBSET DOMAIN sealing, Put({}, lost)
    PROVE  /\ DOMAIN store' = DOMAIN store \cup lost
           /\ \A g \in DOMAIN store : store'[g] = store[g]
           /\ \A g \in lost \ DOMAIN store : store'[g] = sealing[g]
           /\ \A g \in DOMAIN store' : g \in Segid /\ store'[g] \in Seq(Frame)
  BY DEF Put, DataTypes

\* Rotation moves a lane's frames to `sealing' and gives the lane the next id.
LEMMA RotateFacts ==
    ASSUME DataTypes, NEW l \in Lane, RotateLane(l)
    PROVE  /\ lane' \in [Lane -> [segid : Segid, dir : Seq(Frame)]]
           /\ lane'[l].segid = nextSegid /\ lane'[l].dir = <<>>
           /\ \A k \in Lane : k # l => lane'[k] = lane[k]
           /\ DOMAIN sealing' = DOMAIN sealing \cup {lane[l].segid}
           /\ sealing'[lane[l].segid] = lane[l].dir
           /\ \A g \in DOMAIN sealing : g # lane[l].segid => sealing'[g] = sealing[g]
           /\ \A g \in DOMAIN sealing' : g \in Segid /\ sealing'[g] \in Seq(Frame)
           /\ nextSegid' \in Segid /\ nextSegid'.epoch = nextSegid.epoch
           /\ nextSegid'.counter = nextSegid.counter + 1
  BY DEF DataTypes, RotateLane, NextSegid, Segid

\* The least dirty lane, which the seal rotates next, exists.
LEMMA DirtyMinimum == DirtyLanes # {} => NextDirty \in DirtyLanes /\ NextDirty \in Lane
  <1>. SUFFICES ASSUME DirtyLanes # {} PROVE NextDirty \in DirtyLanes
    BY DEF DirtyLanes
  <1>1. DirtyLanes \subseteq Nat
    BY Constants DEF DirtyLanes
  <1>2. \E l \in DirtyLanes : \A k \in DirtyLanes : l <= k
    BY <1>1, LeastElement
  <1>. QED
    BY <1>2 DEF NextDirty

\* Every step keeps the types of the segments, gates, buffers and objects.
LEMMA DataTypesStep == Types /\ Locks /\ Frames /\ Sealed /\ [Next]_segVars => DataTypes'
  <1>. SUFFICES ASSUME Types, Locks, Frames, Sealed, [Next]_segVars PROVE DataTypes'
    OBVIOUS
  <1>. DataTypes /\ TaskTypes
    BY DEF Types
  <1>1. CASE UNCHANGED dataVars
    BY <1>1 DEF dataVars, DataTypes
  <1>2. ASSUME NEW w \in Writer, NEW s \in Slot, NEW partial \in BOOLEAN, NEW l \in Lane, Claim(w, s, partial, l)
        PROVE  DataTypes'
    <2>1. [slot |-> s, data |-> Unreadable] \in Frame
      BY Constants DEF Frame, Unreadable
    <2>2. lane' \in [Lane -> [segid : Segid, dir : Seq(Frame)]]
      <3>1. lane[l] \in [segid : Segid, dir : Seq(Frame)]
        BY DEF DataTypes
      <3>. DEFINE d == Append(lane[l].dir, [slot |-> s, data |-> Unreadable])
      <3>2. d \in Seq(Frame)
        BY <2>1, <3>1
      <3>3. lane' = [lane EXCEPT ![l].dir = d]
        BY <1>2 DEF Claim
      <3>. QED
        BY <3>1, <3>2, <3>3 DEF DataTypes
    <2>. QED
      BY <1>2, <2>2 DEF Claim, DataTypes
  <1>3. ASSUME NEW w \in Writer, Fill(w) PROVE DataTypes'
    <2>. DEFINE l == writer[w].lane
                f == writer[w].loc.frame
    <2>1. l \in Lane /\ f \in DOMAIN lane[l].dir /\ writer[w].data \in SUBSET (0..MaxWrites)
      BY <1>3 DEF Fill, TaskTypes, Writers, Frames, Active
    <2>2. lane[l] \in [segid : Segid, dir : Seq(Frame)]
      BY <2>1 DEF DataTypes
    <2>. HIDE DEF l, f
    <2>3. [lane[l].dir[f] EXCEPT !.data = writer[w].data] \in Frame
      <3>1. lane[l].dir[f] \in Frame
        BY <2>1, <2>2
      <3>. QED
        BY <2>1, <3>1 DEF Frame
    <2>4. [lane[l].dir EXCEPT ![f].data = writer[w].data] \in Seq(Frame)
      BY <2>1, <2>2, <2>3, SMTT(30)
    <2>5. lane' \in [Lane -> [segid : Segid, dir : Seq(Frame)]]
      BY <1>3, <2>1, <2>2, <2>4 DEF Fill, DataTypes, l, f
    <2>. QED
      BY <1>3, <2>5 DEF Fill, DataTypes
  <1>4. ASSUME NEW w \in Writer, FailFill(w) PROVE DataTypes'
    BY <1>4 DEF FailFill, DataTypes
  <1>5. ASSUME NEW w \in Writer, SpawnSeal(w) PROVE DataTypes'
    <2>1. writer[w].lane \in Lane /\ RotateLane(writer[w].lane)
      BY <1>5 DEF SpawnSeal, TaskTypes, Writers
    <2>. QED
      BY <1>5, <2>1, RotateFacts, ZenonT(60) DEF SpawnSeal, DataTypes
  <1>6. ASSUME NEW g \in uploads, BackgroundPut(g) PROVE DataTypes'
    <2>1. \A h \in DOMAIN store' : h \in Segid /\ store'[h] \in Seq(Frame)
      BY <1>6, PutFacts DEF BackgroundPut, DataTypes
    <2>2. \A h \in DOMAIN sealing' : h \in Segid /\ sealing'[h] \in Seq(Frame)
      BY <1>6 DEF BackgroundPut, DataTypes, Keep
    <2>. QED
      BY <1>6, <2>1, <2>2 DEF BackgroundPut, DataTypes
  <1>7. CASE PublishPending
    <2>1. \A h \in DOMAIN store' : h \in Segid /\ store'[h] \in Seq(Frame)
      BY <1>7, PutFacts DEF PublishPending
    <2>2. \A h \in DOMAIN sealing' : h \in Segid /\ sealing'[h] \in Seq(Frame)
      BY <1>7 DEF PublishPending, DataTypes, Keep
    <2>. QED
      BY <1>7, <2>1, <2>2 DEF PublishPending, DataTypes, SealRest
  <1>8. CASE TakeGate
    BY <1>8 DEF TakeGate, DataTypes, SealRest
  <1>9. CASE SealRotate
    <2>1. NextDirty \in Lane /\ RotateLane(NextDirty)
      BY <1>9, DirtyMinimum DEF SealRotate
    <2>. QED
      BY <1>9, <2>1, RotateFacts DEF SealRotate, DataTypes, SealRest
  <1>10. CASE ReleaseGates
    BY <1>10 DEF ReleaseGates, DataTypes, SealRest
  <1>11. CASE SealEnd
    BY <1>11 DEF SealEnd, DataTypes, SealRest
  <1>12. ASSUME NEW g \in seal.ups, SealPut(g) PROVE DataTypes'
    <2>0. g \in DOMAIN sealing
      BY DEF Sealed
    <2>1. \A h \in DOMAIN store' : h \in Segid /\ store'[h] \in Seq(Frame)
      BY <1>12, <2>0, PutFacts DEF SealPut
    <2>2. \A h \in DOMAIN sealing' : h \in Segid /\ sealing'[h] \in Seq(Frame)
      BY <1>12 DEF SealPut, DataTypes, Keep
    <2>. QED
      BY <1>12, <2>1, <2>2 DEF SealPut, DataTypes, SealRest
  <1>13. CASE Crash
    <2>1. \A h \in DOMAIN store' : h \in Segid /\ store'[h] \in Seq(Frame)
      BY <1>13, PutFacts DEF Crash
    <2>2. nextSegid.epoch + 1 \in 0..MaxEpoch
      BY <1>13, Constants DEF Crash, DataTypes, Segid
    <2>3. lane' \in [Lane -> [segid : Segid, dir : Seq(Frame)]]
      BY <1>13, <2>2, Constants DEF Crash, Fresh, Segid, Lane
    <2>. QED
      BY <1>13, <2>1, <2>2, <2>3, Constants DEF Crash, DataTypes, Segid
  <1>. QED
    BY <1>1, <1>2, <1>3, <1>4, <1>5, <1>6, <1>7, <1>8, <1>9, <1>10, <1>11, <1>12, <1>13, DataMoves DEF SealOpen

LiveOf(count, g) == IF g \in DOMAIN count THEN count[g].live ELSE 0
Credited(count, t, g) == LiveOf(count, g) + (IF g = SegidOf(t.loc) THEN 1 ELSE 0)
Settle(count, t, g) == IF g = t.debit /\ Credited(count, t, g) > 0
                       THEN Credited(count, t, g) - 1 ELSE Credited(count, t, g)

DeltasOK(count, t) ==
    \A g \in DOMAIN SegDeltas(count, t) :
       /\ SegDeltas(count, t)[g] \in [live : Nat, total : Nat]
       /\ SegDeltas(count, t)[g].live = Settle(count, t, g)

\* What stage_seg_deltas does to the live counters: one up for the new segment, one down for the old.
LEMMA SegDeltasFacts ==
    ASSUME NEW count, DOMAIN count \subseteq Segid,
           \A g \in DOMAIN count : count[g] \in [live : Nat, total : Nat],
           NEW t \in Txns
    PROVE  /\ DOMAIN SegDeltas(count, t) = (DOMAIN count \cup ({SegidOf(t.loc), t.debit} \ {Free})) \ t.drop
           /\ DOMAIN SegDeltas(count, t) \subseteq Segid
           /\ DeltasOK(count, t)
  <1>1. t.debit \in Segid \cup {Free} /\ t.loc \in Location \cup {Free}
    BY TxnFields
  <1>2. SegidOf(t.loc) \in Segid \cup {Free}
    BY <1>1 DEF SegidOf, Hole, Location
  <1>3. \A g : Counter(count, g) \in [live : Nat, total : Nat]
    BY DEF Counter
  <1>4. \A g : Counter(count, g).live = LiveOf(count, g)
    BY DEF Counter, LiveOf
  <1>5. \A g : LiveOf(count, g) \in Nat /\ Credited(count, t, g) \in Nat
    BY <1>3, <1>4 DEF Credited
  <1>6. DOMAIN SegDeltas(count, t) = (DOMAIN count \cup ({SegidOf(t.loc), t.debit} \ {Free})) \ t.drop
    BY DEF SegDeltas
  <1>7. ASSUME NEW g \in DOMAIN SegDeltas(count, t)
        PROVE  /\ SegDeltas(count, t)[g] \in [live : Nat, total : Nat]
               /\ SegDeltas(count, t)[g].live = Settle(count, t, g)
    <2>1. CASE g \in {SegidOf(t.loc), t.debit} \ {Free}
      <3>1. SegDeltas(count, t)[g] =
              [live |-> IF g = t.debit /\ Credited(count, t, g) > 0
                        THEN Credited(count, t, g) - 1 ELSE Credited(count, t, g),
               total |-> Counter(count, g).total + (IF g = SegidOf(t.loc) THEN 1 ELSE 0)]
        BY <1>1, <1>4, <1>6, <2>1 DEF SegDeltas, Credited
      <3>. QED
        BY <1>3, <1>5, <3>1 DEF Settle
    <2>2. CASE g \notin {SegidOf(t.loc), t.debit} \ {Free}
      <3>1. g \in DOMAIN count /\ SegDeltas(count, t)[g] = count[g]
        BY <1>1, <1>6, <2>2 DEF SegDeltas
      <3>2. g # SegidOf(t.loc) /\ g # t.debit
        BY <2>2, <3>1, Constants
      <3>. QED
        BY <3>1, <3>2 DEF Settle, Credited, LiveOf
    <2>. QED
      BY <2>1, <2>2
  <1>8. DOMAIN SegDeltas(count, t) \subseteq Segid
    BY <1>1, <1>2, <1>6
  <1>. QED
    BY <1>6, <1>7, <1>8 DEF DeltasOK

\* The commit worker applies the oldest transaction and removes it from the queue.
LEMMA HeadOfQueue ==
    ASSUME DbTypes, queue # <<>>
    PROVE  /\ 1 \in DOMAIN queue /\ Head(queue) = queue[1] /\ queue[1] \in Txns
           /\ Tail(queue) \in Seq(Txns)
           /\ \A i \in DOMAIN Tail(queue) : i \in Nat /\ i + 1 \in DOMAIN queue /\ i + 1 # 1
                                            /\ Tail(queue)[i] = queue[i + 1]
  BY DEF DbTypes

\* What the commit worker does with the oldest transaction.
LEMMA ApplyFacts ==
    ASSUME DbTypes, Apply
    PROVE  /\ queue # <<>> /\ queue' = Tail(queue)
           /\ queue[1].slot # Free => mem'.ptr = [mem.ptr EXCEPT ![queue[1].slot] = queue[1].loc]
           /\ queue[1].slot = Free => mem'.ptr = mem.ptr
           /\ mem'.count = SegDeltas(mem.count, queue[1])
           /\ queue[1].id # 0 => written' = written \cup {queue[1].id}
           /\ queue[1].id = 0 => written' = written
  BY HeadOfQueue, Constants DEF Apply

\* A submission adds one well-formed transaction at the end.
LEMMA SubmitFacts ==
    ASSUME Types, Locks, Ids, Frames, NEW w \in Writer, Submit(w)
    PROVE  LET t == Txn(w, writer[w].id, writer[w].slot, writer[w].loc, writer[w].old, TRUE)
           IN  t \in Txns /\ queue' = Append(queue, t)
  <1>. DEFINE x == writer[w]
  <1>1. x \in Writers /\ x.pc = "filled"
    BY DEF Submit, Types, TaskTypes
  <1>2. x.slot \in Slot /\ x.loc \in Location /\ x.old \in Location \cup {Free} /\ x.id \in 1..MaxWrites
    BY <1>1, Constants DEF Locks, Frames, Ids, Active, Writers, Types, TaskTypes
  <1>3. SegidOf(x.old) \in Segid \cup {Free}
    BY <1>2 DEF SegidOf, Hole, Location
  <1>4. queue' = Append(queue, Txn(w, x.id, x.slot, x.loc, x.old, TRUE))
    BY DEF Submit
  <1>. HIDE DEF x
  <1>. QED
    BY <1>2, <1>3, <1>4, Constants DEF Txn, Txns, WellFormed, x

\* A hole punch submits a well-formed transaction as well.
LEMMA PunchFacts ==
    ASSUME Types, NEW w \in Writer, NEW s \in Slot, Punch(w, s)
    PROVE  Txn(w, clock.writes + 1, s, Free, mem.ptr[s], FALSE) \in Txns
  <1>1. mem.ptr[s] \in Location \cup {Free} /\ clock.writes + 1 \in 1..MaxWrites
    BY Constants DEF Punch, Types, DbTypes, ImageOK, TaskTypes
  <1>2. SegidOf(mem.ptr[s]) \in Segid \cup {Free}
    BY <1>1 DEF SegidOf, Hole, Location
  <1>. QED
    BY <1>1, <1>2, Constants DEF Txn, Txns, WellFormed

\* Every step keeps the types of the database, its durable image and the queue.
LEMMA DbTypesStep == Types /\ Locks /\ Ids /\ Frames /\ [Next]_segVars => DbTypes'
  <1>. SUFFICES ASSUME Types, Locks, Ids, Frames, [Next]_segVars PROVE DbTypes'
    OBVIOUS
  <1>. DbTypes /\ TaskTypes
    BY DEF Types
  <1>1. CASE UNCHANGED dbVars
    BY <1>1 DEF dbVars, DbTypes, ImageOK
  <1>2. ASSUME NEW w \in Writer, Submit(w) PROVE DbTypes'
    <2>. DEFINE t == Txn(w, writer[w].id, writer[w].slot, writer[w].loc, writer[w].old, TRUE)
    <2>1. t \in Txns /\ queue' = Append(queue, t)
      BY <1>2, SubmitFacts
    <2>. HIDE DEF t
    <2>2. queue' \in Seq(Txns)
      BY <2>1 DEF DbTypes
    <2>3. UNCHANGED <<mem, durable, written>>
      BY <1>2 DEF Submit
    <2>. QED
      BY <2>2, <2>3 DEF DbTypes, ImageOK
  <1>3. ASSUME NEW w \in Writer, NEW s \in Slot, Punch(w, s) PROVE DbTypes'
    <2>. DEFINE t == Txn(w, clock.writes + 1, s, Free, mem.ptr[s], FALSE)
    <2>2. t \in Txns
      BY <1>3, PunchFacts
    <2>3. queue' = Append(queue, t)
      BY <1>3 DEF Punch
    <2>. HIDE DEF t
    <2>4. queue' \in Seq(Txns)
      BY <2>2, <2>3 DEF DbTypes
    <2>5. UNCHANGED <<mem, durable, written>>
      BY <1>3 DEF Punch
    <2>. QED
      BY <2>4, <2>5 DEF DbTypes, ImageOK
  <1>4. CASE Apply
    <2>1. mem.ptr \in [Slot -> Location \cup {Free}] /\ queue[1] \in Txns
      BY <1>4, ApplyFacts, HeadOfQueue DEF DbTypes, ImageOK
    <2>2. mem'.ptr \in [Slot -> Location \cup {Free}]
      BY <1>4, <2>1, ApplyFacts, TxnFields
    <2>3. ImageOK(mem')
      <3>1. mem'.count = SegDeltas(mem.count, queue[1])
        BY <1>4, ApplyFacts
      <3>2. /\ DOMAIN mem'.count \subseteq Segid
            /\ \A g \in DOMAIN mem'.count : mem'.count[g] \in [live : Nat, total : Nat]
        <4>1. /\ DOMAIN SegDeltas(mem.count, queue[1]) \subseteq Segid
              /\ \A g \in DOMAIN SegDeltas(mem.count, queue[1]) :
                    SegDeltas(mem.count, queue[1])[g] \in [live : Nat, total : Nat]
          BY <2>1, SegDeltasFacts DEF DbTypes, ImageOK, DeltasOK
        <4>. QED
          BY <3>1, <4>1
      <3>. QED
        BY <2>2, <3>2 DEF ImageOK
    <2>. QED
      <3>1. written' \subseteq 1..MaxWrites
        <4>1. written \subseteq 1..MaxWrites
          BY DEF DbTypes
        <4>2. queue[1].id # 0 => queue[1].id \in 1..MaxWrites
          BY <2>1, TxnFields
        <4>. QED
          BY <1>4, <4>1, <4>2, ApplyFacts
      <3>2. queue' \in Seq(Txns) /\ durable' = durable
        BY <1>4, ApplyFacts, HeadOfQueue DEF Apply
      <3>. QED
        BY <2>3, <3>1, <3>2 DEF DbTypes, ImageOK
  <1>5. CASE AbortBatch
    BY <1>5, HeadOfQueue DEF AbortBatch, DbTypes, ImageOK
  <1>6. CASE FlushManifest
    BY <1>6 DEF FlushManifest, FlushRest, DbTypes, ImageOK
  <1>7. CASE Crash
    BY <1>7 DEF Crash, DbTypes, ImageOK
  <1>. QED
    BY <1>1, <1>2, <1>3, <1>4, <1>5, <1>6, <1>7, DbMoves

\* The steps of tasks keep every task's record well-formed.
LEMMA IdleType == Idle \in Writers /\ [Idle EXCEPT !.pc = "queued"] \in Writers
  <1>1. Idle \in Writers
    BY Constants DEF Idle, Writers
  <1>. QED
    BY <1>1 DEF Writers

\* A seal starts well typed.
LEMMA NoSealType == NoSeal \in Seals /\ [NoSeal EXCEPT !.pc = "publish"] \in Seals
  <1>1. NoSeal \in Seals
    BY Constants DEF NoSeal, Seals
  <1>. QED
    BY <1>1 DEF Seals

\* A frame's bytes come from the writes.
LEMMA ContentsType ==
    ASSUME Types, Segids, NEW s \in Slot
    PROVE  Contents[s] \in SUBSET (0..MaxWrites)
  <1>1. \A g \in Segid : Directory(g) \in Seq(Frame)
    <2>. SUFFICES ASSUME NEW g \in Segid PROVE Directory(g) \in Seq(Frame)
      OBVIOUS
    <2>1. DirectoryFacts
      BY DirectoryLookup
    <2>2. CASE \E l \in Lane : lane[l].segid = g
      <3>1. PICK l \in Lane : lane[l].segid = g
        BY <2>2
      <3>2. lane[l].dir \in Seq(Frame)
        BY DEF Types, DataTypes
      <3>. QED
        BY <2>1, <3>1, <3>2 DEF DirectoryFacts
    <2>3. CASE g \in DOMAIN sealing \/ g \in DOMAIN store
      BY <2>1, <2>3 DEF DirectoryFacts, Types, DataTypes
    <2>4. CASE Directory(g) = <<>>
      BY <2>4
    <2>. QED
      BY <2>1, <2>2, <2>3, <2>4 DEF DirectoryFacts
  <1>2. ASSUME NEW loc \in Location PROVE ReadFrame(loc, s) \in SUBSET (0..MaxWrites)
    <2>1. loc.segid \in Segid
      BY DEF Location
    <2>2. Directory(loc.segid) \in Seq(Frame)
      BY <1>1, <2>1
    <2>3. \A i \in DOMAIN Directory(loc.segid) : Directory(loc.segid)[i].data \in SUBSET (0..MaxWrites)
      <3>. DEFINE d == Directory(loc.segid)
      <3>1. d \in Seq(Frame)
        BY <2>2
      <3>. HIDE DEF d
      <3>2. \A i \in DOMAIN d : d[i] \in Frame
        BY <3>1
      <3>3. \A i \in DOMAIN d : d[i].data \in SUBSET (0..MaxWrites)
        BY <3>2 DEF Frame
      <3>. QED
        BY <3>3 DEF d
    <2>. QED
      BY <2>3, Constants DEF ReadFrame, FrameIn, Unreadable
  <1>3. mem.ptr[s] \in Location \cup {Free}
    BY DEF Types, DbTypes, ImageOK
  <1>. QED
    BY <1>2, <1>3, Constants DEF Contents, Hole

\* Every step keeps the types of the writers and of the inode locks.
LEMMA WritersStep ==
    Types /\ Segids /\ Locks /\ [Next]_segVars
       => writer' \in [Writer -> Writers] /\ lock' \in [Slot -> Writer \cup {Free, "gc"}]
  <1>. SUFFICES ASSUME Types, Segids, Locks, [Next]_segVars
                PROVE  writer' \in [Writer -> Writers] /\ lock' \in [Slot -> Writer \cup {Free, "gc"}]
    OBVIOUS
  <1>. /\ writer \in [Writer -> Writers] /\ lock \in [Slot -> Writer \cup {Free, "gc"}]
       /\ clock \in [writes : Nat, applied : Nat, durable : Nat, synced : Nat, fails : Nat]
    BY DEF Types, TaskTypes
  <1>1. CASE UNCHANGED <<writer, lock>>
    BY <1>1
  <1>2. ASSUME NEW w \in Writer, NEW s \in Slot, NEW partial \in BOOLEAN, NEW l \in Lane, Claim(w, s, partial, l)
        PROVE  writer' \in [Writer -> Writers] /\ lock' \in [Slot -> Writer \cup {Free, "gc"}]
    <2>. DEFINE n == clock.writes + 1
                d == {n} \cup (IF partial THEN Contents[s] ELSE {})
                loc == [segid |-> lane[l].segid, frame |-> Len(lane[l].dir) + 1]
    <2>1. n \in 0..MaxWrites
      BY <1>2, Constants DEF Claim
    <2>2. d \in SUBSET (0..MaxWrites)
      BY <2>1, ContentsType
    <2>3. loc \in Location
      BY DEF Types, DataTypes, Location
    <2>4. mem.ptr[s] \in Location \cup {Free}
      BY DEF Types, DbTypes, ImageOK
    <2>5. PICK rotate \in BOOLEAN :
             writer' = [writer EXCEPT ![w] =
                [pc |-> "claimed", id |-> n, slot |-> s, lane |-> l, data |-> d,
                 loc |-> loc, old |-> mem.ptr[s], rotate |-> rotate]]
      BY <1>2 DEF Claim
    <2>. HIDE DEF n, d, loc
    <2>6. [pc |-> "claimed", id |-> n, slot |-> s, lane |-> l, data |-> d,
           loc |-> loc, old |-> mem.ptr[s], rotate |-> rotate] \in Writers
      BY <2>1, <2>2, <2>3, <2>4 DEF Writers
    <2>7. lock' = [lock EXCEPT ![s] = w]
      BY <1>2 DEF Claim
    <2>. QED
      BY <2>5, <2>6, <2>7
  <1>3. ASSUME NEW w \in Writer, Fill(w) \/ SpawnSeal(w)
        PROVE  writer' \in [Writer -> Writers] /\ lock' \in [Slot -> Writer \cup {Free, "gc"}]
    <2>1. [writer[w] EXCEPT !.pc = "filled"] \in Writers /\ [writer[w] EXCEPT !.rotate = FALSE] \in Writers
      BY ZenonT(60) DEF Writers
    <2>. QED
      BY <1>3, <2>1 DEF Fill, SpawnSeal
  <1>4. ASSUME NEW w \in Writer, FailFill(w) \/ Submit(w) \/ (\E s \in Slot : Punch(w, s))
        PROVE  writer' \in [Writer -> Writers] /\ lock' \in [Slot -> Writer \cup {Free, "gc"}]
    <2>1. writer' = [writer EXCEPT ![w] = Idle] \/ writer' = [writer EXCEPT ![w] = [Idle EXCEPT !.pc = "queued"]]
      BY <1>4 DEF FailFill, Submit, Punch
    <2>2. lock' = lock \/ lock' = [lock EXCEPT ![writer[w].slot] = Free]
      BY <1>4 DEF FailFill, Submit, Punch
    <2>3. writer' \in [Writer -> Writers]
      BY <2>1, IdleType
    <2>. QED
      BY <2>2, <2>3
  <1>5. CASE Apply \/ AbortBatch
    <2>1. Reply(Head(queue))
      BY <1>5 DEF Apply, AbortBatch
    <2>. QED
      BY <2>1, IdleType DEF Reply
  <1>6. CASE Crash
    BY <1>6, IdleType DEF Crash
  <1>7. ASSUME NEW g \in uploads, BackgroundPut(g) PROVE UNCHANGED <<writer, lock>>
    BY <1>7 DEF BackgroundPut
  <1>8. CASE SealOpen
    BY <1>1, <1>8 DEF SealOpen, SealRest, PublishPending, TakeGate, SealRotate, ReleaseGates, SealEnd, SealPut
  <1>9. CASE (\E r \in Request : RequestFlush(r)) \/ FlushWorker
    BY <1>1, <1>9 DEF RequestFlush, FlushWorker, FlushRest, DrainRequests, FlushBegin, FlushManifest, FlushFailed
  <1>. QED
    BY <1>1, <1>2, <1>3, <1>4, <1>5, <1>6, <1>7, <1>8, <1>9
    DEF Next, DataPlane, WriterStep, Commit, segVars

\* The greatest of the applies that the served requests cover exists: all are at most what is applied.
LEMMA SyncedMaximum ==
    ASSUME TaskTypes, Clocks
    PROVE  LET S == {clock.synced} \cup {request[r].covers : r \in flusher.batch}
           IN  Max(S) \in Nat /\ Max(S) <= clock.applied
  <1>. DEFINE S == {clock.synced} \cup {request[r].covers : r \in flusher.batch}
  <1>1. S \subseteq Nat /\ S # {} /\ clock.applied \in Nat /\ \A x \in S : x <= clock.applied
    BY DEF TaskTypes, Clocks
  <1>. HIDE DEF S
  <1>2. Max(S) \in S
    BY <1>1, GreatestElement
  <1>. QED
    BY <1>1, <1>2 DEF S

\* Every step keeps the types of the tasks, locks and counters.
LEMMA TaskTypesStep == Types /\ Segids /\ Locks /\ Gates /\ Clocks /\ [Next]_segVars => TaskTypes'
  <1>. SUFFICES ASSUME Types, Segids, Locks, Gates, Clocks, [Next]_segVars PROVE TaskTypes'
    OBVIOUS
  <1>. TaskTypes
    BY DEF Types
  <1>. writer' \in [Writer -> Writers] /\ lock' \in [Slot -> Writer \cup {Free, "gc"}]
    BY WritersStep
  <1>. DEFINE Rest == /\ refs' \in BOOLEAN /\ barrier' \in {Free, "flush", "gc"} /\ seal' \in Seals
                      /\ flusher' \in [pc : {"idle", "barrier", "seal"}, batch : SUBSET Request]
                      /\ request' \in [Request -> [pc : {"idle", "pending"}, covers : Nat]]
                      /\ clock' \in [writes : Nat, applied : Nat, durable : Nat, synced : Nat, fails : Nat]
  <1>. SUFFICES Rest
    BY DEF TaskTypes
  <1>1. CASE UNCHANGED <<refs, barrier, seal, flusher, request, clock>>
    BY <1>1 DEF TaskTypes
  <1>2. ASSUME UNCHANGED <<refs, barrier, seal, flusher, request>>,
               \/ clock' = [clock EXCEPT !.writes = @ + 1]
               \/ clock' = [clock EXCEPT !.fails = @ + 1]
               \/ clock' = [clock EXCEPT !.applied = @ + 1]
        PROVE  Rest
    BY <1>2 DEF TaskTypes
  <1>3. ASSUME NEW w \in Writer, WriterStep(w) PROVE Rest
    <2>1. ASSUME NEW s \in Slot, NEW partial \in BOOLEAN, NEW l \in Lane, Claim(w, s, partial, l) PROVE Rest
      BY <1>2, <2>1, ClaimFacts DEF flushVars
    <2>2. CASE Fill(w) \/ SpawnSeal(w) \/ Submit(w)
      BY <1>1, <2>2 DEF Fill, SpawnSeal, Submit, flushVars
    <2>3. CASE FailFill(w)
      BY <1>2, <2>3 DEF FailFill, flushVars
    <2>4. ASSUME NEW s \in Slot, Punch(w, s) PROVE Rest
      BY <1>2, <2>4 DEF Punch, flushVars
    <2>. QED
      BY <1>3, <2>1, <2>2, <2>3, <2>4 DEF WriterStep
  <1>4. CASE Apply \/ AbortBatch
    BY <1>2, <1>4 DEF Apply, AbortBatch, flushVars
  <1>5. ASSUME NEW g \in uploads, BackgroundPut(g) PROVE Rest
    BY <1>1, <1>2, <1>5 DEF BackgroundPut, flushVars
  <1>6. CASE PublishPending
    <2>1. clock' = clock \/ clock' = [clock EXCEPT !.fails = @ + 1]
      <3>1. [clock EXCEPT !.fails = @ + 0] = clock
        BY DEF TaskTypes
      <3>. QED
        BY <1>6, <3>1 DEF PublishPending
    <2>2. \E pc \in {"failed", "gate", "rotate"} : seal' = [seal EXCEPT !.pc = pc]
      BY <1>6 DEF PublishPending
    <2>3. UNCHANGED <<refs, barrier, flusher, request>>
      BY <1>6 DEF PublishPending, SealRest
    <2>. QED
      BY <2>1, <2>2, <2>3 DEF TaskTypes, Seals
  <1>7. CASE TakeGate
    <2>1. seal.lane + 1 \in 1..(LaneCount + 1)
      BY <1>7, Constants DEF TakeGate, Gates, Lane
    <2>. QED
      BY <1>7, <2>1 DEF TakeGate, SealRest, TaskTypes, Seals
  <1>8. CASE SealRotate
    <2>1. lane[NextDirty].segid \in Segid
      BY <1>8, DirtyMinimum DEF SealRotate, Types, DataTypes
    <2>. QED
      BY <1>8, <2>1 DEF SealRotate, SealRest, TaskTypes, Seals
  <1>9. CASE ReleaseGates
    BY <1>9 DEF ReleaseGates, SealRest, TaskTypes, Seals
  <1>10. ASSUME NEW g \in seal.ups, SealPut(g) PROVE Rest
    <2>1. UNCHANGED <<refs, barrier, flusher, request>>
      BY <1>10 DEF SealPut, SealRest
    <2>2. clock' = clock \/ clock' = [clock EXCEPT !.fails = @ + 1]
      BY <1>10 DEF SealPut
    <2>3. \/ seal' = [seal EXCEPT !.ups = @ \ {g}]
          \/ seal' = [seal EXCEPT !.ups = @ \ {g}, !.failed = TRUE]
      BY <1>10 DEF SealPut
    <2>4. seal' \in Seals
      <3>1. seal \in Seals /\ seal.ups \ {g} \in SUBSET Segid
        BY DEF TaskTypes, Seals
      <3>2. [seal EXCEPT !.ups = @ \ {g}] \in Seals
        BY <3>1 DEF Seals
      <3>3. [seal EXCEPT !.ups = @ \ {g}, !.failed = TRUE] \in Seals
        BY <3>1 DEF Seals
      <3>. QED
        BY <2>3, <3>2, <3>3
    <2>. QED
      BY <2>1, <2>2, <2>4 DEF TaskTypes
  <1>11. CASE SealEnd
    BY <1>11 DEF SealEnd, SealRest, TaskTypes, Seals
  <1>12. ASSUME NEW r \in Request, RequestFlush(r) PROVE Rest
    BY <1>12 DEF RequestFlush, FlushRest, TaskTypes
  <1>13. CASE DrainRequests
    BY <1>13 DEF DrainRequests, FlushRest, TaskTypes
  <1>14. CASE FlushBegin
    BY <1>14, NoSealType DEF FlushBegin, FlushRest, TaskTypes
  <1>15. CASE FlushFailed
    BY <1>15, NoSealType DEF FlushFailed, FlushRest, TaskTypes, Answer
  <1>16. CASE FlushManifest
    <2>. DEFINE S == {clock.synced} \cup {request[r].covers : r \in flusher.batch}
    <2>1. clock' = [clock EXCEPT !.durable = clock.applied, !.synced = Max(S)]
      BY <1>16 DEF FlushManifest
    <2>2. Max(S) \in Nat
      BY SyncedMaximum
    <2>. HIDE DEF S
    <2>. QED
      BY <1>16, <2>1, <2>2, NoSealType DEF FlushManifest, FlushRest, TaskTypes, Answer
  <1>17. CASE Crash
    BY <1>17, NoSealType DEF Crash, TaskTypes, Answer
  <1>. QED
    BY <1>1, <1>3, <1>4, <1>5, <1>6, <1>7, <1>8, <1>9, <1>10, <1>11, <1>12, <1>13, <1>14, <1>15, <1>16, <1>17
    DEF Next, DataPlane, Commit, SealOpen, FlushWorker, segVars

\* All types are preserved.
LEMMA TypesStep == SegInv /\ [Next]_segVars => Types'
  BY DataTypesStep, DbTypesStep, TaskTypesStep DEF SegInv, Types

-----------------------------------------------------------------------------
(* Segment ids *)

\* No segment id is ever given out twice, across rotations and restarts.
LEMMA SegidsStep == Types /\ Segids /\ Frames /\ Sealed /\ [Next]_segVars => Segids'
  <1>. SUFFICES ASSUME Types, Segids, Frames, Sealed, [Next]_segVars PROVE Segids'
    OBVIOUS
  <1>. DataTypes /\ TaskTypes
    BY DEF Types
  <1>0. /\ nextSegid \in [epoch : Nat, counter : Nat]
        /\ \A l \in Lane : lane[l].segid \in [epoch : Nat, counter : Nat]
        /\ \A g \in DOMAIN sealing \cup DOMAIN store : g \in [epoch : Nat, counter : Nat]
    BY Constants DEF DataTypes, Segid
  <1>1. ASSUME UNCHANGED <<sealing, store, nextSegid>>, \A l \in Lane : lane'[l].segid = lane[l].segid
        PROVE  Segids'
    BY <1>1 DEF Segids
  <1>2. ASSUME NEW l \in Lane, RotateLane(l), UNCHANGED store PROVE Segids'
    <2>1. /\ lane'[l].segid = nextSegid
          /\ \A k \in Lane : k # l => lane'[k] = lane[k]
          /\ DOMAIN sealing' = DOMAIN sealing \cup {lane[l].segid}
          /\ \A g \in DOMAIN sealing : g # lane[l].segid => sealing'[g] = sealing[g]
          /\ nextSegid'.epoch = nextSegid.epoch /\ nextSegid'.counter = nextSegid.counter + 1
      BY <1>2, RotateFacts
    <2>2. \A g \in [epoch : Nat, counter : Nat] : Before(g, nextSegid) => g # nextSegid /\ Before(g, nextSegid')
      BY <1>0, <2>1 DEF Before
    <2>3. Before(nextSegid, nextSegid')
      BY <1>0, <2>1 DEF Before
    <2>4. \A k \in Lane : /\ lane'[k].segid.epoch = nextSegid'.epoch
                          /\ Before(lane'[k].segid, nextSegid')
                          /\ lane'[k].segid \notin DOMAIN sealing' \cup DOMAIN store'
      BY <1>0, <1>2, <2>1, <2>2, <2>3 DEF Segids
    <2>5. \A j, k \in Lane : lane'[j].segid = lane'[k].segid => j = k
      BY <1>0, <2>1, <2>2 DEF Segids
    <2>6. \A g \in DOMAIN sealing' \cup DOMAIN store' : Before(g, nextSegid')
      BY <1>0, <1>2, <2>1, <2>2 DEF Segids
    <2>7. \A g \in DOMAIN sealing' \cap DOMAIN store' : sealing'[g] = store'[g]
      BY <1>2, <2>1 DEF Segids
    <2>. QED
      BY <2>4, <2>5, <2>6, <2>7 DEF Segids
  <1>3. ASSUME UNCHANGED <<lane, nextSegid>>,
               NEW ok \in SUBSET DOMAIN sealing, NEW lost \in SUBSET DOMAIN sealing, Put(ok, lost),
               NEW S \in SUBSET DOMAIN sealing, sealing' = Keep(sealing, S)
        PROVE  Segids'
    <2>1. /\ DOMAIN store' = DOMAIN store \cup ok \cup lost
          /\ \A g \in DOMAIN store : store'[g] = store[g]
          /\ \A g \in (ok \cup lost) \ DOMAIN store : store'[g] = sealing[g]
      BY <1>3, PutFacts
    <2>2. DOMAIN sealing' = S /\ \A g \in S : sealing'[g] = sealing[g]
      BY <1>3 DEF Keep
    <2>3. \A g \in DOMAIN sealing' \cap DOMAIN store' : sealing'[g] = store'[g]
      BY <2>1, <2>2 DEF Segids
    <2>4. \A g \in DOMAIN sealing' \cup DOMAIN store' : g \in DOMAIN sealing \cup DOMAIN store
      BY <2>1, <2>2
    <2>. QED
      BY <1>3, <2>3, <2>4 DEF Segids
  <1>4. ASSUME UNCHANGED <<lane, nextSegid, sealing>>,
               NEW lost \in SUBSET DOMAIN sealing, Put({}, lost)
        PROVE  Segids'
    <2>1. /\ DOMAIN store' = DOMAIN store \cup lost
          /\ \A g \in DOMAIN store : store'[g] = store[g]
          /\ \A g \in lost \ DOMAIN store : store'[g] = sealing[g]
      BY <1>4, LostPutFacts
    <2>2. \A g \in DOMAIN sealing' \cap DOMAIN store' : sealing'[g] = store'[g]
      BY <1>4, <2>1 DEF Segids
    <2>. QED
      BY <1>4, <2>1, <2>2 DEF Segids
  <1>5. ASSUME NEW w \in Writer, NEW s \in Slot, NEW partial \in BOOLEAN, NEW l \in Lane, Claim(w, s, partial, l)
        PROVE  Segids'
    <2>1. \A k \in Lane : lane'[k].segid = lane[k].segid
      <3>1. lane' = [lane EXCEPT ![l].dir = Append(@, [slot |-> s, data |-> Unreadable])]
        BY <1>5, Zenon DEF Claim
      <3>. QED
        BY <3>1 DEF DataTypes
    <2>. QED
      BY <1>1, <1>5, <2>1 DEF Claim
  <1>6. ASSUME NEW w \in Writer, Fill(w) PROVE Segids'
    <2>1. writer[w].lane \in Lane
      BY WriterLane
    <2>2. \A k \in Lane : lane'[k].segid = lane[k].segid
      BY <1>6, <2>1 DEF Fill, DataTypes
    <2>. QED
      BY <1>1, <1>6, <2>2 DEF Fill
  <1>7. ASSUME NEW w \in Writer, FailFill(w) PROVE Segids'
    BY <1>1, <1>7 DEF FailFill
  <1>8. ASSUME NEW w \in Writer, SpawnSeal(w) PROVE Segids'
    <2>1. writer[w].lane \in Lane
      BY WriterLane
    <2>. QED
      BY <1>2, <1>8, <2>1 DEF SpawnSeal
  <1>9. ASSUME NEW g \in uploads, BackgroundPut(g) PROVE Segids'
    <2>1. CASE g \in DOMAIN sealing
      BY <1>3, <1>4, <1>9, <2>1 DEF BackgroundPut
    <2>2. CASE g \notin DOMAIN sealing
      <3>1. store' = store /\ sealing' = Keep(sealing, DOMAIN sealing) /\ UNCHANGED <<lane, nextSegid>>
        <4>1. DOMAIN sealing \ {g} = DOMAIN sealing
          BY <2>2
        <4>. QED
          BY <1>9, <2>2, <4>1 DEF BackgroundPut
      <3>. QED
        BY <3>1 DEF Segids, Keep
    <2>. QED
      BY <2>1, <2>2
  <1>10. CASE SealOpen
    <2>1. CASE PublishPending
      BY <1>3, <2>1 DEF PublishPending
    <2>2. CASE TakeGate \/ ReleaseGates \/ SealEnd
      BY <1>1, <2>2 DEF TakeGate, ReleaseGates, SealEnd
    <2>3. CASE SealRotate
      BY <1>2, <2>3, DirtyMinimum DEF SealRotate
    <2>4. ASSUME NEW g \in seal.ups, SealPut(g) PROVE Segids'
      <3>1. g \in DOMAIN sealing
        BY DEF Sealed
      <3>. QED
        BY <1>3, <1>4, <2>4, <3>1 DEF SealPut
    <2>. QED
      BY <1>10, <2>1, <2>2, <2>3, <2>4 DEF SealOpen
  <1>11. CASE Crash
    <2>1. /\ \A g \in DOMAIN store' : g \in DOMAIN sealing \cup DOMAIN store
          /\ sealing' = <<>>
      BY <1>11, LostPutFacts DEF Crash
    <2>2. \A l \in Lane : lane'[l].segid = [epoch |-> nextSegid.epoch + 1, counter |-> l - 1]
      BY <1>11 DEF Crash, Fresh
    <2>3. nextSegid' = [epoch |-> nextSegid.epoch + 1, counter |-> LaneCount]
      BY <1>11 DEF Crash
    <2>4. \A g \in DOMAIN store' : Before(g, nextSegid') /\ g.epoch < nextSegid'.epoch
      BY <1>0, <2>1, <2>3 DEF Segids, Before
    <2>5. \A l \in Lane : lane'[l].segid.epoch = nextSegid'.epoch /\ Before(lane'[l].segid, nextSegid')
      <3>. SUFFICES ASSUME NEW l \in Lane
                    PROVE  lane'[l].segid.epoch = nextSegid'.epoch /\ Before(lane'[l].segid, nextSegid')
        OBVIOUS
      <3>1. l \in Nat /\ l - 1 < LaneCount
        BY Constants DEF Lane
      <3>2. lane'[l].segid = [epoch |-> nextSegid.epoch + 1, counter |-> l - 1]
        BY <2>2
      <3>. QED
        BY <1>0, <2>3, <3>1, <3>2, Constants DEF Before
    <2>6. \A l, k \in Lane : lane'[l].segid = lane'[k].segid => l = k
      <3>. SUFFICES ASSUME NEW l \in Lane, NEW k \in Lane, lane'[l].segid = lane'[k].segid PROVE l = k
        OBVIOUS
      <3>1. l \in Nat /\ k \in Nat
        BY Constants
      <3>2. [epoch |-> nextSegid.epoch + 1, counter |-> l - 1] = [epoch |-> nextSegid.epoch + 1, counter |-> k - 1]
        BY <2>2
      <3>3. l - 1 = k - 1
        BY <3>2
      <3>. QED
        BY <3>1, <3>3
    <2>7. DOMAIN sealing' = {}
      BY <2>1
    <2>. QED
      BY <1>0, <2>3, <2>4, <2>5, <2>6, <2>7 DEF Segids
  <1>. QED
    BY <1>1, <1>5, <1>6, <1>7, <1>8, <1>9, <1>10, <1>11, DataMoves DEF dataVars

-----------------------------------------------------------------------------
(* Locks and ids *)

\* Locks, the queue and the writers move together, and only here.
LEMMA LockMoves ==
    ASSUME [Next]_segVars
    PROVE  \/ UNCHANGED <<lock, queue, writer>>
           \/ \E w \in Writer : WriterStep(w)
           \/ Apply \/ AbortBatch
           \/ Crash
  <1>1. CASE SealOpen
    BY <1>1 DEF SealOpen, SealRest, PublishPending, TakeGate, SealRotate, ReleaseGates, SealEnd, SealPut, dbVars
  <1>2. CASE \E g \in uploads : BackgroundPut(g)
    BY <1>2 DEF BackgroundPut, dbVars
  <1>3. CASE (\E r \in Request : RequestFlush(r)) \/ FlushWorker
    BY <1>3 DEF RequestFlush, FlushWorker, FlushRest, DrainRequests, FlushBegin, FlushManifest, FlushFailed
  <1>. QED
    BY <1>1, <1>2, <1>3 DEF Next, DataPlane, Commit, segVars

\* A seal touches segments, gates and the failure count only.
LEMMA SealOpenKeeps ==
    ASSUME TaskTypes, SealOpen
    PROVE  /\ UNCHANGED <<mem, durable, queue, written, lock, writer, refs, barrier, flusher, request, uploads>>
           /\ clock'.writes = clock.writes /\ clock'.applied = clock.applied
           /\ clock'.durable = clock.durable /\ clock'.synced = clock.synced
  <1>1. UNCHANGED <<mem, durable, queue, written, lock, writer, refs, barrier, flusher, request, uploads>>
    BY DEF SealOpen, SealRest, PublishPending, TakeGate, SealRotate, ReleaseGates, SealEnd, SealPut, dbVars
  <1>2. \/ clock' = clock
        \/ clock' = [clock EXCEPT !.fails = @ + 1]
        \/ clock' = [clock EXCEPT !.fails = @ + 0]
    BY DEF SealOpen, PublishPending, TakeGate, SealRotate, ReleaseGates, SealEnd, SealPut
  <1>. QED
    BY <1>1, <1>2 DEF TaskTypes

\* A transaction leaves the queue: its owner goes back to work, the others are as before.
LEMMA ReplyFacts ==
    ASSUME Types, Locks, queue # <<>>, queue' = Tail(queue), Reply(Head(queue))
    PROVE  /\ writer' \in [Writer -> Writers]
           /\ \A w \in Writer, s \in Slot : lock'[s] = w <=> lock[s] = w
           /\ queue[1].owner \in Writer => writer'[queue[1].owner] = Idle /\ ~Active(queue[1].owner)
           /\ \A w \in Writer : w # queue[1].owner => writer'[w] = writer[w]
           /\ \A w \in Writer : Active(w)' <=> Active(w)
           /\ \A i \in DOMAIN queue' : i + 1 \in DOMAIN queue /\ i + 1 # 1 /\ queue'[i] = queue[i + 1]
  <1>1. 1 \in DOMAIN queue /\ Head(queue) = queue[1] /\ queue[1].owner \in Writer \cup {"gc"}
    BY HeadOfQueue, TxnFields DEF Types
  <1>2. queue[1].owner \in Writer => writer[queue[1].owner].pc = "queued"
    BY <1>1 DEF Locks
  <1>3. \A s \in Slot : lock[s] = queue[1].owner => queue[1].owner \notin Writer
    BY <1>1, <1>2, Constants DEF Locks, Active
  <1>4. \A w \in Writer, s \in Slot : lock'[s] = w <=> lock[s] = w
    BY <1>1, <1>3, Constants DEF Reply, Types, TaskTypes
  <1>5. /\ writer' \in [Writer -> Writers]
        /\ queue[1].owner \in Writer => writer'[queue[1].owner] = Idle
        /\ \A w \in Writer : w # queue[1].owner => writer'[w] = writer[w]
    BY <1>1, IdleType DEF Reply, Types, TaskTypes
  <1>6. Idle.pc = "idle"
    BY DEF Idle
  <1>7. \A w \in Writer : Active(w)' <=> Active(w)
    BY <1>2, <1>5, <1>6 DEF Active
  <1>. QED
    BY <1>2, <1>4, <1>5, <1>7, HeadOfQueue DEF Active, Types

\* A transaction joins the queue.
LEMMA QueueGrows ==
    ASSUME DbTypes, NEW t \in Txns, queue' = Append(queue, t)
    PROVE  /\ DOMAIN queue' = DOMAIN queue \cup {Len(queue) + 1}
           /\ Len(queue) + 1 \notin DOMAIN queue
           /\ queue'[Len(queue) + 1] = t
           /\ \A i \in DOMAIN queue : queue'[i] = queue[i]
  BY DEF DbTypes

\* The inode lock and the queued ranges keep two writes to a slot apart.
LEMMA LocksStep == Types /\ Segids /\ Locks /\ Ids /\ Frames /\ [Next]_segVars => Locks'
  <1>. SUFFICES ASSUME Types, Segids, Locks, Ids, Frames, [Next]_segVars PROVE Locks'
    OBVIOUS
  <1>. TaskTypes /\ DbTypes
    BY DEF Types
  <1>0. /\ \A i \in DOMAIN queue : i \in Nat /\ queue[i].owner \in Writer \cup {"gc"} /\ queue[i].slot \in Slot \cup {Free}
        /\ lock \in [Slot -> Writer \cup {Free, "gc"}]
    <2>1. \A i \in DOMAIN queue : i \in Nat /\ queue[i] \in Txns
      BY DEF DbTypes
    <2>. QED
      BY <2>1, TxnFields DEF TaskTypes
  <1>1. CASE UNCHANGED <<lock, queue, writer>>
    BY <1>1 DEF Locks, Active
  <1>2. ASSUME NEW w \in Writer, NEW s \in Slot, NEW partial \in BOOLEAN, NEW l \in Lane, Claim(w, s, partial, l)
        PROVE  Locks'
    <2>1. /\ writer[w].pc = "idle" /\ lock[s] = Free /\ Settled(s) /\ queue' = queue
          /\ lock' = [lock EXCEPT ![s] = w]
          /\ writer'[w].pc = "claimed" /\ writer'[w].slot = s
          /\ \A v \in Writer : v # w => writer'[v] = writer[v]
      BY <1>2 DEF Claim, dbVars, TaskTypes
    <2>2. \A v \in Writer : Active(v)' <=> (Active(v) \/ v = w)
      BY <2>1 DEF Active
    <2>3. ~Active(w) /\ \A v \in Writer : Active(v) => writer[v].slot # s
      BY <2>1, Constants DEF Locks, Active
    <2>4. \A v \in Writer, x \in Slot : lock'[x] = v <=> (Active(v)' /\ writer'[v].slot = x)
      BY <1>0, <2>1, <2>2, <2>3 DEF Locks
    <2>5. \A i \in DOMAIN queue' : queue'[i].owner \in Writer => writer'[queue'[i].owner].pc = "queued"
      BY <1>0, <2>1 DEF Locks
    <2>6. \A i \in DOMAIN queue', v \in Writer : Active(v)' => writer'[v].slot # queue'[i].slot
      BY <2>1, <2>2 DEF Locks, Settled
    <2>7. \A v \in Writer : Active(v)' => writer'[v].slot \in Slot
      BY <2>1, <2>2 DEF Locks
    <2>. QED
      BY <2>1, <2>4, <2>5, <2>6, <2>7 DEF Locks
  <1>3. ASSUME NEW w \in Writer, Fill(w) \/ SpawnSeal(w) PROVE Locks'
    <2>1. /\ UNCHANGED <<lock, queue>>
          /\ Active(w) /\ writer'[w].slot = writer[w].slot /\ writer'[w].pc = "filled"
          /\ \A v \in Writer : v # w => writer'[v] = writer[v]
      BY <1>3 DEF Fill, SpawnSeal, dbVars, Active, TaskTypes, Writers
    <2>2. \A v \in Writer : (Active(v)' <=> Active(v)) /\ writer'[v].slot = writer[v].slot
      BY <2>1 DEF Active
    <2>3. \A i \in DOMAIN queue : queue[i].owner # w
      BY <2>1 DEF Locks, Active
    <2>4. \A i \in DOMAIN queue' : queue'[i].owner \in Writer => writer'[queue'[i].owner].pc = "queued"
      BY <1>0, <2>1, <2>3 DEF Locks
    <2>. QED
      BY <2>1, <2>2, <2>4 DEF Locks
  <1>4. ASSUME NEW w \in Writer, FailFill(w) PROVE Locks'
    <2>1. /\ queue' = queue /\ Active(w)
          /\ lock' = [lock EXCEPT ![writer[w].slot] = Free] /\ writer'[w].pc = "idle"
          /\ \A v \in Writer : v # w => writer'[v] = writer[v]
      BY <1>4 DEF FailFill, dbVars, Active, TaskTypes, Idle
    <2>2. \A v \in Writer : Active(v)' <=> (Active(v) /\ v # w)
      BY <2>1 DEF Active
    <2>3. \A i \in DOMAIN queue : queue[i].owner # w
      BY <2>1 DEF Locks, Active
    <2>4. \A v \in Writer, x \in Slot : lock'[x] = v <=> (Active(v)' /\ writer'[v].slot = x)
      BY <1>0, <2>1, <2>2, Constants DEF Locks
    <2>5. \A i \in DOMAIN queue' : queue'[i].owner \in Writer => writer'[queue'[i].owner].pc = "queued"
      BY <1>0, <2>1, <2>3 DEF Locks
    <2>. QED
      BY <1>0, <2>1, <2>2, <2>4, <2>5 DEF Locks
  <1>5. ASSUME NEW w \in Writer, NEW t \in Txns, queue' = Append(queue, t), t.owner = w,
               writer[w].pc # "queued", writer'[w].pc = "queued",
               \A v \in Writer : v # w => writer'[v] = writer[v],
               \A v \in Writer : Active(v) /\ v # w => writer[v].slot # t.slot,
               \A i \in DOMAIN queue : queue[i].slot # t.slot,
               \A v \in Writer, x \in Slot : lock'[x] = v <=> (lock[x] = v /\ v # w)
        PROVE  Locks'
    <2>1. /\ DOMAIN queue' = DOMAIN queue \cup {Len(queue) + 1}
          /\ Len(queue) + 1 \notin DOMAIN queue
          /\ queue'[Len(queue) + 1] = t
          /\ \A i \in DOMAIN queue : queue'[i] = queue[i]
      BY <1>5, QueueGrows
    <2>2. \A i \in DOMAIN queue : queue[i].owner # w
      BY <1>5 DEF Locks
    <2>3. \A v \in Writer : Active(v)' <=> (Active(v) /\ v # w)
      BY <1>5 DEF Active
    <2>4. \A v \in Writer : Active(v)' => writer'[v].slot \in Slot /\ writer'[v].slot = writer[v].slot
      BY <1>5, <2>3 DEF Locks
    <2>5. \A v \in Writer, x \in Slot : lock'[x] = v <=> (Active(v)' /\ writer'[v].slot = x)
      BY <1>5, <2>3, <2>4 DEF Locks
    <2>6. \A i \in DOMAIN queue' : queue'[i].owner \in Writer => writer'[queue'[i].owner].pc = "queued"
      BY <1>0, <1>5, <2>1, <2>2 DEF Locks
    <2>7. \A i \in DOMAIN queue', v \in Writer : Active(v)' => writer'[v].slot # queue'[i].slot
      BY <1>5, <2>1, <2>3, <2>4 DEF Locks
    <2>8. \A i, j \in DOMAIN queue' :
             (queue'[i].slot = queue'[j].slot \/ queue'[i].owner = queue'[j].owner) => i = j
      BY <1>5, <2>1, <2>2 DEF Locks
    <2>. QED
      BY <2>4, <2>5, <2>6, <2>7, <2>8 DEF Locks
  <1>6. ASSUME NEW w \in Writer, Submit(w) PROVE Locks'
    <2>. DEFINE t == Txn(w, writer[w].id, writer[w].slot, writer[w].loc, writer[w].old, TRUE)
    <2>1. /\ Active(w) /\ t \in Txns /\ queue' = Append(queue, t)
          /\ t.owner = w /\ t.slot = writer[w].slot
          /\ lock' = [lock EXCEPT ![writer[w].slot] = Free]
          /\ writer[w].pc # "queued" /\ writer'[w].pc = "queued"
          /\ \A v \in Writer : v # w => writer'[v] = writer[v]
      BY <1>6, SubmitFacts DEF Submit, Active, TaskTypes, Txn, Idle
    <2>. HIDE DEF t
    <2>2. t.slot \in Slot /\ lock[t.slot] = w
      BY <2>1 DEF Locks
    <2>3. \A v \in Writer : Active(v) /\ v # w => writer[v].slot # t.slot
      BY <2>2 DEF Locks
    <2>4. \A i \in DOMAIN queue : queue[i].slot # t.slot
      BY <2>1 DEF Locks
    <2>5. \A v \in Writer, x \in Slot : lock'[x] = v <=> (lock[x] = v /\ v # w)
      BY <1>0, <2>1, <2>2, Constants DEF Locks
    <2>. QED
      BY <1>5, <2>1, <2>3, <2>4, <2>5
  <1>7. ASSUME NEW w \in Writer, NEW s \in Slot, Punch(w, s) PROVE Locks'
    <2>. DEFINE t == Txn(w, clock.writes + 1, s, Free, mem.ptr[s], FALSE)
    <2>1. /\ writer[w].pc = "idle" /\ t \in Txns /\ queue' = Append(queue, t)
          /\ t.owner = w /\ t.slot = s /\ lock[s] = Free /\ Settled(s)
          /\ lock' = lock /\ writer'[w].pc = "queued"
          /\ \A v \in Writer : v # w => writer'[v] = writer[v]
      BY <1>7, PunchFacts DEF Punch, TaskTypes, Txn, Idle
    <2>. HIDE DEF t
    <2>2. \A v \in Writer : Active(v) => v # w /\ writer[v].slot # t.slot
      BY <2>1, Constants DEF Locks, Active
    <2>3. \A i \in DOMAIN queue : queue[i].slot # t.slot
      BY <2>1 DEF Settled
    <2>4. \A v \in Writer, x \in Slot : lock'[x] = v <=> (lock[x] = v /\ v # w)
      BY <2>1, <2>2 DEF Locks
    <2>. QED
      BY <1>5, <2>1, <2>2, <2>3, <2>4
  <1>8. CASE Apply \/ AbortBatch
    <2>1. queue # <<>> /\ queue' = Tail(queue) /\ Reply(Head(queue))
      BY <1>8 DEF Apply, AbortBatch
    <2>2. /\ \A w \in Writer, s \in Slot : lock'[s] = w <=> lock[s] = w
          /\ queue[1].owner \in Writer => ~Active(queue[1].owner)
          /\ \A w \in Writer : w # queue[1].owner => writer'[w] = writer[w]
          /\ \A w \in Writer : Active(w)' <=> Active(w)
          /\ \A i \in DOMAIN queue' : i + 1 \in DOMAIN queue /\ i + 1 # 1 /\ queue'[i] = queue[i + 1]
      BY <2>1, ReplyFacts
    <2>3. 1 \in DOMAIN queue
      BY <2>1, HeadOfQueue
    <2>4. \A w \in Writer : Active(w)' => writer'[w] = writer[w]
      BY <2>2
    <2>5. \A v \in Writer, x \in Slot : lock'[x] = v <=> (Active(v)' /\ writer'[v].slot = x)
      BY <2>2, <2>4 DEF Locks
    <2>6. \A i \in DOMAIN queue' : queue'[i].owner \in Writer => writer'[queue'[i].owner].pc = "queued"
      BY <1>0, <2>2, <2>3 DEF Locks
    <2>7. \A i \in DOMAIN queue', v \in Writer : Active(v)' => writer'[v].slot # queue'[i].slot
      BY <2>2, <2>4 DEF Locks
    <2>8. \A i, j \in DOMAIN queue' :
             (queue'[i].slot = queue'[j].slot \/ queue'[i].owner = queue'[j].owner) => i + 1 = j + 1
      BY <2>2 DEF Locks
    <2>9. \A i \in DOMAIN queue' : i \in Nat
      BY <2>1 DEF DbTypes
    <2>10. \A w \in Writer : Active(w)' => writer'[w].slot \in Slot
      BY <2>2, <2>4 DEF Locks
    <2>11. \A i, j \in DOMAIN queue' :
             (queue'[i].slot = queue'[j].slot \/ queue'[i].owner = queue'[j].owner) => i = j
      BY <2>8, <2>9
    <2>. QED
      BY <2>5, <2>6, <2>7, <2>10, <2>11 DEF Locks
  <1>9. CASE Crash
    <2>1. queue' = <<>> /\ lock' = [s \in Slot |-> Free] /\ \A w \in Writer : writer'[w].pc = "idle"
      BY <1>9 DEF Crash, Idle
    <2>2. DOMAIN queue' = {} /\ (\A s \in Slot : lock'[s] = Free) /\ \A w \in Writer : ~Active(w)'
      BY <2>1 DEF Active
    <2>. QED
      BY <2>2, Constants DEF Locks
  <1>. QED
    BY <1>1, <1>2, <1>3, <1>4, <1>6, <1>7, <1>8, <1>9, LockMoves DEF WriterStep

\* Write ids stay unique while they pass from reservation to queue to database.
LEMMA IdsStep == Types /\ Segids /\ Locks /\ Ids /\ Frames /\ [Next]_segVars => Ids'
  <1>. SUFFICES ASSUME Types, Segids, Locks, Ids, Frames, [Next]_segVars PROVE Ids'
    OBVIOUS
  <1>. TaskTypes /\ DbTypes
    BY DEF Types
  <1>0. /\ \A i \in DOMAIN queue : i \in Nat /\ queue[i].id \in 0..MaxWrites
        /\ clock.writes \in Nat /\ written \subseteq Nat
    <2>1. \A i \in DOMAIN queue : i \in Nat /\ queue[i] \in Txns
      BY DEF DbTypes
    <2>. QED
      BY <2>1, Constants, TxnFields DEF TaskTypes, DbTypes
  <1>1. ASSUME UNCHANGED <<queue, writer, written>>, clock'.writes = clock.writes PROVE Ids'
    BY <1>1 DEF Ids, Active
  <1>2. ASSUME NEW w \in Writer, NEW s \in Slot, NEW partial \in BOOLEAN, NEW l \in Lane, Claim(w, s, partial, l)
        PROVE  Ids'
    <2>1. /\ queue' = queue /\ written' = written /\ clock.writes < MaxWrites
          /\ clock'.writes = clock.writes + 1
          /\ writer'[w].pc = "claimed" /\ writer'[w].id = clock.writes + 1
          /\ \A v \in Writer : v # w => writer'[v] = writer[v]
      BY <1>2 DEF Claim, dbVars, TaskTypes
    <2>2. \A v \in Writer : Active(v)' <=> (Active(v) \/ v = w)
      BY <2>1 DEF Active
    <2>3. \A v \in Writer : Active(v)' /\ v # w =>
             /\ writer'[v].id \in 1..clock.writes /\ writer'[v].id \notin written
             /\ \A i \in DOMAIN queue : queue[i].id # writer'[v].id
      BY <2>1, <2>2 DEF Ids
    <2>4. /\ writer'[w].id \in 1..clock'.writes /\ writer'[w].id \notin written'
          /\ \A i \in DOMAIN queue' : queue'[i].id # writer'[w].id
      BY <1>0, <2>1 DEF Ids
    <2>5. clock'.writes <= MaxWrites
      BY <1>0, <2>1, Constants
    <2>6. \A v \in Writer : Active(v)' =>
             /\ writer'[v].id \in 1..clock'.writes /\ writer'[v].id \notin written'
             /\ \A i \in DOMAIN queue' : queue'[i].id # writer'[v].id
      BY <1>0, <2>1, <2>3, <2>4
    <2>7. \A v, u \in Writer : Active(v)' /\ Active(u)' /\ writer'[v].id = writer'[u].id => v = u
      BY <1>0, <2>1, <2>2, <2>3 DEF Ids
    <2>8. /\ \A v \in written' : v <= clock'.writes
          /\ \A i \in DOMAIN queue' : queue'[i].id <= clock'.writes /\ queue'[i].id \notin written'
      BY <1>0, <2>1 DEF Ids
    <2>. QED
      BY <2>1, <2>5, <2>6, <2>7, <2>8 DEF Ids
  <1>3. ASSUME NEW w \in Writer, Fill(w) \/ SpawnSeal(w) PROVE Ids'
    <2>1. /\ UNCHANGED <<queue, written, clock>>
          /\ Active(w) /\ writer'[w].id = writer[w].id /\ writer'[w].pc = "filled"
          /\ \A v \in Writer : v # w => writer'[v] = writer[v]
      BY <1>3 DEF Fill, SpawnSeal, dbVars, Active, TaskTypes, Writers
    <2>2. \A v \in Writer : (Active(v)' <=> Active(v)) /\ writer'[v].id = writer[v].id
      BY <2>1 DEF Active
    <2>. QED
      BY <2>1, <2>2 DEF Ids
  <1>4. ASSUME NEW w \in Writer, FailFill(w) PROVE Ids'
    <2>1. /\ UNCHANGED <<queue, written>> /\ clock'.writes = clock.writes
          /\ writer'[w].pc = "idle"
          /\ \A v \in Writer : v # w => writer'[v] = writer[v]
      BY <1>4 DEF FailFill, dbVars, TaskTypes, Idle
    <2>2. \A v \in Writer : Active(v)' => Active(v) /\ v # w /\ writer'[v] = writer[v]
      BY <2>1 DEF Active
    <2>. QED
      BY <2>1, <2>2 DEF Ids
  <1>5. ASSUME NEW w \in Writer, NEW t \in Txns, queue' = Append(queue, t), written' = written,
               writer'[w].pc = "queued", \A v \in Writer : v # w => writer'[v] = writer[v],
               \A i \in DOMAIN queue : queue[i].id # t.id,
               \A v \in Writer : Active(v) /\ v # w => writer[v].id # t.id,
               t.id \notin written, t.id <= clock'.writes,
               clock'.writes \in Nat, clock.writes <= clock'.writes, clock'.writes <= MaxWrites
        PROVE  Ids'
    <2>1. /\ DOMAIN queue' = DOMAIN queue \cup {Len(queue) + 1}
          /\ Len(queue) + 1 \notin DOMAIN queue
          /\ queue'[Len(queue) + 1] = t
          /\ \A i \in DOMAIN queue : queue'[i] = queue[i]
      BY <1>5, QueueGrows
    <2>2. \A v \in Writer : Active(v)' => Active(v) /\ v # w /\ writer'[v] = writer[v]
      BY <1>5 DEF Active
    <2>3. \A v \in Writer : Active(v)' =>
             /\ writer'[v].id \in 1..clock'.writes /\ writer'[v].id \notin written'
             /\ \A i \in DOMAIN queue' : queue'[i].id # writer'[v].id
      BY <1>0, <1>5, <2>1, <2>2 DEF Ids
    <2>4. \A v, u \in Writer : Active(v)' /\ Active(u)' /\ writer'[v].id = writer'[u].id => v = u
      BY <2>2 DEF Ids
    <2>5. /\ \A v \in written' : v <= clock'.writes
          /\ \A i \in DOMAIN queue' : queue'[i].id <= clock'.writes /\ queue'[i].id \notin written'
      BY <1>0, <1>5, <2>1 DEF Ids
    <2>6. \A i, j \in DOMAIN queue' : queue'[i].id = queue'[j].id => i = j
      BY <1>5, <2>1 DEF Ids
    <2>. QED
      BY <1>5, <2>3, <2>4, <2>5, <2>6 DEF Ids
  <1>6. ASSUME NEW w \in Writer, Submit(w) PROVE Ids'
    <2>. DEFINE t == Txn(w, writer[w].id, writer[w].slot, writer[w].loc, writer[w].old, TRUE)
    <2>1. /\ Active(w) /\ t \in Txns /\ queue' = Append(queue, t) /\ t.id = writer[w].id
          /\ UNCHANGED <<written, clock>> /\ writer'[w].pc = "queued"
          /\ \A v \in Writer : v # w => writer'[v] = writer[v]
      BY <1>6, SubmitFacts DEF Submit, Active, TaskTypes, Txn, Idle
    <2>. HIDE DEF t
    <2>. QED
      BY <1>0, <1>5, <2>1 DEF Ids
  <1>7. ASSUME NEW w \in Writer, NEW s \in Slot, Punch(w, s) PROVE Ids'
    <2>. DEFINE t == Txn(w, clock.writes + 1, s, Free, mem.ptr[s], FALSE)
    <2>1. /\ t \in Txns /\ queue' = Append(queue, t) /\ t.id = clock.writes + 1
          /\ written' = written /\ clock.writes < MaxWrites
          /\ clock'.writes = clock.writes + 1 /\ writer'[w].pc = "queued"
          /\ \A v \in Writer : v # w => writer'[v] = writer[v]
      BY <1>7, PunchFacts DEF Punch, TaskTypes, Txn, Idle
    <2>. HIDE DEF t
    <2>2. \A i \in DOMAIN queue : queue[i].id # t.id
      BY <1>0, <2>1 DEF Ids
    <2>3. \A v \in Writer : Active(v) /\ v # w => writer[v].id # t.id
      BY <1>0, <2>1 DEF Ids
    <2>4. t.id \notin written
      BY <1>0, <2>1 DEF Ids
    <2>. QED
      BY <1>0, <1>5, <2>1, <2>2, <2>3, <2>4, Constants
  <1>8. CASE Apply \/ AbortBatch
    <2>1. queue # <<>> /\ queue' = Tail(queue) /\ Reply(Head(queue)) /\ clock'.writes = clock.writes
      BY <1>8 DEF Apply, AbortBatch, TaskTypes
    <2>2. /\ queue[1].owner \in Writer => ~Active(queue[1].owner)
          /\ \A w \in Writer : w # queue[1].owner => writer'[w] = writer[w]
          /\ \A w \in Writer : Active(w)' <=> Active(w)
          /\ \A i \in DOMAIN queue' : i + 1 \in DOMAIN queue /\ i + 1 # 1 /\ queue'[i] = queue[i + 1]
      BY <2>1, ReplyFacts
    <2>3. 1 \in DOMAIN queue /\ (written' = written \/ written' = written \cup {queue[1].id})
      BY <1>8, <2>1, HeadOfQueue, ApplyFacts DEF AbortBatch
    <2>4. \A w \in Writer : Active(w)' => writer'[w] = writer[w]
      BY <2>2
    <2>5. \A i \in DOMAIN queue' : queue'[i].id <= clock'.writes /\ queue'[i].id \notin written'
      BY <2>1, <2>2, <2>3 DEF Ids
    <2>6. \A i \in DOMAIN queue' : i \in Nat
      BY <2>1 DEF DbTypes
    <2>7. \A i, j \in DOMAIN queue' : queue'[i].id = queue'[j].id => i + 1 = j + 1
      BY <2>2 DEF Ids
    <2>8. \A i, j \in DOMAIN queue' : queue'[i].id = queue'[j].id => i = j
      BY <2>6, <2>7
    <2>9. \A v \in Writer : Active(v)' =>
             /\ writer'[v].id \in 1..clock'.writes /\ writer'[v].id \notin written'
             /\ \A i \in DOMAIN queue' : queue'[i].id # writer'[v].id
      BY <2>1, <2>2, <2>3, <2>4 DEF Ids
    <2>10. \A v, u \in Writer : Active(v)' /\ Active(u)' /\ writer'[v].id = writer'[u].id => v = u
      BY <2>2, <2>4 DEF Ids
    <2>11. clock'.writes <= MaxWrites /\ \A v \in written' : v <= clock'.writes
      BY <2>1, <2>3 DEF Ids
    <2>. QED
      BY <2>5, <2>8, <2>9, <2>10, <2>11 DEF Ids
  <1>9. CASE Crash
    <2>1. queue' = <<>> /\ written' = written /\ clock'.writes = clock.writes /\ \A w \in Writer : writer'[w].pc = "idle"
      BY <1>9 DEF Crash, Idle, TaskTypes
    <2>2. DOMAIN queue' = {} /\ \A w \in Writer : ~Active(w)'
      BY <2>1 DEF Active
    <2>. QED
      BY <2>1, <2>2 DEF Ids
  <1>10. CASE SealOpen
    BY <1>1, <1>10, SealOpenKeeps
  <1>11. ASSUME NEW g \in uploads, BackgroundPut(g) PROVE Ids'
    <2>1. UNCHANGED <<queue, writer, written>> /\ clock'.writes = clock.writes
      BY <1>11 DEF BackgroundPut, dbVars, TaskTypes
    <2>. QED
      BY <1>1, <2>1
  <1>12. CASE (\E r \in Request : RequestFlush(r)) \/ FlushWorker
    <2>1. UNCHANGED <<queue, writer, written>> /\ clock'.writes = clock.writes
      BY <1>12
      DEF RequestFlush, FlushWorker, FlushRest, DrainRequests, FlushBegin, FlushManifest, FlushFailed, TaskTypes
    <2>. QED
      BY <1>1, <2>1
  <1>. QED
    BY <1>1, <1>2, <1>3, <1>4, <1>6, <1>7, <1>8, <1>9, <1>10, <1>11, <1>12
    DEF Next, DataPlane, WriterStep, Commit, segVars

-----------------------------------------------------------------------------
(* Gates *)

\* A gate is held from the claim that fills a segment, or by the seal, until the rotation.
LEMMA GatesStep == Types /\ Gates /\ Locks /\ [Next]_segVars => Gates'
  <1>. SUFFICES ASSUME Types, Gates, Locks, [Next]_segVars PROVE Gates'
    OBVIOUS
  <1>. TaskTypes /\ DataTypes
    BY DEF Types
  <1>0. /\ \A w \in Writer : writer[w] \in Writers
        /\ Idle.rotate = FALSE /\ [Idle EXCEPT !.pc = "queued"].rotate = FALSE
    BY DEF TaskTypes, Idle
  <1>1. ASSUME UNCHANGED <<gate, seal>>, \A w \in Writer : writer'[w].rotate => writer[w].rotate /\ writer'[w].lane = writer[w].lane
        PROVE  Gates'
    BY <1>1 DEF Gates
  <1>2. ASSUME NEW w \in Writer, NEW s \in Slot, NEW partial \in BOOLEAN, NEW l \in Lane, Claim(w, s, partial, l)
        PROVE  Gates'
    <2>1. /\ gate[l] = Free /\ seal' = seal
          /\ \A v \in Writer : v # w => writer'[v] = writer[v]
          /\ writer'[w].lane = l
          /\ gate' = [gate EXCEPT ![l] = IF writer'[w].rotate THEN w ELSE Free]
      BY <1>2 DEF Claim, flushVars, TaskTypes
    <2>2. \A v \in Writer : writer[v].rotate => writer[v].lane # l /\ writer[v].lane \in Lane
      BY <1>0, <2>1, Constants DEF Gates, Writers
    <2>3. \A v \in Writer : writer'[v].rotate => gate'[writer'[v].lane] = v
      <3>1. \A k \in Lane : k # l => gate'[k] = gate[k]
        BY <2>1 DEF DataTypes
      <3>2. writer'[w].rotate => gate'[l] = w
        BY <2>1 DEF DataTypes
      <3>3. ASSUME NEW v \in Writer, v # w, writer'[v].rotate PROVE gate'[writer'[v].lane] = v
        <4>1. writer'[v] = writer[v] /\ writer[v].rotate /\ writer[v].lane # l /\ writer[v].lane \in Lane
          BY <2>1, <2>2, <3>3
        <4>2. gate[writer[v].lane] = v
          BY <4>1 DEF Gates
        <4>. QED
          BY <3>1, <4>1, <4>2
      <3>. QED
        BY <2>1, <3>2, <3>3
    <2>4. \A k \in Lane : gate[k] = "seal" => gate'[k] = "seal"
      BY <2>1, Constants DEF DataTypes
    <2>. QED
      BY <2>1, <2>3, <2>4 DEF Gates
  <1>3. ASSUME NEW w \in Writer, Fill(w) PROVE Gates'
    <2>1. \A v \in Writer : writer'[v].rotate => writer[v].rotate /\ writer'[v].lane = writer[v].lane
      BY <1>0, <1>3 DEF Fill, TaskTypes, Writers
    <2>. QED
      BY <1>1, <1>3, <2>1 DEF Fill, flushVars
  <1>4. ASSUME NEW w \in Writer, FailFill(w) PROVE Gates'
    <2>1. /\ \A l \in Lane : gate'[l] = IF gate[l] = w THEN Free ELSE gate[l]
          /\ seal' = seal /\ writer'[w] = Idle
          /\ \A v \in Writer : v # w => writer'[v] = writer[v]
      BY <1>4 DEF FailFill, flushVars, TaskTypes
    <2>2. \A v \in Writer : writer'[v].rotate => v # w /\ gate'[writer'[v].lane] = v
      BY <1>0, <2>1 DEF Gates, Writers
    <2>3. \A k \in Lane : gate[k] = "seal" => gate'[k] = "seal"
      BY <2>1, Constants
    <2>. QED
      BY <2>1, <2>2, <2>3 DEF Gates
  <1>5. ASSUME NEW w \in Writer, SpawnSeal(w) PROVE Gates'
    <2>. DEFINE l == writer[w].lane
    <2>1. /\ l \in Lane /\ gate[l] = w /\ gate' = [gate EXCEPT ![l] = Free] /\ seal' = seal
          /\ writer'[w].rotate = FALSE
          /\ \A v \in Writer : v # w => writer'[v] = writer[v]
      BY <1>0, <1>5 DEF SpawnSeal, flushVars, TaskTypes, Writers, Gates
    <2>. HIDE DEF l
    <2>2. \A v \in Writer : writer'[v].rotate => v # w /\ writer[v].lane # l /\ writer[v].lane \in Lane
      BY <1>0, <2>1 DEF Gates, Writers
    <2>3. \A v \in Writer : writer'[v].rotate => gate'[writer'[v].lane] = v
      BY <2>1, <2>2, SMTT(30) DEF Gates, DataTypes
    <2>4. \A k \in Lane : gate[k] = "seal" => gate'[k] = "seal"
      BY <2>1, Constants DEF DataTypes
    <2>. QED
      BY <2>1, <2>3, <2>4 DEF Gates
  <1>6. ASSUME NEW w \in Writer, Submit(w) \/ (\E s \in Slot : Punch(w, s)) PROVE Gates'
    <2>1. \A v \in Writer : writer'[v].rotate => writer[v].rotate /\ writer'[v].lane = writer[v].lane
      BY <1>0, <1>6 DEF Submit, Punch, TaskTypes
    <2>. QED
      BY <1>1, <1>6, <2>1 DEF Submit, Punch, flushVars, dataVars
  <1>7. CASE Apply \/ AbortBatch
    <2>1. Reply(Head(queue)) /\ UNCHANGED <<gate, seal>>
      BY <1>7 DEF Apply, AbortBatch, flushVars, dataVars
    <2>2. \A v \in Writer : writer'[v].rotate => writer[v].rotate /\ writer'[v].lane = writer[v].lane
      BY <1>0, <2>1 DEF Reply
    <2>. QED
      BY <1>1, <2>1, <2>2
  <1>8. ASSUME NEW g \in uploads, BackgroundPut(g) PROVE Gates'
    BY <1>1, <1>8 DEF BackgroundPut, flushVars
  <1>9. CASE PublishPending
    <2>1. PICK failed \in SUBSET DOMAIN sealing :
             /\ seal' = [seal EXCEPT !.pc = IF failed # {} THEN "failed"
                                            ELSE IF seal.lane \in Lane THEN "gate" ELSE "rotate"]
             /\ gate' = IF failed = {} THEN gate
                        ELSE [l \in Lane |-> IF gate[l] = "seal" THEN Free ELSE gate[l]]
      BY <1>9 DEF PublishPending
    <2>2. /\ seal'.lane = seal.lane
          /\ seal'.pc = IF failed # {} THEN "failed" ELSE IF seal.lane \in Lane THEN "gate" ELSE "rotate"
      BY <2>1 DEF TaskTypes, Seals
    <2>3. writer' = writer /\ \A w \in Writer : writer[w].rotate => gate'[writer[w].lane] = w
      BY <1>0, <1>9, <2>1, Constants DEF PublishPending, SealRest, Gates, Writers
    <2>4. \A l \in Lane : seal.lane \notin Lane => l < seal.lane
      BY Constants DEF TaskTypes, Seals, Lane
    <2>. QED
      BY <1>9, <2>1, <2>2, <2>3, <2>4 DEF PublishPending, Gates
  <1>10. CASE TakeGate
    <2>1. /\ seal.lane \in Lane /\ gate[seal.lane] = Free /\ writer' = writer
          /\ gate' = [gate EXCEPT ![seal.lane] = "seal"]
          /\ seal'.pc = "publish" /\ seal'.lane = seal.lane + 1
      BY <1>10 DEF TakeGate, SealRest, Gates, TaskTypes, Seals
    <2>2. \A w \in Writer : writer[w].rotate => gate'[writer[w].lane] = w
      BY <1>0, <2>1, Constants DEF Gates, DataTypes, Writers
    <2>3. \A l \in Lane : l < seal.lane + 1 => gate'[l] = "seal"
      BY <1>10, <2>1, Constants DEF Gates, TakeGate, DataTypes
    <2>. QED
      BY <2>1, <2>2, <2>3 DEF Gates
  <1>11. CASE SealRotate \/ \E g \in seal.ups : SealPut(g)
    <2>1. UNCHANGED <<gate, writer>> /\ seal'.pc = seal.pc /\ seal'.lane = seal.lane
      BY <1>11 DEF SealRotate, SealPut, SealRest, TaskTypes, Seals
    <2>. QED
      BY <2>1 DEF Gates
  <1>12. CASE ReleaseGates
    <2>1. /\ writer' = writer /\ gate' = [l \in Lane |-> Free] /\ seal'.pc = "upload"
          /\ \A l \in Lane : gate[l] = "seal"
      BY <1>12 DEF ReleaseGates, SealRest, TaskTypes, Seals, Gates
    <2>2. \A w \in Writer : ~writer[w].rotate
      BY <1>0, <2>1, Constants DEF Gates, Writers
    <2>. QED
      BY <2>1, <2>2 DEF Gates
  <1>13. CASE SealEnd
    <2>1. /\ writer' = writer /\ seal'.pc \in {"ok", "failed"}
          /\ gate' = [l \in Lane |-> IF gate[l] = "seal" THEN Free ELSE gate[l]]
      BY <1>13 DEF SealEnd, SealRest, TaskTypes, Seals
    <2>2. \A w \in Writer : writer[w].rotate => gate'[writer[w].lane] = w
      BY <1>0, <2>1, Constants DEF Gates, Writers
    <2>. QED
      BY <2>1, <2>2 DEF Gates
  <1>14. CASE (\E r \in Request : RequestFlush(r)) \/ DrainRequests
    BY <1>1, <1>14 DEF RequestFlush, DrainRequests, FlushRest, dataVars
  <1>15. CASE FlushBegin
    <2>1. UNCHANGED <<writer, gate>> /\ seal'.pc = "publish" /\ seal'.lane = 1
      BY <1>15 DEF FlushBegin, FlushRest, dataVars, NoSeal
    <2>2. \A l \in Lane : ~(l < 1)
      BY Constants DEF Lane
    <2>. QED
      BY <2>1, <2>2 DEF Gates
  <1>16. CASE FlushManifest \/ FlushFailed
    <2>1. UNCHANGED <<writer, gate>> /\ seal'.pc = "none"
      BY <1>16 DEF FlushManifest, FlushFailed, FlushRest, dataVars, NoSeal
    <2>. QED
      BY <2>1 DEF Gates
  <1>17. CASE Crash
    <2>1. seal'.pc = "none" /\ \A w \in Writer : writer'[w] = Idle
      BY <1>17 DEF Crash, NoSeal
    <2>. QED
      BY <1>0, <2>1 DEF Gates
  <1>18. CASE UNCHANGED segVars
    BY <1>1, <1>18 DEF segVars
  <1>. QED
    BY <1>2, <1>3, <1>4, <1>5, <1>6, <1>7, <1>8, <1>9, <1>10, <1>11, <1>12, <1>13, <1>14, <1>15, <1>16, <1>17, <1>18
    DEF Next, DataPlane, WriterStep, Commit, SealOpen, FlushWorker

-----------------------------------------------------------------------------
(* What flushes cover *)

\* What was answered is durable, what is durable was applied.
LEMMA ClocksStep == Types /\ Clocks /\ [Next]_segVars => Clocks'
  <1>. SUFFICES ASSUME Types, Clocks, [Next]_segVars PROVE Clocks'
    OBVIOUS
  <1>. TaskTypes
    BY DEF Types
  <1>1. ASSUME request' = request, clock'.synced = clock.synced, clock'.durable = clock.durable,
               clock'.applied = clock.applied
        PROVE  Clocks'
    BY <1>1 DEF Clocks
  <1>2. ASSUME NEW w \in Writer, WriterStep(w) PROVE Clocks'
    <2>1. request' = request
      BY <1>2, Zenon DEF WriterStep, Claim, Fill, FailFill, SpawnSeal, Submit, Punch, flushVars
    <2>2. \/ clock' = clock
          \/ clock' = [clock EXCEPT !.writes = @ + 1]
          \/ clock' = [clock EXCEPT !.fails = @ + 1]
      BY <1>2, Zenon DEF WriterStep, Claim, Fill, FailFill, SpawnSeal, Submit, Punch
    <2>3. clock'.synced = clock.synced /\ clock'.durable = clock.durable /\ clock'.applied = clock.applied
      BY <2>2 DEF TaskTypes
    <2>. QED
      BY <1>1, <2>1, <2>3
  <1>3. CASE Apply
    <2>1. clock' = [clock EXCEPT !.applied = @ + 1] /\ request' = request
      BY <1>3 DEF Apply, flushVars
    <2>. QED
      BY <2>1 DEF Clocks, TaskTypes
  <1>4. CASE AbortBatch
    BY <1>1, <1>4 DEF AbortBatch, flushVars, TaskTypes
  <1>5. ASSUME NEW g \in uploads, BackgroundPut(g) PROVE Clocks'
    BY <1>1, <1>5 DEF BackgroundPut, flushVars, TaskTypes
  <1>6. CASE SealOpen
    BY <1>1, <1>6, SealOpenKeeps
  <1>7. ASSUME NEW r \in Request, RequestFlush(r) PROVE Clocks'
    BY <1>7 DEF RequestFlush, Clocks, TaskTypes
  <1>8. CASE DrainRequests \/ FlushBegin
    BY <1>1, <1>8 DEF DrainRequests, FlushBegin
  <1>9. CASE FlushManifest
    <2>. DEFINE S == {clock.synced} \cup {request[r].covers : r \in flusher.batch}
    <2>1. clock' = [clock EXCEPT !.durable = clock.applied, !.synced = Max(S)] /\ request' = Answer(flusher.batch)
      BY <1>9 DEF FlushManifest
    <2>2. Max(S) \in Nat /\ Max(S) <= clock.applied
      BY SyncedMaximum
    <2>. HIDE DEF S
    <2>3. clock'.durable = clock.applied /\ clock'.applied = clock.applied /\ clock'.synced = Max(S)
      BY <2>1, <2>2 DEF TaskTypes
    <2>4. \A r \in Request : request'[r].covers \in {0, request[r].covers}
      BY <2>1 DEF Answer
    <2>. QED
      BY <2>2, <2>3, <2>4 DEF Clocks, TaskTypes
  <1>10. CASE FlushFailed
    <2>1. clock' = clock /\ \A r \in Request : request'[r].covers \in {0, request[r].covers}
      BY <1>10 DEF FlushFailed, Answer
    <2>. QED
      BY <2>1 DEF Clocks, TaskTypes
  <1>11. CASE Crash
    <2>1. clock' = [clock EXCEPT !.applied = clock.durable] /\ \A r \in Request : request'[r].covers = 0
      BY <1>11 DEF Crash, Answer
    <2>. QED
      BY <2>1 DEF Clocks, TaskTypes
  <1>12. CASE UNCHANGED segVars
    BY <1>1, <1>12 DEF segVars
  <1>. QED
    BY <1>2, <1>3, <1>4, <1>5, <1>6, <1>7, <1>8, <1>9, <1>10, <1>11, <1>12
    DEF Next, DataPlane, Commit, FlushWorker

-----------------------------------------------------------------------------
(* Counters *)

Exact(d) ==
    /\ \A g \in DOMAIN d.count : d.count[g].live = Pointers(d, g)
    /\ \A s \in Slot : Hole(d.ptr[s]) \/ SegidOf(d.ptr[s]) \in DOMAIN d.count

\* A transaction that debits what it supersedes and credits what it writes keeps the counters exact.
LEMMA DeltasExact ==
    ASSUME NEW m, ImageOK(m), Exact(m), NEW t \in Txns, t.slot # Free, t.debit = SegidOf(m.ptr[t.slot]),
           NEW d, d.ptr = [m.ptr EXCEPT ![t.slot] = t.loc], d.count = SegDeltas(m.count, t)
    PROVE  Exact(d)
  <1>. DEFINE Up(g) == Credited(m.count, t, g)
              P(g) == {s \in Slot : SegidOf(m.ptr[s]) = g}
              Q(g) == {s \in Slot : SegidOf(d.ptr[s]) = g}
  <1>1. /\ DOMAIN d.count = DOMAIN m.count \cup ({SegidOf(t.loc), t.debit} \ {Free})
        /\ DOMAIN d.count \subseteq Segid
        /\ \A g \in DOMAIN d.count : d.count[g].live = IF g = t.debit /\ Up(g) > 0 THEN Up(g) - 1 ELSE Up(g)
    <2>1. DOMAIN m.count \subseteq Segid /\ \A g \in DOMAIN m.count : m.count[g] \in [live : Nat, total : Nat]
      BY DEF ImageOK
    <2>2. /\ DOMAIN SegDeltas(m.count, t) = (DOMAIN m.count \cup ({SegidOf(t.loc), t.debit} \ {Free})) \ t.drop
          /\ DOMAIN SegDeltas(m.count, t) \subseteq Segid
          /\ \A g \in DOMAIN SegDeltas(m.count, t) :
                SegDeltas(m.count, t)[g].live = IF g = t.debit /\ Up(g) > 0 THEN Up(g) - 1 ELSE Up(g)
      <3>1. PICK c : c = m.count
        OBVIOUS
      <3>2. DOMAIN c \subseteq Segid /\ \A g \in DOMAIN c : c[g] \in [live : Nat, total : Nat]
        BY <2>1, <3>1
      <3>3. DOMAIN SegDeltas(c, t) = (DOMAIN c \cup ({SegidOf(t.loc), t.debit} \ {Free})) \ t.drop
        BY <3>2, SegDeltasFacts
      <3>4. DOMAIN SegDeltas(c, t) \subseteq Segid
        BY <3>2, SegDeltasFacts
      <3>5. DeltasOK(c, t)
        BY <3>2, SegDeltasFacts
      <3>6. \A g : Settle(m.count, t, g) = IF g = t.debit /\ Up(g) > 0 THEN Up(g) - 1 ELSE Up(g)
        BY DEF Settle
      <3>. QED
        BY <3>1, <3>3, <3>4, <3>5, <3>6, Zenon DEF DeltasOK
    <2>3. t.drop = {}
      BY TxnFields
    <2>. QED
      BY <2>2, <2>3
  <1>2. t.slot \in Slot /\ t.loc \in Location \cup {Free}
    BY TxnFields
  <1>3. \A s \in Slot : d.ptr[s] = IF s = t.slot THEN t.loc ELSE m.ptr[s]
    BY <1>2 DEF ImageOK
  <1>4. ASSUME NEW g \in DOMAIN d.count PROVE d.count[g].live = Pointers(d, g)
    <2>1. IsFiniteSet(P(g)) /\ Cardinality(P(g)) \in Nat
      <3>1. P(g) \in SUBSET Slot
        OBVIOUS
      <3>. HIDE DEF P
      <3>. QED
        BY <3>1, SegmentsNames, FS_Subset, FS_CardinalityType
    <2>2. LiveOf(m.count, g) = Cardinality(P(g))
      <3>1. CASE g \in DOMAIN m.count
        BY <3>1 DEF Exact, Pointers, LiveOf
      <3>2. CASE g \notin DOMAIN m.count
        <4>1. g # Free
          BY <1>1, Constants
        <4>2. P(g) = {}
          BY <3>2, <4>1 DEF Exact, SegidOf
        <4>. QED
          BY <3>2, <4>2, FS_EmptySet DEF LiveOf
      <3>. QED
        BY <3>1, <3>2
    <2>3. t.slot \in P(g) <=> t.debit = g
      BY <1>2
    <2>4. CASE SegidOf(t.loc) = g
      <3>1. Q(g) = P(g) \cup {t.slot}
        BY <1>2, <1>3, <2>4
      <3>. HIDE DEF P, Q
      <3>2. Cardinality(Q(g)) = IF t.slot \in P(g) THEN Cardinality(P(g)) ELSE Cardinality(P(g)) + 1
        BY <2>1, <3>1, FS_AddElement
      <3>3. d.count[g].live = Cardinality(Q(g))
        BY <1>1, <2>1, <2>2, <2>3, <2>4, <3>2 DEF Credited
      <3>. QED
        BY <3>3 DEF Pointers, Q
    <2>5. CASE SegidOf(t.loc) # g /\ t.debit = g
      <3>1. Q(g) = P(g) \ {t.slot} /\ P(g) # {}
        BY <1>2, <1>3, <2>3, <2>5
      <3>. HIDE DEF P, Q
      <3>2. Cardinality(Q(g)) = Cardinality(P(g)) - 1 /\ Cardinality(P(g)) # 0
        BY <2>1, <2>3, <2>5, <3>1, FS_RemoveElement, FS_EmptySet, ZenonT(60)
      <3>3. d.count[g].live = Cardinality(Q(g))
        BY <1>1, <2>1, <2>2, <2>5, <3>2 DEF Credited
      <3>. QED
        BY <3>3 DEF Pointers, Q
    <2>6. CASE SegidOf(t.loc) # g /\ t.debit # g
      <3>1. Q(g) = P(g)
        BY <1>2, <1>3, <2>3, <2>6
      <3>. HIDE DEF P, Q
      <3>2. d.count[g].live = Cardinality(Q(g))
        BY <1>1, <2>1, <2>2, <2>6, <3>1 DEF Credited
      <3>. QED
        BY <3>2 DEF Pointers, Q
    <2>. QED
      BY <2>4, <2>5, <2>6
  <1>5. ASSUME NEW s \in Slot PROVE Hole(d.ptr[s]) \/ SegidOf(d.ptr[s]) \in DOMAIN d.count
    <2>1. CASE s = t.slot
      <3>1. t.loc # Free => SegidOf(t.loc) # Free
        BY <1>2, Constants DEF SegidOf, Hole, Location
      <3>. QED
        BY <1>1, <1>3, <2>1, <3>1 DEF Hole
    <2>2. CASE s # t.slot
      BY <1>1, <1>3, <2>2 DEF Exact
    <2>. QED
      BY <2>1, <2>2
  <1>. QED
    BY <1>4, <1>5 DEF Exact

\* Dropping the counters of segments without pointers keeps the others exact.
LEMMA DropsExact ==
    ASSUME NEW m, ImageOK(m), Exact(m), NEW t \in Txns, t.slot = Free,
           \A g \in t.drop, s \in Slot : SegidOf(m.ptr[s]) # g,
           NEW d, d.ptr = m.ptr, d.count = SegDeltas(m.count, t)
    PROVE  Exact(d)
  <1>1. t.loc = Free /\ t.debit = Free
    BY TxnFields
  <1>2. SegidOf(t.loc) = Free
    BY <1>1 DEF SegidOf, Hole
  <1>3. d.count = [g \in DOMAIN m.count \ t.drop |-> m.count[g]]
    BY <1>1, <1>2 DEF SegDeltas
  <1>4. \A g : Pointers(d, g) = Pointers(m, g)
    BY DEF Pointers
  <1>. QED
    BY <1>3, <1>4 DEF Exact

\* A buried segment has no pointer that a reader sees.
LEMMA BuriedUnseen ==
    ASSUME NEW g, Buried(g), NEW s \in Slot
    PROVE  SegidOf(mem.ptr[s]) # g /\ SegidOf(durable.ptr[s]) # g
  BY DEF Buried, Old

\* Every step keeps the live counters equal to the number of pointers.
LEMMA LiveExactStep == Types /\ Frames /\ Drops /\ LiveExact /\ [Next]_segVars => LiveExact'
  <1>. SUFFICES ASSUME Types, Frames, Drops, LiveExact, [Next]_segVars PROVE LiveExact'
    OBVIOUS
  <1>. DbTypes
    BY DEF Types
  <1>1. Exact(mem) /\ Exact(durable)
    BY DEF LiveExact, Exact
  <1>2. Exact(mem') /\ Exact(durable') => LiveExact'
    BY DEF LiveExact, Exact
  <1>3. CASE Apply
    <2>1. /\ mem'.count = SegDeltas(mem.count, queue[1])
          /\ queue # <<>> /\ durable' = durable
      BY <1>3, ApplyFacts DEF Apply
    <2>2. queue[1] \in Txns /\ 1 \in DOMAIN queue
      BY <2>1, HeadOfQueue
    <2>3. ImageOK(mem)
      BY DEF DbTypes
    <2>4. Exact(mem')
      <3>1. CASE queue[1].slot # Free
        <4>1. queue[1].debit = SegidOf(mem.ptr[queue[1].slot])
          BY <2>2, <3>1 DEF Frames
        <4>2. mem'.ptr = [mem.ptr EXCEPT ![queue[1].slot] = queue[1].loc]
          BY <1>3, <3>1, ApplyFacts
        <4>. QED
          BY <1>1, <2>1, <2>2, <2>3, <3>1, <4>1, <4>2, DeltasExact
      <3>2. CASE queue[1].slot = Free
        <4>1. \A g \in queue[1].drop, s \in Slot : SegidOf(mem.ptr[s]) # g
          BY <2>2, BuriedUnseen DEF Drops
        <4>2. mem'.ptr = mem.ptr
          BY <1>3, <3>2, ApplyFacts
        <4>. QED
          BY <1>1, <2>1, <2>2, <2>3, <3>2, <4>1, <4>2, DropsExact
      <3>. QED
        BY <3>1, <3>2
    <2>. QED
      BY <1>1, <1>2, <2>1, <2>4
  <1>4. CASE mem' \in {mem, durable} /\ durable' \in {mem, durable}
    BY <1>1, <1>2, <1>4
  <1>. QED
    BY <1>3, <1>4, DbMoves DEF dbVars, Submit, Punch, AbortBatch, FlushManifest, FlushRest, Crash

-----------------------------------------------------------------------------
(* What stays readable *)

(* A frame that was readable stays what it is.                              *)
SameFrames(d, e) == \A f \in DOMAIN d : 0 \notin d[f].data => f \in DOMAIN e /\ e[f] = d[f]
DirectoriesKept == \A g \in Segid : SameFrames(Directory(g), Directory(g)')
ReadsKept == \A loc \in Location, s \in Slot : 0 \notin Bytes[loc][s] => Bytes'[loc][s] = Bytes[loc][s]

\* Directories that only grow, or fill their reservations, keep what is readable.
LEMMA KeptFrames == DirectoriesKept => ReadsKept
  <1>. SUFFICES ASSUME DirectoriesKept, NEW loc \in Location, NEW s \in Slot, 0 \notin Bytes[loc][s]
                PROVE  Bytes'[loc][s] = Bytes[loc][s]
    BY DEF ReadsKept
  <1>. DEFINE d == Directory(loc.segid)
              e == Directory(loc.segid)'
  <1>1. Bytes[loc][s] = FrameIn(d, loc, s) /\ Bytes'[loc][s] = FrameIn(e, loc, s)
    BY DEF Bytes, ReadFrame, FrameIn
  <1>2. SameFrames(d, e)
    BY DEF DirectoriesKept, Location
  <1>. HIDE DEF d, e
  <1>3. loc.frame \in DOMAIN d /\ d[loc.frame].slot = s /\ 0 \notin d[loc.frame].data
    BY <1>1 DEF FrameIn, Unreadable
  <1>4. loc.frame \in DOMAIN e /\ e[loc.frame] = d[loc.frame]
    BY <1>2, <1>3 DEF SameFrames
  <1>. QED
    BY <1>1, <1>3, <1>4 DEF FrameIn

\* Uploading, and dropping from RAM what is uploaded, moves frames and changes none.
LEMMA PutKeepsFrames ==
    ASSUME Types, Segids, Segids', UNCHANGED <<lane, nextSegid>>,
           NEW ok \in SUBSET DOMAIN sealing, NEW lost \in SUBSET DOMAIN sealing, Put(ok, lost),
           DOMAIN sealing' \subseteq DOMAIN sealing, DOMAIN sealing \subseteq DOMAIN sealing' \cup ok,
           \A g \in DOMAIN sealing' : sealing'[g] = sealing[g]
    PROVE  DirectoriesKept
  <1>1. DirectoryFacts /\ DirectoryFacts'
    BY DirectoryLookup, DirectoryLookupNext
  <1>2. /\ DOMAIN store' = DOMAIN store \cup ok \cup lost
        /\ \A g \in DOMAIN store : store'[g] = store[g]
        /\ \A g \in (ok \cup lost) \ DOMAIN store : store'[g] = sealing[g]
    BY PutFacts DEF Types
  <1>. SUFFICES ASSUME NEW g \in Segid PROVE Directory(g)' = Directory(g) \/ Directory(g) = <<>>
    BY DEF DirectoriesKept, SameFrames
  <1>3. CASE \E l \in Lane : lane[l].segid = g
    <2>1. PICK l \in Lane : lane[l].segid = g
      BY <1>3
    <2>2. Directory(g) = lane[l].dir
      BY <1>1, <2>1 DEF DirectoryFacts
    <2>3. Directory(g)' = lane'[l].dir
      BY <1>1, <2>1 DEF DirectoryFacts
    <2>. QED
      BY <2>2, <2>3
  <1>4. CASE g \in DOMAIN store
    BY <1>1, <1>2, <1>4 DEF DirectoryFacts
  <1>5. CASE g \in DOMAIN sealing'
    BY <1>1, <1>5 DEF DirectoryFacts
  <1>6. CASE g \in ok \ DOMAIN store
    BY <1>1, <1>2, <1>6 DEF DirectoryFacts
  <1>. QED
    BY <1>1, <1>3, <1>4, <1>5, <1>6 DEF DirectoryFacts

\* Rotation moves a lane's frames to `sealing'.
LEMMA RotateKeepsFrames ==
    ASSUME Types, Segids, Segids', NEW l \in Lane, RotateLane(l), UNCHANGED store
    PROVE  DirectoriesKept
  <1>1. DirectoryFacts /\ DirectoryFacts'
    BY DirectoryLookup, DirectoryLookupNext
  <1>2. /\ \A k \in Lane : k # l => lane'[k] = lane[k]
        /\ DOMAIN sealing' = DOMAIN sealing \cup {lane[l].segid}
        /\ sealing'[lane[l].segid] = lane[l].dir
        /\ \A g \in DOMAIN sealing : g # lane[l].segid => sealing'[g] = sealing[g]
    BY RotateFacts DEF Types
  <1>. SUFFICES ASSUME NEW g \in Segid PROVE Directory(g)' = Directory(g) \/ Directory(g) = <<>>
    BY DEF DirectoriesKept, SameFrames
  <1>3. CASE g = lane[l].segid
    BY <1>1, <1>2, <1>3 DEF DirectoryFacts
  <1>4. ASSUME NEW k \in Lane, k # l, lane[k].segid = g PROVE Directory(g)' = Directory(g)
    <2>1. lane'[k].segid = g /\ lane'[k].dir = lane[k].dir
      BY <1>2, <1>4
    <2>. QED
      BY <1>1, <1>4, <2>1 DEF DirectoryFacts
  <1>5. CASE g \in DOMAIN sealing /\ g # lane[l].segid
    BY <1>1, <1>2, <1>5 DEF DirectoryFacts
  <1>6. CASE g \in DOMAIN store
    BY <1>1, <1>6 DEF DirectoryFacts
  <1>. QED
    BY <1>1, <1>3, <1>4, <1>5, <1>6 DEF DirectoryFacts

\* A step on one lane's frames that keeps the readable ones.
LEMMA LaneKeepsFrames ==
    ASSUME Types, Segids, Segids', UNCHANGED <<sealing, store>>, NEW l \in Lane,
           \A k \in Lane : lane'[k].segid = lane[k].segid,
           \A k \in Lane : k # l => lane'[k].dir = lane[k].dir,
           SameFrames(lane[l].dir, lane'[l].dir)
    PROVE  DirectoriesKept
  <1>1. DirectoryFacts /\ DirectoryFacts'
    BY DirectoryLookup, DirectoryLookupNext
  <1>. SUFFICES ASSUME NEW g \in Segid PROVE SameFrames(Directory(g), Directory(g)')
    BY DEF DirectoriesKept
  <1>2. CASE g = lane[l].segid
    <2>1. Directory(g) = lane[l].dir
      BY <1>1, <1>2 DEF DirectoryFacts
    <2>2. Directory(g)' = lane'[l].dir
      BY <1>1, <1>2 DEF DirectoryFacts
    <2>. QED
      BY <2>1, <2>2
  <1>3. CASE g # lane[l].segid
    <2>. SUFFICES Directory(g)' = Directory(g) \/ Directory(g) = <<>>
      BY DEF SameFrames
    <2>1. ASSUME NEW k \in Lane, lane[k].segid = g PROVE Directory(g)' = Directory(g)
      <3>1. Directory(g) = lane[k].dir
        BY <1>1, <2>1 DEF DirectoryFacts
      <3>2. Directory(g)' = lane'[k].dir
        BY <1>1, <2>1 DEF DirectoryFacts
      <3>. QED
        BY <1>3, <2>1, <3>1, <3>2
    <2>2. CASE g \in DOMAIN sealing \/ g \in DOMAIN store
      BY <1>1, <2>2 DEF DirectoryFacts
    <2>. QED
      BY <1>1, <2>1, <2>2 DEF DirectoryFacts
  <1>. QED
    BY <1>2, <1>3

\* No step but a crash changes what a readable location reads as.
LEMMA ReadsKeptStep ==
    Types /\ Segids /\ Segids' /\ Frames /\ Sealed /\ [Next]_segVars /\ ~Crash => ReadsKept
  <1>. SUFFICES ASSUME Types, Segids, Segids', Frames, Sealed, [Next]_segVars, ~Crash PROVE DirectoriesKept
    BY KeptFrames
  <1>. DataTypes /\ TaskTypes
    BY DEF Types
  <1>1. CASE UNCHANGED <<lane, sealing, store>>
    BY <1>1 DEF DirectoriesKept, SameFrames, Directory
  <1>2. ASSUME NEW w \in Writer, NEW s \in Slot, NEW partial \in BOOLEAN, NEW l \in Lane, Claim(w, s, partial, l)
        PROVE  DirectoriesKept
    <2>. DEFINE x == [slot |-> s, data |-> Unreadable]
    <2>1. /\ lane[l] \in [segid : Segid, dir : Seq(Frame)]
          /\ lane' = [lane EXCEPT ![l].dir = Append(lane[l].dir, x)]
          /\ UNCHANGED <<sealing, store>>
      BY <1>2 DEF Claim, DataTypes
    <2>2. /\ \A k \in Lane : lane'[k].segid = lane[k].segid
          /\ \A k \in Lane : k # l => lane'[k].dir = lane[k].dir
          /\ lane'[l].dir = Append(lane[l].dir, x)
      BY <2>1 DEF DataTypes
    <2>. HIDE DEF x
    <2>3. SameFrames(lane[l].dir, lane'[l].dir)
      <3>1. \A d \in Seq(Frame) : \A f \in DOMAIN d : f \in DOMAIN Append(d, x) /\ Append(d, x)[f] = d[f]
        OBVIOUS
      <3>. QED
        BY <2>1, <2>2, <3>1 DEF SameFrames
    <2>. QED
      BY <2>1, <2>2, <2>3, LaneKeepsFrames
  <1>3. ASSUME NEW w \in Writer, Fill(w) PROVE DirectoriesKept
    <2>. DEFINE l == writer[w].lane
                f == writer[w].loc.frame
    <2>1. l \in Lane /\ f \in DOMAIN lane[l].dir /\ lane[l].dir[f].data = Unreadable
      <3>1. writer[w].pc = "claimed" /\ writer[w].lane \in Lane
        BY <1>3, WriterLane DEF Fill
      <3>2. /\ writer[w].loc.frame \in DOMAIN lane[writer[w].lane].dir
            /\ lane[writer[w].lane].dir[writer[w].loc.frame] = [slot |-> writer[w].slot, data |-> Unreadable]
        BY <3>1, Zenon DEF Frames
      <3>. QED
        BY <3>1, <3>2
    <2>2. /\ lane[l] \in [segid : Segid, dir : Seq(Frame)]
          /\ lane' = [lane EXCEPT ![l].dir[f].data = writer[w].data]
          /\ UNCHANGED <<sealing, store>>
      BY <1>3, <2>1 DEF Fill, DataTypes
    <2>. HIDE DEF l, f
    <2>3. /\ \A k \in Lane : lane'[k].segid = lane[k].segid
          /\ \A k \in Lane : k # l => lane'[k].dir = lane[k].dir
          /\ lane'[l].dir = [lane[l].dir EXCEPT ![f].data = writer[w].data]
      BY <2>1, <2>2 DEF DataTypes
    <2>4. SameFrames(lane[l].dir, lane'[l].dir)
      BY <2>1, <2>2, <2>3 DEF SameFrames, Unreadable
    <2>. QED
      BY <2>1, <2>2, <2>3, <2>4, LaneKeepsFrames
  <1>4. ASSUME NEW w \in Writer, FailFill(w) PROVE DirectoriesKept
    BY <1>1, <1>4 DEF FailFill
  <1>5. ASSUME NEW w \in Writer, SpawnSeal(w) PROVE DirectoriesKept
    <2>1. writer[w].lane \in Lane
      BY WriterLane
    <2>. QED
      BY <1>5, <2>1, RotateKeepsFrames DEF SpawnSeal
  <1>6. ASSUME NEW ok \in SUBSET DOMAIN sealing, NEW lost \in SUBSET DOMAIN sealing, Put(ok, lost),
               UNCHANGED <<lane, nextSegid>>,
               sealing' = Keep(sealing, DOMAIN sealing \ ok) \/ sealing' = sealing
        PROVE  DirectoriesKept
    <2>1. /\ DOMAIN sealing' \subseteq DOMAIN sealing
          /\ DOMAIN sealing \subseteq DOMAIN sealing' \cup ok
          /\ \A g \in DOMAIN sealing' : sealing'[g] = sealing[g]
      BY <1>6 DEF Keep
    <2>. QED
      BY <1>6, <2>1, PutKeepsFrames
  <1>7. ASSUME NEW g \in uploads, BackgroundPut(g) PROVE DirectoriesKept
    <2>1. CASE g \in DOMAIN sealing
      <3>1. {g} \in SUBSET DOMAIN sealing /\ {} \in SUBSET DOMAIN sealing /\ UNCHANGED <<lane, nextSegid>>
        BY <1>7, <2>1 DEF BackgroundPut
      <3>. QED
        BY <1>6, <1>7, <2>1, <3>1 DEF BackgroundPut
    <2>2. CASE g \notin DOMAIN sealing
      <3>1. store' = store /\ sealing' = Keep(sealing, DOMAIN sealing \ {g}) /\ lane' = lane
        BY <1>7, <2>2 DEF BackgroundPut
      <3>2. DOMAIN sealing' = DOMAIN sealing /\ \A h \in DOMAIN sealing : sealing'[h] = sealing[h]
        BY <2>2, <3>1 DEF Keep
      <3>3. \A h : Directory(h)' = Directory(h)
        BY <3>1, <3>2 DEF Directory
      <3>. QED
        BY <3>3 DEF DirectoriesKept, SameFrames
    <2>. QED
      BY <2>1, <2>2
  <1>8. CASE PublishPending
    <2>1. PICK failed \in SUBSET DOMAIN sealing, lost \in SUBSET DOMAIN sealing :
             Put(DOMAIN sealing \ failed, lost) /\ sealing' = Keep(sealing, failed)
      BY <1>8 DEF PublishPending
    <2>2. DOMAIN sealing \ (DOMAIN sealing \ failed) = failed /\ UNCHANGED <<lane, nextSegid>>
      BY <1>8 DEF PublishPending
    <2>. QED
      BY <1>6, <2>1, <2>2
  <1>9. CASE TakeGate \/ ReleaseGates \/ SealEnd
    BY <1>1, <1>9 DEF TakeGate, ReleaseGates, SealEnd
  <1>10. CASE SealRotate
    BY <1>10, DirtyMinimum, RotateKeepsFrames DEF SealRotate
  <1>11. ASSUME NEW g \in seal.ups, SealPut(g) PROVE DirectoriesKept
    <2>1. {g} \in SUBSET DOMAIN sealing /\ {} \in SUBSET DOMAIN sealing /\ UNCHANGED <<lane, nextSegid>>
      BY <1>11 DEF SealPut, Sealed
    <2>. QED
      BY <1>6, <1>11, <2>1 DEF SealPut
  <1>. QED
    BY <1>1, <1>2, <1>3, <1>4, <1>5, <1>7, <1>8, <1>9, <1>10, <1>11, DataMoves DEF dataVars, SealOpen

-----------------------------------------------------------------------------
(* Frames *)

\* What a reader sees is readable.
LEMMA ContentsReadable ==
    Types /\ Frames => \A s \in Slot : /\ 0 \notin Contents[s]
                                       /\ Contents[s] = IF mem.ptr[s] = Free THEN {} ELSE Bytes[mem.ptr[s]][s]
  <1>. SUFFICES ASSUME Types, Frames, NEW s \in Slot
                PROVE  0 \notin Contents[s] /\ Contents[s] = IF mem.ptr[s] = Free THEN {} ELSE Bytes[mem.ptr[s]][s]
    OBVIOUS
  <1>1. mem.ptr[s] \in Location \cup {Free}
    BY DEF Types, DbTypes, ImageOK
  <1>2. Contents[s] = IF mem.ptr[s] = Free THEN {} ELSE Bytes[mem.ptr[s]][s]
    BY <1>1 DEF Contents, Bytes, Hole
  <1>. QED
    BY <1>2 DEF Frames

\* What a reader sees after the step.
LEMMA ContentsNext ==
    ASSUME Types'
    PROVE  \A s \in Slot : Contents'[s] = IF mem'.ptr[s] = Free THEN {} ELSE Bytes'[mem'.ptr[s]][s]
  <1>. SUFFICES ASSUME NEW s \in Slot PROVE Contents'[s] = IF mem'.ptr[s] = Free THEN {} ELSE Bytes'[mem'.ptr[s]][s]
    OBVIOUS
  <1>1. mem'.ptr[s] \in Location \cup {Free}
    BY DEF Types, DbTypes, ImageOK
  <1>. QED
    BY <1>1 DEF Contents, Bytes, Hole

\* Readers see the same as long as their pointers are the same.
LEMMA ContentsKept ==
    ASSUME Types, Types', Frames, ReadsKept, mem'.ptr = mem.ptr
    PROVE  /\ Contents' = Contents
           /\ \A s \in Slot : mem'.ptr[s] # Free => 0 \notin Bytes'[mem'.ptr[s]][s]
  <1>1. \A s \in Slot : mem.ptr[s] \in Location \cup {Free}
    BY DEF Types, DbTypes, ImageOK
  <1>2. \A s \in Slot : mem.ptr[s] # Free =>
           0 \notin Bytes[mem.ptr[s]][s] /\ Bytes'[mem.ptr[s]][s] = Bytes[mem.ptr[s]][s]
    BY <1>1 DEF Frames, ReadsKept
  <1>3. \A s \in Slot : Contents'[s] = Contents[s]
    BY <1>2, ContentsReadable, ContentsNext
  <1>4. Contents = [s \in Slot |-> Contents[s]] /\ Contents' = [s \in Slot |-> Contents'[s]]
    BY DEF Contents
  <1>. QED
    BY <1>2, <1>3, <1>4, Zenon

\* What a write holds, under its lock or in the queue, is readable.
LEMMA WritesReadable ==
    ASSUME Types, Locks, Ids, Frames
    PROVE  /\ \A i \in DOMAIN queue : queue[i].loc # Free =>
                 queue[i].loc \in Location /\ queue[i].slot \in Slot /\ 0 \notin Bytes[queue[i].loc][queue[i].slot]
           /\ \A w \in Writer : Active(w) => 0 \notin writer[w].data
           /\ \A w \in Writer : writer[w].pc = "filled" => 0 \notin Bytes[writer[w].loc][writer[w].slot]
  <1>1. ASSUME NEW i \in DOMAIN queue, queue[i].loc # Free
        PROVE  queue[i].loc \in Location /\ queue[i].slot \in Slot /\ 0 \notin Bytes[queue[i].loc][queue[i].slot]
    <2>1. queue[i] \in Txns
      BY DEF Types, DbTypes
    <2>2. queue[i].slot \in Slot /\ queue[i].slot # Free /\ queue[i].loc \in Location
      BY <1>1, <2>1, Constants, TxnFields
    <2>3. 0 \notin Contents[queue[i].slot]
      BY <2>2, ContentsReadable
    <2>4. Writes(Bytes[queue[i].loc][queue[i].slot], queue[i].id, Contents[queue[i].slot])
      BY <1>1, <2>2 DEF Frames
    <2>. QED
      BY <2>2, <2>3, <2>4 DEF Writes
  <1>2. ASSUME NEW w \in Writer, Active(w) PROVE 0 \notin writer[w].data
    <2>1. writer[w].slot \in Slot /\ writer[w].id \in 1..clock.writes /\ clock.writes \in Nat
      BY <1>2 DEF Locks, Ids, Types, TaskTypes
    <2>2. 0 \notin Contents[writer[w].slot]
      BY <2>1, ContentsReadable
    <2>3. Writes(writer[w].data, writer[w].id, Contents[writer[w].slot])
      BY <1>2 DEF Frames
    <2>. QED
      BY <2>1, <2>2, <2>3 DEF Writes
  <1>. QED
    BY <1>1, <1>2 DEF Frames, Active

(* The four parts of Frames.                                                *)
PointersRead == \A s \in Slot : mem.ptr[s] # Free => 0 \notin Bytes[mem.ptr[s]][s]
QueueReads == \A i \in DOMAIN queue : queue[i].slot # Free =>
    /\ queue[i].debit = SegidOf(mem.ptr[queue[i].slot])
    /\ queue[i].loc # Free =>
          Writes(Bytes[queue[i].loc][queue[i].slot], queue[i].id, Contents[queue[i].slot])
ClaimReads(w) ==
    /\ Active(w) => /\ writer[w].loc \in Location
                    /\ writer[w].old = mem.ptr[writer[w].slot]
                    /\ Writes(writer[w].data, writer[w].id, Contents[writer[w].slot])
    /\ writer[w].pc = "filled" => Bytes[writer[w].loc][writer[w].slot] = writer[w].data
    /\ writer[w].pc = "claimed" =>
          /\ writer[w].loc.segid = lane[writer[w].lane].segid
          /\ writer[w].loc.frame \in DOMAIN lane[writer[w].lane].dir
          /\ lane[writer[w].lane].dir[writer[w].loc.frame] = [slot |-> writer[w].slot, data |-> Unreadable]

\* Frames, by who holds the location: readers, the queue, the writers.
LEMMA FramesParts == Frames <=> PointersRead /\ QueueReads /\ \A w \in Writer : ClaimReads(w)
  BY DEF Frames, PointersRead, QueueReads, ClaimReads

\* The same of the next state.
LEMMA FramesPartsNext == Frames' <=> PointersRead' /\ QueueReads' /\ \A w \in Writer : ClaimReads(w)'
  BY DEF Frames, PointersRead, QueueReads, ClaimReads

\* With the database and the queue as they are, what is queued reads as before.
LEMMA QueueReadsKept ==
    ASSUME Types, Types', Locks, Ids, Frames, ReadsKept, mem'.ptr = mem.ptr, queue' = queue
    PROVE  QueueReads'
  <1>. SUFFICES ASSUME NEW i \in DOMAIN queue, queue[i].slot # Free
                PROVE  /\ queue[i].debit = SegidOf(mem'.ptr[queue[i].slot])
                       /\ queue[i].loc # Free =>
                             Writes(Bytes'[queue[i].loc][queue[i].slot], queue[i].id, Contents'[queue[i].slot])
    BY DEF QueueReads
  <1>1. queue[i] \in Txns
    BY DEF Types, DbTypes
  <1>2. queue[i].slot \in Slot
    BY <1>1, TxnFields
  <1>3. Contents' = Contents
    BY ContentsKept
  <1>4. queue[i].loc # Free => Bytes'[queue[i].loc][queue[i].slot] = Bytes[queue[i].loc][queue[i].slot]
    BY <1>2, WritesReadable DEF ReadsKept
  <1>. QED
    BY <1>3, <1>4 DEF Frames

\* A writer that does nothing keeps what it holds, if its claim's frame stays.
LEMMA ClaimReadsKept ==
    ASSUME Types, Types', Locks, Ids, Frames, ReadsKept, NEW w \in Writer, writer'[w] = writer[w],
           Active(w) => /\ mem'.ptr[writer[w].slot] = mem.ptr[writer[w].slot]
                        /\ Contents'[writer[w].slot] = Contents[writer[w].slot],
           writer[w].pc = "claimed" =>
              /\ lane'[writer[w].lane].segid = lane[writer[w].lane].segid
              /\ writer[w].loc.frame \in DOMAIN lane'[writer[w].lane].dir
              /\ lane'[writer[w].lane].dir[writer[w].loc.frame] = lane[writer[w].lane].dir[writer[w].loc.frame]
    PROVE  ClaimReads(w)'
  <1>1. ClaimReads(w)
    BY FramesParts
  <1>2. writer[w].pc = "filled" => Bytes'[writer[w].loc][writer[w].slot] = Bytes[writer[w].loc][writer[w].slot]
    BY WritesReadable DEF ReadsKept, Frames, Locks, Active
  <1>3. Active(w)' <=> Active(w)
    BY DEF Active
  <1>. QED
    BY <1>1, <1>2, <1>3 DEF ClaimReads, Active

\* After a step, a location in an open segment reads from the lane, one of an object from the store.
LEMMA LaneBytesNext ==
    ASSUME DirectoryFacts', NEW k \in Lane, NEW loc \in Location, NEW s \in Slot, loc.segid = lane'[k].segid
    PROVE  Bytes'[loc][s] = FrameIn(lane'[k].dir, loc, s)
  <1>1. Directory(loc.segid)' = lane'[k].dir
    BY DEF DirectoryFacts
  <1>. QED
    BY <1>1 DEF Bytes, ReadFrame, FrameIn

\* A location in an uploaded object reads as the object's frame.
LEMMA StoreBytesNext ==
    ASSUME DirectoryFacts', NEW loc \in Location, NEW s \in Slot, loc.segid \in DOMAIN store'
    PROVE  Bytes'[loc][s] = FrameIn(store'[loc.segid], loc, s)
  <1>1. Directory(loc.segid)' = store'[loc.segid]
    BY DEF DirectoryFacts
  <1>. QED
    BY <1>1 DEF Bytes, ReadFrame, FrameIn

\* Every step keeps each held location reading as the bytes that were put there.
LEMMA FramesStep ==
    Types /\ Types' /\ Segids /\ Segids' /\ Locks /\ Ids /\ Frames /\ Sealed /\ Durable /\ [Next]_segVars => Frames'
  <1>. SUFFICES ASSUME Types, Types', Segids, Segids', Locks, Ids, Frames, Sealed, Durable, [Next]_segVars
                PROVE  Frames'
    OBVIOUS
  <1>. DataTypes /\ DbTypes /\ TaskTypes
    BY DEF Types
  <1>0. ~Crash => ReadsKept
    BY ReadsKeptStep
  <1>1. ASSUME ~Crash, mem'.ptr = mem.ptr PROVE PointersRead' /\ Contents' = Contents
    BY <1>0, <1>1, ContentsKept DEF PointersRead
  <1>2. ASSUME ~Crash, UNCHANGED <<mem, queue>>, \A w \in Writer : ClaimReads(w)' PROVE Frames'
    BY <1>0, <1>1, <1>2, QueueReadsKept, FramesPartsNext
  <1>3. ASSUME NEW w \in Writer, writer'[w].pc \notin {"claimed", "filled"} PROVE ClaimReads(w)'
    BY <1>3 DEF ClaimReads, Active
  <1>4. CASE ~Crash /\ UNCHANGED <<mem, queue, writer, lane>>
    <2>1. \A w \in Writer : ClaimReads(w)'
      BY <1>0, <1>1, <1>4, ClaimReadsKept DEF Frames
    <2>. QED
      BY <1>2, <1>4, <2>1
  <1>5. ASSUME ~Crash, NEW w \in Writer, NEW s \in Slot, NEW partial \in BOOLEAN, NEW l \in Lane, Claim(w, s, partial, l)
        PROVE  Frames'
    <2>. DEFINE x == [slot |-> s, data |-> Unreadable]
                n == clock.writes + 1
                loc == [segid |-> lane[l].segid, frame |-> Len(lane[l].dir) + 1]
                data == {n} \cup (IF partial THEN Contents[s] ELSE {})
    <2>1. /\ UNCHANGED <<mem, queue>>
          /\ lane' = [lane EXCEPT ![l].dir = Append(lane[l].dir, x)]
          /\ \A v \in Writer : v # w => writer'[v] = writer[v]
          /\ writer'[w].pc = "claimed" /\ writer'[w].id = n /\ writer'[w].slot = s
          /\ writer'[w].lane = l /\ writer'[w].loc = loc /\ writer'[w].old = mem.ptr[s]
          /\ writer'[w].data = data
      BY <1>5 DEF Claim, dbVars, TaskTypes
    <2>2. lane[l].segid \in Segid /\ lane[l].dir \in Seq(Frame)
      BY DEF DataTypes
    <2>3. /\ \A k \in Lane : lane'[k].segid = lane[k].segid
          /\ \A k \in Lane : k # l => lane'[k].dir = lane[k].dir
          /\ lane'[l].dir = Append(lane[l].dir, x)
      BY <2>1 DEF DataTypes
    <2>4. Contents' = Contents
      BY <1>1, <1>5, <2>1
    <2>5. Writes(data, n, Contents[s])
      <3>1. n # 0
        BY DEF TaskTypes
      <3>. QED
        BY <3>1 DEF Writes
    <2>6. loc \in Location
      BY <2>2 DEF Location
    <2>. HIDE DEF x, data, n
    <2>7. /\ DOMAIN Append(lane[l].dir, x) = DOMAIN lane[l].dir \cup {Len(lane[l].dir) + 1}
          /\ Append(lane[l].dir, x)[Len(lane[l].dir) + 1] = x
          /\ \A f \in DOMAIN lane[l].dir : Append(lane[l].dir, x)[f] = lane[l].dir[f]
      BY <2>2
    <2>8. ClaimReads(w)'
      <3>1. loc.segid = lane[l].segid /\ loc.frame = Len(lane[l].dir) + 1
        OBVIOUS
      <3>. HIDE DEF loc
      <3>. QED
        BY <2>1, <2>3, <2>4, <2>5, <2>6, <2>7, <3>1 DEF ClaimReads, x
    <2>9. ASSUME NEW v \in Writer, v # w PROVE ClaimReads(v)'
      <3>1. writer[v].lane \in Lane
        BY WriterLane
      <3>2. writer[v].pc = "claimed" =>
              /\ lane'[writer[v].lane].segid = lane[writer[v].lane].segid
              /\ writer[v].loc.frame \in DOMAIN lane'[writer[v].lane].dir
              /\ lane'[writer[v].lane].dir[writer[v].loc.frame] = lane[writer[v].lane].dir[writer[v].loc.frame]
        <4>. SUFFICES ASSUME writer[v].pc = "claimed"
                      PROVE  /\ lane'[writer[v].lane].segid = lane[writer[v].lane].segid
                             /\ writer[v].loc.frame \in DOMAIN lane'[writer[v].lane].dir
                             /\ lane'[writer[v].lane].dir[writer[v].loc.frame]
                                   = lane[writer[v].lane].dir[writer[v].loc.frame]
          OBVIOUS
        <4>1. writer[v].loc.frame \in DOMAIN lane[writer[v].lane].dir
          BY DEF Frames
        <4>2. CASE writer[v].lane = l
          BY <2>3, <2>7, <4>1, <4>2
        <4>3. CASE writer[v].lane # l
          BY <2>3, <3>1, <4>1, <4>3
        <4>. QED
          BY <4>2, <4>3
      <3>. QED
        BY <1>0, <1>5, <2>1, <2>4, <2>9, <3>2, ClaimReadsKept
    <2>. QED
      BY <1>2, <1>5, <2>1, <2>8, <2>9
  <1>6. ASSUME ~Crash, NEW w \in Writer, Fill(w) PROVE Frames'
    <2>. DEFINE l == writer[w].lane
                f == writer[w].loc.frame
                s == writer[w].slot
    <2>1. /\ writer[w].pc = "claimed" /\ Active(w) /\ l \in Lane /\ s \in Slot
          /\ writer[w].loc \in Location /\ writer[w].loc.segid = lane[l].segid
          /\ f \in DOMAIN lane[l].dir /\ lane[l].dir[f] = [slot |-> s, data |-> Unreadable]
          /\ lane[l].dir \in Seq(Frame)
      <3>1. writer[w].pc = "claimed" /\ Active(w) /\ l \in Lane
        BY <1>6 DEF Fill, Active, TaskTypes, Writers
      <3>. QED
        BY <3>1 DEF Frames, Locks, DataTypes
    <2>2. /\ lane' = [lane EXCEPT ![l].dir[f].data = writer[w].data]
          /\ writer'[w].pc = "filled" /\ writer'[w].slot = s /\ writer'[w].data = writer[w].data
          /\ writer'[w].loc = writer[w].loc /\ writer'[w].old = writer[w].old /\ writer'[w].id = writer[w].id
          /\ \A v \in Writer : v # w => writer'[v] = writer[v]
          /\ UNCHANGED <<mem, queue>>
      BY <1>6, <2>1 DEF Fill, TaskTypes, Writers, dbVars
    <2>3. /\ \A k \in Lane : lane'[k].segid = lane[k].segid
          /\ \A k \in Lane : k # l => lane'[k].dir = lane[k].dir
          /\ lane'[l].dir = [lane[l].dir EXCEPT ![f].data = writer[w].data]
      BY <2>1, <2>2 DEF DataTypes
    <2>4. /\ DOMAIN lane'[l].dir = DOMAIN lane[l].dir
          /\ lane'[l].dir[f] = [slot |-> s, data |-> writer[w].data]
          /\ \A k \in DOMAIN lane[l].dir : k # f => lane'[l].dir[k] = lane[l].dir[k]
      <3>1. [lane[l].dir[f] EXCEPT !.data = writer[w].data] = [slot |-> s, data |-> writer[w].data]
        BY <2>1
      <3>. QED
        BY <2>1, <2>3, <3>1
    <2>5. Contents' = Contents
      BY <1>1, <1>6, <2>2
    <2>6. Bytes'[writer[w].loc][s] = writer[w].data
      <3>1. PICK loc \in Location : loc = writer[w].loc
        BY <2>1
      <3>2. loc.segid = lane'[l].segid
        BY <2>1, <2>3, <3>1
      <3>3. Bytes'[loc][s] = FrameIn(lane'[l].dir, loc, s)
        BY <2>1, <3>2, LaneBytesNext, DirectoryLookupNext
      <3>. HIDE DEF l, f, s
      <3>4. FrameIn(lane'[l].dir, loc, s) = writer[w].data
        BY <2>1, <2>4, <3>1, SMTT(30) DEF FrameIn, f
      <3>. QED
        BY <3>1, <3>3, <3>4
    <2>7. ClaimReads(w)'
      BY <2>1, <2>2, <2>5, <2>6, SMTT(30) DEF ClaimReads, Frames
    <2>8. ASSUME NEW v \in Writer, v # w PROVE ClaimReads(v)'
      <3>1. writer[v].lane \in Lane
        BY WriterLane
      <3>2. writer[v].pc = "claimed" =>
              /\ lane'[writer[v].lane].segid = lane[writer[v].lane].segid
              /\ writer[v].loc.frame \in DOMAIN lane'[writer[v].lane].dir
              /\ lane'[writer[v].lane].dir[writer[v].loc.frame] = lane[writer[v].lane].dir[writer[v].loc.frame]
        <4>. SUFFICES ASSUME writer[v].pc = "claimed", writer[v].lane = l
                      PROVE  writer[v].loc.frame \in DOMAIN lane[l].dir /\ writer[v].loc.frame # f
          BY <2>3, <2>4, <3>1 DEF Frames
        <4>1. writer[v].slot # s
          BY <2>1, <2>8 DEF Locks, Active
        <4>2. /\ writer[v].loc.frame \in DOMAIN lane[l].dir
              /\ lane[l].dir[writer[v].loc.frame] = [slot |-> writer[v].slot, data |-> Unreadable]
          BY DEF Frames
        <4>3. lane[l].dir[writer[v].loc.frame].slot = writer[v].slot /\ lane[l].dir[f].slot = s
          BY <2>1, <4>2
        <4>. QED
          BY <4>1, <4>2, <4>3, SMTT(30)
      <3>. QED
        BY <1>0, <1>6, <2>2, <2>5, <2>8, <3>2, ClaimReadsKept
    <2>. QED
      BY <1>2, <1>6, <2>2, <2>7, <2>8
  <1>7. ASSUME ~Crash, NEW w \in Writer, FailFill(w) PROVE Frames'
    <2>1. /\ UNCHANGED <<mem, queue, lane>> /\ writer'[w].pc = "idle"
          /\ \A v \in Writer : v # w => writer'[v] = writer[v]
      BY <1>7 DEF FailFill, dbVars, TaskTypes, Idle
    <2>2. ASSUME NEW v \in Writer PROVE ClaimReads(v)'
      <3>1. CASE v = w
        BY <1>3, <2>1, <3>1
      <3>2. CASE v # w
        BY <1>0, <1>1, <1>7, <2>1, <3>2, ClaimReadsKept DEF Frames
      <3>. QED
        BY <3>1, <3>2
    <2>. QED
      BY <1>2, <1>7, <2>1, <2>2
  <1>8. ASSUME ~Crash, UNCHANGED <<mem, queue>>, NEW l \in Lane, RotateLane(l), Frozen(l), NEW v \in Writer,
               writer'[v] = writer[v]
        PROVE  ClaimReads(v)'
    <2>1. \A k \in Lane : k # l => lane'[k] = lane[k]
      BY <1>8, RotateFacts
    <2>2. writer[v].pc = "claimed" => writer[v].lane \in Lane /\ writer[v].lane # l
      BY <1>8 DEF Frozen, TaskTypes, Writers
    <2>. QED
      BY <1>0, <1>1, <1>8, <2>1, <2>2, ClaimReadsKept DEF Frames
  <1>9. ASSUME ~Crash, NEW w \in Writer, SpawnSeal(w) PROVE Frames'
    <2>. DEFINE l == writer[w].lane
    <2>1. /\ UNCHANGED <<mem, queue>> /\ l \in Lane /\ RotateLane(l) /\ Frozen(l) /\ writer[w].pc = "filled"
          /\ writer' = [writer EXCEPT ![w].rotate = FALSE]
      BY <1>9 DEF SpawnSeal, dbVars, TaskTypes, Writers
    <2>2. \A v \in Writer : v # w => writer'[v] = writer[v]
      BY <2>1 DEF TaskTypes
    <2>3. /\ writer'[w].pc = "filled" /\ writer'[w].slot = writer[w].slot /\ writer'[w].data = writer[w].data
          /\ writer'[w].loc = writer[w].loc /\ writer'[w].old = writer[w].old /\ writer'[w].id = writer[w].id
      BY <2>1 DEF TaskTypes, Writers
    <2>4. /\ writer[w].loc \in Location /\ writer[w].slot \in Slot
          /\ 0 \notin Bytes[writer[w].loc][writer[w].slot]
      BY <2>1, WritesReadable DEF Frames, Locks, Active
    <2>5. Bytes'[writer[w].loc][writer[w].slot] = Bytes[writer[w].loc][writer[w].slot]
      BY <1>0, <1>9, <2>4 DEF ReadsKept
    <2>6. ClaimReads(w)'
      BY <1>1, <1>9, <2>1, <2>3, <2>5 DEF ClaimReads, Frames, Active
    <2>. QED
      BY <1>2, <1>8, <1>9, <2>1, <2>2, <2>6
  <1>10. CASE ~Crash /\ SealRotate
    <2>1. UNCHANGED <<mem, queue, writer>> /\ NextDirty \in Lane /\ RotateLane(NextDirty) /\ Frozen(NextDirty)
      BY <1>10, DirtyMinimum DEF SealRotate, SealRest, dbVars
    <2>. QED
      BY <1>2, <1>8, <1>10, <2>1
  <1>11. ASSUME ~Crash, UNCHANGED <<mem, lane>>, NEW w \in Writer, writer'[w].pc = "queued",
                \A v \in Writer : v # w => writer'[v] = writer[v],
                NEW t \in Txns, queue' = Append(queue, t), t.debit = SegidOf(mem.ptr[t.slot]),
                t.loc # Free => Writes(Bytes'[t.loc][t.slot], t.id, Contents[t.slot])
         PROVE  Frames'
    <2>1. /\ DOMAIN queue' = DOMAIN queue \cup {Len(queue) + 1}
          /\ queue'[Len(queue) + 1] = t
          /\ \A i \in DOMAIN queue : queue'[i] = queue[i]
      BY <1>11, QueueGrows
    <2>2. Contents' = Contents /\ PointersRead'
      BY <1>1, <1>11
    <2>3. ASSUME NEW i \in DOMAIN queue, queue[i].slot # Free
          PROVE  /\ queue[i].debit = SegidOf(mem'.ptr[queue[i].slot])
                 /\ queue[i].loc # Free =>
                       Writes(Bytes'[queue[i].loc][queue[i].slot], queue[i].id, Contents'[queue[i].slot])
      <3>1. queue[i] \in Txns
        BY DEF DbTypes
      <3>2. queue[i].slot \in Slot
        BY <2>3, <3>1, TxnFields
      <3>3. queue[i].loc # Free => Bytes'[queue[i].loc][queue[i].slot] = Bytes[queue[i].loc][queue[i].slot]
        BY <1>0, <1>11, <3>2, WritesReadable DEF ReadsKept
      <3>. QED
        BY <1>11, <2>2, <2>3, <3>3 DEF Frames
    <2>4. QueueReads'
      BY <1>11, <2>1, <2>2, <2>3 DEF QueueReads
    <2>5. ASSUME NEW v \in Writer PROVE ClaimReads(v)'
      <3>1. CASE v = w
        BY <1>3, <1>11, <3>1
      <3>2. CASE v # w
        BY <1>0, <1>11, <2>2, <3>2, ClaimReadsKept DEF Frames
      <3>. QED
        BY <3>1, <3>2
    <2>. QED
      BY <2>2, <2>4, <2>5, FramesPartsNext
  <1>12. ASSUME ~Crash, NEW w \in Writer, Submit(w) PROVE Frames'
    <2>. DEFINE t == Txn(w, writer[w].id, writer[w].slot, writer[w].loc, writer[w].old, TRUE)
    <2>1. /\ UNCHANGED <<mem, lane>> /\ writer'[w].pc = "queued"
          /\ \A v \in Writer : v # w => writer'[v] = writer[v]
          /\ t \in Txns /\ queue' = Append(queue, t) /\ writer[w].pc = "filled"
      BY <1>12, SubmitFacts DEF Submit, dataVars, TaskTypes, Idle
    <2>2. /\ t.slot = writer[w].slot /\ t.loc = writer[w].loc /\ t.id = writer[w].id
          /\ t.debit = SegidOf(writer[w].old)
      BY DEF Txn
    <2>. HIDE DEF t
    <2>3. /\ writer[w].loc \in Location /\ writer[w].slot \in Slot
          /\ 0 \notin Bytes[writer[w].loc][writer[w].slot]
          /\ writer[w].old = mem.ptr[writer[w].slot]
          /\ Bytes[writer[w].loc][writer[w].slot] = writer[w].data
          /\ Writes(writer[w].data, writer[w].id, Contents[writer[w].slot])
      BY <2>1, WritesReadable DEF Frames, Locks, Active
    <2>4. Bytes'[t.loc][t.slot] = writer[w].data
      BY <1>0, <1>12, <2>2, <2>3 DEF ReadsKept
    <2>. QED
      BY <1>11, <1>12, <2>1, <2>2, <2>3, <2>4
  <1>13. ASSUME ~Crash, NEW w \in Writer, NEW s \in Slot, Punch(w, s) PROVE Frames'
    <2>. DEFINE t == Txn(w, clock.writes + 1, s, Free, mem.ptr[s], FALSE)
    <2>1. /\ UNCHANGED <<mem, lane>> /\ writer'[w].pc = "queued"
          /\ \A v \in Writer : v # w => writer'[v] = writer[v]
          /\ t \in Txns /\ queue' = Append(queue, t)
      BY <1>13, PunchFacts DEF Punch, dataVars, TaskTypes, Idle
    <2>2. t.slot = s /\ t.loc = Free /\ t.debit = SegidOf(mem.ptr[s])
      BY DEF Txn
    <2>. HIDE DEF t
    <2>. QED
      BY <1>11, <1>13, <2>1, <2>2
  <1>14. ASSUME ~Crash, Apply \/ AbortBatch PROVE Frames'
    <2>. DEFINE t == queue[1]
    <2>1. queue # <<>> /\ queue' = Tail(queue) /\ Reply(Head(queue)) /\ lane' = lane
      BY <1>14 DEF Apply, AbortBatch, dataVars
    <2>2. /\ t.owner \in Writer => ~Active(t.owner)
          /\ \A w \in Writer : w # t.owner => writer'[w] = writer[w]
          /\ \A w \in Writer : Active(w)' <=> Active(w)
          /\ \A i \in DOMAIN queue' : i + 1 \in DOMAIN queue /\ i + 1 # 1 /\ queue'[i] = queue[i + 1]
      BY <2>1, ReplyFacts
    <2>3. 1 \in DOMAIN queue /\ t \in Txns
      BY <2>1, HeadOfQueue
    <2>4. t.loc # Free => t.loc \in Location /\ 0 \notin Bytes[t.loc][t.slot]
      BY <2>3, WritesReadable
    <2>5. mem'.ptr = mem.ptr \/ mem'.ptr = [mem.ptr EXCEPT ![t.slot] = t.loc]
      BY <1>14, ApplyFacts DEF AbortBatch
    <2>. HIDE DEF t
    <2>6. mem.ptr \in [Slot -> Location \cup {Free}]
      BY DEF DbTypes, ImageOK
    <2>7. \A s \in Slot : s # t.slot => mem'.ptr[s] = mem.ptr[s]
      BY <2>5, <2>6
    <2>8. \A s \in Slot : s # t.slot => Contents'[s] = Contents[s]
      <3>1. \A s \in Slot : mem.ptr[s] # Free => Bytes'[mem.ptr[s]][s] = Bytes[mem.ptr[s]][s]
        BY <1>0, <1>14, <2>6 DEF ReadsKept, Frames
      <3>. QED
        BY <2>7, <3>1, ContentsReadable, ContentsNext
    <2>9. PointersRead'
      <3>. SUFFICES ASSUME NEW s \in Slot, mem'.ptr[s] # Free PROVE 0 \notin Bytes'[mem'.ptr[s]][s]
        BY DEF PointersRead
      <3>1. \/ mem'.ptr[s] = mem.ptr[s]
            \/ s = t.slot /\ mem'.ptr[s] = t.loc
        BY <2>5, <2>6
      <3>2. mem'.ptr[s] \in Location /\ 0 \notin Bytes[mem'.ptr[s]][s]
        BY <2>4, <2>6, <3>1 DEF Frames
      <3>. QED
        BY <1>0, <1>14, <3>2 DEF ReadsKept
    <2>10. QueueReads'
      <3>. SUFFICES ASSUME NEW i \in DOMAIN queue', queue'[i].slot # Free
                    PROVE  /\ queue'[i].debit = SegidOf(mem'.ptr[queue'[i].slot])
                           /\ queue'[i].loc # Free =>
                                 Writes(Bytes'[queue'[i].loc][queue'[i].slot], queue'[i].id, Contents'[queue'[i].slot])
        BY DEF QueueReads
      <3>1. PICK j \in DOMAIN queue : j # 1 /\ queue'[i] = queue[j]
        BY <2>2
      <3>2. queue[j] \in Txns
        BY DEF DbTypes
      <3>3. queue[j].slot \in Slot /\ queue[j].slot # Free /\ queue[j].slot # t.slot
        BY <2>3, <3>1, <3>2, TxnFields DEF Locks, t
      <3>4. queue[j].loc # Free => Bytes'[queue[j].loc][queue[j].slot] = Bytes[queue[j].loc][queue[j].slot]
        BY <1>0, <1>14, <3>3, WritesReadable DEF ReadsKept
      <3>. QED
        BY <2>7, <2>8, <3>1, <3>3, <3>4 DEF Frames
    <2>11. ASSUME NEW v \in Writer PROVE ClaimReads(v)'
      <3>1. CASE Active(v)
        <4>1. writer'[v] = writer[v] /\ writer[v].slot \in Slot /\ writer[v].slot # t.slot
          BY <2>2, <2>3, <3>1 DEF Locks, t
        <4>. QED
          BY <1>0, <1>14, <2>1, <2>7, <2>8, <4>1, ClaimReadsKept DEF Frames
      <3>2. CASE ~Active(v)
        BY <1>3, <2>2, <3>2 DEF Active
      <3>. QED
        BY <3>1, <3>2
    <2>. QED
      BY <2>9, <2>10, <2>11, FramesPartsNext
  <1>15. CASE Crash
    <2>1. /\ mem' = durable /\ queue' = <<>> /\ \A w \in Writer : writer'[w].pc = "idle"
          /\ \A g \in DOMAIN store : g \in DOMAIN store' /\ store'[g] = store[g]
      BY <1>15, LostPutFacts DEF Crash, Idle
    <2>2. \A w \in Writer : ClaimReads(w)'
      BY <1>3, <2>1
    <2>3. QueueReads'
      BY <2>1 DEF QueueReads
    <2>4. PointersRead'
      <3>. SUFFICES ASSUME NEW s \in Slot, durable.ptr[s] # Free PROVE 0 \notin Bytes'[durable.ptr[s]][s]
        BY <2>1 DEF PointersRead
      <3>1. durable.ptr[s] \in Location
        BY DEF DbTypes, ImageOK
      <3>2. PICK loc \in Location : loc = durable.ptr[s]
        BY <3>1
      <3>3. loc.segid \in DOMAIN store /\ 0 \notin FrameIn(store[loc.segid], loc, s)
        BY <3>2 DEF Durable, StoredContents, Hole, Unreadable
      <3>4. Bytes'[loc][s] = FrameIn(store'[loc.segid], loc, s)
        BY <2>1, <3>3, StoreBytesNext, DirectoryLookupNext
      <3>. QED
        BY <2>1, <3>2, <3>3, <3>4
    <2>. QED
      BY <2>2, <2>3, <2>4, FramesPartsNext
  <1>16. ASSUME NEW g \in uploads, BackgroundPut(g) PROVE UNCHANGED <<mem, queue, writer, lane>>
    BY <1>16 DEF BackgroundPut, dbVars
  <1>17. PublishPending \/ TakeGate \/ ReleaseGates \/ SealEnd \/ (\E g \in seal.ups : SealPut(g))
            => UNCHANGED <<mem, queue, writer, lane>>
    BY DEF PublishPending, TakeGate, ReleaseGates, SealEnd, SealPut, SealRest, dbVars
  <1>18. (\E r \in Request : RequestFlush(r)) \/ FlushWorker => UNCHANGED <<mem, queue, writer, lane>>
    BY DEF RequestFlush, FlushWorker, FlushRest, DrainRequests, FlushBegin, FlushManifest, FlushFailed, dataVars
  <1>19. UNCHANGED segVars => UNCHANGED <<mem, queue, writer, lane>>
    BY DEF segVars
  <1>. QED
    BY <1>4, <1>5, <1>6, <1>7, <1>9, <1>10, <1>12, <1>13, <1>14, <1>15, <1>16, <1>17, <1>18, <1>19
    DEF Next, DataPlane, WriterStep, Commit, SealOpen

-----------------------------------------------------------------------------
(* What a restart finds *)

\* No step removes or changes an object.
LEMMA StoreGrows ==
    ASSUME Types, Sealed, [Next]_segVars
    PROVE  \A g \in DOMAIN store : g \in DOMAIN store' /\ store'[g] = store[g]
  <1>. DataTypes
    BY DEF Types
  <1>1. ASSUME NEW ok, NEW lost, Put(ok, lost) PROVE \A g \in DOMAIN store : g \in DOMAIN store' /\ store'[g] = store[g]
    BY <1>1 DEF Put
  <1>2. store' = store \/ \E ok, lost : Put(ok, lost)
    <2>1. ASSUME NEW g \in uploads, BackgroundPut(g) PROVE store' = store \/ \E ok, lost : Put(ok, lost)
      BY <2>1 DEF BackgroundPut
    <2>2. ASSUME NEW g \in seal.ups, SealPut(g) PROVE \E ok, lost : Put(ok, lost)
      BY <2>2 DEF SealPut
    <2>3. PublishPending \/ Crash => \E ok, lost : Put(ok, lost)
      BY DEF PublishPending, Crash
    <2>4. ASSUME NEW w \in Writer, NEW s \in Slot, NEW partial \in BOOLEAN, NEW l \in Lane, Claim(w, s, partial, l)
          PROVE  store' = store
      BY <2>4 DEF Claim
    <2>5. ASSUME NEW w \in Writer, Fill(w) \/ FailFill(w) \/ SpawnSeal(w) PROVE store' = store
      BY <2>5 DEF Fill, FailFill, SpawnSeal
    <2>6. TakeGate \/ SealRotate \/ ReleaseGates \/ SealEnd => store' = store
      BY DEF TakeGate, SealRotate, ReleaseGates, SealEnd
    <2>. QED
      BY <2>1, <2>2, <2>3, <2>4, <2>5, <2>6, DataMoves DEF SealOpen, dataVars
  <1>. QED
    BY <1>1, <1>2

\* The durable rows read as before as long as they are the same.
LEMMA StoredKept ==
    ASSUME Types, Sealed, Durable, [Next]_segVars, durable' = durable
    PROVE  StoredContents(durable.ptr)' = StoredContents(durable.ptr)
  <1>1. \A g \in DOMAIN store : g \in DOMAIN store' /\ store'[g] = store[g]
    BY StoreGrows
  <1>2. \A s \in Slot : Hole(durable.ptr[s]) \/ durable.ptr[s].segid \in DOMAIN store
    BY DEF Durable, StoredContents, Unreadable
  <1>. QED
    BY <1>1, <1>2 DEF StoredContents

\* Once every pointer names an object, the objects hold what readers see.
LEMMA UploadedContents ==
    ASSUME Types, Segids, Uploaded({})
    PROVE  StoredContents(mem.ptr) = Contents
  <1>1. DirectoryFacts
    BY DirectoryLookup
  <1>2. \A s \in Slot : Hole(mem.ptr[s]) \/ mem.ptr[s].segid \in DOMAIN store
    BY DEF Uploaded, Hole
  <1>. QED
    BY <1>1, <1>2 DEF DirectoryFacts, StoredContents, Contents, ReadFrame

\* The manifest is written only when everything it names is uploaded.
LEMMA FlushedContents ==
    ASSUME Types, Segids, Sealed, FlushManifest
    PROVE  StoredContents(durable.ptr)' = Contents
  <1>1. durable' = mem /\ store' = store /\ Uploaded({})
    BY DEF FlushManifest, FlushRest, dataVars, Sealed
  <1>2. StoredContents(mem.ptr) = Contents
    BY <1>1, UploadedContents
  <1>3. StoredContents(durable.ptr)' = StoredContents(mem.ptr)
    BY <1>1 DEF StoredContents
  <1>. QED
    BY <1>2, <1>3

\* What a restart would find stays readable: the manifest follows the uploads.
LEMMA DurableStep == Types /\ Segids /\ Frames /\ Sealed /\ Durable /\ [Next]_segVars => Durable'
  <1>. SUFFICES ASSUME Types, Segids, Frames, Sealed, Durable, [Next]_segVars PROVE Durable'
    OBVIOUS
  <1>1. CASE durable' = durable
    BY <1>1, StoredKept DEF Durable
  <1>2. CASE FlushManifest
    BY <1>2, FlushedContents, ContentsReadable DEF Durable
  <1>. QED
    BY <1>1, <1>2, DbMoves DEF dbVars, Submit, Punch, Apply, AbortBatch, Crash

-----------------------------------------------------------------------------
(* The seal *)

\* A seal that reports success has left no referenced frame in RAM.
LEMMA SealedStep == Types /\ Segids /\ Frames /\ Gates /\ Sealed /\ [Next]_segVars => Sealed'
  <1>. SUFFICES ASSUME Types, Segids, Frames, Gates, Sealed, [Next]_segVars PROVE Sealed'
    OBVIOUS
  <1>. DataTypes /\ DbTypes /\ TaskTypes
    BY DEF Types
  <1>0. \A S : Uploaded(S) /\ mem'.ptr = mem.ptr => Uploaded(S)'
    BY StoreGrows DEF Uploaded
  <1>1. ASSUME UNCHANGED <<barrier, seal>>, DOMAIN sealing' = DOMAIN sealing,
               mem'.ptr = mem.ptr \/ barrier = Free
        PROVE  Sealed'
    <2>1. CASE barrier = Free
      BY <1>1, <2>1 DEF Sealed
    <2>2. CASE mem'.ptr = mem.ptr
      BY <1>0, <1>1, <2>2 DEF Sealed
    <2>. QED
      BY <1>1, <2>1, <2>2
  <1>2. ASSUME NEW w \in Writer, NEW s \in Slot, NEW partial \in BOOLEAN, NEW l \in Lane, Claim(w, s, partial, l)
        PROVE  Sealed'
    BY <1>1, <1>2, ClaimFacts, SMTT(30) DEF flushVars, dbVars
  <1>3. ASSUME NEW w \in Writer, Fill(w) \/ FailFill(w) \/ Submit(w) \/ (\E s \in Slot : Punch(w, s)) PROVE Sealed'
    BY <1>1, <1>3 DEF Fill, FailFill, Submit, Punch, flushVars, dbVars, dataVars
  <1>4. ASSUME NEW w \in Writer, SpawnSeal(w) PROVE Sealed'
    <2>1. /\ writer[w].lane \in Lane /\ RotateLane(writer[w].lane) /\ writer[w].rotate
          /\ UNCHANGED <<mem, barrier, seal>>
      BY <1>4 DEF SpawnSeal, TaskTypes, Writers, flushVars, dbVars
    <2>2. seal.pc # "rotate"
      BY <2>1, Constants DEF Gates
    <2>3. DOMAIN sealing \subseteq DOMAIN sealing'
      BY <2>1, RotateFacts
    <2>. QED
      BY <1>0, <2>1, <2>2, <2>3 DEF Sealed
  <1>5. CASE Apply \/ AbortBatch
    BY <1>1, <1>5 DEF Apply, AbortBatch, flushVars, dataVars
  <1>6. ASSUME NEW g \in uploads, BackgroundPut(g) PROVE Sealed'
    <2>1. seal.pc = "none" /\ UNCHANGED <<barrier, seal>>
      BY <1>6 DEF BackgroundPut, flushVars
    <2>. QED
      BY <2>1 DEF Sealed
  <1>7. CASE PublishPending
    <2>1. PICK failed \in SUBSET DOMAIN sealing :
             /\ sealing' = Keep(sealing, failed)
             /\ seal' = [seal EXCEPT !.pc = IF failed # {} THEN "failed"
                                            ELSE IF seal.lane \in Lane THEN "gate" ELSE "rotate"]
      BY <1>7 DEF PublishPending
    <2>2. /\ seal'.ups = {} /\ barrier' = barrier /\ barrier # Free
          /\ seal'.pc = IF failed # {} THEN "failed" ELSE IF seal.lane \in Lane THEN "gate" ELSE "rotate"
      BY <1>7, <2>1 DEF PublishPending, SealRest, Sealed, TaskTypes, Seals
    <2>3. seal'.pc = "rotate" => DOMAIN sealing' = {}
      BY <2>1, <2>2 DEF Keep
    <2>. QED
      BY <2>2, <2>3 DEF Sealed
  <1>8. CASE TakeGate
    <2>1. seal'.ups = {} /\ seal'.pc = "publish" /\ barrier' = barrier /\ barrier # Free
      BY <1>8 DEF TakeGate, SealRest, Sealed, TaskTypes, Seals
    <2>. QED
      BY <2>1 DEF Sealed
  <1>9. CASE SealRotate
    <2>1. DOMAIN sealing' = DOMAIN sealing \cup {lane[NextDirty].segid}
      BY <1>9, DirtyMinimum, RotateFacts DEF SealRotate
    <2>2. /\ seal'.pc = "rotate" /\ seal'.failed = seal.failed /\ barrier' = barrier /\ barrier # Free
          /\ seal'.ups = seal.ups \cup {lane[NextDirty].segid} /\ seal.pc = "rotate"
      BY <1>9 DEF SealRotate, SealRest, Sealed, TaskTypes, Seals
    <2>. QED
      BY <2>1, <2>2 DEF Sealed
  <1>10. CASE ReleaseGates
    <2>1. /\ seal.pc = "rotate" /\ seal'.pc = "upload" /\ seal'.ups = seal.ups /\ seal'.failed = seal.failed
          /\ barrier' = barrier /\ barrier # Free
          /\ UNCHANGED <<mem, sealing, store>> /\ DirtyLanes = {}
      BY <1>10 DEF ReleaseGates, SealRest, Sealed, TaskTypes, Seals, dbVars
    <2>2. ASSUME ~seal.failed PROVE Uploaded(seal.ups)
      <3>. SUFFICES ASSUME NEW s \in Slot, mem.ptr[s] # Free
                    PROVE  mem.ptr[s].segid \in DOMAIN store \cup seal.ups
        BY DEF Uploaded
      <3>1. mem.ptr[s] \in Location /\ 0 \notin Bytes[mem.ptr[s]][s]
        BY DEF DbTypes, ImageOK, Frames
      <3>2. Directory(mem.ptr[s].segid) # <<>>
        BY <3>1 DEF Bytes, ReadFrame, FrameIn, Unreadable
      <3>3. DirectoryFacts
        BY DirectoryLookup
      <3>4. ASSUME NEW l \in Lane, lane[l].segid = mem.ptr[s].segid PROVE FALSE
        BY <2>1, <3>2, <3>3, <3>4 DEF DirectoryFacts, DirtyLanes
      <3>5. mem.ptr[s].segid \in DOMAIN store \cup DOMAIN sealing
        BY <3>2, <3>3, <3>4 DEF DirectoryFacts
      <3>. QED
        BY <2>1, <2>2, <3>5 DEF Sealed
    <2>3. ~seal.failed => Uploaded(seal.ups)'
      BY <2>1, <2>2 DEF Uploaded
    <2>. QED
      BY <2>1, <2>3 DEF Sealed
  <1>11. ASSUME NEW g \in seal.ups, SealPut(g) PROVE Sealed'
    <2>1. /\ seal.pc \in {"rotate", "upload"} /\ seal'.pc = seal.pc /\ seal'.ups = seal.ups \ {g}
          /\ barrier' = barrier /\ barrier # Free /\ mem' = mem
      BY <1>11 DEF SealPut, SealRest, Sealed, TaskTypes, Seals, dbVars
    <2>2. CASE Put({g}, {}) /\ sealing' = Keep(sealing, DOMAIN sealing \ {g}) /\ seal' = [seal EXCEPT !.ups = @ \ {g}]
      <3>1. DOMAIN sealing' = DOMAIN sealing \ {g} /\ g \in DOMAIN store' /\ seal'.failed = seal.failed
        BY <2>2 DEF Keep, Put, TaskTypes, Seals
      <3>2. \A h \in DOMAIN store : h \in DOMAIN store'
        BY StoreGrows
      <3>3. Uploaded(seal.ups) => Uploaded(seal.ups)'
        BY <2>1, <3>1, <3>2 DEF Uploaded
      <3>. QED
        BY <2>1, <3>1, <3>3 DEF Sealed
    <2>3. CASE sealing' = sealing /\ seal' = [seal EXCEPT !.ups = @ \ {g}, !.failed = TRUE]
      <3>1. seal'.failed
        BY <2>3 DEF TaskTypes, Seals
      <3>. QED
        BY <2>1, <2>3, <3>1 DEF Sealed
    <2>. QED
      BY <1>11, <2>2, <2>3 DEF SealPut
  <1>12. CASE SealEnd
    <2>1. /\ seal.ups = {} /\ seal'.ups = {} /\ barrier' = barrier /\ barrier # Free
          /\ UNCHANGED <<mem, sealing, store>>
          /\ seal'.pc = IF seal.failed \/ seal.pc = "rotate" THEN "failed" ELSE "ok"
          /\ seal.pc \in {"upload", "rotate"}
      BY <1>12 DEF SealEnd, SealRest, Sealed, TaskTypes, Seals, dbVars
    <2>2. seal'.pc = "ok" => Uploaded({})
      BY <2>1 DEF Sealed
    <2>3. Uploaded({}) => Uploaded({})'
      BY <2>1 DEF Uploaded
    <2>. QED
      BY <2>1, <2>2, <2>3 DEF Sealed
  <1>13. CASE (\E r \in Request : RequestFlush(r)) \/ DrainRequests
    BY <1>1, <1>13 DEF RequestFlush, DrainRequests, FlushRest, dataVars
  <1>14. CASE FlushBegin
    <2>1. barrier' = "flush" /\ seal'.pc = "publish" /\ seal'.ups = {}
      BY <1>14 DEF FlushBegin, NoSeal
    <2>. QED
      BY <2>1, Constants DEF Sealed
  <1>15. CASE FlushManifest \/ FlushFailed \/ Crash
    <2>1. barrier' = Free /\ seal'.pc = "none" /\ seal'.ups = {}
      BY <1>15 DEF FlushManifest, FlushFailed, Crash, NoSeal
    <2>. QED
      BY <2>1 DEF Sealed
  <1>16. CASE UNCHANGED segVars
    BY <1>1, <1>16 DEF segVars
  <1>. QED
    BY <1>2, <1>3, <1>4, <1>5, <1>6, <1>7, <1>8, <1>9, <1>10, <1>11, <1>12, <1>13, <1>14, <1>15, <1>16
    DEF Next, DataPlane, WriterStep, Commit, SealOpen, FlushWorker

-----------------------------------------------------------------------------
(* Segments that gain no pointers *)

\* Segment ids are pairs of naturals, in the order they are given out.
LEMMA BeforeFacts ==
    ASSUME DataTypes
    PROVE  /\ \A g \in Segid : g.epoch \in Nat /\ g.counter \in Nat
           /\ nextSegid \in Segid
           /\ \A g \in Segid : Before(g, nextSegid) => g # nextSegid
  BY Constants DEF DataTypes, Segid, Before

\* The next id only grows.
LEMMA NextSegidGrows ==
    ASSUME Types, [Next]_segVars
    PROVE  /\ \A g \in Segid : Before(g, nextSegid) => Before(g, nextSegid')
           /\ Crash \/ nextSegid' = nextSegid \/ nextSegid' = NextSegid
  <1>. DataTypes
    BY DEF Types
  <1>1. Crash \/ nextSegid' = nextSegid \/ nextSegid' = NextSegid
    <2>1. ASSUME NEW w \in Writer, SpawnSeal(w) PROVE nextSegid' = NextSegid
      BY <2>1 DEF SpawnSeal, RotateLane
    <2>2. SealOpen => nextSegid' = nextSegid \/ nextSegid' = NextSegid
      BY DEF SealOpen, PublishPending, TakeGate, SealRotate, ReleaseGates, SealEnd, SealPut, RotateLane
    <2>. QED
      BY <2>1, <2>2, DataMoves, ZenonT(60) DEF dataVars, Claim, Fill, FailFill, BackgroundPut
  <1>2. Crash => nextSegid'.epoch = nextSegid.epoch + 1
    BY DEF Crash
  <1>3. nextSegid' = NextSegid => nextSegid'.epoch = nextSegid.epoch /\ nextSegid'.counter = nextSegid.counter + 1
    BY DEF NextSegid, DataTypes, Segid
  <1>. QED
    BY <1>1, <1>2, <1>3, BeforeFacts DEF Before

\* A segment that can gain no pointer never can again.
LEMMA OldStep ==
    ASSUME Types, Types', Segids, Locks, Ids, Frames, [Next]_segVars, NEW g, Old(g)
    PROVE  Old(g)'
  <1>. DataTypes /\ DbTypes /\ TaskTypes
    BY DEF Types
  <1>0. g \in Segid /\ Before(g, nextSegid)' /\ g # nextSegid
    BY NextSegidGrows, BeforeFacts DEF Old
  <1>1. (\A l \in Lane : lane'[l].segid # g) /\ g \notin DOMAIN sealing'
    <2>1. ASSUME NEW l \in Lane, RotateLane(l) PROVE (\A k \in Lane : lane'[k].segid # g) /\ g \notin DOMAIN sealing'
      <3>1. /\ lane'[l].segid = nextSegid
            /\ \A k \in Lane : k # l => lane'[k] = lane[k]
            /\ DOMAIN sealing' = DOMAIN sealing \cup {lane[l].segid}
        BY <2>1, RotateFacts
      <3>. QED
        BY <1>0, <3>1 DEF Old
    <2>2. ASSUME NEW w \in Writer, NEW s \in Slot, NEW partial \in BOOLEAN, NEW l \in Lane, Claim(w, s, partial, l)
          PROVE  (\A k \in Lane : lane'[k].segid # g) /\ g \notin DOMAIN sealing'
      <3>1. lane' = [lane EXCEPT ![l].dir = Append(@, [slot |-> s, data |-> Unreadable])] /\ sealing' = sealing
        BY <2>2, Zenon DEF Claim
      <3>. QED
        BY <3>1 DEF Old, DataTypes
    <2>3. ASSUME NEW w \in Writer, Fill(w) PROVE (\A k \in Lane : lane'[k].segid # g) /\ g \notin DOMAIN sealing'
      <3>1. writer[w].lane \in Lane
        BY WriterLane
      <3>. QED
        BY <2>3, <3>1 DEF Fill, Old, DataTypes
    <2>4. ASSUME NEW w \in Writer, SpawnSeal(w) PROVE (\A k \in Lane : lane'[k].segid # g) /\ g \notin DOMAIN sealing'
      <3>1. writer[w].lane \in Lane
        BY WriterLane
      <3>. QED
        BY <2>1, <2>4, <3>1 DEF SpawnSeal
    <2>5. ASSUME NEW h \in uploads, BackgroundPut(h) PROVE lane' = lane /\ DOMAIN sealing' \subseteq DOMAIN sealing
      BY <2>5 DEF BackgroundPut, Keep
    <2>6. PublishPending \/ TakeGate \/ ReleaseGates \/ SealEnd \/ (\E h \in seal.ups : SealPut(h))
             => lane' = lane /\ DOMAIN sealing' \subseteq DOMAIN sealing
      BY DEF PublishPending, TakeGate, ReleaseGates, SealEnd, SealPut, Keep
    <2>7. CASE SealRotate
      BY <2>1, <2>7, DirtyMinimum DEF SealRotate
    <2>8. CASE Crash
      <3>1. DOMAIN sealing' = {}
        BY <2>8 DEF Crash
      <3>2. ASSUME NEW l \in Lane PROVE lane'[l].segid.epoch = nextSegid.epoch + 1
        BY <2>8 DEF Crash, Fresh
      <3>3. g.epoch # nextSegid.epoch + 1
        BY <1>0, BeforeFacts DEF Old, Before
      <3>. QED
        BY <3>1, <3>2, <3>3
    <2>9. lane' = lane /\ DOMAIN sealing' \subseteq DOMAIN sealing
             => (\A k \in Lane : lane'[k].segid # g) /\ g \notin DOMAIN sealing'
      BY DEF Old
    <2>10. \A w \in Writer : FailFill(w) => lane' = lane /\ DOMAIN sealing' \subseteq DOMAIN sealing
      BY DEF FailFill
    <2>. QED
      BY <2>2, <2>3, <2>4, <2>5, <2>6, <2>7, <2>8, <2>9, <2>10, DataMoves DEF SealOpen, dataVars
  <1>2. ASSUME NEW w \in Writer, Active(w)' PROVE writer'[w].loc.segid # g
    <2>1. CASE writer'[w] = writer[w]
      BY <1>2, <2>1 DEF Active, Old
    <2>2. ASSUME NEW s \in Slot, NEW partial \in BOOLEAN, NEW l \in Lane, Claim(w, s, partial, l)
          PROVE  writer'[w].loc.segid # g
      <3>1. writer'[w].loc = [segid |-> lane[l].segid, frame |-> Len(lane[l].dir) + 1]
        BY <2>2 DEF Claim, TaskTypes
      <3>. QED
        BY <3>1 DEF Old
    <2>3. CASE Fill(w) \/ SpawnSeal(w)
      <3>1. writer'[w].loc = writer[w].loc /\ Active(w)
        BY <2>3 DEF Fill, SpawnSeal, Active, TaskTypes, Writers
      <3>. QED
        BY <3>1 DEF Old
    <2>4. CASE FailFill(w) \/ Submit(w) \/ (\E s \in Slot : Punch(w, s))
      <3>1. writer' = [writer EXCEPT ![w] = Idle] \/ writer' = [writer EXCEPT ![w] = [Idle EXCEPT !.pc = "queued"]]
        BY <2>4 DEF FailFill, Submit, Punch
      <3>2. writer'[w].pc \in {"idle", "queued"}
        BY <3>1 DEF Idle, TaskTypes
      <3>. QED
        BY <1>2, <3>2 DEF Active
    <2>5. ASSUME NEW v \in Writer, v # w, WriterStep(v) PROVE writer'[w] = writer[w]
      <3>1. ASSUME NEW s \in Slot, NEW partial \in BOOLEAN, NEW l \in Lane, Claim(v, s, partial, l)
            PROVE  writer'[w] = writer[w]
        BY <2>5, <3>1 DEF Claim, TaskTypes
      <3>. QED
        BY <2>5, <3>1 DEF WriterStep, Fill, FailFill, SpawnSeal, Submit, Punch, TaskTypes
    <2>6. CASE Apply \/ AbortBatch
      <3>1. queue # <<>> /\ queue' = Tail(queue) /\ Reply(Head(queue))
        BY <2>6 DEF Apply, AbortBatch
      <3>2. Active(w) /\ writer'[w] = writer[w]
        BY <1>2, <3>1, ReplyFacts
      <3>. QED
        BY <2>1, <3>2
    <2>7. CASE Crash
      BY <1>2, <2>7 DEF Crash, Active, Idle
    <2>. QED
      BY <2>1, <2>2, <2>3, <2>4, <2>5, <2>6, <2>7, LockMoves DEF WriterStep
  <1>3. ASSUME NEW i \in DOMAIN queue' PROVE SegidOf(queue'[i].loc) # g
    <2>1. CASE queue' = queue
      BY <2>1 DEF Old
    <2>2. ASSUME NEW t \in Txns, queue' = Append(queue, t), SegidOf(t.loc) # g PROVE SegidOf(queue'[i].loc) # g
      BY <2>2, QueueGrows DEF Old
    <2>3. ASSUME NEW w \in Writer, Submit(w) PROVE SegidOf(queue'[i].loc) # g
      <3>. DEFINE t == Txn(w, writer[w].id, writer[w].slot, writer[w].loc, writer[w].old, TRUE)
      <3>1. t \in Txns /\ queue' = Append(queue, t)
        BY <2>3, SubmitFacts
      <3>2. t.loc = writer[w].loc /\ Active(w)
        BY <2>3 DEF Txn, Submit, Active
      <3>. HIDE DEF t
      <3>3. writer[w].loc \in Location /\ writer[w].loc.segid # g
        BY <3>2 DEF Frames, Old
      <3>4. SegidOf(t.loc) # g
        BY <3>2, <3>3, Constants DEF SegidOf, Hole
      <3>. QED
        BY <2>2, <3>1, <3>4
    <2>4. ASSUME NEW w \in Writer, NEW s \in Slot, Punch(w, s) PROVE SegidOf(queue'[i].loc) # g
      <3>. DEFINE t == Txn(w, clock.writes + 1, s, Free, mem.ptr[s], FALSE)
      <3>1. t \in Txns /\ queue' = Append(queue, t)
        BY <2>4, PunchFacts DEF Punch
      <3>2. SegidOf(t.loc) # g
        BY <1>0, Constants DEF Txn, SegidOf, Hole
      <3>. HIDE DEF t
      <3>. QED
        BY <2>2, <3>1, <3>2
    <2>5. CASE queue # <<>> /\ queue' = Tail(queue)
      BY <2>5, HeadOfQueue DEF Old
    <2>6. CASE queue' = <<>>
      BY <2>6
    <2>. QED
      BY <2>1, <2>3, <2>4, <2>5, <2>6, DbMoves DEF dbVars, Apply, AbortBatch, FlushManifest, FlushRest, Crash
  <1>4. ASSUME NEW s \in Slot, SegidOf(mem'.ptr[s]) = g PROVE SegidOf(durable'.ptr[s]) = g
    <2>1. CASE mem' = mem /\ durable' = durable
      BY <1>4, <2>1 DEF Old
    <2>2. CASE mem' = durable' 
      BY <1>4, <2>2
    <2>3. CASE Apply
      <3>1. /\ queue # <<>> /\ durable' = durable
            /\ mem'.ptr = mem.ptr \/ mem'.ptr = [mem.ptr EXCEPT ![queue[1].slot] = queue[1].loc]
        BY <2>3, ApplyFacts DEF Apply
      <3>2. 1 \in DOMAIN queue
        BY <3>1, HeadOfQueue
      <3>3. SegidOf(queue[1].loc) # g
        BY <3>2 DEF Old
      <3>4. mem'.ptr[s] = mem.ptr[s] \/ mem'.ptr[s] = queue[1].loc
        BY <3>1 DEF DbTypes, ImageOK
      <3>. QED
        BY <1>4, <3>1, <3>3, <3>4 DEF Old
    <2>. QED
      BY <2>1, <2>2, <2>3, DbMoves DEF dbVars, Submit, Punch, AbortBatch, FlushManifest, FlushRest, Crash
  <1>. QED
    BY <1>0, <1>1, <1>2, <1>3, <1>4 DEF Old

\* Nor does one that no durable pointer names come back.
LEMMA BuriedStep ==
    ASSUME Types, Types', Segids, Locks, Ids, Frames, [Next]_segVars, NEW g, Buried(g)
    PROVE  Buried(g)'
  <1>1. Old(g)'
    BY OldStep DEF Buried
  <1>2. durable' \in {mem, durable}
    BY DbMoves DEF dbVars, Submit, Punch, Apply, AbortBatch, FlushManifest, FlushRest, Crash
  <1>3. \A s \in Slot : SegidOf(durable'.ptr[s]) # g
    BY <1>2, BuriedUnseen
  <1>. QED
    BY <1>1, <1>3 DEF Buried

\* No step queues a drop; those in the queue stay safe.
LEMMA DropsStep ==
    Types /\ Types' /\ Segids /\ Locks /\ Ids /\ Frames /\ Drops /\ [Next]_segVars => Drops'
  <1>. SUFFICES ASSUME Types, Types', Segids, Locks, Ids, Frames, Drops, [Next]_segVars,
                       NEW i \in DOMAIN queue', NEW g \in queue'[i].drop
                PROVE  Buried(g)'
    BY DEF Drops
  <1>. DbTypes /\ TaskTypes
    BY DEF Types
  <1>1. ASSUME NEW t \in Txns, queue' = Append(queue, t), t.drop = {} PROVE \E j \in DOMAIN queue : queue'[i] = queue[j]
    BY <1>1, QueueGrows
  <1>2. ASSUME NEW w \in Writer, Submit(w) PROVE \E j \in DOMAIN queue : queue'[i] = queue[j]
    <2>. DEFINE t == Txn(w, writer[w].id, writer[w].slot, writer[w].loc, writer[w].old, TRUE)
    <2>1. t \in Txns /\ queue' = Append(queue, t)
      BY <1>2, SubmitFacts
    <2>2. t.drop = {}
      BY DEF Txn
    <2>. HIDE DEF t
    <2>. QED
      BY <1>1, <2>1, <2>2
  <1>3. ASSUME NEW w \in Writer, NEW s \in Slot, Punch(w, s) PROVE \E j \in DOMAIN queue : queue'[i] = queue[j]
    <2>. DEFINE t == Txn(w, clock.writes + 1, s, Free, mem.ptr[s], FALSE)
    <2>1. t \in Txns /\ queue' = Append(queue, t)
      BY <1>3, PunchFacts DEF Punch
    <2>2. t.drop = {}
      BY DEF Txn
    <2>. HIDE DEF t
    <2>. QED
      BY <1>1, <2>1, <2>2
  <1>4. ASSUME queue # <<>>, queue' = Tail(queue) PROVE \E j \in DOMAIN queue : queue'[i] = queue[j]
    BY <1>4, HeadOfQueue
  <1>5. \E j \in DOMAIN queue : queue'[i] = queue[j]
    <2>1. queue' = <<>> => DOMAIN queue' = {}
      OBVIOUS
    <2>. QED
      BY <1>2, <1>3, <1>4, <2>1, DbMoves DEF dbVars, Apply, AbortBatch, FlushManifest, FlushRest, Crash
  <1>6. Buried(g)
    BY <1>5 DEF Drops
  <1>. QED
    BY <1>6, BuriedStep

-----------------------------------------------------------------------------
(* The invariant *)

\* The invariant holds when the server first starts.
LEMMA SegInvInit == Init => SegInv
  <1>. SUFFICES ASSUME Init PROVE SegInv
    OBVIOUS
  <1>1. lane \in [Lane -> [segid : Segid, dir : Seq(Frame)]]
    BY SegmentsBounds DEF Init, Fresh, Lane, Segid
  <1>2. DOMAIN sealing = {} /\ DOMAIN store = {} /\ DOMAIN queue = {} /\ queue \in Seq(Txns)
    BY DEF Init
  <1>3. nextSegid \in Segid
    BY SegmentsBounds DEF Init, Segid
  <1>4. DataTypes
    BY <1>1, <1>2, <1>3 DEF Init, DataTypes
  <1>5. DbTypes
    BY <1>2 DEF Init, DbTypes, ImageOK
  <1>6. TaskTypes
    BY IdleType, NoSealType DEF Init, TaskTypes
  <1>7. Segids
    <2>1. \A l \in Lane : l \in Nat /\ l - 1 \in Nat /\ l - 1 < LaneCount
      BY SegmentsBounds DEF Lane
    <2>2. \A l \in Lane : lane[l].segid = [epoch |-> 0, counter |-> l - 1]
      BY DEF Init, Fresh
    <2>3. ASSUME NEW l \in Lane PROVE lane[l].segid.epoch = 0 /\ lane[l].segid.counter = l - 1
      <3>1. PICK c : c = l - 1
        OBVIOUS
      <3>2. lane[l].segid = [epoch |-> 0, counter |-> c]
        BY <2>2, <3>1
      <3>. QED
        BY <3>1, <3>2
    <2>4. nextSegid.epoch = 0 /\ nextSegid.counter = LaneCount
      BY DEF Init
    <2>5. \A l, k \in Lane : lane[l].segid = lane[k].segid => l = k
      BY <2>1, <2>3
    <2>. QED
      BY <1>2, <2>1, <2>3, <2>4, <2>5 DEF Segids, Before
  <1>8. \A w \in Writer : writer[w].pc = "idle" /\ ~writer[w].rotate
    BY DEF Init, Idle
  <1>9. Locks /\ Ids
    BY <1>2, <1>8, SegmentsBounds DEF Init, Locks, Ids, Active
  <1>10. Frames
    BY <1>2, <1>8 DEF Init, Frames, Active
  <1>11. Durable
    BY DEF Init, Durable, StoredContents, Hole
  <1>12. Gates /\ Sealed
    BY <1>8 DEF Init, Gates, Sealed, NoSeal
  <1>13. LiveExact
    BY DEF Init, LiveExact, Hole
  <1>14. Clocks /\ Drops
    BY <1>2 DEF Init, Clocks, Drops
  <1>. QED
    BY <1>4, <1>5, <1>6, <1>7, <1>9, <1>10, <1>11, <1>12, <1>13, <1>14 DEF SegInv, Types

\* Every step keeps the invariant.
LEMMA SegInvStep == SegInv /\ [Next]_segVars => SegInv'
  <1>. SUFFICES ASSUME SegInv, [Next]_segVars PROVE SegInv'
    OBVIOUS
  <1>1. Types' /\ Segids'
    BY TypesStep, SegidsStep DEF SegInv
  <1>2. Locks' /\ Ids' /\ Gates' /\ Clocks'
    BY LocksStep, IdsStep, GatesStep, ClocksStep DEF SegInv
  <1>3. Frames' /\ Durable' /\ Sealed' /\ LiveExact'
    BY <1>1, FramesStep, DurableStep, SealedStep, LiveExactStep DEF SegInv
  <1>4. Drops'
    BY <1>1, DropsStep DEF SegInv
  <1>. QED
    BY <1>1, <1>2, <1>3, <1>4 DEF SegInv

(* Every state the data plane reaches satisfies the inductive invariant.    *)
THEOREM SegmentsInvariant == Spec => []SegInv
  BY SegInvInit, SegInvStep, PTL DEF Spec

(* The data plane's state is well typed in every reachable state.           *)
THEOREM SegmentsTypes == Spec => []TypeOK
  <1>1. SegInv => TypeOK
    <2>. SUFFICES ASSUME SegInv PROVE TypeOK
      OBVIOUS
    <2>. DataTypes /\ DbTypes /\ TaskTypes
      BY DEF SegInv, Types
    <2>1. \A l \in Lane : lane[l].segid \in Segid /\ lane[l].dir \in Seq(Frame)
      BY DEF DataTypes
    <2>2. \A d \in {mem, durable} :
             /\ d.ptr \in [Slot -> Location \cup {Free}]
             /\ DOMAIN d.count \subseteq Segid
             /\ \A g \in DOMAIN d.count : d.count[g] \in [live : Nat, total : Nat]
      BY DEF DbTypes, ImageOK
    <2>3. lock \in [Slot -> Writer \cup {Free, "gc"}]
      BY DEF TaskTypes
    <2>4. \A w \in Writer : writer[w].pc \in {"idle", "claimed", "filled", "queued"}
      BY DEF TaskTypes, Writers
    <2>5. seal.pc \in {"none", "publish", "gate", "rotate", "upload", "ok", "failed"}
      BY DEF TaskTypes, Seals
    <2>6. flusher.pc \in {"idle", "barrier", "seal"} /\ flusher.batch \subseteq Request
      BY DEF TaskTypes
    <2>. QED
      BY <2>1, <2>2, <2>3, <2>4, <2>5, <2>6 DEF TypeOK, DataTypes, DbTypes, TaskTypes
  <1>. QED
    BY <1>1, SegmentsInvariant, PTL

(* "A durable manifest never points to an unuploaded segment"               *)
(* (FlushCoordinator, SegmentStore::seal_open): whatever crashes, failed or *)
(* half-done uploads came before, every pointer a restart finds names a     *)
(* readable frame of an uploaded object.                                    *)
THEOREM DurablePointersResolve == Spec => []DurableResolves
  <1>1. SegInv => DurableResolves
    BY DEF SegInv, Durable, DurableResolves, Unreadable
  <1>. QED
    BY <1>1, SegmentsInvariant, PTL

(* stage_seg_deltas keeps every segment's live counter exact, in memory and *)
(* on disk, although each debit was computed when its write was prepared.   *)
THEOREM LiveCountersExact == Spec => []LiveExact
  <1>1. SegInv => LiveExact
    BY DEF SegInv
  <1>. QED
    BY <1>1, SegmentsInvariant, PTL

(* FlushCoordinator answers a request with success only when what was       *)
(* acknowledged before it was made is durable, however it was coalesced.    *)
THEOREM FlushesCover == Spec => []FlushCovers
  <1>1. SegInv => FlushCovers
    BY DEF SegInv, Types, TaskTypes, Clocks, FlushCovers
  <1>. QED
    BY <1>1, SegmentsInvariant, PTL

-----------------------------------------------------------------------------
(* The data plane implements DurableStore *)

\* The initial database is the empty store.
LEMMA PromiseInit == Init => Promise!Init
  BY DEF Init, Promise!Init, Contents, StoredContents, Hole

\* Applying a transaction is one write of its slot, with an id that was never used;
\* the collector's transactions change nothing a reader sees.
LEMMA ApplyWrites ==
    ASSUME SegInv, SegInv', Apply
    PROVE  (\E s \in Slot : Promise!Write(s)) \/ UNCHANGED Promise!avars
  <1>. Types /\ Types' /\ Segids /\ Segids' /\ Locks /\ Ids /\ Frames /\ Sealed /\ Durable
    BY DEF SegInv
  <1>. DataTypes /\ DbTypes /\ TaskTypes
    BY DEF Types
  <1>. [Next]_segVars
    BY DEF Next, DataPlane, Commit
  <1>0. ~Crash
    BY DEF Apply, Crash, dataVars, DataTypes, Segid
  <1>1. ReadsKept
    BY <1>0, ReadsKeptStep
  <1>2. PICK t \in Txns : t = queue[1]
    BY HeadOfQueue DEF Apply
  <1>3. 1 \in DOMAIN queue
    BY HeadOfQueue DEF Apply
  <1>4. durable' = durable /\ nextSegid' = nextSegid
    BY DEF Apply, dataVars
  <1>5. StoredContents(durable.ptr)' = StoredContents(durable.ptr)
    BY <1>4, StoredKept
  <1>6. CASE t.slot = Free
    <2>1. mem'.ptr = mem.ptr /\ written' = written
      BY <1>2, <1>6, ApplyFacts, TxnFields
    <2>2. Contents' = Contents
      BY <1>1, <2>1, ContentsKept
    <2>. QED
      BY <1>4, <1>5, <2>1, <2>2 DEF Promise!avars
  <1>7. CASE t.slot # Free
    <2>1. mem'.ptr = [mem.ptr EXCEPT ![t.slot] = t.loc]
      BY <1>2, <1>7, ApplyFacts
    <2>2. t.slot \in Slot
      BY <1>7, TxnFields
    <2>3. t.loc # Free => /\ t.loc \in Location
                          /\ Bytes'[t.loc][t.slot] = Bytes[t.loc][t.slot]
                          /\ Writes(Bytes[t.loc][t.slot], t.id, Contents[t.slot])
      BY <1>1, <1>2, <1>3, <1>7, <2>2, WritesReadable DEF ReadsKept, Frames
    <2>4. mem.ptr \in [Slot -> Location \cup {Free}]
      BY DEF DbTypes, ImageOK
    <2>5. \A s \in Slot : mem.ptr[s] # Free => Bytes'[mem.ptr[s]][s] = Bytes[mem.ptr[s]][s]
      BY <1>1, <2>4 DEF ReadsKept, Frames
    <2>6. \A s \in Slot : s # t.slot => Contents'[s] = Contents[s]
      BY <2>1, <2>4, <2>5, ContentsReadable, ContentsNext
    <2>7. mem'.ptr[t.slot] = t.loc
      BY <2>1, <2>2, <2>4
    <2>8. Contents = [s \in Slot |-> Contents[s]] /\ Contents' = [s \in Slot |-> Contents'[s]]
      BY DEF Contents
    <2>9. CASE t.id # 0
      <3>1. t.id \in (1..MaxWrites) \ written /\ written' = written \cup {t.id}
        BY <1>2, <1>3, <2>9, ApplyFacts, TxnFields DEF Ids
      <3>2. Contents'[t.slot] \in {{}, {t.id}, Contents[t.slot] \cup {t.id}}
        BY <2>2, <2>3, <2>7, <2>9, ContentsNext DEF Writes
      <3>3. \E c \in {{}, {t.id}, Contents[t.slot] \cup {t.id}} : Contents' = [Contents EXCEPT ![t.slot] = c]
        BY <2>2, <2>6, <2>8, <3>2
      <3>4. Promise!Write(t.slot)
        BY <1>4, <1>5, <3>1, <3>3 DEF Promise!Write
      <3>. QED
        BY <2>2, <3>4
    <2>10. CASE t.id = 0
      <3>1. written' = written /\ t.loc # Free
        BY <1>2, <1>7, <2>10, ApplyFacts, TxnFields, Constants
      <3>2. Contents'[t.slot] = Contents[t.slot]
        BY <2>2, <2>3, <2>7, <2>10, <3>1, ContentsNext DEF Writes
      <3>3. Contents' = Contents
        BY <2>6, <2>8, <3>2, Zenon
      <3>. QED
        BY <1>4, <1>5, <3>1, <3>3 DEF Promise!avars
    <2>. QED
      BY <2>9, <2>10
  <1>. QED
    BY <1>6, <1>7

\* Every step of the data plane is a write, a flush or a crash of the promise, or none.
LEMMA PromiseStep == SegInv /\ SegInv' /\ [Next]_segVars => [Promise!Next]_(Promise!avars)
  <1>. SUFFICES ASSUME SegInv, SegInv', [Next]_segVars PROVE [Promise!Next]_(Promise!avars)
    OBVIOUS
  <1>. Types /\ Types' /\ Segids /\ Segids' /\ Frames /\ Sealed /\ Durable
    BY DEF SegInv
  <1>. DataTypes /\ DbTypes
    BY DEF Types
  <1>1. CASE Crash
    <2>1. /\ mem' = durable /\ durable' = durable /\ written' = written
          /\ nextSegid'.epoch = nextSegid.epoch + 1
      BY <1>1 DEF Crash
    <2>2. StoredContents(durable.ptr)' = StoredContents(durable.ptr)
      BY <2>1, StoredKept
    <2>3. Contents' = StoredContents(durable.ptr)
      <3>. SUFFICES ASSUME NEW s \in Slot PROVE Contents'[s] = StoredContents(durable.ptr)[s]
        BY DEF Contents, StoredContents
      <3>1. CASE durable.ptr[s] = Free
        BY <2>1, <3>1 DEF Contents, StoredContents, Hole
      <3>2. CASE durable.ptr[s] # Free
        <4>1. PICK loc \in Location : loc = durable.ptr[s]
          BY <3>2 DEF DbTypes, ImageOK
        <4>2. loc.segid \in DOMAIN store /\ StoredContents(durable.ptr)[s] = FrameIn(store[loc.segid], loc, s)
          BY <3>2, <4>1 DEF Durable, StoredContents, Hole, Unreadable
        <4>3. loc.segid \in DOMAIN store' /\ store'[loc.segid] = store[loc.segid]
          BY <4>2, StoreGrows
        <4>4. Bytes'[loc][s] = FrameIn(store'[loc.segid], loc, s)
          BY <4>3, StoreBytesNext, DirectoryLookupNext
        <4>. QED
          BY <2>1, <3>2, <4>1, <4>2, <4>3, <4>4, ContentsNext
      <3>. QED
        BY <3>1, <3>2
    <2>4. Promise!Crash
      BY <2>1, <2>2, <2>3 DEF Promise!Crash
    <2>. QED
      BY <2>4 DEF Promise!Next
  <1>2. CASE FlushManifest
    <2>1. mem' = mem /\ written' = written /\ nextSegid' = nextSegid
      BY <1>2 DEF FlushManifest, FlushRest, dataVars
    <2>2. ~Crash
      BY <2>1 DEF Crash, DataTypes, Segid
    <2>3. Contents' = Contents
      BY <2>1, <2>2, ReadsKeptStep, ContentsKept
    <2>4. StoredContents(durable.ptr)' = Contents
      BY <1>2, FlushedContents
    <2>5. Promise!Flush
      BY <2>1, <2>3, <2>4 DEF Promise!Flush
    <2>. QED
      BY <2>5 DEF Promise!Next
  <1>3. CASE Apply
    BY <1>3, ApplyWrites DEF Promise!Next
  <1>4. CASE ~Crash /\ UNCHANGED <<mem, durable, written>> /\ nextSegid'.epoch = nextSegid.epoch
    <2>1. Contents' = Contents
      BY <1>4, ReadsKeptStep, ContentsKept
    <2>2. StoredContents(durable.ptr)' = StoredContents(durable.ptr)
      BY <1>4, StoredKept
    <2>. QED
      BY <1>4, <2>1, <2>2 DEF Promise!avars
  <1>5. ~Crash => nextSegid'.epoch = nextSegid.epoch
    <2>1. ASSUME NEW w \in Writer, SpawnSeal(w) PROVE nextSegid'.epoch = nextSegid.epoch
      BY <2>1 DEF SpawnSeal, RotateLane, NextSegid, DataTypes, Segid
    <2>2. SealOpen => nextSegid'.epoch = nextSegid.epoch
      BY DEF SealOpen, PublishPending, TakeGate, SealRotate, ReleaseGates, SealEnd, SealPut, RotateLane, NextSegid,
             DataTypes, Segid
    <2>. QED
      BY <2>1, <2>2, DataMoves, ZenonT(60) DEF dataVars, Claim, Fill, FailFill, BackgroundPut
  <1>6. Crash \/ FlushManifest \/ Apply \/ UNCHANGED <<mem, durable, written>>
    BY DbMoves DEF dbVars, Submit, Punch, AbortBatch
  <1>. QED
    BY <1>1, <1>2, <1>3, <1>4, <1>5, <1>6

(* The data plane keeps its promise to readers and to restarts: each write  *)
(* takes effect once and atomically, a partial write keeps what it did not  *)
(* touch, seals, uploads and rotations change nothing a reader sees, and a  *)
(* crash falls back to exactly the last flush.                              *)
THEOREM SegmentsImplement == Spec => ImplementsDurableStore
  <1>1. Spec => Promise!Init /\ [][Promise!Next]_(Promise!avars)
    BY PromiseInit, PromiseStep, SegmentsInvariant, PTL DEF Spec
  <1>. QED
    BY <1>1 DEF ImplementsDurableStore, Promise!Spec
=============================================================================
