---------------------------- MODULE Replication ----------------------------
(***************************************************************************)
(* The data path of a ZeroFS replication pair: the leader's commit worker  *)
(* (fs/write_coordinator.rs) ships each batch (replication/replicator.rs)  *)
(* to the standby's receiver and tail (replication/transport.rs, tail.rs), *)
(* applies it to its database and acknowledges it; a successor replays its *)
(* tail (replication/replay.rs) and decides which lineage token clients    *)
(* may go on using (fs/boot.rs).                                           *)
(*                                                                         *)
(* A write is acknowledged before it is durable.  The lineage token is     *)
(* what makes fsync honest: a client whose writes were acknowledged under  *)
(* token t learns from a server with another token that they may be lost.  *)
(*                                                                         *)
(* Abstractions.  Batches are write ids in issue order.  The database is   *)
(* the sequence of the writes made to it, each marked as applied by its    *)
(* own leader or as replayed; a process holds the suffix it has not        *)
(* flushed, and any prefix of that may become durable at any time.         *)
(* Who may claim, and when, is Ownership and Authority: here any standby   *)
(* may claim at any time, the last claimant is the owner, and a successor  *)
(* opens only when its predecessor's lease is gone (SuccessorOpensAlone).  *)
(* A ship request is delivered once, at any later time, or never, and its  *)
(* answer may be lost; a connection dies with the receiving process.  A    *)
(* heartbeat carries the frontiers read when it was sent, and is delivered *)
(* while its sender waits for it, or never.                                *)
(* sync_writes and client results (dedup) are left out.                    *)
(***************************************************************************)
EXTENDS ReplicationTail, Sequences, FiniteSets, FiniteSetsExt

CONSTANTS
    Node,        \* the two nodes of the pair
    NoNode,      \* stands for "nobody"
    MaxWrites,   \* bound on the number of writes
    MaxEpoch,    \* bound on the database writer epoch
    MaxRestarts  \* bound on the number of restarts

ASSUME ReplicationNodes ==
    /\ NoNode \notin Node
    /\ \A m, n, p \in Node : m = n \/ m = p \/ n = p
ASSUME ReplicationBounds ==
    MaxWrites \in Nat /\ MaxEpoch \in Nat /\ MaxRestarts \in Nat

VARIABLES
    disk,      \* the durable database: [log, stamp, lineage, taint]
    dbEpoch,   \* the writer epoch that may write to it
    owner,     \* the node that claimed ownership last
    node,      \* node[n]: the process on node n
    rcv,       \* rcv[n]: its receiver
    ships,     \* every ship request ever sent, and whether it is in flight
    acked,     \* acknowledged writes with the token they were acknowledged under
    nextWrite, \* the next write
    restarts,  \* restarts so far
    stranded   \* history: what a standby's death left to its leader alone (Exposed)

vars == <<disk, dbEpoch, owner, node, rcv, ships, acked, nextWrite, restarts, stranded>>

-----------------------------------------------------------------------------
(* State *)

Role == {"down", "standby", "quiesced", "opened", "promoting", "replaying",
         "replayed", "promoted", "serving"}

\* An unflushed database entry; ship is 0 unless it is a peer-copy attempt.
Entry(w, stamp, ship) == [id |-> w, stamp |-> stamp, ship |-> ship]

\* seq: next_seqno; shipped, solo, applied: the provenance of the next stamp; wm:
\* the durability watermark; dirty: base_dirty_through is set; op, write, answer:
\* the batch in the commit worker, and the answer to its ship request; beat: the
\* frontiers of the heartbeat under way.
NoBeat == [sent |-> FALSE, applied |-> 0, durable |-> 0]

Fresh == [role |-> "standby", epoch |-> 0, lease |-> FALSE, snap |-> 0, proof |-> FALSE,
          token |-> 0, mem |-> <<>>, conn |-> FALSE, seq |-> 1, shipped |-> 0,
          solo |-> FALSE, applied |-> 0, wm |-> 0, dirty |-> FALSE, repair |-> FALSE,
          tainted |-> FALSE, op |-> "none", write |-> 0, answer |-> "none", beat |-> NoBeat]

Dead == [Fresh EXCEPT !.role = "down"]

NewReceiver == [phase |-> "standby", observed |-> 0, tail |-> NoTail]

Init ==
    /\ disk = [log |-> <<>>, stamp |-> NoStamp, lineage |-> 0, taint |-> 0]
    /\ dbEpoch = 0
    /\ owner = NoNode
    /\ node = [n \in Node |-> Fresh]
    /\ rcv = [n \in Node |-> NewReceiver]
    /\ ships = {}
    /\ acked = {}
    /\ nextWrite = 1
    /\ restarts = 0
    /\ stranded = {}

Set(n, s) == node' = [node EXCEPT ![n] = s]

SetReceiver(n, r) == rcv' = [rcv EXCEPT ![n] = r]

Fenced(n) == node[n].epoch # dbEpoch

\* The sender of m waits for its answer.
Waiting(m) ==
    LET s == node[m.from]
    IN  /\ s.op = "sent" /\ s.answer = "none"
        /\ s.epoch = m.epoch /\ s.seq = m.seq + 1 /\ s.write = m.id

\* The process on node n ends; what nobody waits for any more cannot reach the next one.
Dies(n) ==
    /\ Set(n, Dead)
    /\ SetReceiver(n, NewReceiver)
    /\ ships' = {[m EXCEPT !.flying = @ /\ (m.from = n \/ Waiting(m))] : m \in ships}

Ids(s) == {s[i].id : i \in DOMAIN s}

\* A leader stamps what it applies; a replay writes no stamp.
Own(e) == e.stamp # NoStamp

\* The database once the entries s are durable.
Persisted(d, s) ==
    LET stamped == {i \in DOMAIN s : Own(s[i])}
    IN  [d EXCEPT !.log = @ \o [i \in DOMAIN s |-> [id |-> s[i].id, own |-> Own(s[i])]],
                  !.stamp = IF stamped = {} THEN @ ELSE s[Max(stamped)].stamp]

\* Mutant: what is applied counts as durable.
MutDurableShipsApplied(s) == s.applied

\* DurabilityTracker: the highest ship sequence whose batch has left the memtable.
DurableShips(s) ==
    LET unflushed == {s.mem[i].ship : i \in DOMAIN s.mem} \ {0}
    IN  IF unflushed = {} THEN s.applied ELSE Min(unflushed) - 1

-----------------------------------------------------------------------------
(* The database *)

\* A background flush makes a prefix of the memtable durable.  A fenced writer
\* cannot flush.
Persist(n) ==
    /\ ~Fenced(n)
    /\ \E k \in 1..Len(node[n].mem) :
          /\ disk' = Persisted(disk, SubSeq(node[n].mem, 1, k))
          /\ Set(n, [node[n] EXCEPT !.mem = SubSeq(@, k + 1, Len(@))])
    /\ UNCHANGED <<dbEpoch, owner, rcv, ships, acked, nextWrite, restarts, stranded>>

\* run_watermark
ObserveDurable(n) ==
    /\ node[n].role = "serving"
    /\ node[n].wm # DurableShips(node[n])
    /\ Set(n, [node[n] EXCEPT !.wm = DurableShips(node[n])])
    /\ UNCHANGED <<disk, dbEpoch, owner, rcv, ships, acked, nextWrite, restarts, stranded>>

\* A stalled opener that lost its claim long ago opens the database after all, and
\* closes it when it finds that out: the current writer is fenced by nobody.
StrayOpen ==
    /\ owner # NoNode
    /\ \E n \in Node \ {owner} : node[n].role = "standby"
    /\ dbEpoch < MaxEpoch
    /\ dbEpoch' = dbEpoch + 1
    /\ UNCHANGED <<disk, owner, node, rcv, ships, acked, nextWrite, restarts, stranded>>

-----------------------------------------------------------------------------
(* The commit worker *)

StartWrite(n) ==
    /\ node[n].role = "serving" /\ node[n].op = "none"
    /\ nextWrite <= MaxWrites
    /\ nextWrite' = nextWrite + 1
    /\ Set(n, [node[n] EXCEPT !.op = "ready", !.write = nextWrite])
    /\ UNCHANGED <<disk, dbEpoch, owner, rcv, ships, acked, restarts, stranded>>

Done(s) == [s EXCEPT !.op = "none", !.write = 0, !.answer = "none"]

\* Apply the batch with its stamp and acknowledge it.
Applied(s, stamp, ship) ==
    [Done(s) EXCEPT !.mem = Append(@, Entry(s.write, stamp, ship)),
                    !.shipped = stamp.shipped, !.solo = stamp.solo, !.applied = stamp.applied]

\* make_apply_permit for a batch that only this node surely has: a Solo batch
\* (ship 0) or one whose ship was Ambiguous.
SoloStamp(s, ship) ==
    [epoch |-> s.epoch, shipped |-> s.shipped, solo |-> TRUE, applied |-> Larger(s.applied, ship)]

ShippedStamp(s, ship) ==
    [epoch |-> s.epoch, shipped |-> ship, solo |-> s.solo, applied |-> Larger(s.applied, ship)]

\* Before the first such batch of a process is applied, everything so far and the
\* taint of its lineage become durable.
ApplySolo(n, ship) ==
    LET s == node[n]
        applied(t) == [Applied(t, SoloStamp(s, ship), ship) EXCEPT !.conn = FALSE, !.dirty = TRUE]
    IN  /\ s.lease
        /\ \/ /\ s.tainted
              /\ Set(n, applied(s))
              /\ UNCHANGED disk
           \/ /\ ~s.tainted /\ ~Fenced(n)
              /\ disk' = [Persisted(disk, s.mem) EXCEPT !.taint = s.token]
              /\ Set(n, applied([s EXCEPT !.mem = <<>>, !.tainted = TRUE]))
        /\ acked' = acked \cup {[id |-> s.write, token |-> s.token]}
        /\ UNCHANGED <<dbEpoch, owner, rcv, ships, nextWrite, restarts, stranded>>

WriteSolo(n) ==
    /\ node[n].op = "ready" /\ ~node[n].conn
    /\ ApplySolo(n, 0)

\* Mutant: the flush boundary is not published.
MutBaseFlushedUnseen(s) == [s EXCEPT !.mem = <<>>, !.dirty = FALSE, !.repair = FALSE]

\* Everything applied so far becomes durable and the watermark moves before the
\* next ship (BaseFlushRequired, begin_base_repair).
BaseFlushed(s) == [s EXCEPT !.mem = <<>>, !.wm = s.applied, !.dirty = FALSE, !.repair = FALSE]

\* NeedsBaseFlush before a ship, or a repair a heartbeat asked for, between batches.
BaseFlush(n) ==
    /\ node[n].role = "serving" /\ ~Fenced(n)
    /\ \/ node[n].op = "ready" /\ node[n].conn /\ node[n].dirty
       \/ node[n].op = "none" /\ node[n].repair
    /\ disk' = Persisted(disk, node[n].mem)
    /\ Set(n, BaseFlushed(node[n]))
    /\ UNCHANGED <<dbEpoch, owner, rcv, ships, acked, nextWrite, restarts, stranded>>

\* An RPC attempt consumes its sequence before transmission.
SendShip(n) ==
    /\ node[n].op = "ready" /\ node[n].conn /\ ~node[n].dirty
    /\ ships' = ships \cup {[epoch |-> node[n].epoch, seq |-> node[n].seq, id |-> node[n].write,
                             wm |-> node[n].wm, from |-> n, flying |-> TRUE]}
    /\ Set(n, [node[n] EXCEPT !.op = "sent", !.seq = @ + 1])
    /\ UNCHANGED <<disk, dbEpoch, owner, rcv, acked, nextWrite, restarts, stranded>>

ShipAccepted(n) ==
    /\ node[n].op = "sent" /\ node[n].answer = "accepted"
    /\ node[n].lease
    /\ Set(n, Applied(node[n], ShippedStamp(node[n], node[n].seq - 1), node[n].seq - 1))
    /\ acked' = acked \cup {[id |-> node[n].write, token |-> node[n].token]}
    /\ UNCHANGED <<disk, dbEpoch, owner, rcv, ships, nextWrite, restarts, stranded>>

\* Mutant: the batch is shipped again without asking for a flush.
MutShipUncoveredAgain(n) ==
    /\ node[n].op = "sent" /\ node[n].answer = "uncovered"
    /\ Set(n, [node[n] EXCEPT !.op = "ready", !.answer = "none", !.seq = @ - 1])
    /\ UNCHANGED <<disk, dbEpoch, owner, rcv, ships, acked, nextWrite, restarts, stranded>>

\* BaseNotCovered is a rejection before the append: the sequence is used again.
ShipUncovered(n) ==
    /\ node[n].op = "sent" /\ node[n].answer = "uncovered"
    /\ Set(n, [node[n] EXCEPT !.op = "ready", !.answer = "none", !.seq = @ - 1, !.dirty = TRUE])
    /\ UNCHANGED <<disk, dbEpoch, owner, rcv, ships, acked, nextWrite, restarts, stranded>>

\* The request failed or timed out, whatever the receiver did with it.
ShipAmbiguous(n) ==
    /\ node[n].op = "sent"
    /\ ApplySolo(n, node[n].seq - 1)

Reconnect(n) ==
    /\ node[n].role = "serving" /\ ~node[n].conn /\ node[n].op # "sent"
    /\ \E p \in Node \ {n} : node[p].role # "down"
    /\ Set(n, [node[n] EXCEPT !.conn = TRUE])
    /\ UNCHANGED <<disk, dbEpoch, owner, rcv, ships, acked, nextWrite, restarts, stranded>>

\* A deposed, fenced or lease-less leader stops; a batch in its hands fails.
StepDown(n) ==
    /\ node[n].role = "serving"
    /\ node[n].answer = "deposed" \/ ~node[n].lease \/ Fenced(n)
    /\ Dies(n)
    /\ UNCHANGED <<disk, dbEpoch, owner, acked, nextWrite, restarts, stranded>>

-----------------------------------------------------------------------------
(* The receiver *)

\* receive_ship: the receiver afterwards and its answer.
Received(r, epoch, m) ==
    CASE r.phase = "standby" /\ m.epoch < r.observed ->
            [rcv |-> r, answer |-> "deposed"]
      [] r.phase = "standby" /\ m.epoch >= r.observed
            /\ ~CoversPredecessors(r.tail, m.epoch, m.seq, m.wm) ->
            [rcv |-> [r EXCEPT !.observed = m.epoch,
                               !.tail = ObserveCoverage(@, m.epoch, m.seq - 1, m.wm)],
             answer |-> "uncovered"]
      [] r.phase = "standby" /\ m.epoch >= r.observed
            /\ CoversPredecessors(r.tail, m.epoch, m.seq, m.wm) ->
            [rcv |-> [r EXCEPT !.observed = m.epoch,
                               !.tail = Prune(Accept(@, m.epoch, m.seq, m.id), m.wm)],
             answer |-> "accepted"]
      [] r.phase # "standby" ->
            [rcv |-> [r EXCEPT !.observed = Larger(@, m.epoch)],
             answer |-> IF m.epoch > epoch THEN "stale" ELSE "deposed"]

\* A ship request arrives at p, if its sender waits for it or long after.  A newer
\* writer's request revokes the lease of a serving receiver.
Deliver(m, p) ==
    LET result == Received(rcv[p], node[p].epoch, m)
    IN  /\ m.flying
        /\ p # m.from
        /\ node[p].role # "down"
        /\ ships' = (ships \ {m}) \cup {[m EXCEPT !.flying = FALSE]}
        /\ SetReceiver(p, result.rcv)
        /\ node' = [node EXCEPT
              ![m.from] = IF Waiting(m) THEN [@ EXCEPT !.answer = result.answer] ELSE @,
              ![p] = IF result.answer = "stale" THEN [@ EXCEPT !.lease = FALSE] ELSE @]
        /\ UNCHANGED <<disk, dbEpoch, owner, acked, nextWrite, restarts, stranded>>

\* The previous heartbeat was answered, or timed out.  None is sent during a repair.
SendBeat(n) ==
    /\ node[n].role = "serving" /\ ~node[n].repair
    /\ Set(n, [node[n] EXCEPT !.beat = [sent |-> TRUE, applied |-> node[n].applied,
                                        durable |-> node[n].wm]])
    /\ UNCHANGED <<disk, dbEpoch, owner, rcv, ships, acked, nextWrite, restarts, stranded>>

\* receive_heartbeat.  A quiesced standby ignores it; a fenced receiver notes a
\* newer writer.  A rejection, if heard, asks for a repair.
ReceiveBeat(n, p, heard) ==
    LET r == rcv[p]
        s == node[n]
        b == s.beat
        rejected == ~CoverageAnswer(r.tail, s.epoch, b.applied, b.durable)
    IN  /\ s.role = "serving" /\ b.sent /\ p # n
        /\ \/ /\ node[p].role = "standby" /\ s.epoch >= r.observed
              /\ SetReceiver(p, [r EXCEPT !.observed = s.epoch,
                                  !.tail = ObserveCoverage(@, s.epoch, b.applied, b.durable)])
              /\ Set(n, [s EXCEPT !.beat = NoBeat, !.repair = heard /\ rejected])
           \/ /\ r.phase = "fenced"
              /\ SetReceiver(p, [r EXCEPT !.observed = Larger(@, s.epoch)])
              /\ node' = [node EXCEPT ![n].beat = NoBeat,
                                      ![p].lease = @ /\ s.epoch <= node[p].epoch]
        /\ UNCHANGED <<disk, dbEpoch, owner, ships, acked, nextWrite, restarts, stranded>>

-----------------------------------------------------------------------------
(* Takeover *)

\* The durable claim.  Heartbeats are no longer acknowledged; ships still are.
Claim(n) ==
    /\ node[n].role = "standby"
    /\ owner' = n
    /\ Set(n, [Fresh EXCEPT !.role = "quiesced"])
    /\ UNCHANGED <<disk, dbEpoch, rcv, ships, acked, nextWrite, restarts, stranded>>

\* The claim was superseded: role election again.
LoseClaim(n) ==
    /\ node[n].role \in {"quiesced", "opened"} /\ owner # n
    /\ Set(n, Fresh)
    /\ UNCHANGED <<disk, dbEpoch, owner, rcv, ships, acked, nextWrite, restarts, stranded>>

\* After the claim grace, when the predecessor's lease is gone.
OpenDb(n) ==
    /\ node[n].role = "quiesced" /\ owner = n
    /\ dbEpoch < MaxEpoch
    /\ dbEpoch' = dbEpoch + 1
    /\ node' = [p \in Node |-> IF p = n THEN [Fresh EXCEPT !.role = "opened", !.epoch = dbEpoch + 1]
                                        ELSE [node[p] EXCEPT !.lease = FALSE]]
    /\ UNCHANGED <<disk, owner, rcv, ships, acked, nextWrite, restarts, stranded>>

\* begin_promotion: the tail is frozen, unless a newer writer has been seen, in
\* which case the writer is closed and opened again.
BeginPromotion(n) ==
    /\ node[n].role = "opened" /\ owner = n
    /\ \/ /\ rcv[n].observed <= node[n].epoch
          /\ Set(n, [node[n] EXCEPT !.role = "promoting", !.snap = rcv[n].observed])
          /\ SetReceiver(n, [rcv[n] EXCEPT !.phase = "fenced", !.observed = node[n].epoch])
       \/ /\ rcv[n].observed > node[n].epoch
          /\ Set(n, [Fresh EXCEPT !.role = "quiesced"])
          /\ UNCHANGED rcv
    /\ UNCHANGED <<disk, dbEpoch, owner, ships, acked, nextWrite, restarts, stranded>>

\* The replayed batches, in sequence order, without a stamp.
Replay(t) ==
    LET order == CHOOSE f \in [1..Cardinality(DOMAIN t.batches) -> DOMAIN t.batches] :
                    \A i, j \in DOMAIN f : i < j => f[i] < f[j]
    IN  [i \in DOMAIN order |-> Entry(t.batches[order[i]], NoStamp, 0)]

\* reconcile_durable_head, the coverage check, and the writes of the replay.
\* An incomplete prefix ends the process.
Reconcile(n) ==
    LET t == ReconciledTail(rcv[n].tail, disk.stamp)
    IN  /\ node[n].role = "promoting"
        /\ owner = n \/ ~Fenced(n)
        /\ \/ /\ HasUncoveredLineage(t, node[n].snap)
              /\ Dies(n)
           \/ /\ ~HasUncoveredLineage(t, node[n].snap)
              /\ Set(n, [node[n] EXCEPT !.role = "replaying", !.mem = Replay(t),
                                        !.proof = PreservesLineage(t, node[n].snap)])
              /\ SetReceiver(n, [rcv[n] EXCEPT !.tail = t])
              /\ UNCHANGED ships
        /\ UNCHANGED <<disk, dbEpoch, owner, acked, nextWrite, restarts, stranded>>

\* The replay is flushed, or there was nothing to replay.
FinishReplay(n) ==
    /\ node[n].role = "replaying"
    /\ \/ ~Fenced(n)
       \/ DOMAIN rcv[n].tail.batches = {}
    /\ disk' = Persisted(disk, node[n].mem)
    /\ Set(n, [node[n] EXCEPT !.role = "replayed", !.mem = <<>>])
    /\ SetReceiver(n, [rcv[n] EXCEPT !.tail = IF DOMAIN @.batches = {} THEN @ ELSE NoTail])
    /\ UNCHANGED <<dbEpoch, owner, ships, acked, nextWrite, restarts, stranded>>

\* The receiver is a standby's again, with the tail it had.
Returned(n, observed) ==
    /\ SetReceiver(n, [rcv[n] EXCEPT !.phase = "standby", !.observed = observed])
    /\ Set(n, [Fresh EXCEPT !.role = "quiesced"])

\* The writer turns out to be fenced during the replay (retry_role_after_close).
ReplayFenced(n) ==
    /\ node[n].role \in {"promoting", "replaying"} /\ Fenced(n)
    /\ Returned(n, Max({node[n].epoch + 1, node[n].snap, rcv[n].observed}))
    /\ UNCHANGED <<disk, dbEpoch, owner, ships, acked, nextWrite, restarts, stranded>>

\* complete_promotion
CompletePromotion(n) ==
    /\ node[n].role = "replayed"
    /\ \/ /\ rcv[n].observed > node[n].epoch
          /\ Returned(n, Larger(rcv[n].observed, node[n].snap))
       \/ /\ rcv[n].observed <= node[n].epoch
          /\ Set(n, [node[n] EXCEPT !.role = "promoted"])
          /\ UNCHANGED rcv
    /\ UNCHANGED <<disk, dbEpoch, owner, ships, acked, nextWrite, restarts, stranded>>

\* Ownership becomes Active and the lease is granted; resolve_lineage_token keeps
\* the stored token if the takeover proved coverage and the token is not tainted.
Serve(n) ==
    LET kept == node[n].proof /\ disk.lineage # 0 /\ disk.lineage # disk.taint
    IN  /\ node[n].role = "promoted" /\ owner = n
        /\ kept \/ ~Fenced(n)
        /\ disk' = IF kept THEN disk ELSE [disk EXCEPT !.lineage = node[n].epoch]
        /\ Set(n, [node[n] EXCEPT !.role = "serving", !.proof = FALSE, !.snap = 0,
                                  !.lease = rcv[n].observed <= node[n].epoch,
                                  !.token = disk'.lineage])
        /\ UNCHANGED <<dbEpoch, owner, rcv, ships, acked, nextWrite, restarts, stranded>>

\* What the death of n takes from the other node's account of it: the batch that n
\* accepted and its leader has still to apply, and those applied since the heartbeat
\* under way was sent, which tells a restarted n of less than it had.
Exposed(n) ==
    {m.id : m \in {x \in ships :
        LET s == node[x.from]
        IN  /\ x.from # n /\ x.epoch = s.epoch
            /\ \/ s.answer = "accepted" /\ x.id = s.write
               \/ s.beat.sent /\ x.seq \in (s.beat.applied + 1)..s.applied}}

\* A process dies, or fails on its way to serving.
Crash(n) ==
    /\ node[n].role # "down"
    /\ Dies(n)
    /\ stranded' = stranded \cup Exposed(n)
    /\ UNCHANGED <<disk, dbEpoch, owner, acked, nextWrite, restarts>>

Restart(n) ==
    /\ node[n].role = "down"
    /\ restarts < MaxRestarts
    /\ restarts' = restarts + 1
    /\ Set(n, Fresh)
    /\ UNCHANGED <<disk, dbEpoch, owner, rcv, ships, acked, nextWrite, stranded>>

NodeStep(n) ==
    \/ Persist(n) \/ ObserveDurable(n)
    \/ StartWrite(n) \/ WriteSolo(n) \/ BaseFlush(n) \/ SendShip(n)
    \/ ShipAccepted(n) \/ ShipUncovered(n) \/ ShipAmbiguous(n) \/ Reconnect(n) \/ StepDown(n)
    \/ SendBeat(n) \/ \E p \in Node, heard \in BOOLEAN : ReceiveBeat(n, p, heard)
    \/ Claim(n) \/ LoseClaim(n) \/ OpenDb(n) \/ BeginPromotion(n) \/ Reconcile(n)
    \/ FinishReplay(n) \/ ReplayFenced(n) \/ CompletePromotion(n) \/ Serve(n)
    \/ Crash(n) \/ Restart(n)

Next ==
    \/ \E n \in Node : NodeStep(n)
    \/ \E m \in ships, p \in Node : Deliver(m, p)
    \/ StrayOpen

Spec == Init /\ [][Next]_vars

\* The commit worker goes on: ships time out (SHIP_TIMEOUT), flushes end or end the
\* process, and a leader that may no longer write exits.  Heartbeats repeat, and
\* while there is a standby to hear them, some of them get through.
Fairness ==
    \A n \in Node :
       /\ WF_vars(\/ WriteSolo(n) \/ BaseFlush(n) \/ SendShip(n) \/ ShipAccepted(n)
                  \/ ShipUncovered(n) \/ ShipAmbiguous(n) \/ StepDown(n))
       /\ WF_vars(SendBeat(n))
       /\ SF_vars(\E p \in Node : ReceiveBeat(n, p, TRUE))

FairSpec == Spec /\ Fairness

-----------------------------------------------------------------------------
(* Properties *)

Entries == [id : 1..MaxWrites, own : BOOLEAN]

Stamps == [epoch : 0..MaxEpoch, shipped : 0..MaxWrites, solo : BOOLEAN, applied : 0..MaxWrites]

\* Types and the order of the leader's frontiers: a shipped stamp never passes the
\* applied one, nor that the next sequence, nor the watermark what is applied; a
\* tail keeps no batch above its highest known sequence.
TypeOK ==
    /\ disk.log \in Seq(Entries)
    /\ disk.stamp \in Stamps /\ disk.lineage \in 0..MaxEpoch /\ disk.taint \in 0..MaxEpoch
    /\ dbEpoch \in 0..MaxEpoch /\ owner \in Node \cup {NoNode}
    /\ \A n \in Node :
          /\ node[n].role \in Role
          /\ node[n].epoch <= dbEpoch /\ node[n].token <= node[n].epoch
          /\ node[n].shipped <= node[n].applied /\ node[n].applied < node[n].seq
          /\ node[n].wm <= node[n].applied
          /\ rcv[n].phase \in {"standby", "fenced"}
          /\ rcv[n].tail.epoch <= rcv[n].observed
          /\ DOMAIN rcv[n].tail.batches \subseteq 1..rcv[n].tail.max

\* Those of the writes W are there for n that were acknowledged under its token.
Keeps(n, W) ==
    \A a \in acked : a.token = node[n].token /\ a.id \in W =>
        a.id \in Ids(disk.log) \cup Ids(node[n].mem)

\* fsync is honest: whoever serves with a lineage token has every write that was
\* ever acknowledged under it, by itself or by its predecessors, however ships
\* were lost or late and whoever restarted with an empty tail.
LineageHonest ==
    \A n \in Node : node[n].role = "serving" /\ node[n].lease => Keeps(n, 1..MaxWrites)

\* The same but for the writes that a standby's death left to their leader alone
\* (stranded): a takeover that keeps the token loses no write through late or lost
\* ships, pruning, base repairs, replays, stale terms or restarts of either node at
\* any other moment, and no other write through a restart at that one.
OnlyStrandedLost ==
    \A n \in Node : node[n].role = "serving" /\ node[n].lease => Keeps(n, (1..MaxWrites) \ stranded)

\* What a standby has pruned, or was told is durable, is on shared storage.
PrunedIsDurable ==
    \A n \in Node : \A m \in ships :
        rcv[n].tail.epoch = m.epoch /\ m.seq <= rcv[n].tail.durable =>
            m.id \in Ids(disk.log)

\* Replay never repeats or undoes a write that its own leader made durable: after
\* such a write only newer ones reach the database, however late the ship of its
\* batch, or of an older one, arrived.
NoRegression ==
    \A i, j \in DOMAIN disk.log : i < j /\ disk.log[i].own => disk.log[i].id < disk.log[j].id

\* Every batch leaves the commit worker, acknowledged or failed: shipping, being
\* told that the base is missing, and flushing it do not go round in circles.
WriteSettles == \A n \in Node : node[n].op # "none" ~> node[n].op = "none"

\* A standby with a gap in front of it is repaired: while it has a leader, the gap
\* that a heartbeat revealed does not stay.
GapOf(n, p) ==
    /\ node[n].role = "serving" /\ node[p].role = "standby"
    /\ rcv[p].tail.epoch = node[n].epoch
    /\ HasUncoveredLineage(rcv[p].tail, rcv[p].observed)

GapsClose == \A n, p \in Node : GapOf(n, p) ~> ~GapOf(n, p)
=============================================================================
