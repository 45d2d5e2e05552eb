------------------------ MODULE ReplicationInvariants ------------------------
(***************************************************************************)
(* The inductive invariants of Replication: RepInv, of processes, epochs,  *)
(* watermarks, tails and the order of writes, and HonestInv, which adds    *)
(* what the lineage token needs.  ReplicationProofs.tla proves them.       *)
(***************************************************************************)
EXTENDS Replication

-----------------------------------------------------------------------------
(* Types *)

Batches == UNION {[D -> 1..MaxWrites] : D \in SUBSET (1..MaxWrites)}
Tails == [epoch : 0..MaxEpoch, batches : Batches, max : 0..MaxWrites, durable : 0..MaxWrites]
Receivers == [phase : {"standby", "fenced"}, observed : Nat, tail : Tails]
MemEntries == [id : 1..MaxWrites, stamp : Stamps, ship : 0..MaxWrites]
Beats == [sent : BOOLEAN, applied : 0..MaxWrites, durable : 0..MaxWrites]
Processes ==
    [role : Role, epoch : 0..MaxEpoch, lease : BOOLEAN, snap : Nat, proof : BOOLEAN,
     token : 0..MaxEpoch, mem : Seq(MemEntries), conn : BOOLEAN, seq : Nat,
     shipped : 0..MaxWrites, solo : BOOLEAN, applied : 0..MaxWrites, wm : 0..MaxWrites,
     dirty : BOOLEAN, repair : BOOLEAN, tainted : BOOLEAN, op : {"none", "ready", "sent"},
     write : 0..MaxWrites, answer : {"none", "accepted", "uncovered", "deposed", "stale"},
     beat : Beats]
Messages == [epoch : 1..MaxEpoch, seq : 1..MaxWrites, id : 1..MaxWrites, wm : 0..MaxWrites,
             from : Node, flying : BOOLEAN]
Disks == [log : Seq(Entries), stamp : Stamps, lineage : 0..MaxEpoch, taint : 0..MaxEpoch]

Types ==
    /\ disk \in Disks
    /\ dbEpoch \in 0..MaxEpoch /\ owner \in Node \cup {NoNode}
    /\ node \in [Node -> Processes]
    /\ rcv \in [Node -> Receivers]
    /\ ships \subseteq Messages
    /\ acked \subseteq [id : 1..MaxWrites, token : 0..MaxEpoch]
    /\ nextWrite \in 1..(MaxWrites + 1)
    /\ restarts \in Nat

-----------------------------------------------------------------------------
(* The inductive invariant *)

(* One process s, over the disk d, the ships S ever sent and the next write. *)

(* Sequences are used up in order, one per batch, and a stamp without Solo  *)
(* operation has shipped all it applied.                                    *)
Provenance(st) == st.shipped <= st.applied /\ (~st.solo => st.shipped = st.applied)
Frontier(s, next) ==
    /\ s.seq = s.applied + (IF s.op = "sent" THEN 2 ELSE 1)
    /\ Provenance(s)
    /\ s.wm <= s.applied /\ s.beat.durable <= s.applied /\ s.beat.applied <= s.applied
    /\ s.token <= s.epoch
    /\ s.op = "none" => s.applied < next
    /\ s.op # "none" => s.applied < s.write /\ s.write < next

(* One that does not serve yet has made no stamp and no ship.               *)
Quiescent(s) ==
    s.role # "serving" => /\ s.op = "none" /\ s.applied = 0
                          /\ \A i \in DOMAIN s.mem : s.mem[i].stamp = NoStamp /\ s.mem[i].ship = 0

(* Its ships are of batches it has applied, or of the one in its hands.     *)
InHands(s, S) ==
    \A m \in S : m.epoch = s.epoch =>
       \/ m.seq <= s.applied
       \/ m.seq = s.applied + 1 /\ s.op # "none" /\ m.id = s.write /\ s.conn

(* What an unflushed entry says of itself, and what comes after an own one. *)
MemoryOK(s, S, next) ==
    \A i \in DOMAIN s.mem :
       /\ s.mem[i].ship <= s.applied /\ s.mem[i].id < next
       /\ Own(s.mem[i]) =>
             /\ s.mem[i].stamp.epoch = s.epoch /\ s.mem[i].stamp.applied <= s.applied
             /\ Provenance(s.mem[i].stamp)
             /\ \A j \in DOMAIN s.mem : i < j => s.mem[i].id < s.mem[j].id
             /\ s.op # "none" => s.mem[i].id < s.write
             /\ \A m \in S : m.epoch = s.epoch /\ m.seq > s.mem[i].stamp.applied => s.mem[i].id < m.id

(* An applied ship is on shared storage or unflushed, before every stamp    *)
(* that claims it.                                                          *)
Unflushed(s, m, k) == \E j \in DOMAIN s.mem : j <= k /\ s.mem[j].ship = m.seq /\ s.mem[j].id = m.id
Kept(s, d, S) ==
    \A m \in S : m.epoch = s.epoch =>
       /\ m.seq <= s.applied => m.id \in Ids(d.log) \/ Unflushed(s, m, Len(s.mem))
       /\ \A i \in DOMAIN s.mem : Own(s.mem[i]) /\ m.seq <= s.mem[i].stamp.applied =>
             m.id \in Ids(d.log) \/ Unflushed(s, m, i)

(* What a leader made durable itself is older than x.                       *)
OwnBelow(d, x) == \A i \in DOMAIN d.log : d.log[i].own => d.log[i].id < x

ProcInv(s, d, S, next) ==
    /\ Frontier(s, next) /\ Quiescent(s) /\ InHands(s, S) /\ MemoryOK(s, S, next) /\ Kept(s, d, S)
    /\ s.op # "none" /\ s.epoch >= d.stamp.epoch => OwnBelow(d, s.write)
Processing == \A n \in Node : ProcInv(node[n], disk, ships, nextWrite)

(* An epoch belongs to one process, and an owner has the newest lineage.    *)
Epochs ==
    /\ \A n \in Node : /\ node[n].epoch <= dbEpoch
                       /\ node[n].epoch = 0 => node[n].role \in {"down", "standby", "quiesced"} /\ node[n].mem = <<>>
    /\ \A n, p \in Node : node[n].epoch = node[p].epoch /\ node[n].epoch > 0 => n = p
    /\ \A m \in ships : m.epoch <= dbEpoch
    /\ disk.lineage <= dbEpoch
    /\ \A n \in Node : owner = n /\ node[n].epoch > 0 => disk.lineage <= node[n].epoch

(* The ships of term e up to sequence k are on shared storage, and will be: *)
(* the leader of the term is past them.                                     *)
DurableTo(e, k) ==
    /\ e <= dbEpoch
    /\ \A m \in ships : m.epoch = e /\ m.seq <= k => m.id \in Ids(disk.log)
    /\ \A n \in Node : node[n].epoch = e /\ e > 0 => k <= node[n].applied

(* Every watermark, wherever it has got to, is such a frontier.             *)
Watermarks ==
    /\ \A n \in Node : DurableTo(node[n].epoch, node[n].wm) /\ DurableTo(node[n].epoch, node[n].beat.durable)
    /\ \A m \in ships : DurableTo(m.epoch, m.wm)
    /\ \A n \in Node : DurableTo(rcv[n].tail.epoch, rcv[n].tail.durable)
    /\ DurableTo(disk.stamp.epoch, disk.stamp.applied)
    /\ Provenance(disk.stamp)

(* A tail holds what was shipped in the term it is of; a receiver past its  *)
(* promotion is fenced.                                                     *)
Shipped(e, k, w) == \E m \in ships : m.epoch = e /\ m.seq = k /\ m.id = w
TailOK(t) ==
    /\ DOMAIN t.batches \subseteq 1..t.max
    /\ \A k \in DOMAIN t.batches : Shipped(t.epoch, k, t.batches[k])
Receiving ==
    \A n \in Node :
       /\ TailOK(rcv[n].tail) /\ rcv[n].tail.epoch <= rcv[n].observed
       /\ node[n].role \in {"promoting", "replaying", "replayed", "promoted", "serving"}
             => rcv[n].phase = "fenced"
       /\ node[n].role = "replaying" /\ DOMAIN rcv[n].tail.batches = {} => node[n].mem = <<>>

(* Order: a batch that the last stamp does not claim, or that the current   *)
(* writer has not flushed, is newer than every own write on shared storage. *)
After(m, st) == m.epoch > st.epoch \/ (m.epoch = st.epoch /\ m.seq > st.applied)
Ordered ==
    /\ NoRegression
    /\ OwnBelow(disk, nextWrite)
    /\ \A m \in ships : m.id < nextWrite /\ (After(m, disk.stamp) => OwnBelow(disk, m.id))
    /\ \A n \in Node : ~Fenced(n) => \A i \in DOMAIN node[n].mem : OwnBelow(disk, node[n].mem[i].id)

RepInv == Types /\ Processing /\ Epochs /\ Watermarks /\ Receiving /\ Ordered

-----------------------------------------------------------------------------
(* The lineage token: the inductive invariant *)

(* What was acknowledged under the lineage in force, is not stranded and is *)
(* not on shared storage, and whether the next server may keep the lineage. *)
Missing == {w \in 1..MaxWrites : [id |-> w, token |-> disk.lineage] \in acked} \ (Ids(disk.log) \cup stranded)
Clean == disk.lineage # disk.taint

(* The term of n is the newest there is.                                    *)
Latest(n) ==
    /\ \A p \in Node : p # n => node[p].epoch < node[n].epoch /\ ~node[p].lease
    /\ \A m \in ships : m.epoch <= node[n].epoch
    /\ disk.stamp.epoch <= node[n].epoch

(* A lease belongs to the last process that opened the database for its     *)
(* claim, and to the lineage in force.                                      *)
Leases ==
    \A n \in Node : node[n].lease =>
       /\ node[n].role = "serving" /\ node[n].token = disk.lineage /\ Latest(n)
       /\ \A p \in Node : p # n /\ owner = p => node[p].epoch = 0
Owning ==
    \A n \in Node : owner = n /\ node[n].epoch > 0 =>
       Latest(n) /\ (node[n].role # "serving" => disk.lineage < node[n].epoch)

(* Tokens only grow; who wrote alone under the lineage in force tainted it. *)
Tokens ==
    /\ \A a \in acked : a.token <= disk.lineage
    /\ disk.taint <= disk.lineage
    /\ \A n \in Node : node[n].role = "serving" /\ node[n].token = disk.lineage /\ node[n].tainted =>
          disk.taint = disk.lineage
    /\ \A n \in Node : node[n].role # "serving" =>
          ~node[n].tainted /\ node[n].answer = "none" /\ ~node[n].beat.sent

(* A sequence of a term is one batch of one node.  As long as no answer was *)
(* missed, a request in flight is the one its sender waits for.             *)
Sending ==
    /\ \A m, x \in ships : m.epoch = x.epoch /\ m.seq = x.seq => m.id = x.id
    /\ \A n \in Node : \A m \in ships : m.epoch = node[n].epoch => m.from = n
    /\ \A n \in Node : node[n].op = "sent" => Shipped(node[n].epoch, node[n].seq - 1, node[n].write)
    /\ \A n \in Node : \A m \in ships : ~node[n].tainted /\ m.flying /\ m.epoch = node[n].epoch =>
          Waiting(m) /\ \A x \in ships : x.flying /\ x.epoch = m.epoch => x = m
    /\ \A n \in Node : node[n].answer # "none" => node[n].op = "sent"

(* The roles from the promotion on.                                         *)
Promoted == {"promoting", "replaying", "replayed", "promoted", "serving"}

(* A promoted receiver is fenced, and its tail is not of a later term; a    *)
(* tail knows of no batch that its leader has not sent.                     *)
Fences ==
    /\ \A n \in Node : rcv[n].phase = "fenced" =>
          node[n].role \in Promoted /\ node[n].epoch <= rcv[n].observed /\ rcv[n].tail.epoch <= node[n].epoch
    /\ \A n, p \in Node : rcv[p].tail.epoch = node[n].epoch /\ node[n].epoch > 0 =>
          rcv[p].tail.max <= node[n].applied + 1

(* The tail has all that s has applied of its term.                         *)
UpToDate(t, s) == t.epoch = s.epoch /\ Covered(t) /\ s.applied <= t.max

(* A batch that is stranded before it is applied was accepted.  What is     *)
(* applied is not in the worker's hands again.                              *)
Told(n) == node[n].answer = "accepted" => node[n].write \notin stranded
Stranding(n) ==
    node[n].op # "none" =>
       /\ node[n].write \in stranded => node[n].answer = "accepted"
       /\ \A m \in ships : m.epoch = node[n].epoch /\ m.seq <= node[n].applied => m.id # node[n].write
Exposing == (\A w \in stranded : w \in Nat /\ w < nextWrite) /\ \A n \in Node : Stranding(n)

(* What the leader was told is accepted, the standby has, unless it died.   *)
Accepting ==
    \A n, p \in Node : p # n /\ node[n].lease /\ ~node[n].tainted /\ node[n].answer = "accepted" /\ Told(n) =>
       /\ rcv[p].phase = "standby" /\ rcv[p].observed = node[n].epoch
       /\ UpToDate(rcv[p].tail, node[n]) /\ node[n].seq - 1 <= rcv[p].tail.max

(* Batch k of term e is of the last term that served, applied, and older    *)
(* than what is in flight; what is in flight from older terms comes too     *)
(* late.                                                                    *)
Newest(e, k) ==
    /\ \A m \in ships : m.epoch <= e /\ (m.flying /\ m.epoch = e => k < m.seq)
    /\ \A m \in ships : m.flying /\ m.epoch < e => \A p \in Node : p # m.from => e <= rcv[p].observed
    /\ disk.stamp.epoch <= e
    /\ \A n \in Node : node[n].epoch = e =>
          node[n].role = "serving" /\ node[n].token = disk.lineage /\ k <= node[n].applied
    /\ \A n \in Node : node[n].role \in Promoted => e <= node[n].epoch
    /\ \A n \in Node : node[n].role = "serving" => node[n].epoch = e

(* A tail that a takeover would go by knows of batch k of term e ...        *)
Term(n) == IF node[n].role = "promoting" THEN node[n].snap ELSE rcv[n].observed
Knows(n, e, k) ==
    /\ node[n].role \notin {"replaying", "replayed", "promoted", "serving"}
    /\ 0 < rcv[n].tail.max /\ rcv[n].tail.epoch = Term(n)
    => rcv[n].tail.epoch = e /\ k <= rcv[n].tail.max
(* ... and so does a heartbeat under way, unless the tail needs none.       *)
Tells(n, p, e, k) ==
    node[n].epoch = e /\ node[n].beat.sent =>
       k <= node[n].beat.applied \/ (UpToDate(rcv[p].tail, node[n]) /\ Told(n))
Held(e, k) ==
    /\ Newest(e, k)
    /\ \A n \in Node : Knows(n, e, k)
    /\ \A n, p \in Node : p # n => Tells(n, p, e, k)
Recoverable ==
    Clean => \A w \in Missing : \E e \in 1..MaxEpoch, k \in 1..MaxWrites : Shipped(e, k, w) /\ Held(e, k)

(* A takeover that proved coverage has, or had flushed, what is missing.    *)
Replayed(n) == \A k \in DOMAIN rcv[n].tail.batches : rcv[n].tail.batches[k] \in Ids(disk.log) \cup Ids(node[n].mem)
Proven ==
    \A n \in Node :
       /\ node[n].role = "replaying" => Replayed(n)
       /\ node[n].proof => node[n].role \in {"replaying", "replayed", "promoted"}
       /\ owner = n /\ node[n].proof /\ Clean =>
             /\ Missing \subseteq Ids(node[n].mem)
             /\ node[n].role # "replaying" => Missing = {}

HonestInv ==
    /\ Leases /\ Owning /\ Tokens /\ Sending /\ Fences /\ Exposing /\ Accepting /\ Recoverable /\ Proven
    /\ OnlyStrandedLost
=============================================================================
