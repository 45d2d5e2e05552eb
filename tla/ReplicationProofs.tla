-------------------------- MODULE ReplicationProofs --------------------------
(***************************************************************************)
(* The replication data path of Replication, for any number of writes,     *)
(* epochs and restarts:                                                    *)
(*   - what a standby has pruned is on shared storage;                     *)
(*   - no replay repeats or undoes a write its own leader made durable;    *)
(*   - whoever serves under a lineage token has every write acknowledged   *)
(*     under it, but for those that the death of a standby left to their   *)
(*     leader alone (stranded).                                            *)
(* They rest on the inductive invariants of ReplicationInvariants: RepInv, *)
(* and HonestInv for what the lineage token needs.                         *)
(***************************************************************************)
EXTENDS ReplicationInvariants, NaturalsFacts, FiniteSetTheorems, TLAPS

-----------------------------------------------------------------------------
(* The standby's tail *)

\* The assumptions on the constants, in the form the proofs use.
LEMMA Constants == MaxWrites \in Nat /\ MaxEpoch \in Nat /\ NoNode \notin Node
  BY ReplicationBounds, ReplicationNodes

\* The numbers in an entry.
LEMMA EntryTypes ==
    ASSUME NEW x \in MemEntries
    PROVE  x.id \in Nat /\ x.ship \in Nat /\ x.stamp \in Stamps /\ x.stamp.applied \in Nat
  <1>1. x.id \in 1..MaxWrites /\ x.ship \in 0..MaxWrites /\ x.stamp \in Stamps
    BY DEF MemEntries
  <1>2. x.stamp.applied \in 0..MaxWrites
    BY <1>1 DEF Stamps
  <1>. QED
    BY <1>1, <1>2, Constants

\* The numbers in a process.
LEMMA ProcessTypes ==
    ASSUME NEW s \in Processes
    PROVE  /\ s.epoch \in Nat /\ s.applied \in Nat /\ s.write \in Nat /\ s.wm \in Nat
           /\ s.beat.durable \in Nat /\ s.beat.applied \in Nat
           /\ s.mem \in Seq(MemEntries) /\ \A i \in DOMAIN s.mem : s.mem[i] \in MemEntries
  <1>1. /\ s.epoch \in 0..MaxEpoch /\ s.applied \in 0..MaxWrites /\ s.write \in 0..MaxWrites
        /\ s.wm \in 0..MaxWrites /\ s.beat \in Beats /\ s.mem \in Seq(MemEntries)
    BY DEF Processes
  <1>2. s.beat.durable \in 0..MaxWrites /\ s.beat.applied \in 0..MaxWrites
    BY <1>1 DEF Beats
  <1>3. \A i \in DOMAIN s.mem : s.mem[i] \in MemEntries
    BY <1>1
  <1>. QED
    BY <1>1, <1>2, <1>3, Constants

\* Kept batches are a function from sequences to writes.
LEMMA BatchesFacts ==
    ASSUME NEW b
    PROVE  b \in Batches <=> /\ DOMAIN b \subseteq 1..MaxWrites
                             /\ b \in [DOMAIN b -> 1..MaxWrites]
  <1>1. b \in Batches => DOMAIN b \subseteq 1..MaxWrites /\ b \in [DOMAIN b -> 1..MaxWrites]
    BY DEF Batches
  <1>2. DOMAIN b \subseteq 1..MaxWrites /\ b \in [DOMAIN b -> 1..MaxWrites] => b \in Batches
    BY DEF Batches
  <1>. QED
    BY <1>1, <1>2

\* A tail nobody has shipped to.
LEMMA NoTailFacts ==
    /\ NoTail \in Tails /\ NoTail.epoch = 0 /\ NoTail.durable = 0 /\ DOMAIN NoTail.batches = {}
    /\ \A e \in 0..MaxEpoch :
          /\ [NoTail EXCEPT !.epoch = e] \in Tails
          /\ [NoTail EXCEPT !.epoch = e].epoch = e /\ [NoTail EXCEPT !.epoch = e].durable = 0
          /\ DOMAIN [NoTail EXCEPT !.epoch = e].batches = {}
  <1>1. <<>> \in Batches
    <2>1. <<>> \in [{} -> 1..MaxWrites]
      OBVIOUS
    <2>. QED
      BY <2>1 DEF Batches
  <1>2. DOMAIN <<>> = {}
    OBVIOUS
  <1>. QED
    BY <1>1, <1>2, Constants DEF NoTail, Tails

\* Pruning keeps the batches above the watermark.
LEMMA PruneFacts ==
    ASSUME NEW t \in Tails, NEW w \in 0..MaxWrites
    PROVE  /\ Prune(t, w) \in Tails
           /\ Prune(t, w).epoch = t.epoch /\ Prune(t, w).max = t.max
           /\ Prune(t, w).durable = Larger(t.durable, w)
           /\ DOMAIN Prune(t, w).batches = {s \in DOMAIN t.batches : s > w}
           /\ \A s \in DOMAIN Prune(t, w).batches : Prune(t, w).batches[s] = t.batches[s]
  <1>. DEFINE b == [s \in {s \in DOMAIN t.batches : s > w} |-> t.batches[s]]
  <1>1. DOMAIN b \subseteq DOMAIN t.batches /\ \A s \in DOMAIN b : b[s] = t.batches[s]
    OBVIOUS
  <1>2. b \in Batches
    <2>1. t.batches \in Batches
      BY DEF Tails
    <2>. QED
      BY <2>1, BatchesFacts
  <1>3. Larger(t.durable, w) \in 0..MaxWrites
    BY DEF Larger, Tails
  <1>4. Prune(t, w) = [t EXCEPT !.durable = Larger(t.durable, w), !.batches = b]
    BY DEF Prune
  <1>5. DOMAIN b = {s \in DOMAIN t.batches : s > w}
    OBVIOUS
  <1>. HIDE DEF b
  <1>. QED
    BY <1>1, <1>2, <1>3, <1>4, <1>5 DEF Tails

\* Accepting adds one batch, to the tail of its term.
LEMMA AcceptFacts ==
    ASSUME NEW t \in Tails, NEW e \in 1..MaxEpoch, NEW k \in 1..MaxWrites, NEW w \in 1..MaxWrites, e >= t.epoch
    PROVE  LET u == Accept(t, e, k, w)
           IN  /\ u \in Tails /\ u.epoch = e
               /\ u.durable = IF e = t.epoch THEN t.durable ELSE 0
               /\ k \in DOMAIN u.batches /\ u.batches[k] = w
               /\ \A s \in DOMAIN u.batches : s # k => /\ e = t.epoch /\ s \in DOMAIN t.batches
                                                       /\ u.batches[s] = t.batches[s]
               /\ u.max = Larger(IF e = t.epoch THEN t.max ELSE 0, k)
               /\ DOMAIN u.batches = (IF e = t.epoch THEN DOMAIN t.batches ELSE {}) \cup {k}
  <1>1. t.epoch \in 0..MaxEpoch /\ t.batches \in Batches /\ t.max \in 0..MaxWrites /\ t.durable \in 0..MaxWrites
    BY DEF Tails
  <1>2. PICK u : u = TailOf(t, e)
    OBVIOUS
  <1>3. /\ u \in Tails /\ u.epoch = e /\ u.durable = (IF e = t.epoch THEN t.durable ELSE 0)
        /\ u.max = (IF e = t.epoch THEN t.max ELSE 0)
        /\ e = t.epoch => u.batches = t.batches
        /\ e # t.epoch => DOMAIN u.batches = {}
    <2>1. CASE e = t.epoch
      BY <1>1, <1>2, <2>1 DEF TailOf
    <2>2. CASE e > t.epoch
      <3>1. u = [NoTail EXCEPT !.epoch = e]
        BY <1>2, <2>2 DEF TailOf
      <3>2. u.max = 0
        BY <3>1 DEF NoTail
      <3>3. e # t.epoch /\ e \in 0..MaxEpoch
        BY <1>1, <2>2
      <3>. QED
        BY <3>1, <3>2, <3>3, NoTailFacts
    <2>. QED
      BY <1>1, <2>1, <2>2
  <1>. DEFINE b == [s \in DOMAIN u.batches \cup {k} |-> IF s = k THEN w ELSE u.batches[s]]
  <1>4. /\ b \in Batches /\ DOMAIN b = DOMAIN u.batches \cup {k} /\ b[k] = w
        /\ \A s \in DOMAIN u.batches : s # k => b[s] = u.batches[s]
    <2>1. u.batches \in Batches
      BY <1>3 DEF Tails
    <2>. QED
      BY <2>1, BatchesFacts
  <1>5. Larger(u.max, k) \in 0..MaxWrites
    BY <1>3 DEF Larger, Tails
  <1>6. Accept(t, e, k, w) = [u EXCEPT !.max = Larger(u.max, k), !.batches = b]
    BY <1>1, <1>2 DEF Accept
  <1>. HIDE DEF b
  <1>7. PICK a : a = Accept(t, e, k, w)
    OBVIOUS
  <1>8. /\ a \in Tails /\ a.epoch = u.epoch /\ a.durable = u.durable /\ a.batches = b
        /\ a.max = Larger(u.max, k)
    BY <1>3, <1>4, <1>5, <1>6, <1>7 DEF Tails
  <1>. QED
    BY <1>3, <1>4, <1>7, <1>8

\* The frontiers of a heartbeat, or of a rejected ship, that a tail takes over.
LEMMA ObserveApplies ==
    ASSUME NEW t \in Tails, NEW e \in 0..MaxEpoch, NEW a \in 0..MaxWrites, NEW d \in 0..MaxWrites,
           ~(e < t.epoch \/ (e > t.epoch /\ a = 0))
    PROVE  LET u == ObserveCoverage(t, e, a, d)
           IN  /\ u \in Tails /\ u.epoch = e /\ e >= t.epoch
               /\ u.durable = Larger(IF e = t.epoch THEN t.durable ELSE 0, d)
               /\ u.max = Larger(IF e = t.epoch THEN t.max ELSE 0, a)
               /\ DOMAIN u.batches = {s \in (IF e = t.epoch THEN DOMAIN t.batches ELSE {}) : s > d}
               /\ \A s \in DOMAIN u.batches : u.batches[s] = t.batches[s]
  <1>1. t.epoch \in 0..MaxEpoch /\ t.batches \in Batches /\ t.max \in 0..MaxWrites /\ t.durable \in 0..MaxWrites
    BY DEF Tails
  <1>2. PICK v : v = TailOf(t, e)
    OBVIOUS
  <1>3. /\ v \in Tails /\ v.epoch = e /\ v.durable = (IF e = t.epoch THEN t.durable ELSE 0)
        /\ v.max = (IF e = t.epoch THEN t.max ELSE 0)
        /\ e = t.epoch => v.batches = t.batches
        /\ e # t.epoch => DOMAIN v.batches = {}
    <2>1. CASE e = t.epoch
      BY <1>1, <1>2, <2>1 DEF TailOf
    <2>2. CASE e > t.epoch
      <3>1. v = [NoTail EXCEPT !.epoch = e]
        BY <1>2, <2>2 DEF TailOf
      <3>2. v.max = 0
        BY <3>1 DEF NoTail
      <3>. QED
        BY <1>1, <2>2, <3>1, <3>2, NoTailFacts
    <2>. QED
      BY <1>1, <2>1, <2>2
  <1>4. PICK x : x = [v EXCEPT !.max = Larger(v.max, a)]
    OBVIOUS
  <1>5. /\ x \in Tails /\ x.epoch = e /\ x.durable = v.durable /\ x.batches = v.batches
        /\ x.max = Larger(v.max, a)
    <2>1. Larger(v.max, a) \in 0..MaxWrites
      BY <1>3 DEF Larger, Tails
    <2>. QED
      BY <1>3, <1>4, <2>1 DEF Tails
  <1>6. ObserveCoverage(t, e, a, d) = Prune(x, d)
    BY <1>2, <1>4 DEF ObserveCoverage
  <1>7. e >= t.epoch
    BY <1>1
  <1>. QED
    BY <1>3, <1>5, <1>6, <1>7, PruneFacts

\* A heartbeat's or a rejected ship's frontiers prune a tail, or start an empty one.
LEMMA ObserveFacts ==
    ASSUME NEW t \in Tails, NEW e \in 0..MaxEpoch, NEW a \in 0..MaxWrites, NEW d \in 0..MaxWrites
    PROVE  LET u == ObserveCoverage(t, e, a, d)
           IN  \/ u = t
               \/ /\ u \in Tails /\ u.epoch = e /\ e >= t.epoch
                  /\ u.durable = Larger(IF e = t.epoch THEN t.durable ELSE 0, d)
                  /\ u.max = Larger(IF e = t.epoch THEN t.max ELSE 0, a)
                  /\ DOMAIN u.batches = {s \in (IF e = t.epoch THEN DOMAIN t.batches ELSE {}) : s > d}
                  /\ \A s \in DOMAIN u.batches : u.batches[s] = t.batches[s]
  BY ObserveApplies DEF ObserveCoverage

\* Reconciling with the durable head drops the tail, keeps it or prunes it.
LEMMA ReconciledFacts ==
    ASSUME NEW t \in Tails, NEW st \in Stamps
    PROVE  LET u == ReconciledTail(t, st)
           IN  /\ u \in Tails
               /\ \/ u = NoTail
                  \/ st.epoch < t.epoch /\ u = t
                  \/ st.epoch = t.epoch /\ u = Prune(t, IF st.solo THEN st.applied ELSE st.shipped)
  <1>1. t.epoch \in Nat /\ st.epoch \in Nat /\ st.applied \in 0..MaxWrites /\ st.shipped \in 0..MaxWrites
    BY Constants DEF Tails, Stamps
  <1>2. \/ st.epoch > t.epoch /\ ReconciledTail(t, st) = NoTail
        \/ st.epoch < t.epoch /\ ReconciledTail(t, st) = t
        \/ st.epoch = t.epoch /\ ReconciledTail(t, st) = Prune(t, IF st.solo THEN st.applied ELSE st.shipped)
    BY <1>1 DEF ReconciledTail
  <1>3. (IF st.solo THEN st.applied ELSE st.shipped) \in 0..MaxWrites
    BY <1>1
  <1>4. Prune(t, IF st.solo THEN st.applied ELSE st.shipped) \in Tails /\ NoTail \in Tails
    BY <1>3, PruneFacts, NoTailFacts
  <1>. QED
    BY <1>2, <1>4

-----------------------------------------------------------------------------
(* The database *)

(* p is the database d after a flush of the entries s.                      *)
FlushedTo(d, s, p) ==
    /\ p \in Disks /\ p.lineage = d.lineage /\ p.taint = d.taint
    /\ DOMAIN p.log = 1..(Len(d.log) + Len(s))
    /\ \A i \in DOMAIN d.log : p.log[i] = d.log[i]
    /\ \A i \in DOMAIN s : p.log[Len(d.log) + i].id = s[i].id /\ p.log[Len(d.log) + i].own = Own(s[i])
    /\ \/ p.stamp = d.stamp /\ \A i \in DOMAIN s : ~Own(s[i])
       \/ \E l \in DOMAIN s : /\ Own(s[l]) /\ p.stamp = s[l].stamp
                              /\ \A i \in DOMAIN s : Own(s[i]) => i <= l

\* A flush appends the entries in order, and the last stamp among them stays.
LEMMA PersistedFacts ==
    ASSUME NEW d \in Disks, NEW s \in Seq(MemEntries)
    PROVE  FlushedTo(d, s, Persisted(d, s))
  <1>. DEFINE stamped == {i \in DOMAIN s : Own(s[i])}
              new == [i \in DOMAIN s |-> [id |-> s[i].id, own |-> Own(s[i])]]
              log == d.log \o new
              st == IF stamped = {} THEN d.stamp ELSE s[Max(stamped)].stamp
              p == Persisted(d, s)
  <1>1. d.log \in Seq(Entries) /\ d.stamp \in Stamps
    BY DEF Disks
  <1>2. \A i \in DOMAIN s : s[i] \in MemEntries /\ Own(s[i]) \in BOOLEAN
    BY DEF Own
  <1>3. new \in Seq(Entries) /\ Len(new) = Len(s)
    <2>1. DOMAIN s = 1..Len(s) /\ Len(s) \in Nat
      OBVIOUS
    <2>2. \A i \in DOMAIN s : [id |-> s[i].id, own |-> Own(s[i])] \in Entries
      BY <1>2 DEF MemEntries, Entries
    <2>. QED
      BY <2>1, <2>2
  <1>4. \A i \in DOMAIN s : new[i].id = s[i].id /\ new[i].own = Own(s[i])
    OBVIOUS
  <1>. HIDE DEF new
  <1>5. /\ log \in Seq(Entries) /\ DOMAIN log = 1..(Len(d.log) + Len(s))
        /\ \A i \in DOMAIN d.log : log[i] = d.log[i]
        /\ \A i \in DOMAIN s : log[Len(d.log) + i] = new[i]
    <2>1. PICK a, b \in Seq(Entries) : a = d.log /\ b = new
      BY <1>1, <1>3
    <2>2. /\ a \o b \in Seq(Entries) /\ Len(a \o b) = Len(a) + Len(b) /\ DOMAIN (a \o b) = 1..(Len(a) + Len(b))
          /\ DOMAIN a = 1..Len(a) /\ Len(a) \in Nat /\ Len(b) \in Nat
      OBVIOUS
    <2>3. \A i \in 1..Len(a) : (a \o b)[i] = a[i]
      BY <2>2
    <2>4. \A i \in 1..Len(b) : (a \o b)[Len(a) + i] = b[i]
      BY <2>2
    <2>5. DOMAIN s = 1..Len(b)
      BY <1>3, <2>1
    <2>. QED
      BY <2>1, <2>2, <2>3, <2>4, <2>5, <1>3
  <1>6. /\ st \in Stamps
        /\ \/ st = d.stamp /\ \A i \in DOMAIN s : ~Own(s[i])
           \/ \E l \in DOMAIN s : /\ Own(s[l]) /\ st = s[l].stamp
                                  /\ \A i \in DOMAIN s : Own(s[i]) => i <= l
    <2>1. CASE stamped = {}
      BY <1>1, <2>1
    <2>2. CASE stamped # {}
      <3>1. stamped \subseteq Nat /\ Len(s) \in Nat /\ \A i \in stamped : i <= Len(s)
        OBVIOUS
      <3>2. Max(stamped) \in stamped /\ \A i \in stamped : i <= Max(stamped)
        <4>. HIDE DEF stamped
        <4>. QED
          BY <2>2, <3>1, GreatestElement
      <3>3. PICK l \in DOMAIN s : l = Max(stamped)
        BY <3>2
      <3>4. s[l].stamp \in Stamps
        BY <1>2 DEF MemEntries
      <3>5. Own(s[l]) /\ st = s[l].stamp /\ \A i \in DOMAIN s : Own(s[i]) => i <= l
        BY <2>2, <3>2, <3>3
      <3>. QED
        BY <3>4, <3>5
    <2>. QED
      BY <2>1, <2>2
  <1>7. p = [d EXCEPT !.log = log, !.stamp = st]
    BY DEF Persisted, new
  <1>. HIDE DEF log, st, p
  <1>8. p \in Disks /\ p.lineage = d.lineage /\ p.taint = d.taint /\ p.log = log /\ p.stamp = st
    BY <1>5, <1>6, <1>7 DEF Disks
  <1>9. \A i \in DOMAIN s : p.log[Len(d.log) + i].id = s[i].id /\ p.log[Len(d.log) + i].own = Own(s[i])
    BY <1>4, <1>5, <1>8
  <1>. QED
    BY <1>5, <1>6, <1>8, <1>9 DEF FlushedTo, p

\* The database grows, and its stamp changes only together with own entries.
Grows(d, p, e) ==
    /\ Ids(d.log) \subseteq Ids(p.log)
    /\ \/ p.stamp.epoch = e
       \/ p.stamp = d.stamp /\ \A x : OwnBelow(d, x) => OwnBelow(p, x)

(* What the log says of itself and of the ships: no regression; what the    *)
(* stamp claims is there, and what it does not claim is newer.              *)
LogOK(d, S, next) ==
    /\ \A i, j \in DOMAIN d.log : i < j /\ d.log[i].own => d.log[i].id < d.log[j].id
    /\ OwnBelow(d, next)
    /\ \A m \in S : After(m, d.stamp) => OwnBelow(d, m.id)
    /\ \A m \in S : m.epoch = d.stamp.epoch /\ m.seq <= d.stamp.applied => m.id \in Ids(d.log)
    /\ Provenance(d.stamp)

(* The parts of ProcInv that depend on the entries.                         *)
EntriesOK(s, d, S, next) ==
    /\ InHands(s, S) /\ MemoryOK(s, S, next) /\ Kept(s, d, S)
    /\ s.op # "none" /\ s.epoch >= d.stamp.epoch => OwnBelow(d, s.write)

\* A prefix of a process's memory, and the rest.
LEMMA SplitFacts ==
    ASSUME NEW mem \in Seq(MemEntries), NEW k \in 0..Len(mem)
    PROVE  /\ SubSeq(mem, 1, k) \in Seq(MemEntries) /\ Len(SubSeq(mem, 1, k)) = k
           /\ \A i \in 1..k : SubSeq(mem, 1, k)[i] = mem[i]
           /\ SubSeq(mem, k + 1, Len(mem)) \in Seq(MemEntries)
           /\ Len(SubSeq(mem, k + 1, Len(mem))) = Len(mem) - k
           /\ \A i \in 1..(Len(mem) - k) : SubSeq(mem, k + 1, Len(mem))[i] = mem[i + k]
           /\ DOMAIN mem = 1..Len(mem) /\ Len(mem) \in Nat
  OBVIOUS

(* p is d after the current writer s has flushed the first k of its entries. *)
FlushOf(s, d, S, next, k, p) ==
    /\ p \in Disks /\ p.lineage = d.lineage /\ p.taint = d.taint
    /\ LogOK(p, S, next) /\ Grows(d, p, s.epoch)
    /\ \A i \in DOMAIN s.mem : i > k => OwnBelow(p, s.mem[i].id)
    /\ \A i \in 1..k : s.mem[i].id \in Ids(p.log)
    /\ (p.stamp.epoch = s.epoch /\ p.stamp.applied <= s.applied) \/ p.stamp = d.stamp
    /\ s.op # "none" /\ s.epoch >= p.stamp.epoch => OwnBelow(p, s.write)

\* The current writer's flush of the first k of its entries.
LEMMA FlushLog ==
    ASSUME NEW s \in Processes, NEW d \in Disks, NEW S \in SUBSET Messages, NEW next \in 1..(MaxWrites + 1),
           NEW k \in 0..Len(s.mem), EntriesOK(s, d, S, next), LogOK(d, S, next),
           \A m \in S : m.epoch <= s.epoch,
           \A i \in DOMAIN s.mem : OwnBelow(d, s.mem[i].id),
           NEW p, p = Persisted(d, SubSeq(s.mem, 1, k))
    PROVE  FlushOf(s, d, S, next, k, p)
  <1>. DEFINE mem == s.mem  q == SubSeq(mem, 1, k)
  <1>1. mem \in Seq(MemEntries) /\ DOMAIN mem = 1..Len(mem) /\ Len(mem) \in Nat
    BY DEF Processes
  <1>2. q \in Seq(MemEntries) /\ DOMAIN q = 1..k /\ \A i \in 1..k : q[i] = mem[i] /\ i \in DOMAIN mem
    BY <1>1, SplitFacts
  <1>. DEFINE n == Len(d.log)
  <1>3. d.log \in Seq(Entries) /\ n \in Nat /\ DOMAIN d.log = 1..n
    BY DEF Disks
  <1>0. /\ \A i \in DOMAIN mem : mem[i].id \in Nat
        /\ \A i \in DOMAIN d.log : d.log[i].id \in Nat
        /\ s.write \in Nat
    <2>1. \A i \in DOMAIN mem : mem[i] \in MemEntries
      BY <1>1
    <2>2. \A i \in DOMAIN d.log : d.log[i] \in Entries
      BY <1>3
    <2>3. \A x \in Entries : x.id \in Nat
      BY Constants DEF Entries
    <2>. QED
      BY <2>1, <2>2, <2>3, EntryTypes, ProcessTypes
  <1>. HIDE DEF q
  <1>4. /\ p \in Disks /\ p.lineage = d.lineage /\ p.taint = d.taint
        /\ DOMAIN p.log = 1..(n + k)
        /\ \A i \in 1..n : p.log[i] = d.log[i]
        /\ \A i \in 1..k : p.log[n + i].id = mem[i].id /\ p.log[n + i].own = Own(mem[i])
        /\ \/ p.stamp = d.stamp /\ \A i \in 1..k : ~Own(mem[i])
           \/ \E l \in 1..k : Own(mem[l]) /\ p.stamp = mem[l].stamp /\ \A i \in 1..k : Own(mem[i]) => i <= l
    <2>1. PICK r \in Seq(MemEntries) : r = q
      BY <1>2
    <2>2. p = Persisted(d, r)
      BY <2>1 DEF q
    <2>3. FlushedTo(d, r, p)
      BY <2>2, PersistedFacts, Zenon
    <2>4. Len(r) = k /\ DOMAIN r = 1..k /\ \A i \in 1..k : r[i] = mem[i]
      BY <1>2, <2>1
    <2>5. DOMAIN p.log = 1..(n + k) /\ \A i \in 1..n : p.log[i] = d.log[i]
      BY <1>3, <2>3, <2>4 DEF FlushedTo
    <2>6. \A i \in 1..k : p.log[n + i].id = mem[i].id /\ p.log[n + i].own = Own(mem[i])
      <3>1. \A i \in DOMAIN r : p.log[Len(d.log) + i].id = r[i].id /\ p.log[Len(d.log) + i].own = Own(r[i])
        BY <2>3, Zenon DEF FlushedTo
      <3>. SUFFICES ASSUME NEW i \in 1..k PROVE p.log[n + i].id = mem[i].id /\ p.log[n + i].own = Own(mem[i])
        OBVIOUS
      <3>2. p.log[n + i].id = r[i].id /\ p.log[n + i].own = Own(r[i]) /\ r[i] = mem[i]
        BY <2>4, <3>1 DEF n
      <3>. QED
        BY <3>2
    <2>7. \/ p.stamp = d.stamp /\ \A i \in 1..k : ~Own(mem[i])
          \/ \E l \in 1..k : Own(mem[l]) /\ p.stamp = mem[l].stamp /\ \A i \in 1..k : Own(mem[i]) => i <= l
      BY <2>3, <2>4 DEF FlushedTo
    <2>. QED
      BY <2>3, <2>5, <2>6, <2>7 DEF FlushedTo
  <1>5. \A i \in DOMAIN p.log : i \in 1..n \/ (\E j \in 1..k : i = n + j)
    <2>. SUFFICES ASSUME NEW i \in 1..(n + k), i \notin 1..n PROVE \E j \in 1..k : i = n + j
      BY <1>4
    <2>1. i - n \in 1..k /\ i = n + (i - n)
      BY <1>3
    <2>. QED
      BY <2>1
  <1>. HIDE DEF n
  <1>6. \A i \in 1..k : mem[i].id \in Ids(p.log)
    <2>. SUFFICES ASSUME NEW i \in 1..k PROVE mem[i].id \in Ids(p.log)
      OBVIOUS
    <2>1. n + i \in DOMAIN p.log
      BY <1>3, <1>4
    <2>. QED
      BY <1>4, <2>1 DEF Ids
  <1>7. Ids(d.log) \subseteq Ids(p.log)
    <2>1. \A i \in DOMAIN d.log : i \in DOMAIN p.log /\ p.log[i] = d.log[i]
      BY <1>3, <1>4
    <2>. QED
      BY <2>1 DEF Ids
  <1>8. ASSUME NEW x, OwnBelow(d, x), \A i \in 1..k : Own(mem[i]) => mem[i].id < x PROVE OwnBelow(p, x)
    <2>. SUFFICES ASSUME NEW i \in DOMAIN p.log, p.log[i].own PROVE p.log[i].id < x
      BY DEF OwnBelow
    <2>1. CASE i \in 1..n
      BY <1>3, <1>4, <1>8, <2>1 DEF OwnBelow
    <2>2. CASE \E j \in 1..k : i = n + j
      BY <1>4, <1>8, <2>2
    <2>. QED
      BY <1>5, <2>1, <2>2
  <1>9. Grows(d, p, s.epoch)
    <2>1. CASE p.stamp = d.stamp /\ \A i \in 1..k : ~Own(mem[i])
      BY <1>7, <1>8, <2>1 DEF Grows
    <2>2. CASE \E l \in 1..k : Own(mem[l]) /\ p.stamp = mem[l].stamp
      BY <1>2, <1>7, <2>2 DEF Grows, EntriesOK, MemoryOK
    <2>. QED
      BY <1>4, <2>1, <2>2
  <1>10. (p.stamp.epoch = s.epoch /\ p.stamp.applied <= s.applied) \/ p.stamp = d.stamp
    BY <1>2, <1>4 DEF EntriesOK, MemoryOK
  <1>11. \A i \in DOMAIN mem : i > k => OwnBelow(p, mem[i].id)
    <2>. SUFFICES ASSUME NEW i \in DOMAIN mem, i > k PROVE OwnBelow(p, mem[i].id)
      OBVIOUS
    <2>1. \A j \in 1..k : j \in DOMAIN mem /\ j < i
      BY <1>1, <1>2
    <2>2. \A j \in 1..k : Own(mem[j]) => mem[j].id < mem[i].id
      BY <2>1 DEF EntriesOK, MemoryOK
    <2>. QED
      BY <1>8, <2>2
  <1>12. s.op # "none" /\ s.epoch >= p.stamp.epoch => OwnBelow(p, s.write)
    <2>. SUFFICES ASSUME s.op # "none", s.epoch >= p.stamp.epoch PROVE OwnBelow(p, s.write)
      OBVIOUS
    <2>1. \A i \in 1..k : Own(mem[i]) => mem[i].id < s.write
      BY <1>2 DEF EntriesOK, MemoryOK
    <2>2. CASE p.stamp = d.stamp
      BY <1>8, <2>1, <2>2 DEF EntriesOK
    <2>3. CASE \E l \in 1..k : Own(mem[l])
      <3>1. PICK l \in 1..k : Own(mem[l])
        BY <2>3
      <3>2. mem[l].id < s.write /\ OwnBelow(d, mem[l].id)
        BY <1>2, <2>1, <3>1
      <3>3. OwnBelow(d, s.write)
        <4>1. mem[l].id \in Nat /\ s.write \in Nat /\ \A i \in DOMAIN d.log : d.log[i].id \in Nat
          BY <1>0, <1>2
        <4>. QED
          BY <3>2, <4>1 DEF OwnBelow
      <3>. QED
        BY <1>8, <2>1, <3>3
    <2>. QED
      BY <1>4, <2>2, <2>3
  <1>13. LogOK(p, S, next)
    <2>1. \A i, j \in DOMAIN p.log : i < j /\ p.log[i].own => p.log[i].id < p.log[j].id
      <3>. SUFFICES ASSUME NEW i \in DOMAIN p.log, NEW j \in DOMAIN p.log, i < j, p.log[i].own
                    PROVE  p.log[i].id < p.log[j].id
        OBVIOUS
      <3>1. CASE j \in 1..n
        <4>1. i \in 1..n
          BY <1>3, <1>4, <3>1
        <4>. QED
          BY <1>3, <1>4, <3>1, <4>1 DEF LogOK
      <3>2. CASE i \in 1..n /\ \E h \in 1..k : j = n + h
        <4>1. PICK h \in 1..k : j = n + h
          BY <3>2
        <4>2. OwnBelow(d, mem[h].id)
          BY <1>2
        <4>. QED
          BY <1>3, <1>4, <3>2, <4>1, <4>2 DEF OwnBelow
      <3>3. CASE (\E g \in 1..k : i = n + g) /\ \E h \in 1..k : j = n + h
        <4>1. PICK g \in 1..k, h \in 1..k : i = n + g /\ j = n + h
          BY <3>3
        <4>2. g < h /\ g \in DOMAIN mem /\ h \in DOMAIN mem
          BY <1>2, <1>3, <4>1
        <4>3. Own(mem[g])
          BY <1>4, <4>1
        <4>4. mem[g].id < mem[h].id
          BY <4>2, <4>3 DEF EntriesOK, MemoryOK
        <4>. QED
          BY <1>4, <4>1, <4>4
      <3>. QED
        BY <1>5, <3>1, <3>2, <3>3
    <2>2. OwnBelow(p, next)
      BY <1>2, <1>8 DEF LogOK, EntriesOK, MemoryOK
    <2>3. CASE p.stamp = d.stamp /\ \A i \in 1..k : ~Own(mem[i])
      <3>1. \A m \in S : After(m, p.stamp) => OwnBelow(p, m.id)
        BY <1>8, <2>3 DEF LogOK
      <3>. QED
        BY <1>7, <2>1, <2>2, <2>3, <3>1 DEF LogOK
    <2>4. CASE \E l \in 1..k : Own(mem[l]) /\ p.stamp = mem[l].stamp /\ \A i \in 1..k : Own(mem[i]) => i <= l
      <3>1. PICK l \in 1..k : Own(mem[l]) /\ p.stamp = mem[l].stamp /\ \A i \in 1..k : Own(mem[i]) => i <= l
        BY <2>4
      <3>2. l \in DOMAIN mem /\ p.stamp.epoch = s.epoch /\ Provenance(p.stamp)
        BY <1>2, <3>1 DEF EntriesOK, MemoryOK
      <3>3. ASSUME NEW m \in S, After(m, p.stamp) PROVE OwnBelow(p, m.id)
        <4>1. m.epoch = s.epoch /\ m.seq > mem[l].stamp.applied
          <5>1. m.epoch \in Nat /\ s.epoch \in Nat /\ m.epoch <= s.epoch
            BY DEF Messages, Processes
          <5>. QED
            BY <3>1, <3>2, <3>3, <5>1 DEF After
        <4>2. mem[l].id < m.id
          BY <3>1, <3>2, <4>1 DEF EntriesOK, MemoryOK
        <4>3. \A i \in DOMAIN mem : mem[i].id \in Nat
          BY <1>0
        <4>4. m.id \in Nat
          BY Constants DEF Messages
        <4>5. \A i \in 1..k : Own(mem[i]) => mem[i].id < m.id
          <5>. SUFFICES ASSUME NEW i \in 1..k, Own(mem[i]), i # l PROVE mem[i].id < m.id
            BY <4>2
          <5>1. i \in DOMAIN mem /\ i < l
            BY <1>2, <3>1
          <5>2. mem[i].id < mem[l].id
            BY <3>2, <5>1 DEF EntriesOK, MemoryOK
          <5>. QED
            BY <3>2, <4>2, <4>3, <4>4, <5>1, <5>2
        <4>6. OwnBelow(d, m.id)
          <5>1. OwnBelow(d, mem[l].id) /\ \A i \in DOMAIN d.log : d.log[i].id \in Nat
            BY <1>0, <3>2
          <5>. QED
            BY <3>2, <4>2, <4>3, <4>4, <5>1 DEF OwnBelow
        <4>. QED
          BY <1>8, <4>5, <4>6
      <3>4. ASSUME NEW m \in S, m.epoch = p.stamp.epoch, m.seq <= p.stamp.applied PROVE m.id \in Ids(p.log)
        <4>1. m.id \in Ids(d.log) \/ Unflushed(s, m, l)
          BY <3>1, <3>2, <3>4 DEF EntriesOK, Kept
        <4>2. Unflushed(s, m, l) => \E j \in 1..k : mem[j].id = m.id
          BY <1>1, <3>1 DEF Unflushed
        <4>. QED
          BY <1>6, <1>7, <4>1, <4>2
      <3>. QED
        BY <2>1, <2>2, <3>2, <3>3, <3>4 DEF LogOK
    <2>. QED
      BY <1>4, <2>3, <2>4
  <1>. QED
    BY <1>4, <1>6, <1>9, <1>10, <1>11, <1>12, <1>13 DEF FlushOf

-----------------------------------------------------------------------------
(* The entries of one process *)

\* What the current writer has left after a flush.
LEMMA FlushEntries ==
    ASSUME NEW s \in Processes, NEW d \in Disks, NEW S \in SUBSET Messages, NEW next \in 1..(MaxWrites + 1),
           NEW k \in 0..Len(s.mem), EntriesOK(s, d, S, next), NEW p,
           Ids(d.log) \subseteq Ids(p.log), \A i \in 1..k : s.mem[i].id \in Ids(p.log),
           s.op # "none" /\ s.epoch >= p.stamp.epoch => OwnBelow(p, s.write),
           NEW t, t.mem = SubSeq(s.mem, k + 1, Len(s.mem)),
           t.op = s.op, t.write = s.write, t.applied = s.applied, t.epoch = s.epoch, t.conn = s.conn
    PROVE  EntriesOK(t, p, S, next)
  <1>. DEFINE mem == s.mem
  <1>1. /\ mem \in Seq(MemEntries) /\ DOMAIN mem = 1..Len(mem) /\ Len(mem) \in Nat
        /\ t.mem \in Seq(MemEntries) /\ Len(t.mem) = Len(mem) - k /\ DOMAIN t.mem = 1..(Len(mem) - k)
        /\ \A i \in DOMAIN t.mem : t.mem[i] = mem[i + k]
    <2>1. mem \in Seq(MemEntries)
      BY DEF Processes
    <2>. QED
      BY <2>1, SplitFacts
  <1>2. \A i \in DOMAIN t.mem : i \in Nat /\ i + k \in DOMAIN mem /\ i + k > k /\ t.mem[i] = mem[i + k]
    <2>1. PICK l \in Nat : l = Len(mem)
      BY <1>1
    <2>2. k \in Nat /\ k <= l /\ DOMAIN mem = 1..l /\ DOMAIN t.mem = 1..(l - k)
      BY <1>1, <2>1
    <2>3. \A i \in 1..(l - k) : i \in Nat /\ i + k \in 1..l /\ i + k > k
      BY <2>2
    <2>. QED
      BY <1>1, <2>2, <2>3
  <1>3. \A i \in DOMAIN mem : i > k => i - k \in DOMAIN t.mem /\ t.mem[i - k] = mem[i]
    BY <1>1
  <1>4. InHands(t, S)
    BY DEF EntriesOK, InHands
  <1>5. MemoryOK(t, S, next)
    <2>. SUFFICES ASSUME NEW i \in DOMAIN t.mem
                  PROVE  /\ t.mem[i].ship <= t.applied /\ t.mem[i].id < next
                         /\ Own(t.mem[i]) =>
                               /\ t.mem[i].stamp.epoch = t.epoch /\ t.mem[i].stamp.applied <= t.applied
                               /\ Provenance(t.mem[i].stamp)
                               /\ \A j \in DOMAIN t.mem : i < j => t.mem[i].id < t.mem[j].id
                               /\ t.op # "none" => t.mem[i].id < t.write
                               /\ \A m \in S : m.epoch = t.epoch /\ m.seq > t.mem[i].stamp.applied
                                                  => t.mem[i].id < m.id
      BY DEF MemoryOK
    <2>1. PICK h \in DOMAIN mem : h = i + k /\ t.mem[i] = mem[h]
      BY <1>2
    <2>2. Own(mem[h]) => \A j \in DOMAIN t.mem : i < j => mem[h].id < t.mem[j].id
      <3>. SUFFICES ASSUME Own(mem[h]), NEW j \in DOMAIN t.mem, i < j PROVE mem[h].id < t.mem[j].id
        OBVIOUS
      <3>1. j + k \in DOMAIN mem /\ h < j + k /\ t.mem[j] = mem[j + k]
        BY <1>2, <2>1
      <3>. QED
        BY <3>1 DEF EntriesOK, MemoryOK
    <2>. QED
      BY <2>1, <2>2 DEF EntriesOK, MemoryOK
  <1>6. Kept(t, p, S)
    <2>1. ASSUME NEW m \in S, NEW h \in DOMAIN mem, Unflushed(s, m, h), m.id \notin Ids(p.log)
          PROVE  h > k /\ Unflushed(t, m, h - k)
      <3>1. PICK j \in DOMAIN mem : j <= h /\ mem[j].ship = m.seq /\ mem[j].id = m.id
        BY <2>1 DEF Unflushed
      <3>2. j > k
        BY <1>1, <2>1, <3>1
      <3>3. j - k \in DOMAIN t.mem /\ t.mem[j - k] = mem[j] /\ j - k <= h - k /\ h > k
        <4>1. PICK l \in Nat : l = Len(mem)
          BY <1>1
        <4>2. k \in Nat /\ DOMAIN mem = 1..l /\ DOMAIN t.mem = 1..(l - k) /\ h \in Nat /\ j \in 1..l
          BY <1>1, <3>1, <4>1
        <4>3. j - k \in 1..(l - k) /\ (j - k) + k = j /\ j - k <= h - k /\ h > k
          BY <3>1, <3>2, <4>2
        <4>. QED
          BY <1>1, <4>2, <4>3
      <3>. QED
        BY <3>1, <3>3 DEF Unflushed
    <2>2. ASSUME NEW m \in S, m.epoch = t.epoch, m.seq <= t.applied
          PROVE  m.id \in Ids(p.log) \/ Unflushed(t, m, Len(t.mem))
      <3>1. m.id \in Ids(d.log) \/ Unflushed(s, m, Len(mem))
        BY <2>2 DEF EntriesOK, Kept
      <3>2. CASE Len(mem) \in DOMAIN mem
        BY <1>1, <2>1, <3>1, <3>2
      <3>3. CASE Len(mem) \notin DOMAIN mem
        BY <1>1, <3>1, <3>3 DEF Unflushed
      <3>. QED
        BY <3>2, <3>3
    <2>3. ASSUME NEW m \in S, m.epoch = t.epoch, NEW i \in DOMAIN t.mem, Own(t.mem[i]),
                 m.seq <= t.mem[i].stamp.applied
          PROVE  m.id \in Ids(p.log) \/ Unflushed(t, m, i)
      <3>1. PICK h \in DOMAIN mem : h = i + k /\ t.mem[i] = mem[h]
        BY <1>2
      <3>2. m.id \in Ids(d.log) \/ Unflushed(s, m, h)
        BY <2>3, <3>1 DEF EntriesOK, Kept
      <3>3. h - k = i
        BY <1>2, <3>1
      <3>. QED
        BY <2>1, <3>2, <3>3
    <2>. QED
      BY <2>2, <2>3 DEF Kept
  <1>. QED
    BY <1>4, <1>5, <1>6 DEF EntriesOK

\* A batch is applied: a Solo one, or one whose ship was sent.
LEMMA ApplyEntries ==
    ASSUME NEW s \in Processes, NEW d \in Disks, NEW S \in SUBSET Messages, NEW next \in 1..(MaxWrites + 1),
           EntriesOK(s, d, S, next), Frontier(s, next), s.op # "none", s.epoch > 0,
           NEW ship, (ship = 0 /\ s.op = "ready" /\ ~s.conn) \/ (ship = s.applied + 1 /\ s.op = "sent"),
           NEW st \in Stamps, st.epoch = s.epoch, st.applied = Larger(s.applied, ship), Provenance(st),
           NEW t, t.mem = Append(s.mem, Entry(s.write, st, ship)),
           t.op = "none", t.applied = st.applied, t.epoch = s.epoch
    PROVE  EntriesOK(t, d, S, next)
  <1>. DEFINE mem == s.mem  e == Entry(s.write, st, ship)  n == Len(s.mem)
  <1>0. mem \in Seq(MemEntries) /\ s.applied \in Nat /\ s.write \in Nat /\ s.epoch \in Nat /\ ship \in Nat
    BY ProcessTypes
  <1>1. e.id = s.write /\ e.stamp = st /\ e.ship = ship /\ Own(e)
    BY DEF Entry, Own, NoStamp
  <1>2. /\ DOMAIN mem = 1..n /\ n \in Nat /\ DOMAIN t.mem = 1..(n + 1) /\ Len(t.mem) = n + 1
        /\ t.mem[n + 1] = e /\ \A i \in 1..n : t.mem[i] = mem[i]
    BY <1>0
  <1>. HIDE DEF e
  <1>3. /\ t.applied = s.applied \/ (t.applied = s.applied + 1 /\ ship = t.applied)
        /\ ship <= t.applied
    BY <1>0 DEF Larger
  <1>4. \A m \in S : m.epoch = t.epoch => m.seq <= t.applied
    <2>. SUFFICES ASSUME NEW m \in S, m.epoch = s.epoch PROVE m.seq <= t.applied
      OBVIOUS
    <2>1. m.seq \in Nat
      BY Constants DEF Messages
    <2>2. m.seq <= s.applied \/ (m.seq = s.applied + 1 /\ s.conn)
      BY DEF EntriesOK, InHands
    <2>. QED
      BY <1>0, <1>3, <2>1, <2>2 DEF Larger
  <1>5. InHands(t, S)
    BY <1>4 DEF InHands
  <1>6. MemoryOK(t, S, next)
    <2>. SUFFICES ASSUME NEW i \in DOMAIN t.mem
                  PROVE  /\ t.mem[i].ship <= t.applied /\ t.mem[i].id < next
                         /\ Own(t.mem[i]) =>
                               /\ t.mem[i].stamp.epoch = t.epoch /\ t.mem[i].stamp.applied <= t.applied
                               /\ Provenance(t.mem[i].stamp)
                               /\ \A j \in DOMAIN t.mem : i < j => t.mem[i].id < t.mem[j].id
                               /\ \A m \in S : m.epoch = t.epoch /\ m.seq > t.mem[i].stamp.applied
                                                  => t.mem[i].id < m.id
      BY DEF MemoryOK
    <2>0. \A m \in S : m.seq \in Nat
      BY Constants DEF Messages
    <2>1. CASE i = n + 1
      <3>1. t.mem[i].ship <= t.applied /\ t.mem[i].id < next
        BY <1>1, <1>2, <1>3, <2>1 DEF Frontier
      <3>2. \A j \in DOMAIN t.mem : ~(i < j)
        BY <1>2, <2>1
      <3>3. \A m \in S : m.epoch = t.epoch => ~(m.seq > t.mem[i].stamp.applied)
        BY <1>0, <1>1, <1>2, <1>3, <1>4, <2>0, <2>1
      <3>4. st.applied <= t.applied
        BY <1>0, <1>3
      <3>. QED
        BY <1>1, <1>2, <2>1, <3>1, <3>2, <3>3, <3>4
    <2>2. CASE i \in 1..n
      <3>1. mem[i] \in MemEntries /\ i \in DOMAIN mem /\ t.mem[i] = mem[i]
        BY <1>0, <1>2, <2>2
      <3>2. mem[i].ship \in Nat /\ mem[i].stamp.applied \in Nat
        BY <3>1, EntryTypes
      <3>3. /\ mem[i].ship <= s.applied /\ mem[i].id < next
            /\ Own(mem[i]) =>
                  /\ mem[i].stamp.epoch = s.epoch /\ mem[i].stamp.applied <= s.applied
                  /\ Provenance(mem[i].stamp) /\ mem[i].id < s.write
                  /\ \A j \in DOMAIN mem : i < j => mem[i].id < mem[j].id
                  /\ \A m \in S : m.epoch = s.epoch /\ m.seq > mem[i].stamp.applied => mem[i].id < m.id
        BY <3>1 DEF EntriesOK, MemoryOK
      <3>4. mem[i].ship <= t.applied /\ (Own(mem[i]) => mem[i].stamp.applied <= t.applied)
        <4>1. PICK x, y \in Nat : x = mem[i].ship /\ y = mem[i].stamp.applied
          BY <3>2
        <4>2. PICK z \in Nat : z = s.applied
          BY <1>0
        <4>3. t.applied \in Nat /\ z <= t.applied
          BY <1>0, <1>3, <4>2
        <4>4. x <= z /\ (Own(mem[i]) => y <= z)
          BY <3>3, <4>1, <4>2
        <4>. QED
          BY <4>1, <4>3, <4>4
      <3>5. Own(mem[i]) => \A j \in DOMAIN t.mem : i < j => mem[i].id < t.mem[j].id
        <4>. SUFFICES ASSUME Own(mem[i]), NEW j \in DOMAIN t.mem, i < j PROVE mem[i].id < t.mem[j].id
          OBVIOUS
        <4>1. j \in 1..n \/ j = n + 1
          BY <1>2
        <4>. QED
          BY <1>1, <1>2, <3>3, <4>1
      <3>. QED
        BY <3>1, <3>3, <3>4, <3>5
    <2>. QED
      BY <1>2, <2>1, <2>2
  <1>7. Kept(t, d, S)
    <2>1. ASSUME NEW m \in S, NEW h \in Nat, Unflushed(s, m, h) PROVE Unflushed(t, m, h)
      BY <1>2, <2>1 DEF Unflushed
    <2>2. ASSUME NEW m \in S, m.epoch = t.epoch, m.seq <= t.applied
          PROVE  m.id \in Ids(d.log) \/ Unflushed(t, m, n + 1)
      <3>1. CASE m.seq <= s.applied
        <4>1. m.id \in Ids(d.log) \/ Unflushed(s, m, n)
          BY <2>2, <3>1 DEF EntriesOK, Kept
        <4>2. Unflushed(s, m, n) => Unflushed(s, m, n + 1)
          BY <1>2 DEF Unflushed
        <4>. QED
          BY <1>2, <2>1, <4>1, <4>2
      <3>2. CASE ~(m.seq <= s.applied)
        <4>1. m.seq = s.applied + 1 /\ m.id = s.write /\ m.seq \in Nat
          BY <2>2, <3>2, Constants DEF EntriesOK, InHands, Messages
        <4>2. m.seq = ship
          BY <1>0, <1>3, <2>2, <4>1
        <4>. QED
          BY <1>1, <1>2, <4>1, <4>2, SMTT(30) DEF Unflushed
      <3>. QED
        BY <3>1, <3>2
    <2>3. ASSUME NEW m \in S, m.epoch = t.epoch, NEW i \in DOMAIN t.mem, Own(t.mem[i]),
                 m.seq <= t.mem[i].stamp.applied
          PROVE  m.id \in Ids(d.log) \/ Unflushed(t, m, i)
      <3>1. CASE i = n + 1
        <4>1. m.seq <= t.applied
          BY <1>1, <1>2, <2>3, <3>1
        <4>. QED
          BY <2>2, <2>3, <3>1, <4>1
      <3>2. CASE i \in 1..n
        <4>1. i \in DOMAIN mem /\ t.mem[i] = mem[i]
          BY <1>2, <3>2
        <4>2. m.id \in Ids(d.log) \/ Unflushed(s, m, i)
          BY <2>3, <4>1 DEF EntriesOK, Kept
        <4>. QED
          BY <2>1, <3>2, <4>2
      <3>. QED
        BY <1>2, <3>1, <3>2
    <2>. QED
      BY <1>2, <2>2, <2>3 DEF Kept
  <1>. QED
    BY <1>5, <1>6, <1>7 DEF EntriesOK

(* The ships T are those of S, or some of them, of the epoch e.             *)
SameShip(m, q) == m.epoch = q.epoch /\ m.seq = q.seq /\ m.id = q.id /\ m.wm = q.wm
ShipsOf(e, T, S) == \A m \in T : m.epoch = e => \E q \in S : SameShip(m, q)

\* The entries of a process that the step leaves alone.
LEMMA SameEntries ==
    ASSUME NEW s \in Processes, NEW d \in Disks, NEW S \in SUBSET Messages, NEW next \in 1..(MaxWrites + 1),
           EntriesOK(s, d, S, next),
           NEW p, NEW e \in Nat, Grows(d, p, e), e > s.epoch \/ (p.stamp = d.stamp /\ p.log = d.log),
           NEW T, ShipsOf(s.epoch, T, S), NEW after \in Nat, next <= after,
           NEW t, t.mem = s.mem, t.write = s.write, t.applied = s.applied, t.epoch = s.epoch,
           t.op = "none" <=> s.op = "none", s.conn => t.conn
    PROVE  EntriesOK(t, p, T, after)
  <1>1. InHands(t, T)
    <2>. SUFFICES ASSUME NEW m \in T, m.epoch = s.epoch
                  PROVE  \/ m.seq <= s.applied
                         \/ m.seq = s.applied + 1 /\ s.op # "none" /\ m.id = s.write /\ s.conn
      BY DEF InHands
    <2>1. PICK q \in S : SameShip(m, q)
      BY DEF ShipsOf
    <2>. QED
      BY <2>1 DEF EntriesOK, InHands, SameShip
  <1>2. MemoryOK(t, T, after)
    <2>. SUFFICES ASSUME NEW i \in DOMAIN s.mem
                  PROVE  /\ s.mem[i].ship <= s.applied /\ s.mem[i].id < after
                         /\ Own(s.mem[i]) =>
                               /\ s.mem[i].stamp.epoch = s.epoch /\ s.mem[i].stamp.applied <= s.applied
                               /\ Provenance(s.mem[i].stamp)
                               /\ \A j \in DOMAIN s.mem : i < j => s.mem[i].id < s.mem[j].id
                               /\ s.op # "none" => s.mem[i].id < s.write
                               /\ \A m \in T : m.epoch = s.epoch /\ m.seq > s.mem[i].stamp.applied
                                                  => s.mem[i].id < m.id
      BY DEF MemoryOK
    <2>1. s.mem[i].id < after
      <3>1. s.mem[i] \in MemEntries
        BY DEF Processes
      <3>2. s.mem[i].id < next /\ s.mem[i].id \in Nat /\ next \in Nat
        BY <3>1, Constants DEF EntriesOK, MemoryOK, MemEntries
      <3>. QED
        BY <3>2
    <2>2. ASSUME Own(s.mem[i]), NEW m \in T, m.epoch = s.epoch, m.seq > s.mem[i].stamp.applied
          PROVE  s.mem[i].id < m.id
      <3>1. PICK q \in S : SameShip(m, q)
        BY <2>2 DEF ShipsOf
      <3>. QED
        BY <2>2, <3>1 DEF EntriesOK, MemoryOK, SameShip
    <2>. QED
      BY <2>1, <2>2 DEF EntriesOK, MemoryOK
  <1>3. Kept(t, p, T)
    <2>. SUFFICES ASSUME NEW m \in T, m.epoch = s.epoch
                  PROVE  /\ m.seq <= s.applied => m.id \in Ids(p.log) \/ Unflushed(t, m, Len(s.mem))
                         /\ \A i \in DOMAIN s.mem : Own(s.mem[i]) /\ m.seq <= s.mem[i].stamp.applied =>
                               m.id \in Ids(p.log) \/ Unflushed(t, m, i)
      BY DEF Kept
    <2>1. PICK q \in S : SameShip(m, q)
      BY DEF ShipsOf
    <2>2. \A k : Unflushed(s, q, k) => Unflushed(t, m, k)
      BY <2>1 DEF Unflushed, SameShip
    <2>3. m.seq = q.seq /\ m.id = q.id /\ q.epoch = s.epoch /\ Ids(d.log) \subseteq Ids(p.log)
      BY <2>1 DEF SameShip, Grows
    <2>4. /\ q.seq <= s.applied => q.id \in Ids(d.log) \/ Unflushed(s, q, Len(s.mem))
          /\ \A i \in DOMAIN s.mem : Own(s.mem[i]) /\ q.seq <= s.mem[i].stamp.applied =>
                q.id \in Ids(d.log) \/ Unflushed(s, q, i)
      BY <2>3 DEF EntriesOK, Kept
    <2>. QED
      BY <2>2, <2>3, <2>4
  <1>4. t.op # "none" /\ t.epoch >= p.stamp.epoch => OwnBelow(p, t.write)
    <2>1. s.epoch \in Nat
      BY Constants DEF Processes
    <2>2. CASE p.stamp = d.stamp /\ \A x : OwnBelow(d, x) => OwnBelow(p, x)
      BY <2>2 DEF EntriesOK
    <2>3. CASE p.stamp = d.stamp /\ p.log = d.log
      BY <2>3 DEF EntriesOK, OwnBelow
    <2>4. CASE p.stamp.epoch = e /\ e > s.epoch
      BY <2>1, <2>4
    <2>. QED
      BY <2>2, <2>3, <2>4 DEF Grows
  <1>. QED
    BY <1>1, <1>2, <1>3, <1>4 DEF EntriesOK

\* The entries of a process that never led: none, or replayed ones.
LEMMA QuiescentEntries ==
    ASSUME NEW t, NEW d, NEW S, NEW next, t.op = "none", t.applied \in Nat,
           \A m \in S : m.epoch # t.epoch,
           \A i \in DOMAIN t.mem : t.mem[i].stamp = NoStamp /\ t.mem[i].ship = 0 /\ t.mem[i].id < next
    PROVE  EntriesOK(t, d, S, next)
  <1>1. MemoryOK(t, S, next)
    BY DEF MemoryOK, Own
  <1>. QED
    BY <1>1 DEF EntriesOK, InHands, Kept

\* A batch enters the commit worker.
LEMMA StartEntries ==
    ASSUME NEW s \in Processes, NEW d \in Disks, NEW S \in SUBSET Messages, NEW next \in 1..MaxWrites,
           EntriesOK(s, d, S, next), s.op = "none", OwnBelow(d, next),
           NEW t, t.mem = s.mem, t.write = next, t.applied = s.applied, t.epoch = s.epoch, t.op = "ready"
    PROVE  EntriesOK(t, d, S, next + 1)
  <1>1. InHands(t, S)
    BY DEF EntriesOK, InHands
  <1>2. MemoryOK(t, S, next + 1)
    <2>1. \A i \in DOMAIN s.mem : s.mem[i].id < next /\ s.mem[i].id \in Nat /\ next \in Nat
      <3>1. \A i \in DOMAIN s.mem : s.mem[i] \in MemEntries
        BY DEF Processes
      <3>. QED
        BY <3>1, Constants DEF EntriesOK, MemoryOK, MemEntries
    <2>2. \A i \in DOMAIN s.mem : s.mem[i].id < next + 1
      BY <2>1
    <2>. QED
      BY <2>1, <2>2 DEF EntriesOK, MemoryOK
  <1>3. Kept(t, d, S)
    BY DEF EntriesOK, Kept, Unflushed
  <1>. QED
    BY <1>1, <1>2, <1>3 DEF EntriesOK

\* A batch is sent, for the first time or again.
LEMMA SendEntries ==
    ASSUME NEW s \in Processes, NEW d \in Disks, NEW S \in SUBSET Messages, NEW next \in 1..(MaxWrites + 1),
           EntriesOK(s, d, S, next), s.op = "ready", s.conn,
           NEW m, m.epoch = s.epoch, m.seq = s.applied + 1, m.id = s.write,
           NEW t, t.mem = s.mem, t.write = s.write, t.applied = s.applied, t.epoch = s.epoch, t.op = "sent", t.conn
    PROVE  EntriesOK(t, d, S \cup {m}, next)
  <1>0. s.applied \in Nat /\ \A i \in DOMAIN s.mem : s.mem[i].stamp.applied \in Nat
    <2>1. \A i \in DOMAIN s.mem : s.mem[i] \in MemEntries
      BY DEF Processes
    <2>. QED
      BY <2>1, EntryTypes, ProcessTypes
  <1>1. InHands(t, S \cup {m})
    BY DEF EntriesOK, InHands
  <1>2. MemoryOK(t, S \cup {m}, next)
    BY DEF EntriesOK, MemoryOK
  <1>3. Kept(t, d, S \cup {m})
    <2>1. Kept(t, d, S)
      BY DEF EntriesOK, Kept, Unflushed
    <2>2. ~(m.seq <= s.applied) /\ \A i \in DOMAIN s.mem : Own(s.mem[i]) => ~(m.seq <= s.mem[i].stamp.applied)
      <3>1. \A i \in DOMAIN s.mem : Own(s.mem[i]) => s.mem[i].stamp.applied <= s.applied
        BY DEF EntriesOK, MemoryOK
      <3>. QED
        BY <1>0, <3>1
    <2>. QED
      BY <2>1, <2>2 DEF Kept
  <1>. QED
    BY <1>1, <1>2, <1>3 DEF EntriesOK

-----------------------------------------------------------------------------
(* Steps *)

\* The types of what the invariant speaks of.
LEMMA StateTypes ==
    ASSUME Types
    PROVE  /\ disk \in Disks /\ disk.log \in Seq(Entries) /\ disk.stamp \in Stamps
           /\ disk.stamp.epoch \in Nat /\ disk.stamp.applied \in Nat /\ disk.lineage \in Nat
           /\ dbEpoch \in Nat /\ nextWrite \in Nat
           /\ \A n \in Node :
                 /\ node[n] \in Processes /\ node[n].epoch \in Nat /\ node[n].applied \in Nat
                 /\ node[n].mem \in Seq(MemEntries) /\ node[n].write \in Nat /\ node[n].wm \in Nat
                 /\ node[n].beat.durable \in Nat /\ node[n].beat.applied \in Nat
                 /\ rcv[n] \in Receivers /\ rcv[n].tail \in Tails /\ rcv[n].observed \in Nat
                 /\ rcv[n].tail.epoch \in Nat /\ rcv[n].tail.durable \in Nat
           /\ \A m \in ships : /\ m \in Messages /\ m.epoch \in Nat \ {0} /\ m.seq \in Nat \ {0}
                               /\ m.id \in Nat /\ m.wm \in Nat
  <1>1. disk \in Disks /\ disk.log \in Seq(Entries) /\ disk.stamp \in Stamps
    BY DEF Types, Disks
  <1>2. disk.stamp.epoch \in Nat /\ disk.stamp.applied \in Nat /\ disk.lineage \in Nat
    BY <1>1, Constants DEF Stamps, Disks
  <1>3. dbEpoch \in Nat /\ nextWrite \in Nat
    BY Constants DEF Types
  <1>4. ASSUME NEW n \in Node
        PROVE  /\ node[n] \in Processes /\ node[n].epoch \in Nat /\ node[n].applied \in Nat
               /\ node[n].mem \in Seq(MemEntries) /\ node[n].write \in Nat /\ node[n].wm \in Nat
               /\ node[n].beat.durable \in Nat /\ node[n].beat.applied \in Nat
    <2>1. node[n] \in Processes
      BY DEF Types
    <2>2. node[n].beat \in Beats
      BY <2>1 DEF Processes
    <2>. QED
      BY <2>1, ProcessTypes
  <1>5. ASSUME NEW n \in Node
        PROVE  /\ rcv[n] \in Receivers /\ rcv[n].tail \in Tails /\ rcv[n].observed \in Nat
               /\ rcv[n].tail.epoch \in Nat /\ rcv[n].tail.durable \in Nat
    <2>1. rcv[n] \in Receivers
      BY DEF Types
    <2>2. rcv[n].tail \in Tails /\ rcv[n].observed \in Nat
      BY <2>1 DEF Receivers
    <2>. QED
      BY <2>1, <2>2, Constants DEF Tails
  <1>6. \A m \in ships : /\ m \in Messages /\ m.epoch \in Nat \ {0} /\ m.seq \in Nat \ {0}
                         /\ m.id \in Nat /\ m.wm \in Nat
    BY Constants DEF Types, Messages
  <1>. QED
    BY <1>1, <1>2, <1>3, <1>4, <1>5, <1>6

\* The global parts of the invariant, as LogOK.
LEMMA LogIsOK == RepInv => LogOK(disk, ships, nextWrite)
  BY DEF RepInv, Ordered, Watermarks, LogOK, NoRegression, DurableTo

\* A flush by the current writer.
LEMMA Flushing ==
    ASSUME RepInv, NEW n \in Node, ~Fenced(n), NEW k \in 0..Len(node[n].mem),
           NEW p, p = Persisted(disk, SubSeq(node[n].mem, 1, k))
    PROVE  FlushOf(node[n], disk, ships, nextWrite, k, p)
  <1>1. node[n].epoch = dbEpoch
    BY DEF Fenced
  <1>2. EntriesOK(node[n], disk, ships, nextWrite)
    BY DEF RepInv, Processing, ProcInv, EntriesOK
  <1>3. \A m \in ships : m.epoch <= node[n].epoch
    BY <1>1 DEF RepInv, Epochs
  <1>4. \A i \in DOMAIN node[n].mem : OwnBelow(disk, node[n].mem[i].id)
    BY DEF RepInv, Ordered
  <1>5. /\ node[n] \in Processes /\ disk \in Disks /\ ships \in SUBSET Messages
        /\ nextWrite \in 1..(MaxWrites + 1)
    BY DEF RepInv, Types
  <1>. QED
    BY <1>1, <1>2, <1>3, <1>4, <1>5, LogIsOK, FlushLog

\* Flushing nothing changes nothing.
LEMMA FlushNothing ==
    ASSUME Types
    PROVE  Persisted(disk, <<>>) = disk
  <1>1. disk.log \in Seq(Entries) /\ disk \in Disks
    BY DEF Types, Disks
  <1>2. DOMAIN <<>> = {}
    OBVIOUS
  <1>3. [i \in DOMAIN <<>> |-> [id |-> <<>>[i].id, own |-> Own(<<>>[i])]] = <<>>
    BY <1>2
  <1>4. disk.log \o <<>> = disk.log
    BY <1>1
  <1>5. Persisted(disk, <<>>) = [disk EXCEPT !.log = disk.log \o <<>>, !.stamp = disk.stamp]
    BY <1>2, <1>3 DEF Persisted
  <1>. QED
    BY <1>1, <1>4, <1>5 DEF Disks

(* A process the step leaves alone, its lease and answer apart.             *)
SameWork(t, s) ==
    /\ t.role = s.role /\ t.epoch = s.epoch /\ t.mem = s.mem /\ t.conn = s.conn /\ t.seq = s.seq
    /\ t.shipped = s.shipped /\ t.solo = s.solo /\ t.applied = s.applied /\ t.wm = s.wm
    /\ t.op = s.op /\ t.write = s.write /\ t.beat = s.beat /\ t.token = s.token

\* Such a process keeps its part of the invariant while others flush and send.
LEMMA Bystander ==
    ASSUME RepInv, NEW q \in Node, NEW t, SameWork(t, node[q]),
           NEW p, Grows(disk, p, dbEpoch), node[q].epoch < dbEpoch \/ (p.stamp = disk.stamp /\ p.log = disk.log),
           NEW T, ShipsOf(node[q].epoch, T, ships), NEW after \in Nat, nextWrite <= after
    PROVE  ProcInv(t, p, T, after)
  <1>1. ProcInv(node[q], disk, ships, nextWrite)
    BY DEF RepInv, Processing
  <1>2. EntriesOK(node[q], disk, ships, nextWrite)
    BY <1>1 DEF ProcInv, EntriesOK
  <1>3. /\ node[q] \in Processes /\ disk \in Disks /\ ships \in SUBSET Messages
        /\ nextWrite \in 1..(MaxWrites + 1) /\ dbEpoch \in Nat
        /\ node[q].applied \in Nat /\ node[q].write \in Nat /\ nextWrite \in Nat
    BY StateTypes DEF RepInv, Types
  <1>4. EntriesOK(t, p, T, after)
    BY <1>2, <1>3, SameEntries DEF SameWork
  <1>5. Frontier(t, after)
    BY <1>1, <1>3 DEF ProcInv, Frontier, SameWork, Provenance
  <1>6. Quiescent(t)
    BY <1>1 DEF ProcInv, Quiescent, SameWork
  <1>. QED
    BY <1>4, <1>5, <1>6 DEF ProcInv, EntriesOK

\* A process that starts over.
LEMMA FreshProcess ==
    ASSUME NEW role \in Role \ {"serving"}, NEW e \in 0..MaxEpoch, NEW d, NEW S, \A m \in S : m.epoch # e,
           NEW next \in Nat \ {0}
    PROVE  /\ [Fresh EXCEPT !.role = role, !.epoch = e] \in Processes
           /\ ProcInv([Fresh EXCEPT !.role = role, !.epoch = e], d, S, next)
  <1>. DEFINE t == [Fresh EXCEPT !.role = role, !.epoch = e]
  <1>1. /\ t.role = role /\ t.epoch = e /\ t.op = "none" /\ t.applied = 0 /\ t.mem = <<>> /\ t.seq = 1
        /\ t.shipped = 0 /\ t.wm = 0 /\ t.beat = NoBeat /\ t.token = 0
    BY DEF Fresh
  <1>2. NoBeat \in Beats /\ NoBeat.applied = 0 /\ NoBeat.durable = 0
    BY Constants DEF NoBeat, Beats
  <1>3. t \in Processes
    <2>1. <<>> \in Seq(MemEntries)
      OBVIOUS
    <2>2. "standby" \in Role
      BY DEF Role
    <2>3. Fresh \in Processes
      BY <1>2, <2>1, <2>2, Constants DEF Fresh, Processes
    <2>. QED
      BY <2>3 DEF Processes
  <1>. HIDE DEF t
  <1>4. EntriesOK(t, d, S, next)
    BY <1>1, QuiescentEntries
  <1>5. Frontier(t, next)
    BY <1>1, <1>2 DEF Frontier, Provenance
  <1>6. Quiescent(t)
    BY <1>1 DEF Quiescent
  <1>. QED
    BY <1>3, <1>4, <1>5, <1>6 DEF ProcInv, EntriesOK, t

\* The frontier DurabilityTracker reports is durable.
LEMMA DurableShipsFacts ==
    ASSUME NEW s \in Processes, NEW d, NEW S \in SUBSET Messages, NEW next, ProcInv(s, d, S, next)
    PROVE  /\ DurableShips(s) \in Nat /\ DurableShips(s) <= s.applied
           /\ \A m \in S : m.epoch = s.epoch /\ m.seq <= DurableShips(s) => m.id \in Ids(d.log)
  <1>. DEFINE U == {s.mem[i].ship : i \in DOMAIN s.mem} \ {0}
  <1>0. s.applied \in Nat /\ \A i \in DOMAIN s.mem : s.mem[i].ship \in Nat /\ s.mem[i].ship <= s.applied
    <2>1. \A i \in DOMAIN s.mem : s.mem[i] \in MemEntries
      BY DEF Processes
    <2>. QED
      BY <2>1, Constants DEF Processes, MemEntries, ProcInv, MemoryOK
  <1>1. U \subseteq Nat /\ 0 \notin U
    BY <1>0
  <1>2. DurableShips(s) = IF U = {} THEN s.applied ELSE Min(U) - 1
    BY DEF DurableShips
  <1>3. U # {} => Min(U) \in U /\ \A x \in U : Min(U) <= x
    <2>. HIDE DEF U
    <2>. QED
      BY <1>1, MinimumElement
  <1>4. DurableShips(s) \in Nat /\ DurableShips(s) <= s.applied
    BY <1>0, <1>2, <1>3
  <1>5. ASSUME NEW m \in S, m.epoch = s.epoch, m.seq <= DurableShips(s), m.id \notin Ids(d.log) PROVE FALSE
    <2>1. m.seq \in Nat \ {0}
      BY Constants DEF Messages
    <2>2. m.seq <= s.applied
      BY <1>0, <1>4, <1>5, <2>1
    <2>3. PICK j \in DOMAIN s.mem : s.mem[j].ship = m.seq
      BY <1>5, <2>2 DEF ProcInv, Kept, Unflushed
    <2>4. m.seq \in U
      BY <2>1, <2>3
    <2>. HIDE DEF U
    <2>5. Min(U) <= m.seq /\ Min(U) \in Nat
      BY <1>1, <1>3, <2>4
    <2>. QED
      BY <1>2, <1>5, <2>1, <2>4, <2>5
  <1>. QED
    BY <1>4, <1>5

\* A process that changes nothing its entries depend on.
LEMMA OwnWork ==
    ASSUME RepInv, NEW n \in Node, NEW t, t.mem = node[n].mem, t.write = node[n].write,
           t.applied = node[n].applied, t.epoch = node[n].epoch, node[n].conn => t.conn,
           t.op = "none" <=> node[n].op = "none", NEW p, p.log = disk.log, p.stamp = disk.stamp,
           Frontier(t, nextWrite), Quiescent(t)
    PROVE  ProcInv(t, p, ships, nextWrite)
  <1>1. EntriesOK(node[n], disk, ships, nextWrite)
    BY DEF RepInv, Processing, ProcInv, EntriesOK
  <1>2. /\ node[n] \in Processes /\ disk \in Disks /\ ships \in SUBSET Messages
        /\ nextWrite \in 1..(MaxWrites + 1) /\ nextWrite \in Nat /\ dbEpoch \in Nat
    BY StateTypes DEF RepInv, Types
  <1>3. Grows(disk, p, dbEpoch) /\ ShipsOf(node[n].epoch, ships, ships)
    BY DEF Grows, ShipsOf, SameShip, OwnBelow
  <1>4. EntriesOK(t, p, ships, nextWrite)
    BY <1>1, <1>2, <1>3, SameEntries
  <1>. QED
    BY <1>4 DEF ProcInv, EntriesOK

Idle == {"down", "standby", "quiesced"}

(* What a step makes of the process on node n: it goes on in its term, or   *)
(* a new one has started over.                                              *)
Moves(n) ==
    /\ node'[n] \in Processes /\ ProcInv(node'[n], disk', ships', nextWrite')
    /\ \/ /\ node'[n].epoch = node[n].epoch /\ node[n].applied <= node'[n].applied
          /\ node[n].epoch = 0 => node'[n].role \in Idle /\ node'[n].mem = <<>>
          /\ node'[n].wm = node[n].wm \/ node'[n].wm = DurableShips(node'[n])
          /\ node'[n].beat.durable \in {0, node[n].wm, node[n].beat.durable}
       \/ /\ \/ node'[n].epoch = 0 /\ node'[n].role \in Idle
             \/ node'[n].epoch = dbEpoch + 1 /\ dbEpoch' = dbEpoch + 1
          /\ node'[n].mem = <<>> /\ node'[n].wm = 0 /\ node'[n].beat.durable = 0
    /\ node'[n].epoch = dbEpoch' => \A i \in DOMAIN node'[n].mem : OwnBelow(disk', node'[n].mem[i].id)

\* Only an idle process has no term.
LEMMA HasTerm ==
    ASSUME RepInv, NEW n \in Node, node[n].role \notin Idle \/ node[n].op # "none" \/ node[n].mem # <<>>
    PROVE  node[n].epoch # 0 /\ (node[n].op # "none" => node[n].role = "serving")
  BY DEF RepInv, Epochs, Processing, ProcInv, Quiescent, Idle

\* A process that keeps its entries.
LEMMA KeepsEntries ==
    ASSUME RepInv, NEW n \in Node, NEW t \in Processes, node'[n] = t,
           t.mem = node[n].mem, t.write = node[n].write, t.applied = node[n].applied,
           t.epoch = node[n].epoch, node[n].conn => t.conn, t.op = "none" <=> node[n].op = "none",
           t.role = node[n].role \/ node[n].role \notin Idle,
           Frontier(t, nextWrite), Quiescent(t),
           disk'.log = disk.log, disk'.stamp = disk.stamp, ships' = ships, nextWrite' = nextWrite,
           dbEpoch <= dbEpoch', dbEpoch' \in Nat,
           t.wm = node[n].wm \/ t.wm = DurableShips(t),
           t.beat.durable \in {0, node[n].wm, node[n].beat.durable}
    PROVE  Moves(n)
  <1>1. PICK p : p = disk'
    OBVIOUS
  <1>2. ProcInv(t, p, ships, nextWrite)
    BY <1>1, OwnWork
  <1>3. t.applied <= t.applied /\ t.epoch \in Nat
    BY Constants DEF Processes
  <1>4. t.epoch = 0 => t.role \in Idle /\ t.mem = <<>>
    BY HasTerm DEF RepInv, Epochs, Idle
  <1>5. t.epoch = dbEpoch' => \A i \in DOMAIN t.mem : OwnBelow(disk', t.mem[i].id)
    <2>. SUFFICES ASSUME t.epoch = dbEpoch', NEW i \in DOMAIN t.mem PROVE OwnBelow(disk', t.mem[i].id)
      OBVIOUS
    <2>1. dbEpoch \in Nat /\ t.epoch <= dbEpoch
      BY StateTypes DEF RepInv, Epochs
    <2>2. ~Fenced(n)
      BY <1>3, <2>1 DEF Fenced
    <2>3. OwnBelow(disk, t.mem[i].id)
      BY <2>2 DEF RepInv, Ordered
    <2>. QED
      BY <2>3 DEF OwnBelow
  <1>. QED
    BY <1>1, <1>2, <1>3, <1>4, <1>5 DEF Moves

\* The steps of a serving process that leave its entries alone.
LEMMA QuietSteps ==
    ASSUME RepInv, NEW n \in Node,
           ObserveDurable(n) \/ ShipUncovered(n) \/ Reconnect(n) \/ SendBeat(n)
    PROVE  Moves(n)
  <1>. DEFINE s == node[n]
  <1>0. s \in Processes /\ node \in [Node -> Processes] /\ ProcInv(s, disk, ships, nextWrite)
    BY DEF RepInv, Types, Processing
  <1>1. Frontier(s, nextWrite) /\ Quiescent(s)
    BY <1>0 DEF ProcInv
  <1>2. /\ s.applied \in 0..MaxWrites /\ s.wm \in 0..MaxWrites /\ s.seq \in Nat /\ MaxWrites \in Nat
        /\ dbEpoch \in Nat
    BY <1>0, Constants, StateTypes DEF Processes, RepInv
  <1>3. CASE ObserveDurable(n)
    <2>1. PICK k : k = DurableShips(s)
      OBVIOUS
    <2>2. k \in 0..MaxWrites /\ k <= s.applied
      BY <1>0, <1>2, <2>1, DurableShipsFacts DEF RepInv, Types
    <2>3. PICK t : t = [s EXCEPT !.wm = k]
      OBVIOUS
    <2>4. /\ t \in Processes /\ t.wm = k /\ t.mem = s.mem /\ t.write = s.write /\ t.applied = s.applied
          /\ t.epoch = s.epoch /\ t.conn = s.conn /\ t.op = s.op /\ t.role = s.role /\ t.beat = s.beat
      BY <1>0, <2>2, <2>3 DEF Processes
    <2>5. Frontier(t, nextWrite) /\ Quiescent(t)
      BY <1>0, <1>1, <2>2, <2>3 DEF Processes, Frontier, Provenance, Quiescent
    <2>6. t.wm = DurableShips(t)
      BY <2>1, <2>4 DEF DurableShips
    <2>7. node'[n] = t
      BY <1>0, <1>3, <2>1, <2>3 DEF ObserveDurable, Set
    <2>. QED
      BY <1>2, <1>3, <2>4, <2>5, <2>6, <2>7, KeepsEntries DEF ObserveDurable
  <1>4. CASE ShipUncovered(n)
    <2>3. PICK t : t = [s EXCEPT !.op = "ready", !.answer = "none", !.seq = s.seq - 1, !.dirty = TRUE]
      OBVIOUS
    <2>0. s.op = "sent" /\ s.seq - 1 \in Nat
      BY <1>1, <1>2, <1>4 DEF ShipUncovered, Frontier
    <2>4. /\ t \in Processes /\ t.wm = s.wm /\ t.mem = s.mem /\ t.write = s.write /\ t.applied = s.applied
          /\ t.epoch = s.epoch /\ t.conn = s.conn /\ t.op = "ready" /\ t.role = s.role /\ t.beat = s.beat
      BY <1>0, <2>0, <2>3 DEF Processes
    <2>5. Frontier(t, nextWrite) /\ Quiescent(t)
      BY <1>0, <1>1, <1>2, <2>0, <2>3 DEF Processes, Frontier, Provenance, Quiescent
    <2>7. node'[n] = t
      BY <1>0, <1>4, <2>3 DEF ShipUncovered, Set
    <2>. QED
      BY <1>2, <1>4, <2>0, <2>4, <2>5, <2>7, KeepsEntries DEF ShipUncovered
  <1>5. CASE Reconnect(n)
    <2>3. PICK t : t = [s EXCEPT !.conn = TRUE]
      OBVIOUS
    <2>4. /\ t \in Processes /\ t.wm = s.wm /\ t.mem = s.mem /\ t.write = s.write /\ t.applied = s.applied
          /\ t.epoch = s.epoch /\ t.conn /\ t.op = s.op /\ t.role = s.role /\ t.beat = s.beat
      BY <1>0, <2>3 DEF Processes
    <2>5. Frontier(t, nextWrite) /\ Quiescent(t)
      BY <1>0, <1>1, <2>3 DEF Processes, Frontier, Provenance, Quiescent
    <2>7. node'[n] = t
      BY <1>0, <1>5, <2>3 DEF Reconnect, Set
    <2>. QED
      BY <1>2, <1>5, <2>4, <2>5, <2>7, KeepsEntries DEF Reconnect
  <1>6. CASE SendBeat(n)
    <2>1. PICK b : b = [sent |-> TRUE, applied |-> s.applied, durable |-> s.wm]
      OBVIOUS
    <2>2. b \in Beats /\ b.durable = s.wm /\ b.applied = s.applied
      BY <1>2, <2>1 DEF Beats
    <2>3. PICK t : t = [s EXCEPT !.beat = b]
      OBVIOUS
    <2>4. /\ t \in Processes /\ t.wm = s.wm /\ t.mem = s.mem /\ t.write = s.write /\ t.applied = s.applied
          /\ t.epoch = s.epoch /\ t.conn = s.conn /\ t.op = s.op /\ t.role = s.role /\ t.beat = b
      BY <1>0, <2>2, <2>3 DEF Processes
    <2>5. Frontier(t, nextWrite) /\ Quiescent(t)
      BY <1>0, <1>1, <1>2, <2>2, <2>3 DEF Processes, Frontier, Provenance, Quiescent
    <2>7. node'[n] = t
      BY <1>0, <1>6, <2>1, <2>3 DEF SendBeat, Set
    <2>. QED
      BY <1>2, <1>6, <2>2, <2>4, <2>5, <2>7, KeepsEntries DEF SendBeat
  <1>. QED
    BY <1>3, <1>4, <1>5, <1>6

\* A background flush, and the flush before a ship.
LEMMA FlushSteps ==
    ASSUME RepInv, NEW n \in Node, Persist(n) \/ BaseFlush(n)
    PROVE  /\ Moves(n)
           /\ \E k \in 0..Len(node[n].mem) : FlushOf(node[n], disk, ships, nextWrite, k, disk')
  <1>. DEFINE s == node[n]
  <1>0. /\ s \in Processes /\ node \in [Node -> Processes] /\ ProcInv(s, disk, ships, nextWrite)
        /\ disk \in Disks /\ ships \in SUBSET Messages /\ nextWrite \in 1..(MaxWrites + 1)
        /\ EntriesOK(s, disk, ships, nextWrite)
    BY DEF RepInv, Types, Processing, ProcInv, EntriesOK
  <1>1. Frontier(s, nextWrite) /\ Quiescent(s)
    BY <1>0 DEF ProcInv
  <1>2. ~Fenced(n) /\ ships' = ships /\ nextWrite' = nextWrite /\ dbEpoch' = dbEpoch
    BY DEF Persist, BaseFlush
  <1>3. /\ s.applied \in 0..MaxWrites /\ s.wm \in 0..MaxWrites /\ s.mem \in Seq(MemEntries)
        /\ Len(s.mem) \in Nat /\ DOMAIN s.mem = 1..Len(s.mem) /\ s.epoch \in Nat /\ MaxWrites \in Nat
    BY <1>0, Constants DEF Processes
  <1>4. \E k \in 0..Len(s.mem), t \in Processes :
           /\ disk' = Persisted(disk, SubSeq(s.mem, 1, k)) /\ node'[n] = t
           /\ t.mem = SubSeq(s.mem, k + 1, Len(s.mem)) /\ t.op = s.op /\ t.write = s.write
           /\ t.applied = s.applied /\ t.epoch = s.epoch /\ t.conn = s.conn /\ t.beat = s.beat
           /\ t.wm = s.wm \/ t.wm = DurableShips(t)
           /\ t.role = s.role /\ Frontier(t, nextWrite)
    <2>1. CASE Persist(n)
      <3>1. PICK k \in 1..Len(s.mem) : /\ disk' = Persisted(disk, SubSeq(s.mem, 1, k))
                                       /\ node'[n] = [s EXCEPT !.mem = SubSeq(s.mem, k + 1, Len(s.mem))]
        BY <1>0, <2>1 DEF Persist, Set
      <3>2. k \in 0..Len(s.mem)
        BY <1>3
      <3>3. PICK r \in Seq(MemEntries) : r = SubSeq(s.mem, k + 1, Len(s.mem))
        BY <1>3, <3>2, SplitFacts
      <3>4. PICK t : t = [s EXCEPT !.mem = r]
        OBVIOUS
      <3>5. /\ t \in Processes /\ t.mem = r /\ t.op = s.op /\ t.write = s.write
            /\ t.applied = s.applied /\ t.epoch = s.epoch /\ t.conn = s.conn /\ t.beat = s.beat
            /\ t.wm = s.wm /\ t.role = s.role
        BY <1>0, <3>4 DEF Processes
      <3>6. Frontier(t, nextWrite)
        BY <1>0, <1>1, <3>4 DEF Processes, Frontier, Provenance
      <3>. QED
        BY <3>1, <3>2, <3>3, <3>4, <3>5, <3>6
    <2>2. CASE BaseFlush(n)
      <3>1. SubSeq(s.mem, 1, Len(s.mem)) = s.mem /\ SubSeq(s.mem, Len(s.mem) + 1, Len(s.mem)) = <<>>
        BY <1>3
      <3>2. disk' = Persisted(disk, SubSeq(s.mem, 1, Len(s.mem)))
        BY <2>2, <3>1 DEF BaseFlush
      <3>3. PICK t : t = [s EXCEPT !.mem = <<>>, !.wm = s.applied, !.dirty = FALSE, !.repair = FALSE]
        OBVIOUS
      <3>4. <<>> \in Seq(MemEntries) /\ DOMAIN <<>> = {}
        OBVIOUS
      <3>5. /\ t \in Processes /\ t.mem = <<>> /\ t.op = s.op /\ t.write = s.write
            /\ t.applied = s.applied /\ t.epoch = s.epoch /\ t.conn = s.conn /\ t.beat = s.beat
            /\ t.wm = s.applied /\ t.role = s.role
        BY <1>0, <1>3, <3>3, <3>4 DEF Processes
      <3>6. Frontier(t, nextWrite)
        BY <1>0, <1>1, <1>3, <3>3 DEF Processes, Frontier, Provenance
      <3>7. t.wm = DurableShips(t)
        BY <3>4, <3>5 DEF DurableShips
      <3>8. node'[n] = t
        BY <1>0, <2>2, <3>3 DEF BaseFlush, BaseFlushed, Set
      <3>9. Len(s.mem) \in 0..Len(s.mem)
        BY <1>3
      <3>. QED
        BY <3>1, <3>2, <3>5, <3>6, <3>7, <3>8, <3>9
    <2>. QED
      BY <2>1, <2>2
  <1>5. PICK k \in 0..Len(s.mem), t \in Processes :
           /\ disk' = Persisted(disk, SubSeq(s.mem, 1, k)) /\ node'[n] = t
           /\ t.mem = SubSeq(s.mem, k + 1, Len(s.mem)) /\ t.op = s.op /\ t.write = s.write
           /\ t.applied = s.applied /\ t.epoch = s.epoch /\ t.conn = s.conn /\ t.beat = s.beat
           /\ t.wm = s.wm \/ t.wm = DurableShips(t)
           /\ t.role = s.role /\ Frontier(t, nextWrite)
    BY <1>4
  <1>6. PICK p : p = Persisted(disk, SubSeq(s.mem, 1, k)) /\ disk' = p
    BY <1>5
  <1>7. FlushOf(s, disk, ships, nextWrite, k, p)
    BY <1>2, <1>6, Flushing
  <1>8. EntriesOK(t, p, ships, nextWrite)
    BY <1>0, <1>5, <1>7, FlushEntries DEF FlushOf, Grows
  <1>9. \A i \in DOMAIN t.mem : \E j \in DOMAIN s.mem : j > k /\ t.mem[i] = s.mem[j]
    <2>0. PICK r : r = SubSeq(s.mem, k + 1, Len(s.mem))
      OBVIOUS
    <2>1. /\ DOMAIN r = 1..(Len(s.mem) - k) /\ t.mem = r
          /\ \A i \in 1..(Len(s.mem) - k) : r[i] = s.mem[i + k]
      <3>1. r \in Seq(MemEntries) /\ Len(r) = Len(s.mem) - k
        BY <1>3, <2>0, SplitFacts
      <3>2. DOMAIN r = 1..Len(r)
        BY <3>1
      <3>. QED
        BY <1>3, <1>5, <2>0, <3>1, <3>2, SplitFacts
    <2>2. \A i \in DOMAIN t.mem : i + k \in DOMAIN s.mem /\ i + k > k
      BY <1>3, <2>1
    <2>. QED
      BY <2>1, <2>2
  <1>10. Quiescent(t)
    BY <1>1, <1>5, <1>9 DEF Quiescent
  <1>11. ProcInv(t, p, ships, nextWrite)
    BY <1>5, <1>8, <1>10 DEF ProcInv, EntriesOK
  <1>12. \A i \in DOMAIN t.mem : OwnBelow(p, t.mem[i].id)
    BY <1>7, <1>9 DEF FlushOf
  <1>13. s.epoch # 0
    <2>1. CASE Persist(n)
      <3>1. s.mem # <<>>
        BY <1>3, <2>1 DEF Persist
      <3>. QED
        BY <3>1, HasTerm
    <2>2. CASE BaseFlush(n)
      BY <2>2, HasTerm DEF BaseFlush, Idle
    <2>. QED
      BY <2>1, <2>2
  <1>14. s.applied <= t.applied /\ t.beat.durable = s.beat.durable
    BY <1>3, <1>5
  <1>. QED
    BY <1>2, <1>5, <1>6, <1>7, <1>11, <1>12, <1>13, <1>14 DEF Moves

\* A batch enters the commit worker.
LEMMA StartStep ==
    ASSUME RepInv, NEW n \in Node, StartWrite(n)
    PROVE  Moves(n)
  <1>. DEFINE s == node[n]
  <1>0. /\ s \in Processes /\ node \in [Node -> Processes] /\ ProcInv(s, disk, ships, nextWrite)
        /\ disk \in Disks /\ ships \in SUBSET Messages /\ nextWrite \in 1..MaxWrites
        /\ EntriesOK(s, disk, ships, nextWrite) /\ nextWrite \in Nat
    BY Constants DEF RepInv, Types, Processing, ProcInv, EntriesOK, StartWrite
  <1>1. PICK w \in 1..MaxWrites : w = nextWrite
    BY <1>0
  <1>2. PICK t : t = [s EXCEPT !.op = "ready", !.write = w]
    OBVIOUS
  <1>3. /\ node'[n] = t /\ disk' = disk /\ ships' = ships /\ nextWrite' = w + 1 /\ dbEpoch' = dbEpoch
        /\ s.op = "none" /\ s.role = "serving"
    BY <1>0, <1>1, <1>2 DEF StartWrite, Set
  <1>4. /\ t \in Processes /\ t.mem = s.mem /\ t.op = "ready" /\ t.write = w
        /\ t.applied = s.applied /\ t.epoch = s.epoch /\ t.conn = s.conn /\ t.beat = s.beat
        /\ t.wm = s.wm /\ t.role = s.role /\ s.applied \in Nat
    <2>1. w \in 0..MaxWrites /\ s.applied \in Nat
      BY <1>0, <1>1, Constants DEF Processes
    <2>2. t \in Processes
      BY <1>0, <1>2, <2>1 DEF Processes
    <2>. QED
      BY <1>0, <1>2, <2>1, <2>2 DEF Processes
  <1>5. OwnBelow(disk, w)
    BY <1>1 DEF RepInv, Ordered
  <1>6. EntriesOK(t, disk, ships, w + 1)
    BY <1>0, <1>1, <1>3, <1>4, <1>5, StartEntries
  <1>7. Frontier(t, w + 1)
    <2>1. Frontier(s, w) /\ w \in Nat
      BY <1>0, <1>1 DEF ProcInv
    <2>2. t.seq = s.seq /\ t.shipped = s.shipped /\ t.solo = s.solo /\ t.token = s.token
      BY <1>0, <1>2 DEF Processes
    <2>3. s.seq = s.applied + 1 /\ Provenance(s) /\ s.applied < w
      BY <1>3, <2>1 DEF Frontier
    <2>. QED
      BY <1>3, <1>4, <2>1, <2>2, <2>3 DEF Frontier, Provenance
  <1>8. Quiescent(t)
    BY <1>3, <1>4 DEF Quiescent
  <1>9. ProcInv(t, disk, ships, w + 1)
    BY <1>6, <1>7, <1>8 DEF ProcInv, EntriesOK
  <1>10. s.epoch # 0
    BY <1>3, HasTerm DEF Idle
  <1>11. s.epoch = dbEpoch => \A i \in DOMAIN s.mem : OwnBelow(disk, s.mem[i].id)
    BY DEF RepInv, Ordered, Fenced
  <1>12. s.applied <= s.applied
    BY <1>4
  <1>. QED
    BY <1>3, <1>4, <1>9, <1>10, <1>11, <1>12 DEF Moves

\* A batch is sent; its ship is the one in the sender's hands.
LEMMA SendStep ==
    ASSUME RepInv, NEW n \in Node, SendShip(n)
    PROVE  /\ Moves(n)
           /\ \E m \in Messages : /\ ships' = ships \cup {m} /\ m.epoch = node[n].epoch /\ m.id = node[n].write
                                  /\ m.seq = node[n].applied + 1 /\ m.wm = node[n].wm
                                  /\ node[n].op = "ready" /\ node[n].epoch # 0
  <1>. DEFINE s == node[n]
  <1>0. /\ s \in Processes /\ node \in [Node -> Processes] /\ ProcInv(s, disk, ships, nextWrite)
        /\ disk \in Disks /\ ships \in SUBSET Messages /\ nextWrite \in 1..(MaxWrites + 1)
        /\ EntriesOK(s, disk, ships, nextWrite) /\ Frontier(s, nextWrite)
    BY DEF RepInv, Types, Processing, ProcInv, EntriesOK
  <1>1. /\ s.applied \in Nat /\ s.write \in Nat /\ s.epoch \in 0..MaxEpoch /\ s.wm \in 0..MaxWrites
        /\ MaxWrites \in Nat /\ MaxEpoch \in Nat
    BY <1>0, Constants DEF Processes
  <1>2. s.op = "ready" /\ s.conn /\ s.epoch # 0 /\ s.role = "serving"
    BY HasTerm DEF SendShip
  <1>3. s.seq = s.applied + 1 /\ s.applied < s.write /\ s.write <= MaxWrites /\ s.seq \in Nat
    <2>1. s.seq = s.applied + 1 /\ s.applied < s.write /\ s.write < nextWrite
      BY <1>0, <1>2 DEF Frontier
    <2>. QED
      BY <1>0, <1>1, <2>1
  <1>4. PICK m : m = [epoch |-> s.epoch, seq |-> s.seq, id |-> s.write, wm |-> s.wm, from |-> n, flying |-> TRUE]
    OBVIOUS
  <1>5. m \in Messages /\ m.epoch = s.epoch /\ m.seq = s.applied + 1 /\ m.id = s.write /\ m.wm = s.wm
    <2>1. s.epoch \in 1..MaxEpoch /\ s.seq \in 1..MaxWrites /\ s.write \in 1..MaxWrites
      BY <1>1, <1>2, <1>3
    <2>. QED
      BY <1>1, <1>3, <1>4, <2>1 DEF Messages
  <1>6. PICK t : t = [s EXCEPT !.op = "sent", !.seq = s.seq + 1]
    OBVIOUS
  <1>7. /\ node'[n] = t /\ disk' = disk /\ ships' = ships \cup {m} /\ nextWrite' = nextWrite /\ dbEpoch' = dbEpoch
    BY <1>0, <1>4, <1>6 DEF SendShip, Set
  <1>8. /\ t \in Processes /\ t.mem = s.mem /\ t.op = "sent" /\ t.write = s.write
        /\ t.applied = s.applied /\ t.epoch = s.epoch /\ t.conn = s.conn /\ t.beat = s.beat
        /\ t.wm = s.wm /\ t.role = s.role
    <2>1. t \in Processes
      <3>1. s.seq + 1 \in Nat
        BY <1>3
      <3>. QED
        BY <1>0, <1>6, <3>1 DEF Processes
    <2>. QED
      BY <1>0, <1>6, <2>1 DEF Processes
  <1>9. EntriesOK(t, disk, ships \cup {m}, nextWrite)
    BY <1>0, <1>2, <1>5, <1>8, SendEntries
  <1>10. Frontier(t, nextWrite)
    BY <1>0, <1>1, <1>2, <1>3, <1>6 DEF Processes, Frontier, Provenance
  <1>11. Quiescent(t)
    BY <1>2, <1>8 DEF Quiescent
  <1>12. ProcInv(t, disk, ships \cup {m}, nextWrite)
    BY <1>9, <1>10, <1>11 DEF ProcInv, EntriesOK
  <1>13. s.epoch = dbEpoch => \A i \in DOMAIN s.mem : OwnBelow(disk, s.mem[i].id)
    BY DEF RepInv, Ordered, Fenced
  <1>14. s.applied <= s.applied
    BY <1>1
  <1>. QED
    BY <1>2, <1>5, <1>7, <1>8, <1>12, <1>13, <1>14 DEF Moves

\* Only the log and the stamp of the database matter to a process.
LEMMA SameLog ==
    ASSUME NEW t, NEW S, NEW next, NEW p, NEW q, p.log = q.log, p.stamp = q.stamp
    PROVE  /\ ProcInv(t, p, S, next) => ProcInv(t, q, S, next)
           /\ \A x : OwnBelow(p, x) <=> OwnBelow(q, x)
  <1>1. Kept(t, p, S) => Kept(t, q, S)
    BY DEF Kept
  <1>2. \A x : OwnBelow(p, x) <=> OwnBelow(q, x)
    BY DEF OwnBelow
  <1>. QED
    BY <1>1, <1>2 DEF ProcInv

(* What applying the batch in the hands of s leaves, in the process t.      *)
AppliedTo(s, st, ship, t) ==
    /\ t.mem = Append(s.mem, Entry(s.write, st, ship))
    /\ t.op = "none" /\ t.shipped = st.shipped /\ t.solo = st.solo /\ t.applied = st.applied
    /\ t.epoch = s.epoch /\ t.seq = s.seq /\ t.wm = s.wm /\ t.beat = s.beat /\ t.token = s.token
    /\ t.role = s.role

\* The batch in the hands of a process is a write, and newer than all it applied.
LEMMA InHandsFacts ==
    ASSUME NEW s \in Processes, NEW next \in 1..(MaxWrites + 1), Frontier(s, next), s.op # "none"
    PROVE  /\ s.write \in 1..MaxWrites /\ s.applied \in Nat /\ s.applied < s.write /\ s.applied + 1 \in 1..MaxWrites
           /\ s.epoch \in 0..MaxEpoch /\ s.shipped \in 0..MaxWrites /\ s.solo \in BOOLEAN
           /\ s.op = "ready" \/ s.op = "sent"
           /\ s.op = "sent" => s.seq - 1 = s.applied + 1
  <1>1. s.write \in 0..MaxWrites /\ s.applied \in 0..MaxWrites /\ MaxWrites \in Nat
    BY Constants DEF Processes
  <1>2. s.applied < s.write /\ s.write < next
    BY DEF Frontier
  <1>3. s.epoch \in 0..MaxEpoch /\ s.shipped \in 0..MaxWrites /\ s.solo \in BOOLEAN /\ (s.op = "ready" \/ s.op = "sent")
    BY DEF Processes
  <1>4. s.op = "sent" => s.seq = s.applied + 2
    BY DEF Frontier
  <1>. QED
    BY <1>1, <1>2, <1>3, <1>4

\* The stamps of a Solo or Ambiguous batch, and of a shipped one.
LEMMA StampFacts ==
    ASSUME NEW s \in Processes, NEW next \in 1..(MaxWrites + 1), Frontier(s, next), s.op # "none"
    PROVE  /\ \A ship \in {0, s.applied + 1} :
                 /\ SoloStamp(s, ship) \in Stamps /\ SoloStamp(s, ship).epoch = s.epoch
                 /\ SoloStamp(s, ship).applied = Larger(s.applied, ship) /\ Provenance(SoloStamp(s, ship))
           /\ /\ ShippedStamp(s, s.applied + 1) \in Stamps /\ ShippedStamp(s, s.applied + 1).epoch = s.epoch
              /\ ShippedStamp(s, s.applied + 1).applied = Larger(s.applied, s.applied + 1)
              /\ Provenance(ShippedStamp(s, s.applied + 1))
  <1>1. /\ s.applied \in Nat /\ s.applied + 1 \in 1..MaxWrites /\ MaxWrites \in Nat /\ s.applied \in 0..MaxWrites
        /\ s.epoch \in 0..MaxEpoch /\ s.shipped \in 0..MaxWrites /\ s.solo \in BOOLEAN
    BY InHandsFacts, Constants DEF Processes
  <1>2. s.shipped <= s.applied
    BY DEF Frontier, Provenance
  <1>3. \A ship \in {0, s.applied + 1} : Larger(s.applied, ship) \in 0..MaxWrites /\ s.applied <= Larger(s.applied, ship)
    BY <1>1 DEF Larger
  <1>4. ASSUME NEW ship \in {0, s.applied + 1}
        PROVE  /\ SoloStamp(s, ship) \in Stamps /\ SoloStamp(s, ship).epoch = s.epoch
               /\ SoloStamp(s, ship).applied = Larger(s.applied, ship) /\ Provenance(SoloStamp(s, ship))
    <2>1. PICK a \in 0..MaxWrites : a = Larger(s.applied, ship) /\ s.applied <= a
      BY <1>3
    <2>2. s.shipped <= a
      BY <1>1, <1>2, <2>1
    <2>. QED
      BY <1>1, <2>1, <2>2 DEF SoloStamp, Stamps, Provenance
  <1>5. Larger(s.applied, s.applied + 1) = s.applied + 1
    BY <1>1 DEF Larger
  <1>6. PICK a \in 0..MaxWrites : a = s.applied + 1
    BY <1>1
  <1>7. a <= a
    BY <1>1
  <1>8. ShippedStamp(s, a) \in Stamps /\ ShippedStamp(s, a).epoch = s.epoch
        /\ ShippedStamp(s, a).applied = a /\ Provenance(ShippedStamp(s, a))
    BY <1>1, <1>5, <1>6, <1>7 DEF ShippedStamp, Stamps, Provenance
  <1>. QED
    BY <1>4, <1>5, <1>6, <1>8

\* A process that has applied the batch in its hands.
LEMMA ApplyProc ==
    ASSUME NEW s \in Processes, NEW d \in Disks, NEW S \in SUBSET Messages, NEW next \in 1..(MaxWrites + 1),
           EntriesOK(s, d, S, next), Frontier(s, next), s.op # "none", s.epoch # 0, s.role = "serving",
           NEW ship, (ship = 0 /\ s.op = "ready" /\ ~s.conn) \/ (ship = s.applied + 1 /\ s.op = "sent"),
           NEW st \in Stamps, st.epoch = s.epoch, st.applied = Larger(s.applied, ship), Provenance(st),
           NEW t, AppliedTo(s, st, ship, t)
    PROVE  ProcInv(t, d, S, next) /\ s.applied <= t.applied
  <1>1. /\ s.write \in 1..MaxWrites /\ s.applied \in Nat /\ s.applied < s.write /\ s.epoch \in Nat
        /\ s.write < next /\ next \in Nat
    BY InHandsFacts, ProcessTypes DEF Frontier
  <1>2. EntriesOK(t, d, S, next)
    <2>1. s.epoch > 0
      BY <1>1
    <2>. QED
      BY <2>1, ApplyEntries DEF AppliedTo
  <1>3. /\ s.op = "ready" => st.applied = s.applied
        /\ s.op = "sent" => st.applied = s.applied + 1
    BY <1>1 DEF Larger
  <1>4. s.op = "ready" \/ s.op = "sent"
    BY DEF Processes
  <1>5. Frontier(t, next)
    <2>1. /\ s.wm \in Nat /\ s.beat.durable \in Nat /\ s.beat.applied \in Nat
      <3>1. s.beat \in Beats
        BY DEF Processes
      <3>. QED
        BY ProcessTypes
    <2>2. /\ s.wm <= s.applied /\ s.beat.durable <= s.applied /\ s.beat.applied <= s.applied
          /\ s.token <= s.epoch /\ s.seq = s.applied + (IF s.op = "sent" THEN 2 ELSE 1)
      BY DEF Frontier
    <2>3. st.applied >= s.applied /\ st.applied < next /\ t.seq = st.applied + 1 /\ st.applied \in Nat
      BY <1>1, <1>3, <1>4, <2>2 DEF AppliedTo
    <2>4. t.wm <= t.applied /\ t.beat.durable <= t.applied /\ t.beat.applied <= t.applied
      <3>1. t.wm = s.wm /\ t.beat = s.beat /\ t.applied = st.applied
        BY DEF AppliedTo
      <3>2. \A x \in Nat : x <= s.applied => x <= st.applied
        BY <1>1, <2>3
      <3>. QED
        BY <2>1, <2>2, <3>1, <3>2
    <2>5. Provenance(t)
      BY DEF AppliedTo, Provenance
    <2>. QED
      BY <2>2, <2>3, <2>4, <2>5 DEF AppliedTo, Frontier
  <1>6. Quiescent(t) /\ s.applied <= t.applied
    BY <1>1, <1>3, <1>4 DEF AppliedTo, Quiescent
  <1>. QED
    BY <1>2, <1>5, <1>6 DEF ProcInv, EntriesOK

\* The process that Applied makes, and the one that ApplySolo makes of it.
LEMMA AppliedFacts ==
    ASSUME NEW s \in Processes, NEW st \in Stamps, s.write \in 1..MaxWrites, NEW ship \in 0..MaxWrites,
           NEW t, t = Applied(s, st, ship) \/ t = [Applied(s, st, ship) EXCEPT !.conn = FALSE, !.dirty = TRUE]
    PROVE  t \in Processes /\ AppliedTo(s, st, ship, t)
  <1>1. PICK m \in Seq(MemEntries) : m = Append(s.mem, Entry(s.write, st, ship))
    <2>1. Entry(s.write, st, ship) \in MemEntries
      BY DEF Entry, MemEntries
    <2>2. s.mem \in Seq(MemEntries)
      BY DEF Processes
    <2>3. PICK e \in MemEntries : e = Entry(s.write, st, ship)
      BY <2>1
    <2>4. Append(s.mem, e) \in Seq(MemEntries)
      BY <2>2
    <2>. QED
      BY <2>3, <2>4
  <1>2. st.shipped \in 0..MaxWrites /\ st.solo \in BOOLEAN /\ st.applied \in 0..MaxWrites /\ 0 \in 0..MaxWrites
    BY Constants DEF Stamps
  <1>3. PICK a : a = [s EXCEPT !.op = "none", !.write = 0, !.answer = "none"]
    OBVIOUS
  <1>4. /\ a \in Processes /\ a.mem = s.mem /\ a.op = "none" /\ a.epoch = s.epoch /\ a.seq = s.seq
        /\ a.wm = s.wm /\ a.beat = s.beat /\ a.token = s.token /\ a.role = s.role
    BY <1>2, <1>3 DEF Processes
  <1>5. PICK b : b = [a EXCEPT !.mem = m, !.shipped = st.shipped, !.solo = st.solo, !.applied = st.applied]
    OBVIOUS
  <1>6. /\ b \in Processes /\ b.mem = m /\ b.op = "none" /\ b.epoch = s.epoch /\ b.seq = s.seq
        /\ b.wm = s.wm /\ b.beat = s.beat /\ b.token = s.token /\ b.role = s.role
        /\ b.shipped = st.shipped /\ b.solo = st.solo /\ b.applied = st.applied
    BY <1>2, <1>4, <1>5 DEF Processes
  <1>7. Applied(s, st, ship) = b
    BY <1>1, <1>3, <1>4, <1>5 DEF Applied, Done
  <1>8. CASE t = b
    BY <1>1, <1>6, <1>8 DEF AppliedTo
  <1>9. CASE t = [b EXCEPT !.conn = FALSE, !.dirty = TRUE]
    <2>1. /\ t \in Processes /\ t.mem = m /\ t.op = "none" /\ t.epoch = s.epoch /\ t.seq = s.seq
          /\ t.wm = s.wm /\ t.beat = s.beat /\ t.token = s.token /\ t.role = s.role
          /\ t.shipped = st.shipped /\ t.solo = st.solo /\ t.applied = st.applied
      BY <1>6, <1>9 DEF Processes
    <2>. QED
      BY <1>1, <2>1 DEF AppliedTo
  <1>. QED
    BY <1>7, <1>8, <1>9

(* The database after a step: the same log, or more of it, by a flush of n. *)
DiskStays == disk' \in Disks /\ disk'.log = disk.log /\ disk'.stamp = disk.stamp
DiskFlushed(n) ==
    /\ disk' \in Disks /\ disk'.lineage = disk.lineage /\ ~Fenced(n) /\ node[n].epoch # 0
    /\ \E k \in 0..Len(node[n].mem) : \E p : /\ FlushOf(node[n], disk, ships, nextWrite, k, p)
                                             /\ disk'.log = p.log /\ disk'.stamp = p.stamp

\* The batch in the hands of the current writer is newer than every own write on
\* shared storage.
LEMMA WritesAbove ==
    ASSUME RepInv, NEW n \in Node, node[n].op # "none", ~Fenced(n)
    PROVE  OwnBelow(disk, node[n].write)
  <1>1. disk.stamp.epoch <= dbEpoch
    BY DEF RepInv, Watermarks, DurableTo
  <1>2. disk.stamp.epoch \in Nat /\ dbEpoch \in Nat
    BY StateTypes DEF RepInv
  <1>3. node[n].epoch >= disk.stamp.epoch
    BY <1>1, <1>2 DEF Fenced
  <1>. QED
    BY <1>3 DEF RepInv, Processing, ProcInv

\* A batch applied without a flush before it.
LEMMA ApplyStep ==
    ASSUME RepInv, NEW n \in Node, node[n].op # "none",
           NEW ship, \/ ship = 0 /\ node[n].op = "ready" /\ ~node[n].conn
                     \/ ship = node[n].applied + 1 /\ node[n].op = "sent",
           NEW st \in Stamps, st.epoch = node[n].epoch, st.applied = Larger(node[n].applied, ship), Provenance(st),
           NEW t \in Processes, AppliedTo(node[n], st, ship, t), node'[n] = t,
           disk' = disk, ships' = ships, nextWrite' = nextWrite, dbEpoch' = dbEpoch
    PROVE  Moves(n)
  <1>. DEFINE s == node[n]
  <1>0. /\ s \in Processes /\ ProcInv(s, disk, ships, nextWrite)
        /\ disk \in Disks /\ ships \in SUBSET Messages /\ nextWrite \in 1..(MaxWrites + 1)
        /\ EntriesOK(s, disk, ships, nextWrite) /\ Frontier(s, nextWrite)
    BY DEF RepInv, Types, Processing, ProcInv, EntriesOK
  <1>1. s.epoch # 0 /\ s.role = "serving"
    BY HasTerm
  <1>2. ProcInv(t, disk, ships, nextWrite) /\ s.applied <= t.applied
    BY <1>0, <1>1, ApplyProc
  <1>3. ASSUME t.epoch = dbEpoch, NEW i \in DOMAIN t.mem PROVE OwnBelow(disk, t.mem[i].id)
    <2>1. ~Fenced(n) /\ s.mem \in Seq(MemEntries)
      BY <1>0, <1>3 DEF Fenced, AppliedTo, Processes
    <2>2. (i \in DOMAIN s.mem /\ t.mem[i] = s.mem[i]) \/ t.mem[i] = Entry(s.write, st, ship)
      BY <1>3, <2>1 DEF AppliedTo
    <2>3. CASE t.mem[i] = Entry(s.write, st, ship)
      BY <2>1, <2>3, WritesAbove DEF Entry
    <2>4. CASE i \in DOMAIN s.mem /\ t.mem[i] = s.mem[i]
      BY <2>1, <2>4 DEF RepInv, Ordered
    <2>. QED
      BY <2>2, <2>3, <2>4
  <1>. QED
    BY <1>1, <1>2, <1>3 DEF Moves, AppliedTo

\* The first batch of a process that only it has: what went before is flushed.
LEMMA TaintStep ==
    ASSUME RepInv, NEW n \in Node, node[n].op # "none", ~Fenced(n),
           NEW ship, \/ ship = 0 /\ node[n].op = "ready" /\ ~node[n].conn
                     \/ ship = node[n].applied + 1 /\ node[n].op = "sent",
           NEW st \in Stamps, st.epoch = node[n].epoch, st.applied = Larger(node[n].applied, ship), Provenance(st),
           NEW r, r = [node[n] EXCEPT !.mem = <<>>, !.tainted = TRUE],
           NEW t \in Processes, AppliedTo(r, st, ship, t), node'[n] = t,
           disk' = [Persisted(disk, node[n].mem) EXCEPT !.taint = node[n].token],
           ships' = ships, nextWrite' = nextWrite, dbEpoch' = dbEpoch
    PROVE  Moves(n) /\ DiskFlushed(n)
  <1>. DEFINE s == node[n]
  <1>0. /\ s \in Processes /\ ProcInv(s, disk, ships, nextWrite)
        /\ disk \in Disks /\ ships \in SUBSET Messages /\ nextWrite \in 1..(MaxWrites + 1)
        /\ EntriesOK(s, disk, ships, nextWrite) /\ Frontier(s, nextWrite)
    BY DEF RepInv, Types, Processing, ProcInv, EntriesOK
  <1>1. s.epoch # 0 /\ s.role = "serving" /\ s.mem \in Seq(MemEntries) /\ s.token \in 0..MaxEpoch
    BY <1>0, HasTerm DEF Processes
  <1>2. PICK k : k = Len(s.mem)
    OBVIOUS
  <1>3. /\ k \in 0..Len(s.mem) /\ SubSeq(s.mem, 1, k) = s.mem /\ SubSeq(s.mem, k + 1, Len(s.mem)) = <<>>
    BY <1>1, <1>2
  <1>4. PICK p : p = Persisted(disk, s.mem)
    OBVIOUS
  <1>5. FlushOf(s, disk, ships, nextWrite, k, p)
    BY <1>3, <1>4, Flushing
  <1>6. disk' \in Disks /\ disk'.log = p.log /\ disk'.stamp = p.stamp /\ disk'.lineage = disk.lineage
    <2>1. p \in Disks /\ p.lineage = disk.lineage /\ disk' = [p EXCEPT !.taint = s.token]
      BY <1>4, <1>5 DEF FlushOf
    <2>. QED
      BY <1>1, <2>1 DEF Disks
  <1>7. /\ r \in Processes /\ r.mem = <<>> /\ r.op = s.op /\ r.write = s.write /\ r.applied = s.applied
        /\ r.epoch = s.epoch /\ r.conn = s.conn /\ r.role = s.role /\ r.wm = s.wm /\ r.beat = s.beat
    <2>1. <<>> \in Seq(MemEntries)
      OBVIOUS
    <2>. QED
      BY <1>0, <2>1 DEF Processes
  <1>8. EntriesOK(r, p, ships, nextWrite)
    <2>1. /\ Ids(disk.log) \subseteq Ids(p.log) /\ \A i \in 1..k : s.mem[i].id \in Ids(p.log)
          /\ s.op # "none" /\ s.epoch >= p.stamp.epoch => OwnBelow(p, s.write)
      BY <1>5 DEF FlushOf, Grows
    <2>. QED
      BY <1>0, <1>3, <1>7, <2>1, FlushEntries, ZenonT(60)
  <1>9. Frontier(r, nextWrite)
    BY <1>0 DEF Processes, Frontier, Provenance
  <1>10. ProcInv(t, p, ships, nextWrite) /\ r.applied <= t.applied
    <2>1. p \in Disks
      BY <1>5 DEF FlushOf
    <2>. QED
      BY <1>0, <1>1, <1>7, <1>8, <1>9, <2>1, ApplyProc
  <1>11. ASSUME NEW i \in DOMAIN t.mem PROVE OwnBelow(p, t.mem[i].id)
    <2>1. t.mem = Append(<<>>, Entry(s.write, st, ship))
      BY <1>7 DEF AppliedTo
    <2>2. t.mem[i] = Entry(s.write, st, ship)
      BY <1>11, <2>1
    <2>3. p.stamp.epoch = s.epoch \/ p.stamp = disk.stamp
      BY <1>5 DEF FlushOf
    <2>4. s.epoch >= p.stamp.epoch
      <3>1. disk.stamp.epoch <= dbEpoch
        BY DEF RepInv, Watermarks, DurableTo
      <3>2. disk.stamp.epoch \in Nat /\ dbEpoch \in Nat
        BY StateTypes DEF RepInv
      <3>. QED
        BY <2>3, <3>1, <3>2 DEF Fenced
    <2>5. OwnBelow(p, s.write)
      BY <1>5, <2>4 DEF FlushOf
    <2>. QED
      BY <2>2, <2>5 DEF Entry
  <1>12. ProcInv(t, disk', ships, nextWrite) /\ \A i \in DOMAIN t.mem : OwnBelow(disk', t.mem[i].id)
    <2>1. PICK q : q = disk'
      OBVIOUS
    <2>2. p.log = q.log /\ p.stamp = q.stamp
      BY <1>6, <2>1
    <2>3. ProcInv(t, q, ships, nextWrite) /\ \A x : OwnBelow(p, x) <=> OwnBelow(q, x)
      BY <1>10, <2>2, SameLog
    <2>. QED
      BY <1>11, <2>1, <2>3
  <1>13. DiskFlushed(n)
    BY <1>1, <1>3, <1>5, <1>6 DEF DiskFlushed
  <1>. QED
    BY <1>1, <1>7, <1>10, <1>12, <1>13 DEF Moves, AppliedTo

\* The steps that apply a batch.
LEMMA ApplySteps ==
    ASSUME RepInv, NEW n \in Node, ShipAccepted(n) \/ WriteSolo(n) \/ ShipAmbiguous(n)
    PROVE  Moves(n) /\ (DiskStays \/ DiskFlushed(n)) /\ disk'.lineage = disk.lineage
  <1>. DEFINE s == node[n]
  <1>0. /\ s \in Processes /\ node \in [Node -> Processes] /\ nextWrite \in 1..(MaxWrites + 1)
        /\ Frontier(s, nextWrite) /\ disk \in Disks
    BY DEF RepInv, Types, Processing, ProcInv
  <1>1. s.op # "none"
    BY DEF ShipAccepted, WriteSolo, ShipAmbiguous
  <1>2. /\ s.write \in 1..MaxWrites /\ s.applied + 1 \in 1..MaxWrites /\ MaxWrites \in Nat
        /\ s.op = "sent" => s.seq - 1 = s.applied + 1
    BY <1>0, <1>1, InHandsFacts, Constants
  <1>3. CASE ShipAccepted(n)
    <2>1. PICK ship \in 0..MaxWrites : ship = s.seq - 1 /\ ship = s.applied + 1 /\ s.op = "sent"
      BY <1>2, <1>3 DEF ShipAccepted
    <2>2. PICK st \in Stamps : /\ st = ShippedStamp(s, ship) /\ st.epoch = s.epoch
                               /\ st.applied = Larger(s.applied, ship) /\ Provenance(st)
      BY <1>0, <1>1, <2>1, StampFacts
    <2>3. PICK t : t = Applied(s, st, ship)
      OBVIOUS
    <2>4. t \in Processes /\ AppliedTo(s, st, ship, t)
      BY <1>0, <1>2, <2>3, AppliedFacts
    <2>5. node'[n] = t /\ disk' = disk /\ ships' = ships /\ nextWrite' = nextWrite /\ dbEpoch' = dbEpoch
      BY <1>0, <1>3, <2>1, <2>2, <2>3 DEF ShipAccepted, Set
    <2>6. Moves(n)
      BY <1>1, <2>1, <2>2, <2>4, <2>5, ApplyStep
    <2>. QED
      BY <1>0, <2>5, <2>6 DEF DiskStays
  <1>4. ASSUME NEW ship \in 0..MaxWrites, ApplySolo(n, ship),
               \/ ship = 0 /\ s.op = "ready" /\ ~s.conn
               \/ ship = s.applied + 1 /\ s.op = "sent"
        PROVE  Moves(n) /\ (DiskStays \/ DiskFlushed(n)) /\ disk'.lineage = disk.lineage
    <2>2. PICK st \in Stamps : /\ st = SoloStamp(s, ship) /\ st.epoch = s.epoch
                               /\ st.applied = Larger(s.applied, ship) /\ Provenance(st)
      <3>1. ship \in {0, s.applied + 1}
        BY <1>4
      <3>. QED
        BY <1>0, <1>1, <3>1, StampFacts
    <2>3. ships' = ships /\ nextWrite' = nextWrite /\ dbEpoch' = dbEpoch
      BY <1>4 DEF ApplySolo
    <2>4. CASE node' = [node EXCEPT ![n] = [Applied(s, SoloStamp(s, ship), ship) EXCEPT !.conn = FALSE, !.dirty = TRUE]]
                 /\ disk' = disk
      <3>1. PICK t : t = [Applied(s, st, ship) EXCEPT !.conn = FALSE, !.dirty = TRUE]
        OBVIOUS
      <3>2. t \in Processes /\ AppliedTo(s, st, ship, t)
        BY <1>0, <1>2, <3>1, AppliedFacts
      <3>3. node'[n] = t
        BY <1>0, <2>2, <2>4, <3>1
      <3>4. Moves(n)
        BY <1>1, <1>4, <2>2, <2>3, <2>4, <3>2, <3>3, ApplyStep
      <3>. QED
        BY <1>0, <2>4, <3>4 DEF DiskStays
    <2>5. PICK r : r = [s EXCEPT !.mem = <<>>, !.tainted = TRUE]
      OBVIOUS
    <2>6. CASE /\ ~Fenced(n) /\ disk' = [Persisted(disk, s.mem) EXCEPT !.taint = s.token]
               /\ node' = [node EXCEPT ![n] = [Applied(r, SoloStamp(s, ship), ship) EXCEPT !.conn = FALSE, !.dirty = TRUE]]
      <3>1. PICK t : t = [Applied(r, st, ship) EXCEPT !.conn = FALSE, !.dirty = TRUE]
        OBVIOUS
      <3>2. r \in Processes /\ r.write = s.write
        <4>1. <<>> \in Seq(MemEntries)
          OBVIOUS
        <4>. QED
          BY <1>0, <2>5, <4>1 DEF Processes
      <3>3. t \in Processes /\ AppliedTo(r, st, ship, t)
        BY <1>2, <3>1, <3>2, AppliedFacts
      <3>4. node'[n] = t
        BY <1>0, <2>2, <2>6, <3>1
      <3>. QED
        BY <1>1, <1>4, <2>2, <2>3, <2>5, <2>6, <3>3, <3>4, TaintStep DEF DiskFlushed
    <2>. QED
      BY <1>4, <2>4, <2>5, <2>6 DEF ApplySolo, Set
  <1>5. CASE WriteSolo(n)
    <2>1. 0 \in 0..MaxWrites /\ ApplySolo(n, 0) /\ s.op = "ready" /\ ~s.conn
      BY <1>2, <1>5 DEF WriteSolo
    <2>. QED
      BY <1>4, <2>1
  <1>6. CASE ShipAmbiguous(n)
    <2>1. PICK ship \in 0..MaxWrites : ship = s.seq - 1 /\ ship = s.applied + 1 /\ s.op = "sent"
      BY <1>2, <1>6 DEF ShipAmbiguous
    <2>2. ApplySolo(n, ship)
      BY <1>6, <2>1 DEF ShipAmbiguous
    <2>. QED
      BY <1>4, <2>1, <2>2
  <1>. QED
    BY <1>3, <1>5, <1>6

(* The ships are the same, some of them no longer in flight.                *)
ShipsStay ==
    /\ ships' \subseteq Messages
    /\ \A m \in ships' : \E q \in ships : SameShip(m, q)
    /\ \A q \in ships : \E m \in ships' : SameShip(m, q)

\* A request that does not change is the same request.
LEMMA SameShips ==
    ASSUME Types, ships' = ships
    PROVE  ShipsStay
  BY DEF Types, ShipsStay, SameShip

\* A request that is delivered, or lost, is still the same request.
LEMMA LandedShip ==
    ASSUME NEW m \in Messages, NEW b \in BOOLEAN
    PROVE  [m EXCEPT !.flying = b] \in Messages /\ SameShip([m EXCEPT !.flying = b], m)
  BY DEF Messages, SameShip

\* What the end of a process does to the requests.
LEMMA DiesFacts ==
    ASSUME Types, NEW n \in Node, Dies(n)
    PROVE  ShipsStay /\ node'[n] = Dead
  <1>1. \A m \in ships : (m.flying /\ (m.from = n \/ Waiting(m))) \in BOOLEAN
    OBVIOUS
  <1>2. ships' = {[m EXCEPT !.flying = m.flying /\ (m.from = n \/ Waiting(m))] : m \in ships}
    BY DEF Dies
  <1>3. ships \subseteq Messages
    BY DEF Types
  <1>4. ASSUME NEW m \in ships
        PROVE  /\ [m EXCEPT !.flying = m.flying /\ (m.from = n \/ Waiting(m))] \in Messages
               /\ SameShip([m EXCEPT !.flying = m.flying /\ (m.from = n \/ Waiting(m))], m)
    <2>1. PICK b \in BOOLEAN : b = (m.flying /\ (m.from = n \/ Waiting(m)))
      OBVIOUS
    <2>2. m \in Messages
      BY <1>3
    <2>3. [m EXCEPT !.flying = b] \in Messages /\ SameShip([m EXCEPT !.flying = b], m)
      BY <2>2, LandedShip
    <2>. QED
      BY <2>1, <2>3
  <1>5. ShipsStay
    <2>1. ASSUME NEW x \in ships' PROVE x \in Messages /\ \E q \in ships : SameShip(x, q)
      <3>1. PICK m \in ships : x = [m EXCEPT !.flying = m.flying /\ (m.from = n \/ Waiting(m))]
        BY <1>2, <2>1
      <3>. QED
        BY <1>4, <3>1
    <2>2. ASSUME NEW q \in ships PROVE \E m \in ships' : SameShip(m, q)
      <3>1. [q EXCEPT !.flying = q.flying /\ (q.from = n \/ Waiting(q))] \in ships'
        BY <1>2
      <3>. QED
        BY <1>4, <3>1
    <2>. QED
      BY <2>1, <2>2 DEF ShipsStay
  <1>6. node'[n] = Dead
    BY DEF Types, Dies, Set
  <1>. QED
    BY <1>5, <1>6

\* A process that starts over, with no term or with the next one.
LEMMA StartsOver ==
    ASSUME RepInv, NEW n \in Node, NEW role \in Role \ {"serving"}, NEW e \in 0..MaxEpoch,
           (e = 0 /\ role \in Idle) \/ (e = dbEpoch + 1 /\ dbEpoch' = dbEpoch + 1),
           node'[n] = [Fresh EXCEPT !.role = role, !.epoch = e], ShipsStay, nextWrite' = nextWrite
    PROVE  Moves(n)
  <1>1. PICK S, d, t : S = ships' /\ d = disk' /\ t = node'[n]
    OBVIOUS
  <1>2. \A m \in S : m.epoch # e
    <2>. SUFFICES ASSUME NEW m \in S PROVE m.epoch # e
      OBVIOUS
    <2>1. PICK q \in ships : m.epoch = q.epoch
      BY <1>1 DEF ShipsStay, SameShip
    <2>2. q.epoch \in Nat \ {0} /\ q.epoch <= dbEpoch /\ dbEpoch \in Nat
      BY StateTypes DEF RepInv, Epochs
    <2>. QED
      BY <2>1, <2>2
  <1>3. nextWrite \in Nat \ {0}
    BY Constants DEF RepInv, Types
  <1>4. t \in Processes /\ ProcInv(t, d, S, nextWrite)
    <2>1. /\ [Fresh EXCEPT !.role = role, !.epoch = e] \in Processes
          /\ ProcInv([Fresh EXCEPT !.role = role, !.epoch = e], d, S, nextWrite)
      BY <1>2, <1>3, FreshProcess
    <2>2. t = [Fresh EXCEPT !.role = role, !.epoch = e]
      BY <1>1
    <2>. QED
      BY <2>1, <2>2
  <1>5. t.mem = <<>> /\ t.wm = 0 /\ t.beat.durable = 0 /\ t.epoch = e /\ t.role = role
    BY <1>1 DEF Fresh, NoBeat
  <1>6. DOMAIN t.mem = {}
    BY <1>5
  <1>. QED
    BY <1>1, <1>4, <1>5, <1>6 DEF Moves

\* A process that has just started.
LEMMA FreshIsProcess == Fresh \in Processes
  <1>1. NoBeat \in Beats
    BY Constants DEF NoBeat, Beats
  <1>2. <<>> \in Seq(MemEntries) /\ "standby" \in Role
    BY DEF Role
  <1>. QED
    BY <1>1, <1>2, Constants DEF Fresh, Processes

\* Fresh and Dead have no term.
LEMMA FreshFacts ==
    /\ Fresh = [Fresh EXCEPT !.role = "standby", !.epoch = 0]
    /\ Dead = [Fresh EXCEPT !.role = "down", !.epoch = 0]
    /\ [Fresh EXCEPT !.role = "quiesced"] = [Fresh EXCEPT !.role = "quiesced", !.epoch = 0]
  <1>1. \A a \in Processes : a.epoch = 0 => a = [a EXCEPT !.epoch = 0]
    BY DEF Processes
  <1>2. ASSUME NEW role \in Role
        PROVE  [Fresh EXCEPT !.role = role] = [Fresh EXCEPT !.role = role, !.epoch = 0]
    <2>1. PICK a : a = [Fresh EXCEPT !.role = role]
      OBVIOUS
    <2>2. a \in Processes /\ a.epoch = 0
      BY <2>1, FreshIsProcess DEF Processes, Fresh
    <2>3. a = [a EXCEPT !.epoch = 0]
      BY <1>1, <2>2
    <2>. QED
      BY <2>1, <2>3
  <1>3. Fresh = [Fresh EXCEPT !.role = "standby"]
    <2>1. \A a \in Processes : a.role = "standby" => a = [a EXCEPT !.role = "standby"]
      BY DEF Processes
    <2>2. Fresh.role = "standby"
      BY DEF Fresh
    <2>. QED
      BY <2>1, <2>2, FreshIsProcess
  <1>4. {"standby", "down", "quiesced"} \subseteq Role
    BY DEF Role
  <1>. QED
    BY <1>2, <1>3, <1>4 DEF Dead

\* The steps that end a process, start one, or send it back to role election.
LEMMA RestartSteps ==
    ASSUME RepInv, NEW n \in Node,
           \/ Dies(n) /\ nextWrite' = nextWrite
           \/ Claim(n) \/ LoseClaim(n) \/ Restart(n) \/ ReplayFenced(n)
           \/ /\ Set(n, [Fresh EXCEPT !.role = "quiesced"])
              /\ ships' = ships /\ nextWrite' = nextWrite
    PROVE  Moves(n) /\ ShipsStay
  <1>0. node \in [Node -> Processes] /\ 0 \in 0..MaxEpoch /\ Types
    BY Constants DEF RepInv, Types
  <1>1. ShipsStay /\ nextWrite' = nextWrite
    BY <1>0, SameShips, DiesFacts DEF Claim, LoseClaim, Restart, ReplayFenced
  <1>2. node'[n] \in {Fresh, Dead, [Fresh EXCEPT !.role = "quiesced"]}
    BY <1>0, DiesFacts DEF Claim, LoseClaim, Restart, ReplayFenced, Returned, Set
  <1>3. PICK role \in Idle : node'[n] = [Fresh EXCEPT !.role = role, !.epoch = 0]
    BY <1>2, FreshFacts DEF Idle
  <1>4. role \in Role \ {"serving"}
    BY DEF Idle, Role
  <1>. QED
    BY <1>0, <1>1, <1>3, <1>4, StartsOver

\* A successor opens the database in the next term.
LEMMA OpenStep ==
    ASSUME RepInv, NEW n \in Node, OpenDb(n)
    PROVE  Moves(n)
  <1>1. PICK e \in 0..MaxEpoch : e = dbEpoch + 1
    BY Constants DEF RepInv, Types, OpenDb
  <1>2. node'[n] = [Fresh EXCEPT !.role = "opened", !.epoch = e] /\ dbEpoch' = dbEpoch + 1
        /\ nextWrite' = nextWrite /\ ships' = ships
    BY <1>1 DEF OpenDb
  <1>3. "opened" \in Role \ {"serving"} /\ ShipsStay
    BY <1>2, SameShips DEF Role, RepInv
  <1>. QED
    BY <1>1, <1>2, <1>3, StartsOver

-----------------------------------------------------------------------------
(* Takeover *)

\* Before it serves, a process has shipped nothing in its term.
LEMMA NoShipsYet ==
    ASSUME RepInv, NEW n \in Node, node[n].role # "serving"
    PROVE  \A m \in ships : m.epoch # node[n].epoch
  <1>. SUFFICES ASSUME NEW m \in ships, m.epoch = node[n].epoch PROVE FALSE
    OBVIOUS
  <1>1. node[n].op = "none" /\ node[n].applied = 0
    BY DEF RepInv, Processing, ProcInv, Quiescent
  <1>2. m.seq <= 0
    BY <1>1 DEF RepInv, Processing, ProcInv, InHands
  <1>3. m.seq \in Nat \ {0}
    BY StateTypes DEF RepInv
  <1>. QED
    BY <1>2, <1>3

\* The replay writes the kept batches, without a stamp.
LEMMA ReplayFacts ==
    ASSUME NEW t \in Tails
    PROVE  /\ Replay(t) \in Seq(MemEntries)
           /\ \A i \in DOMAIN Replay(t) :
                 /\ Replay(t)[i].stamp = NoStamp /\ Replay(t)[i].ship = 0
                 /\ \E k \in DOMAIN t.batches : Replay(t)[i].id = t.batches[k]
           /\ DOMAIN t.batches = {} => Replay(t) = <<>>
  <1>. DEFINE D == DOMAIN t.batches
              order == CHOOSE f \in [1..Cardinality(D) -> D] : \A i, j \in DOMAIN f : i < j => f[i] < f[j]
  <1>1. t.batches \in Batches
    BY DEF Tails
  <1>2. D \subseteq 1..MaxWrites /\ t.batches \in [D -> 1..MaxWrites] /\ MaxWrites \in Nat
    BY <1>1, BatchesFacts, Constants
  <1>3. D \in SUBSET (0..MaxWrites)
    BY <1>2
  <1>. HIDE DEF D
  <1>4. PICK f : Enumerates(f, D)
    BY <1>2, <1>3, Enumeration
  <1>5. f \in [1..Cardinality(D) -> D] /\ \A i, j \in DOMAIN f : i < j => f[i] < f[j]
    BY <1>4 DEF Enumerates
  <1>6. order \in [1..Cardinality(D) -> D]
    BY <1>5
  <1>7. Replay(t) = [i \in DOMAIN order |-> Entry(t.batches[order[i]], NoStamp, 0)]
    BY DEF Replay, D
  <1>8. Cardinality(D) \in Nat /\ (D = {} => Cardinality(D) = 0)
    <2>1. IsFiniteSet(D)
      <3>1. IsFiniteSet(1..MaxWrites)
        BY <1>2, FS_Interval
      <3>. QED
        BY <1>2, <3>1, FS_Subset
    <2>. QED
      BY <2>1, FS_CardinalityType, FS_EmptySet
  <1>. HIDE DEF order
  <1>9. PICK c \in Nat : c = Cardinality(D) /\ DOMAIN order = 1..c
    BY <1>6, <1>8
  <1>10. \A i \in 1..c : order[i] \in D /\ t.batches[order[i]] \in 1..MaxWrites
    BY <1>2, <1>6, <1>9
  <1>11. ASSUME NEW w \in 1..MaxWrites
         PROVE  /\ Entry(w, NoStamp, 0) \in MemEntries /\ Entry(w, NoStamp, 0).stamp = NoStamp
                /\ Entry(w, NoStamp, 0).ship = 0 /\ Entry(w, NoStamp, 0).id = w
    BY Constants DEF Entry, MemEntries, NoStamp, Stamps
  <1>12. Replay(t) \in Seq(MemEntries)
    <2>1. \A i \in 1..c : Entry(t.batches[order[i]], NoStamp, 0) \in MemEntries
      BY <1>10, <1>11
    <2>2. Replay(t) \in [1..c -> MemEntries]
      BY <1>7, <1>9, <2>1
    <2>. QED
      BY <1>9, <2>2
  <1>13. \A i \in DOMAIN Replay(t) :
            /\ Replay(t)[i].stamp = NoStamp /\ Replay(t)[i].ship = 0
            /\ \E k \in DOMAIN t.batches : Replay(t)[i].id = t.batches[k]
    <2>. SUFFICES ASSUME NEW i \in 1..c
                  PROVE  /\ Replay(t)[i].stamp = NoStamp /\ Replay(t)[i].ship = 0
                         /\ \E k \in DOMAIN t.batches : Replay(t)[i].id = t.batches[k]
      BY <1>7, <1>9
    <2>1. Replay(t)[i] = Entry(t.batches[order[i]], NoStamp, 0)
      BY <1>7, <1>9
    <2>. QED
      BY <1>10, <1>11, <2>1 DEF D
  <1>14. D = {} => Replay(t) = <<>>
    <2>. SUFFICES ASSUME D = {} PROVE Replay(t) = <<>>
      OBVIOUS
    <2>1. c = 0
      BY <1>8, <1>9
    <2>2. DOMAIN Replay(t) = 1..c
      BY <1>7, <1>9
    <2>3. Len(Replay(t)) = 0
      BY <1>12, <2>1, <2>2
    <2>. QED
      BY <1>12, <2>3
  <1>. QED
    BY <1>12, <1>13, <1>14 DEF D

\* What is left of a tail after it is reconciled was shipped after the last stamp.
LEMMA ReplayedShips ==
    ASSUME RepInv, NEW n \in Node, NEW u, u = ReconciledTail(rcv[n].tail, disk.stamp)
    PROVE  /\ u \in Tails
           /\ \A k \in DOMAIN u.batches :
                 \E m \in ships : m.epoch = u.epoch /\ m.seq = k /\ m.id = u.batches[k] /\ After(m, disk.stamp)
           /\ DOMAIN u.batches \subseteq 1..u.max /\ u.epoch <= rcv[n].observed
           /\ DurableTo(u.epoch, u.durable)
  <1>1. PICK t, st : t = rcv[n].tail /\ st = disk.stamp
    OBVIOUS
  <1>2. /\ t \in Tails /\ st \in Stamps /\ TailOK(t) /\ t.epoch <= rcv[n].observed
        /\ Provenance(st) /\ DurableTo(t.epoch, t.durable) /\ DurableTo(st.epoch, st.applied)
    BY <1>1, StateTypes DEF RepInv, Receiving, Watermarks
  <1>3. /\ t.epoch \in Nat /\ st.epoch \in Nat /\ st.applied \in 0..MaxWrites /\ st.shipped \in 0..MaxWrites
        /\ t.durable \in Nat /\ t.max \in Nat /\ MaxWrites \in Nat /\ rcv[n].observed \in Nat /\ dbEpoch \in Nat
    BY <1>2, Constants, StateTypes DEF Tails, Stamps, RepInv
  <1>4. /\ u \in Tails
        /\ u = NoTail \/ (st.epoch < t.epoch /\ u = t)
           \/ (st.epoch = t.epoch /\ u = Prune(t, IF st.solo THEN st.applied ELSE st.shipped))
    BY <1>1, <1>2, ReconciledFacts
  <1>5. CASE u = NoTail
    <2>1. DurableTo(0, 0)
      BY <1>3, StateTypes DEF DurableTo, RepInv
    <2>2. u.epoch = 0 /\ u.durable = 0 /\ DOMAIN u.batches = {}
      BY <1>5, NoTailFacts
    <2>3. u.epoch <= rcv[n].observed
      BY <1>3, <2>2
    <2>4. DurableTo(u.epoch, u.durable)
      BY <2>1, <2>2
    <2>. QED
      BY <1>4, <2>2, <2>3, <2>4
  <1>6. CASE st.epoch < t.epoch /\ u = t
    BY <1>1, <1>2, <1>4, <1>6 DEF TailOK, Shipped, After
  <1>7. CASE st.epoch = t.epoch /\ u = Prune(t, IF st.solo THEN st.applied ELSE st.shipped)
    <2>1. PICK w \in 0..MaxWrites : w = (IF st.solo THEN st.applied ELSE st.shipped)
      BY <1>3
    <2>2. w = st.applied \/ (st.solo /\ w = st.applied)
      BY <1>2, <2>1 DEF Provenance
    <2>3. /\ u.epoch = t.epoch /\ u.max = t.max /\ u.durable = Larger(t.durable, w)
          /\ DOMAIN u.batches = {s \in DOMAIN t.batches : s > w}
          /\ \A s \in DOMAIN u.batches : u.batches[s] = t.batches[s]
      BY <1>2, <1>7, <2>1, PruneFacts
    <2>4. DurableTo(t.epoch, w)
      BY <1>2, <1>7, <2>2
    <2>5. DurableTo(u.epoch, u.durable)
      BY <1>2, <2>3, <2>4 DEF Larger
    <2>6. \A k \in DOMAIN u.batches :
             \E m \in ships : m.epoch = u.epoch /\ m.seq = k /\ m.id = u.batches[k] /\ After(m, st)
      <3>. SUFFICES ASSUME NEW k \in DOMAIN u.batches
                    PROVE  \E m \in ships : m.epoch = u.epoch /\ m.seq = k /\ m.id = u.batches[k] /\ After(m, st)
        OBVIOUS
      <3>1. k \in DOMAIN t.batches /\ k > st.applied /\ u.batches[k] = t.batches[k]
        BY <2>2, <2>3
      <3>2. PICK m \in ships : m.epoch = t.epoch /\ m.seq = k /\ m.id = t.batches[k]
        BY <1>2, <3>1 DEF TailOK, Shipped
      <3>. QED
        BY <1>7, <2>3, <3>1, <3>2 DEF After
    <2>. QED
      BY <1>1, <1>2, <1>4, <2>3, <2>5, <2>6 DEF TailOK
  <1>. QED
    BY <1>4, <1>5, <1>6, <1>7

\* begin_promotion and complete_promotion move the role on, or start over.
LEMMA PromotionSteps ==
    ASSUME RepInv, NEW n \in Node, BeginPromotion(n) \/ CompletePromotion(n)
    PROVE  Moves(n)
  <1>. DEFINE s == node[n]
  <1>0. /\ s \in Processes /\ node \in [Node -> Processes] /\ Frontier(s, nextWrite) /\ Quiescent(s)
        /\ rcv[n].observed \in Nat /\ dbEpoch \in Nat
    BY StateTypes DEF RepInv, Types, Processing, ProcInv
  <1>1. disk' = disk /\ ships' = ships /\ nextWrite' = nextWrite /\ dbEpoch' = dbEpoch
        /\ s.role \notin Idle /\ s.role # "serving" /\ dbEpoch <= dbEpoch'
    BY <1>0 DEF BeginPromotion, CompletePromotion, Idle
  <1>2. ASSUME NEW role \in Role \ {"serving"}, NEW snap \in Nat,
               node'[n] = [s EXCEPT !.role = role, !.snap = snap]
        PROVE  Moves(n)
    <2>1. PICK t : t = node'[n]
      OBVIOUS
    <2>2. /\ t \in Processes /\ t.wm = s.wm /\ t.mem = s.mem /\ t.write = s.write /\ t.applied = s.applied
          /\ t.epoch = s.epoch /\ t.conn = s.conn /\ t.op = s.op /\ t.role = role /\ t.beat = s.beat
      <3>1. t \in Processes
        BY <1>0, <1>2, <2>1, ZenonT(60) DEF Processes
      <3>. QED
        BY <1>0, <1>2, <2>1, <3>1 DEF Processes
    <2>3. Frontier(t, nextWrite) /\ Quiescent(t)
      BY <1>0, <1>1, <1>2, <2>1, <2>2 DEF Processes, Frontier, Provenance, Quiescent
    <2>. QED
      BY <1>0, <1>1, <2>1, <2>2, <2>3, KeepsEntries
  <1>3. CASE Set(n, [Fresh EXCEPT !.role = "quiesced"])
    BY <1>1, <1>3, RestartSteps
  <1>4. CASE Set(n, [s EXCEPT !.role = "promoting", !.snap = rcv[n].observed])
    <2>1. "promoting" \in Role \ {"serving"}
      BY DEF Role
    <2>2. node'[n] = [s EXCEPT !.role = "promoting", !.snap = rcv[n].observed]
      BY <1>0, <1>4 DEF Set
    <2>. QED
      BY <1>0, <1>2, <2>1, <2>2
  <1>5. CASE Set(n, [s EXCEPT !.role = "promoted"])
    <2>1. "promoted" \in Role \ {"serving"}
      BY DEF Role
    <2>2. PICK a : a = [s EXCEPT !.role = "promoted"]
      OBVIOUS
    <2>3. a \in Processes /\ s.snap \in Nat /\ a.snap = s.snap
      BY <1>0, <2>1, <2>2 DEF Processes
    <2>4. a = [a EXCEPT !.snap = s.snap]
      BY <2>3 DEF Processes
    <2>5. node'[n] = [s EXCEPT !.role = "promoted", !.snap = s.snap]
      BY <1>0, <1>5, <2>2, <2>4 DEF Set
    <2>. QED
      BY <1>2, <2>1, <2>3, <2>5
  <1>. QED
    BY <1>3, <1>4, <1>5 DEF BeginPromotion, CompletePromotion, Returned

\* The new leader's token is of its own term or of an older one.
LEMMA ServeStep ==
    ASSUME RepInv, NEW n \in Node, Serve(n)
    PROVE  Moves(n) /\ DiskStays /\ (disk'.lineage = disk.lineage \/ disk'.lineage = node[n].epoch)
  <1>. DEFINE s == node[n]
  <1>0. /\ s \in Processes /\ node \in [Node -> Processes] /\ Frontier(s, nextWrite) /\ Quiescent(s)
        /\ rcv[n].observed \in Nat /\ dbEpoch \in Nat /\ disk \in Disks
    BY StateTypes DEF RepInv, Types, Processing, ProcInv
  <1>1. /\ ships' = ships /\ nextWrite' = nextWrite /\ dbEpoch' = dbEpoch
        /\ s.role = "promoted" /\ owner = n /\ dbEpoch <= dbEpoch'
        /\ disk' = disk \/ disk' = [disk EXCEPT !.lineage = s.epoch]
    BY <1>0 DEF Serve
  <1>2. s.epoch # 0 /\ s.epoch \in 0..MaxEpoch /\ s.epoch \in Nat /\ disk.lineage \in Nat
    <2>1. s.epoch \in 0..MaxEpoch /\ s.epoch \in Nat /\ disk.lineage \in Nat
      BY <1>0, Constants DEF Processes, Disks
    <2>. QED
      BY <1>1, <2>1, HasTerm DEF Idle
  <1>3. disk.lineage <= s.epoch
    BY <1>1, <1>2 DEF RepInv, Epochs
  <1>4. DiskStays /\ (disk'.lineage = disk.lineage \/ disk'.lineage = s.epoch)
    BY <1>0, <1>1, <1>2 DEF DiskStays, Disks
  <1>5. PICK tok \in 0..MaxEpoch : tok = disk'.lineage /\ tok <= s.epoch
    BY <1>2, <1>3, <1>4 DEF DiskStays, Disks
  <1>6. PICK l \in BOOLEAN : l = (rcv[n].observed <= s.epoch)
    <2>1. (rcv[n].observed <= s.epoch) \in BOOLEAN
      BY <1>0, <1>2
    <2>. QED
      BY <2>1, Zenon
  <1>7. PICK t : t = [s EXCEPT !.role = "serving", !.proof = FALSE, !.snap = 0, !.lease = l, !.token = tok]
    OBVIOUS
  <1>8. node'[n] = t
    BY <1>0, <1>5, <1>6, <1>7 DEF Serve, Set
  <1>9. /\ t \in Processes /\ t.wm = s.wm /\ t.mem = s.mem /\ t.write = s.write /\ t.applied = s.applied
        /\ t.epoch = s.epoch /\ t.conn = s.conn /\ t.op = s.op /\ t.role = "serving" /\ t.beat = s.beat
        /\ t.token = tok /\ t.seq = s.seq /\ t.shipped = s.shipped /\ t.solo = s.solo
    <2>1. "serving" \in Role /\ 0 \in Nat
      BY DEF Role
    <2>. QED
      BY <1>0, <1>7, <2>1 DEF Processes
  <1>10. Frontier(t, nextWrite)
    BY <1>0, <1>5, <1>9 DEF Frontier, Provenance
  <1>11. Quiescent(t)
    BY <1>9 DEF Quiescent
  <1>12. s.role \notin Idle
    BY <1>1 DEF Idle
  <1>. QED
    BY <1>0, <1>1, <1>4, <1>8, <1>9, <1>10, <1>11, <1>12, KeepsEntries DEF DiskStays

\* A process on its way to serving, with a memory of replayed batches.
LEMMA ReplayingProcess ==
    ASSUME RepInv, NEW n \in Node, node[n].role # "serving", node[n].role \notin Idle,
           NEW t \in Processes, node'[n] = t,
           t.role # "serving", t.epoch = node[n].epoch, t.op = node[n].op, t.applied = node[n].applied,
           t.seq = node[n].seq, t.shipped = node[n].shipped, t.solo = node[n].solo, t.wm = node[n].wm,
           t.beat = node[n].beat, t.token = node[n].token,
           \A i \in DOMAIN t.mem : /\ t.mem[i].stamp = NoStamp /\ t.mem[i].ship = 0 /\ t.mem[i].id < nextWrite
                                   /\ node[n].epoch = dbEpoch => OwnBelow(disk', t.mem[i].id),
           ships' = ships, nextWrite' = nextWrite, dbEpoch' = dbEpoch
    PROVE  Moves(n)
  <1>. DEFINE s == node[n]
  <1>0. s \in Processes /\ Frontier(s, nextWrite) /\ Quiescent(s) /\ s.applied \in Nat
    BY StateTypes DEF RepInv, Types, Processing, ProcInv
  <1>1. s.op = "none" /\ s.applied = 0
    BY <1>0 DEF Quiescent
  <1>2. \A m \in ships : m.epoch # t.epoch
    BY NoShipsYet
  <1>3. PICK d : d = disk'
    OBVIOUS
  <1>4. EntriesOK(t, d, ships, nextWrite)
    BY <1>0, <1>1, <1>2, QuiescentEntries
  <1>5. Frontier(t, nextWrite)
    BY <1>0, <1>1 DEF Frontier, Provenance
  <1>6. Quiescent(t)
    BY <1>1 DEF Quiescent
  <1>7. ProcInv(t, d, ships, nextWrite)
    BY <1>4, <1>5, <1>6 DEF ProcInv, EntriesOK
  <1>8. s.epoch # 0 /\ s.applied <= t.applied
    BY <1>0, HasTerm
  <1>. QED
    BY <1>3, <1>7, <1>8 DEF Moves

\* The replay is put into the memtable, or the process ends.
LEMMA ReconcileStep ==
    ASSUME RepInv, NEW n \in Node, Reconcile(n)
    PROVE  Moves(n) /\ ShipsStay
  <1>. DEFINE s == node[n]
  <1>0. s \in Processes /\ node \in [Node -> Processes]
    BY DEF RepInv, Types
  <1>1. /\ disk' = disk /\ nextWrite' = nextWrite /\ dbEpoch' = dbEpoch
        /\ s.role = "promoting"
    BY DEF Reconcile
  <1>2. PICK u : u = ReconciledTail(rcv[n].tail, disk.stamp)
    OBVIOUS
  <1>3. CASE Dies(n)
    BY <1>1, <1>3, RestartSteps
  <1>4. CASE /\ Set(n, [s EXCEPT !.role = "replaying", !.mem = Replay(u), !.proof = PreservesLineage(u, s.snap)])
             /\ ships' = ships
    <2>1. u \in Tails /\ \A k \in DOMAIN u.batches :
             \E m \in ships : m.epoch = u.epoch /\ m.seq = k /\ m.id = u.batches[k] /\ After(m, disk.stamp)
      BY <1>2, ReplayedShips
    <2>2. PICK mem \in Seq(MemEntries) : mem = Replay(u)
      BY <2>1, ReplayFacts
    <2>3. \A i \in DOMAIN mem : /\ mem[i].stamp = NoStamp /\ mem[i].ship = 0
                                /\ \E k \in DOMAIN u.batches : mem[i].id = u.batches[k]
      BY <2>1, <2>2, ReplayFacts
    <2>4. \A i \in DOMAIN mem : mem[i].id < nextWrite /\ OwnBelow(disk, mem[i].id)
      BY <2>1, <2>3 DEF RepInv, Ordered
    <2>5. PICK b \in BOOLEAN : b = PreservesLineage(u, s.snap)
      BY DEF PreservesLineage
    <2>6. PICK t : t = [s EXCEPT !.role = "replaying", !.mem = mem, !.proof = b]
      OBVIOUS
    <2>7. node'[n] = t
      BY <1>0, <1>4, <2>2, <2>5, <2>6 DEF Set
    <2>8. /\ t \in Processes /\ t.role = "replaying" /\ t.mem = mem /\ t.epoch = s.epoch /\ t.op = s.op
          /\ t.applied = s.applied /\ t.seq = s.seq /\ t.shipped = s.shipped /\ t.solo = s.solo /\ t.wm = s.wm
          /\ t.beat = s.beat /\ t.token = s.token
      <3>1. "replaying" \in Role
        BY DEF Role
      <3>. QED
        BY <1>0, <2>6, <3>1 DEF Processes
    <2>9. s.role \notin Idle
      BY <1>1 DEF Idle
    <2>10. ShipsStay
      BY <1>4, SameShips DEF RepInv
    <2>. QED
      BY <1>1, <1>4, <2>3, <2>4, <2>7, <2>8, <2>9, <2>10, ReplayingProcess
  <1>. QED
    BY <1>2, <1>3, <1>4 DEF Reconcile

\* The replay becomes durable.
LEMMA FinishStep ==
    ASSUME RepInv, NEW n \in Node, FinishReplay(n)
    PROVE  Moves(n) /\ (DiskStays \/ DiskFlushed(n)) /\ disk'.lineage = disk.lineage
  <1>. DEFINE s == node[n]
  <1>0. s \in Processes /\ node \in [Node -> Processes] /\ disk \in Disks /\ Types
    BY DEF RepInv, Types
  <1>1. /\ ships' = ships /\ nextWrite' = nextWrite /\ dbEpoch' = dbEpoch
        /\ s.role = "replaying" /\ disk' = Persisted(disk, s.mem) /\ s.role \notin Idle
    BY DEF FinishReplay, Idle
  <1>2. PICK t : t = [s EXCEPT !.role = "replayed", !.mem = <<>>]
    OBVIOUS
  <1>3. node'[n] = t
    BY <1>0, <1>2 DEF FinishReplay, Set
  <1>4. /\ t \in Processes /\ t.role = "replayed" /\ t.mem = <<>> /\ t.epoch = s.epoch /\ t.op = s.op
        /\ t.applied = s.applied /\ t.seq = s.seq /\ t.shipped = s.shipped /\ t.solo = s.solo /\ t.wm = s.wm
        /\ t.beat = s.beat /\ t.token = s.token
    <2>1. "replayed" \in Role /\ <<>> \in Seq(MemEntries)
      BY DEF Role
    <2>. QED
      BY <1>0, <1>2, <2>1 DEF Processes
  <1>5. DOMAIN t.mem = {}
    BY <1>4
  <1>6. Moves(n)
    BY <1>1, <1>3, <1>4, <1>5, ReplayingProcess
  <1>7. CASE ~Fenced(n)
    <2>1. s.mem \in Seq(MemEntries)
      BY <1>0 DEF Processes
    <2>2. PICK k \in 0..Len(s.mem) : SubSeq(s.mem, 1, k) = s.mem
      <3>1. Len(s.mem) \in 0..Len(s.mem) /\ SubSeq(s.mem, 1, Len(s.mem)) = s.mem
        BY <2>1
      <3>. QED
        BY <3>1
    <2>3. PICK p : p = Persisted(disk, s.mem)
      OBVIOUS
    <2>4. FlushOf(s, disk, ships, nextWrite, k, p)
      BY <1>7, <2>2, <2>3, Flushing
    <2>5. s.epoch # 0
      BY <1>1, HasTerm
    <2>. QED
      BY <1>1, <1>6, <1>7, <2>3, <2>4, <2>5 DEF DiskFlushed, FlushOf
  <1>8. CASE DOMAIN rcv[n].tail.batches = {}
    <2>1. s.mem = <<>>
      BY <1>1, <1>8 DEF RepInv, Receiving
    <2>2. disk' = disk
      BY <1>0, <1>1, <2>1, FlushNothing
    <2>. QED
      BY <1>0, <1>6, <2>2 DEF DiskStays
  <1>. QED
    BY <1>7, <1>8 DEF FinishReplay

-----------------------------------------------------------------------------
(* The other process *)

\* A process that the step leaves alone, its lease and answer apart.
LEMMA Bystands ==
    ASSUME RepInv, NEW q \in Node, node'[q] \in Processes, SameWork(node'[q], node[q]),
           DiskStays \/ \E n \in Node \ {q} : DiskFlushed(n),
           ShipsOf(node[q].epoch, ships', ships),
           nextWrite' \in Nat, nextWrite <= nextWrite', dbEpoch' \in Nat, dbEpoch <= dbEpoch'
    PROVE  Moves(q)
  <1>1. PICK t, d, S, after, b : t = node'[q] /\ d = disk' /\ S = ships' /\ after = nextWrite' /\ b = dbEpoch'
    OBVIOUS
  <1>2. /\ node[q].epoch \in Nat /\ dbEpoch \in Nat /\ node[q].epoch <= dbEpoch /\ node[q].applied \in Nat
    BY StateTypes DEF RepInv, Epochs
  <1>3. \/ d.log = disk.log /\ d.stamp = disk.stamp
        \/ /\ node[q].epoch < dbEpoch
           /\ Grows(disk, d, dbEpoch)
    <2>1. CASE DiskStays
      BY <1>1, <2>1 DEF DiskStays
    <2>2. ASSUME NEW n \in Node \ {q}, DiskFlushed(n) PROVE node[q].epoch < dbEpoch /\ Grows(disk, d, dbEpoch)
      <3>1. node[n].epoch = dbEpoch /\ node[n].epoch # 0
        BY <2>2 DEF DiskFlushed, Fenced
      <3>2. node[q].epoch # dbEpoch
        <4>1. node[n].epoch > 0
          BY <1>2, <3>1
        <4>. QED
          BY <3>1, <4>1 DEF RepInv, Epochs
      <3>3. PICK k \in 0..Len(node[n].mem) : \E p : /\ FlushOf(node[n], disk, ships, nextWrite, k, p)
                                                    /\ disk'.log = p.log /\ disk'.stamp = p.stamp
        BY <2>2 DEF DiskFlushed
      <3>4. PICK p : FlushOf(node[n], disk, ships, nextWrite, k, p) /\ d.log = p.log /\ d.stamp = p.stamp
        BY <1>1, <3>3
      <3>5. Grows(disk, p, node[n].epoch)
        BY <3>4 DEF FlushOf
      <3>6. Grows(disk, d, dbEpoch)
        BY <3>1, <3>4, <3>5 DEF Grows, OwnBelow
      <3>. QED
        BY <1>2, <3>2, <3>6
    <2>. QED
      BY <2>1, <2>2
  <1>4. Grows(disk, d, dbEpoch)
    BY <1>3 DEF Grows, OwnBelow
  <1>5. ProcInv(t, d, S, after)
    BY <1>1, <1>3, <1>4, Bystander
  <1>6. node[q].epoch = 0 => t.role \in Idle /\ t.mem = <<>>
    BY <1>1 DEF RepInv, Epochs, SameWork, Idle
  <1>7. t.epoch = b => \A i \in DOMAIN t.mem : OwnBelow(d, t.mem[i].id)
    <2>. SUFFICES ASSUME t.epoch = b, NEW i \in DOMAIN t.mem PROVE OwnBelow(d, t.mem[i].id)
      OBVIOUS
    <2>1. node[q].epoch = dbEpoch /\ t.mem = node[q].mem
      BY <1>1, <1>2 DEF SameWork
    <2>2. d.log = disk.log /\ ~Fenced(q)
      BY <1>2, <1>3, <2>1 DEF Fenced
    <2>3. OwnBelow(disk, t.mem[i].id)
      BY <2>1, <2>2 DEF RepInv, Ordered
    <2>. QED
      BY <2>2, <2>3 DEF OwnBelow
  <1>8. /\ t.epoch = node[q].epoch /\ node[q].applied <= t.applied /\ t.wm = node[q].wm /\ t.beat = node[q].beat
    BY <1>1, <1>2 DEF SameWork
  <1>. QED
    BY <1>1, <1>5, <1>6, <1>7, <1>8 DEF Moves

\* Another lease or another answer is no other work.
LEMMA SameWorkFacts ==
    ASSUME NEW s \in Processes, NEW l \in BOOLEAN,
           NEW a \in {"none", "accepted", "uncovered", "deposed", "stale"}
    PROVE  /\ SameWork(s, s)
           /\ [s EXCEPT !.lease = l] \in Processes /\ SameWork([s EXCEPT !.lease = l], s)
           /\ [s EXCEPT !.answer = a] \in Processes /\ SameWork([s EXCEPT !.answer = a], s)
  BY DEF Processes, SameWork

\* A step whose ships are the same has those of each term.
LEMMA ShipsOfTerm ==
    ASSUME ShipsStay, NEW e
    PROVE  ShipsOf(e, ships', ships)
  BY DEF ShipsStay, ShipsOf

\* A heartbeat arrives: its sender goes on, and so does its receiver.
LEMMA BeatStep ==
    ASSUME RepInv, NEW n \in Node, NEW p \in Node, NEW heard \in BOOLEAN, ReceiveBeat(n, p, heard)
    PROVE  \A q \in Node : Moves(q)
  <1>. DEFINE s == node[n]
  <1>0. /\ s \in Processes /\ node \in [Node -> Processes] /\ Frontier(s, nextWrite) /\ Quiescent(s)
        /\ dbEpoch \in Nat /\ disk \in Disks /\ nextWrite \in Nat /\ Types
    BY StateTypes DEF RepInv, Types, Processing, ProcInv
  <1>1. /\ disk' = disk /\ ships' = ships /\ nextWrite' = nextWrite /\ dbEpoch' = dbEpoch
        /\ s.role = "serving" /\ p # n /\ dbEpoch <= dbEpoch'
    BY <1>0 DEF ReceiveBeat
  <1>2. ASSUME NEW b \in BOOLEAN, node'[n] = [s EXCEPT !.beat = NoBeat, !.repair = b] PROVE Moves(n)
    <2>0. NoBeat \in Beats /\ NoBeat.durable = 0 /\ NoBeat.applied = 0
      BY Constants DEF NoBeat, Beats
    <2>1. PICK t : t = node'[n]
      OBVIOUS
    <2>2. /\ t \in Processes /\ t.wm = s.wm /\ t.mem = s.mem /\ t.write = s.write /\ t.applied = s.applied
          /\ t.epoch = s.epoch /\ t.conn = s.conn /\ t.op = s.op /\ t.role = s.role /\ t.beat = NoBeat
      <3>1. t \in Processes
        BY <1>0, <1>2, <2>0, <2>1, ZenonT(60) DEF Processes
      <3>. QED
        BY <1>0, <1>2, <2>1, <3>1 DEF Processes
    <2>3. Frontier(t, nextWrite) /\ Quiescent(t)
      <3>1. s.applied \in Nat
        BY <1>0, Constants DEF Processes
      <3>2. t.seq = s.seq /\ t.shipped = s.shipped /\ t.solo = s.solo /\ t.token = s.token
        BY <1>0, <1>2, <2>1 DEF Processes
      <3>3. Frontier(t, nextWrite)
        BY <1>0, <2>0, <2>2, <3>1, <3>2 DEF Frontier, Provenance
      <3>. QED
        BY <1>0, <1>1, <2>2, <3>3 DEF Quiescent
    <2>. QED
      BY <1>0, <1>1, <2>0, <2>1, <2>2, <2>3, KeepsEntries
  <1>3. ASSUME NEW q \in Node, node'[q] \in Processes, SameWork(node'[q], node[q]) PROVE Moves(q)
    <2>1. DiskStays /\ ShipsOf(node[q].epoch, ships', ships)
      BY <1>0, <1>1 DEF DiskStays, ShipsOf, SameShip
    <2>2. nextWrite' \in Nat /\ nextWrite <= nextWrite' /\ dbEpoch' \in Nat
      BY <1>0, <1>1
    <2>. QED
      BY <1>1, <1>3, <2>1, <2>2, Bystands
  <1>4. CASE \E b \in BOOLEAN : Set(n, [s EXCEPT !.beat = NoBeat, !.repair = b])
    <2>1. PICK b \in BOOLEAN : node' = [node EXCEPT ![n] = [s EXCEPT !.beat = NoBeat, !.repair = b]]
      BY <1>4 DEF Set
    <2>2. node'[n] = [s EXCEPT !.beat = NoBeat, !.repair = b] /\ \A q \in Node \ {n} : node'[q] = node[q]
      BY <1>0, <2>1
    <2>3. \A q \in Node \ {n} : node'[q] \in Processes /\ SameWork(node'[q], node[q])
      BY <1>0, <2>2, SameWorkFacts DEF SameWork
    <2>. QED
      BY <1>2, <1>3, <2>2, <2>3
  <1>5. CASE node' = [node EXCEPT ![n].beat = NoBeat, ![p].lease = @ /\ s.epoch <= node[p].epoch]
    <2>1. PICK l \in BOOLEAN : l = (node[p].lease /\ s.epoch <= node[p].epoch)
      <3>1. (node[p].lease /\ s.epoch <= node[p].epoch) \in BOOLEAN
        BY <1>0
      <3>. QED
        BY <3>1, Zenon
    <2>2. /\ node'[n] = [s EXCEPT !.beat = NoBeat]
          /\ node'[p] = [node[p] EXCEPT !.lease = l]
          /\ \A q \in Node \ {n, p} : node'[q] = node[q]
      BY <1>0, <1>1, <1>5, <2>1
    <2>3. PICK b \in BOOLEAN : [s EXCEPT !.beat = NoBeat] = [s EXCEPT !.beat = NoBeat, !.repair = b]
      <3>1. PICK a : a = [s EXCEPT !.beat = NoBeat]
        OBVIOUS
      <3>2. a \in Processes /\ a.repair \in BOOLEAN
        <4>1. NoBeat \in Beats
          BY Constants DEF NoBeat, Beats
        <4>. QED
          BY <1>0, <3>1, <4>1 DEF Processes
      <3>3. a = [a EXCEPT !.repair = a.repair]
        BY <3>2 DEF Processes
      <3>. QED
        BY <3>1, <3>2, <3>3
    <2>4. \A q \in Node \ {n} : node'[q] \in Processes /\ SameWork(node'[q], node[q])
      <3>1. node'[p] \in Processes /\ SameWork(node'[p], node[p])
        <4>1. "none" \in {"none", "accepted", "uncovered", "deposed", "stale"} /\ node[p] \in Processes
          BY <1>0
        <4>2. /\ [node[p] EXCEPT !.lease = l] \in Processes
              /\ SameWork([node[p] EXCEPT !.lease = l], node[p])
          BY <4>1, SameWorkFacts
        <4>. QED
          BY <2>2, <4>2
      <3>2. \A q \in Node \ {n, p} : node'[q] \in Processes /\ SameWork(node'[q], node[q])
        BY <1>0, <2>2 DEF SameWork
      <3>. QED
        BY <3>1, <3>2
    <2>5. Moves(n)
      BY <1>2, <2>2, <2>3
    <2>. QED
      BY <1>3, <2>4, <2>5
  <1>. QED
    BY <1>4, <1>5 DEF ReceiveBeat

\* The answer a receiver gives.
LEMMA AnswerFacts ==
    ASSUME NEW r \in Receivers, NEW e \in Nat, NEW m \in Messages
    PROVE  Received(r, e, m).answer \in {"accepted", "uncovered", "deposed", "stale"}
  <1>1. r.observed \in Nat /\ m.epoch \in Nat
    BY Constants DEF Receivers, Messages
  <1>2. CASE r.phase = "standby" /\ m.epoch < r.observed
    BY <1>1, <1>2 DEF Received
  <1>3. CASE r.phase = "standby" /\ m.epoch >= r.observed /\ ~CoversPredecessors(r.tail, m.epoch, m.seq, m.wm)
    BY <1>1, <1>3 DEF Received
  <1>4. CASE r.phase = "standby" /\ m.epoch >= r.observed /\ CoversPredecessors(r.tail, m.epoch, m.seq, m.wm)
    BY <1>1, <1>4 DEF Received
  <1>5. CASE r.phase # "standby"
    BY <1>1, <1>5 DEF Received
  <1>. QED
    BY <1>1, <1>2, <1>3, <1>4, <1>5

\* A ship request arrives: everybody goes on.
LEMMA DeliverStep ==
    ASSUME RepInv, NEW m \in ships, NEW p \in Node, Deliver(m, p)
    PROVE  (\A q \in Node : Moves(q)) /\ ShipsStay
  <1>0. /\ node \in [Node -> Processes] /\ rcv \in [Node -> Receivers] /\ ships \subseteq Messages
        /\ dbEpoch \in Nat /\ disk \in Disks /\ nextWrite \in Nat /\ m \in Messages /\ m.from \in Node
        /\ node[p].epoch \in Nat
    BY StateTypes DEF RepInv, Types, Messages
  <1>1. /\ disk' = disk /\ nextWrite' = nextWrite /\ dbEpoch' = dbEpoch /\ p # m.from
        /\ ships' = (ships \ {m}) \cup {[m EXCEPT !.flying = FALSE]}
    BY DEF Deliver
  <1>2. ShipsStay
    <2>1. [m EXCEPT !.flying = FALSE] \in Messages /\ SameShip([m EXCEPT !.flying = FALSE], m)
      BY <1>0, LandedShip
    <2>2. \A q : SameShip(q, q)
      BY DEF SameShip
    <2>. QED
      BY <1>0, <1>1, <2>1, <2>2 DEF ShipsStay
  <1>3. PICK res : res = Received(rcv[p], node[p].epoch, m)
    OBVIOUS
  <1>4. res.answer \in {"accepted", "uncovered", "deposed", "stale"}
    BY <1>0, <1>3, AnswerFacts
  <1>5. node' = [node EXCEPT ![m.from] = IF Waiting(m) THEN [@ EXCEPT !.answer = res.answer] ELSE @,
                             ![p] = IF res.answer = "stale" THEN [@ EXCEPT !.lease = FALSE] ELSE @]
    BY <1>3 DEF Deliver
  <1>6. /\ node'[m.from] = node[m.from] \/ node'[m.from] = [node[m.from] EXCEPT !.answer = res.answer]
        /\ node'[p] = node[p] \/ node'[p] = [node[p] EXCEPT !.lease = FALSE]
        /\ \A q \in Node \ {m.from, p} : node'[q] = node[q]
    BY <1>0, <1>1, <1>5
  <1>7. \A q \in Node : node[q] \in Processes
    BY <1>0
  <1>8. ASSUME NEW q \in Node PROVE node'[q] \in Processes /\ SameWork(node'[q], node[q])
    <2>1. SameWork(node[q], node[q]) /\ node[q] \in Processes
      BY <1>7 DEF SameWork
    <2>2. CASE node'[q] = node[q]
      BY <2>1, <2>2
    <2>3. CASE node'[q] = [node[q] EXCEPT !.answer = res.answer]
      BY <1>4, <2>1, <2>3, SameWorkFacts
    <2>4. CASE node'[q] = [node[q] EXCEPT !.lease = FALSE]
      BY <2>1, <2>4, SameWorkFacts
    <2>. QED
      BY <1>6, <2>2, <2>3, <2>4
  <1>9. ASSUME NEW q \in Node PROVE Moves(q)
    <2>1. DiskStays /\ ShipsOf(node[q].epoch, ships', ships)
      BY <1>0, <1>1, <1>2, ShipsOfTerm DEF DiskStays
    <2>2. nextWrite' \in Nat /\ nextWrite <= nextWrite' /\ dbEpoch' \in Nat /\ dbEpoch <= dbEpoch'
      BY <1>0, <1>1
    <2>. QED
      BY <1>8, <2>1, <2>2, Bystands
  <1>. QED
    BY <1>2, <1>9

-----------------------------------------------------------------------------
(* Every step *)

(* The process on node n sends the batch in its hands.                      *)
Sent(n) ==
    \E m \in Messages : /\ ships' = ships \cup {m} /\ m.epoch = node[n].epoch /\ m.id = node[n].write
                        /\ m.seq = node[n].applied + 1 /\ m.wm = node[n].wm
                        /\ node[n].op = "ready" /\ node[n].epoch # 0

(* What every step does, whoever takes it.                                  *)
Advances ==
    /\ \A q \in Node : Moves(q)
    /\ DiskStays \/ \E n \in Node : DiskFlushed(n)
    /\ ShipsStay \/ \E n \in Node : Sent(n) /\ DiskStays
    /\ dbEpoch' \in 0..MaxEpoch /\ dbEpoch <= dbEpoch'
    /\ nextWrite' \in 1..(MaxWrites + 1) /\ nextWrite <= nextWrite'
    /\ disk'.lineage = disk.lineage \/ \E n \in Node : Serve(n)

\* A step of node n leaves the other node's process alone, its lease apart.
LEMMA OthersStay ==
    ASSUME Types, NEW n \in Node, NodeStep(n),
           ~ \E p \in Node, heard \in BOOLEAN : ReceiveBeat(n, p, heard), NEW q \in Node, q # n
    PROVE  node'[q] \in Processes /\ SameWork(node'[q], node[q])
  <1>0. node \in [Node -> Processes] /\ node[q] \in Processes
    BY DEF Types
  <1>1. "none" \in {"none", "accepted", "uncovered", "deposed", "stale"} /\ FALSE \in BOOLEAN
    OBVIOUS
  <1>2. SameWork(node[q], node[q]) /\ SameWork([node[q] EXCEPT !.lease = FALSE], node[q])
        /\ [node[q] EXCEPT !.lease = FALSE] \in Processes
    BY <1>0, <1>1, SameWorkFacts
  <1>3. ASSUME NEW x, Set(n, x) PROVE node'[q] = node[q]
    BY <1>0, <1>3 DEF Set
  <1>4. CASE OpenDb(n)
    <2>1. node'[q] = [node[q] EXCEPT !.lease = FALSE]
      BY <1>4 DEF OpenDb
    <2>. QED
      BY <1>2, <2>1
  <1>5. CASE \/ Persist(n) \/ ObserveDurable(n) \/ StartWrite(n) \/ BaseFlush(n) \/ SendShip(n)
             \/ ShipAccepted(n) \/ ShipUncovered(n) \/ Reconnect(n) \/ SendBeat(n)
    <2>1. \E x : Set(n, x)
      BY <1>5 DEF Persist, ObserveDurable, StartWrite, BaseFlush, SendShip, ShipAccepted, ShipUncovered,
                  Reconnect, SendBeat
    <2>. QED
      BY <1>0, <1>2, <1>3, <2>1
  <1>6. CASE WriteSolo(n) \/ ShipAmbiguous(n)
    <2>1. \E x : Set(n, x)
      BY <1>6 DEF WriteSolo, ShipAmbiguous, ApplySolo
    <2>. QED
      BY <1>0, <1>2, <1>3, <2>1
  <1>7. CASE StepDown(n) \/ Crash(n) \/ Reconcile(n)
    <2>1. \E x : Set(n, x)
      BY <1>7 DEF StepDown, Crash, Reconcile, Dies
    <2>. QED
      BY <1>0, <1>2, <1>3, <2>1
  <1>8. CASE \/ Claim(n) \/ LoseClaim(n) \/ BeginPromotion(n) \/ FinishReplay(n) \/ ReplayFenced(n)
             \/ CompletePromotion(n) \/ Serve(n) \/ Restart(n)
    <2>1. \E x : Set(n, x)
      BY <1>8 DEF Claim, LoseClaim, BeginPromotion, FinishReplay, ReplayFenced, CompletePromotion, Serve,
                  Restart, Returned
    <2>. QED
      BY <1>0, <1>2, <1>3, <2>1
  <1>. QED
    BY <1>4, <1>5, <1>6, <1>7, <1>8 DEF NodeStep

\* Once its process, the database, the requests and the counters are accounted for,
\* the whole step is.
LEMMA AdvancesIf ==
    ASSUME RepInv, NEW n \in Node, NodeStep(n), ~ \E p \in Node, heard \in BOOLEAN : ReceiveBeat(n, p, heard),
           Moves(n), DiskStays \/ DiskFlushed(n), ShipsStay \/ (Sent(n) /\ DiskStays),
           dbEpoch' \in 0..MaxEpoch, dbEpoch <= dbEpoch',
           nextWrite' \in 1..(MaxWrites + 1), nextWrite <= nextWrite',
           disk'.lineage = disk.lineage \/ Serve(n)
    PROVE  Advances
  <1>1. ASSUME NEW q \in Node, q # n PROVE Moves(q)
    <2>1. node'[q] \in Processes /\ SameWork(node'[q], node[q])
      BY <1>1, OthersStay DEF RepInv
    <2>2. ShipsOf(node[q].epoch, ships', ships)
      <3>1. CASE ShipsStay
        BY <3>1, ShipsOfTerm
      <3>2. CASE Sent(n)
        <4>1. PICK m : ships' = ships \cup {m} /\ m.epoch = node[n].epoch /\ node[n].epoch # 0
          BY <3>2 DEF Sent
        <4>2. node[n].epoch > 0
          BY <4>1, StateTypes DEF RepInv
        <4>3. m.epoch # node[q].epoch
          BY <1>1, <4>1, <4>2 DEF RepInv, Epochs
        <4>. QED
          BY <4>1, <4>3 DEF ShipsOf, SameShip
      <3>. QED
        BY <3>1, <3>2
    <2>3. nextWrite' \in Nat /\ dbEpoch' \in Nat
      BY Constants
    <2>4. DiskStays \/ \E x \in Node \ {q} : DiskFlushed(x)
      BY <1>1
    <2>. QED
      BY <2>1, <2>2, <2>3, <2>4, Bystands
  <1>. QED
    BY <1>1 DEF Advances

\* The steps of a node.
LEMMA NodeAdvances ==
    ASSUME RepInv, NEW n \in Node, NodeStep(n), ~ \E p \in Node, heard \in BOOLEAN : ReceiveBeat(n, p, heard)
    PROVE  Advances
  <1>0. /\ dbEpoch \in 0..MaxEpoch /\ dbEpoch \in Nat /\ nextWrite \in 1..(MaxWrites + 1) /\ nextWrite \in Nat
        /\ Types /\ disk \in Disks /\ MaxEpoch \in Nat /\ MaxWrites \in Nat
    BY StateTypes, Constants DEF RepInv, Types
  <1>1. CASE ObserveDurable(n) \/ ShipUncovered(n) \/ Reconnect(n) \/ SendBeat(n)
    <2>1. /\ disk' = disk /\ ships' = ships /\ dbEpoch' = dbEpoch /\ nextWrite' = nextWrite
      BY <1>1 DEF ObserveDurable, ShipUncovered, Reconnect, SendBeat
    <2>2. dbEpoch <= dbEpoch' /\ nextWrite <= nextWrite' /\ DiskStays /\ ShipsStay
      BY <1>0, <2>1, SameShips DEF DiskStays
    <2>. QED
      BY <1>0, <1>1, <2>1, <2>2, QuietSteps, AdvancesIf
  <1>2. CASE Persist(n) \/ BaseFlush(n)
    <2>1. ships' = ships /\ dbEpoch' = dbEpoch /\ nextWrite' = nextWrite /\ ~Fenced(n)
      BY <1>2 DEF Persist, BaseFlush
    <2>2. dbEpoch <= dbEpoch' /\ nextWrite <= nextWrite' /\ ShipsStay
      BY <1>0, <2>1, SameShips
    <2>3. Moves(n) /\ \E k \in 0..Len(node[n].mem) : FlushOf(node[n], disk, ships, nextWrite, k, disk')
      BY <1>2, FlushSteps
    <2>4. node[n].epoch # 0
      <3>1. node[n].mem \in Seq(MemEntries)
        BY StateTypes DEF RepInv
      <3>2. Persist(n) => node[n].mem # <<>>
        BY <3>1 DEF Persist
      <3>3. BaseFlush(n) => node[n].role \notin Idle
        BY DEF BaseFlush, Idle
      <3>. QED
        BY <1>2, <3>2, <3>3, HasTerm
    <2>5. DiskFlushed(n)
      BY <2>1, <2>3, <2>4 DEF DiskFlushed, FlushOf
    <2>. QED
      BY <1>0, <2>1, <2>2, <2>3, <2>5, AdvancesIf DEF DiskFlushed
  <1>3. CASE StartWrite(n)
    <2>1. disk' = disk /\ ships' = ships /\ dbEpoch' = dbEpoch /\ nextWrite' = nextWrite + 1 /\ nextWrite <= MaxWrites
      BY <1>3 DEF StartWrite
    <2>2. /\ dbEpoch <= dbEpoch' /\ nextWrite <= nextWrite' /\ DiskStays /\ ShipsStay
          /\ nextWrite' \in 1..(MaxWrites + 1)
      BY <1>0, <2>1, SameShips DEF DiskStays
    <2>. QED
      BY <1>0, <1>3, <2>1, <2>2, StartStep, AdvancesIf
  <1>4. CASE SendShip(n)
    <2>1. disk' = disk /\ dbEpoch' = dbEpoch /\ nextWrite' = nextWrite
      BY <1>4 DEF SendShip
    <2>2. dbEpoch <= dbEpoch' /\ nextWrite <= nextWrite' /\ DiskStays
      BY <1>0, <2>1 DEF DiskStays
    <2>3. Moves(n) /\ Sent(n)
      BY <1>4, SendStep DEF Sent
    <2>. QED
      BY <1>0, <2>1, <2>2, <2>3, AdvancesIf
  <1>5. CASE ShipAccepted(n) \/ WriteSolo(n) \/ ShipAmbiguous(n)
    <2>1. ships' = ships /\ dbEpoch' = dbEpoch /\ nextWrite' = nextWrite
      BY <1>5 DEF ShipAccepted, WriteSolo, ShipAmbiguous, ApplySolo
    <2>2. dbEpoch <= dbEpoch' /\ nextWrite <= nextWrite' /\ ShipsStay
      BY <1>0, <2>1, SameShips
    <2>. QED
      BY <1>0, <1>5, <2>1, <2>2, ApplySteps, AdvancesIf
  <1>6. CASE StepDown(n) \/ Crash(n) \/ Claim(n) \/ LoseClaim(n) \/ Restart(n) \/ ReplayFenced(n)
    <2>1. disk' = disk /\ dbEpoch' = dbEpoch /\ nextWrite' = nextWrite
      BY <1>6 DEF StepDown, Crash, Claim, LoseClaim, Restart, ReplayFenced
    <2>2. dbEpoch <= dbEpoch' /\ nextWrite <= nextWrite' /\ DiskStays
      BY <1>0, <2>1 DEF DiskStays
    <2>3. Moves(n) /\ ShipsStay
      BY <1>6, <2>1, RestartSteps DEF StepDown, Crash
    <2>. QED
      BY <1>0, <2>1, <2>2, <2>3, AdvancesIf
  <1>7. CASE OpenDb(n)
    <2>1. disk' = disk /\ ships' = ships /\ dbEpoch' = dbEpoch + 1 /\ nextWrite' = nextWrite /\ dbEpoch < MaxEpoch
      BY <1>7 DEF OpenDb
    <2>2. /\ dbEpoch <= dbEpoch' /\ nextWrite <= nextWrite' /\ DiskStays /\ ShipsStay
          /\ dbEpoch' \in 0..MaxEpoch
      BY <1>0, <2>1, SameShips DEF DiskStays
    <2>. QED
      BY <1>0, <1>7, <2>1, <2>2, OpenStep, AdvancesIf
  <1>8. CASE BeginPromotion(n) \/ CompletePromotion(n)
    <2>1. disk' = disk /\ ships' = ships /\ dbEpoch' = dbEpoch /\ nextWrite' = nextWrite
      BY <1>8 DEF BeginPromotion, CompletePromotion
    <2>2. dbEpoch <= dbEpoch' /\ nextWrite <= nextWrite' /\ DiskStays /\ ShipsStay
      BY <1>0, <2>1, SameShips DEF DiskStays
    <2>. QED
      BY <1>0, <1>8, <2>1, <2>2, PromotionSteps, AdvancesIf
  <1>9. CASE Reconcile(n)
    <2>1. disk' = disk /\ dbEpoch' = dbEpoch /\ nextWrite' = nextWrite
      BY <1>9 DEF Reconcile
    <2>2. dbEpoch <= dbEpoch' /\ nextWrite <= nextWrite' /\ DiskStays
      BY <1>0, <2>1 DEF DiskStays
    <2>. QED
      BY <1>0, <1>9, <2>1, <2>2, ReconcileStep, AdvancesIf
  <1>10. CASE FinishReplay(n)
    <2>1. ships' = ships /\ dbEpoch' = dbEpoch /\ nextWrite' = nextWrite
      BY <1>10 DEF FinishReplay
    <2>2. dbEpoch <= dbEpoch' /\ nextWrite <= nextWrite' /\ ShipsStay
      BY <1>0, <2>1, SameShips
    <2>. QED
      BY <1>0, <1>10, <2>1, <2>2, FinishStep, AdvancesIf
  <1>11. CASE Serve(n)
    <2>1. ships' = ships /\ dbEpoch' = dbEpoch /\ nextWrite' = nextWrite
      BY <1>11 DEF Serve
    <2>2. dbEpoch <= dbEpoch' /\ nextWrite <= nextWrite' /\ ShipsStay
      BY <1>0, <2>1, SameShips
    <2>. QED
      BY <1>0, <1>11, <2>1, <2>2, ServeStep, AdvancesIf
  <1>. QED
    BY <1>1, <1>2, <1>3, <1>4, <1>5, <1>6, <1>7, <1>8, <1>9, <1>10, <1>11 DEF NodeStep

\* Every step, stuttering ones included.
LEMMA Advancing ==
    ASSUME RepInv, [Next]_vars
    PROVE  Advances
  <1>0. /\ dbEpoch \in 0..MaxEpoch /\ dbEpoch \in Nat /\ nextWrite \in 1..(MaxWrites + 1) /\ nextWrite \in Nat
        /\ Types /\ disk \in Disks /\ node \in [Node -> Processes] /\ MaxEpoch \in Nat
    BY StateTypes, Constants DEF RepInv, Types
  <1>1. ASSUME NEW n \in Node, NodeStep(n) PROVE Advances
    <2>1. CASE \E p \in Node, heard \in BOOLEAN : ReceiveBeat(n, p, heard)
      <3>1. PICK p \in Node, heard \in BOOLEAN : ReceiveBeat(n, p, heard)
        BY <2>1
      <3>2. disk' = disk /\ ships' = ships /\ dbEpoch' = dbEpoch /\ nextWrite' = nextWrite
        BY <3>1 DEF ReceiveBeat
      <3>3. dbEpoch <= dbEpoch' /\ nextWrite <= nextWrite' /\ DiskStays /\ ShipsStay
        BY <1>0, <3>2, SameShips DEF DiskStays
      <3>. QED
        BY <1>0, <3>1, <3>2, <3>3, BeatStep DEF Advances
    <2>2. CASE ~ \E p \in Node, heard \in BOOLEAN : ReceiveBeat(n, p, heard)
      BY <1>1, <2>2, NodeAdvances
    <2>. QED
      BY <2>1, <2>2
  <1>2. ASSUME NEW m \in ships, NEW p \in Node, Deliver(m, p) PROVE Advances
    <2>1. disk' = disk /\ dbEpoch' = dbEpoch /\ nextWrite' = nextWrite
      BY <1>2 DEF Deliver
    <2>2. dbEpoch <= dbEpoch' /\ nextWrite <= nextWrite' /\ DiskStays
      BY <1>0, <2>1 DEF DiskStays
    <2>. QED
      BY <1>0, <1>2, <2>1, <2>2, DeliverStep DEF Advances
  <1>3. CASE StrayOpen \/ UNCHANGED vars
    <2>1. disk' = disk /\ ships' = ships /\ nextWrite' = nextWrite /\ node' = node
      BY <1>3 DEF StrayOpen, vars
    <2>2. dbEpoch' \in 0..MaxEpoch /\ dbEpoch <= dbEpoch' /\ dbEpoch' \in Nat
      <3>1. dbEpoch' = dbEpoch \/ (dbEpoch' = dbEpoch + 1 /\ dbEpoch < MaxEpoch)
        BY <1>3 DEF StrayOpen, vars
      <3>. QED
        BY <1>0, <3>1
    <2>3. DiskStays /\ ShipsStay /\ nextWrite <= nextWrite' /\ nextWrite' \in Nat
      BY <1>0, <2>1, SameShips DEF DiskStays
    <2>4. ASSUME NEW q \in Node PROVE Moves(q)
      <3>1. node'[q] \in Processes /\ SameWork(node'[q], node[q])
        BY <1>0, <2>1 DEF SameWork
      <3>2. ShipsOf(node[q].epoch, ships', ships)
        BY <2>3, ShipsOfTerm
      <3>. QED
        BY <2>2, <2>3, <3>1, <3>2, Bystands
    <2>. QED
      BY <1>0, <2>1, <2>2, <2>3, <2>4 DEF Advances
  <1>. QED
    BY <1>1, <1>2, <1>3 DEF Next

-----------------------------------------------------------------------------
(* The invariant is inductive *)

\* The processes.
LEMMA ProcessingHolds ==
    ASSUME Advances
    PROVE  Processing'
  <1>1. \A n \in Node : ProcInv(node'[n], disk', ships', nextWrite')
    BY DEF Advances, Moves
  <1>. QED
    BY <1>1 DEF Processing

\* Where a term comes from: a process keeps its own, or opens the next one.
LEMMA TermMoves ==
    ASSUME RepInv, Advances, NEW n \in Node
    PROVE  /\ node'[n].epoch \in Nat /\ node[n].epoch \in Nat /\ dbEpoch \in Nat /\ dbEpoch' \in Nat
           /\ node[n].epoch <= dbEpoch
           /\ \/ node'[n].epoch = node[n].epoch /\ node[n].applied <= node'[n].applied
              \/ node'[n].epoch = 0
              \/ node'[n].epoch = dbEpoch + 1 /\ dbEpoch' = dbEpoch + 1
           /\ node'[n].epoch = 0 => node'[n].role \in Idle /\ node'[n].mem = <<>>
  <1>1. Moves(n)
    BY DEF Advances
  <1>2. node[n].epoch \in Nat /\ dbEpoch \in Nat /\ node[n].epoch <= dbEpoch
    BY StateTypes DEF RepInv, Epochs
  <1>3. node'[n].epoch \in Nat /\ dbEpoch' \in Nat
    BY <1>1, Constants DEF Moves, Processes, Advances
  <1>4. dbEpoch + 1 # 0
    BY <1>2
  <1>. QED
    BY <1>1, <1>2, <1>3, <1>4 DEF Moves

\* Only one process opens the database in a step.
LEMMA OneOpens ==
    ASSUME RepInv, [Next]_vars, Advances, NEW n \in Node, NEW p \in Node, n # p,
           node'[n].epoch = dbEpoch + 1, node'[p].epoch = dbEpoch + 1
    PROVE  FALSE
  <1>0. node \in [Node -> Processes] /\ dbEpoch \in Nat
    BY StateTypes DEF RepInv, Types
  <1>1. dbEpoch' = dbEpoch + 1
    BY TermMoves
  <1>2. dbEpoch' # dbEpoch
    BY <1>0, <1>1
  <1>3. (\E x \in Node : OpenDb(x)) \/ StrayOpen
    <2>1. ASSUME NEW x \in Node, NodeStep(x) PROVE OpenDb(x)
      BY <1>2, <2>1 DEF NodeStep, Persist, ObserveDurable, StartWrite, WriteSolo, BaseFlush, SendShip, ShipAccepted,
            ShipUncovered, ShipAmbiguous, ApplySolo, Reconnect, StepDown, SendBeat, ReceiveBeat, Claim, LoseClaim,
            BeginPromotion, Reconcile, FinishReplay, ReplayFenced, CompletePromotion, Serve, Crash, Restart
    <2>2. ASSUME NEW m \in ships, NEW x \in Node, Deliver(m, x) PROVE FALSE
      BY <1>2, <2>2 DEF Deliver
    <2>3. ~UNCHANGED vars
      BY <1>2 DEF vars
    <2>. QED
      BY <2>1, <2>2, <2>3, Zenon DEF Next
  <1>4. \A q \in Node : node[q].epoch \in Nat /\ node[q].epoch <= dbEpoch
    BY StateTypes DEF RepInv, Epochs
  <1>5. CASE StrayOpen
    <2>1. node' = node
      BY <1>5 DEF StrayOpen
    <2>. QED
      BY <1>0, <1>4, <2>1
  <1>6. ASSUME NEW x \in Node, OpenDb(x) PROVE FALSE
    <2>1. PICK q \in Node : q # x /\ node'[q].epoch = dbEpoch + 1
      OBVIOUS
    <2>2. node'[q] = [node[q] EXCEPT !.lease = FALSE] /\ node[q] \in Processes
      BY <1>0, <1>6, <2>1 DEF OpenDb
    <2>3. node'[q].epoch = node[q].epoch
      BY <2>2 DEF Processes
    <2>. QED
      BY <1>0, <1>4, <2>1, <2>3
  <1>. QED
    BY <1>3, <1>5, <1>6

\* Every request was there before, or is the one a process has just sent.
LEMMA RequestMoves ==
    ASSUME RepInv, Advances, NEW m \in ships'
    PROVE  /\ m \in Messages
           /\ \/ \E q \in ships : SameShip(m, q)
              \/ \E n \in Node : /\ m.epoch = node[n].epoch /\ m.id = node[n].write /\ m.wm = node[n].wm
                                 /\ m.seq = node[n].applied + 1 /\ node[n].op = "ready" /\ node[n].epoch # 0
                                 /\ DiskStays
  <1>1. CASE ShipsStay
    BY <1>1 DEF ShipsStay
  <1>2. CASE \E n \in Node : Sent(n) /\ DiskStays
    <2>1. PICK n \in Node : Sent(n) /\ DiskStays
      BY <1>2
    <2>2. PICK x \in Messages : /\ ships' = ships \cup {x} /\ x.epoch = node[n].epoch /\ x.id = node[n].write
                                /\ x.seq = node[n].applied + 1 /\ x.wm = node[n].wm
                                /\ node[n].op = "ready" /\ node[n].epoch # 0
      BY <2>1 DEF Sent
    <2>3. CASE m = x
      BY <2>1, <2>2, <2>3
    <2>4. CASE m \in ships
      BY <2>4 DEF SameShip, RepInv, Types
    <2>. QED
      BY <2>2, <2>3, <2>4
  <1>. QED
    BY <1>1, <1>2 DEF Advances

\* No request is forgotten.
LEMMA RequestsStay ==
    ASSUME RepInv, Advances, NEW q \in ships
    PROVE  \E m \in ships' : SameShip(m, q)
  BY DEF Advances, ShipsStay, Sent, SameShip

\* What is on shared storage stays there.
LEMMA LogGrows ==
    ASSUME Advances
    PROVE  Ids(disk.log) \subseteq Ids(disk'.log)
  BY DEF Advances, DiskStays, DiskFlushed, FlushOf, Grows

\* Terms stay one process's each, and none is ahead of the database.
LEMMA EpochsHold ==
    ASSUME RepInv, [Next]_vars, Advances
    PROVE  Epochs'
  <1>0. Epochs /\ dbEpoch \in Nat /\ dbEpoch' \in Nat /\ dbEpoch <= dbEpoch' /\ disk.lineage \in Nat
    BY StateTypes, Constants DEF RepInv, Advances
  <1>1. ASSUME NEW n \in Node
        PROVE  /\ node'[n].epoch <= dbEpoch'
               /\ node'[n].epoch = 0 => node'[n].role \in {"down", "standby", "quiesced"} /\ node'[n].mem = <<>>
    BY <1>0, TermMoves DEF Idle
  <1>2. ASSUME NEW n \in Node, NEW p \in Node, node'[n].epoch = node'[p].epoch, node'[n].epoch > 0, n # p
        PROVE  FALSE
    <2>1. node'[n].epoch # 0 /\ node'[p].epoch # 0
      BY <1>2
    <2>2. /\ node'[n].epoch = node[n].epoch \/ node'[n].epoch = dbEpoch + 1
          /\ node'[p].epoch = node[p].epoch \/ node'[p].epoch = dbEpoch + 1
      BY <2>1, TermMoves
    <2>3. /\ node[n].epoch <= dbEpoch /\ node[p].epoch <= dbEpoch /\ node[n].epoch \in Nat /\ node[p].epoch \in Nat
      BY TermMoves
    <2>4. CASE node'[n].epoch = dbEpoch + 1
      <3>1. node'[p].epoch = dbEpoch + 1
        BY <1>2, <2>4
      <3>. QED
        BY <1>2, <2>4, <3>1, OneOpens
    <2>5. CASE node'[n].epoch # dbEpoch + 1
      <3>1. node[n].epoch = node[p].epoch /\ node[n].epoch > 0
        BY <1>2, <2>2, <2>5
      <3>. QED
        BY <1>0, <1>2, <3>1 DEF Epochs
    <2>. QED
      BY <2>4, <2>5
  <1>3. ASSUME NEW m \in ships' PROVE m.epoch <= dbEpoch'
    <2>1. m.epoch <= dbEpoch
      <3>1. CASE \E q \in ships : SameShip(m, q)
        BY <1>0, <3>1 DEF Epochs, SameShip
      <3>2. CASE \E n \in Node : m.epoch = node[n].epoch
        BY <1>0, <3>2 DEF Epochs
      <3>. QED
        BY <3>1, <3>2, RequestMoves
    <2>2. m.epoch \in Nat
      BY RequestMoves, Constants DEF Messages
    <2>. QED
      BY <1>0, <2>1, <2>2
  <1>4. /\ disk'.lineage <= dbEpoch'
        /\ \A n \in Node : owner' = n /\ node'[n].epoch > 0 => disk'.lineage <= node'[n].epoch
    <2>1. CASE \E n \in Node : Serve(n)
      <3>1. PICK n \in Node : Serve(n)
        BY <2>1
      <3>2. owner = n /\ owner' = owner /\ node[n].role = "promoted"
        BY <3>1 DEF Serve
      <3>3. node[n].epoch # 0 /\ node[n].epoch \in Nat
        BY <3>2, HasTerm, StateTypes DEF Idle, RepInv
      <3>4. node[n].epoch <= dbEpoch /\ disk.lineage <= node[n].epoch
        BY <1>0, <3>2, <3>3 DEF Epochs
      <3>5. disk'.lineage = disk.lineage \/ disk'.lineage = node[n].epoch
        BY <3>1, ServeStep
      <3>6. node'[n].epoch = node[n].epoch
        <4>1. node \in [Node -> Processes]
          BY DEF RepInv, Types
        <4>. QED
          BY <3>1, <4>1 DEF Serve, Set, Processes
      <3>. QED
        BY <1>0, <3>2, <3>3, <3>4, <3>5, <3>6
    <2>2. CASE disk'.lineage = disk.lineage
      <3>1. disk'.lineage <= dbEpoch /\ disk'.lineage <= dbEpoch'
        BY <1>0, <2>2 DEF Epochs
      <3>2. ASSUME NEW n \in Node, owner' = n, node'[n].epoch > 0 PROVE disk'.lineage <= node'[n].epoch
        <4>0. node'[n].epoch # 0
          BY <3>2
        <4>1. owner = n
          <5>1. owner' = owner \/ (\E x \in Node : Claim(x))
            <6>1. ASSUME NEW x \in Node, NodeStep(x) PROVE owner' = owner \/ Claim(x)
              BY <6>1, Zenon DEF NodeStep, Persist, ObserveDurable, StartWrite, WriteSolo, BaseFlush, SendShip, ShipAccepted,
                 ShipUncovered, ShipAmbiguous, ApplySolo, Reconnect, StepDown, SendBeat, ReceiveBeat, LoseClaim, OpenDb,
                 BeginPromotion, Reconcile, FinishReplay, ReplayFenced, CompletePromotion, Serve, Crash, Restart
            <6>. QED
              BY <6>1, Zenon DEF Next, Deliver, StrayOpen, vars
          <5>2. ASSUME NEW x \in Node, Claim(x), owner' # owner PROVE FALSE
            <6>1. x = n
              BY <3>2, <5>2 DEF Claim
            <6>2. node'[n] = [Fresh EXCEPT !.role = "quiesced"]
              BY <5>2, <6>1 DEF Claim, Set, RepInv, Types
            <6>. QED
              BY <4>0, <6>2 DEF Fresh
          <5>. QED
            BY <3>2, <5>1, <5>2
        <4>2. CASE node'[n].epoch = node[n].epoch
          BY <1>0, <2>2, <3>2, <4>1, <4>2 DEF Epochs
        <4>3. CASE node'[n].epoch = dbEpoch + 1
          BY <1>0, <2>2, <3>1, <4>3
        <4>. QED
          BY <4>0, <4>2, <4>3, TermMoves
      <3>. QED
        BY <3>1, <3>2
    <2>. QED
      BY <2>1, <2>2 DEF Advances
  <1>. QED
    BY <1>1, <1>2, <1>3, <1>4 DEF Epochs

-----------------------------------------------------------------------------
(* Receivers *)

(* A receiver with a tail of shipped batches and a durable frontier.        *)
Sound(r) ==
    /\ r \in Receivers /\ TailOK(r.tail) /\ r.tail.epoch <= r.observed
    /\ DurableTo(r.tail.epoch, r.tail.durable)

\* Every receiver is sound.
LEMMA SoundNow ==
    ASSUME RepInv, NEW q \in Node
    PROVE  Sound(rcv[q])
  BY DEF RepInv, Types, Receiving, Watermarks, Sound

\* Nothing is known, and nothing is claimed, before the first sequence.
LEMMA DurableToNothing ==
    ASSUME RepInv, NEW e \in Nat, e <= dbEpoch
    PROVE  DurableTo(e, 0)
  BY StateTypes DEF DurableTo, RepInv

\* So is a new one.
LEMMA SoundNew ==
    ASSUME RepInv
    PROVE  Sound(NewReceiver)
  <1>1. NewReceiver.tail = NoTail /\ NewReceiver.observed = 0 /\ NewReceiver.phase = "standby"
    BY DEF NewReceiver
  <1>2. NewReceiver \in Receivers
    BY NoTailFacts DEF NewReceiver, Receivers
  <1>3. DurableTo(0, 0)
    <2>1. 0 \in Nat /\ 0 <= dbEpoch
      BY StateTypes DEF RepInv
    <2>. QED
      BY <2>1, DurableToNothing
  <1>4. TailOK(NoTail) /\ NoTail.epoch = 0 /\ NoTail.durable = 0
    BY NoTailFacts DEF TailOK
  <1>. QED
    BY <1>1, <1>2, <1>3, <1>4 DEF Sound

\* A receiver with a sound tail in place of its own.
LEMMA SoundWith ==
    ASSUME NEW r \in Receivers, NEW o \in Nat, NEW t \in Tails, TailOK(t), t.epoch <= o,
           DurableTo(t.epoch, t.durable), NEW ph \in {"standby", "fenced"}, NEW x,
           x = [r EXCEPT !.phase = ph, !.observed = o, !.tail = t]
    PROVE  Sound(x) /\ x.phase = ph /\ x.tail = t
  <1>1. x \in Receivers /\ x.phase = ph /\ x.observed = o /\ x.tail = t
    BY DEF Receivers
  <1>. QED
    BY <1>1 DEF Sound

\* The larger of two durable frontiers of a term is durable.
LEMMA DurableToLarger ==
    ASSUME NEW e, NEW a, NEW b, DurableTo(e, a), DurableTo(e, b)
    PROVE  DurableTo(e, Larger(a, b))
  BY DEF Larger

\* A heartbeat's frontiers, or those of a ship that is not accepted.
LEMMA SoundObserve ==
    ASSUME RepInv, NEW r, Sound(r), NEW e \in 0..MaxEpoch, e >= r.observed, NEW a \in 0..MaxWrites,
           NEW d \in 0..MaxWrites, DurableTo(e, d), NEW u, u = ObserveCoverage(r.tail, e, a, d)
    PROVE  u \in Tails /\ TailOK(u) /\ u.epoch <= e /\ DurableTo(u.epoch, u.durable)
  <1>1. /\ r.tail \in Tails /\ r.tail.epoch \in Nat /\ r.observed \in Nat /\ r.tail.durable \in Nat /\ e \in Nat
        /\ r.tail.epoch <= r.observed /\ TailOK(r.tail) /\ DurableTo(r.tail.epoch, r.tail.durable)
        /\ r.tail.max \in Nat
    BY Constants DEF Sound, Receivers, Tails
  <1>2. PICK t : t = r.tail
    OBVIOUS
  <1>3. CASE u = t
    BY <1>1, <1>2, <1>3
  <1>4. CASE /\ u \in Tails /\ u.epoch = e /\ e >= t.epoch
             /\ u.durable = Larger(IF e = t.epoch THEN t.durable ELSE 0, d)
             /\ u.max = Larger(IF e = t.epoch THEN t.max ELSE 0, a)
             /\ DOMAIN u.batches = {s \in (IF e = t.epoch THEN DOMAIN t.batches ELSE {}) : s > d}
             /\ \A s \in DOMAIN u.batches : u.batches[s] = t.batches[s]
    <2>1. PICK h : h = (IF e = t.epoch THEN t.durable ELSE 0)
      OBVIOUS
    <2>2. DurableTo(e, h)
      <3>1. e <= dbEpoch
        BY DEF DurableTo
      <3>. QED
        BY <1>1, <1>2, <2>1, <3>1, DurableToNothing
    <2>3. DurableTo(u.epoch, u.durable)
      BY <1>4, <2>1, <2>2, DurableToLarger
    <2>4. \A k \in DOMAIN u.batches : e = t.epoch /\ k \in DOMAIN t.batches
      BY <1>4
    <2>5. \A k \in DOMAIN u.batches : k \in 1..u.max
      <3>. SUFFICES ASSUME NEW k \in DOMAIN u.batches PROVE k \in 1..u.max
        OBVIOUS
      <3>1. e = t.epoch /\ k \in 1..t.max /\ u.max = Larger(t.max, a)
        BY <1>1, <1>2, <1>4, <2>4 DEF TailOK
      <3>2. t.max <= u.max /\ u.max \in Nat /\ t.max \in Nat
        BY <1>1, <1>2, <3>1, Constants DEF Larger
      <3>. QED
        BY <3>1, <3>2
    <2>6. \A k \in DOMAIN u.batches : Shipped(u.epoch, k, u.batches[k])
      BY <1>1, <1>2, <1>4, <2>4 DEF TailOK
    <2>7. u.epoch <= e
      BY <1>1, <1>4
    <2>. QED
      BY <1>4, <2>3, <2>5, <2>6, <2>7 DEF TailOK
  <1>. QED
    BY <1>1, <1>2, <1>3, <1>4, ObserveFacts

\* A ship is accepted, and its watermark prunes.
LEMMA SoundAccept ==
    ASSUME RepInv, NEW r, Sound(r), NEW m \in ships, m.epoch >= r.observed,
           NEW u, u = Prune(Accept(r.tail, m.epoch, m.seq, m.id), m.wm)
    PROVE  u \in Tails /\ TailOK(u) /\ u.epoch <= m.epoch /\ DurableTo(u.epoch, u.durable)
  <1>1. /\ r.tail \in Tails /\ r.tail.epoch \in Nat /\ r.observed \in Nat /\ r.tail.durable \in Nat
        /\ r.tail.epoch <= r.observed /\ TailOK(r.tail) /\ DurableTo(r.tail.epoch, r.tail.durable)
        /\ r.tail.max \in Nat
    BY Constants DEF Sound, Receivers, Tails
  <1>2. /\ m \in Messages /\ m.epoch \in 1..MaxEpoch /\ m.seq \in 1..MaxWrites /\ m.id \in 1..MaxWrites
        /\ m.wm \in 0..MaxWrites /\ m.epoch \in Nat /\ m.seq \in Nat /\ MaxWrites \in Nat
    BY StateTypes, Constants DEF RepInv, Types, Messages
  <1>3. m.epoch <= dbEpoch /\ DurableTo(m.epoch, m.wm)
    BY DEF RepInv, Epochs, Watermarks
  <1>4. PICK t, e, k, w : t = r.tail /\ e = m.epoch /\ k = m.seq /\ w = m.id
    OBVIOUS
  <1>5. e >= t.epoch
    BY <1>1, <1>2, <1>4
  <1>6. PICK a : a = Accept(t, e, k, w)
    OBVIOUS
  <1>7. /\ a \in Tails /\ a.epoch = e
        /\ a.durable = (IF e = t.epoch THEN t.durable ELSE 0)
        /\ k \in DOMAIN a.batches /\ a.batches[k] = w
        /\ \A s \in DOMAIN a.batches : s # k => e = t.epoch /\ s \in DOMAIN t.batches /\ a.batches[s] = t.batches[s]
        /\ a.max = Larger(IF e = t.epoch THEN t.max ELSE 0, k)
    BY <1>1, <1>2, <1>4, <1>5, <1>6, AcceptFacts
  <1>8. TailOK(a)
    <2>1. \A s \in DOMAIN a.batches : Shipped(e, s, a.batches[s])
      <3>. SUFFICES ASSUME NEW s \in DOMAIN a.batches PROVE Shipped(e, s, a.batches[s])
        OBVIOUS
      <3>1. CASE s = k
        BY <1>4, <1>7, <3>1 DEF Shipped
      <3>2. CASE s # k
        BY <1>1, <1>4, <1>7, <3>2 DEF TailOK
      <3>. QED
        BY <3>1, <3>2
    <2>2. \A s \in DOMAIN a.batches : s \in 1..a.max
      <3>. SUFFICES ASSUME NEW s \in DOMAIN a.batches PROVE s \in 1..a.max
        OBVIOUS
      <3>1. k \in Nat \ {0} /\ t.max \in Nat
        BY <1>1, <1>2, <1>4
      <3>2. CASE s = k
        BY <1>7, <3>1, <3>2 DEF Larger
      <3>3. CASE s # k
        <4>1. s \in 1..t.max /\ a.max = Larger(t.max, k)
          BY <1>1, <1>4, <1>7, <3>3 DEF TailOK
        <4>. QED
          BY <3>1, <4>1 DEF Larger
      <3>. QED
        BY <3>2, <3>3
    <2>. QED
      BY <1>7, <2>1, <2>2 DEF TailOK
  <1>9. DurableTo(e, a.durable)
    <2>1. e \in Nat /\ e <= dbEpoch
      BY <1>2, <1>3, <1>4
    <2>2. DurableTo(e, 0)
      BY <2>1, DurableToNothing
    <2>. QED
      BY <1>1, <1>4, <1>7, <2>2
  <1>10. /\ u \in Tails /\ u.epoch = a.epoch /\ u.max = a.max /\ u.durable = Larger(a.durable, m.wm)
         /\ DOMAIN u.batches = {s \in DOMAIN a.batches : s > m.wm}
         /\ \A s \in DOMAIN u.batches : u.batches[s] = a.batches[s]
    <2>1. m.wm \in 0..MaxWrites /\ a \in Tails /\ u = Prune(a, m.wm)
      BY <1>2, <1>4, <1>6, <1>7
    <2>. HIDE <1>1, <1>2, <1>3
    <2>. QED
      BY <2>1, PruneFacts
  <1>11. DurableTo(u.epoch, u.durable)
    BY <1>3, <1>4, <1>7, <1>9, <1>10, DurableToLarger
  <1>12. TailOK(u)
    BY <1>8, <1>10 DEF TailOK
  <1>13. u.epoch <= m.epoch
    BY <1>2, <1>4, <1>7, <1>10
  <1>. QED
    BY <1>10, <1>11, <1>12, <1>13

\* A ship request, whatever the receiver does with it.
LEMMA SoundReceived ==
    ASSUME RepInv, NEW q \in Node, NEW m \in ships, NEW x, x = Received(rcv[q], node[q].epoch, m).rcv
    PROVE  Sound(x) /\ x.phase = rcv[q].phase /\ (x.phase = "fenced" => x.tail = rcv[q].tail)
  <1>1. PICK r : r = rcv[q]
    OBVIOUS
  <1>2. Sound(r) /\ r \in Receivers /\ r.observed \in Nat /\ r.tail \in Tails /\ r.phase \in {"standby", "fenced"}
    BY <1>1, SoundNow DEF Sound, Receivers
  <1>3. /\ m.epoch \in Nat /\ m.epoch \in 0..MaxEpoch /\ m.seq - 1 \in 0..MaxWrites /\ m.wm \in 0..MaxWrites
    BY StateTypes, Constants DEF RepInv, Types, Messages
  <1>4. DurableTo(m.epoch, m.wm)
    BY DEF RepInv, Watermarks
  <1>5. r.tail.epoch <= r.observed /\ TailOK(r.tail) /\ DurableTo(r.tail.epoch, r.tail.durable) /\ r.tail.epoch \in Nat
    BY <1>2, Constants DEF Sound, Tails
  <1>6. ASSUME NEW o \in Nat, NEW t \in Tails, x = [r EXCEPT !.observed = o, !.tail = t],
               TailOK(t), t.epoch <= o, DurableTo(t.epoch, t.durable)
        PROVE  Sound(x) /\ x.phase = r.phase /\ x.tail = t
    <2>1. x \in Receivers /\ x.observed = o /\ x.tail = t /\ x.phase = r.phase
      BY <1>2, <1>6 DEF Receivers
    <2>. QED
      BY <1>6, <2>1 DEF Sound
  <1>7. CASE r.phase = "standby" /\ m.epoch < r.observed
    <2>1. x = r
      BY <1>1, <1>2, <1>3, <1>7 DEF Received
    <2>. QED
      BY <1>1, <1>2, <2>1
  <1>8. CASE r.phase = "standby" /\ m.epoch >= r.observed /\ ~CoversPredecessors(r.tail, m.epoch, m.seq, m.wm)
    <2>1. PICK u : u = ObserveCoverage(r.tail, m.epoch, m.seq - 1, m.wm)
      OBVIOUS
    <2>2. x = [r EXCEPT !.observed = m.epoch, !.tail = u]
      BY <1>1, <1>2, <1>3, <1>8, <2>1 DEF Received
    <2>3. u \in Tails /\ TailOK(u) /\ u.epoch <= m.epoch /\ DurableTo(u.epoch, u.durable)
      BY <1>2, <1>3, <1>4, <1>8, <2>1, SoundObserve
    <2>. QED
      BY <1>1, <1>3, <1>6, <1>8, <2>2, <2>3
  <1>9. CASE r.phase = "standby" /\ m.epoch >= r.observed /\ CoversPredecessors(r.tail, m.epoch, m.seq, m.wm)
    <2>1. PICK u : u = Prune(Accept(r.tail, m.epoch, m.seq, m.id), m.wm)
      OBVIOUS
    <2>2. x = [r EXCEPT !.observed = m.epoch, !.tail = u]
      BY <1>1, <1>2, <1>3, <1>9, <2>1 DEF Received
    <2>3. u \in Tails /\ TailOK(u) /\ u.epoch <= m.epoch /\ DurableTo(u.epoch, u.durable)
      BY <1>2, <1>9, <2>1, SoundAccept
    <2>. QED
      BY <1>1, <1>3, <1>6, <1>9, <2>2, <2>3
  <1>10. CASE r.phase # "standby"
    <2>1. PICK o \in Nat : o = Larger(r.observed, m.epoch) /\ r.tail.epoch <= o
      BY <1>2, <1>3, <1>5 DEF Larger
    <2>2. x = [r EXCEPT !.observed = o]
      BY <1>1, <1>2, <1>3, <1>10, <2>1 DEF Received
    <2>3. x \in Receivers /\ x.observed = o /\ x.tail = r.tail /\ x.phase = r.phase
      BY <1>2, <2>2 DEF Receivers
    <2>. QED
      BY <1>1, <1>5, <2>1, <2>3 DEF Sound
  <1>. QED
    BY <1>2, <1>3, <1>7, <1>8, <1>9, <1>10

(* What a step makes of the receiver of node q.                             *)
Receives(q) ==
    /\ Sound(rcv'[q])
    /\ node'[q].role \in Promoted => rcv'[q].phase = "fenced"
    /\ node'[q].role = "replaying" /\ DOMAIN rcv'[q].tail.batches = {} => node'[q].mem = <<>>

\* A receiver the step leaves alone, of a process that goes on in its role.
LEMMA SameReceiver ==
    ASSUME RepInv, NEW q \in Node, rcv'[q] = rcv[q],
           \/ node'[q].role \notin Promoted
           \/ node'[q].role = node[q].role /\ node'[q].mem = node[q].mem
           \/ node'[q].role # "replaying" /\ node[q].role \in Promoted
    PROVE  Receives(q)
  <1>1. node[q].role \in Promoted => rcv[q].phase = "fenced"
    BY DEF RepInv, Receiving, Promoted
  <1>2. node[q].role = "replaying" /\ DOMAIN rcv[q].tail.batches = {} => node[q].mem = <<>>
    BY DEF RepInv, Receiving
  <1>3. "replaying" \in Promoted
    BY DEF Promoted
  <1>. QED
    BY <1>1, <1>2, <1>3, SoundNow DEF Receives

\* A receiver put together from a sound tail.
LEMMA NewlyReceiving ==
    ASSUME RepInv, NEW q \in Node, NEW o \in Nat, NEW t \in Tails, TailOK(t), t.epoch <= o,
           DurableTo(t.epoch, t.durable), NEW ph \in {"standby", "fenced"},
           rcv'[q] \in Receivers, rcv'[q].phase = ph, rcv'[q].observed = o, rcv'[q].tail = t,
           node'[q].role \in Promoted => ph = "fenced",
           node'[q].role = "replaying" /\ DOMAIN t.batches = {} => node'[q].mem = <<>>
    PROVE  Receives(q)
  BY DEF Receives, Sound

\* What a receiver has now.
LEMMA ReceiverFacts ==
    ASSUME RepInv, NEW q \in Node
    PROVE  /\ rcv[q] \in Receivers /\ rcv[q].observed \in Nat /\ rcv[q].tail \in Tails /\ TailOK(rcv[q].tail)
           /\ rcv[q].tail.epoch \in Nat /\ rcv[q].tail.epoch <= rcv[q].observed
           /\ DurableTo(rcv[q].tail.epoch, rcv[q].tail.durable) /\ rcv[q].phase \in {"standby", "fenced"}
           /\ node[q].role \in Promoted => rcv[q].phase = "fenced"
  BY StateTypes, Constants DEF RepInv, Types, Receiving, Watermarks, Receivers, Promoted

\* The serving leader's steps and those of the database leave every receiver alone.
LEMMA LeaderReceives ==
    ASSUME RepInv, NEW n \in Node, NEW q \in Node,
           \/ Persist(n) \/ ObserveDurable(n) \/ StartWrite(n) \/ WriteSolo(n) \/ BaseFlush(n) \/ SendShip(n)
           \/ ShipAccepted(n) \/ ShipUncovered(n) \/ ShipAmbiguous(n) \/ Reconnect(n) \/ SendBeat(n)
    PROVE  Receives(q)
  <1>0. node \in [Node -> Processes] /\ node[n] \in Processes /\ node[q] \in Processes /\ node[n].mem \in Seq(MemEntries)
    BY StateTypes DEF RepInv, Types
  <1>1. rcv' = rcv
    BY DEF Persist, ObserveDurable, StartWrite, WriteSolo, BaseFlush, SendShip, ShipAccepted,
           ShipUncovered, ShipAmbiguous, ApplySolo, Reconnect, SendBeat
  <1>2. q # n => node'[q] = node[q]
    BY <1>0 DEF Persist, ObserveDurable, StartWrite, WriteSolo, BaseFlush, SendShip, ShipAccepted,
           ShipUncovered, ShipAmbiguous, ApplySolo, Reconnect, SendBeat, Set
  <1>3. CASE q # n
    BY <1>1, <1>2, <1>3, SameReceiver
  <1>4. CASE q = n /\ ~Persist(n)
    <2>1. node[n].role = "serving"
      BY <1>4, HasTerm DEF ObserveDurable, StartWrite, WriteSolo, BaseFlush, SendShip, ShipAccepted,
           ShipUncovered, ShipAmbiguous, ApplySolo, Reconnect, SendBeat
    <2>2. node'[n].role = "serving"
      <3>1. CASE ObserveDurable(n) \/ StartWrite(n) \/ BaseFlush(n) \/ SendShip(n) \/ ShipUncovered(n)
                 \/ Reconnect(n) \/ SendBeat(n)
        <4>1. CASE ObserveDurable(n)
          BY <1>0, <2>1, <4>1 DEF ObserveDurable, Set, Processes
        <4>2. CASE StartWrite(n)
          BY <1>0, <2>1, <4>2 DEF StartWrite, Set, Processes
        <4>3. CASE BaseFlush(n)
          BY <1>0, <2>1, <4>3 DEF BaseFlush, BaseFlushed, Set, Processes
        <4>4. CASE SendShip(n)
          BY <1>0, <2>1, <4>4 DEF SendShip, Set, Processes
        <4>5. CASE ShipUncovered(n)
          BY <1>0, <2>1, <4>5 DEF ShipUncovered, Set, Processes
        <4>6. CASE Reconnect(n)
          BY <1>0, <2>1, <4>6 DEF Reconnect, Set, Processes
        <4>7. CASE SendBeat(n)
          BY <1>0, <2>1, <4>7 DEF SendBeat, Set, Processes
        <4>. QED
          BY <3>1, <4>1, <4>2, <4>3, <4>4, <4>5, <4>6, <4>7
      <3>2. CASE ShipAccepted(n)
        BY <1>0, <2>1, <3>2 DEF ShipAccepted, Set, Applied, Done, Processes
      <3>3. CASE WriteSolo(n) \/ ShipAmbiguous(n)
        <4>1. PICK ship : ApplySolo(n, ship)
          BY <3>3 DEF WriteSolo, ShipAmbiguous
        <4>2. ASSUME NEW r, r \in Processes, NEW st
              PROVE  [Applied(r, st, ship) EXCEPT !.conn = FALSE, !.dirty = TRUE].role = r.role
          BY <4>2 DEF Applied, Done, Processes
        <4>3. PICK r : r = [node[n] EXCEPT !.mem = <<>>, !.tainted = TRUE]
          OBVIOUS
        <4>4. r \in Processes /\ r.role = node[n].role
          <5>1. <<>> \in Seq(MemEntries)
            OBVIOUS
          <5>. QED
            BY <1>0, <4>3, <5>1 DEF Processes
        <4>5. \E x \in {r, node[n]} : \E st : node'[n] = [Applied(x, st, ship) EXCEPT !.conn = FALSE, !.dirty = TRUE]
          BY <1>0, <4>1, <4>3 DEF ApplySolo, Set
        <4>. QED
          BY <1>0, <2>1, <4>2, <4>4, <4>5
      <3>. QED
        BY <1>4, <3>1, <3>2, <3>3
    <2>. QED
      BY <1>1, <1>4, <2>1, <2>2, SameReceiver DEF Promoted
  <1>5. CASE q = n /\ Persist(n)
    <2>1. node'[n].role = node[n].role
      BY <1>0, <1>5 DEF Persist, Set, Processes
    <2>2. node[n].mem # <<>>
      BY <1>0, <1>5 DEF Persist
    <2>3. ~(node[n].role = "replaying" /\ DOMAIN rcv[n].tail.batches = {})
      BY <2>2 DEF RepInv, Receiving
    <2>4. Sound(rcv[n]) /\ (node[n].role \in Promoted => rcv[n].phase = "fenced")
      BY SoundNow, ReceiverFacts
    <2>. QED
      BY <1>1, <1>5, <2>1, <2>3, <2>4 DEF Receives
  <1>. QED
    BY <1>3, <1>4, <1>5

\* The steps that start over.
LEMMA RestartReceives ==
    ASSUME RepInv, NEW n \in Node, NEW q \in Node,
           \/ StepDown(n) \/ Crash(n) \/ Claim(n) \/ LoseClaim(n) \/ Restart(n) \/ OpenDb(n)
    PROVE  Receives(q)
  <1>0. node \in [Node -> Processes] /\ rcv \in [Node -> Receivers] /\ node[q] \in Processes
    BY DEF RepInv, Types
  <1>1. CASE StepDown(n) \/ Crash(n)
    <2>1. node' = [node EXCEPT ![n] = Dead] /\ rcv' = [rcv EXCEPT ![n] = NewReceiver]
      BY <1>1 DEF StepDown, Crash, Dies, Set, SetReceiver
    <2>2. Dead.role = "down"
      BY DEF Dead, Fresh
    <2>3. CASE q = n
      BY <1>0, <2>1, <2>2, <2>3, SoundNew DEF Receives, Promoted
    <2>4. CASE q # n
      BY <1>0, <2>1, <2>4, SameReceiver
    <2>. QED
      BY <2>3, <2>4
  <1>2. CASE Claim(n) \/ LoseClaim(n) \/ Restart(n)
    <2>1. rcv' = rcv /\ (q # n => node'[q] = node[q])
      BY <1>0, <1>2 DEF Claim, LoseClaim, Restart, Set
    <2>2. node'[n].role \notin Promoted
      BY <1>0, <1>2 DEF Claim, LoseClaim, Restart, Set, Fresh, Promoted
    <2>. QED
      BY <2>1, <2>2, SameReceiver
  <1>3. CASE OpenDb(n)
    <2>1. rcv' = rcv /\ (q # n => node'[q] = [node[q] EXCEPT !.lease = FALSE])
      BY <1>3 DEF OpenDb
    <2>2. node'[n].role = "opened"
      BY <1>3 DEF OpenDb, Fresh
    <2>3. q # n => node'[q].role = node[q].role /\ node'[q].mem = node[q].mem
      BY <1>0, <2>1 DEF Processes
    <2>. QED
      BY <2>1, <2>2, <2>3, SameReceiver DEF Promoted
  <1>. QED
    BY <1>1, <1>2, <1>3

\* A receiver whose fields are known.
LEMMA SetReceiverFacts ==
    ASSUME Types, NEW n \in Node, NEW r, SetReceiver(n, r)
    PROVE  rcv'[n] = r /\ \A q \in Node : q # n => rcv'[q] = rcv[q]
  BY DEF Types, SetReceiver

\* The way from the claim to serving.
LEMMA TakeoverReceives ==
    ASSUME RepInv, NEW n \in Node,
           \/ BeginPromotion(n) \/ Reconcile(n) \/ FinishReplay(n) \/ ReplayFenced(n)
           \/ CompletePromotion(n) \/ Serve(n)
    PROVE  \A q \in Node : Receives(q)
  <1>. DEFINE s == node[n]  r == rcv[n]
  <1>0. /\ node \in [Node -> Processes] /\ rcv \in [Node -> Receivers] /\ s \in Processes /\ Types
        /\ s.epoch \in Nat /\ s.snap \in Nat
    <2>1. node \in [Node -> Processes] /\ rcv \in [Node -> Receivers] /\ Types
      BY DEF RepInv, Types
    <2>2. s \in Processes
      BY <2>1
    <2>. QED
      BY <2>1, <2>2, Constants DEF Processes
  <1>1. /\ r \in Receivers /\ r.observed \in Nat /\ r.tail \in Tails /\ TailOK(r.tail)
        /\ r.tail.epoch \in Nat /\ r.tail.epoch <= r.observed
        /\ DurableTo(r.tail.epoch, r.tail.durable) /\ r.phase \in {"standby", "fenced"}
        /\ s.role \in Promoted => r.phase = "fenced"
    BY ReceiverFacts
  <1>2. ASSUME NEW q \in Node, q # n, rcv'[q] = rcv[q], node'[q] = node[q] PROVE Receives(q)
    BY <1>2, SameReceiver
  <1>3. ASSUME NEW x, Set(n, x), NEW y, SetReceiver(n, y), Receives(n) PROVE \A q \in Node : Receives(q)
    <2>1. \A q \in Node : q # n => rcv'[q] = rcv[q] /\ node'[q] = node[q]
      BY <1>0, <1>3 DEF Set, SetReceiver
    <2>. QED
      BY <1>2, <1>3, <2>1
  <1>4. ASSUME NEW x, Set(n, x), rcv' = rcv, Receives(n) PROVE \A q \in Node : Receives(q)
    <2>1. \A q \in Node : q # n => rcv'[q] = rcv[q] /\ node'[q] = node[q]
      BY <1>0, <1>4 DEF Set
    <2>. QED
      BY <1>2, <1>4, <2>1
  <1>5. CASE BeginPromotion(n)
    <2>1. CASE /\ r.observed <= s.epoch
               /\ Set(n, [s EXCEPT !.role = "promoting", !.snap = r.observed])
               /\ SetReceiver(n, [r EXCEPT !.phase = "fenced", !.observed = s.epoch])
      <3>1. rcv'[n] = [r EXCEPT !.phase = "fenced", !.observed = s.epoch]
        BY <1>0, <2>1, SetReceiverFacts
      <3>2. rcv'[n] \in Receivers /\ rcv'[n].phase = "fenced" /\ rcv'[n].observed = s.epoch /\ rcv'[n].tail = r.tail
        BY <1>0, <1>1, <3>1 DEF Receivers
      <3>3. node'[n].role = "promoting"
        BY <1>0, <2>1 DEF Set, Processes
      <3>4. r.tail.epoch <= s.epoch
        BY <1>0, <1>1, <2>1
      <3>5. "fenced" \in {"standby", "fenced"}
        OBVIOUS
      <3>6. Receives(n)
        BY <1>0, <1>1, <3>2, <3>3, <3>4, <3>5, NewlyReceiving
      <3>. QED
        BY <1>3, <2>1, <3>6
    <2>2. CASE Set(n, [Fresh EXCEPT !.role = "quiesced"]) /\ rcv' = rcv
      <3>1. node'[n].role = "quiesced"
        BY <1>0, <2>2 DEF Set, Fresh
      <3>2. Receives(n)
        BY <2>2, <3>1, SameReceiver DEF Promoted
      <3>. QED
        BY <1>4, <2>2, <3>2
    <2>. QED
      BY <1>5, <2>1, <2>2 DEF BeginPromotion
  <1>6. CASE Reconcile(n)
    <2>1. PICK u : u = ReconciledTail(r.tail, disk.stamp)
      OBVIOUS
    <2>2. CASE Dies(n)
      <3>1. Set(n, Dead) /\ SetReceiver(n, NewReceiver)
        BY <2>2 DEF Dies
      <3>2. node'[n].role = "down" /\ rcv'[n] = NewReceiver
        BY <1>0, <3>1 DEF Set, SetReceiver, Dead, Fresh
      <3>3. Receives(n)
        BY <3>2, SoundNew DEF Receives, Promoted
      <3>. QED
        BY <1>3, <3>1, <3>3
    <2>3. CASE /\ Set(n, [s EXCEPT !.role = "replaying", !.mem = Replay(u), !.proof = PreservesLineage(u, s.snap)])
               /\ SetReceiver(n, [r EXCEPT !.tail = u])
      <3>1. /\ u \in Tails /\ DOMAIN u.batches \subseteq 1..u.max /\ u.epoch <= r.observed
            /\ DurableTo(u.epoch, u.durable)
            /\ \A k \in DOMAIN u.batches : Shipped(u.epoch, k, u.batches[k])
        BY <2>1, ReplayedShips DEF Shipped
      <3>2. TailOK(u)
        BY <3>1 DEF TailOK
      <3>3. rcv'[n] = [r EXCEPT !.tail = u]
        BY <1>0, <2>3, SetReceiverFacts
      <3>4. rcv'[n] \in Receivers /\ rcv'[n].phase = r.phase /\ rcv'[n].observed = r.observed /\ rcv'[n].tail = u
        BY <1>1, <3>1, <3>3 DEF Receivers
      <3>5. node'[n].mem = Replay(u)
        BY <1>0, <2>3 DEF Set, Processes
      <3>6. DOMAIN u.batches = {} => node'[n].mem = <<>>
        BY <3>1, <3>5, ReplayFacts
      <3>7. r.phase = "fenced"
        BY <1>1, <1>6 DEF Reconcile, Promoted
      <3>8. Receives(n)
        BY <1>1, <3>1, <3>2, <3>4, <3>6, <3>7, NewlyReceiving
      <3>. QED
        BY <1>3, <2>3, <3>8
    <2>. QED
      BY <1>6, <2>1, <2>2, <2>3 DEF Reconcile
  <1>7. CASE FinishReplay(n)
    <2>1. PICK u : u = (IF DOMAIN r.tail.batches = {} THEN r.tail ELSE NoTail)
      OBVIOUS
    <2>2. SetReceiver(n, [r EXCEPT !.tail = u])
      BY <1>7, <2>1 DEF FinishReplay
    <2>3. Set(n, [s EXCEPT !.role = "replayed", !.mem = <<>>])
      BY <1>7 DEF FinishReplay
    <2>4. u \in Tails /\ TailOK(u) /\ u.epoch <= r.observed /\ DurableTo(u.epoch, u.durable)
      <3>1. CASE u = r.tail
        BY <1>1, <3>1
      <3>2. CASE u = NoTail
        <4>1. DurableTo(0, 0)
          <5>1. 0 \in Nat /\ 0 <= dbEpoch
            BY StateTypes DEF RepInv
          <5>. QED
            BY <5>1, DurableToNothing
        <4>2. NoTail.epoch = 0 /\ NoTail.durable = 0 /\ NoTail \in Tails /\ TailOK(NoTail)
          BY NoTailFacts DEF TailOK
        <4>3. NoTail.epoch <= r.observed
          BY <1>1, <4>2
        <4>. QED
          BY <3>2, <4>1, <4>2, <4>3
      <3>. QED
        BY <2>1, <3>1, <3>2
    <2>5. rcv'[n] = [r EXCEPT !.tail = u]
      BY <1>0, <2>2, SetReceiverFacts
    <2>6. rcv'[n] \in Receivers /\ rcv'[n].phase = r.phase /\ rcv'[n].observed = r.observed /\ rcv'[n].tail = u
      BY <1>1, <2>4, <2>5 DEF Receivers
    <2>7. node'[n].role = "replayed"
      BY <1>0, <2>3 DEF Set, Processes
    <2>8. r.phase = "fenced"
      BY <1>1, <1>7 DEF FinishReplay, Promoted
    <2>9. Receives(n)
      BY <1>1, <2>4, <2>6, <2>7, <2>8, NewlyReceiving
    <2>. QED
      BY <1>3, <2>2, <2>3, <2>9
  <1>8. ASSUME NEW o \in Nat, r.observed <= o, Returned(n, o) PROVE \A q \in Node : Receives(q)
    <2>1. SetReceiver(n, [r EXCEPT !.phase = "standby", !.observed = o]) /\ Set(n, [Fresh EXCEPT !.role = "quiesced"])
      BY <1>8 DEF Returned
    <2>2. rcv'[n] = [r EXCEPT !.phase = "standby", !.observed = o]
      BY <1>0, <2>1, SetReceiverFacts
    <2>3. rcv'[n] \in Receivers /\ rcv'[n].phase = "standby" /\ rcv'[n].observed = o /\ rcv'[n].tail = r.tail
      BY <1>1, <2>2 DEF Receivers
    <2>4. node'[n].role = "quiesced"
      BY <1>0, <2>1 DEF Set, Fresh
    <2>5. r.tail.epoch <= o
      BY <1>1, <1>8
    <2>6. "standby" \in {"standby", "fenced"} /\ "quiesced" \notin Promoted
      BY DEF Promoted
    <2>7. Receives(n)
      BY <1>1, <2>3, <2>4, <2>5, <2>6, NewlyReceiving
    <2>. QED
      BY <1>3, <2>1, <2>7
  <1>9. CASE ReplayFenced(n)
    <2>1. PICK S : S = {s.epoch + 1, s.snap, r.observed}
      OBVIOUS
    <2>2. PICK b \in Nat : b = s.epoch + 1 + s.snap + r.observed /\ \A x \in S : x <= b
      BY <1>0, <1>1, <2>1
    <2>3. S \subseteq Nat /\ S # {} /\ r.observed \in S
      BY <1>0, <1>1, <2>1
    <2>4. Max(S) \in S /\ \A x \in S : x <= Max(S)
      BY <2>2, <2>3, GreatestElement
    <2>5. PICK o \in Nat : o = Max(S) /\ r.observed <= o
      BY <2>3, <2>4
    <2>6. Returned(n, o)
      BY <1>9, <2>1, <2>5 DEF ReplayFenced
    <2>. QED
      BY <1>8, <2>5, <2>6
  <1>10. CASE CompletePromotion(n)
    <2>1. CASE Returned(n, Larger(r.observed, s.snap))
      <3>1. PICK o \in Nat : o = Larger(r.observed, s.snap) /\ r.observed <= o
        BY <1>0, <1>1 DEF Larger
      <3>. QED
        BY <1>8, <2>1, <3>1
    <2>2. CASE Set(n, [s EXCEPT !.role = "promoted"]) /\ rcv' = rcv
      <3>1. node'[n].role = "promoted" /\ s.role = "replayed"
        BY <1>0, <1>10, <2>2 DEF Set, Processes, CompletePromotion
      <3>2. Receives(n)
        BY <2>2, <3>1, SameReceiver DEF Promoted
      <3>. QED
        BY <1>4, <2>2, <3>2
    <2>. QED
      BY <1>10, <2>1, <2>2 DEF CompletePromotion
  <1>11. CASE Serve(n)
    <2>1. PICK x : Set(n, x) /\ x = [s EXCEPT !.role = "serving", !.proof = FALSE, !.snap = 0,
                                  !.lease = rcv[n].observed <= s.epoch, !.token = disk'.lineage]
      BY <1>11 DEF Serve
    <2>2. x.role = "serving"
      BY <1>0, <2>1 DEF Processes
    <2>3. node'[n].role = "serving" /\ s.role = "promoted" /\ rcv' = rcv
      BY <1>0, <1>11, <2>1, <2>2 DEF Set, Serve
    <2>4. Receives(n)
      BY <2>3, SameReceiver DEF Promoted
    <2>. QED
      BY <1>4, <2>1, <2>3, <2>4
  <1>. QED
    BY <1>5, <1>6, <1>7, <1>9, <1>10, <1>11

\* A heartbeat arrives.
LEMMA BeatReceives ==
    ASSUME RepInv, NEW n \in Node, NEW p \in Node, NEW heard \in BOOLEAN, ReceiveBeat(n, p, heard)
    PROVE  \A q \in Node : Receives(q)
  <1>. DEFINE s == node[n]  r == rcv[p]
  <1>0. /\ node \in [Node -> Processes] /\ rcv \in [Node -> Receivers] /\ s \in Processes /\ Types
        /\ s.epoch \in Nat /\ s.epoch \in 0..MaxEpoch /\ s.role = "serving" /\ p # n
    <2>1. node \in [Node -> Processes] /\ rcv \in [Node -> Receivers] /\ Types
      BY DEF RepInv, Types
    <2>2. s \in Processes
      BY <2>1
    <2>3. s.epoch \in Nat /\ s.epoch \in 0..MaxEpoch
      BY <2>2, Constants DEF Processes
    <2>. QED
      BY <2>1, <2>2, <2>3 DEF ReceiveBeat
  <1>1. /\ r \in Receivers /\ r.observed \in Nat /\ r.tail \in Tails /\ TailOK(r.tail)
        /\ r.tail.epoch \in Nat /\ r.tail.epoch <= r.observed
        /\ DurableTo(r.tail.epoch, r.tail.durable) /\ r.phase \in {"standby", "fenced"}
    BY ReceiverFacts
  <1>2. PICK b : b = s.beat
    OBVIOUS
  <1>3. b.applied \in 0..MaxWrites /\ b.durable \in 0..MaxWrites /\ DurableTo(s.epoch, b.durable)
    BY <1>0, <1>2 DEF Processes, Beats, RepInv, Watermarks
  <1>4. \A q \in Node : node'[q].role = node[q].role /\ node'[q].mem = node[q].mem
    <2>1. CASE \E x : Set(n, [s EXCEPT !.beat = NoBeat, !.repair = x])
      <3>1. PICK x : node' = [node EXCEPT ![n] = [s EXCEPT !.beat = NoBeat, !.repair = x]]
        BY <2>1 DEF Set
      <3>. QED
        BY <1>0, <3>1 DEF Processes
    <2>2. CASE node' = [node EXCEPT ![n].beat = NoBeat, ![p].lease = @ /\ s.epoch <= node[p].epoch]
      BY <1>0, <2>2 DEF Processes
    <2>. QED
      BY <2>1, <2>2 DEF ReceiveBeat
  <1>5. ASSUME NEW q \in Node, q # p, NEW y, SetReceiver(p, y) PROVE Receives(q)
    <2>1. rcv'[q] = rcv[q]
      BY <1>0, <1>5, SetReceiverFacts
    <2>. QED
      BY <1>4, <2>1, SameReceiver
  <1>6. CASE /\ node[p].role = "standby" /\ s.epoch >= r.observed
             /\ SetReceiver(p, [r EXCEPT !.observed = s.epoch,
                                         !.tail = ObserveCoverage(r.tail, s.epoch, b.applied, b.durable)])
    <2>1. PICK u : u = ObserveCoverage(r.tail, s.epoch, b.applied, b.durable)
      OBVIOUS
    <2>2. u \in Tails /\ TailOK(u) /\ u.epoch <= s.epoch /\ DurableTo(u.epoch, u.durable)
      BY <1>0, <1>3, <1>6, <2>1, SoundNow, SoundObserve
    <2>3. rcv'[p] = [r EXCEPT !.observed = s.epoch, !.tail = u]
      BY <1>0, <1>6, <2>1, SetReceiverFacts
    <2>4. rcv'[p] \in Receivers /\ rcv'[p].phase = r.phase /\ rcv'[p].observed = s.epoch /\ rcv'[p].tail = u
      BY <1>0, <1>1, <2>2, <2>3 DEF Receivers
    <2>5. node'[p].role = "standby" /\ "standby" \notin Promoted
      BY <1>4, <1>6 DEF Promoted
    <2>6. Receives(p)
      BY <1>0, <1>1, <2>2, <2>4, <2>5, NewlyReceiving
    <2>. QED
      BY <1>5, <1>6, <2>6
  <1>7. CASE r.phase = "fenced" /\ SetReceiver(p, [r EXCEPT !.observed = Larger(r.observed, s.epoch)])
    <2>1. PICK o \in Nat : o = Larger(r.observed, s.epoch) /\ r.tail.epoch <= o
      BY <1>0, <1>1 DEF Larger
    <2>2. rcv'[p] = [r EXCEPT !.observed = o]
      BY <1>0, <1>7, <2>1, SetReceiverFacts
    <2>3. rcv'[p] \in Receivers /\ rcv'[p].phase = "fenced" /\ rcv'[p].observed = o /\ rcv'[p].tail = r.tail
      BY <1>1, <1>7, <2>2 DEF Receivers
    <2>4. node'[p].role = "replaying" /\ DOMAIN r.tail.batches = {} => node'[p].mem = <<>>
      BY <1>4 DEF RepInv, Receiving
    <2>5. Receives(p)
      BY <1>1, <1>7, <2>1, <2>3, <2>4, NewlyReceiving
    <2>. QED
      BY <1>5, <1>7, <2>5
  <1>. QED
    BY <1>2, <1>6, <1>7 DEF ReceiveBeat

\* A ship request arrives.
LEMMA DeliverReceives ==
    ASSUME RepInv, NEW m \in ships, NEW p \in Node, Deliver(m, p)
    PROVE  \A q \in Node : Receives(q)
  <1>0. /\ node \in [Node -> Processes] /\ rcv \in [Node -> Receivers] /\ Types /\ m.from \in Node /\ p # m.from
    BY DEF RepInv, Types, Messages, Deliver
  <1>1. PICK res : res = Received(rcv[p], node[p].epoch, m)
    OBVIOUS
  <1>2. SetReceiver(p, res.rcv)
    BY <1>1 DEF Deliver
  <1>3. \A q \in Node : node'[q].role = node[q].role /\ node'[q].mem = node[q].mem
    <2>1. node' = [node EXCEPT ![m.from] = IF Waiting(m) THEN [@ EXCEPT !.answer = res.answer] ELSE @,
                               ![p] = IF res.answer = "stale" THEN [@ EXCEPT !.lease = FALSE] ELSE @]
      BY <1>1 DEF Deliver
    <2>2. /\ node'[m.from] = node[m.from] \/ node'[m.from] = [node[m.from] EXCEPT !.answer = res.answer]
          /\ node'[p] = node[p] \/ node'[p] = [node[p] EXCEPT !.lease = FALSE]
          /\ \A q \in Node \ {m.from, p} : node'[q] = node[q]
      BY <1>0, <2>1
    <2>3. \A q \in Node : node[q] \in Processes
      BY <1>0
    <2>4. node'[m.from].role = node[m.from].role /\ node'[m.from].mem = node[m.from].mem
      BY <1>0, <2>2, <2>3 DEF Processes
    <2>5. node'[p].role = node[p].role /\ node'[p].mem = node[p].mem
      BY <1>0, <2>2, <2>3, ZenonT(60) DEF Processes
    <2>. QED
      BY <2>2, <2>4, <2>5
  <1>4. ASSUME NEW q \in Node, q # p PROVE Receives(q)
    <2>1. rcv'[q] = rcv[q]
      BY <1>0, <1>2, <1>4, SetReceiverFacts
    <2>. QED
      BY <1>3, <2>1, SameReceiver
  <1>5. Receives(p)
    <2>1. PICK x : x = res.rcv
      OBVIOUS
    <2>2. Sound(x) /\ x.phase = rcv[p].phase /\ (x.phase = "fenced" => x.tail = rcv[p].tail)
      BY <1>1, <2>1, SoundReceived
    <2>3. rcv'[p] = x
      BY <1>0, <1>2, <2>1, SetReceiverFacts
    <2>4. node[p].role \in Promoted => rcv[p].phase = "fenced"
      BY ReceiverFacts
    <2>5. node[p].role = "replaying" /\ DOMAIN rcv[p].tail.batches = {} => node[p].mem = <<>>
      BY DEF RepInv, Receiving
    <2>. QED
      BY <1>3, <2>2, <2>3, <2>4, <2>5 DEF Receives, Promoted
  <1>. QED
    BY <1>4, <1>5

\* Every receiver, in every step.
LEMMA AllReceive ==
    ASSUME RepInv, [Next]_vars
    PROVE  \A q \in Node : Receives(q)
  <1>1. ASSUME NEW n \in Node, NodeStep(n) PROVE \A q \in Node : Receives(q)
    BY <1>1, LeaderReceives, RestartReceives, TakeoverReceives, BeatReceives DEF NodeStep
  <1>2. ASSUME NEW m \in ships, NEW p \in Node, Deliver(m, p) PROVE \A q \in Node : Receives(q)
    BY <1>2, DeliverReceives
  <1>3. CASE StrayOpen \/ UNCHANGED vars
    <2>1. node' = node /\ rcv' = rcv
      BY <1>3 DEF StrayOpen, vars
    <2>. QED
      BY <2>1, SameReceiver
  <1>. QED
    BY <1>1, <1>2, <1>3 DEF Next

\* A frontier that is durable stays durable.
LEMMA DurableStays ==
    ASSUME RepInv, Advances, NEW e \in Nat, NEW k \in Nat, DurableTo(e, k)
    PROVE  DurableTo(e, k)'
  <1>0. dbEpoch \in Nat /\ dbEpoch' \in Nat /\ dbEpoch <= dbEpoch' /\ e <= dbEpoch
    BY StateTypes, Constants DEF RepInv, Advances, DurableTo
  <1>1. e <= dbEpoch'
    BY <1>0
  <1>2. ASSUME NEW m \in ships', m.epoch = e, m.seq <= k PROVE m.id \in Ids(disk'.log)
    <2>1. CASE \E q \in ships : SameShip(m, q)
      BY <1>2, <2>1, LogGrows DEF SameShip, DurableTo
    <2>2. CASE \E n \in Node : m.epoch = node[n].epoch /\ m.seq = node[n].applied + 1 /\ node[n].epoch # 0
      <3>1. PICK n \in Node : m.epoch = node[n].epoch /\ m.seq = node[n].applied + 1 /\ node[n].epoch # 0
        BY <2>2
      <3>2. node[n].applied \in Nat /\ k <= node[n].applied
        BY <1>2, <3>1, StateTypes DEF RepInv, DurableTo
      <3>. QED
        BY <1>2, <3>1, <3>2
    <2>. QED
      BY <2>1, <2>2, RequestMoves
  <1>3. ASSUME NEW n \in Node, node'[n].epoch = e, e > 0 PROVE k <= node'[n].applied
    <2>1. node'[n].epoch = node[n].epoch /\ node[n].applied <= node'[n].applied
      BY <1>0, <1>3, TermMoves
    <2>2. k <= node[n].applied /\ node[n].applied \in Nat
      BY <1>3, <2>1, StateTypes DEF RepInv, DurableTo
    <2>3. node'[n].applied \in Nat
      <3>1. node'[n] \in Processes
        BY DEF Advances, Moves
      <3>. QED
        BY <3>1, Constants DEF Processes
    <2>. QED
      BY <2>1, <2>2, <2>3
  <1>. QED
    BY <1>1, <1>2, <1>3 DEF DurableTo

\* The frontier DurabilityTracker reports, in the state after a step.
LEMMA DurableFrontier ==
    ASSUME RepInv, [Next]_vars, Advances, NEW n \in Node, NEW e, e = node'[n].epoch, NEW k, k = DurableShips(node'[n])
    PROVE  DurableTo(e, k)'
  <1>1. PICK s : s = node'[n]
    OBVIOUS
  <1>2. s \in Processes /\ ProcInv(s, disk', ships', nextWrite')
    BY <1>1 DEF Advances, Moves
  <1>3. ships' \in SUBSET Messages
    BY RequestMoves
  <1>4. PICK d, S, next : d = disk' /\ S = ships' /\ next = nextWrite'
    OBVIOUS
  <1>5. S \in SUBSET Messages /\ ProcInv(s, d, S, next)
    BY <1>2, <1>3, <1>4
  <1>6. /\ k \in Nat /\ k <= s.applied
        /\ \A m \in S : m.epoch = s.epoch /\ m.seq <= k => m.id \in Ids(d.log)
    BY <1>1, <1>2, <1>5, DurableShipsFacts
  <1>7. Epochs'
    BY EpochsHold
  <1>8. e <= dbEpoch'
    BY <1>7 DEF Epochs
  <1>9. ASSUME NEW q \in Node, node'[q].epoch = e, e > 0 PROVE k <= node'[q].applied
    <2>1. q = n
      BY <1>7, <1>9 DEF Epochs
    <2>. QED
      BY <1>1, <1>6, <2>1
  <1>. QED
    BY <1>1, <1>4, <1>6, <1>8, <1>9 DEF DurableTo

\* The stamp of the database, after a step.
LEMMA StampHolds ==
    ASSUME RepInv, [Next]_vars, Advances, NEW st, st = disk'.stamp
    PROVE  Provenance(st) /\ DurableTo(st.epoch, st.applied)'
  <1>0. /\ disk.stamp.epoch \in Nat /\ disk.stamp.applied \in Nat
        /\ DurableTo(disk.stamp.epoch, disk.stamp.applied) /\ Provenance(disk.stamp)
    BY StateTypes DEF RepInv, Watermarks
  <1>1. CASE st = disk.stamp
    BY <1>0, <1>1, DurableStays
  <1>2. CASE st # disk.stamp
    <2>1. PICK n \in Node : DiskFlushed(n)
      BY <1>2 DEF Advances, DiskStays
    <2>2. PICK p : /\ LogOK(p, ships, nextWrite) /\ Ids(p.log) = Ids(disk'.log) /\ p.stamp = st
                   /\ (st.epoch = node[n].epoch /\ st.applied <= node[n].applied) \/ st = disk.stamp
      BY <2>1 DEF DiskFlushed, FlushOf
    <2>3. /\ Provenance(st) /\ st.epoch = node[n].epoch /\ st.applied <= node[n].applied
          /\ \A m \in ships : m.epoch = st.epoch /\ m.seq <= st.applied => m.id \in Ids(disk'.log)
      BY <1>2, <2>2 DEF LogOK
    <2>4. node[n].epoch = dbEpoch /\ node[n].epoch # 0
      BY <2>1 DEF DiskFlushed, Fenced
    <2>5. st \in Stamps /\ st.epoch \in Nat /\ st.applied \in Nat
      <3>1. disk' \in Disks
        BY <2>1 DEF DiskFlushed
      <3>. QED
        BY <3>1, Constants DEF Disks, Stamps
    <2>6. dbEpoch \in Nat /\ dbEpoch' \in Nat /\ dbEpoch <= dbEpoch' /\ node[n].applied \in Nat
      BY StateTypes, Constants DEF RepInv, Advances
    <2>7. ASSUME NEW m \in ships', m.epoch = st.epoch, m.seq <= st.applied PROVE m.id \in Ids(disk'.log)
      <3>1. CASE \E q \in ships : SameShip(m, q)
        BY <2>3, <2>7, <3>1 DEF SameShip
      <3>2. CASE DiskStays
        BY <1>2, <3>2 DEF DiskStays
      <3>. QED
        BY <3>1, <3>2, RequestMoves
    <2>8. ASSUME NEW q \in Node, node'[q].epoch = st.epoch, st.epoch > 0 PROVE st.applied <= node'[q].applied
      <3>1. node'[q].epoch = node[q].epoch /\ node[q].applied <= node'[q].applied
        BY <2>3, <2>4, <2>6, <2>8, TermMoves
      <3>2. q = n
        BY <2>3, <2>8, <3>1 DEF RepInv, Epochs
      <3>3. node'[q].applied \in Nat
        <4>1. node'[q] \in Processes
          BY DEF Advances, Moves
        <4>. QED
          BY <4>1, Constants DEF Processes
      <3>. QED
        BY <2>3, <2>5, <2>6, <3>1, <3>2, <3>3
    <2>9. st.epoch <= dbEpoch'
      BY <2>3, <2>4, <2>6
    <2>. QED
      BY <2>3, <2>7, <2>8, <2>9 DEF DurableTo
  <1>. QED
    BY <1>1, <1>2

\* Every watermark is still a durable frontier.
LEMMA WatermarksHold ==
    ASSUME RepInv, [Next]_vars, Advances, \A q \in Node : Receives(q)
    PROVE  Watermarks'
  <1>0. Watermarks /\ dbEpoch \in Nat /\ dbEpoch' \in Nat /\ dbEpoch <= dbEpoch'
    BY StateTypes, Constants DEF RepInv, Advances
  <1>z. \A e \in Nat : e <= dbEpoch' => DurableTo(e, 0)'
    <2>1. \A m \in ships' : m.seq \in Nat \ {0}
      BY RequestMoves, Constants DEF Messages
    <2>2. \A n \in Node : node'[n].applied \in Nat
      <3>1. \A n \in Node : node'[n] \in Processes
        BY DEF Advances, Moves
      <3>. QED
        BY <3>1, Constants DEF Processes
    <2>. QED
      BY <2>1, <2>2 DEF DurableTo
  <1>1. ASSUME NEW n \in Node PROVE DurableTo(node[n].epoch, node[n].wm)' /\ DurableTo(node[n].epoch, node[n].beat.durable)'
    <2>1. PICK e, w, b : e = node'[n].epoch /\ w = node'[n].wm /\ b = node'[n].beat.durable
      OBVIOUS
    <2>2. Moves(n)
      BY DEF Advances
    <2>3. e \in Nat /\ e <= dbEpoch'
      BY <1>0, <2>1, TermMoves
    <2>4. /\ node[n].epoch \in Nat /\ node[n].wm \in Nat /\ node[n].beat.durable \in Nat
          /\ DurableTo(node[n].epoch, node[n].wm) /\ DurableTo(node[n].epoch, node[n].beat.durable)
      BY <1>0, StateTypes DEF RepInv, Watermarks
    <2>5. CASE /\ e = node[n].epoch
               /\ w = node[n].wm \/ w = DurableShips(node'[n])
               /\ b \in {0, node[n].wm, node[n].beat.durable}
      <3>1. DurableTo(e, w)'
        <4>1. CASE w = node[n].wm
          BY <2>4, <2>5, <4>1, DurableStays
        <4>2. CASE w = DurableShips(node'[n])
          BY <2>1, <4>2, DurableFrontier
        <4>. QED
          BY <2>5, <4>1, <4>2
      <3>2. DurableTo(e, b)'
        <4>1. CASE b = 0
          BY <1>z, <2>3, <4>1
        <4>2. CASE b = node[n].wm
          BY <2>4, <2>5, <4>2, DurableStays
        <4>3. CASE b = node[n].beat.durable
          BY <2>4, <2>5, <4>3, DurableStays
        <4>. QED
          BY <2>5, <4>1, <4>2, <4>3
      <3>. QED
        BY <2>1, <3>1, <3>2
    <2>6. CASE w = 0 /\ b = 0
      BY <1>z, <2>1, <2>3, <2>6
    <2>. QED
      BY <2>1, <2>2, <2>5, <2>6 DEF Moves
  <1>2. ASSUME NEW m \in ships' PROVE DurableTo(m.epoch, m.wm)'
    <2>1. m.epoch \in Nat /\ m.wm \in Nat
      BY RequestMoves, Constants DEF Messages
    <2>2. DurableTo(m.epoch, m.wm)
      <3>1. CASE \E q \in ships : SameShip(m, q)
        <4>1. PICK q \in ships : m.epoch = q.epoch /\ m.wm = q.wm
          BY <3>1 DEF SameShip
        <4>2. DurableTo(q.epoch, q.wm)
          BY <1>0 DEF Watermarks
        <4>. QED
          BY <4>1, <4>2
      <3>2. CASE \E n \in Node : m.epoch = node[n].epoch /\ m.wm = node[n].wm
        BY <1>0, <3>2 DEF Watermarks
      <3>. QED
        BY <3>1, <3>2, RequestMoves
    <2>. QED
      BY <2>1, <2>2, DurableStays
  <1>3. ASSUME NEW n \in Node PROVE DurableTo(rcv[n].tail.epoch, rcv[n].tail.durable)'
    <2>1. PICK r : r = rcv'[n]
      OBVIOUS
    <2>2. r \in Receivers /\ DurableTo(r.tail.epoch, r.tail.durable)
      BY <2>1 DEF Receives, Sound
    <2>3. r.tail.epoch \in Nat /\ r.tail.durable \in Nat
      BY <2>2, Constants DEF Receivers, Tails
    <2>4. DurableTo(r.tail.epoch, r.tail.durable)'
      BY <2>2, <2>3, DurableStays
    <2>. QED
      BY <2>1, <2>4
  <1>4. DurableTo(disk.stamp.epoch, disk.stamp.applied)' /\ Provenance(disk'.stamp)
    <2>1. PICK st : st = disk'.stamp
      OBVIOUS
    <2>. QED
      BY <2>1, StampHolds
  <1>. QED
    BY <1>1, <1>2, <1>3, <1>4 DEF Watermarks

\* A tail still holds what was shipped.
LEMMA ReceivingHolds ==
    ASSUME RepInv, Advances, \A q \in Node : Receives(q)
    PROVE  Receiving'
  <1>1. ASSUME NEW n \in Node PROVE TailOK(rcv[n].tail)'
    <2>1. PICK t : t = rcv'[n].tail
      OBVIOUS
    <2>2. TailOK(t)
      BY <2>1 DEF Receives, Sound
    <2>3. ASSUME NEW k \in DOMAIN t.batches PROVE Shipped(t.epoch, k, t.batches[k])'
      <3>1. PICK q \in ships : q.epoch = t.epoch /\ q.seq = k /\ q.id = t.batches[k]
        BY <2>2 DEF TailOK, Shipped
      <3>2. PICK m \in ships' : SameShip(m, q)
        BY RequestsStay
      <3>. QED
        BY <3>1, <3>2 DEF Shipped, SameShip
    <2>4. TailOK(t)'
      BY <2>2, <2>3 DEF TailOK
    <2>. QED
      BY <2>1, <2>4
  <1>2. ASSUME NEW n \in Node
        PROVE  /\ rcv'[n].tail.epoch <= rcv'[n].observed
               /\ node'[n].role \in {"promoting", "replaying", "replayed", "promoted", "serving"}
                     => rcv'[n].phase = "fenced"
               /\ node'[n].role = "replaying" /\ DOMAIN rcv'[n].tail.batches = {} => node'[n].mem = <<>>
    BY DEF Receives, Sound, Promoted
  <1>. QED
    BY <1>1, <1>2 DEF Receiving

\* The order of the writes is kept: a flush by the current writer appends newer
\* writes only, and a batch is sent when nothing newer is there.
LEMMA OrderedHolds ==
    ASSUME RepInv, Advances
    PROVE  Ordered'
  <1>0. /\ nextWrite \in Nat /\ nextWrite' \in Nat /\ nextWrite <= nextWrite' /\ LogOK(disk, ships, nextWrite)
        /\ MaxWrites \in Nat
    BY StateTypes, Constants, LogIsOK DEF RepInv, Advances
  <1>1. PICK d : d = disk'
    OBVIOUS
  <1>2. d \in Disks /\ \A i \in DOMAIN d.log : d.log[i].id \in Nat
    <2>1. d \in Disks
      BY <1>1 DEF Advances, DiskStays, DiskFlushed
    <2>2. d.log \in Seq(Entries)
      BY <2>1 DEF Disks
    <2>3. \A i \in DOMAIN d.log : d.log[i] \in Entries
      BY <2>2
    <2>4. \A x \in Entries : x.id \in Nat
      BY <1>0 DEF Entries
    <2>. QED
      BY <2>1, <2>3, <2>4
  <1>3. LogOK(d, ships, nextWrite)
    <2>1. ASSUME NEW p, p.log = d.log, p.stamp = d.stamp, LogOK(p, ships, nextWrite) PROVE LogOK(d, ships, nextWrite)
      BY <2>1 DEF LogOK, OwnBelow
    <2>2. CASE DiskStays
      BY <1>0, <1>1, <2>1, <2>2 DEF DiskStays
    <2>3. CASE \E n \in Node : DiskFlushed(n)
      <3>1. PICK p : p.log = d.log /\ p.stamp = d.stamp /\ LogOK(p, ships, nextWrite)
        BY <1>1, <2>3 DEF DiskFlushed, FlushOf
      <3>. QED
        BY <2>1, <3>1
    <2>. QED
      BY <2>2, <2>3 DEF Advances
  <1>4. NoRegression'
    BY <1>1, <1>3 DEF LogOK, NoRegression
  <1>5. OwnBelow(d, nextWrite')
    <2>1. OwnBelow(d, nextWrite)
      BY <1>3 DEF LogOK
    <2>. QED
      BY <1>0, <1>2, <2>1 DEF OwnBelow
  <1>6. ASSUME NEW m \in ships' PROVE m.id < nextWrite' /\ (After(m, d.stamp) => OwnBelow(d, m.id))
    <2>1. CASE \E q \in ships : SameShip(m, q)
      <3>1. PICK q \in ships : SameShip(m, q)
        BY <2>1
      <3>2. q.id < nextWrite /\ q.id \in Nat
        BY StateTypes DEF RepInv, Ordered
      <3>3. After(q, d.stamp) => OwnBelow(d, q.id)
        BY <1>3 DEF LogOK
      <3>. QED
        BY <1>0, <3>1, <3>2, <3>3 DEF SameShip, After
    <2>2. CASE \E n \in Node : /\ m.epoch = node[n].epoch /\ m.id = node[n].write
                               /\ node[n].op = "ready" /\ DiskStays
      <3>1. PICK n \in Node : m.epoch = node[n].epoch /\ m.id = node[n].write /\ node[n].op = "ready" /\ DiskStays
        BY <2>2
      <3>2. ProcInv(node[n], disk, ships, nextWrite)
        BY DEF RepInv, Processing
      <3>3. node[n].write < nextWrite /\ node[n].write \in Nat
        BY <3>1, <3>2, StateTypes DEF RepInv, ProcInv, Frontier
      <3>4. node[n].epoch \in Nat /\ disk.stamp.epoch \in Nat
        BY StateTypes DEF RepInv
      <3>5. After(m, d.stamp) => OwnBelow(disk, node[n].write)
        BY <1>1, <3>1, <3>2, <3>4 DEF DiskStays, After, ProcInv
      <3>6. OwnBelow(disk, node[n].write) => OwnBelow(d, m.id)
        BY <1>1, <3>1 DEF DiskStays, OwnBelow
      <3>. QED
        BY <1>0, <3>1, <3>3, <3>5, <3>6
    <2>. QED
      BY <2>1, <2>2, RequestMoves
  <1>7. ASSUME NEW n \in Node, node'[n].epoch = dbEpoch', NEW i \in DOMAIN node'[n].mem
        PROVE  OwnBelow(d, node'[n].mem[i].id)
    BY <1>1, <1>7 DEF Advances, Moves
  <1>8. /\ OwnBelow(disk, nextWrite)'
        /\ \A m \in ships' : m.id < nextWrite' /\ (After(m, disk'.stamp) => OwnBelow(disk', m.id))
        /\ \A n \in Node : node'[n].epoch = dbEpoch' => \A i \in DOMAIN node'[n].mem : OwnBelow(disk', node'[n].mem[i].id)
    BY <1>1, <1>5, <1>6, <1>7 DEF OwnBelow
  <1>. QED
    BY <1>4, <1>8 DEF Ordered, Fenced

(* A function of the nodes.                                                 *)
PerNode(f) == f = [n \in Node |-> f[n]]

\* Changing one entry, or two, of a function of the nodes makes another one.
LEMMA PerNodeFacts ==
    ASSUME NEW S, NEW f \in [Node -> S]
    PROVE  /\ PerNode(f)
           /\ \A n, s : PerNode([f EXCEPT ![n] = s])
           /\ \A n, s, p, t : PerNode([f EXCEPT ![n] = s, ![p] = t])
  <1>1. PerNode(f)
    BY DEF PerNode
  <1>2. ASSUME NEW n, NEW s, NEW p, NEW t
        PROVE  PerNode([f EXCEPT ![n] = s]) /\ PerNode([f EXCEPT ![n] = s, ![p] = t])
    <2>1. PICK g : g = [f EXCEPT ![n] = s]
      OBVIOUS
    <2>2. PerNode(g)
      BY <2>1 DEF PerNode
    <2>3. PICK h : h = [g EXCEPT ![p] = t]
      OBVIOUS
    <2>4. PerNode(h)
      BY <2>2, <2>3 DEF PerNode
    <2>. QED
      BY <2>1, <2>2, <2>3, <2>4
  <1>. QED
    BY <1>1, <1>2

(* What a process acknowledges is the batch in its hands.                   *)
Acknowledges ==
    \A a \in acked' \ acked :
       \E n \in Node : node[n].op # "none" /\ a = [id |-> node[n].write, token |-> node[n].token]

(* A step stays within the shape of the state.                              *)
Shaped ==
    /\ owner' \in Node \cup {NoNode} /\ restarts' \in Nat
    /\ PerNode(node') /\ PerNode(rcv') /\ Acknowledges

\* So does every step.
LEMMA ShapesHold ==
    ASSUME RepInv, [Next]_vars
    PROVE  Shaped
  <1>0. node \in [Node -> Processes] /\ rcv \in [Node -> Receivers] /\ owner \in Node \cup {NoNode} /\ restarts \in Nat
    BY DEF RepInv, Types
  <1>1. PerNode(node) /\ PerNode(rcv)
    BY <1>0, PerNodeFacts
  <1>2. /\ \A n, s : Set(n, s) => PerNode(node')
        /\ \A n, s : SetReceiver(n, s) => PerNode(rcv')
    <2>1. ASSUME NEW n, NEW s, Set(n, s) PROVE PerNode(node')
      BY <1>0, <2>1, PerNodeFacts DEF Set
    <2>2. ASSUME NEW n, NEW s, SetReceiver(n, s) PROVE PerNode(rcv')
      BY <1>0, <2>2, PerNodeFacts DEF SetReceiver
    <2>. QED
      BY <2>1, <2>2
  <1>3. acked' = acked => Acknowledges
    BY DEF Acknowledges
  <1>4. ASSUME NEW n \in Node, NodeStep(n) PROVE Shaped
    <2>1. CASE Persist(n) \/ ObserveDurable(n) \/ StartWrite(n) \/ BaseFlush(n) \/ SendShip(n) \/ ShipUncovered(n)
               \/ Reconnect(n) \/ SendBeat(n) \/ LoseClaim(n) \/ Serve(n)
      BY <1>0, <1>1, <1>2, <1>3, <2>1 DEF Shaped, Persist, ObserveDurable, StartWrite, BaseFlush, SendShip, ShipUncovered,
            Reconnect, SendBeat, LoseClaim, Serve
    <2>2. CASE StepDown(n) \/ Crash(n) \/ Reconcile(n) \/ FinishReplay(n) \/ ReplayFenced(n) \/ CompletePromotion(n)
               \/ BeginPromotion(n)
      BY <1>0, <1>1, <1>2, <1>3, <2>2 DEF Shaped, StepDown, Crash, Dies, Reconcile, FinishReplay, ReplayFenced, Returned,
            CompletePromotion, BeginPromotion
    <2>3. CASE Claim(n) \/ Restart(n)
      BY <1>0, <1>1, <1>2, <1>3, <2>3 DEF Shaped, Claim, Restart
    <2>4. CASE OpenDb(n)
      <3>1. PerNode(node')
        BY <2>4 DEF OpenDb, PerNode
      <3>. QED
        BY <1>0, <1>1, <1>3, <2>4, <3>1 DEF Shaped, OpenDb
    <2>5. CASE ShipAccepted(n) \/ WriteSolo(n) \/ ShipAmbiguous(n)
      <3>1. acked' = acked \cup {[id |-> node[n].write, token |-> node[n].token]} /\ node[n].op # "none"
        BY <2>5 DEF ShipAccepted, WriteSolo, ShipAmbiguous, ApplySolo
      <3>2. Acknowledges
        BY <3>1 DEF Acknowledges
      <3>. QED
        BY <1>0, <1>1, <1>2, <2>5, <3>2 DEF Shaped, ShipAccepted, WriteSolo, ShipAmbiguous, ApplySolo
    <2>6. CASE \E p \in Node, heard \in BOOLEAN : ReceiveBeat(n, p, heard)
      <3>1. PICK p \in Node, heard \in BOOLEAN : ReceiveBeat(n, p, heard)
        BY <2>6
      <3>2. PerNode(rcv')
        BY <1>2, <3>1 DEF ReceiveBeat
      <3>3. PerNode(node')
        <4>1. \/ \E s : Set(n, s)
              \/ node' = [node EXCEPT ![n].beat = NoBeat, ![p].lease = @ /\ node[n].epoch <= node[p].epoch]
          BY <3>1 DEF ReceiveBeat
        <4>2. ASSUME node' = [node EXCEPT ![n].beat = NoBeat, ![p].lease = @ /\ node[n].epoch <= node[p].epoch]
              PROVE  PerNode(node')
          <5>1. PICK g : g = [node EXCEPT ![n].beat = NoBeat]
            OBVIOUS
          <5>2. PerNode(g)
            BY <1>0, <5>1 DEF PerNode
          <5>3. \E t : node' = [g EXCEPT ![p] = t]
            BY <4>2, <5>1
          <5>. QED
            BY <5>2, <5>3 DEF PerNode
        <4>. QED
          BY <1>2, <4>1, <4>2
      <3>. QED
        BY <1>0, <1>3, <3>1, <3>2, <3>3 DEF Shaped, ReceiveBeat
    <2>. QED
      BY <1>4, <2>1, <2>2, <2>3, <2>4, <2>5, <2>6 DEF NodeStep
  <1>5. ASSUME NEW m \in ships, NEW p \in Node, Deliver(m, p) PROVE Shaped
    <2>1. PerNode(rcv')
      BY <1>2, <1>5 DEF Deliver
    <2>2. PerNode(node')
      BY <1>0, <1>5, PerNodeFacts DEF Deliver
    <2>. QED
      BY <1>0, <1>3, <1>5, <2>1, <2>2 DEF Shaped, Deliver
  <1>6. CASE StrayOpen \/ UNCHANGED vars
    BY <1>0, <1>1, <1>3, <1>6 DEF Shaped, StrayOpen, vars
  <1>. QED
    BY <1>4, <1>5, <1>6 DEF Next

\* The types of the state after a step.
LEMMA TypesHold ==
    ASSUME RepInv, [Next]_vars, Advances, \A q \in Node : Receives(q)
    PROVE  Types'
  <1>1. Shaped
    BY ShapesHold
  <1>2. disk' \in Disks
    BY DEF Advances, DiskStays, DiskFlushed
  <1>3. node' \in [Node -> Processes]
    <2>1. \A n \in Node : node'[n] \in Processes
      BY DEF Advances, Moves
    <2>. QED
      BY <1>1, <2>1 DEF Shaped, PerNode
  <1>4. rcv' \in [Node -> Receivers]
    <2>1. \A n \in Node : rcv'[n] \in Receivers
      BY DEF Receives, Sound
    <2>. QED
      BY <1>1, <2>1 DEF Shaped, PerNode
  <1>5. ships' \subseteq Messages
    BY RequestMoves
  <1>6. acked' \subseteq [id : 1..MaxWrites, token : 0..MaxEpoch]
    <2>1. ASSUME NEW a \in acked' \ acked PROVE a \in [id : 1..MaxWrites, token : 0..MaxEpoch]
      <3>1. PICK n \in Node : node[n].op # "none" /\ a = [id |-> node[n].write, token |-> node[n].token]
        BY <1>1 DEF Shaped, Acknowledges
      <3>2. node[n] \in Processes /\ nextWrite \in 1..(MaxWrites + 1) /\ Frontier(node[n], nextWrite)
        BY DEF RepInv, Types, Processing, ProcInv
      <3>3. node[n].write \in 1..MaxWrites
        BY <3>1, <3>2, InHandsFacts
      <3>4. node[n].token \in 0..MaxEpoch
        BY <3>2 DEF Processes
      <3>. QED
        BY <3>1, <3>3, <3>4
    <2>2. acked \subseteq [id : 1..MaxWrites, token : 0..MaxEpoch]
      BY DEF RepInv, Types
    <2>. QED
      BY <2>1, <2>2
  <1>. QED
    BY <1>1, <1>2, <1>3, <1>4, <1>5, <1>6 DEF Types, Shaped, Advances

\* The invariant holds at the start.
LEMMA InitHolds == Init => RepInv
  <1>. SUFFICES ASSUME Init PROVE RepInv
    OBVIOUS
  <1>0. MaxWrites \in Nat /\ MaxEpoch \in Nat
    BY Constants
  <1>1. PICK d : d = disk
    OBVIOUS
  <1>2. d.log = <<>> /\ d.stamp = NoStamp /\ d.lineage = 0 /\ d.taint = 0 /\ d \in Disks
    <2>1. <<>> \in Seq(Entries)
      OBVIOUS
    <2>2. NoStamp \in Stamps
      BY <1>0 DEF NoStamp, Stamps
    <2>. QED
      BY <1>0, <1>1, <2>1, <2>2 DEF Init, Disks
  <1>3. DOMAIN d.log = {} /\ NoStamp.epoch = 0 /\ NoStamp.applied = 0 /\ Provenance(NoStamp)
    BY <1>2 DEF NoStamp, Provenance
  <1>4. NewReceiver \in Receivers /\ NewReceiver.tail = NoTail /\ NewReceiver.observed = 0
    BY NoTailFacts DEF NewReceiver, Receivers
  <1>5. Fresh \in Processes /\ ProcInv(Fresh, disk, {}, 1)
    <2>1. Fresh \in Processes
      BY FreshIsProcess
    <2>2. Fresh = [Fresh EXCEPT !.role = "standby", !.epoch = 0]
      BY FreshFacts
    <2>3. 0 \in 0..MaxEpoch /\ "standby" \in Role \ {"serving"} /\ 1 \in Nat \ {0}
      BY <1>0 DEF Role
    <2>4. ProcInv([Fresh EXCEPT !.role = "standby", !.epoch = 0], disk, {}, 1)
      BY <2>3, FreshProcess
    <2>. QED
      BY <2>1, <2>2, <2>4
  <1>6. \A n \in Node : node[n] = Fresh /\ rcv[n] = NewReceiver
    BY DEF Init
  <1>7. Types
    BY <1>0, <1>1, <1>2, <1>4, <1>5 DEF Init, Types
  <1>8. Processing
    BY <1>5, <1>6 DEF Init, Processing
  <1>9. /\ Fresh.epoch = 0 /\ Fresh.role = "standby" /\ Fresh.mem = <<>> /\ Fresh.wm = 0 /\ Fresh.beat.durable = 0
        /\ Fresh.applied = 0
    BY DEF Fresh, NoBeat
  <1>10. Epochs
    BY <1>1, <1>2, <1>6, <1>9 DEF Init, Epochs
  <1>11. Watermarks
    <2>1. DurableTo(0, 0)
      BY DEF Init, DurableTo
    <2>. QED
      BY <1>1, <1>2, <1>3, <1>4, <1>6, <1>9, <2>1, NoTailFacts DEF Init, Watermarks
  <1>12. Receiving
    <2>1. TailOK(NoTail) /\ NoTail.epoch = 0
      BY NoTailFacts DEF TailOK
    <2>. QED
      BY <1>4, <1>6, <1>9, <2>1 DEF Receiving
  <1>13. Ordered
    <2>1. DOMAIN Fresh.mem = {}
      BY <1>9
    <2>. QED
      BY <1>1, <1>3, <1>6, <2>1 DEF Init, Ordered, NoRegression, OwnBelow
  <1>. QED
    BY <1>7, <1>8, <1>10, <1>11, <1>12, <1>13 DEF RepInv

-----------------------------------------------------------------------------
(* Theorems *)

\* RepInv holds in every state of the data path, for any number of writes, epochs
\* and restarts: what any process, request, receiver, tail or stamp claims of the
\* shared storage is true of it, whoever wrote to it since.
THEOREM ReplicationInvariant == Spec => []RepInv
  <1>1. RepInv /\ [Next]_vars => RepInv'
    <2>. SUFFICES ASSUME RepInv, [Next]_vars PROVE RepInv'
      OBVIOUS
    <2>1. Advances /\ \A q \in Node : Receives(q)
      BY Advancing, AllReceive
    <2>2. Types' /\ Processing' /\ Epochs' /\ Watermarks' /\ Receiving' /\ Ordered'
      BY <2>1, TypesHold, ProcessingHolds, EpochsHold, WatermarksHold, ReceivingHolds, OrderedHolds
    <2>. QED
      BY <2>2 DEF RepInv
  <1>. QED
    BY <1>1, InitHolds, PTL DEF Spec

\* The types, and the order of the leader's frontiers (replicator.rs): shipped <=
\* applied < next_seqno, and the watermark never passes what is applied.
THEOREM ReplicationTypes == Spec => []TypeOK
  <1>1. RepInv => TypeOK
    <2>. SUFFICES ASSUME RepInv PROVE TypeOK
      OBVIOUS
    <2>1. /\ disk.log \in Seq(Entries)
          /\ disk.stamp \in Stamps /\ disk.lineage \in 0..MaxEpoch /\ disk.taint \in 0..MaxEpoch
          /\ dbEpoch \in 0..MaxEpoch /\ owner \in Node \cup {NoNode}
      BY DEF RepInv, Types, Disks
    <2>2. ASSUME NEW n \in Node
          PROVE  /\ node[n].role \in Role
                 /\ node[n].epoch <= dbEpoch /\ node[n].token <= node[n].epoch
                 /\ node[n].shipped <= node[n].applied /\ node[n].applied < node[n].seq
                 /\ node[n].wm <= node[n].applied
      <3>1. node[n] \in Processes /\ Frontier(node[n], nextWrite) /\ node[n].epoch <= dbEpoch
        BY DEF RepInv, Types, Processing, ProcInv, Epochs
      <3>2. node[n].role \in Role /\ node[n].applied \in Nat
        BY <3>1, Constants DEF Processes
      <3>. QED
        BY <3>1, <3>2 DEF Frontier, Provenance
    <2>3. ASSUME NEW n \in Node
          PROVE  /\ rcv[n].phase \in {"standby", "fenced"}
                 /\ rcv[n].tail.epoch <= rcv[n].observed
                 /\ DOMAIN rcv[n].tail.batches \subseteq 1..rcv[n].tail.max
      BY DEF RepInv, Types, Receivers, Receiving, TailOK
    <2>. QED
      BY <2>1, <2>2, <2>3 DEF TypeOK
  <1>. QED
    BY <1>1, ReplicationInvariant, PTL

\* What a standby has pruned from its tail (tail.rs, prune), or was told is durable,
\* is on shared storage, however old the watermark that told it.
THEOREM PrunedBatchesDurable == Spec => []PrunedIsDurable
  <1>1. RepInv => PrunedIsDurable
    BY DEF RepInv, Watermarks, DurableTo, PrunedIsDurable
  <1>. QED
    BY <1>1, ReplicationInvariant, PTL

\* No replay (replay.rs) repeats or undoes a write that its own leader made durable.
THEOREM ReplayNeverRegresses == Spec => []NoRegression
  <1>1. RepInv => NoRegression
    BY DEF RepInv, Ordered
  <1>. QED
    BY <1>1, ReplicationInvariant, PTL

-----------------------------------------------------------------------------
(* The lineage token: what the steps do, as far as HonestInv is concerned *)

(* t is the process s, with the same standing ...                           *)
Stands(t, s) ==
    /\ t.role = s.role /\ t.epoch = s.epoch /\ t.snap = s.snap /\ t.proof = s.proof
    /\ t.token = s.token /\ t.tainted = s.tainted /\ t.applied = s.applied
(* ... and with the same batch in its hands.                                *)
Works(t, s) == t.op = s.op /\ t.seq = s.seq /\ t.write = s.write /\ t.answer = s.answer

(* The database d becomes p, by a flush of s.                               *)
Flushes(s, d, p) ==
    /\ p.lineage = d.lineage /\ Ids(d.log) \subseteq Ids(p.log)
    /\ p.stamp.epoch = d.stamp.epoch \/ (p.stamp.epoch = s.epoch /\ s.role = "serving")

(* A step of n within its term that sends and applies nothing.              *)
Labors(n) ==
    /\ rcv' = rcv /\ owner' = owner /\ acked' = acked /\ ships' = ships /\ stranded' = stranded
    /\ \A q \in Node \ {n} : node'[q] = node[q]
    /\ Stands(node'[n], node[n]) /\ node'[n].lease = node[n].lease
    /\ \/ Works(node'[n], node[n])
       \/ /\ node[n].op = "none" /\ node'[n].op = "ready" /\ node'[n].answer = node[n].answer
          /\ node'[n].write = nextWrite
       \/ /\ node[n].op = "sent" /\ node[n].answer = "uncovered"
          /\ node'[n].op = "ready" /\ node'[n].answer = "none" /\ node'[n].write = node[n].write
    /\ node'[n].beat = node[n].beat \/ (node[n].role = "serving" /\ node'[n].beat.applied = node[n].applied)
    /\ Flushes(node[n], disk, disk') /\ disk'.taint = disk.taint
    /\ Ids(node[n].mem) \subseteq Ids(node'[n].mem) \cup Ids(disk'.log)

\* A flush, as FlushedTo describes it: the entries are on shared storage.
LEMMA FlushedIds ==
    ASSUME NEW d \in Disks, NEW s \in Seq(MemEntries)
    PROVE  /\ Ids(d.log) \subseteq Ids(Persisted(d, s).log) /\ Ids(s) \subseteq Ids(Persisted(d, s).log)
           /\ Persisted(d, s).lineage = d.lineage /\ Persisted(d, s).taint = d.taint
           /\ Persisted(d, s) \in Disks
           /\ \/ Persisted(d, s).stamp = d.stamp
              \/ \E l \in DOMAIN s : Own(s[l]) /\ Persisted(d, s).stamp = s[l].stamp
  <1>1. PICK p : p = Persisted(d, s)
    OBVIOUS
  <1>2. FlushedTo(d, s, p)
    BY <1>1, PersistedFacts
  <1>3. /\ DOMAIN d.log = 1..Len(d.log) /\ DOMAIN s = 1..Len(s) /\ Len(d.log) \in Nat /\ Len(s) \in Nat
    BY DEF Disks
  <1>4. Ids(d.log) \subseteq Ids(p.log)
    <2>1. \A i \in DOMAIN d.log : i \in DOMAIN p.log /\ p.log[i] = d.log[i]
      BY <1>2, <1>3 DEF FlushedTo
    <2>. QED
      BY <2>1 DEF Ids
  <1>5. Ids(s) \subseteq Ids(p.log)
    <2>1. \A i \in DOMAIN s : Len(d.log) + i \in DOMAIN p.log /\ p.log[Len(d.log) + i].id = s[i].id
      BY <1>2, <1>3 DEF FlushedTo
    <2>. QED
      BY <2>1 DEF Ids
  <1>. QED
    BY <1>1, <1>2, <1>4, <1>5 DEF FlushedTo

\* What n flushes of its memory carries stamps of its own term, if any.
LEMMA FlushesOwn ==
    ASSUME RepInv, NEW n \in Node, NEW s \in Seq(MemEntries),
           \A i \in DOMAIN s : \E j \in DOMAIN node[n].mem : s[i] = node[n].mem[j]
    PROVE  /\ Flushes(node[n], disk, Persisted(disk, s)) /\ Persisted(disk, s).taint = disk.taint
           /\ Ids(s) \subseteq Ids(Persisted(disk, s).log)
  <1>1. disk \in Disks /\ node[n] \in Processes
    BY DEF RepInv, Types
  <1>2. PICK p : p = Persisted(disk, s)
    OBVIOUS
  <1>3. /\ Ids(disk.log) \subseteq Ids(p.log) /\ Ids(s) \subseteq Ids(p.log)
        /\ p.lineage = disk.lineage /\ p.taint = disk.taint
        /\ p.stamp = disk.stamp \/ \E l \in DOMAIN s : Own(s[l]) /\ p.stamp = s[l].stamp
    BY <1>1, <1>2, FlushedIds
  <1>4. ASSUME NEW l \in DOMAIN s, Own(s[l]), p.stamp = s[l].stamp
        PROVE  p.stamp.epoch = node[n].epoch /\ node[n].role = "serving"
    <2>1. PICK j \in DOMAIN node[n].mem : s[l] = node[n].mem[j]
      OBVIOUS
    <2>2. ProcInv(node[n], disk, ships, nextWrite)
      BY DEF RepInv, Processing
    <2>3. node[n].role = "serving"
      BY <1>4, <2>1, <2>2 DEF ProcInv, Quiescent, Own
    <2>4. node[n].mem[j].stamp.epoch = node[n].epoch
      BY <1>4, <2>1, <2>2 DEF ProcInv, MemoryOK
    <2>. QED
      BY <1>4, <2>1, <2>3, <2>4
  <1>5. Flushes(node[n], disk, p)
    BY <1>3, <1>4 DEF Flushes
  <1>. QED
    BY <1>2, <1>3, <1>5

\* All of n's memory, and a part of it.
LEMMA FlushesPart ==
    ASSUME RepInv, NEW n \in Node, NEW k \in 0..Len(node[n].mem)
    PROVE  LET s == node[n].mem
               p == Persisted(disk, SubSeq(s, 1, k))
           IN  /\ Flushes(node[n], disk, p) /\ p.taint = disk.taint
               /\ Ids(s) \subseteq Ids(SubSeq(s, k + 1, Len(s))) \cup Ids(p.log)
  <1>1. PICK s \in Seq(MemEntries) : s = node[n].mem
    BY StateTypes DEF RepInv
  <1>2. PICK a, b : a = SubSeq(s, 1, k) /\ b = SubSeq(s, k + 1, Len(s))
    OBVIOUS
  <1>3. /\ a \in Seq(MemEntries) /\ b \in Seq(MemEntries) /\ DOMAIN a = 1..k /\ DOMAIN b = 1..(Len(s) - k)
        /\ \A i \in 1..k : a[i] = s[i]
        /\ \A i \in 1..(Len(s) - k) : b[i] = s[i + k]
        /\ DOMAIN s = 1..Len(s) /\ Len(s) \in Nat /\ k \in 0..Len(s)
    <2>1. a \in Seq(MemEntries) /\ Len(a) = k /\ b \in Seq(MemEntries) /\ Len(b) = Len(s) - k
      BY <1>1, <1>2, SplitFacts
    <2>2. DOMAIN a = 1..Len(a) /\ DOMAIN b = 1..Len(b)
      BY <2>1
    <2>. QED
      BY <1>1, <1>2, <2>1, <2>2, SplitFacts
  <1>4. \A i \in DOMAIN a : i \in DOMAIN s /\ a[i] = s[i]
    BY <1>3
  <1>5. PICK p : p = Persisted(disk, a)
    OBVIOUS
  <1>6. Flushes(node[n], disk, p) /\ p.taint = disk.taint /\ Ids(a) \subseteq Ids(p.log)
    BY <1>1, <1>3, <1>4, <1>5, FlushesOwn
  <1>7. ASSUME NEW i \in DOMAIN s PROVE s[i].id \in Ids(a) \cup Ids(b)
    <2>1. CASE i <= k
      BY <1>3, <2>1 DEF Ids
    <2>2. CASE i > k
      <3>1. i - k \in DOMAIN b /\ b[i - k] = s[i]
        BY <1>3, <2>2
      <3>. QED
        BY <3>1 DEF Ids
    <2>. QED
      BY <1>3, <2>1, <2>2
  <1>8. Ids(s) \subseteq Ids(b) \cup Ids(p.log)
    BY <1>6, <1>7 DEF Ids
  <1>. QED
    BY <1>1, <1>2, <1>5, <1>6, <1>8

\* Setting a process leaves the others alone.
LEMMA SetFacts ==
    ASSUME Types, NEW n \in Node, NEW t, Set(n, t)
    PROVE  node'[n] = t /\ \A q \in Node \ {n} : node'[q] = node[q]
  BY DEF Types, Set

\* A step that leaves the disk and the memory alone.
LEMMA LaborsIf ==
    ASSUME Types, NEW n \in Node, NEW t, Set(n, t),
           disk' = disk, rcv' = rcv, owner' = owner, acked' = acked, ships' = ships, stranded' = stranded,
           Stands(t, node[n]), t.lease = node[n].lease, t.mem = node[n].mem,
           \/ Works(t, node[n])
           \/ node[n].op = "none" /\ t.op = "ready" /\ t.answer = node[n].answer /\ t.write = nextWrite
           \/ /\ node[n].op = "sent" /\ node[n].answer = "uncovered"
              /\ t.op = "ready" /\ t.answer = "none" /\ t.write = node[n].write,
           t.beat = node[n].beat \/ (node[n].role = "serving" /\ t.beat.applied = node[n].applied)
    PROVE  Labors(n)
  <1>1. node'[n] = t /\ \A q \in Node \ {n} : node'[q] = node[q]
    BY SetFacts
  <1>2. Flushes(node[n], disk, disk') /\ disk'.taint = disk.taint
    BY DEF Flushes
  <1>3. Ids(node[n].mem) \subseteq Ids(t.mem)
    OBVIOUS
  <1>. QED
    BY <1>1, <1>2, <1>3 DEF Labors

\* The worker's small steps, flushes included.
LEMMA LaborSteps ==
    ASSUME RepInv, NEW n \in Node,
           \/ Persist(n) \/ BaseFlush(n) \/ ObserveDurable(n) \/ StartWrite(n)
           \/ ShipUncovered(n) \/ Reconnect(n) \/ SendBeat(n)
    PROVE  Labors(n)
  <1>. DEFINE s == node[n]
  <1>0. Types /\ s \in Processes /\ s.mem \in Seq(MemEntries)
    BY StateTypes DEF RepInv, Types
  <1>1. CASE Persist(n)
    <2>1. PICK k \in 1..Len(s.mem) : /\ disk' = Persisted(disk, SubSeq(s.mem, 1, k))
                                     /\ Set(n, [s EXCEPT !.mem = SubSeq(s.mem, k + 1, Len(s.mem))])
      BY <1>1 DEF Persist
    <2>2. k \in 0..Len(s.mem)
      BY <1>0
    <2>3. PICK r : r = SubSeq(s.mem, k + 1, Len(s.mem))
      OBVIOUS
    <2>4. PICK t : t = [s EXCEPT !.mem = r]
      OBVIOUS
    <2>5. Stands(t, s) /\ Works(t, s) /\ t.lease = s.lease /\ t.beat = s.beat /\ t.mem = r
      BY <1>0, <2>4 DEF Processes, Stands, Works
    <2>6. node'[n] = t /\ \A q \in Node \ {n} : node'[q] = node[q]
      BY <1>0, <2>1, <2>3, <2>4, SetFacts
    <2>7. PICK p : p = Persisted(disk, SubSeq(s.mem, 1, k))
      OBVIOUS
    <2>8. Flushes(s, disk, p) /\ p.taint = disk.taint /\ Ids(s.mem) \subseteq Ids(r) \cup Ids(p.log)
      BY <2>2, <2>3, <2>7, FlushesPart
    <2>. QED
      BY <1>1, <2>1, <2>5, <2>6, <2>7, <2>8 DEF Labors, Persist
  <1>2. CASE BaseFlush(n)
    <2>4. PICK t : t = [s EXCEPT !.mem = <<>>, !.wm = s.applied, !.dirty = FALSE, !.repair = FALSE]
      OBVIOUS
    <2>5. Stands(t, s) /\ Works(t, s) /\ t.lease = s.lease /\ t.beat = s.beat
      BY <1>0, <2>4 DEF Processes, Stands, Works
    <2>6. node'[n] = t /\ \A q \in Node \ {n} : node'[q] = node[q]
      BY <1>0, <1>2, <2>4, SetFacts DEF BaseFlush, BaseFlushed
    <2>7. PICK p : p = Persisted(disk, s.mem)
      OBVIOUS
    <2>8. Flushes(s, disk, p) /\ p.taint = disk.taint /\ Ids(s.mem) \subseteq Ids(p.log)
      BY <1>0, <2>7, FlushesOwn
    <2>9. disk' = p
      BY <1>2, <2>7 DEF BaseFlush
    <2>. QED
      BY <1>2, <2>5, <2>6, <2>8, <2>9 DEF Labors, BaseFlush
  <1>3. CASE ObserveDurable(n)
    <2>1. PICK k : k = DurableShips(s)
      OBVIOUS
    <2>2. PICK t : t = [s EXCEPT !.wm = k]
      OBVIOUS
    <2>3. Stands(t, s) /\ Works(t, s) /\ t.lease = s.lease /\ t.beat = s.beat /\ t.mem = s.mem
      BY <1>0, <2>2 DEF Processes, Stands, Works
    <2>. QED
      BY <1>0, <1>3, <2>1, <2>2, <2>3, LaborsIf DEF ObserveDurable
  <1>4. CASE StartWrite(n)
    <2>2. PICK t : t = [s EXCEPT !.op = "ready", !.write = nextWrite]
      OBVIOUS
    <2>3. /\ Stands(t, s) /\ t.op = "ready" /\ t.answer = s.answer /\ t.write = nextWrite
          /\ t.lease = s.lease /\ t.beat = s.beat /\ t.mem = s.mem
      BY <1>0, <2>2 DEF Processes, Stands
    <2>. QED
      BY <1>0, <1>4, <2>2, <2>3, LaborsIf DEF StartWrite
  <1>5. CASE ShipUncovered(n)
    <2>1. PICK k : k = s.seq - 1
      OBVIOUS
    <2>2. PICK t : t = [s EXCEPT !.op = "ready", !.answer = "none", !.seq = k, !.dirty = TRUE]
      OBVIOUS
    <2>3. /\ Stands(t, s) /\ t.op = "ready" /\ t.answer = "none" /\ t.write = s.write
          /\ t.lease = s.lease /\ t.beat = s.beat /\ t.mem = s.mem
      BY <1>0, <2>2 DEF Processes, Stands
    <2>4. Set(n, t)
      BY <1>5, <2>1, <2>2 DEF ShipUncovered
    <2>. QED
      BY <1>0, <1>5, <2>3, <2>4, LaborsIf DEF ShipUncovered
  <1>6. CASE Reconnect(n)
    <2>2. PICK t : t = [s EXCEPT !.conn = TRUE]
      OBVIOUS
    <2>3. Stands(t, s) /\ Works(t, s) /\ t.lease = s.lease /\ t.beat = s.beat /\ t.mem = s.mem
      BY <1>0, <2>2 DEF Processes, Stands, Works
    <2>. QED
      BY <1>0, <1>6, <2>2, <2>3, LaborsIf DEF Reconnect
  <1>7. CASE SendBeat(n)
    <2>1. PICK b : b = [sent |-> TRUE, applied |-> s.applied, durable |-> s.wm]
      OBVIOUS
    <2>2. PICK t : t = [s EXCEPT !.beat = b]
      OBVIOUS
    <2>3. /\ Stands(t, s) /\ Works(t, s) /\ t.lease = s.lease /\ t.mem = s.mem
          /\ t.beat.applied = s.applied
      BY <1>0, <2>1, <2>2 DEF Processes, Stands, Works
    <2>. QED
      BY <1>0, <1>7, <2>1, <2>2, <2>3, LaborsIf DEF SendBeat
  <1>. QED
    BY <1>1, <1>2, <1>3, <1>4, <1>5, <1>6, <1>7

(* A ship request leaves n.                                                 *)
Sends(n) ==
    /\ disk' = disk /\ rcv' = rcv /\ owner' = owner /\ acked' = acked /\ stranded' = stranded
    /\ \A q \in Node \ {n} : node'[q] = node[q]
    /\ Stands(node'[n], node[n]) /\ node'[n].lease = node[n].lease
    /\ node'[n].beat = node[n].beat /\ node'[n].mem = node[n].mem
    /\ node[n].op = "ready" /\ node'[n].op = "sent" /\ node'[n].seq = node[n].seq + 1
    /\ node'[n].write = node[n].write /\ node'[n].answer = node[n].answer
    /\ \E m : /\ ships' = ships \cup {m} /\ m.epoch = node[n].epoch /\ m.seq = node[n].seq
              /\ m.id = node[n].write /\ m.from = n /\ m.flying

\* SendShip is such a step.
LEMMA SendSteps ==
    ASSUME RepInv, NEW n \in Node, SendShip(n)
    PROVE  Sends(n)
  <1>. DEFINE s == node[n]
  <1>0. Types /\ s \in Processes
    BY StateTypes DEF RepInv, Types
  <1>1. PICK k : k = s.seq + 1
    OBVIOUS
  <1>2. PICK t : t = [s EXCEPT !.op = "sent", !.seq = k]
    OBVIOUS
  <1>3. /\ Stands(t, s) /\ t.lease = s.lease /\ t.beat = s.beat /\ t.mem = s.mem /\ t.op = "sent"
        /\ t.seq = k /\ t.write = s.write /\ t.answer = s.answer
    BY <1>0, <1>2 DEF Processes, Stands
  <1>4. node'[n] = t /\ \A q \in Node \ {n} : node'[q] = node[q]
    BY <1>0, <1>1, <1>2, SetFacts DEF SendShip
  <1>5. PICK m : m = [epoch |-> s.epoch, seq |-> s.seq, id |-> s.write, wm |-> s.wm, from |-> n, flying |-> TRUE]
    OBVIOUS
  <1>6. /\ ships' = ships \cup {m} /\ m.epoch = s.epoch /\ m.seq = s.seq /\ m.id = s.write
        /\ m.from = n /\ m.flying
    BY <1>5 DEF SendShip
  <1>. QED
    BY <1>1, <1>3, <1>4, <1>6 DEF Sends, SendShip

(* n applies the batch in its hands and acknowledges it.                    *)
Applies(n) ==
    /\ rcv' = rcv /\ owner' = owner /\ ships' = ships /\ stranded' = stranded
    /\ acked' = acked \cup {[id |-> node[n].write, token |-> node[n].token]}
    /\ \A q \in Node \ {n} : node'[q] = node[q]
    /\ node[n].lease /\ node'[n].lease /\ node'[n].role = node[n].role /\ node'[n].epoch = node[n].epoch
    /\ node'[n].snap = node[n].snap /\ node'[n].proof = node[n].proof /\ node'[n].token = node[n].token
    /\ node'[n].op = "none" /\ node'[n].answer = "none" /\ node'[n].beat = node[n].beat
    /\ node[n].applied <= node'[n].applied
    /\ Flushes(node[n], disk, disk')
    /\ Ids(node[n].mem) \cup {node[n].write} \subseteq Ids(node'[n].mem) \cup Ids(disk'.log)

(* The standby has it too ...                                               *)
Accepted(n) ==
    /\ Applies(n) /\ disk' = disk /\ node'[n].tainted = node[n].tainted
    /\ node[n].op = "sent" /\ node[n].answer = "accepted" /\ node'[n].applied = node[n].seq - 1
(* ... or the lineage is tainted.                                           *)
Solo(n) ==
    /\ Applies(n) /\ node'[n].tainted
    /\ disk'.taint = node[n].token \/ (node[n].tainted /\ disk' = disk)

(* t is s with the batch in its hands applied.                              *)
AppliedAs(t, s, st) ==
    /\ t.role = s.role /\ t.epoch = s.epoch /\ t.snap = s.snap /\ t.proof = s.proof /\ t.token = s.token
    /\ t.lease = s.lease /\ t.tainted = s.tainted /\ t.op = "none" /\ t.answer = "none" /\ t.beat = s.beat
    /\ t.applied = st.applied /\ Ids(s.mem) \cup {s.write} \subseteq Ids(t.mem)

\* What Applied makes of the fields that HonestInv looks at.
LEMMA AppliesFacts ==
    ASSUME NEW s \in Processes, NEW st, NEW ship,
           NEW t, t = Applied(s, st, ship) \/ t = [Applied(s, st, ship) EXCEPT !.conn = FALSE, !.dirty = TRUE]
    PROVE  AppliedAs(t, s, st)
  <1>1. PICK m : m = Append(s.mem, Entry(s.write, st, ship))
    OBVIOUS
  <1>2. Ids(s.mem) \cup {s.write} \subseteq Ids(m)
    <2>1. s.mem \in Seq(MemEntries)
      BY DEF Processes
    <2>2. PICK e : e = Entry(s.write, st, ship)
      OBVIOUS
    <2>6. e.id = s.write
      BY <2>2 DEF Entry
    <2>3. /\ DOMAIN m = 1..(Len(s.mem) + 1) /\ m[Len(s.mem) + 1] = e
          /\ \A i \in 1..Len(s.mem) : m[i] = s.mem[i]
          /\ Len(s.mem) \in Nat /\ DOMAIN s.mem = 1..Len(s.mem)
      BY <1>1, <2>1, <2>2
    <2>4. \A i \in DOMAIN s.mem : i \in DOMAIN m /\ m[i] = s.mem[i]
      BY <2>3
    <2>5. Len(s.mem) + 1 \in DOMAIN m
      BY <2>3
    <2>. QED
      BY <2>3, <2>4, <2>5, <2>6 DEF Ids
  <1>3. PICK a : a = [s EXCEPT !.op = "none", !.write = 0, !.answer = "none"]
    OBVIOUS
  <1>4. PICK x, y, z : x = st.shipped /\ y = st.solo /\ z = st.applied
    OBVIOUS
  <1>5. PICK b : b = [a EXCEPT !.mem = m, !.shipped = x, !.solo = y, !.applied = z]
    OBVIOUS
  <1>6. a.mem = s.mem
    BY <1>3 DEF Processes
  <1>7. Applied(s, st, ship) = b
    BY <1>1, <1>3, <1>4, <1>5, <1>6 DEF Applied, Done
  <1>8. /\ b.role = s.role /\ b.epoch = s.epoch /\ b.snap = s.snap /\ b.proof = s.proof /\ b.token = s.token
        /\ b.lease = s.lease /\ b.tainted = s.tainted /\ b.op = "none" /\ b.answer = "none" /\ b.beat = s.beat
        /\ b.applied = z /\ b.mem = m
    BY <1>3, <1>5 DEF Processes
  <1>9. /\ t.role = b.role /\ t.epoch = b.epoch /\ t.snap = b.snap /\ t.proof = b.proof /\ t.token = b.token
        /\ t.lease = b.lease /\ t.tainted = b.tainted /\ t.op = b.op /\ t.answer = b.answer /\ t.beat = b.beat
        /\ t.applied = b.applied /\ t.mem = b.mem
    <2>1. CASE t = b
      BY <2>1
    <2>2. CASE t = [b EXCEPT !.conn = FALSE, !.dirty = TRUE]
      BY <1>3, <1>5, <2>2 DEF Processes
    <2>. QED
      BY <1>7, <2>1, <2>2
  <1>. QED
    BY <1>2, <1>4, <1>8, <1>9 DEF AppliedAs

\* A ship was accepted.
LEMMA AcceptedSteps ==
    ASSUME RepInv, NEW n \in Node, ShipAccepted(n)
    PROVE  Accepted(n)
  <1>. DEFINE s == node[n]
  <1>0. Types /\ s \in Processes /\ s.applied \in Nat /\ s.seq \in Nat
    BY StateTypes DEF RepInv, Types, Processes
  <1>1. s.seq = s.applied + 2
    BY DEF RepInv, Processing, ProcInv, Frontier, ShipAccepted
  <1>2. PICK st : st = ShippedStamp(s, s.seq - 1)
    OBVIOUS
  <1>3. st.applied = s.seq - 1
    BY <1>0, <1>1, <1>2 DEF ShippedStamp, Larger
  <1>4. PICK t : t = Applied(s, st, s.seq - 1)
    OBVIOUS
  <1>5. AppliedAs(t, s, st)
    BY <1>0, <1>4, AppliesFacts
  <1>6. node'[n] = t /\ \A q \in Node \ {n} : node'[q] = node[q]
    BY <1>0, <1>2, <1>4, SetFacts DEF ShipAccepted
  <1>7. disk' = disk /\ Flushes(s, disk, disk') /\ s.lease
    BY DEF Flushes, ShipAccepted
  <1>8. s.applied <= t.applied
    BY <1>0, <1>1, <1>3, <1>5 DEF AppliedAs
  <1>9. Applies(n)
    BY <1>5, <1>6, <1>7, <1>8 DEF AppliedAs, Applies, ShipAccepted
  <1>. QED
    BY <1>3, <1>5, <1>6, <1>7, <1>9 DEF AppliedAs, Accepted, ShipAccepted

\* A batch is applied that only n surely has.
LEMMA SoloSteps ==
    ASSUME RepInv, NEW n \in Node, WriteSolo(n) \/ ShipAmbiguous(n)
    PROVE  Solo(n)
  <1>. DEFINE s == node[n]
  <1>0. Types /\ s \in Processes /\ s.applied \in Nat /\ s.seq \in Nat /\ s.mem \in Seq(MemEntries)
    BY StateTypes DEF RepInv, Types, Processes
  <1>1. PICK ship \in Int : ApplySolo(n, ship)
    <2>1. 0 \in Int /\ s.seq - 1 \in Int
      BY <1>0
    <2>. QED
      BY <2>1 DEF WriteSolo, ShipAmbiguous
  <1>2. PICK st : st = SoloStamp(s, ship)
    OBVIOUS
  <1>3. s.applied <= st.applied
    BY <1>0, <1>1, <1>2 DEF SoloStamp, Larger
  <1>4. /\ s.lease /\ rcv' = rcv /\ owner' = owner /\ ships' = ships /\ stranded' = stranded
        /\ acked' = acked \cup {[id |-> s.write, token |-> s.token]}
    BY <1>1 DEF ApplySolo
  <1>5. CASE /\ s.tainted /\ disk' = disk
             /\ Set(n, [Applied(s, st, ship) EXCEPT !.conn = FALSE, !.dirty = TRUE])
    <2>1. PICK t : t = [Applied(s, st, ship) EXCEPT !.conn = FALSE, !.dirty = TRUE]
      OBVIOUS
    <2>2. AppliedAs(t, s, st)
      BY <1>0, <2>1, AppliesFacts
    <2>3. node'[n] = t /\ \A q \in Node \ {n} : node'[q] = node[q]
      BY <1>0, <1>5, <2>1, SetFacts
    <2>4. Flushes(s, disk, disk')
      BY <1>5 DEF Flushes
    <2>. QED
      BY <1>3, <1>4, <1>5, <2>2, <2>3, <2>4 DEF AppliedAs, Solo, Applies
  <1>6. CASE /\ disk' = [Persisted(disk, s.mem) EXCEPT !.taint = s.token]
             /\ Set(n, [Applied([s EXCEPT !.mem = <<>>, !.tainted = TRUE], st, ship)
                           EXCEPT !.conn = FALSE, !.dirty = TRUE])
    <2>0. PICK a : a = [s EXCEPT !.mem = <<>>, !.tainted = TRUE]
      OBVIOUS
    <2>1. PICK t : t = [Applied(a, st, ship) EXCEPT !.conn = FALSE, !.dirty = TRUE]
      OBVIOUS
    <2>2. /\ a \in Processes /\ a.role = s.role /\ a.epoch = s.epoch /\ a.snap = s.snap /\ a.proof = s.proof
          /\ a.token = s.token /\ a.lease = s.lease /\ a.tainted /\ a.beat = s.beat /\ a.write = s.write
      <3>1. <<>> \in Seq(MemEntries)
        OBVIOUS
      <3>. QED
        BY <1>0, <2>0, <3>1 DEF Processes
    <2>3. AppliedAs(t, a, st)
      BY <2>1, <2>2, AppliesFacts
    <2>4. node'[n] = t /\ \A q \in Node \ {n} : node'[q] = node[q]
      BY <1>0, <1>6, <2>0, <2>1, SetFacts
    <2>5. PICK p : p = Persisted(disk, s.mem)
      OBVIOUS
    <2>6. Flushes(s, disk, p) /\ Ids(s.mem) \subseteq Ids(p.log) /\ p \in Disks
      <3>1. disk \in Disks
        BY <1>0 DEF Types
      <3>. QED
        BY <1>0, <2>5, <3>1, FlushesOwn, FlushedIds
    <2>7. disk'.taint = s.token /\ disk'.log = p.log /\ disk'.stamp = p.stamp /\ disk'.lineage = p.lineage
      BY <1>6, <2>5, <2>6 DEF Disks
    <2>8. Flushes(s, disk, disk') /\ Ids(s.mem) \subseteq Ids(disk'.log)
      BY <2>6, <2>7 DEF Flushes
    <2>. QED
      BY <1>3, <1>4, <2>2, <2>3, <2>4, <2>7, <2>8 DEF AppliedAs, Solo, Applies
  <1>. QED
    BY <1>1, <1>2, <1>5, <1>6 DEF ApplySolo

(* A process without a history.                                             *)
Blank(t) ==
    /\ ~t.lease /\ ~t.proof /\ ~t.tainted /\ t.op = "none" /\ t.answer = "none" /\ ~t.beat.sent
    /\ t.mem = <<>> /\ t.applied = 0

(* The requests are the same, but some are no longer in flight.             *)
Landing ==
    /\ \A m \in ships' : /\ m.flying => m \in ships
                         /\ \E x \in ships : m.epoch = x.epoch /\ m.seq = x.seq /\ m.id = x.id /\ m.from = x.from
    /\ \A x \in ships : \E m \in ships' : m.epoch = x.epoch /\ m.seq = x.seq /\ m.id = x.id

(* The process on n ends.                                                   *)
Ends(n) ==
    /\ disk' = disk /\ owner' = owner /\ acked' = acked /\ stranded \subseteq stranded'
    /\ stranded' = stranded \/ stranded' = stranded \cup Exposed(n)
    /\ \A q \in Node \ {n} : node'[q] = node[q] /\ rcv'[q] = rcv[q]
    /\ Blank(node'[n]) /\ node'[n].epoch = 0 /\ node'[n].role = "down"
    /\ rcv'[n] = NewReceiver
    /\ Landing /\ \A m \in ships' : m.flying => m.from = n \/ Waiting(m)

\* Fresh, in any role and term, is blank.
LEMMA BlankFacts ==
    ASSUME NEW role, NEW e
    PROVE  /\ Blank([Fresh EXCEPT !.role = role]) /\ [Fresh EXCEPT !.role = role].role = role
           /\ [Fresh EXCEPT !.role = role].epoch = 0
           /\ Blank(Fresh) /\ Fresh.role = "standby" /\ Fresh.epoch = 0
           /\ Blank([Fresh EXCEPT !.role = role, !.epoch = e])
           /\ [Fresh EXCEPT !.role = role, !.epoch = e].role = role
           /\ [Fresh EXCEPT !.role = role, !.epoch = e].epoch = e
  <1>1. ~NoBeat.sent
    BY DEF NoBeat
  <1>. QED
    BY <1>1 DEF Blank, Fresh

\* A process dies.
LEMMA EndSteps ==
    ASSUME RepInv, NEW n \in Node, Dies(n), disk' = disk, owner' = owner, acked' = acked,
           stranded' = stranded \/ stranded' = stranded \cup Exposed(n)
    PROVE  Ends(n)
  <1>0. Types /\ ships \subseteq Messages
    BY DEF RepInv, Types
  <1>1. node'[n] = Dead /\ \A q \in Node \ {n} : node'[q] = node[q]
    <2>1. Set(n, Dead)
      BY DEF Dies
    <2>. QED
      BY <1>0, <2>1, SetFacts
  <1>2. rcv'[n] = NewReceiver /\ \A q \in Node \ {n} : rcv'[q] = rcv[q]
    BY <1>0 DEF Dies, SetReceiver, Types
  <1>3. Blank(Dead) /\ Dead.epoch = 0 /\ Dead.role = "down"
    <2>1. PICK role : role = "down"
      OBVIOUS
    <2>. QED
      BY <2>1, BlankFacts DEF Dead
  <1>4. ships' = {[m EXCEPT !.flying = m.flying /\ (m.from = n \/ Waiting(m))] : m \in ships}
    BY DEF Dies
  <1>5. ASSUME NEW x \in ships, NEW m, m = [x EXCEPT !.flying = x.flying /\ (x.from = n \/ Waiting(x))]
        PROVE  /\ m.epoch = x.epoch /\ m.seq = x.seq /\ m.id = x.id /\ m.from = x.from
               /\ m.flying => m = x /\ (x.from = n \/ Waiting(x))
    <2>1. PICK b \in BOOLEAN : b = (x.flying /\ (x.from = n \/ Waiting(x)))
      OBVIOUS
    <2>2. m = [x EXCEPT !.flying = b] /\ x \in Messages
      BY <1>0, <1>5, <2>1
    <2>3. /\ m.epoch = x.epoch /\ m.seq = x.seq /\ m.id = x.id /\ m.from = x.from /\ m.flying = b
          /\ x.flying = b => m = x
      BY <2>2 DEF Messages
    <2>4. x.flying \in BOOLEAN
      BY <2>2 DEF Messages
    <2>5. m.flying => x.flying = b
      BY <2>1, <2>3, <2>4
    <2>. QED
      BY <2>1, <2>3, <2>5
  <1>6. ASSUME NEW m \in ships'
        PROVE  /\ m.flying => m \in ships /\ (m.from = n \/ Waiting(m))
               /\ \E x \in ships : m.epoch = x.epoch /\ m.seq = x.seq /\ m.id = x.id /\ m.from = x.from
    <2>1. PICK x \in ships : m = [x EXCEPT !.flying = x.flying /\ (x.from = n \/ Waiting(x))]
      BY <1>4, <1>6
    <2>2. /\ m.epoch = x.epoch /\ m.seq = x.seq /\ m.id = x.id /\ m.from = x.from
          /\ m.flying => m = x /\ (x.from = n \/ Waiting(x))
      BY <1>5, <2>1
    <2>. QED
      BY <2>2
  <1>7. ASSUME NEW x \in ships PROVE \E m \in ships' : m.epoch = x.epoch /\ m.seq = x.seq /\ m.id = x.id
    <2>1. PICK m : m = [x EXCEPT !.flying = x.flying /\ (x.from = n \/ Waiting(x))]
      OBVIOUS
    <2>2. m \in ships'
      BY <1>4, <2>1
    <2>. QED
      BY <1>5, <2>1, <2>2
  <1>. QED
    BY <1>1, <1>2, <1>3, <1>6, <1>7 DEF Ends, Landing

(* A process starts over, its receiver with it or back from a promotion.    *)
Renews(n) ==
    /\ disk' = disk /\ acked' = acked /\ ships' = ships /\ stranded' = stranded
    /\ owner' = owner \/ owner' = n
    /\ \A q \in Node \ {n} : node'[q] = node[q] /\ rcv'[q] = rcv[q]
    /\ Blank(node'[n]) /\ node'[n].epoch = 0 /\ node'[n].role \in {"standby", "quiesced"}
    /\ \/ rcv'[n] = rcv[n] /\ node[n].role \notin Promoted
       \/ /\ node[n].role \in Promoted \ {"serving"} /\ rcv'[n].phase = "standby" /\ rcv'[n].tail = rcv[n].tail
          /\ rcv[n].observed <= rcv'[n].observed /\ node[n].epoch < rcv'[n].observed

\* The steps of role election, and those that go back to it.
LEMMA RenewSteps ==
    ASSUME RepInv, NEW n \in Node,
           \/ Restart(n) \/ Claim(n) \/ LoseClaim(n) \/ ReplayFenced(n)
           \/ BeginPromotion(n) /\ rcv[n].observed > node[n].epoch
           \/ CompletePromotion(n) /\ rcv[n].observed > node[n].epoch
    PROVE  Renews(n)
  <1>0. /\ Types /\ node[n].epoch \in Nat /\ rcv[n].observed \in Nat /\ rcv[n] \in Receivers
        /\ node[n].snap \in Nat /\ rcv \in [Node -> Receivers]
    BY StateTypes DEF RepInv, Types, Processes
  <1>1. PICK t : t = [Fresh EXCEPT !.role = "quiesced"]
    OBVIOUS
  <1>2. Blank(t) /\ t.epoch = 0 /\ t.role = "quiesced" /\ Blank(Fresh) /\ Fresh.epoch = 0 /\ Fresh.role = "standby"
    <2>1. PICK role : role = "quiesced"
      OBVIOUS
    <2>. QED
      BY <1>1, <2>1, BlankFacts
  <1>3. ASSUME NEW x \in {t, Fresh}, Set(n, x), rcv' = rcv, node[n].role \notin Promoted,
               disk' = disk, acked' = acked, ships' = ships, stranded' = stranded,
               owner' = owner \/ owner' = n
        PROVE  Renews(n)
    <2>1. node'[n] = x /\ \A q \in Node \ {n} : node'[q] = node[q]
      BY <1>0, <1>3, SetFacts
    <2>. QED
      BY <1>2, <1>3, <2>1 DEF Renews
  <1>4. ASSUME NEW k \in Nat, Returned(n, k), rcv[n].observed <= k, node[n].epoch < k,
               node[n].role \in Promoted \ {"serving"},
               disk' = disk, acked' = acked, ships' = ships, stranded' = stranded, owner' = owner
        PROVE  Renews(n)
    <2>1. Set(n, t) /\ SetReceiver(n, [rcv[n] EXCEPT !.phase = "standby", !.observed = k])
      BY <1>1, <1>4 DEF Returned
    <2>2. node'[n] = t /\ \A q \in Node \ {n} : node'[q] = node[q]
      BY <1>0, <2>1, SetFacts
    <2>3. /\ rcv'[n] = [rcv[n] EXCEPT !.phase = "standby", !.observed = k]
          /\ \A q \in Node \ {n} : rcv'[q] = rcv[q]
      BY <1>0, <2>1 DEF SetReceiver
    <2>4. rcv'[n].phase = "standby" /\ rcv'[n].tail = rcv[n].tail /\ rcv'[n].observed = k
      BY <1>0, <2>3 DEF Receivers
    <2>. QED
      BY <1>2, <1>4, <2>2, <2>3, <2>4 DEF Renews
  <1>5. CASE Restart(n) \/ Claim(n) \/ LoseClaim(n)
    <2>1. node[n].role \notin Promoted
      BY <1>5 DEF Restart, Claim, LoseClaim, Promoted
    <2>. QED
      BY <1>1, <1>3, <1>5, <2>1 DEF Restart, Claim, LoseClaim
  <1>6. CASE BeginPromotion(n) /\ rcv[n].observed > node[n].epoch
    <2>1. node[n].role \notin Promoted
      BY <1>6 DEF BeginPromotion, Promoted
    <2>2. ~(rcv[n].observed <= node[n].epoch)
      BY <1>0, <1>6
    <2>. QED
      BY <1>1, <1>3, <1>6, <2>1, <2>2 DEF BeginPromotion
  <1>7. CASE ReplayFenced(n)
    <2>0. PICK a, b, c \in Nat : a = node[n].epoch + 1 /\ b = node[n].snap /\ c = rcv[n].observed
      BY <1>0
    <2>1. PICK k : k = Max({a, b, c})
      OBVIOUS
    <2>2. k \in {a, b, c} /\ \A x \in {a, b, c} : x <= k
      <3>1. {a, b, c} \subseteq Nat /\ {a, b, c} # {} /\ \A x \in {a, b, c} : x <= a + b + c
        OBVIOUS
      <3>2. a + b + c \in Nat
        OBVIOUS
      <3>3. PICK S : S = {a, b, c}
        OBVIOUS
      <3>4. S \subseteq Nat /\ S # {} /\ \A x \in S : x <= a + b + c
        BY <3>1, <3>3
      <3>5. Max(S) \in S /\ \A x \in S : x <= Max(S)
        BY <3>2, <3>4, GreatestElement
      <3>. QED
        BY <2>1, <3>3, <3>5
    <2>3. k \in Nat /\ rcv[n].observed <= k /\ node[n].epoch < k
      BY <1>0, <2>0, <2>2
    <2>4. Returned(n, k)
      BY <1>7, <2>0, <2>1 DEF ReplayFenced
    <2>5. node[n].role \in Promoted \ {"serving"}
      BY <1>7 DEF ReplayFenced, Promoted
    <2>. QED
      BY <1>4, <1>7, <2>3, <2>4, <2>5 DEF ReplayFenced
  <1>8. CASE CompletePromotion(n) /\ rcv[n].observed > node[n].epoch
    <2>1. PICK k : k = Larger(rcv[n].observed, node[n].snap)
      OBVIOUS
    <2>3. k \in Nat /\ rcv[n].observed <= k /\ node[n].epoch < k
      BY <1>0, <1>8, <2>1 DEF Larger
    <2>4. Returned(n, k)
      BY <1>0, <1>8, <2>1 DEF CompletePromotion
    <2>5. node[n].role \in Promoted \ {"serving"}
      BY <1>8 DEF CompletePromotion, Promoted
    <2>. QED
      BY <1>4, <1>8, <2>3, <2>4, <2>5 DEF CompletePromotion
  <1>. QED
    BY <1>5, <1>6, <1>7, <1>8

(* n opens the database in the next term: nobody has a lease.               *)
Opens(n) ==
    /\ disk' = disk /\ owner' = owner /\ rcv' = rcv /\ ships' = ships /\ acked' = acked
    /\ stranded' = stranded /\ owner = n /\ node[n].role = "quiesced"
    /\ \A q \in Node \ {n} : /\ Stands(node'[q], node[q]) /\ Works(node'[q], node[q]) /\ ~node'[q].lease
                             /\ node'[q].beat = node[q].beat /\ node'[q].mem = node[q].mem
    /\ Blank(node'[n]) /\ node'[n].epoch = dbEpoch + 1 /\ node'[n].role = "opened"

\* OpenDb is such a step.
LEMMA OpenSteps ==
    ASSUME RepInv, NEW n \in Node, OpenDb(n)
    PROVE  Opens(n)
  <1>0. node \in [Node -> Processes]
    BY DEF RepInv, Types
  <1>1. node'[n] = [Fresh EXCEPT !.role = "opened", !.epoch = dbEpoch + 1]
    BY DEF OpenDb
  <1>2. Blank(node'[n]) /\ node'[n].epoch = dbEpoch + 1 /\ node'[n].role = "opened"
    <2>1. PICK role, e : role = "opened" /\ e = dbEpoch + 1
      OBVIOUS
    <2>2. PICK t : t = [Fresh EXCEPT !.role = role, !.epoch = e]
      OBVIOUS
    <2>3. Blank(t) /\ t.epoch = e /\ t.role = role
      BY <2>2, BlankFacts
    <2>4. node'[n] = t
      BY <1>1, <2>1, <2>2
    <2>. QED
      BY <2>1, <2>3, <2>4
  <1>3. ASSUME NEW q \in Node \ {n}
        PROVE  /\ Stands(node'[q], node[q]) /\ Works(node'[q], node[q]) /\ ~node'[q].lease
               /\ node'[q].beat = node[q].beat /\ node'[q].mem = node[q].mem
    <2>1. node'[q] = [node[q] EXCEPT !.lease = FALSE] /\ node[q] \in Processes
      BY <1>0 DEF OpenDb
    <2>. QED
      BY <2>1 DEF Processes, Stands, Works
  <1>. QED
    BY <1>2, <1>3 DEF Opens, OpenDb

(* A step of a promotion.                                                   *)
Rises(n) ==
    /\ owner' = owner /\ ships' = ships /\ acked' = acked /\ stranded' = stranded
    /\ \A q \in Node \ {n} : node'[q] = node[q] /\ rcv'[q] = rcv[q]
    /\ node'[n].epoch = node[n].epoch /\ node'[n].token = node[n].token /\ node'[n].tainted = node[n].tainted
    /\ node'[n].applied = node[n].applied /\ node'[n].lease = node[n].lease
    /\ node'[n].beat = node[n].beat /\ Works(node'[n], node[n])
    /\ node[n].role \in {"opened", "promoting", "replaying", "replayed"}
    /\ node'[n].role \in {"promoting", "replaying", "replayed", "promoted"}
    /\ Flushes(node[n], disk, disk') /\ disk'.taint = disk.taint
Begins(n) ==
    /\ Rises(n) /\ owner = n /\ node[n].role = "opened" /\ node'[n].role = "promoting"
    /\ node'[n].snap = rcv[n].observed /\ node'[n].proof = node[n].proof
    /\ rcv[n].observed <= node[n].epoch /\ rcv'[n].phase = "fenced" /\ rcv'[n].observed = node[n].epoch
    /\ rcv'[n].tail = rcv[n].tail
Reconciles(n) ==
    LET t == ReconciledTail(rcv[n].tail, disk.stamp)
    IN  /\ Rises(n) /\ disk' = disk /\ node[n].role = "promoting" /\ node'[n].role = "replaying"
        /\ node'[n].mem = Replay(t) /\ node'[n].proof = PreservesLineage(t, node[n].snap)
        /\ rcv'[n].phase = rcv[n].phase /\ rcv'[n].observed = rcv[n].observed /\ rcv'[n].tail = t
Finishes(n) ==
    /\ Rises(n) /\ node[n].role = "replaying" /\ node'[n].role = "replayed"
    /\ node'[n].proof = node[n].proof /\ Ids(node[n].mem) \subseteq Ids(disk'.log)
    /\ rcv'[n].phase = rcv[n].phase /\ rcv'[n].observed = rcv[n].observed
    /\ rcv'[n].tail = rcv[n].tail \/ rcv'[n].tail = NoTail
Completes(n) ==
    /\ Rises(n) /\ disk' = disk /\ node[n].role = "replayed" /\ node'[n].role = "promoted"
    /\ node'[n].proof = node[n].proof /\ rcv' = rcv

\* begin_promotion, without a newer writer in sight.
LEMMA BeginSteps ==
    ASSUME RepInv, NEW n \in Node, BeginPromotion(n), rcv[n].observed <= node[n].epoch
    PROVE  Begins(n)
  <1>. DEFINE s == node[n]
  <1>0. /\ Types /\ s \in Processes /\ rcv[n] \in Receivers /\ rcv[n].observed \in Nat /\ s.epoch \in Nat
        /\ rcv \in [Node -> Receivers]
    BY StateTypes DEF RepInv, Types
  <1>1. PICK k : k = rcv[n].observed
    OBVIOUS
  <1>2. PICK t : t = [s EXCEPT !.role = "promoting", !.snap = k]
    OBVIOUS
  <1>3. /\ t.epoch = s.epoch /\ t.token = s.token /\ t.tainted = s.tainted /\ t.applied = s.applied
        /\ t.lease = s.lease /\ t.beat = s.beat /\ Works(t, s) /\ t.role = "promoting" /\ t.snap = k
        /\ t.proof = s.proof
    BY <1>0, <1>2 DEF Processes, Works
  <1>4. ~(rcv[n].observed > s.epoch)
    BY <1>0
  <1>5. Set(n, t) /\ SetReceiver(n, [rcv[n] EXCEPT !.phase = "fenced", !.observed = s.epoch])
    BY <1>1, <1>2, <1>4 DEF BeginPromotion
  <1>6. node'[n] = t /\ \A q \in Node \ {n} : node'[q] = node[q]
    BY <1>0, <1>5, SetFacts
  <1>7. /\ rcv'[n] = [rcv[n] EXCEPT !.phase = "fenced", !.observed = s.epoch]
        /\ \A q \in Node \ {n} : rcv'[q] = rcv[q]
    BY <1>0, <1>5 DEF SetReceiver
  <1>8. rcv'[n].phase = "fenced" /\ rcv'[n].observed = s.epoch /\ rcv'[n].tail = rcv[n].tail
    BY <1>0, <1>7 DEF Receivers
  <1>9. disk' = disk /\ Flushes(s, disk, disk') /\ s.role = "opened"
    BY DEF BeginPromotion, Flushes
  <1>10. Rises(n)
    BY <1>3, <1>6, <1>7, <1>9 DEF BeginPromotion, Rises
  <1>. QED
    BY <1>1, <1>3, <1>6, <1>8, <1>9, <1>10 DEF Begins, BeginPromotion

\* reconcile_durable_head, when the prefix is complete.
LEMMA ReconcileSteps ==
    ASSUME RepInv, NEW n \in Node, Reconcile(n), ~Dies(n)
    PROVE  Reconciles(n)
  <1>. DEFINE s == node[n]
  <1>0. /\ Types /\ s \in Processes /\ rcv[n] \in Receivers /\ rcv \in [Node -> Receivers]
    BY StateTypes DEF RepInv, Types
  <1>1. PICK u : u = ReconciledTail(rcv[n].tail, disk.stamp)
    OBVIOUS
  <1>2. PICK m, p : m = Replay(u) /\ p = PreservesLineage(u, s.snap)
    OBVIOUS
  <1>3. PICK t : t = [s EXCEPT !.role = "replaying", !.mem = m, !.proof = p]
    OBVIOUS
  <1>4. /\ t.epoch = s.epoch /\ t.token = s.token /\ t.tainted = s.tainted /\ t.applied = s.applied
        /\ t.lease = s.lease /\ t.beat = s.beat /\ Works(t, s) /\ t.role = "replaying" /\ t.mem = m
        /\ t.proof = p
    BY <1>0, <1>3 DEF Processes, Works
  <1>5. /\ Set(n, t) /\ SetReceiver(n, [rcv[n] EXCEPT !.tail = u]) /\ ships' = ships
        /\ disk' = disk /\ owner' = owner /\ acked' = acked /\ stranded' = stranded /\ s.role = "promoting"
    BY <1>1, <1>2, <1>3 DEF Reconcile
  <1>6. node'[n] = t /\ \A q \in Node \ {n} : node'[q] = node[q]
    BY <1>0, <1>5, SetFacts
  <1>7. rcv'[n] = [rcv[n] EXCEPT !.tail = u] /\ \A q \in Node \ {n} : rcv'[q] = rcv[q]
    BY <1>0, <1>5 DEF SetReceiver
  <1>8. rcv'[n].phase = rcv[n].phase /\ rcv'[n].observed = rcv[n].observed /\ rcv'[n].tail = u
    BY <1>0, <1>7 DEF Receivers
  <1>9. Flushes(s, disk, disk')
    BY <1>5 DEF Flushes
  <1>10. Rises(n)
    BY <1>4, <1>5, <1>6, <1>7, <1>9 DEF Rises
  <1>. QED
    BY <1>1, <1>2, <1>4, <1>5, <1>6, <1>8, <1>10 DEF Reconciles

\* The end of the replay.
LEMMA FinishSteps ==
    ASSUME RepInv, NEW n \in Node, FinishReplay(n)
    PROVE  Finishes(n)
  <1>. DEFINE s == node[n]
  <1>0. /\ Types /\ s \in Processes /\ rcv[n] \in Receivers /\ rcv \in [Node -> Receivers]
        /\ s.mem \in Seq(MemEntries)
    BY StateTypes DEF RepInv, Types
  <1>3. PICK t : t = [s EXCEPT !.role = "replayed", !.mem = <<>>]
    OBVIOUS
  <1>4. /\ t.epoch = s.epoch /\ t.token = s.token /\ t.tainted = s.tainted /\ t.applied = s.applied
        /\ t.lease = s.lease /\ t.beat = s.beat /\ Works(t, s) /\ t.role = "replayed" /\ t.proof = s.proof
    BY <1>0, <1>3 DEF Processes, Works
  <1>5. PICK u : u = IF DOMAIN rcv[n].tail.batches = {} THEN rcv[n].tail ELSE NoTail
    OBVIOUS
  <1>6. Set(n, t) /\ SetReceiver(n, [rcv[n] EXCEPT !.tail = u])
    BY <1>3, <1>5 DEF FinishReplay
  <1>7. node'[n] = t /\ \A q \in Node \ {n} : node'[q] = node[q]
    BY <1>0, <1>6, SetFacts
  <1>8. rcv'[n] = [rcv[n] EXCEPT !.tail = u] /\ \A q \in Node \ {n} : rcv'[q] = rcv[q]
    BY <1>0, <1>6 DEF SetReceiver
  <1>9. rcv'[n].phase = rcv[n].phase /\ rcv'[n].observed = rcv[n].observed /\ rcv'[n].tail = u
    BY <1>0, <1>8 DEF Receivers
  <1>10. PICK p : p = Persisted(disk, s.mem)
    OBVIOUS
  <1>11. Flushes(s, disk, p) /\ p.taint = disk.taint /\ Ids(s.mem) \subseteq Ids(p.log) /\ disk' = p
    <2>1. disk' = p
      BY <1>10 DEF FinishReplay
    <2>. QED
      BY <1>0, <1>10, <2>1, FlushesOwn
  <1>12. Rises(n)
    BY <1>4, <1>7, <1>8, <1>11 DEF Rises, FinishReplay
  <1>. QED
    BY <1>4, <1>5, <1>7, <1>9, <1>11, <1>12 DEF Finishes, FinishReplay

\* complete_promotion, without a newer writer in sight.
LEMMA CompleteSteps ==
    ASSUME RepInv, NEW n \in Node, CompletePromotion(n), rcv[n].observed <= node[n].epoch
    PROVE  Completes(n)
  <1>. DEFINE s == node[n]
  <1>0. Types /\ s \in Processes /\ rcv[n].observed \in Nat /\ s.epoch \in Nat
    BY StateTypes DEF RepInv, Types
  <1>3. PICK t : t = [s EXCEPT !.role = "promoted"]
    OBVIOUS
  <1>4. /\ t.epoch = s.epoch /\ t.token = s.token /\ t.tainted = s.tainted /\ t.applied = s.applied
        /\ t.lease = s.lease /\ t.beat = s.beat /\ Works(t, s) /\ t.role = "promoted" /\ t.proof = s.proof
    BY <1>0, <1>3 DEF Processes, Works
  <1>5. ~(rcv[n].observed > s.epoch)
    BY <1>0
  <1>6. /\ Set(n, t) /\ rcv' = rcv /\ disk' = disk /\ owner' = owner /\ ships' = ships /\ acked' = acked
        /\ stranded' = stranded /\ s.role = "replayed"
    BY <1>3, <1>5 DEF CompletePromotion
  <1>7. node'[n] = t /\ \A q \in Node \ {n} : node'[q] = node[q]
    BY <1>0, <1>6, SetFacts
  <1>8. Flushes(s, disk, disk')
    BY <1>6 DEF Flushes
  <1>9. Rises(n)
    BY <1>4, <1>6, <1>7, <1>8 DEF Rises
  <1>. QED
    BY <1>4, <1>6, <1>7, <1>9 DEF Completes

(* n serves, under the lineage in force or under a new one.                 *)
Serves(n) ==
    /\ owner' = owner /\ rcv' = rcv /\ ships' = ships /\ acked' = acked /\ stranded' = stranded
    /\ owner = n /\ node[n].role = "promoted"
    /\ \A q \in Node \ {n} : node'[q] = node[q]
    /\ node'[n].role = "serving" /\ node'[n].epoch = node[n].epoch /\ node'[n].tainted = node[n].tainted
    /\ node'[n].applied = node[n].applied /\ node'[n].beat = node[n].beat /\ node'[n].mem = node[n].mem
    /\ Works(node'[n], node[n]) /\ ~node'[n].proof /\ node'[n].token = disk'.lineage
    /\ disk'.log = disk.log /\ disk'.stamp = disk.stamp /\ disk'.taint = disk.taint
    /\ \/ disk'.lineage = disk.lineage /\ node[n].proof /\ Clean
       \/ disk'.lineage = node[n].epoch

\* Serve is such a step.
LEMMA ServeSteps ==
    ASSUME RepInv, NEW n \in Node, Serve(n)
    PROVE  Serves(n)
  <1>. DEFINE s == node[n]
  <1>0. Types /\ s \in Processes /\ disk \in Disks
    BY StateTypes DEF RepInv, Types
  <1>1. /\ disk'.log = disk.log /\ disk'.stamp = disk.stamp /\ disk'.taint = disk.taint
        /\ \/ disk'.lineage = disk.lineage /\ s.proof /\ Clean
           \/ disk'.lineage = s.epoch
    <2>1. \/ disk' = disk /\ s.proof /\ disk.lineage # disk.taint
          \/ disk' = [disk EXCEPT !.lineage = s.epoch]
      BY DEF Serve
    <2>. QED
      BY <1>0, <2>1 DEF Disks, Clean
  <1>2. PICK l, k : l = (rcv[n].observed <= s.epoch) /\ k = disk'.lineage
    OBVIOUS
  <1>3. PICK t : t = [s EXCEPT !.role = "serving", !.proof = FALSE, !.snap = 0, !.lease = l, !.token = k]
    OBVIOUS
  <1>4. /\ t.epoch = s.epoch /\ t.token = k /\ t.tainted = s.tainted /\ t.applied = s.applied
        /\ t.beat = s.beat /\ t.mem = s.mem /\ Works(t, s) /\ t.role = "serving" /\ ~t.proof
    BY <1>0, <1>3 DEF Processes, Works
  <1>5. Set(n, t)
    BY <1>2, <1>3 DEF Serve
  <1>6. node'[n] = t /\ \A q \in Node \ {n} : node'[q] = node[q]
    BY <1>0, <1>5, SetFacts
  <1>. QED
    BY <1>1, <1>2, <1>4, <1>6 DEF Serves, Serve

(* A receiver hears of a leader.                                            *)
Hears(p) ==
    /\ disk' = disk /\ owner' = owner /\ acked' = acked /\ stranded' = stranded /\ Landing
    /\ \A q \in Node : /\ Stands(node'[q], node[q]) /\ node'[q].mem = node[q].mem
                       /\ node'[q].lease => node[q].lease
                       /\ node'[q].op = node[q].op /\ node'[q].seq = node[q].seq /\ node'[q].write = node[q].write
                       /\ node'[q].beat = node[q].beat \/ ~node'[q].beat.sent
    /\ \A q \in Node \ {p} : rcv'[q] = rcv[q]
(* ... by a heartbeat of n, ...                                             *)
Beaten(n, p) ==
    LET b == node[n].beat
    IN  /\ Hears(p) /\ ships' = ships /\ \A q \in Node : node'[q].answer = node[q].answer
        /\ p # n /\ node[n].role = "serving" /\ b.sent /\ ~node'[n].beat.sent
        /\ rcv'[p].phase = rcv[p].phase
        /\ \/ /\ node[p].role = "standby" /\ rcv[p].observed <= node[n].epoch
              /\ rcv'[p].observed = node[n].epoch
              /\ rcv'[p].tail = ObserveCoverage(rcv[p].tail, node[n].epoch, b.applied, b.durable)
           \/ /\ rcv[p].phase = "fenced" /\ rcv'[p].tail = rcv[p].tail
              /\ rcv[p].observed <= rcv'[p].observed
(* ... or by the request m.                                                 *)
Lands(m, p) ==
    LET result == Received(rcv[p], node[p].epoch, m)
    IN  /\ Hears(p) /\ m.flying /\ p # m.from /\ \A x \in ships' : x.flying => x # m
        /\ \A q \in Node : \/ node'[q].answer = node[q].answer
                           \/ q = m.from /\ Waiting(m) /\ node'[q].answer = result.answer
        /\ rcv'[p] = result.rcv

\* A heartbeat arrives.
LEMMA BeatSteps ==
    ASSUME RepInv, NEW n \in Node, NEW p \in Node, NEW heard \in BOOLEAN, ReceiveBeat(n, p, heard)
    PROVE  Beaten(n, p)
  <1>. DEFINE s == node[n]
  <1>0. /\ Types /\ s \in Processes /\ rcv[p] \in Receivers /\ rcv \in [Node -> Receivers]
        /\ node \in [Node -> Processes] /\ s.epoch \in Nat /\ rcv[p].observed \in Nat
    BY StateTypes DEF RepInv, Types
  <1>1. /\ disk' = disk /\ owner' = owner /\ acked' = acked /\ ships' = ships /\ stranded' = stranded
        /\ p # n /\ s.role = "serving" /\ s.beat.sent
    BY DEF ReceiveBeat
  <1>2. Landing
    BY <1>1 DEF Landing
  <1>3. ~NoBeat.sent
    BY DEF NoBeat
  <1>4. ASSUME NEW q \in Node, node'[q] = node[q]
        PROVE  /\ Stands(node'[q], node[q]) /\ node'[q].mem = node[q].mem /\ node'[q].lease = node[q].lease
               /\ Works(node'[q], node[q]) /\ node'[q].beat = node[q].beat
    BY <1>4 DEF Stands, Works
  <1>5. CASE /\ node[p].role = "standby" /\ s.epoch >= rcv[p].observed
             /\ SetReceiver(p, [rcv[p] EXCEPT !.observed = s.epoch,
                                 !.tail = ObserveCoverage(rcv[p].tail, s.epoch, s.beat.applied, s.beat.durable)])
             /\ \E b : Set(n, [s EXCEPT !.beat = NoBeat, !.repair = b])
    <2>1. PICK u, e : u = ObserveCoverage(rcv[p].tail, s.epoch, s.beat.applied, s.beat.durable) /\ e = s.epoch
      OBVIOUS
    <2>2. rcv'[p] = [rcv[p] EXCEPT !.observed = e, !.tail = u] /\ \A q \in Node \ {p} : rcv'[q] = rcv[q]
      BY <1>0, <1>5, <2>1 DEF SetReceiver
    <2>3. rcv'[p].phase = rcv[p].phase /\ rcv'[p].observed = e /\ rcv'[p].tail = u
      BY <1>0, <2>2 DEF Receivers
    <2>4. PICK b : Set(n, [s EXCEPT !.beat = NoBeat, !.repair = b])
      BY <1>5
    <2>5. PICK t : t = [s EXCEPT !.beat = NoBeat, !.repair = b]
      OBVIOUS
    <2>6. Stands(t, s) /\ t.mem = s.mem /\ t.lease = s.lease /\ Works(t, s) /\ ~t.beat.sent
      BY <1>0, <1>3, <2>5 DEF Processes, Stands, Works
    <2>7. node'[n] = t /\ \A q \in Node \ {n} : node'[q] = node[q]
      BY <1>0, <2>4, <2>5, SetFacts
    <2>8. Hears(p)
      BY <1>1, <1>2, <1>4, <2>2, <2>6, <2>7 DEF Hears, Works
    <2>9. \A q \in Node : node'[q].answer = node[q].answer
      BY <2>6, <2>7 DEF Works
    <2>10. rcv[p].observed <= e
      BY <1>0, <1>5, <2>1
    <2>. QED
      BY <1>1, <1>5, <2>1, <2>3, <2>6, <2>7, <2>8, <2>9, <2>10 DEF Beaten
  <1>6. CASE /\ rcv[p].phase = "fenced"
             /\ SetReceiver(p, [rcv[p] EXCEPT !.observed = Larger(rcv[p].observed, s.epoch)])
             /\ node' = [node EXCEPT ![n].beat = NoBeat, ![p].lease = @ /\ s.epoch <= node[p].epoch]
    <2>1. PICK k : k = Larger(rcv[p].observed, s.epoch)
      OBVIOUS
    <2>2. rcv'[p] = [rcv[p] EXCEPT !.observed = k] /\ \A q \in Node \ {p} : rcv'[q] = rcv[q]
      BY <1>0, <1>6, <2>1 DEF SetReceiver
    <2>3. rcv'[p].phase = rcv[p].phase /\ rcv'[p].observed = k /\ rcv'[p].tail = rcv[p].tail
      BY <1>0, <2>2 DEF Receivers
    <2>4. rcv[p].observed <= k
      BY <1>0, <2>1 DEF Larger
    <2>5. PICK l : l = (node[p].lease /\ s.epoch <= node[p].epoch)
      OBVIOUS
    <2>6. PICK t, u : t = [s EXCEPT !.beat = NoBeat] /\ u = [node[p] EXCEPT !.lease = l]
      OBVIOUS
    <2>7. node'[n] = t /\ node'[p] = u /\ \A q \in Node \ {n, p} : node'[q] = node[q]
      BY <1>0, <1>1, <1>6, <2>5, <2>6
    <2>8. Stands(t, s) /\ t.mem = s.mem /\ t.lease = s.lease /\ Works(t, s) /\ ~t.beat.sent
      BY <1>0, <1>3, <2>6 DEF Processes, Stands, Works
    <2>9. /\ Stands(u, node[p]) /\ u.mem = node[p].mem /\ Works(u, node[p]) /\ u.beat = node[p].beat
          /\ u.lease = l
      BY <1>0, <2>6 DEF Processes, Stands, Works
    <2>10. l => node[p].lease
      BY <2>5
    <2>11. Hears(p)
      BY <1>1, <1>2, <1>4, <2>2, <2>7, <2>8, <2>9, <2>10 DEF Hears, Works
    <2>12. \A q \in Node : node'[q].answer = node[q].answer
      BY <2>7, <2>8, <2>9 DEF Works
    <2>. QED
      BY <1>1, <1>6, <2>3, <2>4, <2>7, <2>8, <2>11, <2>12 DEF Beaten
  <1>. QED
    BY <1>5, <1>6 DEF ReceiveBeat

\* A ship request arrives.
LEMMA LandSteps ==
    ASSUME RepInv, NEW m \in ships, NEW p \in Node, Deliver(m, p)
    PROVE  Lands(m, p)
  <1>0. /\ Types /\ rcv[p] \in Receivers /\ rcv \in [Node -> Receivers]
        /\ node \in [Node -> Processes] /\ m \in Messages /\ m.from \in Node
    BY StateTypes DEF RepInv, Types, Messages
  <1>1. PICK res : res = Received(rcv[p], node[p].epoch, m)
    OBVIOUS
  <1>2. /\ disk' = disk /\ owner' = owner /\ acked' = acked /\ stranded' = stranded /\ m.flying /\ p # m.from
        /\ ships' = (ships \ {m}) \cup {[m EXCEPT !.flying = FALSE]}
        /\ SetReceiver(p, res.rcv)
        /\ node' = [node EXCEPT
              ![m.from] = IF Waiting(m) THEN [@ EXCEPT !.answer = res.answer] ELSE @,
              ![p] = IF res.answer = "stale" THEN [@ EXCEPT !.lease = FALSE] ELSE @]
    BY <1>1 DEF Deliver
  <1>3. PICK x : x = [m EXCEPT !.flying = FALSE]
    OBVIOUS
  <1>4. x.epoch = m.epoch /\ x.seq = m.seq /\ x.id = m.id /\ x.from = m.from /\ ~x.flying
    BY <1>0, <1>3 DEF Messages
  <1>5. Landing /\ \A y \in ships' : y.flying => y # m
    BY <1>2, <1>3, <1>4 DEF Landing
  <1>6. rcv'[p] = res.rcv /\ \A q \in Node \ {p} : rcv'[q] = rcv[q]
    BY <1>0, <1>2 DEF SetReceiver
  <1>7. PICK a : a = res.answer
    OBVIOUS
  <1>8. PICK t, u : t = [node[m.from] EXCEPT !.answer = a] /\ u = [node[p] EXCEPT !.lease = FALSE]
    OBVIOUS
  <1>9. /\ node'[m.from] = node[m.from] \/ (node'[m.from] = t /\ Waiting(m))
        /\ node'[p] = node[p] \/ node'[p] = u
        /\ \A q \in Node \ {m.from, p} : node'[q] = node[q]
    BY <1>0, <1>2, <1>7, <1>8
  <1>10. /\ Stands(t, node[m.from]) /\ t.mem = node[m.from].mem /\ t.lease = node[m.from].lease
         /\ t.op = node[m.from].op /\ t.seq = node[m.from].seq /\ t.write = node[m.from].write
         /\ t.beat = node[m.from].beat /\ t.answer = a
    BY <1>0, <1>8 DEF Processes, Stands
  <1>11. /\ Stands(u, node[p]) /\ u.mem = node[p].mem /\ ~u.lease
         /\ u.op = node[p].op /\ u.seq = node[p].seq /\ u.write = node[p].write
         /\ u.beat = node[p].beat /\ u.answer = node[p].answer
    BY <1>0, <1>8 DEF Processes, Stands
  <1>12. ASSUME NEW q \in Node
         PROVE  /\ Stands(node'[q], node[q]) /\ node'[q].mem = node[q].mem
                /\ node'[q].lease => node[q].lease
                /\ node'[q].op = node[q].op /\ node'[q].seq = node[q].seq /\ node'[q].write = node[q].write
                /\ node'[q].beat = node[q].beat
                /\ \/ node'[q].answer = node[q].answer
                   \/ q = m.from /\ Waiting(m) /\ node'[q].answer = a
    <2>1. CASE node'[q] = node[q]
      BY <2>1 DEF Stands
    <2>2. CASE q = m.from /\ node'[q] = t /\ Waiting(m)
      BY <1>10, <2>2
    <2>3. CASE q = p /\ node'[q] = u
      BY <1>11, <2>3
    <2>. QED
      BY <1>9, <2>1, <2>2, <2>3
  <1>13. Hears(p)
    BY <1>2, <1>5, <1>6, <1>12 DEF Hears
  <1>14. \A q \in Node : \/ node'[q].answer = node[q].answer
                         \/ q = m.from /\ Waiting(m) /\ node'[q].answer = res.answer
    BY <1>7, <1>12
  <1>. QED
    BY <1>1, <1>2, <1>5, <1>6, <1>13, <1>14 DEF Lands

(* Every step, by what it does.                                             *)
Kinds(n) ==
    \/ Labors(n) \/ Sends(n) \/ Accepted(n) \/ Solo(n) \/ Renews(n) \/ Opens(n) \/ Serves(n)
    \/ Ends(n) /\ (StepDown(n) \/ Crash(n) \/ Reconcile(n))
    \/ Begins(n) \/ Reconciles(n) \/ Finishes(n) \/ Completes(n)
    \/ \E p \in Node : Beaten(n, p)

\* A step of a node is one of these.
LEMMA NodeKinds ==
    ASSUME RepInv, NEW n \in Node, NodeStep(n)
    PROVE  Kinds(n)
  <1>0. rcv[n].observed \in Nat /\ node[n].epoch \in Nat
    BY StateTypes DEF RepInv
  <1>1. CASE \/ Persist(n) \/ BaseFlush(n) \/ ObserveDurable(n) \/ StartWrite(n)
             \/ ShipUncovered(n) \/ Reconnect(n) \/ SendBeat(n)
    BY <1>1, LaborSteps DEF Kinds
  <1>2. CASE SendShip(n)
    BY <1>2, SendSteps DEF Kinds
  <1>3. CASE ShipAccepted(n)
    BY <1>3, AcceptedSteps DEF Kinds
  <1>4. CASE WriteSolo(n) \/ ShipAmbiguous(n)
    BY <1>4, SoloSteps DEF Kinds
  <1>5. CASE StepDown(n) \/ Crash(n) \/ (Reconcile(n) /\ Dies(n))
    <2>1. /\ Dies(n) /\ disk' = disk /\ owner' = owner /\ acked' = acked
          /\ stranded' = stranded \/ stranded' = stranded \cup Exposed(n)
      BY <1>5 DEF StepDown, Crash, Reconcile
    <2>2. Ends(n)
      BY <2>1, EndSteps
    <2>. QED
      BY <1>5, <2>2 DEF Kinds
  <1>6. CASE Reconcile(n) /\ ~Dies(n)
    BY <1>6, ReconcileSteps DEF Kinds
  <1>7. CASE Restart(n) \/ Claim(n) \/ LoseClaim(n) \/ ReplayFenced(n)
    BY <1>7, RenewSteps DEF Kinds
  <1>8. CASE BeginPromotion(n)
    <2>1. CASE rcv[n].observed <= node[n].epoch
      BY <1>8, <2>1, BeginSteps DEF Kinds
    <2>2. CASE rcv[n].observed > node[n].epoch
      BY <1>8, <2>2, RenewSteps DEF Kinds
    <2>. QED
      BY <1>0, <2>1, <2>2
  <1>9. CASE CompletePromotion(n)
    <2>1. CASE rcv[n].observed <= node[n].epoch
      BY <1>9, <2>1, CompleteSteps DEF Kinds
    <2>2. CASE rcv[n].observed > node[n].epoch
      BY <1>9, <2>2, RenewSteps DEF Kinds
    <2>. QED
      BY <1>0, <2>1, <2>2
  <1>10. CASE OpenDb(n)
    BY <1>10, OpenSteps DEF Kinds
  <1>11. CASE FinishReplay(n)
    BY <1>11, FinishSteps DEF Kinds
  <1>12. CASE Serve(n)
    BY <1>12, ServeSteps DEF Kinds
  <1>13. CASE \E p \in Node, heard \in BOOLEAN : ReceiveBeat(n, p, heard)
    BY <1>13, BeatSteps DEF Kinds
  <1>. QED
    BY <1>1, <1>2, <1>3, <1>4, <1>5, <1>6, <1>7, <1>8, <1>9, <1>10, <1>11, <1>12, <1>13 DEF NodeStep

-----------------------------------------------------------------------------
(* Leases, owners and tokens *)

(* A process goes on in its term ...                                        *)
Bland(s) == ~s.tainted /\ s.answer = "none" /\ ~s.beat.sent
Goes(q) ==
    /\ node'[q].epoch = node[q].epoch /\ node'[q].token = node[q].token
    /\ (node'[q].role = "serving") <=> (node[q].role = "serving")
    /\ node'[q].lease => node[q].lease
    /\ node[q].applied <= node'[q].applied
    /\ node[q].role # "serving" /\ Bland(node[q]) => Bland(node'[q])
    /\ node'[q].tainted => node[q].tainted \/ disk'.taint = node[q].token
(* ... or starts over, and what is new is of a term there is.               *)
Resets(q) == Blank(node'[q]) /\ node'[q].epoch = 0 /\ node'[q].role \in Idle
Calm ==
    /\ \A q \in Node : Goes(q) \/ Resets(q)
    /\ \A m \in ships' : (\E x \in ships : m.epoch = x.epoch) \/ \E q \in Node : m.epoch = node[q].epoch
    /\ disk'.stamp.epoch = disk.stamp.epoch \/ \E q \in Node : disk'.stamp.epoch = node[q].epoch
    /\ disk'.lineage = disk.lineage
    /\ disk'.taint = disk.taint \/ \E q \in Node : node[q].lease /\ disk'.taint = node[q].token
    /\ \A a \in acked' : a \in acked \/ \E q \in Node : node[q].lease /\ a.token = node[q].token
    /\ \A p \in Node : owner' = p => owner = p \/ node'[p].epoch = 0

\* A process that does not change goes on.
LEMMA GoesSame ==
    ASSUME RepInv, NEW q \in Node, node'[q] = node[q]
    PROVE  Goes(q)
  <1>1. node[q].applied \in Nat
    BY StateTypes DEF RepInv
  <1>. QED
    BY <1>1 DEF Goes

\* One that keeps its standing, its answer and its heartbeat goes on.
LEMMA GoesOn ==
    ASSUME RepInv, NEW q \in Node, Stands(node'[q], node[q]), node'[q].lease => node[q].lease,
           node'[q].answer = node[q].answer \/ node'[q].answer = "none" \/ node[q].role = "serving",
           node'[q].beat = node[q].beat \/ ~node'[q].beat.sent \/ node[q].role = "serving"
    PROVE  Goes(q)
  <1>1. node[q].applied \in Nat
    BY StateTypes DEF RepInv
  <1>. QED
    BY <1>1 DEF Goes, Stands, Bland

\* The steps of a process in its term.
LEMMA CalmLeader ==
    ASSUME RepInv, HonestInv, NEW n \in Node, Labors(n) \/ Sends(n) \/ Accepted(n) \/ Solo(n)
    PROVE  Calm
  <1>1. \A q \in Node \ {n} : Goes(q)
    BY GoesSame DEF Labors, Sends, Accepted, Solo, Applies
  <1>2. Goes(n)
    <2>1. CASE Labors(n)
      BY <2>1, GoesOn DEF Labors, Works
    <2>2. CASE Sends(n)
      BY <2>2, GoesOn DEF Sends
    <2>3. CASE Accepted(n) \/ Solo(n)
      <3>1. Applies(n) /\ node'[n].tainted => node[n].tainted \/ disk'.taint = node[n].token
        BY <2>3 DEF Accepted, Solo
      <3>2. node[n].role = "serving"
        BY <3>1, <2>3 DEF Accepted, Solo, Applies, HonestInv, Leases
      <3>3. Applies(n)
        BY <2>3 DEF Accepted, Solo
      <3>. QED
        BY <3>1, <3>2, <3>3 DEF Goes, Applies
    <2>. QED
      BY <2>1, <2>2, <2>3
  <1>3. \A m \in ships' : (\E x \in ships : m.epoch = x.epoch) \/ \E q \in Node : m.epoch = node[q].epoch
    BY DEF Labors, Sends, Accepted, Solo, Applies
  <1>4. /\ disk'.stamp.epoch = disk.stamp.epoch \/ disk'.stamp.epoch = node[n].epoch
        /\ disk'.lineage = disk.lineage
    BY DEF Labors, Sends, Accepted, Solo, Applies, Flushes
  <1>5. disk'.taint = disk.taint \/ (node[n].lease /\ disk'.taint = node[n].token)
    BY DEF Labors, Sends, Accepted, Solo, Applies
  <1>6. \A a \in acked' : a \in acked \/ (node[n].lease /\ a.token = node[n].token)
    BY DEF Labors, Sends, Accepted, Solo, Applies
  <1>7. owner' = owner
    BY DEF Labors, Sends, Accepted, Solo, Applies
  <1>. QED
    BY <1>1, <1>2, <1>3, <1>4, <1>5, <1>6, <1>7 DEF Calm

\* The steps that end a process or start it over.
LEMMA CalmReset ==
    ASSUME RepInv, NEW n \in Node, Ends(n) \/ Renews(n)
    PROVE  Calm
  <1>1. \A q \in Node \ {n} : Goes(q)
    BY GoesSame DEF Ends, Renews
  <1>2. Resets(n)
    BY DEF Resets, Ends, Renews, Idle
  <1>3. \A m \in ships' : \E x \in ships : m.epoch = x.epoch
    BY DEF Ends, Renews, Landing
  <1>4. disk' = disk /\ acked' = acked /\ (owner' = owner \/ owner' = n)
    BY DEF Ends, Renews
  <1>5. node'[n].epoch = 0
    BY <1>2 DEF Resets
  <1>. QED
    BY <1>1, <1>2, <1>3, <1>4, <1>5 DEF Calm

\* The steps of a promotion.
LEMMA CalmRise ==
    ASSUME RepInv, NEW n \in Node, Rises(n)
    PROVE  Calm
  <1>1. \A q \in Node \ {n} : Goes(q)
    BY GoesSame DEF Rises
  <1>2. Goes(n)
    <2>1. node[n].applied \in Nat
      BY StateTypes DEF RepInv
    <2>2. node[n].role # "serving" /\ node'[n].role # "serving"
      BY DEF Rises
    <2>. QED
      BY <2>1, <2>2 DEF Goes, Rises, Works, Bland
  <1>3. /\ disk'.stamp.epoch = disk.stamp.epoch \/ disk'.stamp.epoch = node[n].epoch
        /\ disk'.lineage = disk.lineage /\ disk'.taint = disk.taint
    BY DEF Rises, Flushes
  <1>4. ships' = ships /\ acked' = acked /\ owner' = owner
    BY DEF Rises
  <1>. QED
    BY <1>1, <1>2, <1>3, <1>4 DEF Calm

\* A receiver hears of a leader.
LEMMA CalmHear ==
    ASSUME RepInv, NEW p \in Node,
           (\E n \in Node : Beaten(n, p)) \/ \E m \in ships : Lands(m, p)
    PROVE  Calm
  <1>1. Hears(p)
    BY DEF Beaten, Lands
  <1>2. ASSUME NEW q \in Node PROVE Goes(q)
    <2>1. node'[q].answer = node[q].answer \/ node[q].role = "serving"
      <3>1. CASE \E n \in Node : Beaten(n, p)
        BY <3>1 DEF Beaten
      <3>2. CASE \E m \in ships : Lands(m, p)
        <4>1. PICK m \in ships : Lands(m, p)
          BY <3>2
        <4>2. node'[q].answer = node[q].answer \/ (q = m.from /\ Waiting(m))
          BY <4>1 DEF Lands
        <4>3. q = m.from /\ Waiting(m) => node[q].op # "none"
          BY DEF Waiting
        <4>. QED
          BY <4>2, <4>3, HasTerm
      <3>. QED
        BY <3>1, <3>2
    <2>. QED
      BY <1>1, <2>1, GoesOn DEF Hears
  <1>3. \A m \in ships' : \E x \in ships : m.epoch = x.epoch
    BY <1>1 DEF Hears, Landing
  <1>4. disk' = disk /\ acked' = acked /\ owner' = owner
    BY <1>1 DEF Hears
  <1>. QED
    BY <1>2, <1>3, <1>4 DEF Calm

\* The newest term stays the newest while nobody opens the database.
LEMMA LatestStays ==
    ASSUME RepInv, Calm, NEW n \in Node, Latest(n), node'[n].epoch = node[n].epoch, node[n].epoch > 0
    PROVE  Latest(n)'
  <1>0. \A q \in Node : node[q].epoch \in Nat
    BY StateTypes DEF RepInv
  <1>1. \A q \in Node : node[q].epoch <= node[n].epoch
    BY <1>0 DEF Latest
  <1>2. ASSUME NEW p \in Node, p # n PROVE node'[p].epoch < node'[n].epoch /\ ~node'[p].lease
    <2>1. node[p].epoch < node[n].epoch /\ ~node[p].lease
      BY <1>2 DEF Latest
    <2>. QED
      BY <1>0, <2>1 DEF Calm, Goes, Resets, Blank
  <1>3. ASSUME NEW m \in ships' PROVE m.epoch <= node'[n].epoch
    <2>1. (\E x \in ships : m.epoch = x.epoch) \/ \E q \in Node : m.epoch = node[q].epoch
      BY <1>3 DEF Calm
    <2>. QED
      BY <1>1, <2>1 DEF Latest
  <1>4. disk'.stamp.epoch <= node'[n].epoch
    BY <1>1 DEF Calm, Latest
  <1>. QED
    BY <1>2, <1>3, <1>4 DEF Latest

\* Only a process with a term serves or has a lease.
LEMMA LeaseHasTerm ==
    ASSUME RepInv, NEW n \in Node, node[n].role = "serving" \/ node[n].role \in Promoted
    PROVE  node[n].epoch > 0
  <1>1. node[n].role \notin Idle
    BY DEF Idle, Promoted
  <1>2. node[n].epoch # 0 /\ node[n].epoch \in Nat
    BY <1>1, HasTerm, StateTypes DEF RepInv
  <1>. QED
    BY <1>2

\* Leases and owners, while nobody opens the database or begins to serve.
LEMMA CalmLeases ==
    ASSUME RepInv, HonestInv, Calm
    PROVE  Leases' /\ Owning'
  <1>1. ASSUME NEW n \in Node, node'[n].lease
        PROVE  /\ node'[n].role = "serving" /\ node'[n].token = disk'.lineage /\ Latest(n)'
               /\ \A p \in Node : p # n /\ owner' = p => node'[p].epoch = 0
    <2>1. Goes(n)
      BY <1>1 DEF Calm, Resets, Blank
    <2>2. node[n].lease
      BY <1>1, <2>1 DEF Goes
    <2>3. /\ node[n].role = "serving" /\ node[n].token = disk.lineage /\ Latest(n)
          /\ \A p \in Node : p # n /\ owner = p => node[p].epoch = 0
      BY <2>2 DEF HonestInv, Leases
    <2>4. Latest(n)'
      BY <2>1, <2>3, LatestStays, LeaseHasTerm DEF Goes
    <2>5. \A p \in Node : p # n /\ owner' = p => node'[p].epoch = 0
      BY <2>3 DEF Calm, Goes, Resets
    <2>. QED
      BY <2>1, <2>3, <2>4, <2>5 DEF Goes, Calm
  <1>2. ASSUME NEW n \in Node, owner' = n, node'[n].epoch > 0
        PROVE  Latest(n)' /\ (node'[n].role # "serving" => disk'.lineage < node'[n].epoch)
    <2>1. Goes(n) /\ owner = n
      BY <1>2 DEF Calm, Resets
    <2>2. node'[n].epoch = node[n].epoch
      BY <2>1 DEF Goes
    <2>3. Latest(n) /\ (node[n].role # "serving" => disk.lineage < node[n].epoch)
      BY <1>2, <2>1, <2>2 DEF HonestInv, Owning
    <2>4. Latest(n)'
      BY <1>2, <2>2, <2>3, LatestStays
    <2>. QED
      BY <2>1, <2>2, <2>3, <2>4 DEF Goes, Calm
  <1>. QED
    BY <1>1, <1>2 DEF Leases, Owning

\* Tokens, the same.
LEMMA CalmTokens ==
    ASSUME RepInv, HonestInv, Calm
    PROVE  Tokens'
  <1>0. disk.lineage \in Nat /\ disk'.lineage = disk.lineage
    BY StateTypes DEF RepInv, Calm
  <1>1. \A q \in Node : node[q].lease => node[q].token = disk.lineage
    BY DEF HonestInv, Leases
  <1>2. \A a \in acked' : a.token <= disk'.lineage
    BY <1>0, <1>1 DEF Calm, HonestInv, Tokens
  <1>3. disk'.taint <= disk'.lineage
    BY <1>0, <1>1 DEF Calm, HonestInv, Tokens
  <1>4. ASSUME NEW n \in Node, node'[n].role = "serving", node'[n].token = disk'.lineage, node'[n].tainted
        PROVE  disk'.taint = disk'.lineage
    <2>1. Goes(n)
      BY <1>4 DEF Calm, Resets, Blank
    <2>2. node[n].role = "serving" /\ node[n].token = disk.lineage
      BY <1>0, <1>4, <2>1 DEF Goes
    <2>3. node[n].tainted \/ disk'.taint = node[n].token
      BY <1>4, <2>1 DEF Goes
    <2>4. CASE node[n].tainted
      <3>1. disk.taint = disk.lineage
        BY <2>2, <2>4 DEF HonestInv, Tokens
      <3>. QED
        BY <1>0, <1>1, <3>1 DEF Calm
    <2>. QED
      BY <1>0, <2>2, <2>3, <2>4
  <1>5. ASSUME NEW n \in Node, node'[n].role # "serving"
        PROVE  ~node'[n].tainted /\ node'[n].answer = "none" /\ ~node'[n].beat.sent
    <2>1. CASE Resets(n)
      BY <2>1 DEF Resets, Blank
    <2>2. CASE Goes(n)
      <3>1. node[n].role # "serving" /\ Bland(node[n])
        BY <1>5, <2>2 DEF Goes, HonestInv, Tokens, Bland
      <3>. QED
        BY <2>2, <3>1 DEF Goes, Bland
    <2>. QED
      BY <2>1, <2>2 DEF Calm
  <1>. QED
    BY <1>2, <1>3, <1>4, <1>5 DEF Tokens

\* A successor opens the database: its term is the newest, and nobody has a lease.
LEMMA OpensHolds ==
    ASSUME RepInv, HonestInv, NEW n \in Node, Opens(n)
    PROVE  Leases' /\ Owning' /\ Tokens'
  <1>0. /\ dbEpoch \in Nat /\ disk.lineage \in Nat /\ \A q \in Node : node[q].epoch \in Nat /\ node[q].epoch <= dbEpoch
        /\ disk.lineage <= dbEpoch /\ \A m \in ships : m.epoch \in Nat /\ m.epoch <= dbEpoch
        /\ disk.stamp.epoch \in Nat /\ disk.stamp.epoch <= dbEpoch
    BY StateTypes DEF RepInv, Epochs, Watermarks, DurableTo
  <1>1. \A q \in Node : ~node'[q].lease
    BY DEF Opens, Blank
  <1>2. Leases'
    BY <1>1 DEF Leases
  <1>3. Latest(n)'
    <2>1. \A q \in Node \ {n} : node'[q].epoch = node[q].epoch
      BY DEF Opens, Stands
    <2>2. node'[n].epoch = dbEpoch + 1 /\ ships' = ships /\ disk' = disk
      BY DEF Opens
    <2>. QED
      BY <1>0, <1>1, <2>1, <2>2 DEF Latest
  <1>4. Owning'
    <2>1. owner' = n /\ disk' = disk /\ node'[n].epoch = dbEpoch + 1
      BY DEF Opens
    <2>2. disk'.lineage < node'[n].epoch
      BY <1>0, <2>1
    <2>. QED
      BY <1>3, <2>1, <2>2 DEF Owning
  <1>5. Tokens'
    <2>1. disk' = disk /\ acked' = acked
      BY DEF Opens
    <2>2. ASSUME NEW q \in Node
          PROVE  \/ Blank(node'[q]) /\ node'[q].role = "opened"
                 \/ /\ node'[q].role = node[q].role /\ node'[q].token = node[q].token
                    /\ node'[q].tainted = node[q].tainted /\ node'[q].answer = node[q].answer
                    /\ node'[q].beat = node[q].beat
      BY DEF Opens, Stands, Works
    <2>. QED
      BY <2>1, <2>2 DEF HonestInv, Tokens, Blank
  <1>. QED
    BY <1>2, <1>4, <1>5

\* The owner serves: under a token that is kept, or newer than every other.
LEMMA ServesHolds ==
    ASSUME RepInv, HonestInv, NEW n \in Node, Serves(n)
    PROVE  Leases' /\ Owning' /\ Tokens'
  <1>0. node[n].epoch > 0 /\ node[n].epoch \in Nat /\ disk.lineage \in Nat
    BY StateTypes, LeaseHasTerm DEF RepInv, Serves, Promoted
  <1>1. Latest(n) /\ disk.lineage < node[n].epoch
    BY <1>0 DEF Serves, HonestInv, Owning
  <1>2. \A q \in Node : node'[q].epoch = node[q].epoch
    BY DEF Serves
  <1>3. Latest(n)'
    <2>1. ships' = ships /\ disk'.stamp = disk.stamp /\ \A q \in Node \ {n} : node'[q] = node[q]
      BY DEF Serves
    <2>. QED
      BY <1>1, <1>2, <2>1 DEF Latest
  <1>4. \A q \in Node : node'[q].lease => q = n
    BY <1>3 DEF Latest
  <1>5. node'[n].role = "serving" /\ node'[n].token = disk'.lineage /\ owner' = n
    BY DEF Serves
  <1>6. Leases' /\ Owning'
    BY <1>3, <1>4, <1>5 DEF Leases, Owning
  <1>7. disk.lineage <= disk'.lineage /\ (disk'.lineage = disk.lineage \/ disk'.lineage = node[n].epoch)
    BY <1>0, <1>1 DEF Serves
  <1>8. Tokens'
    <2>0. /\ acked' = acked /\ disk'.taint = disk.taint /\ disk'.lineage \in Nat
          /\ disk.taint \in Nat /\ \A a \in acked : a.token \in Nat
      BY <1>0, <1>7, Constants DEF Serves, RepInv, Types, Disks
    <2>1. (\A a \in acked' : a.token <= disk'.lineage) /\ disk'.taint <= disk'.lineage
      BY <1>0, <1>7, <2>0 DEF HonestInv, Tokens
    <2>2. node[n].role # "serving"
      BY DEF Serves
    <2>3. ~node'[n].tainted
      BY <2>2 DEF Serves, HonestInv, Tokens
    <2>4. ASSUME NEW q \in Node, q # n PROVE node'[q] = node[q] /\ node[q].token < node[n].epoch
      <3>1. node'[q] = node[q] /\ node[q].epoch < node[n].epoch
        BY <1>1, <2>4 DEF Serves, Latest
      <3>2. node[q].token <= node[q].epoch /\ node[q].token \in Nat /\ node[q].epoch \in Nat
        BY StateTypes, Constants DEF RepInv, Processing, ProcInv, Frontier, Processes
      <3>. QED
        BY <1>0, <3>1, <3>2
    <2>5. ASSUME NEW q \in Node, node'[q].role = "serving", node'[q].token = disk'.lineage, node'[q].tainted
          PROVE  disk'.taint = disk'.lineage
      <3>1. q # n
        BY <2>3, <2>5
      <3>2. node[q].role = "serving" /\ node[q].token = disk'.lineage /\ node[q].tainted /\ node[q].token < node[n].epoch
        BY <2>4, <2>5, <3>1
      <3>3. disk'.lineage = disk.lineage
        BY <1>0, <1>7, <2>0, <3>2
      <3>. QED
        BY <2>0, <3>2, <3>3 DEF HonestInv, Tokens
    <2>6. ASSUME NEW q \in Node, node'[q].role # "serving"
          PROVE  ~node'[q].tainted /\ node'[q].answer = "none" /\ ~node'[q].beat.sent
      <3>1. q # n
        BY <1>5, <2>6
      <3>. QED
        BY <2>4, <2>6, <3>1 DEF HonestInv, Tokens
    <2>. QED
      BY <2>1, <2>5, <2>6 DEF Tokens
  <1>. QED
    BY <1>6, <1>8

-----------------------------------------------------------------------------
(* Ship requests *)

\* Requests that do not change.
LEMMA LandingSame ==
    ASSUME ships' = ships
    PROVE  Landing
  BY DEF Landing

\* Whoever waits for a request has it in its hands.
LEMMA FlyingFacts ==
    ASSUME HonestInv, NEW n \in Node, NEW m \in ships, m.flying, m.epoch = node[n].epoch, ~node[n].tainted
    PROVE  /\ m.from = n /\ Waiting(m) /\ node[n].op = "sent" /\ node[n].answer = "none"
           /\ node[n].seq = m.seq + 1 /\ node[n].write = m.id
           /\ \A x \in ships : x.flying /\ x.epoch = m.epoch => x = m
  <1>1. m.from = n /\ Waiting(m) /\ \A x \in ships : x.flying /\ x.epoch = m.epoch => x = m
    BY DEF HonestInv, Sending
  <1>. QED
    BY <1>1 DEF Waiting

(* What a process does with its requests: it goes on waiting, has none, or  *)
(* no longer waits.                                                         *)
Waits(q) ==
    /\ node'[q].epoch = node[q].epoch /\ Works(node'[q], node[q])
    /\ node[q].tainted => node'[q].tainted
Unsent(q) ==
    /\ node'[q].op = "none" /\ node'[q].answer = "none"
    /\ \A m \in ships : m.epoch # node'[q].epoch
Settles(q) ==
    /\ node'[q].epoch = node[q].epoch /\ node'[q].op # "sent" /\ node'[q].answer = "none"
    /\ node'[q].tainted \/ \A m \in ships : m.flying => m.epoch # node[q].epoch

\* Steps that send nothing and answer nothing.
LEMMA SendingKept ==
    ASSUME HonestInv, Landing, \A q \in Node : Waits(q) \/ Unsent(q) \/ Settles(q)
    PROVE  Sending'
  <1>1. \A m, x \in ships' : m.epoch = x.epoch /\ m.seq = x.seq => m.id = x.id
    BY DEF HonestInv, Sending, Landing
  <1>2. \A q \in Node : \A m \in ships' : m.epoch = node'[q].epoch => m.from = q
    BY DEF HonestInv, Sending, Landing, Waits, Unsent, Settles
  <1>3. ASSUME NEW q \in Node, node'[q].op = "sent"
        PROVE  Shipped(node[q].epoch, node[q].seq - 1, node[q].write)' /\ Waits(q)
    <2>1. Waits(q)
      BY <1>3 DEF Unsent, Settles
    <2>2. /\ node'[q].epoch = node[q].epoch /\ node'[q].seq = node[q].seq /\ node'[q].write = node[q].write
          /\ node[q].op = "sent"
      BY <1>3, <2>1 DEF Waits, Works
    <2>3. PICK x \in ships : x.epoch = node[q].epoch /\ x.seq = node[q].seq - 1 /\ x.id = node[q].write
      BY <2>2 DEF HonestInv, Sending, Shipped
    <2>4. PICK m \in ships' : m.epoch = x.epoch /\ m.seq = x.seq /\ m.id = x.id
      BY DEF Landing
    <2>. QED
      BY <2>1, <2>2, <2>3, <2>4 DEF Shipped
  <1>4. ASSUME NEW q \in Node, NEW m \in ships', ~node'[q].tainted, m.flying, m.epoch = node'[q].epoch
        PROVE  Waiting(m)' /\ \A x \in ships' : x.flying /\ x.epoch = m.epoch => x = m
    <2>1. m \in ships /\ \A x \in ships' : x.flying => x \in ships
      BY <1>4 DEF Landing
    <2>2. Waits(q)
      BY <1>4, <2>1 DEF Unsent, Settles
    <2>3. m.epoch = node[q].epoch /\ ~node[q].tainted
      BY <1>4, <2>2 DEF Waits
    <2>4. /\ m.from = q /\ node[q].op = "sent" /\ node[q].answer = "none"
          /\ node[q].seq = m.seq + 1 /\ node[q].write = m.id
          /\ \A x \in ships : x.flying /\ x.epoch = m.epoch => x = m
      BY <1>4, <2>1, <2>3, FlyingFacts
    <2>5. Waiting(m)'
      BY <1>4, <2>2, <2>4 DEF Waits, Works, Waiting
    <2>. QED
      BY <2>1, <2>4, <2>5
  <1>5. \A q \in Node : node'[q].answer # "none" => node'[q].op = "sent"
    BY DEF HonestInv, Sending, Waits, Works, Unsent, Settles
  <1>. QED
    BY <1>1, <1>2, <1>3, <1>4, <1>5 DEF Sending

\* An unchanged process waits as before.
LEMMA WaitsSame ==
    ASSUME NEW q \in Node, node'[q] = node[q]
    PROVE  Waits(q)
  BY DEF Waits, Works

\* A process without a term has sent nothing in it.
LEMMA NothingSent ==
    ASSUME RepInv, NEW q \in Node, Blank(node'[q]), node'[q].epoch = 0 \/ node'[q].epoch = dbEpoch + 1
    PROVE  Unsent(q)
  <1>1. \A m \in ships : m.epoch \in Nat \ {0} /\ m.epoch <= dbEpoch /\ dbEpoch \in Nat
    BY StateTypes DEF RepInv, Epochs
  <1>2. \A m \in ships : m.epoch # node'[q].epoch
    BY <1>1
  <1>. QED
    BY <1>2 DEF Unsent, Blank

\* The steps that send and hear nothing.
LEMMA SendingSteps ==
    ASSUME RepInv, HonestInv, NEW n \in Node,
           \/ Labors(n) \/ Accepted(n) \/ Solo(n) \/ Ends(n) \/ Renews(n) \/ Opens(n) \/ Rises(n) \/ Serves(n)
    PROVE  Sending'
  <1>1. Landing
    BY LandingSame DEF Labors, Accepted, Solo, Applies, Ends, Renews, Opens, Rises, Serves
  <1>2. ASSUME NEW q \in Node, q # n PROVE Waits(q)
    <2>1. CASE Opens(n)
      BY <1>2, <2>1 DEF Opens, Stands, Waits
    <2>2. CASE ~Opens(n)
      <3>1. node'[q] = node[q]
        BY <1>2, <2>2 DEF Labors, Accepted, Solo, Applies, Ends, Renews, Rises, Serves
      <3>. QED
        BY <3>1, WaitsSame
    <2>. QED
      BY <2>1, <2>2
  <1>3. Waits(n) \/ Unsent(n) \/ Settles(n)
    <2>1. CASE Labors(n)
      <3>1. CASE Works(node'[n], node[n])
        BY <2>1, <3>1 DEF Labors, Stands, Waits
      <3>2. CASE ~Works(node'[n], node[n])
        <4>1. /\ node[n].op # "sent" \/ node[n].answer # "none"
              /\ node'[n].op = "ready" /\ node'[n].answer = "none"
          BY <2>1, <3>2 DEF Labors, HonestInv, Sending
        <4>2. node[n].tainted \/ \A m \in ships : m.flying => m.epoch # node[n].epoch
          BY <4>1, FlyingFacts
        <4>. QED
          BY <2>1, <4>1, <4>2 DEF Labors, Stands, Settles
      <3>. QED
        BY <3>1, <3>2
    <2>2. CASE Accepted(n)
      <3>1. node[n].tainted \/ \A m \in ships : m.flying => m.epoch # node[n].epoch
        BY <2>2, FlyingFacts DEF Accepted
      <3>. QED
        BY <2>2, <3>1 DEF Accepted, Applies, Settles
    <2>3. CASE Solo(n)
      BY <2>3 DEF Solo, Applies, Settles
    <2>4. CASE Ends(n) \/ Renews(n) \/ Opens(n)
      BY <2>4, NothingSent DEF Ends, Renews, Opens
    <2>5. CASE Rises(n) \/ Serves(n)
      BY <2>5 DEF Rises, Serves, Waits
    <2>. QED
      BY <2>1, <2>2, <2>3, <2>4, <2>5
  <1>. QED
    BY <1>1, <1>2, <1>3, SendingKept

\* A new request is the only one of its term in flight.
LEMMA SendsSending ==
    ASSUME RepInv, HonestInv, NEW n \in Node, Sends(n)
    PROVE  Sending'
  <1>. DEFINE s == node[n]
  <1>0. /\ s.epoch # 0 /\ s.seq \in Nat /\ s.applied \in Nat /\ s.seq = s.applied + 1
        /\ InHands(s, ships) /\ s.answer = "none"
    <2>1. s.op # "none" /\ s.op # "sent"
      BY DEF Sends
    <2>2. s.epoch # 0
      BY <2>1, HasTerm
    <2>3. s.seq \in Nat /\ s.applied \in Nat
      BY StateTypes DEF RepInv, Processes
    <2>. QED
      BY <2>1, <2>2, <2>3 DEF RepInv, Processing, ProcInv, Frontier, HonestInv, Sending
  <1>1. PICK m : /\ ships' = ships \cup {m} /\ m.epoch = s.epoch /\ m.seq = s.seq
                 /\ m.id = s.write /\ m.from = n /\ m.flying
    BY DEF Sends
  <1>2. \A x \in ships : x.epoch = m.epoch /\ x.seq = m.seq => x.id = m.id
    <2>. SUFFICES ASSUME NEW x \in ships, x.epoch = s.epoch, x.seq = s.applied + 1 PROVE x.id = s.write
      BY <1>0, <1>1
    <2>1. ~(x.seq <= s.applied)
      BY <1>0
    <2>. QED
      BY <1>0, <2>1 DEF InHands
  <1>3. \A x, y \in ships' : x.epoch = y.epoch /\ x.seq = y.seq => x.id = y.id
    BY <1>1, <1>2 DEF HonestInv, Sending
  <1>4. \A q \in Node : node'[q].epoch = node[q].epoch
    BY DEF Sends, Stands
  <1>5. ASSUME NEW q \in Node, m.epoch = node'[q].epoch PROVE q = n
    <2>1. node[q].epoch = s.epoch /\ s.epoch > 0
      BY <1>0, <1>1, <1>4, <1>5, StateTypes DEF RepInv
    <2>. QED
      BY <2>1 DEF RepInv, Epochs
  <1>6. \A q \in Node : \A x \in ships' : x.epoch = node'[q].epoch => x.from = q
    BY <1>1, <1>4, <1>5 DEF HonestInv, Sending
  <1>7. ASSUME NEW q \in Node, node'[q].op = "sent"
        PROVE  Shipped(node[q].epoch, node[q].seq - 1, node[q].write)'
    <2>1. CASE q = n
      <3>1. node'[n].seq - 1 = s.seq /\ node'[n].write = s.write
        BY <1>0 DEF Sends
      <3>. QED
        BY <1>1, <1>4, <2>1, <3>1 DEF Shipped
    <2>2. CASE q # n
      <3>1. node'[q] = node[q]
        BY <2>2 DEF Sends
      <3>. QED
        BY <1>1, <1>7, <3>1 DEF Shipped, HonestInv, Sending
    <2>. QED
      BY <2>1, <2>2
  <1>8. ASSUME NEW q \in Node, NEW x \in ships', ~node'[q].tainted, x.flying, x.epoch = node'[q].epoch
        PROVE  Waiting(x)' /\ \A y \in ships' : y.flying /\ y.epoch = x.epoch => y = x
    <2>1. node[q].tainted = node'[q].tainted
      BY DEF Sends, Stands
    <2>2. CASE q = n
      <3>1. \A y \in ships : ~(y.flying /\ y.epoch = s.epoch)
        BY <1>8, <2>1, <2>2, FlyingFacts DEF Sends
      <3>2. x = m
        BY <1>1, <1>4, <1>8, <2>2, <3>1
      <3>3. Waiting(m)'
        BY <1>0, <1>1, <1>4 DEF Sends, Waiting
      <3>. QED
        BY <1>1, <3>1, <3>2, <3>3
    <2>3. CASE q # n
      <3>1. node'[q] = node[q] /\ x \in ships
        BY <1>1, <1>5, <1>8, <2>3 DEF Sends
      <3>2. /\ x.from = q /\ Waiting(x)
            /\ \A y \in ships : y.flying /\ y.epoch = x.epoch => y = x
        BY <1>8, <3>1, FlyingFacts
      <3>3. Waiting(x)'
        BY <3>1, <3>2 DEF Waiting
      <3>4. x.epoch # m.epoch
        BY <1>5, <1>8, <2>3
      <3>. QED
        BY <1>1, <3>2, <3>3, <3>4
    <2>. QED
      BY <2>2, <2>3
  <1>9. \A q \in Node : node'[q].answer # "none" => node'[q].op = "sent"
    BY <1>0 DEF HonestInv, Sending, Sends
  <1>. QED
    BY <1>3, <1>6, <1>7, <1>8, <1>9 DEF Sending

\* What a receiver hears: a request that has arrived is no longer waited for.
LEMMA HearsSending ==
    ASSUME RepInv, HonestInv, NEW p \in Node,
           (\E n \in Node : Beaten(n, p)) \/ \E m \in ships : Lands(m, p)
    PROVE  Sending'
  <1>1. Hears(p) /\ Landing
    BY DEF Beaten, Lands, Hears
  <1>2. CASE \E n \in Node : Beaten(n, p)
    <2>1. \A q \in Node : Waits(q)
      BY <1>2 DEF Beaten, Hears, Stands, Waits, Works
    <2>. QED
      BY <1>1, <2>1, SendingKept
  <1>3. CASE \E m \in ships : Lands(m, p)
    <2>0. PICK m \in ships : Lands(m, p)
      BY <1>3
    <2>1. \A x, y \in ships' : x.epoch = y.epoch /\ x.seq = y.seq => x.id = y.id
      BY <1>1 DEF HonestInv, Sending, Landing
    <2>2. \A q \in Node : /\ node'[q].epoch = node[q].epoch /\ node'[q].tainted = node[q].tainted
                          /\ node'[q].op = node[q].op /\ node'[q].seq = node[q].seq
                          /\ node'[q].write = node[q].write
      BY <1>1 DEF Hears, Stands
    <2>3. \A q \in Node : \A x \in ships' : x.epoch = node'[q].epoch => x.from = q
      BY <1>1, <2>2 DEF HonestInv, Sending, Landing
    <2>4. ASSUME NEW q \in Node, node'[q].op = "sent"
          PROVE  Shipped(node[q].epoch, node[q].seq - 1, node[q].write)'
      <3>1. PICK x \in ships : x.epoch = node[q].epoch /\ x.seq = node[q].seq - 1 /\ x.id = node[q].write
        BY <2>2, <2>4 DEF HonestInv, Sending, Shipped
      <3>2. PICK y \in ships' : y.epoch = x.epoch /\ y.seq = x.seq /\ y.id = x.id
        BY <1>1 DEF Landing
      <3>. QED
        BY <2>2, <3>1, <3>2 DEF Shipped
    <2>5. ASSUME NEW q \in Node, NEW x \in ships', ~node'[q].tainted, x.flying, x.epoch = node'[q].epoch
          PROVE  Waiting(x)' /\ \A y \in ships' : y.flying /\ y.epoch = x.epoch => y = x
      <3>1. x \in ships /\ x # m /\ \A y \in ships' : y.flying => y \in ships
        BY <1>1, <2>0, <2>5 DEF Landing, Lands
      <3>2. /\ x.from = q /\ Waiting(x)
            /\ \A y \in ships : y.flying /\ y.epoch = x.epoch => y = x
        BY <2>2, <2>5, <3>1, FlyingFacts
      <3>3. m.epoch # node[q].epoch
        BY <2>0, <2>2, <2>5, <3>1, <3>2 DEF Lands
      <3>4. node'[q].answer = node[q].answer
        BY <2>0, <3>3 DEF Lands, Waiting
      <3>5. Waiting(x)'
        BY <2>2, <3>2, <3>4 DEF Waiting
      <3>. QED
        BY <3>1, <3>2, <3>5
    <2>6. \A q \in Node : node'[q].answer # "none" => node'[q].op = "sent"
      BY <2>0, <2>2 DEF HonestInv, Sending, Lands, Waiting
    <2>. QED
      BY <2>1, <2>3, <2>4, <2>5, <2>6 DEF Sending
  <1>. QED
    BY <1>2, <1>3

-----------------------------------------------------------------------------
(* Receivers *)

(* What a receiver r makes of the request m: it rejects it as too old, asks *)
(* for what comes before it, accepts it, or has been promoted.              *)
Rejects(r, m, x, a) == r.phase = "standby" /\ m.epoch < r.observed /\ x = r /\ a = "deposed"
Asks(r, m, x, a) ==
    /\ r.phase = "standby" /\ r.observed <= m.epoch /\ x.phase = "standby" /\ x.observed = m.epoch
    /\ x.tail = ObserveCoverage(r.tail, m.epoch, m.seq - 1, m.wm) /\ a = "uncovered"
Takes(r, m, x, a) ==
    /\ r.phase = "standby" /\ r.observed <= m.epoch /\ x.phase = "standby" /\ x.observed = m.epoch
    /\ CoversPredecessors(r.tail, m.epoch, m.seq, m.wm)
    /\ x.tail = Prune(Accept(r.tail, m.epoch, m.seq, m.id), m.wm) /\ a = "accepted"
Refuses(r, m, x, a) ==
    /\ r.phase = "fenced" /\ x.phase = "fenced" /\ x.tail = r.tail /\ r.observed <= x.observed
    /\ a \in {"stale", "deposed"}

\* receive_ship, by its cases.
LEMMA ReceivedCases ==
    ASSUME NEW r \in Receivers, NEW e, NEW m \in Messages, NEW x, NEW a,
           x = Received(r, e, m).rcv, a = Received(r, e, m).answer
    PROVE  Rejects(r, m, x, a) \/ Asks(r, m, x, a) \/ Takes(r, m, x, a) \/ Refuses(r, m, x, a)
  <1>1. r.observed \in Nat /\ m.epoch \in Nat /\ r.phase \in {"standby", "fenced"}
    BY Constants DEF Receivers, Messages
  <1>2. CASE r.phase = "standby" /\ m.epoch < r.observed
    BY <1>1, <1>2 DEF Received, Rejects
  <1>3. CASE r.phase = "standby" /\ m.epoch >= r.observed /\ ~CoversPredecessors(r.tail, m.epoch, m.seq, m.wm)
    <2>1. PICK u, k : u = ObserveCoverage(r.tail, m.epoch, m.seq - 1, m.wm) /\ k = m.epoch
      OBVIOUS
    <2>2. x = [r EXCEPT !.observed = k, !.tail = u] /\ a = "uncovered"
      BY <1>1, <1>3, <2>1 DEF Received
    <2>3. x.phase = r.phase /\ x.observed = k /\ x.tail = u
      BY <2>2 DEF Receivers
    <2>. QED
      BY <1>1, <1>3, <2>1, <2>2, <2>3 DEF Asks
  <1>4. CASE r.phase = "standby" /\ m.epoch >= r.observed /\ CoversPredecessors(r.tail, m.epoch, m.seq, m.wm)
    <2>1. PICK u, k : u = Prune(Accept(r.tail, m.epoch, m.seq, m.id), m.wm) /\ k = m.epoch
      OBVIOUS
    <2>2. x = [r EXCEPT !.observed = k, !.tail = u] /\ a = "accepted"
      BY <1>1, <1>4, <2>1 DEF Received
    <2>3. x.phase = r.phase /\ x.observed = k /\ x.tail = u
      BY <2>2 DEF Receivers
    <2>. QED
      BY <1>1, <1>4, <2>1, <2>2, <2>3 DEF Takes
  <1>5. CASE r.phase = "fenced"
    <2>1. PICK k : k = Larger(r.observed, m.epoch)
      OBVIOUS
    <2>2. x = [r EXCEPT !.observed = k] /\ a \in {"stale", "deposed"}
      BY <1>1, <1>5, <2>1 DEF Received
    <2>3. x.phase = r.phase /\ x.observed = k /\ x.tail = r.tail
      BY <2>2 DEF Receivers
    <2>4. r.observed <= k
      BY <1>1, <2>1 DEF Larger
    <2>. QED
      BY <1>5, <2>2, <2>3, <2>4 DEF Refuses
  <1>. QED
    BY <1>1, <1>2, <1>3, <1>4, <1>5

(* The tail u, after t has heard that batches up to k of term e are there.  *)
Learns(t, u, e, k) ==
    /\ u \in Tails /\ u.epoch = e /\ t.epoch <= e
    /\ u.max = Larger(IF e = t.epoch THEN t.max ELSE 0, k)

\* What a heartbeat or an early request tells a tail.
LEMMA ObserveLearns ==
    ASSUME NEW t \in Tails, NEW e \in 0..MaxEpoch, NEW a \in 0..MaxWrites, NEW d \in 0..MaxWrites,
           NEW u, u = ObserveCoverage(t, e, a, d), t.epoch <= e
    PROVE  /\ (u = t /\ a = 0 /\ t.epoch < e) \/ Learns(t, u, e, a)
           /\ Covered(t) /\ t.epoch = e /\ a <= t.max => Covered(u) /\ u.epoch = e /\ u.max = t.max
  <1>0. /\ t.epoch \in 0..MaxEpoch /\ MaxEpoch \in Nat /\ t.max \in 0..MaxWrites /\ MaxWrites \in Nat
        /\ t.durable \in 0..MaxWrites
    BY Constants DEF Tails
  <1>1. CASE e > t.epoch /\ a = 0
    BY <1>0, <1>1 DEF ObserveCoverage
  <1>2. CASE ~(e > t.epoch /\ a = 0)
    <2>1. ~(e < t.epoch \/ (e > t.epoch /\ a = 0))
      BY <1>0, <1>2
    <2>2. /\ u \in Tails /\ u.epoch = e /\ e >= t.epoch
          /\ u.durable = Larger(IF e = t.epoch THEN t.durable ELSE 0, d)
          /\ u.max = Larger(IF e = t.epoch THEN t.max ELSE 0, a)
          /\ DOMAIN u.batches = {s \in (IF e = t.epoch THEN DOMAIN t.batches ELSE {}) : s > d}
      BY <2>1, ObserveApplies
    <2>3. ASSUME Covered(t), t.epoch = e, a <= t.max PROVE Covered(u) /\ u.max = t.max
      <3>1. u.max = t.max
        BY <1>0, <2>2, <2>3 DEF Larger
      <3>2. u.durable \in Nat /\ t.durable <= u.durable /\ d <= u.durable
        BY <1>0, <2>2, <2>3 DEF Larger
      <3>3. DOMAIN u.batches = {s \in DOMAIN t.batches : s > d}
        BY <2>2, <2>3
      <3>4. CASE t.durable >= t.max
        BY <1>0, <3>1, <3>2, <3>4 DEF Covered
      <3>5. CASE Retains(t, t.durable + 1, t.max)
        <4>1. \A s \in (u.durable + 1)..u.max : s \in (t.durable + 1)..t.max /\ s > d
          BY <1>0, <3>1, <3>2
        <4>2. \A s \in (u.durable + 1)..u.max : s \in DOMAIN u.batches
          BY <3>3, <3>5, <4>1 DEF Retains
        <4>. QED
          BY <3>1, <4>2 DEF Covered, Retains
      <3>. QED
        BY <2>3, <3>1, <3>4, <3>5 DEF Covered
    <2>. QED
      BY <1>0, <2>2, <2>3 DEF Learns
  <1>. QED
    BY <1>1, <1>2

\* An accepted request, and what it makes of a tail that has all before it.
LEMMA AcceptLearns ==
    ASSUME NEW t \in Tails, NEW m \in Messages, t.epoch <= m.epoch,
           CoversPredecessors(t, m.epoch, m.seq, m.wm),
           NEW u, u = Prune(Accept(t, m.epoch, m.seq, m.id), m.wm)
    PROVE  /\ Learns(t, u, m.epoch, m.seq)
           /\ (t.epoch = m.epoch => t.max <= m.seq) => Covered(u)
           /\ Covered(t) /\ t.epoch = m.epoch /\ m.seq <= t.max => Covered(u)
  <1>0. /\ t.epoch \in 0..MaxEpoch /\ MaxEpoch \in Nat /\ t.max \in 0..MaxWrites /\ MaxWrites \in Nat
        /\ t.durable \in 0..MaxWrites /\ m.epoch \in 1..MaxEpoch /\ m.seq \in 1..MaxWrites
        /\ m.id \in 1..MaxWrites /\ m.wm \in 0..MaxWrites
    BY Constants DEF Tails, Messages
  <1>1. PICK v : v = Accept(t, m.epoch, m.seq, m.id)
    OBVIOUS
  <1>2. /\ v \in Tails /\ v.epoch = m.epoch
        /\ v.durable = IF m.epoch = t.epoch THEN t.durable ELSE 0
        /\ v.max = Larger(IF m.epoch = t.epoch THEN t.max ELSE 0, m.seq)
        /\ DOMAIN v.batches = (IF m.epoch = t.epoch THEN DOMAIN t.batches ELSE {}) \cup {m.seq}
    <2>1. m.epoch >= t.epoch
      BY <1>0
    <2>. QED
      BY <1>0, <1>1, <2>1, AcceptFacts
  <1>3. /\ u \in Tails /\ u.epoch = m.epoch /\ u.max = v.max /\ u.durable = Larger(v.durable, m.wm)
        /\ DOMAIN u.batches = {s \in DOMAIN v.batches : s > m.wm}
    BY <1>0, <1>1, <1>2, PruneFacts
  <1>4. Learns(t, u, m.epoch, m.seq)
    BY <1>2, <1>3 DEF Learns
  <1>5. u.durable \in Nat /\ m.wm <= u.durable /\ v.durable <= u.durable /\ u.max \in Nat
    BY <1>0, <1>2, <1>3 DEF Larger
  <1>6. ASSUME NEW s \in Nat, s > u.durable, s < m.seq PROVE s \in DOMAIN u.batches
    <2>1. CASE t.epoch = m.epoch
      <3>1. u.durable = Larger(t.durable, m.wm)
        BY <1>2, <1>3, <2>1
      <3>2. ~(m.seq - 1 <= u.durable)
        BY <1>0, <1>5, <1>6
      <3>3. Retains(t, u.durable + 1, m.seq - 1)
        BY <2>1, <3>1, <3>2 DEF CoversPredecessors
      <3>4. s \in (u.durable + 1)..(m.seq - 1) /\ s > m.wm
        BY <1>0, <1>5, <1>6
      <3>5. s \in DOMAIN t.batches
        BY <3>3, <3>4 DEF Retains
      <3>. QED
        BY <1>2, <1>3, <2>1, <3>4, <3>5
    <2>2. CASE t.epoch # m.epoch
      <3>1. m.seq - 1 <= m.wm
        BY <2>2 DEF CoversPredecessors
      <3>. QED
        BY <1>0, <1>5, <1>6, <3>1
    <2>. QED
      BY <2>1, <2>2
  <1>7. m.seq > u.durable => m.seq \in DOMAIN u.batches
    BY <1>0, <1>2, <1>3, <1>5
  <1>8. ASSUME t.epoch = m.epoch => t.max <= m.seq PROVE Covered(u)
    <2>1. u.max = m.seq
      BY <1>0, <1>2, <1>3, <1>8 DEF Larger
    <2>2. \A s \in (u.durable + 1)..u.max : s \in DOMAIN u.batches
      BY <1>0, <1>5, <1>6, <1>7, <2>1
    <2>. QED
      BY <2>2 DEF Covered, Retains
  <1>9. ASSUME Covered(t), t.epoch = m.epoch, m.seq <= t.max PROVE Covered(u)
    <2>1. u.max = t.max /\ v.durable = t.durable
      BY <1>0, <1>2, <1>3, <1>9 DEF Larger
    <2>2. ASSUME NEW s \in (u.durable + 1)..u.max PROVE s \in DOMAIN u.batches
      <3>1. s \in Nat /\ s > u.durable /\ s > m.wm /\ s \in (t.durable + 1)..t.max
        BY <1>0, <1>5, <2>1, <2>2
      <3>2. s \in DOMAIN t.batches
        BY <1>0, <1>9, <3>1 DEF Covered, Retains
      <3>. QED
        BY <1>2, <1>3, <1>9, <3>1, <3>2
    <2>. QED
      BY <2>2 DEF Covered, Retains
  <1>. QED
    BY <1>4, <1>8, <1>9

(* What Fences asks of the receiver of q, and of the tail of p.             *)
FencedOK(q) ==
    rcv[q].phase = "fenced" =>
       node[q].role \in Promoted /\ node[q].epoch <= rcv[q].observed /\ rcv[q].tail.epoch <= node[q].epoch
BoundOK(p) ==
    \A n \in Node : rcv[p].tail.epoch = node[n].epoch /\ node[n].epoch > 0 =>
       rcv[p].tail.max <= node[n].applied + 1

\* Fences, receiver by receiver.
LEMMA FencesByNode ==
    /\ Fences <=> \A q \in Node : FencedOK(q) /\ BoundOK(q)
    /\ Fences' <=> \A q \in Node : FencedOK(q)' /\ BoundOK(q)'
  BY DEF Fences, FencedOK, BoundOK

\* A tail that is kept, or dropped, stays within what its leader has sent.
LEMMA BoundKept ==
    ASSUME RepInv, HonestInv, Advances, NEW p \in Node,
           \/ rcv'[p].tail.epoch = 0
           \/ rcv'[p].tail.epoch = rcv[p].tail.epoch /\ rcv'[p].tail.max = rcv[p].tail.max
    PROVE  BoundOK(p)'
  <1>. SUFFICES ASSUME NEW n \in Node, rcv'[p].tail.epoch = node'[n].epoch, node'[n].epoch > 0
                PROVE  rcv'[p].tail.max <= node'[n].applied + 1
    BY DEF BoundOK
  <1>0. /\ rcv[p].tail.epoch \in Nat /\ rcv[p].tail.epoch <= dbEpoch /\ dbEpoch \in Nat
        /\ rcv[p].tail.max \in Nat /\ node[n].applied \in Nat /\ node'[n].applied \in Nat
    <2>1. rcv[p].tail \in Tails
      BY StateTypes DEF RepInv
    <2>2. rcv[p].tail.max \in Nat
      BY <2>1, Constants DEF Tails
    <2>3. node'[n].applied \in Nat
      BY Constants DEF Advances, Moves, Processes
    <2>. QED
      BY <2>2, <2>3, StateTypes DEF RepInv, Watermarks, DurableTo
  <1>1. rcv'[p].tail.epoch = rcv[p].tail.epoch /\ rcv'[p].tail.max = rcv[p].tail.max
    BY <1>0
  <1>2. node'[n].epoch = node[n].epoch /\ node[n].applied <= node'[n].applied
    <2>1. /\ node[n].epoch <= dbEpoch
          /\ \/ node'[n].epoch = node[n].epoch /\ node[n].applied <= node'[n].applied
             \/ node'[n].epoch = 0
             \/ node'[n].epoch = dbEpoch + 1
      BY TermMoves
    <2>2. node'[n].epoch = rcv[p].tail.epoch
      BY <1>1
    <2>. QED
      BY <1>0, <2>1, <2>2
  <1>3. BoundOK(p)
    BY FencesByNode DEF HonestInv
  <1>4. rcv[p].tail.max <= node[n].applied + 1
    BY <1>1, <1>2, <1>3 DEF BoundOK
  <1>. QED
    BY <1>0, <1>1, <1>2, <1>4

\* A receiver that does not change, of a process that keeps its term and rank.
LEMMA FencedKept ==
    ASSUME HonestInv, NEW q \in Node, rcv'[q] = rcv[q],
           \/ node[q].role \notin Promoted
           \/ node'[q].epoch = node[q].epoch /\ node'[q].role \in Promoted
    PROVE  FencedOK(q)'
  <1>1. FencedOK(q)
    BY FencesByNode DEF HonestInv
  <1>. QED
    BY <1>1 DEF FencedOK

\* The receivers of the steps that receive nothing.
LEMMA FencesSteps ==
    ASSUME RepInv, HonestInv, Advances, NEW n \in Node,
           \/ Labors(n) \/ Sends(n) \/ Accepted(n) \/ Solo(n) \/ Ends(n) \/ Renews(n) \/ Opens(n) \/ Serves(n)
           \/ Begins(n) \/ Reconciles(n) \/ Finishes(n) \/ Completes(n)
    PROVE  Fences'
  <1>0. /\ rcv[n].tail \in Tails /\ rcv[n].observed \in Nat /\ node[n].epoch \in Nat /\ rcv[n].tail.epoch \in Nat
        /\ disk.stamp \in Stamps /\ rcv[n].tail.epoch <= rcv[n].observed /\ FencedOK(n)
        /\ rcv[n].phase \in {"standby", "fenced"}
    BY StateTypes, FencesByNode DEF RepInv, Receiving, Receivers, HonestInv
  <1>1. ASSUME NEW q \in Node, q # n PROVE FencedOK(q)' /\ BoundOK(q)'
    <2>1. rcv'[q] = rcv[q]
      BY <1>1 DEF Labors, Sends, Accepted, Solo, Applies, Ends, Renews, Opens, Rises, Serves, Begins, Reconciles,
                  Finishes, Completes
    <2>2. node'[q].epoch = node[q].epoch /\ node'[q].role = node[q].role
      BY <1>1 DEF Labors, Sends, Accepted, Solo, Applies, Ends, Renews, Opens, Rises, Serves, Begins, Reconciles,
                  Finishes, Completes, Stands
    <2>. QED
      BY <2>1, <2>2, BoundKept, FencedKept
  <1>2. CASE Labors(n) \/ Sends(n) \/ Accepted(n) \/ Solo(n) \/ Opens(n) \/ Serves(n) \/ Completes(n)
    <2>1. rcv'[n] = rcv[n]
      BY <1>2, SMTT(30) DEF Labors, Sends, Accepted, Solo, Applies, Opens, Serves, Completes
    <2>2. \/ node[n].role \notin Promoted
          \/ node'[n].epoch = node[n].epoch /\ node'[n].role \in Promoted
      BY <1>2 DEF Labors, Sends, Accepted, Solo, Applies, Opens, Serves, Completes, Rises, Stands, Promoted
    <2>3. FencedOK(n)' /\ BoundOK(n)'
      BY <2>1, <2>2, BoundKept, FencedKept
    <2>. QED
      BY <1>1, <2>3, FencesByNode
  <1>3. CASE Ends(n)
    <2>1. rcv'[n].phase = "standby" /\ rcv'[n].tail.epoch = 0
      BY <1>3 DEF Ends, NewReceiver, NoTail
    <2>2. FencedOK(n)' /\ BoundOK(n)'
      BY <2>1, BoundKept DEF FencedOK
    <2>. QED
      BY <1>1, <2>2, FencesByNode
  <1>4. CASE Renews(n)
    <2>1. rcv'[n].tail = rcv[n].tail /\ rcv'[n].phase = "standby"
      BY <1>0, <1>4 DEF Renews, FencedOK
    <2>2. FencedOK(n)' /\ BoundOK(n)'
      BY <2>1, BoundKept DEF FencedOK
    <2>. QED
      BY <1>1, <2>2, FencesByNode
  <1>5. CASE Begins(n)
    <2>1. /\ rcv'[n].tail = rcv[n].tail /\ rcv'[n].observed = node[n].epoch /\ node'[n].epoch = node[n].epoch
          /\ rcv[n].observed <= node[n].epoch /\ node'[n].role \in Promoted
      BY <1>5 DEF Begins, Rises, Promoted
    <2>2. rcv'[n].tail.epoch <= node'[n].epoch /\ node'[n].epoch <= rcv'[n].observed
      BY <1>0, <2>1
    <2>3. FencedOK(n)' /\ BoundOK(n)'
      BY <2>1, <2>2, BoundKept DEF FencedOK
    <2>. QED
      BY <1>1, <2>3, FencesByNode
  <1>6. CASE Reconciles(n) \/ Finishes(n)
    <2>1. /\ node'[n].epoch = node[n].epoch /\ node'[n].role \in Promoted
          /\ rcv'[n].phase = rcv[n].phase /\ rcv'[n].observed = rcv[n].observed
      BY <1>6 DEF Reconciles, Finishes, Rises, Promoted
    <2>2. \/ rcv'[n].tail.epoch = 0
          \/ rcv'[n].tail.epoch = rcv[n].tail.epoch /\ rcv'[n].tail.max = rcv[n].tail.max
      <3>1. CASE Finishes(n)
        BY <3>1, NoTailFacts DEF Finishes
      <3>2. CASE Reconciles(n)
        <4>1. PICK t, st : t = rcv[n].tail /\ st = disk.stamp
          OBVIOUS
        <4>2. PICK u : u = ReconciledTail(t, st)
          OBVIOUS
        <4>3. PICK w : w = IF st.solo THEN st.applied ELSE st.shipped
          OBVIOUS
        <4>4. w \in 0..MaxWrites
          BY <1>0, <4>1, <4>3 DEF Stamps
        <4>5. u.epoch = 0 \/ (u.epoch = t.epoch /\ u.max = t.max)
          <5>1. u = NoTail \/ u = t \/ u = Prune(t, w)
            BY <1>0, <4>1, <4>2, <4>3, ReconciledFacts
          <5>2. t \in Tails
            BY <1>0, <4>1
          <5>3. Prune(t, w).epoch = t.epoch /\ Prune(t, w).max = t.max
            BY <4>4, <5>2, PruneFacts
          <5>. QED
            BY <5>1, <5>3, NoTailFacts
        <4>6. rcv'[n].tail = u
          BY <3>2, <4>1, <4>2 DEF Reconciles
        <4>. QED
          BY <4>1, <4>5, <4>6
      <3>. QED
        BY <1>6, <3>1, <3>2
    <2>3. FencedOK(n)'
      BY <1>0, <2>1, <2>2 DEF FencedOK
    <2>. QED
      BY <1>1, <2>2, <2>3, BoundKept, FencesByNode
  <1>. QED
    BY <1>2, <1>3, <1>4, <1>5, <1>6

\* A tail learns only of batches that its leader has sent.
LEMMA BoundLearns ==
    ASSUME RepInv, HonestInv, NEW p \in Node, NEW e \in Nat, NEW k \in Nat, Learns(rcv[p].tail, rcv'[p].tail, e, k),
           \A n \in Node : /\ node'[n].epoch = node[n].epoch /\ node'[n].applied = node[n].applied
                           /\ node[n].epoch = e => k <= node[n].applied + 1
    PROVE  BoundOK(p)'
  <1>. SUFFICES ASSUME NEW n \in Node, rcv'[p].tail.epoch = node[n].epoch, node[n].epoch > 0
                PROVE  rcv'[p].tail.max <= node[n].applied + 1
    BY DEF BoundOK
  <1>0. rcv[p].tail.max \in Nat /\ node[n].applied \in Nat
    <2>1. rcv[p].tail \in Tails
      BY StateTypes DEF RepInv
    <2>. QED
      BY <2>1, StateTypes, Constants DEF Tails, RepInv
  <1>1. node[n].epoch = e /\ k <= node[n].applied + 1
    BY DEF Learns
  <1>2. e = rcv[p].tail.epoch => rcv[p].tail.max <= node[n].applied + 1
    BY <1>1, FencesByNode DEF HonestInv, BoundOK
  <1>3. rcv'[p].tail.max = Larger(IF e = rcv[p].tail.epoch THEN rcv[p].tail.max ELSE 0, k)
    BY DEF Learns
  <1>. QED
    BY <1>0, <1>1, <1>2, <1>3 DEF Larger

\* What a receiver hears does not end its promotion.
LEMMA HearsFenced ==
    ASSUME RepInv, HonestInv, NEW p \in Node, Hears(p),
           NEW q \in Node, q # p \/ (/\ rcv'[p].phase = rcv[p].phase
                                     /\ rcv[p].phase = "fenced" => /\ rcv'[p].tail = rcv[p].tail
                                                                   /\ rcv[p].observed <= rcv'[p].observed
                                                                   /\ rcv'[p].observed \in Nat)
    PROVE  FencedOK(q)'
  <1>0. rcv[q].observed \in Nat /\ node[q].epoch \in Nat /\ rcv[q].tail.epoch \in Nat /\ FencedOK(q)
    BY StateTypes, FencesByNode DEF RepInv, HonestInv
  <1>1. node'[q].epoch = node[q].epoch /\ node'[q].role = node[q].role
    BY DEF Hears, Stands
  <1>2. CASE rcv'[q] = rcv[q]
    BY <1>0, <1>1, <1>2 DEF FencedOK
  <1>3. CASE q = p
    BY <1>0, <1>1, <1>3 DEF FencedOK
  <1>. QED
    BY <1>2, <1>3 DEF Hears

\* A heartbeat or a request.
LEMMA HearsFences ==
    ASSUME RepInv, RepInv', HonestInv, Advances, NEW p \in Node,
           (\E n \in Node : Beaten(n, p)) \/ \E m \in ships : Lands(m, p)
    PROVE  Fences'
  <1>0. /\ Hears(p) /\ rcv[p] \in Receivers /\ rcv[p].tail \in Tails /\ rcv'[p].observed \in Nat
        /\ rcv[p].observed \in Nat /\ rcv[p].tail.epoch <= rcv[p].observed /\ rcv[p].tail.epoch \in Nat
        /\ \A q \in Node : node[q].epoch \in 0..MaxEpoch /\ node[q].applied \in Nat
        /\ MaxEpoch \in Nat /\ MaxWrites \in Nat
    <2>1. rcv'[p] \in Receivers
      BY DEF RepInv, Types
    <2>. QED
      BY <2>1, StateTypes, Constants DEF Beaten, Lands, RepInv, Receiving, Processes, Receivers
  <1>1. \A n \in Node : node'[n].epoch = node[n].epoch /\ node'[n].applied = node[n].applied
    BY <1>0 DEF Hears, Stands
  <1>2. ASSUME NEW q \in Node, q # p PROVE FencedOK(q)' /\ BoundOK(q)'
    <2>1. rcv'[q] = rcv[q]
      BY <1>0, <1>2 DEF Hears
    <2>. QED
      BY <1>0, <1>2, <2>1, BoundKept, HearsFenced
  <1>3. CASE \E n \in Node : Beaten(n, p)
    <2>0. PICK n \in Node : Beaten(n, p)
      BY <1>3
    <2>1. rcv'[p].phase = rcv[p].phase
      BY <2>0 DEF Beaten
    <2>2. CASE rcv[p].phase = "fenced" /\ rcv'[p].tail = rcv[p].tail /\ rcv[p].observed <= rcv'[p].observed
      <3>1. FencedOK(p)' /\ BoundOK(p)'
        BY <1>0, <2>1, <2>2, BoundKept, HearsFenced
      <3>. QED
        BY <1>2, <3>1, FencesByNode
    <2>3. CASE /\ node[p].role = "standby" /\ rcv[p].observed <= node[n].epoch
               /\ rcv'[p].tail = ObserveCoverage(rcv[p].tail, node[n].epoch, node[n].beat.applied, node[n].beat.durable)
      <3>1. rcv[p].phase # "fenced"
        BY <2>3, FencesByNode DEF HonestInv, FencedOK, Promoted
      <3>2. FencedOK(p)'
        BY <1>0, <2>1, <3>1, HearsFenced
      <3>3. PICK e \in 0..MaxEpoch, a \in 0..MaxWrites, d \in 0..MaxWrites :
               e = node[n].epoch /\ a = node[n].beat.applied /\ d = node[n].beat.durable
        <4>1. node[n] \in Processes
          BY DEF RepInv, Types
        <4>2. node[n].beat \in Beats
          BY <4>1 DEF Processes
        <4>. QED
          BY <1>0, <4>2 DEF Beats
      <3>4. rcv'[p].tail = rcv[p].tail \/ Learns(rcv[p].tail, rcv'[p].tail, e, a)
        <4>1. rcv[p].tail.epoch <= e
          BY <1>0, <2>3, <3>3
        <4>. QED
          BY <1>0, <2>3, <3>3, <4>1, ObserveLearns
      <3>5. a <= node[n].applied
        BY <3>3 DEF RepInv, Processing, ProcInv, Frontier
      <3>6. e > 0
        BY <2>0, <3>3, LeaseHasTerm DEF Beaten
      <3>7. ASSUME NEW q \in Node, node[q].epoch = e PROVE a <= node[q].applied + 1
        <4>1. q = n
          BY <3>3, <3>6, <3>7 DEF RepInv, Epochs
        <4>. QED
          BY <1>0, <3>5, <4>1
      <3>8. BoundOK(p)'
        <4>1. e \in Nat /\ a \in Nat
          BY <1>0
        <4>2. CASE rcv'[p].tail = rcv[p].tail
          BY <4>2, BoundKept
        <4>3. CASE Learns(rcv[p].tail, rcv'[p].tail, e, a)
          BY <1>1, <3>7, <4>1, <4>3, BoundLearns
        <4>. QED
          BY <3>4, <4>2, <4>3
      <3>. QED
        BY <1>2, <3>2, <3>8, FencesByNode
    <2>. QED
      BY <2>0, <2>2, <2>3 DEF Beaten
  <1>4. CASE \E m \in ships : Lands(m, p)
    <2>0. PICK m \in ships : Lands(m, p)
      BY <1>4
    <2>1. m \in Messages /\ m.epoch \in Nat /\ m.seq \in Nat \ {0} /\ m.seq - 1 \in 0..MaxWrites
          /\ m.epoch \in 0..MaxEpoch /\ m.wm \in 0..MaxWrites
      <3>1. m \in Messages
        BY DEF RepInv, Types
      <3>2. m.epoch \in 1..MaxEpoch /\ m.seq \in 1..MaxWrites /\ m.wm \in 0..MaxWrites
        BY <3>1 DEF Messages
      <3>. QED
        BY <1>0, <3>1, <3>2
    <2>2. PICK x, a : x = Received(rcv[p], node[p].epoch, m).rcv /\ a = Received(rcv[p], node[p].epoch, m).answer
      OBVIOUS
    <2>3. /\ rcv'[p] = x
          /\ \/ Rejects(rcv[p], m, x, a) \/ Asks(rcv[p], m, x, a)
             \/ Takes(rcv[p], m, x, a) \/ Refuses(rcv[p], m, x, a)
      BY <1>0, <2>0, <2>1, <2>2, ReceivedCases DEF Lands
    <2>4. FencedOK(p)'
      <3>1. rcv'[p].phase = rcv[p].phase
        BY <2>3 DEF Rejects, Asks, Takes, Refuses
      <3>2. rcv[p].phase = "fenced" => rcv'[p].tail = rcv[p].tail /\ rcv[p].observed <= rcv'[p].observed
        BY <2>3 DEF Rejects, Asks, Takes, Refuses
      <3>. QED
        BY <1>0, <3>1, <3>2, HearsFenced
    <2>5. ASSUME NEW q \in Node, node[q].epoch = m.epoch PROVE m.seq <= node[q].applied + 1
      <3>1. InHands(node[q], ships)
        BY DEF RepInv, Processing, ProcInv
      <3>. QED
        BY <1>0, <2>1, <2>5, <3>1 DEF InHands
    <2>6. BoundOK(p)'
      <3>1. CASE rcv'[p].tail = rcv[p].tail
        BY <3>1, BoundKept
      <3>2. CASE Asks(rcv[p], m, x, a) /\ rcv'[p].tail # rcv[p].tail
        <4>1. rcv[p].tail.epoch <= m.epoch
          BY <1>0, <2>1, <3>2 DEF Asks
        <4>2. Learns(rcv[p].tail, rcv'[p].tail, m.epoch, m.seq - 1)
          BY <1>0, <2>1, <2>3, <3>2, <4>1, ObserveLearns DEF Asks
        <4>3. \A q \in Node : node[q].epoch = m.epoch => m.seq - 1 <= node[q].applied + 1
          BY <1>0, <2>1, <2>5
        <4>4. m.seq - 1 \in Nat
          BY <2>1
        <4>. QED
          BY <1>1, <2>1, <4>2, <4>3, <4>4, BoundLearns
      <3>3. CASE Takes(rcv[p], m, x, a)
        <4>1. rcv[p].tail.epoch <= m.epoch
          BY <1>0, <2>1, <3>3 DEF Takes
        <4>2. Learns(rcv[p].tail, rcv'[p].tail, m.epoch, m.seq)
          BY <1>0, <2>1, <2>3, <3>3, <4>1, AcceptLearns DEF Takes
        <4>. QED
          BY <1>1, <2>1, <2>5, <4>2, BoundLearns
      <3>. QED
        BY <2>3, <3>1, <3>2, <3>3 DEF Rejects, Refuses
    <2>. QED
      BY <1>2, <2>4, <2>6, FencesByNode
  <1>. QED
    BY <1>3, <1>4

-----------------------------------------------------------------------------
(* Stranded batches *)

(* The worker of q has nothing in its hands, or what it had, or a batch that *)
(* was never sent.                                                          *)
Handles(q) ==
    \/ node'[q].op = "none"
    \/ /\ node[q].op # "none" /\ node'[q].epoch = node[q].epoch /\ node'[q].applied = node[q].applied
       /\ node'[q].write = node[q].write
       /\ node'[q].answer = node[q].answer \/ node[q].answer # "accepted"
    \/ node'[q].write = nextWrite

\* There are two nodes.
LEMMA TwoNodes ==
    ASSUME NEW n \in Node, NEW p \in Node, NEW q \in Node, p # n, q # p
    PROVE  q = n
  BY ReplicationNodes

\* What a standby's death strands was sent, and is not in hand unless it is accepted.
LEMMA ExposedFacts ==
    ASSUME RepInv, Exposing, NEW x \in Node, NEW w \in Exposed(x)
    PROVE  /\ w \in Nat /\ w < nextWrite
           /\ \A q \in Node : q # x /\ node[q].op # "none" /\ node[q].write = w => node[q].answer = "accepted"
  <1>1. PICK m \in ships : /\ m.id = w /\ m.from # x /\ m.epoch = node[m.from].epoch
                           /\ \/ node[m.from].answer = "accepted" /\ m.id = node[m.from].write
                              \/ m.seq \in (node[m.from].beat.applied + 1)..node[m.from].applied
    BY DEF Exposed
  <1>2. m \in Messages /\ m.from \in Node /\ w \in Nat /\ w < nextWrite
    BY <1>1, Constants DEF RepInv, Types, Messages, Ordered
  <1>3. ASSUME NEW q \in Node, q # x, node[q].op # "none", node[q].write = w PROVE node[q].answer = "accepted"
    <2>1. q = m.from
      BY <1>1, <1>2, <1>3, TwoNodes
    <2>2. node[q].beat.applied \in Nat /\ node[q].applied \in Nat
      BY ProcessTypes DEF RepInv, Types
    <2>3. ~(m.seq <= node[q].applied)
      BY <1>1, <1>3, <2>1 DEF Exposing, Stranding
    <2>. QED
      BY <1>1, <2>1, <2>2, <2>3
  <1>. QED
    BY <1>2, <1>3

\* The requests of a term, when none is sent.
LEMMA ExposingKept ==
    ASSUME RepInv, Exposing, Advances, Landing, \A q \in Node : Handles(q),
           NEW S, stranded' = stranded \cup S, \A w \in S : w \in Nat /\ w < nextWrite,
           \A w \in S, q \in Node : node'[q].op # "none" /\ node'[q].write = w => node'[q].answer = "accepted"
    PROVE  Exposing'
  <1>0. nextWrite \in Nat /\ nextWrite' \in Nat /\ nextWrite <= nextWrite'
    BY Constants DEF RepInv, Types, Advances
  <1>1. \A w \in stranded' : w \in Nat /\ w < nextWrite
    BY DEF Exposing
  <1>2. ASSUME NEW w \in stranded' PROVE w \in Nat /\ w < nextWrite'
    <2>1. w \in Nat /\ w < nextWrite
      BY <1>1
    <2>. QED
      BY <1>0, <2>1
  <1>3. ASSUME NEW q \in Node PROVE Stranding(q)'
    <2>. SUFFICES ASSUME node'[q].op # "none"
                  PROVE  /\ node'[q].write \in stranded' => node'[q].answer = "accepted"
                         /\ \A m \in ships' : m.epoch = node'[q].epoch /\ m.seq <= node'[q].applied =>
                               m.id # node'[q].write
      BY DEF Stranding
    <2>0. Stranding(q)
      BY DEF Exposing
    <2>1. ASSUME NEW m \in ships'
          PROVE  \E x \in ships : m.epoch = x.epoch /\ m.seq = x.seq /\ m.id = x.id
      BY <2>1 DEF Landing
    <2>2. CASE /\ node[q].op # "none" /\ node'[q].epoch = node[q].epoch /\ node'[q].applied = node[q].applied
               /\ node'[q].write = node[q].write
               /\ node'[q].answer = node[q].answer \/ node[q].answer # "accepted"
      <3>1. node'[q].write \in stranded => node'[q].answer = "accepted"
        BY <2>0, <2>2 DEF Stranding
      <3>2. \A m \in ships' : m.epoch = node'[q].epoch /\ m.seq <= node'[q].applied => m.id # node'[q].write
        BY <2>0, <2>1, <2>2 DEF Stranding
      <3>. QED
        BY <3>1, <3>2
    <2>3. CASE node'[q].write = nextWrite
      <3>1. \A x \in ships : x.id < nextWrite
        BY DEF RepInv, Ordered
      <3>2. nextWrite \notin stranded'
        BY <1>0, <1>1
      <3>3. \A m \in ships' : m.id # nextWrite
        BY <1>0, <2>1, <3>1
      <3>. QED
        BY <2>3, <3>2, <3>3
    <2>. QED
      BY <2>2, <2>3 DEF Handles
  <1>. QED
    BY <1>2, <1>3 DEF Exposing

\* A request is of the batch in hand, which is not applied.
LEMMA ExposingSends ==
    ASSUME RepInv, HonestInv, Advances, NEW n \in Node, Sends(n)
    PROVE  Exposing'
  <1>0. nextWrite \in Nat /\ nextWrite' \in Nat /\ nextWrite <= nextWrite' /\ Exposing
    BY Constants DEF RepInv, Types, Advances, HonestInv
  <1>1. ASSUME NEW w \in stranded' PROVE w \in Nat /\ w < nextWrite'
    <2>1. w \in Nat /\ w < nextWrite
      BY <1>0 DEF Exposing, Sends
    <2>. QED
      BY <1>0, <2>1
  <1>2. PICK m : /\ ships' = ships \cup {m} /\ m.epoch = node[n].epoch /\ m.seq = node[n].seq
                 /\ m.id = node[n].write
    BY DEF Sends
  <1>3. node[n].seq = node[n].applied + 1 /\ node[n].applied \in Nat /\ node[n].epoch > 0
    <2>1. node[n].seq = node[n].applied + 1
      BY DEF Sends, RepInv, Processing, ProcInv, Frontier
    <2>2. node[n].role = "serving"
      BY DEF Sends, RepInv, Processing, ProcInv, Quiescent
    <2>3. node[n].epoch # 0
      BY <2>2 DEF RepInv, Epochs
    <2>4. node[n].epoch \in Nat /\ node[n].applied \in Nat
      BY StateTypes DEF RepInv
    <2>. QED
      BY <2>1, <2>3, <2>4
  <1>4. ASSUME NEW q \in Node PROVE Stranding(q)'
    <2>0. Stranding(q) /\ stranded' = stranded
      BY <1>0 DEF Exposing, Sends
    <2>1. /\ node'[q].op # "none" => node[q].op # "none"
          /\ node'[q].epoch = node[q].epoch /\ node'[q].applied = node[q].applied
          /\ node'[q].write = node[q].write /\ node'[q].answer = node[q].answer
      <3>1. CASE q = n
        BY <3>1 DEF Sends, Stands
      <3>2. CASE q # n
        BY <3>2 DEF Sends
      <3>. QED
        BY <3>1, <3>2
    <2>2. ~(m.epoch = node[q].epoch /\ m.seq <= node[q].applied)
      <3>1. CASE q = n
        BY <1>2, <1>3, <3>1
      <3>2. CASE q # n
        BY <1>2, <1>3, <3>2 DEF RepInv, Epochs
      <3>. QED
        BY <3>1, <3>2
    <2>. QED
      BY <1>2, <2>0, <2>1, <2>2 DEF Stranding
  <1>. QED
    BY <1>1, <1>4 DEF Exposing

\* Exposing, in the steps of a node.
LEMMA ExposingSteps ==
    ASSUME RepInv, HonestInv, Advances, NEW n \in Node, Kinds(n), ~ \E p \in Node : Beaten(n, p)
    PROVE  Exposing'
  <1>0. Exposing
    BY DEF HonestInv
  <1>1. CASE Sends(n)
    BY <1>1, ExposingSends
  <1>2. CASE Ends(n)
    <2>1. PICK S \in {{}, Exposed(n)} : stranded' = stranded \cup S
      BY <1>2 DEF Ends
    <2>2. \A q \in Node : Handles(q)
      BY <1>2 DEF Ends, Blank, Handles
    <2>3. ASSUME NEW w \in S PROVE w \in Nat /\ w < nextWrite
      BY <1>0, <2>1, ExposedFacts
    <2>4. ASSUME NEW w \in S, NEW q \in Node, node'[q].op # "none", node'[q].write = w
          PROVE  node'[q].answer = "accepted"
      <3>1. q # n
        BY <1>2, <2>4 DEF Ends, Blank
      <3>2. node'[q] = node[q]
        BY <1>2, <3>1 DEF Ends
      <3>. QED
        BY <1>0, <2>1, <2>4, <3>1, <3>2, ExposedFacts
    <2>5. Landing
      BY <1>2 DEF Ends
    <2>. QED
      BY <1>0, <2>1, <2>2, <2>3, <2>4, <2>5, ExposingKept
  <1>3. CASE ~Sends(n) /\ ~Ends(n)
    <2>0. PICK S : S = {}
      OBVIOUS
    <2>1. stranded' = stranded \cup S /\ Landing
      BY <1>3, <2>0, LandingSame DEF Kinds, Labors, Accepted, Solo, Applies, Renews, Opens, Serves, Begins, Reconciles,
                               Finishes, Completes, Rises
    <2>2. ASSUME NEW q \in Node PROVE Handles(q)
      <3>1. CASE q # n
        <4>1. /\ node'[q].op = node[q].op /\ node'[q].epoch = node[q].epoch /\ node'[q].applied = node[q].applied
              /\ node'[q].write = node[q].write /\ node'[q].answer = node[q].answer
          BY <1>3, <3>1 DEF Kinds, Labors, Accepted, Solo, Applies, Renews, Opens, Serves, Begins, Reconciles,
                            Finishes, Completes, Rises, Stands, Works
        <4>. QED
          BY <4>1 DEF Handles
      <3>2. CASE q = n
        <4>1. CASE Labors(n)
          BY <3>2, <4>1 DEF Labors, Works, Stands, Handles
        <4>2. CASE Accepted(n) \/ Solo(n) \/ Renews(n) \/ Opens(n)
          BY <3>2, <4>2 DEF Accepted, Solo, Applies, Renews, Opens, Blank, Handles
        <4>3. CASE Rises(n)
          BY <3>2, <4>3 DEF Rises, Works, Handles
        <4>4. CASE Serves(n)
          BY <3>2, <4>4 DEF Serves, Works, Handles
        <4>. QED
          BY <1>3, <4>1, <4>2, <4>3, <4>4 DEF Kinds, Begins, Reconciles, Finishes, Completes
      <3>. QED
        BY <3>1, <3>2
    <2>. QED
      BY <1>0, <2>0, <2>1, <2>2, ExposingKept
  <1>. QED
    BY <1>1, <1>2, <1>3

\* ... and of a receiver that hears.
LEMMA ExposingHears ==
    ASSUME RepInv, HonestInv, Advances, NEW p \in Node,
           (\E n \in Node : Beaten(n, p)) \/ \E m \in ships : Lands(m, p)
    PROVE  Exposing'
  <1>0. PICK S : S = {}
    OBVIOUS
  <1>1. stranded' = stranded \cup S /\ Landing /\ Exposing
    BY <1>0 DEF Beaten, Lands, Hears, HonestInv
  <1>2. ASSUME NEW q \in Node PROVE Handles(q)
    <2>1. /\ node'[q].op = node[q].op /\ node'[q].epoch = node[q].epoch /\ node'[q].applied = node[q].applied
          /\ node'[q].write = node[q].write
      BY DEF Beaten, Lands, Hears, Stands
    <2>2. node'[q].answer = node[q].answer \/ node[q].answer # "accepted"
      BY DEF Beaten, Lands, Waiting
    <2>. QED
      BY <2>1, <2>2 DEF Handles
  <1>. QED
    BY <1>0, <1>1, <1>2, ExposingKept

-----------------------------------------------------------------------------
(* Accepted requests *)

(* The leader n was told that its batch is accepted; the standby p has it.  *)
Accepts(n) ==
    node[n].lease /\ ~node[n].tainted /\ node[n].answer = "accepted" /\ node[n].write \notin stranded
Has(n, p) ==
    /\ rcv[p].phase = "standby" /\ rcv[p].observed = node[n].epoch
    /\ UpToDate(rcv[p].tail, node[n]) /\ node[n].seq - 1 <= rcv[p].tail.max

\* Accepting, by leader and standby.
LEMMA AcceptingByPair ==
    /\ Accepting <=> \A n, p \in Node : p # n => (Accepts(n) => Has(n, p))
    /\ Accepting' <=> \A n, p \in Node : p # n => (Accepts(n)' => Has(n, p)')
  BY DEF Accepting, Accepts, Told, Has

\* A leader that is told nothing new, and a standby that hears nothing.
LEMMA HasStill ==
    ASSUME HonestInv, NEW n \in Node, NEW p \in Node, p # n,
           Accepts(n), rcv'[p] = rcv[p], node'[n].epoch = node[n].epoch, node'[n].seq = node[n].seq,
           node'[n].applied = node[n].applied
    PROVE  Has(n, p)'
  <1>1. Has(n, p)
    BY AcceptingByPair DEF HonestInv
  <1>. QED
    BY <1>1 DEF Has, UpToDate

\* A leader with a lease whose batch was accepted: the other process is a standby.
LEMMA OtherIdle ==
    ASSUME RepInv, HonestInv, NEW n \in Node, NEW p \in Node, p # n, Accepts(n)
    PROVE  /\ node[p].role \notin Promoted /\ ~(owner = p /\ node[p].role = "opened")
           /\ node[n].role = "serving" /\ Latest(n)
  <1>1. Has(n, p)
    BY AcceptingByPair DEF HonestInv
  <1>2. node[p].role \notin Promoted
    BY <1>1 DEF Has, RepInv, Receiving, Promoted
  <1>3. node[n].role = "serving" /\ Latest(n) /\ (owner = p => node[p].epoch = 0)
    BY DEF HonestInv, Leases, Accepts
  <1>4. owner = p => node[p].role # "opened"
    BY <1>3 DEF RepInv, Epochs
  <1>. QED
    BY <1>2, <1>3, <1>4

\* Accepting, in the steps of a node that hears nothing.
LEMMA AcceptingSteps ==
    ASSUME RepInv, HonestInv, NEW x \in Node, Kinds(x), ~ \E p \in Node : Beaten(x, p)
    PROVE  Accepting'
  <1>. SUFFICES ASSUME NEW n \in Node, NEW p \in Node, p # n, Accepts(n)'
                PROVE  Has(n, p)'
    BY AcceptingByPair
  <1>1. CASE x = n
    <2>1. node[n].op # "sent" => node[n].answer = "none"
      BY DEF HonestInv, Sending
    <2>2. node[n].role # "serving" => node[n].answer = "none"
      BY DEF HonestInv, Tokens
    <2>3. Labors(n)
      <3>1. CASE Sends(n)
        BY <2>1, <3>1 DEF Sends, Accepts
      <3>2. CASE Accepted(n) \/ Solo(n)
        BY <3>2 DEF Accepted, Solo, Applies, Accepts
      <3>3. CASE Renews(n) \/ Ends(n) \/ Opens(n)
        BY <3>3 DEF Renews, Ends, Opens, Blank, Accepts
      <3>4. CASE Serves(n)
        BY <2>2, <3>4 DEF Serves, Works, Accepts
      <3>5. CASE Begins(n) \/ Reconciles(n) \/ Finishes(n) \/ Completes(n)
        BY <2>2, <3>5 DEF Begins, Reconciles, Finishes, Completes, Rises, Works, Accepts
      <3>. QED
        BY <1>1, <3>1, <3>2, <3>3, <3>4, <3>5 DEF Kinds
    <2>4. Works(node'[n], node[n]) /\ Accepts(n) /\ Stands(node'[n], node[n]) /\ rcv' = rcv
      BY <2>1, <2>3 DEF Labors, Accepts, Works, Stands
    <2>. QED
      BY <2>4, HasStill DEF Works, Stands
  <1>2. CASE x # n
    <2>0. x = p
      BY <1>2, TwoNodes
    <2>1. ~Opens(x)
      BY <1>2 DEF Opens, Accepts
    <2>2. node'[n] = node[n]
      BY <1>2, <2>1 DEF Kinds, Labors, Sends, Accepted, Solo, Applies, Renews, Ends, Serves, Begins, Reconciles,
                        Finishes, Completes, Rises
    <2>3. Accepts(n)
      <3>1. stranded \subseteq stranded'
        BY DEF Kinds, Labors, Sends, Accepted, Solo, Applies, Renews, Opens, Ends, Serves, Begins, Reconciles,
               Finishes, Completes, Rises
      <3>. QED
        BY <2>2, <3>1 DEF Accepts
    <2>4. /\ node[p].role \notin Promoted /\ ~(owner = p /\ node[p].role = "opened")
          /\ node[n].role = "serving" /\ Latest(n)
      BY <2>3, OtherIdle
    <2>5. ~(Ends(x) /\ (StepDown(x) \/ Crash(x) \/ Reconcile(x)))
      <3>1. ~StepDown(x) /\ ~Reconcile(x)
        BY <2>0, <2>4 DEF StepDown, Reconcile, Promoted
      <3>2. ~Crash(x)
        <4>1. PICK m \in ships : m.epoch = node[n].epoch /\ m.id = node[n].write
          BY <2>3 DEF HonestInv, Sending, Accepts, Shipped
        <4>2. m.from = n
          BY <4>1 DEF HonestInv, Sending
        <4>3. node[n].write \in Exposed(x)
          BY <1>2, <2>3, <4>1, <4>2 DEF Exposed, Accepts
        <4>4. node[n].write \notin stranded'
          BY <2>2 DEF Accepts
        <4>. QED
          BY <4>3, <4>4 DEF Crash
      <3>. QED
        BY <3>1, <3>2
    <2>6. rcv'[p] = rcv[p]
      BY <2>0, <2>1, <2>4, <2>5 DEF Kinds, Labors, Sends, Accepted, Solo, Applies, Renews, Serves, Begins, Reconciles,
                        Finishes, Completes, Rises, Promoted
    <2>. QED
      BY <2>2, <2>3, <2>6, HasStill
  <1>. QED
    BY <1>1, <1>2

\* A heartbeat adds nothing to a tail that has everything.
LEMMA AcceptingBeaten ==
    ASSUME RepInv, HonestInv, NEW x \in Node, NEW y \in Node, Beaten(x, y)
    PROVE  Accepting'
  <1>. SUFFICES ASSUME NEW n \in Node, NEW p \in Node, p # n, Accepts(n)'
                PROVE  Has(n, p)'
    BY AcceptingByPair
  <1>1. /\ Accepts(n) /\ node'[n].epoch = node[n].epoch /\ node'[n].seq = node[n].seq
        /\ node'[n].applied = node[n].applied
    BY DEF Beaten, Hears, Stands, Accepts
  <1>2. CASE y # p
    <2>1. rcv'[p] = rcv[p]
      BY <1>2 DEF Beaten, Hears
    <2>. QED
      BY <1>1, <2>1, HasStill
  <1>3. CASE y = p
    <2>1. x = n
      BY <1>3, TwoNodes DEF Beaten
    <2>2. Has(n, p)
      BY <1>1, AcceptingByPair DEF HonestInv
    <2>3. PICK e, a, d, t, u : /\ e = node[n].epoch /\ a = node[n].beat.applied /\ d = node[n].beat.durable
                               /\ t = rcv[p].tail /\ u = rcv'[p].tail
      OBVIOUS
    <2>4. u = ObserveCoverage(t, e, a, d) /\ rcv'[p].observed = e /\ rcv'[p].phase = "standby"
      BY <1>3, <2>1, <2>2, <2>3 DEF Beaten, Has
    <2>5. e \in 0..MaxEpoch /\ a \in 0..MaxWrites /\ d \in 0..MaxWrites
      <3>1. node[n] \in Processes
        BY DEF RepInv, Types
      <3>2. node[n].beat \in Beats
        BY <3>1 DEF Processes
      <3>. QED
        BY <2>3, <3>1, <3>2 DEF Beats, Processes
    <2>6. t \in Tails /\ t.epoch = e /\ Covered(t) /\ e \in Nat
      BY <2>2, <2>3, StateTypes DEF RepInv, Has, UpToDate
    <2>7. a <= t.max
      <3>1. a <= node[n].applied /\ node[n].applied <= t.max
        BY <2>2, <2>3 DEF Has, UpToDate, RepInv, Processing, ProcInv, Frontier
      <3>2. t.max \in Nat /\ a \in Nat /\ node[n].applied \in Nat
        BY <2>5, <2>6, StateTypes, Constants DEF Tails, RepInv
      <3>. QED
        BY <3>1, <3>2
    <2>8. Covered(u) /\ u.epoch = e /\ u.max = t.max
      <3>1. t.epoch <= e
        BY <2>6
      <3>. QED
        BY <2>4, <2>5, <2>6, <2>7, <3>1, ObserveLearns
    <2>. QED
      BY <1>1, <2>2, <2>3, <2>4, <2>8 DEF Has, UpToDate
  <1>. QED
    BY <1>2, <1>3

\* A request that is accepted completes the tail; one that nobody waits for is late.
LEMMA AcceptingLands ==
    ASSUME RepInv, HonestInv, NEW m \in ships, NEW y \in Node, Lands(m, y)
    PROVE  Accepting'
  <1>. SUFFICES ASSUME NEW n \in Node, NEW p \in Node, p # n, Accepts(n)'
                PROVE  Has(n, p)'
    BY AcceptingByPair
  <1>1. /\ node[n].lease /\ ~node[n].tainted /\ node'[n].epoch = node[n].epoch /\ node'[n].seq = node[n].seq
        /\ node'[n].applied = node[n].applied /\ node[n].write \notin stranded
    BY DEF Lands, Hears, Stands, Accepts
  <1>2. node[n].role = "serving" /\ Latest(n)
    BY <1>1 DEF HonestInv, Leases
  <1>3. /\ m \in Messages /\ m.epoch \in Nat /\ m.seq \in Nat /\ rcv[y] \in Receivers /\ rcv[y].tail \in Tails
        /\ rcv[y].observed \in Nat /\ rcv[y].tail.epoch \in Nat /\ rcv[y].tail.epoch <= rcv[y].observed
        /\ node[n].epoch \in Nat /\ node[n].applied \in Nat /\ m.from \in Node
    BY StateTypes DEF RepInv, Receiving, Messages
  <1>4. PICK r, z, a : /\ r = rcv[y] /\ z = Received(rcv[y], node[y].epoch, m).rcv
                       /\ a = Received(rcv[y], node[y].epoch, m).answer
    OBVIOUS
  <1>5. /\ rcv'[y] = z
        /\ Rejects(r, m, z, a) \/ Asks(r, m, z, a) \/ Takes(r, m, z, a) \/ Refuses(r, m, z, a)
    BY <1>3, <1>4, ReceivedCases DEF Lands
  <1>6. CASE node'[n].answer = node[n].answer
    <2>0. Accepts(n) /\ Has(n, p)
      BY <1>1, <1>6, AcceptingByPair DEF Accepts, HonestInv
    <2>1. rcv'[p] = rcv[p]
      <3>1. CASE y # p
        BY <3>1 DEF Lands, Hears
      <3>2. CASE y = p
        <4>1. m.epoch # node[n].epoch
          BY <1>1, <2>0, FlyingFacts DEF Lands, Accepts
        <4>2. m.epoch < r.observed /\ r.phase = "standby"
          BY <1>2, <1>3, <1>4, <2>0, <3>2, <4>1 DEF Latest, Has
        <4>3. z = r
          BY <1>3, <1>4, <1>5, <4>2 DEF Rejects, Asks, Takes, Refuses
        <4>. QED
          BY <1>4, <1>5, <3>2, <4>3
      <3>. QED
        BY <3>1, <3>2
    <2>. QED
      BY <1>1, <2>0, <2>1, HasStill
  <1>7. CASE n = m.from /\ Waiting(m) /\ node'[n].answer = a
    <2>1. y = p
      BY <1>3, <1>7, TwoNodes DEF Lands
    <2>2. Takes(r, m, z, a)
      BY <1>5, <1>7 DEF Accepts, Rejects, Asks, Refuses
    <2>3. m.epoch = node[n].epoch /\ node[n].seq = m.seq + 1 /\ m.seq = node[n].applied + 1
      <3>1. m.epoch = node[n].epoch /\ node[n].seq = m.seq + 1 /\ node[n].op = "sent"
        BY <1>7 DEF Waiting
      <3>2. node[n].seq = node[n].applied + 2
        BY <3>1 DEF RepInv, Processing, ProcInv, Frontier
      <3>. QED
        BY <1>3, <3>1, <3>2
    <2>4. r.tail.epoch <= m.epoch
      BY <1>3, <1>4, <2>2 DEF Takes
    <2>5. r.tail.epoch = m.epoch => r.tail.max <= m.seq
      <3>1. node[n].epoch > 0
        BY <1>2, LeaseHasTerm
      <3>2. BoundOK(y)
        BY FencesByNode DEF HonestInv
      <3>. QED
        BY <1>4, <2>3, <3>1, <3>2 DEF BoundOK
    <2>6. Learns(r.tail, z.tail, m.epoch, m.seq) /\ Covered(z.tail)
      BY <1>3, <1>4, <2>2, <2>4, <2>5, AcceptLearns DEF Takes
    <2>7. z.tail.epoch = m.epoch /\ m.seq <= z.tail.max
      <3>1. r.tail.max \in Nat
        BY <1>3, <1>4, Constants DEF Tails
      <3>2. z.tail.epoch = m.epoch /\ z.tail.max = Larger(IF m.epoch = r.tail.epoch THEN r.tail.max ELSE 0, m.seq)
        BY <2>6 DEF Learns
      <3>. QED
        BY <1>3, <3>1, <3>2 DEF Larger
    <2>8. z.phase = "standby" /\ z.observed = m.epoch
      BY <2>2 DEF Takes
    <2>9. z.tail.max \in Nat
      BY <2>6, Constants DEF Learns, Tails
    <2>10. node[n].applied <= z.tail.max /\ node[n].seq - 1 <= z.tail.max
      BY <1>3, <2>3, <2>7, <2>9
    <2>. QED
      BY <1>1, <1>5, <2>1, <2>3, <2>6, <2>7, <2>8, <2>10 DEF Has, UpToDate
  <1>. QED
    BY <1>4, <1>6, <1>7 DEF Lands

-----------------------------------------------------------------------------
(* What is held of a batch that is not on shared storage *)

(* A process goes on, starts over, or opens the database in a later term.   *)
Passes(q, e) ==
    \/ Goes(q) /\ (node'[q].role \in Promoted => node[q].role \in Promoted \/ e <= node[q].epoch)
    \/ Resets(q)
    \/ e < node'[q].epoch /\ node'[q].role = "opened"
(* The stamp is the same, or of a process that serves.                      *)
StampOK ==
    \/ disk'.stamp.epoch = disk.stamp.epoch
    \/ \E q \in Node : node[q].role = "serving" /\ disk'.stamp.epoch = node[q].epoch
(* The requests are the same, or newer than batch k of term e ...           *)
Later(e, k) ==
    \A m \in ships' : \/ \E x \in ships : m.epoch = x.epoch /\ (m.flying => m = x)
                      \/ m.epoch = e /\ k < m.seq
(* ... and those of older terms come too late.                              *)
TooLate(e) ==
    \A m \in ships' : m.flying /\ m.epoch < e =>
       \A p \in Node : p # m.from => rcv[p].observed <= rcv'[p].observed

\* The state after the step, as far as numbers go.
LEMMA NextTypes ==
    ASSUME RepInv'
    PROVE  \A q \in Node : /\ node'[q] \in Processes /\ node'[q].epoch \in Nat /\ node'[q].applied \in Nat
                           /\ rcv'[q] \in Receivers /\ rcv'[q].observed \in Nat /\ rcv'[q].tail \in Tails
                           /\ rcv'[q].tail.max \in Nat /\ rcv'[q].tail.epoch \in Nat
  <1>. TAKE q \in Node
  <1>1. node'[q] \in Processes /\ rcv'[q] \in Receivers
    BY DEF RepInv, Types
  <1>2. rcv'[q].tail \in Tails /\ rcv'[q].observed \in Nat
    BY <1>1 DEF Receivers
  <1>3. rcv'[q].tail.max \in Nat /\ rcv'[q].tail.epoch \in Nat
    BY <1>2, Constants DEF Tails
  <1>4. node'[q].epoch \in Nat /\ node'[q].applied \in Nat
    BY <1>1, ProcessTypes
  <1>. QED
    BY <1>1, <1>2, <1>3, <1>4

\* The newest batch stays the newest.
LEMMA NewestKept ==
    ASSUME RepInv, RepInv', NEW e \in Nat, NEW k \in Nat, e > 0, Newest(e, k),
           disk'.lineage = disk.lineage, StampOK, Later(e, k), TooLate(e), \A q \in Node : Passes(q, e)
    PROVE  Newest(e, k)'
  <1>1. ASSUME NEW m \in ships' PROVE m.epoch <= e /\ (m.flying /\ m.epoch = e => k < m.seq)
    BY <1>1 DEF Later, Newest
  <1>2. ASSUME NEW m \in ships', m.flying, m.epoch < e, NEW p \in Node, p # m.from
        PROVE  e <= rcv'[p].observed
    <2>1. m \in ships
      BY <1>2 DEF Later
    <2>2. e <= rcv[p].observed /\ rcv[p].observed <= rcv'[p].observed
      BY <1>2, <2>1 DEF TooLate, Newest
    <2>3. rcv[p].observed \in Nat /\ rcv'[p].observed \in Nat
      BY StateTypes, NextTypes DEF RepInv
    <2>. QED
      BY <2>2, <2>3
  <1>3. disk'.stamp.epoch <= e
    <2>1. CASE disk'.stamp.epoch = disk.stamp.epoch
      BY <2>1 DEF Newest
    <2>2. CASE \E q \in Node : node[q].role = "serving" /\ disk'.stamp.epoch = node[q].epoch
      BY <2>2 DEF Newest
    <2>. QED
      BY <2>1, <2>2 DEF StampOK
  <1>4. ASSUME NEW q \in Node
        PROVE  /\ node'[q].epoch = e =>
                     node'[q].role = "serving" /\ node'[q].token = disk'.lineage /\ k <= node'[q].applied
               /\ node'[q].role \in Promoted => e <= node'[q].epoch
               /\ node'[q].role = "serving" => node'[q].epoch = e
    <2>0. node[q].applied \in Nat /\ node'[q].applied \in Nat /\ node'[q].epoch \in Nat
      BY StateTypes, NextTypes DEF RepInv
    <2>1. CASE Goes(q) /\ (node'[q].role \in Promoted => node[q].role \in Promoted \/ e <= node[q].epoch)
      BY <2>0, <2>1 DEF Goes, Newest
    <2>2. CASE Resets(q)
      BY <2>2 DEF Resets, Idle, Promoted
    <2>3. CASE e < node'[q].epoch /\ node'[q].role = "opened"
      BY <2>0, <2>3 DEF Promoted
    <2>. QED
      BY <2>1, <2>2, <2>3 DEF Passes
  <1>. QED
    BY <1>1, <1>2, <1>3, <1>4 DEF Newest

\* A process that goes on in its rank.
LEMMA PassesOn ==
    ASSUME NEW q \in Node, NEW e, Goes(q), node'[q].role = node[q].role \/ node[q].role \in Promoted
    PROVE  Passes(q, e)
  BY DEF Passes

\* What lands is not new.
LEMMA LandingLater ==
    ASSUME Landing, NEW e, NEW k
    PROVE  Later(e, k)
  BY DEF Landing, Later

\* The leader's steps.
LEMMA NewestLeader ==
    ASSUME RepInv, RepInv', HonestInv, NEW e \in Nat, NEW k \in Nat, e > 0, Newest(e, k),
           NEW n \in Node, Labors(n) \/ Sends(n) \/ Accepted(n)
    PROVE  Newest(e, k)'
  <1>1. Calm
    BY CalmLeader
  <1>2. ASSUME NEW q \in Node PROVE Passes(q, e)
    <2>1. node'[q].role = node[q].role
      BY DEF Labors, Sends, Accepted, Applies, Stands
    <2>2. node'[q].epoch = node[q].epoch
      BY DEF Labors, Sends, Accepted, Applies, Stands
    <2>3. Goes(q) \/ Resets(q)
      BY <1>1 DEF Calm
    <2>. QED
      BY <2>1, <2>3, PassesOn DEF Passes
  <1>3. StampOK
    BY DEF StampOK, Labors, Sends, Accepted, Flushes
  <1>4. TooLate(e)
    BY StateTypes DEF TooLate, RepInv, Labors, Sends, Accepted, Applies
  <1>5. disk'.lineage = disk.lineage
    BY <1>1 DEF Calm
  <1>6. Later(e, k)
    <2>1. CASE Labors(n) \/ Accepted(n)
      BY <2>1, LandingSame, LandingLater DEF Labors, Accepted, Applies
    <2>2. CASE Sends(n)
      <3>1. PICK m : /\ ships' = ships \cup {m} /\ m.epoch = node[n].epoch /\ m.seq = node[n].seq
        BY <2>2 DEF Sends
      <3>2. node[n].role = "serving" /\ node[n].seq = node[n].applied + 1 /\ node[n].applied \in Nat
        BY <2>2, StateTypes DEF Sends, RepInv, Processing, ProcInv, Frontier, Quiescent
      <3>3. node[n].epoch = e /\ k <= node[n].applied
        BY <3>2 DEF Newest
      <3>4. m.epoch = e /\ k < m.seq
        BY <3>1, <3>2, <3>3
      <3>. QED
        BY <3>1, <3>4 DEF Later
    <2>. QED
      BY <2>1, <2>2
  <1>. QED
    BY <1>2, <1>3, <1>4, <1>5, <1>6, NewestKept

\* The end of a process, and a new start.
LEMMA NewestReset ==
    ASSUME RepInv, RepInv', HonestInv, NEW e \in Nat, NEW k \in Nat, e > 0, Newest(e, k),
           NEW n \in Node, Ends(n) \/ Renews(n)
    PROVE  Newest(e, k)'
  <1>1. ASSUME NEW q \in Node PROVE Passes(q, e)
    <2>1. CASE q = n
      BY <2>1 DEF Passes, Resets, Ends, Renews, Idle
    <2>2. CASE q # n
      <3>1. node'[q] = node[q]
        BY <2>2 DEF Ends, Renews
      <3>. QED
        BY <3>1, GoesSame, PassesOn
    <2>. QED
      BY <2>1, <2>2
  <1>2. StampOK /\ disk'.lineage = disk.lineage
    BY DEF StampOK, Ends, Renews
  <1>3. Later(e, k)
    BY LandingSame, LandingLater DEF Ends, Renews
  <1>4. TooLate(e)
    <2>. SUFFICES ASSUME NEW m \in ships', m.flying, m.epoch < e, NEW p \in Node, p # m.from
                  PROVE  rcv[p].observed <= rcv'[p].observed
      BY DEF TooLate
    <2>0. rcv[p].observed \in Nat
      BY StateTypes DEF RepInv
    <2>1. CASE p # n
      BY <2>0, <2>1 DEF Ends, Renews
    <2>2. CASE Renews(n) /\ p = n
      BY <2>0, <2>2 DEF Renews
    <2>3. CASE Ends(n) /\ p = n
      <3>1. m \in ships /\ Waiting(m)
        BY <2>3 DEF Ends, Landing
      <3>2. m.from \in Node
        BY <3>1 DEF RepInv, Types, Messages
      <3>3. node[m.from].op = "sent" /\ node[m.from].epoch = m.epoch
        BY <3>1 DEF Waiting
      <3>4. node[m.from].role = "serving"
        BY <3>2, <3>3 DEF RepInv, Processing, ProcInv, Quiescent
      <3>. QED
        BY <3>2, <3>3, <3>4 DEF Newest
    <2>. QED
      BY <2>1, <2>2, <2>3
  <1>. QED
    BY <1>1, <1>2, <1>3, <1>4, NewestKept

\* A promotion, of the newest term.
LEMMA NewestRise ==
    ASSUME RepInv, RepInv', HonestInv, NEW e \in Nat, NEW k \in Nat, e > 0, Newest(e, k),
           \E m \in ships : m.epoch = e,
           NEW n \in Node, Begins(n) \/ Reconciles(n) \/ Finishes(n) \/ Completes(n)
    PROVE  Newest(e, k)'
  <1>0. Rises(n)
    BY DEF Begins, Reconciles, Finishes, Completes
  <1>1. Calm
    BY <1>0, CalmRise
  <1>2. ASSUME NEW q \in Node PROVE Passes(q, e)
    <2>1. CASE q # n
      <3>1. node'[q] = node[q]
        BY <1>0, <2>1 DEF Rises
      <3>. QED
        BY <3>1, GoesSame, PassesOn
    <2>2. CASE q = n
      <3>1. Goes(n)
        <4>1. node'[n].role \notin Idle
          BY <1>0 DEF Rises, Idle
        <4>. QED
          BY <1>1, <4>1 DEF Calm, Resets
      <3>2. CASE Begins(n)
        <4>1. owner = n /\ node[n].epoch > 0
          <5>1. owner = n /\ node[n].role = "opened"
            BY <3>2 DEF Begins
          <5>2. node[n].epoch # 0
            BY <5>1 DEF RepInv, Epochs
          <5>3. node[n].epoch \in Nat
            BY StateTypes DEF RepInv
          <5>. QED
            BY <5>1, <5>2, <5>3
        <4>2. Latest(n)
          BY <4>1 DEF HonestInv, Owning
        <4>3. e <= node[n].epoch
          BY <4>2 DEF Latest
        <4>. QED
          BY <2>2, <3>1, <4>3 DEF Passes
      <3>3. CASE Reconciles(n) \/ Finishes(n) \/ Completes(n)
        BY <2>2, <3>1, <3>3, PassesOn DEF Reconciles, Finishes, Completes, Promoted
      <3>. QED
        BY <3>2, <3>3
    <2>. QED
      BY <2>1, <2>2
  <1>3. StampOK
    BY <1>0 DEF StampOK, Rises, Flushes
  <1>4. Later(e, k) /\ disk'.lineage = disk.lineage
    BY <1>0, <1>1, LandingSame, LandingLater DEF Rises, Calm
  <1>5. TooLate(e)
    <2>1. ASSUME NEW p \in Node PROVE rcv[p].observed <= rcv'[p].observed
      <3>0. rcv[p].observed \in Nat
        BY StateTypes DEF RepInv
      <3>1. CASE p # n
        BY <1>0, <3>0, <3>1 DEF Rises
      <3>2. rcv'[n].observed = rcv[n].observed \/ rcv[n].observed <= rcv'[n].observed
        BY DEF Begins, Reconciles, Finishes, Completes
      <3>. QED
        BY <3>0, <3>1, <3>2
    <2>. QED
      BY <2>1 DEF TooLate
  <1>. QED
    BY <1>2, <1>3, <1>4, <1>5, NewestKept

\* A successor opens the database.
LEMMA NewestOpens ==
    ASSUME RepInv, RepInv', HonestInv, NEW e \in Nat, NEW k \in Nat, e > 0, Newest(e, k),
           \E m \in ships : m.epoch = e, NEW n \in Node, Opens(n)
    PROVE  Newest(e, k)'
  <1>0. e <= dbEpoch /\ dbEpoch \in Nat
    BY StateTypes DEF RepInv, Epochs
  <1>1. ASSUME NEW q \in Node PROVE Passes(q, e)
    <2>1. CASE q = n
      BY <1>0, <2>1 DEF Passes, Opens
    <2>2. CASE q # n
      <3>1. /\ Stands(node'[q], node[q]) /\ Works(node'[q], node[q]) /\ ~node'[q].lease
            /\ node'[q].beat = node[q].beat
        BY <2>2 DEF Opens
      <3>. QED
        BY <3>1, GoesOn, PassesOn DEF Works, Stands
    <2>. QED
      BY <2>1, <2>2
  <1>2. StampOK /\ disk'.lineage = disk.lineage
    BY DEF StampOK, Opens
  <1>3. Later(e, k)
    BY LandingSame, LandingLater DEF Opens
  <1>4. TooLate(e)
    BY StateTypes DEF TooLate, RepInv, Opens
  <1>. QED
    BY <1>1, <1>2, <1>3, <1>4, NewestKept

\* A receiver never observes less than before.
LEMMA HearsMore ==
    ASSUME RepInv, NEW p \in Node, (\E n \in Node : Beaten(n, p)) \/ \E m \in ships : Lands(m, p)
    PROVE  rcv[p].observed <= rcv'[p].observed
  <1>0. rcv[p] \in Receivers /\ rcv[p].observed \in Nat
    BY StateTypes DEF RepInv
  <1>1. CASE \E n \in Node : Beaten(n, p)
    BY <1>0, <1>1 DEF Beaten
  <1>2. CASE \E m \in ships : Lands(m, p)
    <2>1. PICK m \in ships : Lands(m, p)
      BY <1>2
    <2>2. m \in Messages
      BY DEF RepInv, Types
    <2>3. PICK r, z, a : /\ r = rcv[p] /\ z = Received(rcv[p], node[p].epoch, m).rcv
                         /\ a = Received(rcv[p], node[p].epoch, m).answer
      OBVIOUS
    <2>4. Rejects(r, m, z, a) \/ Asks(r, m, z, a) \/ Takes(r, m, z, a) \/ Refuses(r, m, z, a)
      BY <1>0, <2>2, <2>3, ReceivedCases
    <2>5. rcv'[p] = z
      BY <2>1, <2>3 DEF Lands
    <2>. QED
      BY <1>0, <2>3, <2>4, <2>5 DEF Rejects, Asks, Takes, Refuses
  <1>. QED
    BY <1>1, <1>2

\* A receiver hears of a leader.
LEMMA NewestHear ==
    ASSUME RepInv, RepInv', HonestInv, NEW e \in Nat, NEW k \in Nat, e > 0, Newest(e, k),
           NEW p \in Node, (\E n \in Node : Beaten(n, p)) \/ \E m \in ships : Lands(m, p)
    PROVE  Newest(e, k)'
  <1>0. Hears(p)
    BY DEF Beaten, Lands
  <1>1. Calm
    BY CalmHear
  <1>2. ASSUME NEW q \in Node PROVE Passes(q, e)
    <2>1. node'[q].role = node[q].role
      BY <1>0 DEF Hears, Stands
    <2>. QED
      BY <1>1, <2>1, PassesOn DEF Calm, Passes
  <1>3. StampOK /\ disk'.lineage = disk.lineage /\ Later(e, k)
    BY <1>0, LandingLater DEF StampOK, Hears
  <1>4. TooLate(e)
    BY <1>0, HearsMore, StateTypes DEF TooLate, Hears, RepInv
  <1>. QED
    BY <1>2, <1>3, <1>4, NewestKept

\* A tail that stays, in the term a takeover would ask for.
LEMMA KnowsSame ==
    ASSUME NEW q \in Node, NEW e, NEW k, Knows(q, e, k), rcv'[q].tail = rcv[q].tail,
           \/ node'[q].role = node[q].role /\ node'[q].snap = node[q].snap /\ rcv'[q].observed = rcv[q].observed
           \/ /\ node[q].role \notin Promoted /\ node'[q].role \notin Promoted /\ rcv'[q].observed = rcv[q].observed
           \/ /\ node[q].role \notin Promoted /\ node'[q].role = "promoting" /\ node'[q].snap = rcv[q].observed
           \/ node'[q].role = node[q].role /\ node[q].role \in Promoted /\ node'[q].snap = node[q].snap
           \/ node'[q].role \in {"replaying", "replayed", "promoted", "serving"}
    PROVE  Knows(q, e, k)'
  BY DEF Knows, Term, Promoted

\* What a takeover would go by, in the steps that hear nothing.
LEMMA KnowsSteps ==
    ASSUME RepInv, RepInv', HonestInv, NEW e, NEW k, \A q \in Node : Knows(q, e, k), NEW n \in Node,
           \/ Labors(n) \/ Sends(n) \/ Accepted(n) \/ Ends(n) \/ Renews(n) \/ Opens(n)
           \/ Begins(n) \/ Reconciles(n) \/ Finishes(n) \/ Completes(n)
    PROVE  \A q \in Node : Knows(q, e, k)'
  <1>1. ASSUME NEW q \in Node, q # n PROVE Knows(q, e, k)'
    <2>1. rcv'[q] = rcv[q] /\ node'[q].role = node[q].role /\ node'[q].snap = node[q].snap
      BY <1>1 DEF Labors, Sends, Accepted, Applies, Ends, Renews, Opens, Rises, Begins, Reconciles, Finishes,
                  Completes, Stands
    <2>. QED
      BY <2>1, KnowsSame
  <1>2. Knows(n, e, k)'
    <2>1. CASE Labors(n) \/ Sends(n) \/ Accepted(n)
      <3>1. rcv'[n] = rcv[n] /\ node'[n].role = node[n].role /\ node'[n].snap = node[n].snap
        BY <2>1 DEF Labors, Sends, Accepted, Applies, Stands
      <3>. QED
        BY <3>1, KnowsSame
    <2>2. CASE Ends(n)
      <3>1. rcv'[n].tail.max = 0
        BY <2>2 DEF Ends, NewReceiver, NoTail
      <3>. QED
        BY <3>1 DEF Knows
    <2>3. CASE Renews(n) /\ rcv'[n] = rcv[n] /\ node[n].role \notin Promoted
      <3>1. node'[n].role \notin Promoted
        BY <2>3 DEF Renews, Promoted
      <3>. QED
        BY <2>3, <3>1, KnowsSame
    <2>4. CASE Renews(n) /\ ~(rcv'[n] = rcv[n] /\ node[n].role \notin Promoted)
      <3>1. /\ node[n].role \in Promoted /\ rcv'[n].tail = rcv[n].tail /\ node[n].epoch < rcv'[n].observed
            /\ node'[n].role # "promoting"
        BY <2>4 DEF Renews
      <3>2. rcv[n].phase = "fenced"
        BY <3>1 DEF RepInv, Receiving, Promoted
      <3>3. rcv[n].tail.epoch <= node[n].epoch
        BY <3>2, FencesByNode DEF HonestInv, FencedOK
      <3>4. rcv[n].tail.epoch \in Nat /\ node[n].epoch \in Nat /\ rcv'[n].observed \in Nat
        BY StateTypes, NextTypes DEF RepInv
      <3>5. rcv'[n].tail.epoch # rcv'[n].observed
        BY <3>1, <3>3, <3>4
      <3>. QED
        BY <3>1, <3>5 DEF Knows, Term
    <2>5. CASE Opens(n)
      <3>1. node[n].role \notin Promoted /\ node'[n].role \notin Promoted /\ rcv'[n] = rcv[n]
        BY <2>5 DEF Opens, Promoted
      <3>. QED
        BY <3>1, KnowsSame
    <2>6. CASE Begins(n)
      <3>1. /\ node[n].role \notin Promoted /\ node'[n].role = "promoting" /\ node'[n].snap = rcv[n].observed
            /\ rcv'[n].tail = rcv[n].tail
        BY <2>6 DEF Begins, Promoted
      <3>. QED
        BY <3>1, KnowsSame
    <2>7. CASE Reconciles(n) \/ Finishes(n) \/ Completes(n)
      BY <2>7 DEF Reconciles, Finishes, Completes, Knows
    <2>. QED
      BY <2>1, <2>2, <2>3, <2>4, <2>5, <2>6, <2>7
  <1>. QED
    BY <1>1, <1>2

\* A heartbeat tells what its leader has applied.
LEMMA KnowsBeaten ==
    ASSUME RepInv, RepInv', HonestInv, NEW e \in Nat, NEW k \in Nat, Held(e, k),
           NEW n \in Node, NEW p \in Node, Beaten(n, p)
    PROVE  \A q \in Node : Knows(q, e, k)'
  <1>0. /\ Newest(e, k) /\ Tells(n, p, e, k)
        /\ \A q \in Node : Knows(q, e, k) /\ node'[q].role = node[q].role /\ node'[q].snap = node[q].snap
    BY DEF Held, Beaten, Hears, Stands
  <1>1. ASSUME NEW q \in Node, q # p PROVE Knows(q, e, k)'
    <2>1. rcv'[q] = rcv[q]
      BY <1>1 DEF Beaten, Hears
    <2>. QED
      BY <1>0, <2>1, KnowsSame
  <1>2. CASE rcv[p].phase = "fenced" /\ rcv'[p].tail = rcv[p].tail
    <2>1. node[p].role \in Promoted
      BY <1>2, FencesByNode DEF HonestInv, FencedOK
    <2>2. Knows(p, e, k)'
      BY <1>0, <1>2, <2>1, KnowsSame
    <2>. QED
      BY <1>1, <2>2
  <1>3. CASE /\ node[p].role = "standby" /\ rcv[p].observed <= node[n].epoch /\ rcv'[p].observed = node[n].epoch
             /\ rcv'[p].tail = ObserveCoverage(rcv[p].tail, node[n].epoch, node[n].beat.applied, node[n].beat.durable)
    <2>1. node[n].epoch = e /\ k <= node[n].applied /\ Term(p)' = e
      BY <1>0, <1>3 DEF Beaten, Newest, Term
    <2>2. PICK a, d, t, u : /\ a = node[n].beat.applied /\ d = node[n].beat.durable
                            /\ t = rcv[p].tail /\ u = rcv'[p].tail
      OBVIOUS
    <2>3. e \in 0..MaxEpoch /\ a \in 0..MaxWrites /\ d \in 0..MaxWrites
      <3>1. node[n] \in Processes
        BY DEF RepInv, Types
      <3>2. node[n].beat \in Beats
        BY <3>1 DEF Processes
      <3>. QED
        BY <2>1, <2>2, <3>1, <3>2 DEF Beats, Processes
    <2>4. t \in Tails /\ t.epoch <= e /\ t.max \in Nat /\ node[n].applied \in Nat
      <3>1. t \in Tails /\ t.epoch <= rcv[p].observed /\ rcv[p].observed <= e /\ node[n].applied \in Nat
            /\ t.epoch \in Nat /\ rcv[p].observed \in Nat
        BY <1>3, <2>1, <2>2, StateTypes DEF RepInv, Receiving
      <3>2. t.max \in Nat
        BY <3>1, Constants DEF Tails
      <3>. QED
        BY <3>1, <3>2
    <2>5. u = ObserveCoverage(t, e, a, d)
      BY <1>3, <2>1, <2>2
    <2>6. (u = t /\ a = 0 /\ t.epoch < e) \/ Learns(t, u, e, a)
      BY <2>3, <2>4, <2>5, ObserveLearns
    <2>7. CASE t.epoch < e /\ u = t
      <3>1. u.epoch # e
        BY <2>4, <2>7
      <3>. QED
        BY <1>1, <2>1, <2>2, <3>1 DEF Knows
    <2>8. CASE Learns(t, u, e, a)
      <3>1. u.epoch = e /\ u.max = Larger(IF e = t.epoch THEN t.max ELSE 0, a)
        BY <2>8 DEF Learns
      <3>2. k <= a \/ (t.epoch = e /\ k <= t.max)
        <4>1. k <= a \/ UpToDate(t, node[n])
          BY <1>0, <2>1, <2>2 DEF Tells, Beaten
        <4>2. UpToDate(t, node[n]) => t.epoch = e /\ k <= t.max
          BY <2>1, <2>4 DEF UpToDate
        <4>. QED
          BY <4>1, <4>2
      <3>3. k <= u.max
        <4>1. a \in Nat
          BY <2>3
        <4>. QED
          BY <2>4, <3>1, <3>2, <4>1 DEF Larger
      <3>. QED
        BY <1>1, <2>2, <3>1, <3>3 DEF Knows
    <2>. QED
      BY <2>6, <2>7, <2>8
  <1>. QED
    BY <1>2, <1>3 DEF Beaten

\* A request that a standby takes is of the last term that served.
LEMMA InTerm ==
    ASSUME RepInv, NEW e \in Nat, NEW k \in Nat, Newest(e, k), NEW m \in ships, NEW p \in Node, Lands(m, p),
           rcv[p].observed <= m.epoch
    PROVE  m.epoch = e /\ k < m.seq
  <1>1. m.flying /\ p # m.from
    BY DEF Lands
  <1>2. m.epoch <= e /\ (m.epoch = e => k < m.seq) /\ (m.epoch < e => e <= rcv[p].observed)
    BY <1>1 DEF Newest
  <1>3. m.epoch \in Nat /\ rcv[p].observed \in Nat
    BY StateTypes DEF RepInv
  <1>. QED
    BY <1>2, <1>3

\* A request tells what comes before it.
LEMMA KnowsLands ==
    ASSUME RepInv, RepInv', HonestInv, NEW e \in Nat, NEW k \in Nat, Held(e, k),
           NEW m \in ships, NEW p \in Node, Lands(m, p)
    PROVE  \A q \in Node : Knows(q, e, k)'
  <1>0. /\ Newest(e, k)
        /\ \A q \in Node : Knows(q, e, k) /\ node'[q].role = node[q].role /\ node'[q].snap = node[q].snap
    BY DEF Held, Lands, Hears, Stands
  <1>1. ASSUME NEW q \in Node, q # p PROVE Knows(q, e, k)'
    <2>1. rcv'[q] = rcv[q]
      BY <1>1 DEF Lands, Hears
    <2>. QED
      BY <1>0, <2>1, KnowsSame
  <1>2. PICK r, z, a : /\ r = rcv[p] /\ z = Received(rcv[p], node[p].epoch, m).rcv
                       /\ a = Received(rcv[p], node[p].epoch, m).answer
    OBVIOUS
  <1>3. /\ m \in Messages /\ r \in Receivers /\ r.tail \in Tails /\ r.tail.epoch <= r.observed
        /\ r.observed \in Nat /\ r.tail.epoch \in Nat /\ m.seq \in Nat \ {0}
    BY <1>2, StateTypes DEF RepInv, Receiving
  <1>4. Rejects(r, m, z, a) \/ Asks(r, m, z, a) \/ Takes(r, m, z, a) \/ Refuses(r, m, z, a)
    BY <1>2, <1>3, ReceivedCases
  <1>5. rcv'[p] = z
    BY <1>2 DEF Lands
  <1>6. CASE Rejects(r, m, z, a)
    <2>1. Knows(p, e, k)'
      BY <1>0, <1>2, <1>5, <1>6, KnowsSame DEF Rejects
    <2>. QED
      BY <1>1, <2>1
  <1>7. CASE Refuses(r, m, z, a)
    <2>1. node[p].role \in Promoted
      BY <1>2, <1>7, FencesByNode DEF Refuses, HonestInv, FencedOK
    <2>2. Knows(p, e, k)'
      BY <1>0, <1>2, <1>5, <1>7, <2>1, KnowsSame DEF Refuses
    <2>. QED
      BY <1>1, <2>2
  <1>8. CASE Asks(r, m, z, a) \/ Takes(r, m, z, a)
    <2>1. r.phase = "standby" /\ r.observed <= m.epoch /\ z.observed = m.epoch
      BY <1>8 DEF Asks, Takes
    <2>2. m.epoch = e /\ k < m.seq
      BY <1>0, <1>2, <2>1, InTerm
    <2>3. Term(p)' = e
      <3>1. node[p].role # "promoting"
        BY <1>2, <2>1 DEF RepInv, Receiving
      <3>. QED
        BY <1>0, <1>5, <2>1, <2>2, <3>1 DEF Term
    <2>4. r.tail.epoch <= e /\ r.tail.max \in Nat
      BY <1>3, <2>1, <2>2, Constants DEF Tails
    <2>5. PICK b \in 0..MaxWrites : b = m.seq - 1
      <3>1. m.seq \in 1..MaxWrites
        BY <1>3 DEF Messages
      <3>. QED
        BY <3>1, Constants
    <2>6. (z.tail = r.tail /\ r.tail.epoch < e) \/ Learns(r.tail, z.tail, e, b) \/ Learns(r.tail, z.tail, e, m.seq)
      <3>1. CASE Asks(r, m, z, a)
        <4>1. z.tail = ObserveCoverage(r.tail, e, b, m.wm)
          BY <2>2, <2>5, <3>1 DEF Asks
        <4>2. e \in 0..MaxEpoch /\ m.wm \in 0..MaxWrites
          <5>1. m.epoch \in 1..MaxEpoch /\ m.wm \in 0..MaxWrites
            BY <1>3 DEF Messages
          <5>. QED
            BY <2>2, <5>1, Constants
        <4>. QED
          BY <1>3, <2>4, <2>5, <4>1, <4>2, ObserveLearns
      <3>2. CASE Takes(r, m, z, a)
        BY <1>3, <2>2, <2>4, <3>2, AcceptLearns DEF Takes
      <3>. QED
        BY <1>8, <3>1, <3>2
    <2>7. CASE z.tail = r.tail /\ r.tail.epoch < e
      <3>1. z.tail.epoch # e
        BY <1>3, <2>7
      <3>. QED
        BY <1>1, <1>5, <2>3, <3>1 DEF Knows
    <2>8. ASSUME NEW c \in Nat, k <= c, Learns(r.tail, z.tail, e, c) PROVE \A q \in Node : Knows(q, e, k)'
      <3>1. z.tail.epoch = e /\ z.tail.max = Larger(IF e = r.tail.epoch THEN r.tail.max ELSE 0, c)
        BY <2>8 DEF Learns
      <3>2. k <= z.tail.max
        BY <2>4, <2>8, <3>1 DEF Larger
      <3>. QED
        BY <1>1, <1>5, <3>1, <3>2 DEF Knows
    <2>9. b \in Nat /\ k <= b /\ m.seq \in Nat /\ k <= m.seq
      BY <1>3, <2>2, <2>5
    <2>. QED
      BY <2>6, <2>7, <2>8, <2>9
  <1>. QED
    BY <1>4, <1>6, <1>7, <1>8

\* Pruning leaves no gap.
LEMMA PruneCovered ==
    ASSUME NEW t \in Tails, NEW w \in 0..MaxWrites, Covered(t)
    PROVE  Covered(Prune(t, w))
  <1>1. t.durable \in Nat /\ t.max \in Nat /\ w \in Nat
    BY Constants DEF Tails
  <1>2. PICK u : u = Prune(t, w)
    OBVIOUS
  <1>3. /\ u.max = t.max /\ u.durable = Larger(t.durable, w)
        /\ DOMAIN u.batches = {s \in DOMAIN t.batches : s > w}
    BY <1>2, PruneFacts
  <1>4. u.durable \in Nat /\ t.durable <= u.durable /\ w <= u.durable
    BY <1>1, <1>3 DEF Larger
  <1>5. CASE t.durable >= t.max
    <2>1. u.durable >= u.max
      BY <1>1, <1>3, <1>4, <1>5
    <2>. QED
      BY <1>2, <2>1 DEF Covered
  <1>6. CASE (t.durable + 1)..t.max \subseteq DOMAIN t.batches
    <2>1. ASSUME NEW s \in (u.durable + 1)..u.max PROVE s \in DOMAIN u.batches
      <3>1. s \in (t.durable + 1)..t.max /\ s > w
        BY <1>1, <1>3, <1>4
      <3>. QED
        BY <1>3, <1>6, <3>1
    <2>2. Retains(u, u.durable + 1, u.max)
      BY <2>1 DEF Retains
    <2>. QED
      BY <1>2, <2>2 DEF Covered
  <1>. QED
    BY <1>5, <1>6 DEF Covered, Retains

\* Reconciling with a stamp that is not of a later term keeps the tail up to date.
LEMMA ReconciledUpToDate ==
    ASSUME NEW t \in Tails, NEW st \in Stamps, NEW s, UpToDate(t, s), st.epoch <= t.epoch,
           NEW u, u = ReconciledTail(t, st)
    PROVE  UpToDate(u, s)
  <1>0. st.epoch \in Nat /\ t.epoch \in Nat
    BY Constants DEF Stamps, Tails
  <1>1. PICK w : w = IF st.solo THEN st.applied ELSE st.shipped
    OBVIOUS
  <1>2. w \in 0..MaxWrites
    BY <1>1 DEF Stamps
  <1>3. u = t \/ u = Prune(t, w)
    BY <1>0, <1>1 DEF ReconciledTail
  <1>4. CASE u = t
    BY <1>4
  <1>5. CASE u = Prune(t, w)
    <2>1. Covered(u)
      BY <1>2, <1>5, PruneCovered DEF UpToDate
    <2>2. u.epoch = t.epoch /\ u.max = t.max
      BY <1>2, <1>5, PruneFacts
    <2>. QED
      BY <2>1, <2>2 DEF UpToDate
  <1>. QED
    BY <1>3, <1>4, <1>5

\* A heartbeat that stays under way, over a tail that stays, or that is reconciled.
LEMMA TellsSame ==
    ASSUME NEW n \in Node, NEW p \in Node, NEW e, NEW k, Tells(n, p, e, k), node'[n].epoch = node[n].epoch,
           node'[n].beat = node[n].beat, node'[n].applied = node[n].applied,
           UpToDate(rcv[p].tail, node[n]) => UpToDate(rcv'[p].tail, node[n]), Told(n) => Told(n)'
    PROVE  Tells(n, p, e, k)'
  BY DEF Tells, UpToDate

\* The leader is told nothing new.
LEMMA ToldSame ==
    ASSUME NEW n \in Node, stranded' = stranded, node'[n].write = node[n].write,
           node'[n].answer = node[n].answer \/ node'[n].answer = "none"
    PROVE  Told(n) => Told(n)'
  BY DEF Told

\* A tail that does not change.
LEMMA SameTail ==
    ASSUME NEW n \in Node, NEW p \in Node, rcv'[p].tail = rcv[p].tail
    PROVE  UpToDate(rcv[p].tail, node[n]) => UpToDate(rcv'[p].tail, node[n])
  OBVIOUS

\* Heartbeats, in the leader's steps.
LEMMA TellsLeader ==
    ASSUME RepInv, RepInv', HonestInv, Clean, NEW e \in Nat, NEW k \in Nat, e > 0, Held(e, k),
           NEW x \in Node, Labors(x) \/ Sends(x) \/ Accepted(x)
    PROVE  \A n, p \in Node : p # n => Tells(n, p, e, k)'
  <1>. SUFFICES ASSUME NEW n \in Node, NEW p \in Node, p # n PROVE Tells(n, p, e, k)'
    OBVIOUS
  <1>0. Newest(e, k) /\ Tells(n, p, e, k) /\ rcv' = rcv /\ stranded' = stranded
    BY DEF Held, Labors, Sends, Accepted, Applies
  <1>1. CASE n # x
    <2>1. node'[n] = node[n]
      BY <1>1 DEF Labors, Sends, Accepted, Applies
    <2>. QED
      BY <1>0, <2>1, TellsSame, ToldSame
  <1>2. CASE n = x /\ (Labors(x) \/ Sends(x))
    <2>1. node'[n].epoch = node[n].epoch /\ node'[n].applied = node[n].applied
      BY <1>2 DEF Labors, Sends, Stands
    <2>2. CASE node'[n].beat = node[n].beat
      <3>1. node[n].op # "sent" => node[n].answer = "none"
        BY DEF HonestInv, Sending
      <3>2. Told(n) => Told(n)'
        BY <1>0, <1>2, <3>1 DEF Labors, Sends, Works, Told
      <3>. QED
        BY <1>0, <2>1, <2>2, <3>2, TellsSame
    <2>3. CASE node[n].role = "serving" /\ node'[n].beat.applied = node[n].applied
      <3>1. k <= node[n].applied
        BY <1>0, <2>3 DEF Newest
      <3>. QED
        BY <2>3, <3>1 DEF Tells
    <2>. QED
      BY <1>2, <2>2, <2>3 DEF Labors, Sends
  <1>3. CASE n = x /\ Accepted(x)
    <2>0. /\ node[n].answer = "accepted" /\ node'[n].answer = "none" /\ node'[n].beat = node[n].beat
          /\ node'[n].epoch = node[n].epoch
      BY <1>3 DEF Accepted, Applies
    <2>1. CASE node[n].write \notin stranded
      <3>1. Accepts(n)
        BY <1>3, <2>1 DEF Accepted, Applies, Accepts, HonestInv, Leases, Tokens, Clean
      <3>2. Has(n, p)
        BY <3>1, AcceptingByPair DEF HonestInv
      <3>3. UpToDate(rcv'[p].tail, node'[n])
        BY <1>0, <1>3, <3>2 DEF Has, UpToDate, Accepted, Applies
      <3>. QED
        BY <2>0, <3>3 DEF Tells, Told
    <2>2. CASE node[n].write \in stranded
      BY <1>0, <2>0, <2>2 DEF Tells, Told
    <2>. QED
      BY <2>1, <2>2
  <1>. QED
    BY <1>1, <1>2, <1>3

\* Heartbeats, when a process ends: they tell of batch k, or it is stranded.
LEMMA TellsEnds ==
    ASSUME RepInv, RepInv', HonestInv, NEW e \in Nat, NEW k \in Nat, e > 0, Held(e, k),
           NEW w, Shipped(e, k, w), w \notin stranded',
           NEW x \in Node, Ends(x), StepDown(x) \/ Crash(x) \/ Reconcile(x)
    PROVE  \A n, p \in Node : p # n => Tells(n, p, e, k)'
  <1>. SUFFICES ASSUME NEW n \in Node, NEW p \in Node, p # n, node'[n].epoch = e, node'[n].beat.sent
                PROVE  k <= node'[n].beat.applied
    BY DEF Tells
  <1>0. Newest(e, k) /\ Tells(n, p, e, k)
    BY DEF Held
  <1>1. n # x
    BY DEF Ends
  <1>2. x = p /\ node'[n] = node[n]
    BY <1>1, TwoNodes DEF Ends
  <1>3. k <= node[n].applied /\ (k <= node[n].beat.applied \/ UpToDate(rcv[p].tail, node[n]))
    BY <1>0, <1>2 DEF Newest, Tells
  <1>4. CASE Crash(x)
    <2>. SUFFICES ASSUME ~(k <= node[n].beat.applied) PROVE FALSE
      BY <1>2
    <2>1. PICK m \in ships : m.epoch = e /\ m.seq = k /\ m.id = w
      BY DEF Shipped
    <2>2. m.from = n
      BY <1>2, <2>1 DEF HonestInv, Sending
    <2>3. node[n].beat.applied \in Nat /\ node[n].applied \in Nat
      BY ProcessTypes DEF RepInv, Types
    <2>4. m.seq \in (node[n].beat.applied + 1)..node[n].applied
      BY <1>3, <2>1, <2>3
    <2>5. w \in Exposed(x)
      BY <1>1, <1>2, <2>1, <2>2, <2>4 DEF Exposed
    <2>. QED
      BY <1>4, <2>5 DEF Crash
  <1>5. CASE StepDown(x)
    <2>1. node[x].epoch = e
      BY <1>0, <1>5 DEF StepDown, Newest
    <2>. QED
      BY <1>1, <1>2, <2>1 DEF RepInv, Epochs
  <1>6. CASE Reconcile(x)
    <2>1. CASE k <= node[n].beat.applied
      BY <1>2, <2>1
    <2>2. CASE UpToDate(rcv[p].tail, node[n])
      <3>1. PICK t, st, s : t = rcv[x].tail /\ st = disk.stamp /\ s = node[n]
        OBVIOUS
      <3>2. PICK u : u = ReconciledTail(t, st)
        OBVIOUS
      <3>3. t \in Tails /\ st \in Stamps /\ UpToDate(t, s) /\ st.epoch <= t.epoch
        <4>1. t.epoch = e
          BY <1>2, <2>2, <3>1 DEF UpToDate
        <4>2. st.epoch <= e
          BY <1>0, <3>1 DEF Newest
        <4>. QED
          BY <1>2, <2>2, <3>1, <4>1, <4>2, StateTypes DEF RepInv
      <3>4. Covered(u)
        BY <3>2, <3>3, ReconciledUpToDate DEF UpToDate
      <3>5. HasUncoveredLineage(u, node[x].snap)
        <4>1. node'[x].role # "replaying"
          BY DEF Ends
        <4>2. ASSUME NEW b, NEW c, Set(x, [node[x] EXCEPT !.role = "replaying", !.mem = b, !.proof = c]) PROVE FALSE
          BY <4>1, <4>2 DEF Set, RepInv, Types, Processes
        <4>. QED
          BY <1>6, <3>1, <3>2, <4>2 DEF Reconcile
      <3>6. node[x].snap \in Nat
        BY DEF RepInv, Types, Processes
      <3>7. u.max \in Nat /\ u.epoch = node[x].snap /\ u.max > 0 /\ ~(node[x].snap > 0)
        <4>1. u \in Tails
          BY <3>2, <3>3, ReconciledFacts
        <4>. QED
          BY <3>4, <3>5, <4>1, Constants DEF HasUncoveredLineage, PreservesLineage, Tails
      <3>8. u.epoch = e
        BY <1>2, <3>1, <3>2, <3>3, ReconciledUpToDate DEF UpToDate
      <3>. QED
        BY <3>6, <3>7, <3>8
    <2>. QED
      BY <1>3, <2>1, <2>2
  <1>. QED
    BY <1>4, <1>5, <1>6

\* Heartbeats, in the other steps that hear nothing and leave the tails.
LEMMA TellsOthers ==
    ASSUME RepInv, RepInv', HonestInv, NEW e \in Nat, NEW k \in Nat, e > 0, Held(e, k),
           NEW x \in Node, Renews(x) \/ Opens(x) \/ Begins(x) \/ Completes(x) \/ Reconciles(x)
                           \/ (Finishes(x) /\ rcv'[x].tail = rcv[x].tail)
    PROVE  \A n, p \in Node : p # n => Tells(n, p, e, k)'
  <1>. SUFFICES ASSUME NEW n \in Node, NEW p \in Node, p # n PROVE Tells(n, p, e, k)'
    OBVIOUS
  <1>0. Newest(e, k) /\ Tells(n, p, e, k)
    BY DEF Held
  <1>1. CASE n = x
    <2>1. ~node'[n].beat.sent
      <3>1. CASE Renews(n) \/ Opens(n)
        BY <3>1 DEF Renews, Opens, Blank
      <3>2. CASE Rises(n)
        BY <3>2 DEF Rises, HonestInv, Tokens
      <3>. QED
        BY <1>1, <3>1, <3>2 DEF Begins, Completes, Reconciles, Finishes
    <2>. QED
      BY <2>1 DEF Tells
  <1>2. CASE n # x
    <2>0. x = p
      BY <1>2, TwoNodes
    <2>1. /\ node'[n].epoch = node[n].epoch /\ node'[n].beat = node[n].beat /\ node'[n].applied = node[n].applied
          /\ stranded' = stranded /\ node'[n].write = node[n].write /\ node'[n].answer = node[n].answer
      BY <1>2 DEF Renews, Opens, Begins, Completes, Reconciles, Finishes, Rises, Stands, Works
    <2>9. Told(n) => Told(n)'
      BY <2>1, ToldSame
    <2>2. CASE Reconciles(x)
      <3>0. CASE node[n].epoch # e
        BY <2>1, <3>0 DEF Tells
      <3>1. CASE node[n].epoch = e
        <4>1. PICK t, st, s : t = rcv[p].tail /\ st = disk.stamp /\ s = node[n]
          OBVIOUS
        <4>2. rcv'[p].tail = ReconciledTail(t, st)
          BY <2>0, <2>2, <4>1 DEF Reconciles
        <4>3. ASSUME UpToDate(t, s) PROVE UpToDate(rcv'[p].tail, s)
          <5>1. t.epoch = e /\ st.epoch <= e
            BY <1>0, <3>1, <4>1, <4>3 DEF UpToDate, Newest
          <5>2. t \in Tails /\ st \in Stamps
            BY <4>1, StateTypes DEF RepInv
          <5>. QED
            BY <4>2, <4>3, <5>1, <5>2, ReconciledUpToDate
        <4>. QED
          BY <1>0, <2>1, <2>9, <4>1, <4>3, TellsSame
      <3>. QED
        BY <3>0, <3>1
    <2>3. CASE ~Reconciles(x)
      <3>1. rcv'[p].tail = rcv[p].tail
        BY <2>0, <2>3 DEF Renews, Opens, Begins, Completes
      <3>. QED
        BY <1>0, <2>1, <2>9, <3>1, TellsSame, SameTail
    <2>. QED
      BY <2>2, <2>3
  <1>. QED
    BY <1>1, <1>2

\* A heartbeat arrives: no other one is under way.
LEMMA TellsBeaten ==
    ASSUME RepInv, HonestInv, NEW e \in Nat, NEW k \in Nat, e > 0, Held(e, k),
           NEW x \in Node, NEW y \in Node, Beaten(x, y)
    PROVE  \A n, p \in Node : p # n => Tells(n, p, e, k)'
  <1>. SUFFICES ASSUME NEW n \in Node, NEW p \in Node, p # n, node'[n].epoch = e, node'[n].beat.sent
                PROVE  FALSE
    BY DEF Tells
  <1>1. node[n].epoch = e /\ node[x].epoch = e
    BY DEF Beaten, Hears, Stands, Held, Newest
  <1>2. n = x
    BY <1>1 DEF RepInv, Epochs
  <1>. QED
    BY <1>2 DEF Beaten

\* A request arrives: a tail that is up to date stays so.
LEMMA TellsLands ==
    ASSUME RepInv, HonestInv, NEW e \in Nat, NEW k \in Nat, e > 0, Held(e, k),
           NEW m \in ships, NEW y \in Node, Lands(m, y)
    PROVE  \A n, p \in Node : p # n => Tells(n, p, e, k)'
  <1>. SUFFICES ASSUME NEW n \in Node, NEW p \in Node, p # n, node'[n].epoch = e, node'[n].beat.sent
                PROVE  Tells(n, p, e, k)'
    BY DEF Tells
  <1>0. /\ Newest(e, k) /\ Tells(n, p, e, k) /\ node'[n].epoch = node[n].epoch /\ node'[n].beat = node[n].beat
        /\ node'[n].applied = node[n].applied /\ node[n].epoch = e
        /\ stranded' = stranded /\ node'[n].write = node[n].write
    BY DEF Held, Lands, Hears, Stands
  <1>3. Told(n) => Told(n)'
    <2>1. CASE node'[n].answer = node[n].answer
      BY <1>0, <2>1, ToldSame
    <2>2. CASE node[n].op = "sent" /\ node[n].answer = "none"
      <3>1. Stranding(n)
        BY DEF HonestInv, Exposing
      <3>2. node[n].write \notin stranded
        BY <2>2, <3>1 DEF Stranding
      <3>. QED
        BY <1>0, <3>2 DEF Told
    <2>. QED
      BY <2>1, <2>2 DEF Lands, Waiting
  <1>1. CASE p # y
    <2>1. rcv'[p] = rcv[p]
      BY <1>1 DEF Lands, Hears
    <2>. QED
      BY <1>0, <1>3, <2>1, TellsSame
  <1>2. CASE p = y
    <2>1. PICK r, z, a : /\ r = rcv[p] /\ z = Received(rcv[p], node[p].epoch, m).rcv
                         /\ a = Received(rcv[p], node[p].epoch, m).answer
      OBVIOUS
    <2>2. /\ m \in Messages /\ r \in Receivers /\ r.tail \in Tails /\ m.seq \in Nat \ {0}
          /\ node[n].applied \in Nat /\ r.tail.epoch \in Nat
      BY <2>1, StateTypes DEF RepInv
    <2>3. Rejects(r, m, z, a) \/ Asks(r, m, z, a) \/ Takes(r, m, z, a) \/ Refuses(r, m, z, a)
      BY <2>1, <2>2, ReceivedCases
    <2>4. rcv'[p] = z
      BY <1>2, <2>1 DEF Lands
    <2>5. CASE Rejects(r, m, z, a) \/ Refuses(r, m, z, a)
      <3>1. rcv'[p].tail = rcv[p].tail
        BY <2>1, <2>4, <2>5 DEF Rejects, Refuses
      <3>. QED
        BY <1>0, <1>3, <3>1, TellsSame, SameTail
    <2>6. CASE Asks(r, m, z, a) \/ Takes(r, m, z, a)
      <3>1. m.epoch = e
        BY <1>0, <1>2, <2>1, <2>6, InTerm DEF Asks, Takes
      <3>2. ASSUME UpToDate(r.tail, node[n]) PROVE UpToDate(z.tail, node[n])
        <4>1. r.tail.epoch = e /\ Covered(r.tail) /\ node[n].applied <= r.tail.max /\ r.tail.max \in Nat
          BY <1>0, <2>2, <3>2, Constants DEF UpToDate, Tails
        <4>2. r.tail.epoch <= e
          BY <4>1
        <4>3. CASE Asks(r, m, z, a)
          <5>1. PICK b \in 0..MaxWrites : b = m.seq - 1
            <6>1. m.seq \in 1..MaxWrites
              BY <2>2 DEF Messages
            <6>. QED
              BY <6>1, Constants
          <5>2. b <= r.tail.max
            <6>1. InHands(node[n], ships)
              BY DEF RepInv, Processing, ProcInv
            <6>2. m.seq <= node[n].applied + 1
              BY <1>0, <2>2, <3>1, <6>1 DEF InHands
            <6>. QED
              BY <2>2, <4>1, <5>1, <6>2
          <5>3. z.tail = ObserveCoverage(r.tail, e, b, m.wm)
            BY <3>1, <4>3, <5>1 DEF Asks
          <5>4. e \in 0..MaxEpoch /\ m.wm \in 0..MaxWrites
            <6>1. m.epoch \in 1..MaxEpoch /\ m.wm \in 0..MaxWrites
              BY <2>2 DEF Messages
            <6>. QED
              BY <3>1, <6>1, Constants
          <5>5. Covered(z.tail) /\ z.tail.epoch = e /\ z.tail.max = r.tail.max
            BY <2>2, <4>1, <4>2, <5>2, <5>3, <5>4, ObserveLearns
          <5>. QED
            BY <1>0, <4>1, <5>5 DEF UpToDate
        <4>4. CASE Takes(r, m, z, a)
          <5>1. Learns(r.tail, z.tail, e, m.seq) /\ Covered(z.tail)
            <6>1. r.tail.max <= m.seq \/ m.seq <= r.tail.max
              BY <2>2, <4>1
            <6>2. /\ Learns(r.tail, z.tail, m.epoch, m.seq)
                  /\ r.tail.max <= m.seq => Covered(z.tail)
                  /\ m.seq <= r.tail.max => Covered(z.tail)
              BY <2>2, <3>1, <4>1, <4>2, <4>4, AcceptLearns DEF Takes
            <6>. QED
              BY <3>1, <6>1, <6>2
          <5>2. z.tail.epoch = e /\ z.tail.max = Larger(r.tail.max, m.seq)
            BY <4>1, <5>1 DEF Learns
          <5>3. node[n].applied <= z.tail.max
            BY <2>2, <4>1, <5>2 DEF Larger
          <5>. QED
            BY <1>0, <5>1, <5>2, <5>3 DEF UpToDate
        <4>. QED
          BY <2>6, <4>3, <4>4
      <3>. QED
        BY <1>0, <1>3, <2>1, <2>4, <3>2, TellsSame
    <2>. QED
      BY <2>3, <2>5, <2>6
  <1>. QED
    BY <1>1, <1>2

\* What is held stays held, in the steps that neither forget a tail nor serve.
LEMMA HeldStill ==
    ASSUME RepInv, RepInv', HonestInv, Clean, NEW e \in Nat, NEW k \in Nat, e > 0, Held(e, k),
           NEW w, Shipped(e, k, w), w \notin stranded', NEW n \in Node,
           \/ Labors(n) \/ Sends(n) \/ Accepted(n) \/ Renews(n) \/ Opens(n)
           \/ Ends(n) /\ (StepDown(n) \/ Crash(n) \/ Reconcile(n))
           \/ Begins(n) \/ Reconciles(n) \/ (Finishes(n) /\ rcv'[n].tail = rcv[n].tail) \/ Completes(n)
    PROVE  Held(e, k)'
  <1>0. Newest(e, k) /\ (\A q \in Node : Knows(q, e, k)) /\ \E m \in ships : m.epoch = e
    BY DEF Held, Shipped
  <1>1. Newest(e, k)'
    BY <1>0, NewestLeader, NewestReset, NewestRise, NewestOpens
  <1>2. \A q \in Node : Knows(q, e, k)'
    BY <1>0, KnowsSteps
  <1>3. \A q, p \in Node : p # q => Tells(q, p, e, k)'
    BY TellsLeader, TellsEnds, TellsOthers
  <1>. QED
    BY <1>1, <1>2, <1>3 DEF Held

\* Nor does it matter what a receiver hears.
LEMMA HeldHears ==
    ASSUME RepInv, RepInv', HonestInv, NEW e \in Nat, NEW k \in Nat, e > 0, Held(e, k), NEW p \in Node,
           (\E n \in Node : Beaten(n, p)) \/ \E m \in ships : Lands(m, p)
    PROVE  Held(e, k)'
  <1>0. Newest(e, k)
    BY DEF Held
  <1>1. Newest(e, k)'
    BY <1>0, NewestHear
  <1>2. \A q \in Node : Knows(q, e, k)'
    BY KnowsBeaten, KnowsLands
  <1>3. \A q, x \in Node : x # q => Tells(q, x, e, k)'
    BY TellsBeaten, TellsLands
  <1>. QED
    BY <1>1, <1>2, <1>3 DEF Held

\* A covered tail has every batch it knows of, or it is on shared storage.
LEMMA CoveredHas ==
    ASSUME RepInv, HonestInv, NEW t \in Tails, TailOK(t), DurableTo(t.epoch, t.durable), Covered(t),
           NEW k \in Nat, NEW w, Shipped(t.epoch, k, w), k <= t.max
    PROVE  w \in Ids(disk.log) \/ (k \in DOMAIN t.batches /\ t.batches[k] = w)
  <1>1. PICK m \in ships : m.epoch = t.epoch /\ m.seq = k /\ m.id = w
    BY DEF Shipped
  <1>2. t.durable \in Nat /\ t.max \in Nat
    BY Constants DEF Tails
  <1>3. CASE k <= t.durable
    BY <1>1, <1>3 DEF DurableTo
  <1>4. CASE ~(k <= t.durable)
    <2>1. k \in (t.durable + 1)..t.max
      BY <1>2, <1>4
    <2>2. k \in DOMAIN t.batches
      BY <1>2, <1>4, <2>1 DEF Covered, Retains
    <2>3. PICK x \in ships : x.epoch = t.epoch /\ x.seq = k /\ x.id = t.batches[k]
      BY <2>2 DEF TailOK, Shipped
    <2>4. x.id = m.id
      BY <1>1, <2>3 DEF HonestInv, Sending
    <2>. QED
      BY <1>1, <2>2, <2>3, <2>4
  <1>. QED
    BY <1>3, <1>4

\* A replay that is done, and forgotten by the tail, is on shared storage.
LEMMA HeldFinishes ==
    ASSUME RepInv, RepInv', HonestInv, NEW e \in Nat, NEW k \in Nat, e > 0, Held(e, k), NEW w, Shipped(e, k, w),
           NEW n \in Node, Finishes(n)
    PROVE  Held(e, k)' \/ w \in Ids(disk'.log)
  <1>0. Newest(e, k) /\ (\A q \in Node : Knows(q, e, k)) /\ \E m \in ships : m.epoch = e
    BY DEF Held, Shipped
  <1>1. Newest(e, k)' /\ \A q \in Node : Knows(q, e, k)'
    BY <1>0, NewestRise, KnowsSteps
  <1>2. CASE \E q \in Node : q # n /\ node[q].epoch = e /\ UpToDate(rcv[n].tail, node[q])
    <2>1. PICK q \in Node : q # n /\ node[q].epoch = e /\ UpToDate(rcv[n].tail, node[q])
      BY <1>2
    <2>2. PICK t : t = rcv[n].tail
      OBVIOUS
    <2>3. t \in Tails /\ TailOK(t) /\ DurableTo(t.epoch, t.durable) /\ Covered(t) /\ t.epoch = e
      BY <2>1, <2>2, StateTypes DEF UpToDate, RepInv, Receiving, Watermarks
    <2>4. k <= t.max
      <3>1. k <= node[q].applied /\ node[q].applied <= t.max
        BY <1>0, <2>1, <2>2 DEF Newest, UpToDate
      <3>2. node[q].applied \in Nat /\ t.max \in Nat
        BY <2>3, StateTypes, Constants DEF Tails, RepInv
      <3>. QED
        BY <3>1, <3>2
    <2>5. w \in Ids(disk.log) \/ (k \in DOMAIN t.batches /\ t.batches[k] = w)
      BY <2>3, <2>4, CoveredHas
    <2>6. Replayed(n)
      BY DEF Finishes, HonestInv, Proven
    <2>7. w \in Ids(disk.log) \cup Ids(node[n].mem)
      BY <2>2, <2>5, <2>6 DEF Replayed
    <2>. QED
      BY <2>7 DEF Finishes, Rises, Flushes
  <1>3. CASE ~ \E q \in Node : q # n /\ node[q].epoch = e /\ UpToDate(rcv[n].tail, node[q])
    <2>1. ASSUME NEW q \in Node, NEW p \in Node, p # q PROVE Tells(q, p, e, k)'
      <3>1. CASE q = n
        BY <3>1 DEF Finishes, Rises, HonestInv, Tokens, Tells
      <3>2. CASE q # n
        <4>1. p = n /\ node'[q] = node[q]
          BY <2>1, <3>2, TwoNodes DEF Finishes, Rises
        <4>2. Tells(q, p, e, k)
          BY <2>1 DEF Held
        <4>. QED
          BY <1>3, <3>2, <4>1, <4>2 DEF Tells
      <3>. QED
        BY <3>1, <3>2
    <2>. QED
      BY <1>1, <2>1 DEF Held
  <1>. QED
    BY <1>2, <1>3

\* The batch that a standby accepted is held once it is acknowledged.
LEMMA HeldAccepted ==
    ASSUME RepInv, RepInv', HonestInv, Clean, NEW n \in Node, Accepted(n), node[n].write \notin stranded,
           NEW e, NEW k, e = node[n].epoch, k = node[n].seq - 1
    PROVE  Held(e, k)' /\ Shipped(e, k, node[n].write)
  <1>1. Accepts(n) /\ node[n].role = "serving" /\ node[n].token = disk.lineage
    BY DEF Accepted, Applies, Accepts, HonestInv, Leases, Tokens, Clean
  <1>2. \A p \in Node : p # n => Has(n, p) /\ node[p].role \notin Promoted
    BY <1>1, AcceptingByPair, OtherIdle DEF HonestInv
  <1>3. Latest(n)
    BY <1>1 DEF HonestInv, Leases, Accepts
  <1>4. /\ rcv' = rcv /\ ships' = ships /\ disk' = disk /\ \A q \in Node \ {n} : node'[q] = node[q]
        /\ node'[n].epoch = e /\ node'[n].role = "serving" /\ node'[n].token = disk.lineage
        /\ node'[n].applied = k /\ node'[n].beat = node[n].beat /\ node'[n].answer = "none"
    BY <1>1 DEF Accepted, Applies
  <1>5. /\ node[n].applied \in Nat /\ k = node[n].applied + 1 /\ e > 0 /\ e \in Nat
    <2>1. node[n].seq = node[n].applied + 2
      BY DEF Accepted, RepInv, Processing, ProcInv, Frontier
    <2>2. node[n].applied \in Nat /\ node[n].epoch \in Nat /\ node[n].epoch > 0
      BY <1>1, StateTypes, LeaseHasTerm DEF RepInv
    <2>. QED
      BY <2>1, <2>2
  <1>6. Newest(e, k)'
    <2>1. \A m \in ships : m.epoch <= e /\ ~(m.flying /\ m.epoch = e)
      BY <1>1, <1>3, FlyingFacts DEF Latest, Accepts
    <2>2. ASSUME NEW p \in Node PROVE e <= rcv[p].observed
      <3>1. CASE p # n
        BY <1>2, <1>5, <3>1 DEF Has
      <3>2. CASE p = n
        <4>1. rcv[n].phase = "fenced"
          BY <1>1 DEF RepInv, Receiving
        <4>. QED
          BY <3>2, <4>1, FencesByNode DEF HonestInv, FencedOK
      <3>. QED
        BY <3>1, <3>2
    <2>3. disk.stamp.epoch <= e
      BY <1>3 DEF Latest
    <2>4. ASSUME NEW q \in Node
          PROVE  /\ node'[q].epoch = e =>
                       node'[q].role = "serving" /\ node'[q].token = disk'.lineage /\ k <= node'[q].applied
                 /\ node'[q].role \in Promoted => e <= node'[q].epoch
                 /\ node'[q].role = "serving" => node'[q].epoch = e
      <3>1. CASE q = n
        BY <1>4, <1>5, <3>1
      <3>2. CASE q # n
        <4>1. node'[q] = node[q] /\ node[q].role \notin Promoted
          BY <1>2, <1>4, <3>2
        <4>2. node[q].epoch # e
          BY <1>5, <3>2 DEF RepInv, Epochs
        <4>. QED
          BY <4>1, <4>2 DEF Promoted
      <3>. QED
        BY <3>1, <3>2
    <2>. QED
      BY <1>4, <2>1, <2>2, <2>3, <2>4 DEF Newest
  <1>7. ASSUME NEW q \in Node PROVE Knows(q, e, k)'
    <2>1. CASE q = n
      BY <1>4, <2>1 DEF Knows
    <2>2. CASE q # n
      <3>1. Has(n, q)
        BY <1>2, <2>2
      <3>. QED
        BY <1>4, <3>1 DEF Knows, Has, UpToDate
    <2>. QED
      BY <2>1, <2>2
  <1>8. ASSUME NEW q \in Node, NEW p \in Node, p # q PROVE Tells(q, p, e, k)'
    <2>1. CASE q = n
      <3>1. Has(n, p)
        BY <1>2, <1>8, <2>1
      <3>2. UpToDate(rcv'[p].tail, node'[n])
        BY <1>4, <3>1 DEF Has, UpToDate
      <3>. QED
        BY <1>4, <2>1, <3>2 DEF Tells, Told
    <2>2. CASE q # n
      <3>1. node'[q].epoch # e
        BY <1>4, <1>5, <2>2 DEF RepInv, Epochs
      <3>. QED
        BY <3>1 DEF Tells
    <2>. QED
      BY <2>1, <2>2
  <1>9. Shipped(e, k, node[n].write)
    BY DEF Accepted, HonestInv, Sending
  <1>. QED
    BY <1>6, <1>7, <1>8, <1>9 DEF Held

(* A request that is held carries w.                                        *)
Found(w) == \E e \in 1..MaxEpoch, k \in 1..MaxWrites : Shipped(e, k, w) /\ Held(e, k)

\* Recoverable, write by write.
LEMMA RecoverableByWrite ==
    /\ Recoverable <=> (Clean => \A w \in Missing : Found(w))
    /\ Recoverable' <=> (Clean' => \A w \in Missing' : Found(w)')
  BY DEF Recoverable, Found

\* A request that was sent was sent.
LEMMA ShippedStays ==
    ASSUME Landing \/ ships \subseteq ships', NEW e, NEW k, NEW w, Shipped(e, k, w)
    PROVE  Shipped(e, k, w)'
  BY DEF Landing, Shipped

\* While nothing is acknowledged, nothing new is missing.
LEMMA MissesLess ==
    ASSUME acked' = acked, disk'.lineage = disk.lineage, Ids(disk.log) \subseteq Ids(disk'.log),
           stranded \subseteq stranded'
    PROVE  Missing' \subseteq Missing /\ Missing' \cap Ids(disk'.log) = {}
  BY DEF Missing

\* What is missing can be found, if it still can be.
LEMMA RecoverableIf ==
    ASSUME RepInv, HonestInv, Clean' => Clean, Missing' \subseteq Missing, Landing \/ ships \subseteq ships',
           Clean => \A e \in 1..MaxEpoch, k \in 1..MaxWrites, w \in Missing' :
                       Shipped(e, k, w) /\ Held(e, k) => Held(e, k)'
    PROVE  Recoverable'
  <1>. SUFFICES ASSUME Clean', NEW w \in Missing' PROVE Found(w)'
    BY RecoverableByWrite
  <1>1. Found(w)
    BY RecoverableByWrite DEF HonestInv
  <1>2. PICK e \in 1..MaxEpoch, k \in 1..MaxWrites : Shipped(e, k, w) /\ Held(e, k)
    BY <1>1 DEF Found
  <1>3. Held(e, k)' /\ Shipped(e, k, w)'
    BY <1>2, ShippedStays
  <1>. QED
    BY <1>3 DEF Found

\* The parts of a number of a term and of a sequence.
LEMMA Indexes ==
    ASSUME NEW e \in 1..MaxEpoch, NEW k \in 1..MaxWrites
    PROVE  e \in Nat /\ k \in Nat /\ e > 0
  BY Constants

\* What is missing, in the steps that acknowledge nothing.
LEMMA RecoverableSteps ==
    ASSUME RepInv, RepInv', HonestInv, NEW n \in Node,
           \/ Labors(n) \/ Sends(n) \/ Renews(n) \/ Opens(n)
           \/ Ends(n) /\ (StepDown(n) \/ Crash(n) \/ Reconcile(n))
           \/ Begins(n) \/ Reconciles(n) \/ Finishes(n) \/ Completes(n)
    PROVE  Recoverable'
  <1>1. /\ acked' = acked /\ disk'.lineage = disk.lineage /\ disk'.taint = disk.taint
        /\ Ids(disk.log) \subseteq Ids(disk'.log) /\ stranded \subseteq stranded'
    BY DEF Labors, Sends, Renews, Opens, Ends, Begins, Reconciles, Finishes, Completes, Rises, Flushes
  <1>2. Landing \/ ships \subseteq ships'
    BY LandingSame DEF Labors, Sends, Renews, Opens, Ends, Begins, Reconciles, Finishes, Completes, Rises
  <1>3. ASSUME Clean, NEW e \in 1..MaxEpoch, NEW k \in 1..MaxWrites, NEW w \in Missing', Shipped(e, k, w), Held(e, k)
        PROVE  Held(e, k)'
    <2>0. e \in Nat /\ k \in Nat /\ e > 0 /\ w \notin stranded'
      BY <1>3, Indexes DEF Missing
    <2>1. CASE Finishes(n)
      <3>1. w \notin Ids(disk'.log)
        BY <1>1, <1>3, MissesLess
      <3>. QED
        BY <1>3, <2>0, <2>1, <3>1, HeldFinishes
    <2>2. CASE ~Finishes(n)
      BY <1>3, <2>0, <2>2, HeldStill
    <2>. QED
      BY <2>1, <2>2
  <1>4. Missing' \subseteq Missing
    BY <1>1, MissesLess
  <1>5. Clean' => Clean
    BY <1>1 DEF Clean
  <1>. QED
    BY <1>2, <1>3, <1>4, <1>5, RecoverableIf

\* Receivers that hear.
LEMMA RecoverableHears ==
    ASSUME RepInv, RepInv', HonestInv, NEW p \in Node,
           (\E n \in Node : Beaten(n, p)) \/ \E m \in ships : Lands(m, p)
    PROVE  Recoverable'
  <1>1. acked' = acked /\ disk' = disk /\ stranded' = stranded /\ Landing
    BY DEF Beaten, Lands, Hears
  <1>2. ASSUME NEW e \in 1..MaxEpoch, NEW k \in 1..MaxWrites, Held(e, k) PROVE Held(e, k)'
    BY <1>2, Indexes, HeldHears
  <1>3. Missing' \subseteq Missing /\ (Clean' => Clean)
    BY <1>1 DEF Missing, Clean
  <1>. QED
    BY <1>1, <1>2, <1>3, RecoverableIf

\* An acknowledged batch: the standby has it ...
LEMMA RecoverableAccepted ==
    ASSUME RepInv, RepInv', HonestInv, NEW n \in Node, Accepted(n)
    PROVE  Recoverable'
  <1>. SUFFICES ASSUME Clean', NEW w \in Missing' PROVE Found(w)'
    BY RecoverableByWrite
  <1>1. /\ disk' = disk /\ ships' = ships /\ acked' = acked \cup {[id |-> node[n].write, token |-> node[n].token]}
        /\ stranded' = stranded
    BY DEF Accepted, Applies
  <1>2. Clean /\ Landing
    BY <1>1, LandingSame DEF Clean
  <1>3. CASE w \in Missing
    <2>1. Found(w)
      BY <1>2, <1>3, RecoverableByWrite DEF HonestInv
    <2>2. PICK e \in 1..MaxEpoch, k \in 1..MaxWrites : Shipped(e, k, w) /\ Held(e, k)
      BY <2>1 DEF Found
    <2>3. e \in Nat /\ k \in Nat /\ e > 0 /\ w \notin stranded'
      BY <2>2, Indexes DEF Missing
    <2>4. Held(e, k)'
      BY <1>2, <2>2, <2>3, HeldStill
    <2>5. Shipped(e, k, w)'
      BY <1>2, <2>2, ShippedStays
    <2>. QED
      BY <2>4, <2>5 DEF Found
  <1>4. CASE w \notin Missing
    <2>1. w = node[n].write /\ w \notin stranded
      BY <1>1, <1>4 DEF Missing
    <2>2. PICK e, k : e = node[n].epoch /\ k = node[n].seq - 1
      OBVIOUS
    <2>3. Held(e, k)' /\ Shipped(e, k, node[n].write)
      BY <1>2, <2>1, <2>2, HeldAccepted
    <2>4. Shipped(e, k, w)'
      BY <1>2, <2>1, <2>3, ShippedStays
    <2>5. e \in 1..MaxEpoch /\ k \in 1..MaxWrites
      BY <2>3 DEF Shipped, RepInv, Types, Messages
    <2>. QED
      BY <2>3, <2>4, <2>5 DEF Found
  <1>. QED
    BY <1>3, <1>4

\* ... or the lineage is tainted.
LEMMA RecoverableSolo ==
    ASSUME RepInv, HonestInv, NEW n \in Node, Solo(n)
    PROVE  Recoverable' /\ ~Clean'
  <1>1. node[n].lease /\ disk'.lineage = disk.lineage
    BY DEF Solo, Applies, Flushes
  <1>2. node[n].role = "serving" /\ node[n].token = disk.lineage
    BY <1>1 DEF HonestInv, Leases
  <1>3. disk'.taint = disk'.lineage
    BY <1>1, <1>2 DEF Solo, HonestInv, Tokens
  <1>. QED
    BY <1>3, RecoverableByWrite DEF Clean

\* A new server, of a lineage under which everything is on shared storage.
LEMMA NothingMissing ==
    ASSUME RepInv, HonestInv, NEW n \in Node, Serves(n)
    PROVE  Missing' = {}
  <1>1. owner = n /\ node[n].role = "promoted"
    BY DEF Serves
  <1>2. node[n].epoch > 0
    BY <1>1, LeaseHasTerm DEF Promoted
  <1>3. CASE disk'.lineage = disk.lineage /\ node[n].proof /\ Clean
    <2>1. Missing = {}
      BY <1>1, <1>3 DEF HonestInv, Proven
    <2>. QED
      BY <1>3, <2>1 DEF Missing, Serves
  <1>4. CASE disk'.lineage = node[n].epoch
    <2>1. disk.lineage < node[n].epoch
      BY <1>1, <1>2 DEF HonestInv, Owning
    <2>2. disk.lineage \in Nat /\ node[n].epoch \in Nat
      BY StateTypes DEF RepInv
    <2>3. ASSUME NEW a \in acked PROVE a.token # disk'.lineage
      <3>1. a.token <= disk.lineage
        BY DEF HonestInv, Tokens
      <3>2. a.token \in Nat
        BY Constants DEF RepInv, Types
      <3>. QED
        BY <1>4, <2>1, <2>2, <3>1, <3>2
    <2>. QED
      BY <2>3 DEF Missing, Serves
  <1>. QED
    BY <1>3, <1>4 DEF Serves

\* So there is nothing to recover.
LEMMA RecoverableServes ==
    ASSUME RepInv, HonestInv, NEW n \in Node, Serves(n)
    PROVE  Recoverable'
  BY NothingMissing, RecoverableByWrite

-----------------------------------------------------------------------------
(* Takeovers *)

(* f lists every element of D.                                              *)
Lists(f, D) == \A k \in D : \E i \in 1..Cardinality(D) : f[i] = k

\* An increasing list of a finite set has all of its elements.
LEMMA EnumeratesAll ==
    ASSUME NEW b \in Nat, NEW D \in SUBSET (0..b), NEW f, Enumerates(f, D)
    PROVE  Lists(f, D)
  <1>1. IsFiniteSet(D) /\ Cardinality(D) \in Nat
    <2>1. IsFiniteSet(0..b)
      BY FS_Interval
    <2>. QED
      BY <2>1, FS_Subset, FS_CardinalityType
  <1>2. PICK c \in Nat : c = Cardinality(D)
    BY <1>1
  <1>3. f \in [1..c -> D] /\ \A i, j \in 1..c : i < j => f[i] < f[j]
    BY <1>2 DEF Enumerates
  <1>4. ASSUME NEW i \in 1..c, NEW j \in 1..c, f[i] = f[j] PROVE i = j
    <2>0. f[i] \in D /\ f[j] \in D
      BY <1>3
    <2>1. f[i] \in Nat /\ f[j] \in Nat
      <3>1. D \subseteq Nat
        OBVIOUS
      <3>. QED
        BY <2>0, <3>1
    <2>2. i \in Nat /\ j \in Nat
      OBVIOUS
    <2>3. ~(i < j) /\ ~(j < i)
      BY <1>3, <1>4, <2>1
    <2>. QED
      BY <2>2, <2>3
  <1>5. f \in Injection(1..c, D)
    BY <1>3, <1>4 DEF Injection, IsInjective
  <1>6. Cardinality(1..c) = c
    BY FS_Interval
  <1>7. f \in Surjection(1..c, D)
    BY <1>1, <1>2, <1>5, <1>6, FS_Injection
  <1>. QED
    BY <1>2, <1>7 DEF Surjection, Lists

\* The replay writes every batch that is kept.
LEMMA ReplaysAll ==
    ASSUME NEW t \in Tails, NEW k \in DOMAIN t.batches
    PROVE  t.batches[k] \in Ids(Replay(t))
  <1>. DEFINE D == DOMAIN t.batches
              order == CHOOSE f \in [1..Cardinality(D) -> D] : \A i, j \in DOMAIN f : i < j => f[i] < f[j]
  <1>1. t.batches \in Batches
    BY DEF Tails
  <1>2. D \subseteq 1..MaxWrites /\ MaxWrites \in Nat
    BY <1>1, BatchesFacts, Constants
  <1>3. D \in SUBSET (0..MaxWrites) /\ k \in D
    BY <1>2
  <1>4. Replay(t) = [i \in DOMAIN order |-> Entry(t.batches[order[i]], NoStamp, 0)]
    BY DEF Replay
  <1>. HIDE DEF D
  <1>5. PICK f : Enumerates(f, D)
    BY <1>2, <1>3, Enumeration
  <1>6. f \in [1..Cardinality(D) -> D] /\ \A i, j \in DOMAIN f : i < j => f[i] < f[j]
    BY <1>5 DEF Enumerates
  <1>7. order \in [1..Cardinality(D) -> D] /\ \A i, j \in DOMAIN order : i < j => order[i] < order[j]
    BY <1>6
  <1>. HIDE DEF order
  <1>8. Enumerates(order, D)
    BY <1>7 DEF Enumerates
  <1>9. PICK i \in 1..Cardinality(D) : order[i] = k
    <2>1. Lists(order, D)
      BY <1>2, <1>3, <1>8, EnumeratesAll
    <2>. QED
      BY <1>3, <2>1 DEF Lists
  <1>10. i \in DOMAIN order
    BY <1>7
  <1>11. Replay(t)[i] = Entry(t.batches[k], NoStamp, 0) /\ i \in DOMAIN Replay(t)
    BY <1>4, <1>9, <1>10
  <1>12. Replay(t)[i].id = t.batches[k]
    BY <1>11 DEF Entry
  <1>. QED
    BY <1>11, <1>12 DEF Ids

(* What Proven asks of the takeover on q.                                   *)
ProvenOK(q) ==
    /\ node[q].role = "replaying" => Replayed(q)
    /\ node[q].proof => node[q].role \in {"replaying", "replayed", "promoted"}
    /\ owner = q /\ node[q].proof /\ Clean =>
          /\ Missing \subseteq Ids(node[q].mem)
          /\ node[q].role # "replaying" => Missing = {}

\* Proven, node by node.
LEMMA ProvenByNode ==
    /\ Proven <=> \A q \in Node : ProvenOK(q)
    /\ Proven' <=> \A q \in Node : ProvenOK(q)'
  BY DEF Proven, ProvenOK

\* A takeover that goes on while nothing new is missing.
LEMMA ProvenSame ==
    ASSUME HonestInv, NEW q \in Node, node'[q].role = node[q].role, node'[q].proof = node[q].proof,
           Ids(node[q].mem) \subseteq Ids(node'[q].mem) \cup Ids(disk'.log),
           Ids(disk.log) \subseteq Ids(disk'.log),
           node[q].role = "replaying" => rcv'[q].tail = rcv[q].tail,
           owner' = q /\ node[q].proof /\ Clean' => owner = q /\ Clean /\ Missing' \subseteq Missing
    PROVE  ProvenOK(q)'
  <1>1. ProvenOK(q)
    BY ProvenByNode DEF HonestInv
  <1>2. node[q].role = "replaying" => Replayed(q)'
    BY <1>1 DEF ProvenOK, Replayed
  <1>3. Missing' \cap Ids(disk'.log) = {}
    BY DEF Missing
  <1>4. owner' = q /\ node[q].proof /\ Clean' =>
          /\ Missing' \subseteq Ids(node'[q].mem)
          /\ node[q].role # "replaying" => Missing' = {}
    BY <1>1, <1>3 DEF ProvenOK
  <1>. QED
    BY <1>1, <1>2, <1>4 DEF ProvenOK

\* A process that has proved nothing and replays nothing.
LEMMA ProvenNothing ==
    ASSUME NEW q \in Node, node'[q].role # "replaying", ~node'[q].proof
    PROVE  ProvenOK(q)'
  BY DEF ProvenOK

\* While a takeover holds the claim, nobody else has a lease.
LEMMA ClaimAlone ==
    ASSUME RepInv, HonestInv, NEW q \in Node, NEW x \in Node, q # x, owner = q, node[q].proof
    PROVE  ~node[x].lease
  <1>1. node[q].role \in Promoted
    BY ProvenByNode DEF HonestInv, ProvenOK, Promoted
  <1>2. node[q].epoch > 0
    BY <1>1, LeaseHasTerm
  <1>3. node[q].epoch \in Nat
    BY StateTypes DEF RepInv
  <1>. QED
    BY <1>2, <1>3 DEF HonestInv, Leases

\* The other node's takeover.
LEMMA ProvenOthers ==
    ASSUME RepInv, HonestInv, NEW x \in Node, Kinds(x), ~ \E p \in Node : Beaten(x, p), NEW q \in Node, q # x
    PROVE  ProvenOK(q)'
  <1>1. /\ node'[q].role = node[q].role /\ node'[q].proof = node[q].proof /\ node'[q].mem = node[q].mem
        /\ rcv'[q].tail = rcv[q].tail
    BY DEF Kinds, Labors, Sends, Accepted, Solo, Applies, Renews, Opens, Serves, Ends, Begins, Reconciles, Finishes,
           Completes, Rises, Stands
  <1>2. Ids(disk.log) \subseteq Ids(disk'.log)
    BY DEF Kinds, Labors, Sends, Accepted, Solo, Applies, Renews, Opens, Serves, Ends, Begins, Reconciles, Finishes,
           Completes, Rises, Flushes
  <1>3. ASSUME owner' = q, node[q].proof, Clean' PROVE owner = q /\ Clean /\ Missing' \subseteq Missing
    <2>1. owner = q
      BY <1>3 DEF Kinds, Labors, Sends, Accepted, Solo, Applies, Renews, Opens, Serves, Ends, Begins, Reconciles,
           Finishes, Completes, Rises
    <2>2. ~Accepted(x) /\ ~Solo(x) /\ ~Serves(x)
      BY <1>3, <2>1, ClaimAlone DEF Accepted, Solo, Applies, Serves
    <2>3. /\ acked' = acked /\ disk'.lineage = disk.lineage /\ disk'.taint = disk.taint
          /\ stranded \subseteq stranded'
      BY <2>2 DEF Kinds, Labors, Sends, Renews, Opens, Ends, Begins, Reconciles, Finishes, Completes, Rises, Flushes
    <2>. QED
      BY <1>2, <1>3, <2>1, <2>3, MissesLess DEF Clean
  <1>. QED
    BY <1>1, <1>2, <1>3, ProvenSame

\* A reconciled tail that covers its term has all that is missing.
LEMMA ReconcilesProves ==
    ASSUME RepInv, HonestInv, NEW n \in Node, Reconciles(n)
    PROVE  ProvenOK(n)'
  <1>1. PICK u : u = ReconciledTail(rcv[n].tail, disk.stamp)
    OBVIOUS
  <1>2. /\ u \in Tails /\ DurableTo(u.epoch, u.durable) /\ DOMAIN u.batches \subseteq 1..u.max
        /\ \A k \in DOMAIN u.batches : \E m \in ships : m.epoch = u.epoch /\ m.seq = k /\ m.id = u.batches[k]
    BY <1>1, ReplayedShips
  <1>3. TailOK(u)
    BY <1>2 DEF TailOK, Shipped
  <1>4. /\ rcv'[n].tail = u /\ node'[n].mem = Replay(u) /\ node'[n].role = "replaying" /\ node[n].role = "promoting"
        /\ node'[n].proof = PreservesLineage(u, node[n].snap) /\ disk' = disk /\ owner' = owner /\ acked' = acked
        /\ stranded' = stranded
    BY <1>1 DEF Reconciles, Rises
  <1>5. Replayed(n)'
    <2>1. \A k \in DOMAIN u.batches : u.batches[k] \in Ids(Replay(u))
      BY <1>2, ReplaysAll
    <2>. QED
      BY <1>4, <2>1 DEF Replayed
  <1>6. ASSUME node'[n].proof, Clean', NEW w \in Missing' PROVE w \in Ids(Replay(u))
    <2>0. Clean /\ w \in Missing
      BY <1>4, <1>6 DEF Clean, Missing
    <2>1. Found(w)
      BY <2>0, RecoverableByWrite DEF HonestInv
    <2>2. PICK e \in 1..MaxEpoch, k \in 1..MaxWrites : Shipped(e, k, w) /\ Held(e, k)
      BY <2>1 DEF Found
    <2>3. u.epoch = node[n].snap /\ u.max > 0 /\ Covered(u) /\ node[n].snap > 0
      BY <1>4, <1>6 DEF PreservesLineage
    <2>4. u.epoch = rcv[n].tail.epoch /\ u.max = rcv[n].tail.max
      <3>0. PICK t, st : t = rcv[n].tail /\ st = disk.stamp
        OBVIOUS
      <3>1. PICK v : v = IF st.solo THEN st.applied ELSE st.shipped
        OBVIOUS
      <3>2. t \in Tails /\ st \in Stamps
        BY <3>0, StateTypes DEF RepInv
      <3>3. v \in 0..MaxWrites
        BY <3>1, <3>2 DEF Stamps
      <3>4. u # NoTail
        BY <2>3, NoTailFacts
      <3>5. u = t \/ u = Prune(t, v)
        BY <1>1, <3>0, <3>1, <3>2, <3>4, ReconciledFacts
      <3>6. Prune(t, v).epoch = t.epoch /\ Prune(t, v).max = t.max
        BY <3>2, <3>3, PruneFacts
      <3>. QED
        BY <3>0, <3>5, <3>6
    <2>5. u.epoch = e /\ k <= u.max
      <3>1. Knows(n, e, k)
        BY <2>2 DEF Held
      <3>2. 0 < rcv[n].tail.max
        BY <2>3, <2>4
      <3>3. rcv[n].tail.epoch = Term(n)
        BY <1>4, <2>3, <2>4 DEF Term
      <3>4. node[n].role \notin {"replaying", "replayed", "promoted", "serving"}
        BY <1>4
      <3>. QED
        BY <2>4, <3>1, <3>2, <3>3, <3>4 DEF Knows
    <2>6. w \in Ids(disk.log) \/ (k \in DOMAIN u.batches /\ u.batches[k] = w)
      BY <1>2, <1>3, <2>2, <2>3, <2>5, Indexes, CoveredHas
    <2>7. w \notin Ids(disk.log)
      BY <2>0 DEF Missing
    <2>. QED
      BY <1>2, <2>6, <2>7, ReplaysAll
  <1>. QED
    BY <1>4, <1>5, <1>6 DEF ProvenOK

\* The steps of a takeover, and all others.
LEMMA ProvenSteps ==
    ASSUME RepInv, HonestInv, NEW n \in Node, Kinds(n), ~ \E p \in Node : Beaten(n, p)
    PROVE  Proven'
  <1>0. ProvenOK(n)
    BY ProvenByNode DEF HonestInv
  <1>1. ProvenOK(n)'
    <2>1. CASE Labors(n) \/ Sends(n)
      <3>1. /\ node'[n].role = node[n].role /\ node'[n].proof = node[n].proof /\ rcv' = rcv
            /\ Ids(node[n].mem) \subseteq Ids(node'[n].mem) \cup Ids(disk'.log)
            /\ owner' = owner /\ acked' = acked /\ Ids(disk.log) \subseteq Ids(disk'.log)
            /\ disk'.lineage = disk.lineage /\ disk'.taint = disk.taint /\ stranded' = stranded
        BY <2>1 DEF Labors, Sends, Stands, Flushes
      <3>2. Missing' \subseteq Missing /\ (Clean' => Clean)
        BY <3>1, MissesLess DEF Clean
      <3>. QED
        BY <3>1, <3>2, ProvenSame
    <2>2. CASE Accepted(n) \/ Solo(n)
      <3>1. node[n].role = "serving" /\ node'[n].role = node[n].role /\ node'[n].proof = node[n].proof
        BY <2>2 DEF Accepted, Solo, Applies, HonestInv, Leases
      <3>2. ~node[n].proof
        BY <1>0, <3>1 DEF ProvenOK
      <3>. QED
        BY <3>1, <3>2, ProvenNothing
    <2>3. CASE Ends(n) \/ Renews(n) \/ Opens(n)
      BY <2>3, ProvenNothing DEF Ends, Renews, Opens, Blank
    <2>4. CASE Begins(n)
      BY <1>0, <2>4, ProvenNothing DEF Begins, ProvenOK
    <2>5. CASE Reconciles(n)
      BY <2>5, ReconcilesProves
    <2>6. CASE Finishes(n)
      <3>1. /\ acked' = acked /\ owner' = owner /\ Ids(disk.log) \subseteq Ids(disk'.log)
            /\ disk'.lineage = disk.lineage /\ disk'.taint = disk.taint /\ stranded' = stranded
            /\ node'[n].role = "replayed" /\ node'[n].proof = node[n].proof
            /\ Ids(node[n].mem) \subseteq Ids(disk'.log)
        BY <2>6 DEF Finishes, Rises, Flushes
      <3>2. Missing' \subseteq Missing /\ Missing' \cap Ids(disk'.log) = {} /\ (Clean' => Clean)
        BY <3>1, MissesLess DEF Clean
      <3>3. owner' = n /\ node'[n].proof /\ Clean' => Missing' = {}
        BY <1>0, <3>1, <3>2 DEF ProvenOK
      <3>. QED
        BY <3>1, <3>3 DEF ProvenOK
    <2>7. CASE Completes(n)
      <3>1. /\ acked' = acked /\ owner' = owner /\ disk' = disk /\ stranded' = stranded
            /\ node[n].role = "replayed" /\ node'[n].role = "promoted" /\ node'[n].proof = node[n].proof
        BY <2>7 DEF Completes, Rises
      <3>2. owner' = n /\ node'[n].proof /\ Clean' => Missing' = {}
        BY <1>0, <3>1 DEF ProvenOK, Clean, Missing
      <3>. QED
        BY <3>1, <3>2 DEF ProvenOK
    <2>8. CASE Serves(n)
      BY <2>8, ProvenNothing DEF Serves
    <2>. QED
      BY <2>1, <2>2, <2>3, <2>4, <2>5, <2>6, <2>7, <2>8 DEF Kinds
  <1>. QED
    BY <1>1, ProvenOthers, ProvenByNode

\* What is heard of does not disturb a takeover.
LEMMA ProvenHears ==
    ASSUME RepInv, HonestInv, NEW p \in Node,
           (\E n \in Node : Beaten(n, p)) \/ \E m \in ships : Lands(m, p)
    PROVE  Proven'
  <1>. SUFFICES ASSUME NEW q \in Node PROVE ProvenOK(q)'
    BY ProvenByNode
  <1>1. /\ node'[q].role = node[q].role /\ node'[q].proof = node[q].proof /\ node'[q].mem = node[q].mem
        /\ disk' = disk /\ owner' = owner /\ acked' = acked /\ stranded' = stranded
    BY DEF Beaten, Lands, Hears, Stands
  <1>2. ASSUME node[q].role = "replaying" PROVE rcv'[q].tail = rcv[q].tail
    <2>0. rcv[q].phase = "fenced"
      BY <1>2 DEF RepInv, Receiving
    <2>1. CASE q # p
      BY <2>1 DEF Beaten, Lands, Hears
    <2>2. CASE q = p /\ \E n \in Node : Beaten(n, p)
      BY <1>2, <2>2 DEF Beaten
    <2>3. CASE q = p /\ \E m \in ships : Lands(m, p)
      <3>1. PICK m \in ships : Lands(m, p)
        BY <2>3
      <3>2. PICK r, z, a : /\ r = rcv[p] /\ z = Received(rcv[p], node[p].epoch, m).rcv
                           /\ a = Received(rcv[p], node[p].epoch, m).answer
        OBVIOUS
      <3>3. m \in Messages /\ r \in Receivers
        BY <3>2, StateTypes DEF RepInv
      <3>4. Rejects(r, m, z, a) \/ Asks(r, m, z, a) \/ Takes(r, m, z, a) \/ Refuses(r, m, z, a)
        BY <3>2, <3>3, ReceivedCases
      <3>5. z.tail = r.tail
        BY <2>0, <2>3, <3>2, <3>4 DEF Rejects, Asks, Takes, Refuses
      <3>. QED
        BY <2>3, <3>1, <3>2, <3>5 DEF Lands
    <2>. QED
      BY <2>1, <2>2, <2>3
  <1>3. Missing' \subseteq Missing /\ (Clean' => Clean)
    BY <1>1 DEF Missing, Clean
  <1>. QED
    BY <1>1, <1>2, <1>3, ProvenSame

-----------------------------------------------------------------------------
(* The lineage is honest *)

(* What OnlyStrandedLost asks of the process on q.                          *)
HonestOK(q) ==
    node[q].role = "serving" /\ node[q].lease =>
       \A a \in acked : a.token = node[q].token /\ a.id \in (1..MaxWrites) \ stranded =>
                            a.id \in Ids(disk.log) \cup Ids(node[q].mem)

\* OnlyStrandedLost, node by node.
LEMMA HonestByNode ==
    /\ OnlyStrandedLost <=> \A q \in Node : HonestOK(q)
    /\ OnlyStrandedLost' <=> \A q \in Node : HonestOK(q)'
  BY DEF OnlyStrandedLost, Keeps, HonestOK

\* A server that loses nothing of its memory while nothing is acknowledged.
LEMMA HonestSame ==
    ASSUME HonestInv, NEW q \in Node, node'[q].role = node[q].role, node'[q].lease => node[q].lease,
           node'[q].token = node[q].token, acked' = acked, Ids(disk.log) \subseteq Ids(disk'.log),
           stranded \subseteq stranded',
           Ids(node[q].mem) \subseteq Ids(node'[q].mem) \cup Ids(disk'.log)
    PROVE  HonestOK(q)'
  <1>1. HonestOK(q)
    BY HonestByNode DEF HonestInv
  <1>. QED
    BY <1>1 DEF HonestOK

\* A process without a lease answers for nothing.
LEMMA HonestIdle ==
    ASSUME NEW q \in Node, ~node'[q].lease \/ node'[q].role # "serving"
    PROVE  HonestOK(q)'
  BY DEF HonestOK

\* Every step of a node that hears nothing.
LEMMA HonestSteps ==
    ASSUME RepInv, HonestInv, NEW n \in Node, Kinds(n), ~ \E p \in Node : Beaten(n, p)
    PROVE  OnlyStrandedLost'
  <1>. SUFFICES ASSUME NEW q \in Node PROVE HonestOK(q)'
    BY HonestByNode
  <1>1. CASE Labors(n) \/ Sends(n)
    <2>1. /\ acked' = acked /\ stranded' = stranded /\ Ids(disk.log) \subseteq Ids(disk'.log)
          /\ node'[q].role = node[q].role /\ node'[q].token = node[q].token /\ node'[q].lease = node[q].lease
          /\ Ids(node[q].mem) \subseteq Ids(node'[q].mem) \cup Ids(disk'.log)
      BY <1>1 DEF Labors, Sends, Stands, Flushes
    <2>. QED
      BY <2>1, HonestSame
  <1>2. CASE Accepted(n) \/ Solo(n)
    <2>0. Applies(n)
      BY <1>2 DEF Accepted, Solo
    <2>1. CASE q = n
      <3>1. node[n].role = "serving" /\ node[n].lease
        BY <2>0 DEF Applies, HonestInv, Leases
      <3>2. HonestOK(n)
        BY HonestByNode DEF HonestInv
      <3>3. ASSUME NEW a \in acked', a.token = node'[n].token, a.id \in (1..MaxWrites) \ stranded'
            PROVE  a.id \in Ids(disk'.log) \cup Ids(node'[n].mem)
        <4>1. CASE a \in acked
          <5>1. a.id \in Ids(disk.log) \cup Ids(node[n].mem)
            BY <2>0, <3>1, <3>2, <3>3, <4>1 DEF HonestOK, Applies
          <5>. QED
            BY <2>0, <5>1 DEF Applies, Flushes
        <4>2. CASE a = [id |-> node[n].write, token |-> node[n].token]
          BY <2>0, <4>2 DEF Applies
        <4>. QED
          BY <2>0, <4>1, <4>2 DEF Applies
      <3>. QED
        BY <2>1, <3>3 DEF HonestOK
    <2>2. CASE q # n
      <3>1. ~node[q].lease
        BY <2>0, <2>2 DEF Applies, HonestInv, Leases, Latest
      <3>2. node'[q] = node[q]
        BY <2>0, <2>2 DEF Applies
      <3>. QED
        BY <3>1, <3>2, HonestIdle
    <2>. QED
      BY <2>1, <2>2
  <1>3. CASE Ends(n) \/ Renews(n)
    <2>1. CASE q = n
      BY <1>3, <2>1, HonestIdle DEF Ends, Renews, Blank
    <2>2. CASE q # n
      BY <1>3, <2>2, HonestSame DEF Ends, Renews
    <2>. QED
      BY <2>1, <2>2
  <1>4. CASE Opens(n)
    BY <1>4, HonestIdle DEF Opens, Blank
  <1>5. CASE Rises(n)
    <2>1. CASE q = n
      BY <1>5, <2>1, HonestIdle DEF Rises
    <2>2. CASE q # n
      BY <1>5, <2>2, HonestSame DEF Rises, Flushes
    <2>. QED
      BY <2>1, <2>2
  <1>6. CASE Serves(n)
    <2>1. CASE q = n
      <3>1. Missing' = {}
        BY <1>6, NothingMissing
      <3>2. node'[n].token = disk'.lineage /\ acked' = acked
        BY <1>6 DEF Serves
      <3>3. ASSUME NEW a \in acked', a.token = disk'.lineage, a.id \notin stranded' PROVE a.id \in Ids(disk'.log)
        <4>1. a \in [id : 1..MaxWrites, token : 0..MaxEpoch]
          BY <3>2, <3>3 DEF RepInv, Types
        <4>2. a.id \in 1..MaxWrites /\ a = [id |-> a.id, token |-> disk'.lineage]
          BY <3>3, <4>1
        <4>. QED
          BY <3>1, <3>3, <4>2 DEF Missing
      <3>. QED
        BY <2>1, <3>2, <3>3 DEF HonestOK
    <2>2. CASE q # n
      <3>1. node'[q] = node[q] /\ acked' = acked /\ stranded' = stranded /\ disk'.log = disk.log
        BY <1>6, <2>2 DEF Serves
      <3>. QED
        BY <3>1, HonestSame
    <2>. QED
      BY <2>1, <2>2
  <1>. QED
    BY <1>1, <1>2, <1>3, <1>4, <1>5, <1>6 DEF Kinds, Begins, Reconciles, Finishes, Completes

\* What is heard of changes no memory.
LEMMA HonestHears ==
    ASSUME RepInv, HonestInv, NEW p \in Node,
           (\E n \in Node : Beaten(n, p)) \/ \E m \in ships : Lands(m, p)
    PROVE  OnlyStrandedLost'
  <1>. SUFFICES ASSUME NEW q \in Node PROVE HonestOK(q)'
    BY HonestByNode
  <1>1. /\ node'[q].role = node[q].role /\ node'[q].token = node[q].token /\ node'[q].mem = node[q].mem
        /\ (node'[q].lease => node[q].lease) /\ disk' = disk /\ acked' = acked /\ stranded' = stranded
    BY DEF Beaten, Lands, Hears, Stands
  <1>. QED
    BY <1>1, HonestSame

-----------------------------------------------------------------------------
(* The invariant is inductive *)

\* Initially nobody has a term, and nothing is acknowledged.
LEMMA HonestStarts ==
    ASSUME Init
    PROVE  HonestInv
  <1>1. /\ acked = {} /\ ships = {} /\ stranded = {} /\ disk.lineage = 0 /\ disk.taint = 0 /\ owner = NoNode
        /\ \A n \in Node : node[n] = Fresh /\ rcv[n] = NewReceiver
    BY DEF Init
  <1>2. /\ Fresh.role = "standby" /\ ~Fresh.lease /\ ~Fresh.proof /\ ~Fresh.tainted /\ Fresh.answer = "none"
        /\ Fresh.op = "none" /\ Fresh.epoch = 0 /\ ~Fresh.beat.sent
        /\ NewReceiver.phase = "standby"
    BY DEF Fresh, NoBeat, NewReceiver
  <1>3. Leases /\ Owning /\ Tokens
    BY <1>1, <1>2, Constants DEF Leases, Owning, Tokens
  <1>4. Sending /\ Fences /\ Exposing /\ Accepting
    BY <1>1, <1>2 DEF Sending, Fences, Exposing, Stranding, Accepting
  <1>5. Missing = {}
    BY <1>1 DEF Missing
  <1>6. Recoverable /\ Proven /\ OnlyStrandedLost
    BY <1>1, <1>2, <1>5 DEF Recoverable, Proven, OnlyStrandedLost
  <1>. QED
    BY <1>3, <1>4, <1>6 DEF HonestInv

\* A step of a node.
LEMMA HonestByStep ==
    ASSUME RepInv, RepInv', Advances, HonestInv, NEW n \in Node, Kinds(n), ~ \E p \in Node : Beaten(n, p)
    PROVE  HonestInv'
  <1>1. Leases' /\ Owning' /\ Tokens'
    <2>1. CASE Opens(n) \/ Serves(n)
      BY <2>1, OpensHolds, ServesHolds
    <2>2. CASE ~(Opens(n) \/ Serves(n))
      <3>1. Calm
        BY <2>2, CalmLeader, CalmReset, CalmRise DEF Kinds, Begins, Reconciles, Finishes, Completes
      <3>. QED
        BY <3>1, CalmLeases, CalmTokens
    <2>. QED
      BY <2>1, <2>2
  <1>2. Sending'
    BY SendingSteps, SendsSending DEF Kinds, Begins, Reconciles, Finishes, Completes
  <1>3. Fences'
    BY FencesSteps DEF Kinds
  <1>4. Exposing' /\ Accepting'
    BY ExposingSteps, AcceptingSteps
  <1>5. Recoverable'
    BY RecoverableSteps, RecoverableAccepted, RecoverableSolo, RecoverableServes DEF Kinds
  <1>6. Proven' /\ OnlyStrandedLost'
    BY ProvenSteps, HonestSteps
  <1>. QED
    BY <1>1, <1>2, <1>3, <1>4, <1>5, <1>6 DEF HonestInv

\* A heartbeat or a request arrives.
LEMMA HonestByHearing ==
    ASSUME RepInv, RepInv', Advances, HonestInv, NEW p \in Node,
           (\E n \in Node : Beaten(n, p)) \/ \E m \in ships : Lands(m, p)
    PROVE  HonestInv'
  <1>1. Leases' /\ Owning' /\ Tokens'
    BY CalmHear, CalmLeases, CalmTokens
  <1>2. Sending' /\ Fences'
    BY HearsSending, HearsFences
  <1>3. Exposing' /\ Accepting'
    BY ExposingHears, AcceptingBeaten, AcceptingLands
  <1>4. Recoverable' /\ Proven' /\ OnlyStrandedLost'
    BY RecoverableHears, ProvenHears, HonestHears
  <1>. QED
    BY <1>1, <1>2, <1>3, <1>4 DEF HonestInv

\* Nothing happens to what the invariant is about.
LEMMA HonestUnchanged ==
    ASSUME HonestInv, UNCHANGED <<disk, owner, node, rcv, ships, acked, nextWrite, stranded>>
    PROVE  HonestInv'
  <1>1. /\ Missing' = Missing /\ (Clean' <=> Clean) /\ \A n \in Node : Latest(n)' <=> Latest(n)
    BY DEF Missing, Clean, Latest
  <1>2. Leases' /\ Owning' /\ Tokens'
    BY <1>1 DEF HonestInv, Leases, Owning, Tokens
  <1>3. Sending' /\ Fences' /\ Accepting'
    BY DEF HonestInv, Sending, Fences, Accepting, Told, Shipped, Waiting, UpToDate
  <1>4. \A e, k, w : (Held(e, k)' <=> Held(e, k)) /\ (Shipped(e, k, w)' <=> Shipped(e, k, w))
    BY DEF Held, Newest, Knows, Term, Tells, Told, UpToDate, Shipped
  <1>5. Recoverable'
    BY <1>1, <1>4 DEF HonestInv, Recoverable
  <1>6. Proven'
    BY <1>1 DEF HonestInv, Proven, Replayed
  <1>7. OnlyStrandedLost' /\ Exposing'
    BY DEF HonestInv, OnlyStrandedLost, Keeps, Exposing, Stranding
  <1>. QED
    BY <1>2, <1>3, <1>5, <1>6, <1>7 DEF HonestInv

\* Every step.
LEMMA HonestStep ==
    ASSUME RepInv, RepInv', HonestInv, [Next]_vars
    PROVE  HonestInv'
  <1>0. Advances
    BY Advancing
  <1>1. CASE \E n \in Node : NodeStep(n)
    <2>1. PICK n \in Node : NodeStep(n)
      BY <1>1
    <2>2. Kinds(n)
      BY <2>1, NodeKinds
    <2>3. CASE \E p \in Node : Beaten(n, p)
      BY <1>0, <2>3, HonestByHearing
    <2>4. CASE ~ \E p \in Node : Beaten(n, p)
      BY <1>0, <2>2, <2>4, HonestByStep
    <2>. QED
      BY <2>3, <2>4
  <1>2. CASE \E m \in ships, p \in Node : Deliver(m, p)
    <2>1. PICK m \in ships, p \in Node : Deliver(m, p)
      BY <1>2
    <2>2. Lands(m, p)
      BY <2>1, LandSteps
    <2>. QED
      BY <1>0, <2>2, HonestByHearing
  <1>3. CASE StrayOpen
    BY <1>3, HonestUnchanged DEF StrayOpen
  <1>4. CASE UNCHANGED vars
    BY <1>4, HonestUnchanged DEF vars
  <1>. QED
    BY <1>1, <1>2, <1>3, <1>4 DEF Next

\* HonestInv holds throughout: what was acknowledged under the lineage in force and
\* is neither stranded nor on shared storage is in every tail a takeover could keep
\* the token by, and heartbeats under way do not tell a standby otherwise.
THEOREM HonestInvariant == Spec => []HonestInv
  <1>1. Init => HonestInv
    BY HonestStarts
  <1>2. RepInv /\ RepInv' /\ HonestInv /\ [Next]_vars => HonestInv'
    BY HonestStep
  <1>. QED
    BY <1>1, <1>2, ReplicationInvariant, PTL DEF Spec

\* Whoever serves with a lineage token has every write that was acknowledged under
\* it (resolve_lineage_token, PreservesLineage and the taint of Solo operation), but
\* for those that the death of a standby left to their leader alone, for any number
\* of writes, terms and restarts.
THEOREM LineageStaysHonest == Spec => []OnlyStrandedLost
  BY HonestInvariant, PTL DEF HonestInv
=============================================================================
