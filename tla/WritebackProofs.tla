-------------------------- MODULE WritebackProofs --------------------------
(***************************************************************************)
(* The write-back tier of Writeback, for any keys, any batches, writers,   *)
(* lanes and windows, and any number of operations, disk failures, store   *)
(* errors and crashes: after a crash at any moment, one during recovery    *)
(* included, the journal opens again (WbInv is the inductive invariant     *)
(* this rests on); every answered barrier survives, the remote store holds *)
(* a prefix of what was accepted and is never reported as diverged         *)
(* (SeenInv, which rests on WbInv); and a read that the tier overtakes     *)
(* returns what the object held meanwhile (ReadInv, which rests on both).  *)
(***************************************************************************)
EXTENDS WritebackReads, NaturalsFacts, SequenceTheorems, TLAPS

-----------------------------------------------------------------------------
(* The inductive invariant *)

Containers == [first : Nat \ {0}, last : Nat, state : {"torn", "whole", "unlinked"}]
Batches == [first : Nat, last : Nat, stage : {"staging", "ready", "committing", "observing"}]
Value == Content \cup {Absent}
Disks == [rows : SUBSET Nat, local : Nat, remote : Nat, blobs : SUBSET Containers,
          versions : [Key -> [seq : Nat, tag : Value]]]
Drainings == [state : {"up", "failing", "failed"}, admitted : Nat, batches : Seq(Batches)]
Schedules == [mode : {"wait", "run", "stopped"}, next : Nat, window : SUBSET Nat, active : SUBSET Nat,
              done : SUBSET Nat, commit : {"idle", "marked", "retired", "swept", "pruned"}, last : Nat,
              retry : BOOLEAN, why : {"none", "local", "corrupt", "diverged", "io"}]
Uses == [ops : Nat, fails : Nat, errors : Nat, crashes : Nat]

Types ==
    /\ log \in Seq(Mutation) /\ Len(log) <= used.ops /\ used.ops <= MaxOps /\ used \in Uses
    /\ DOMAIN overlay \subseteq DOMAIN log
    /\ \A s \in DOMAIN overlay : overlay[s] \in {"memory", "journal"}
    /\ disk \in Disks /\ drain \in Drainings /\ sched \in Schedules
    /\ barrier \in Nat /\ remote \in [Key -> Value]
    /\ proc \in {"up", "opening", "sweeping", "pruning", "checking"}

(* The rows are those of the sequences between the watermarks, and maybe     *)
(* some below.                                                              *)
Watermarks ==
    /\ disk.remote <= disk.local /\ disk.local <= Len(log) /\ barrier <= disk.local
    /\ disk.rows \subseteq 1..disk.local
    /\ (disk.remote + 1)..disk.local \subseteq disk.rows

(* The batches follow each other.  The first alone is committed, from the   *)
(* local watermark on, and while nothing has failed there is no gap.        *)
Batch(i) == drain.batches[i]
Before(i) == IF i = 1 THEN disk.local ELSE drain.batches[i - 1].last
BatchOf(i) ==
    /\ Batch(i).first <= Batch(i).last /\ Batch(i).last <= drain.admitted
    /\ Batch(i).stage # "observing" => Batch(i).first > disk.local
    /\ Batch(i).stage \in {"committing", "observing"} => i = 1
    /\ Batch(i).stage = "committing" => Batch(i).first = disk.local + 1
    /\ Batch(i).stage = "observing" => Batch(i).last = disk.local
    /\ drain.state = "up" /\ Batch(i).stage # "observing" => Batch(i).first = Before(i) + 1
Draining ==
    /\ drain.admitted <= Len(log)
    /\ proc # "up" => drain.batches = <<>>
    /\ \A i \in DOMAIN drain.batches : BatchOf(i)
    /\ \A i, j \in DOMAIN drain.batches : i < j => Batch(i).last < Batch(j).first
    /\ proc = "up" /\ drain.state = "up" => drain.admitted = Before(Len(drain.batches) + 1)

(* The payloads between the watermarks are in whole containers, and so are  *)
(* those of a batch that is staged.                                         *)
Holds(c, s) == s \in c.first..c.last
Kept(s) == \E c \in disk.blobs : c.state = "whole" /\ Holds(c, s) /\ c.last <= disk.local
Within(c, i) == Batch(i).first <= c.first /\ c.last <= Batch(i).last
InContainer(i, s) ==
    \E c \in disk.blobs : /\ Holds(c, s) /\ Within(c, i) /\ c.state # "unlinked"
                          /\ Batch(i).stage # "staging" => c.state = "whole"
Payloads ==
    /\ \A s \in (disk.remote + 1)..disk.local : HasPayload(log[s]) => Kept(s)
    /\ \A i \in DOMAIN drain.batches : Batch(i).stage # "observing" =>
          \A s \in Members(Batch(i)) : HasPayload(log[s]) => InContainer(i, s)

(* A container ends with a payload that the log has, unless it is one that   *)
(* recovery has yet to remove.                                              *)
EndOf(c) ==
    /\ c.first <= c.last
    /\ c.last \in DOMAIN log => HasPayload(log[c.last])
    /\ proc # "opening" => c.last \in DOMAIN log
    /\ proc \in {"sweeping", "pruning", "checking"} => c.last <= disk.local
    /\ proc = "checking" => c.last > disk.remote
Endings == \A c \in disk.blobs : EndOf(c)

(* The scheduler works on what is committed, from the remote watermark on.  *)
Scheduling ==
    /\ sched.window \cup sched.active \cup sched.done \subseteq 1..disk.local
    /\ sched.commit # "idle" => sched.last = disk.remote
    /\ proc = "up" /\ sched.mode # "stopped" /\ sched.commit = "idle" => sched.next = disk.remote + 1

WbInv == Types /\ Watermarks /\ Draining /\ Payloads /\ Endings /\ Scheduling

-----------------------------------------------------------------------------
(* Types *)

LEMMA Constants ==
    /\ MaxOps \in Nat /\ BatchMax \in Nat \ {0} /\ NoKey \notin Key
    /\ Content = 1..MaxOps /\ Sequence = 1..MaxOps /\ Absent = 0
  BY WritebackBounds DEF Key, Content, Sequence, Absent

LEMMA DiskTypes ==
    ASSUME Types
    PROVE  /\ disk \in Disks /\ disk.rows \subseteq Nat /\ disk.local \in Nat /\ disk.remote \in Nat
           /\ disk.blobs \subseteq Containers /\ disk.versions \in [Key -> [seq : Nat, tag : Value]]
           /\ \A c \in disk.blobs : c.first \in Nat /\ c.last \in Nat
  <1>1. disk \in Disks
    BY DEF Types
  <1>2. /\ disk.rows \subseteq Nat /\ disk.local \in Nat /\ disk.remote \in Nat
        /\ disk.blobs \subseteq Containers /\ disk.versions \in [Key -> [seq : Nat, tag : Value]]
    BY <1>1 DEF Disks
  <1>. QED
    BY <1>1, <1>2 DEF Containers

LEMMA LogTypes ==
    ASSUME Types
    PROVE  /\ log \in Seq(Mutation) /\ Len(log) \in Nat /\ DOMAIN log = 1..Len(log) /\ DOMAIN log \subseteq Sequence
           /\ used \in Uses /\ used.ops \in Nat
           /\ \A s \in DOMAIN log : log[s] \in Mutation /\ log[s].val \in Value /\ log[s].key \in Key
  <1>1. log \in Seq(Mutation) /\ Len(log) <= used.ops /\ used.ops <= MaxOps /\ used \in Uses
    BY DEF Types
  <1>2. Len(log) \in Nat /\ DOMAIN log = 1..Len(log) /\ \A s \in DOMAIN log : log[s] \in Mutation
    BY <1>1, LenProperties
  <1>3. used.ops \in Nat
    BY <1>1 DEF Uses
  <1>4. DOMAIN log \subseteq Sequence
    BY <1>1, <1>2, <1>3, Constants
  <1>5. \A m \in Mutation : m.val \in Value /\ m.key \in Key
    BY DEF Mutation, Value
  <1>. QED
    BY <1>1, <1>2, <1>3, <1>4, <1>5

LEMMA DrainTypes ==
    ASSUME Types
    PROVE  /\ drain \in Drainings /\ drain.admitted \in Nat /\ drain.batches \in Seq(Batches)
           /\ drain.state \in {"up", "failing", "failed"}
           /\ Len(drain.batches) \in Nat /\ DOMAIN drain.batches = 1..Len(drain.batches)
           /\ \A i \in DOMAIN drain.batches : /\ i \in Nat \ {0} /\ Batch(i) \in Batches
                                              /\ Batch(i).first \in Nat /\ Batch(i).last \in Nat
  <1>1. drain \in Drainings
    BY DEF Types
  <1>2. drain.admitted \in Nat /\ drain.batches \in Seq(Batches) /\ drain.state \in {"up", "failing", "failed"}
    BY <1>1 DEF Drainings
  <1>3. Len(drain.batches) \in Nat /\ DOMAIN drain.batches = 1..Len(drain.batches)
    BY <1>2, LenProperties
  <1>4. \A i \in DOMAIN drain.batches : i \in Nat \ {0} /\ drain.batches[i] \in Batches
    BY <1>2, <1>3
  <1>5. \A b \in Batches : b.first \in Nat /\ b.last \in Nat
    BY DEF Batches
  <1>. QED
    BY <1>1, <1>2, <1>3, <1>4, <1>5 DEF Batch

LEMMA SchedTypes ==
    ASSUME Types
    PROVE  /\ sched \in Schedules /\ sched.next \in Nat /\ sched.last \in Nat
           /\ sched.window \subseteq Nat /\ sched.active \subseteq Nat /\ sched.done \subseteq Nat
           /\ sched.retry \in BOOLEAN
  <1>1. sched \in Schedules
    BY DEF Types
  <1>. QED
    BY <1>1 DEF Schedules

\* What is used of a bound.
LEMMA UseTypes ==
    ASSUME Types, NEW b \in {"fails", "errors", "crashes"}, Use(b)
    PROVE  used' \in Uses /\ used'.ops = used.ops
  <1>1. used \in Uses
    BY DEF Types
  <1>2. CASE b = "fails"
    <2>1. used' = [used EXCEPT !.fails = @ + 1]
      BY <1>2 DEF Use
    <2>. QED
      BY <1>1, <2>1 DEF Uses
  <1>3. CASE b = "errors"
    <2>1. used' = [used EXCEPT !.errors = @ + 1]
      BY <1>3 DEF Use
    <2>. QED
      BY <1>1, <2>1 DEF Uses
  <1>4. CASE b = "crashes"
    <2>1. used' = [used EXCEPT !.crashes = @ + 1]
      BY <1>4 DEF Use
    <2>. QED
      BY <1>1, <2>1 DEF Uses
  <1>. QED
    BY <1>2, <1>3, <1>4

\* A set of sequences has a last one.
LEMMA LastOf ==
    ASSUME Types, NEW S, S \subseteq DOMAIN log, S # {}
    PROVE  Max(S) \in S
  <1>1. S \subseteq Nat /\ Len(log) \in Nat /\ \A x \in S : x <= Len(log)
    BY LogTypes
  <1>. QED
    BY <1>1, GreatestElement

\* What a mutation leaves, and what is visible, is content or nothing.
LEMMA EffectTypes ==
    ASSUME NEW m \in Mutation, NEW k
    PROVE  Effect(m, k) \in Value
  BY DEF Effect, Mutation, Value

LEMMA VisibleTypes ==
    ASSUME Types, NEW k \in Key
    PROVE  Visible(k) \in Value \cup {Lost}
  <1>. DEFINE on == {s \in DOMAIN overlay : k \in Touched(log[s])}
  <1>1. remote[k] \in Value
    BY DEF Types
  <1>2. on \subseteq DOMAIN log
    BY DEF Types
  <1>3. Absent \in Value
    BY DEF Value
  <1>4. ASSUME on # {} PROVE log[Max(on)].val \in Value
    BY <1>2, <1>4, LastOf, LogTypes
  <1>. HIDE DEF on
  <1>5. Visible(k) = IF on = {} THEN remote[k] ELSE IF Effect(log[Max(on)], k) = Absent THEN Absent
                     ELSE IF overlay[Max(on)] = "memory" \/ BlobReadable(Max(on)) THEN log[Max(on)].val ELSE Lost
    BY DEF Visible, on
  <1>. QED
    BY <1>1, <1>3, <1>4, <1>5

\* Every mutation a client makes is one.
LEMMA MutationTypes ==
    ASSUME Types, used.ops < MaxOps
    PROVE  /\ \A k \in Key : /\ Plain(k, "create", NoKey, NewContent) \in Mutation
                             /\ Plain(k, "overwrite", NoKey, NewContent) \in Mutation
                             /\ Plain(k, "delete", NoKey, Absent) \in Mutation
           /\ \A k, j \in Key : Visible(j) \notin {Absent, Lost} => Plain(k, "rename", j, Visible(j)) \in Mutation
           /\ \A k \in Key : LET on == {s \in DOMAIN overlay : k \in Touched(log[s])}
                             IN  [Plain(k, "update", NoKey, NewContent) EXCEPT
                                    !.seq = IF on = {} THEN 0 ELSE Max(on),
                                    !.tag = IF on = {} THEN remote[k] ELSE Absent] \in Mutation
  <1>1. NewContent \in Content /\ 0 \in Sequence \cup {0}
    BY Constants, LogTypes DEF NewContent
  <1>2. ASSUME NEW k \in Key
        PROVE  /\ Plain(k, "create", NoKey, NewContent) \in Mutation
               /\ Plain(k, "overwrite", NoKey, NewContent) \in Mutation
               /\ Plain(k, "delete", NoKey, Absent) \in Mutation
    BY <1>1 DEF Plain, Mutation
  <1>3. ASSUME NEW k \in Key, NEW j \in Key, Visible(j) \notin {Absent, Lost} PROVE Plain(k, "rename", j, Visible(j)) \in Mutation
    <2>1. Visible(j) \in Content
      BY <1>3, VisibleTypes DEF Value
    <2>. QED
      BY <2>1 DEF Plain, Mutation
  <1>4. ASSUME NEW k \in Key, NEW q \in Sequence \cup {0}, NEW t \in Value
        PROVE  [Plain(k, "update", NoKey, NewContent) EXCEPT !.seq = q, !.tag = t] \in Mutation
    BY <1>1, <1>4 DEF Plain, Mutation, Value
  <1>5. ASSUME NEW k \in Key, NEW on, on = {s \in DOMAIN overlay : k \in Touched(log[s])}
        PROVE  /\ (IF on = {} THEN 0 ELSE Max(on)) \in Sequence \cup {0}
               /\ (IF on = {} THEN remote[k] ELSE Absent) \in Value
    <2>1. on \subseteq DOMAIN log
      BY <1>5 DEF Types
    <2>2. on # {} => Max(on) \in Sequence
      BY <2>1, LastOf, LogTypes
    <2>3. remote[k] \in Value /\ Absent \in Value
      BY DEF Types, Value
    <2>. QED
      BY <2>2, <2>3
  <1>. QED
    BY <1>2, <1>3, <1>4, <1>5


-----------------------------------------------------------------------------
(* What a step has to keep *)

\* A step that changes only the containers of the journal.
LEMMA OnlyContainers ==
    ASSUME Types, NEW X, X \subseteq Containers, disk' = [disk EXCEPT !.blobs = X]
    PROVE  /\ disk' \in Disks /\ disk'.blobs = X
           /\ disk'.rows = disk.rows /\ disk'.local = disk.local /\ disk'.remote = disk.remote
  BY DiskTypes, SMTT(30) DEF Disks

\* Changing one state of the scheduler's many keeps its type.
LEMMA SchedFields ==
    ASSUME Types
    PROVE  /\ \A w \in SUBSET Nat, m \in {"wait", "run", "stopped"} :
                  [sched EXCEPT !.mode = m, !.window = w] \in Schedules
           /\ \A a, d, w \in SUBSET Nat : [sched EXCEPT !.active = a, !.done = d, !.window = w] \in Schedules
           /\ \A a \in SUBSET Nat, b \in BOOLEAN : [sched EXCEPT !.active = a, !.retry = b] \in Schedules
           /\ \A x \in {"local", "corrupt", "diverged", "io"} : Stop(x) \in Schedules
  BY SchedTypes DEF Schedules, Stop

\* The log is not shortened.
Longer == DOMAIN log \subseteq DOMAIN log' /\ \A s \in DOMAIN log : log'[s] = log[s]

LEMMA LongerLog ==
    ASSUME Types, Types', Longer
    PROVE  Len(log) <= Len(log')
  <1>1. /\ Len(log) \in Nat /\ DOMAIN log = 1..Len(log)
        /\ Len(log') \in Nat /\ DOMAIN log' = 1..Len(log')
    BY LenProperties DEF Types
  <1>. QED
    BY <1>1 DEF Longer

\* The batches are left alone.
LEMMA DrainingKept ==
    ASSUME Types, Types', Draining, drain' = drain, proc' = proc, disk'.local = disk.local, Longer
    PROVE  Draining'
  <1>1. Len(log) \in Nat /\ Len(log') \in Nat /\ Len(log) <= Len(log') /\ drain.admitted \in Nat
    BY LogTypes, LongerLog, DrainTypes, LenProperties DEF Types
  <1>. QED
    BY <1>1 DEF Draining, BatchOf, Batch, Before

\* A container is still there, as complete as it was.
Stays(c) ==
    \E d \in disk'.blobs : d.first = c.first /\ d.last = c.last /\ d.state # "unlinked"
                           /\ (c.state = "whole" => d.state = "whole")
ReadableStays ==
    \A c \in disk.blobs : c.state = "whole" /\ c.last <= disk.local /\ c.last > disk'.remote => Stays(c)

LEMMA KeptStays ==
    ASSUME WbInv, Types', Longer, disk'.local >= disk.local, disk'.remote >= disk.remote, ReadableStays,
           NEW s \in (disk'.remote + 1)..disk.local, HasPayload(log'[s])
    PROVE  Kept(s)'
  <1>1. Types /\ disk.local \in Nat /\ disk.remote \in Nat /\ Len(log) \in Nat /\ disk.local <= Len(log)
        /\ DOMAIN log = 1..Len(log)
    BY DiskTypes, LogTypes DEF WbInv, Watermarks
  <1>2. disk'.local \in Nat /\ disk'.remote \in Nat
    BY DEF Types, Disks
  <1>3. s \in (disk.remote + 1)..disk.local /\ s \in DOMAIN log /\ s \in Nat
    BY <1>1, <1>2
  <1>4. Kept(s)
    BY <1>3 DEF Longer, WbInv, Payloads
  <1>5. PICK c \in disk.blobs : c.state = "whole" /\ Holds(c, s) /\ c.last <= disk.local
    BY <1>4 DEF Kept
  <1>6. c.first \in Nat /\ c.last \in Nat /\ c.last > disk'.remote
    BY <1>1, <1>2, <1>3, <1>5, DiskTypes DEF Holds
  <1>7. PICK d \in disk'.blobs : d.first = c.first /\ d.last = c.last /\ d.state = "whole"
    BY <1>5, <1>6 DEF ReadableStays, Stays
  <1>. QED
    BY <1>1, <1>2, <1>5, <1>6, <1>7 DEF Kept, Holds

\* Batch i is what batch j was, in the same half of its life, and its container
\* is there.
Same(i, j) ==
    /\ j \in DOMAIN drain.batches /\ Batch(j).stage # "observing"
    /\ Batch(i)'.first = Batch(j).first /\ Batch(i)'.last = Batch(j).last
    /\ Batch(i)'.stage # "staging" => Batch(j).stage # "staging"
    /\ \A c \in disk.blobs : Within(c, j) /\ c.state # "unlinked" => Stays(c)
SameBatch(i) == \E j \in Nat : Same(i, j)

LEMMA StagedStays ==
    ASSUME WbInv, Types', Longer, NEW i \in Nat, SameBatch(i),
           NEW s \in Members(Batch(i)'), HasPayload(log'[s])
    PROVE  InContainer(i, s)'
  <1>1. PICK j \in Nat : Same(i, j)
    BY DEF SameBatch
  <1>2. j \in DOMAIN drain.batches /\ Batch(j).stage # "observing"
    BY <1>1 DEF Same
  <1>3. s \in Members(Batch(j))
    BY <1>1 DEF Same, Members
  <1>4. Types /\ Batch(j).first \in Nat /\ Batch(j).last \in Nat /\ Batch(j).first > disk.local /\ disk.local \in Nat
        /\ Batch(j).last <= Len(log) /\ DOMAIN log = 1..Len(log) /\ Len(log) \in Nat
    <2>1. Types /\ Draining
      BY DEF WbInv
    <2>2. BatchOf(j)
      BY <1>2, <2>1 DEF Draining
    <2>. QED
      BY <1>2, <2>1, <2>2, DrainTypes, DiskTypes, LogTypes DEF BatchOf, Draining
  <1>5. s \in DOMAIN log
    BY <1>3, <1>4 DEF Members
  <1>6. InContainer(j, s)
    BY <1>2, <1>3, <1>5 DEF Longer, WbInv, Payloads
  <1>7. PICK c \in disk.blobs : /\ Holds(c, s) /\ Within(c, j) /\ c.state # "unlinked"
                                /\ Batch(j).stage # "staging" => c.state = "whole"
    BY <1>6 DEF InContainer
  <1>8. PICK d \in disk'.blobs : d.first = c.first /\ d.last = c.last /\ d.state # "unlinked"
                                 /\ (c.state = "whole" => d.state = "whole")
    BY <1>1, <1>7 DEF Same, Stays
  <1>9. Holds(d, s) /\ Batch(i)'.first <= d.first /\ d.last <= Batch(i)'.last
    BY <1>1, <1>7, <1>8 DEF Holds, Within, Same
  <1>10. Batch(i)'.stage # "staging" => d.state = "whole"
    BY <1>1, <1>7, <1>8 DEF Same
  <1>. QED
    BY <1>8, <1>9, <1>10 DEF InContainer, Holds, Within

\* The containers are left alone, or some that hold nothing pending go.
LEMMA PayloadsKept ==
    ASSUME WbInv, Types', Longer, drain' = drain, disk'.local = disk.local, disk'.remote >= disk.remote,
           disk'.remote <= disk.local,
           \A c \in disk.blobs : c.last > disk'.remote /\ c.state # "unlinked" => Stays(c)
    PROVE  Payloads'
  <1>1. Types /\ disk.local \in Nat /\ disk'.remote \in Nat /\ disk.remote \in Nat
    BY DiskTypes DEF WbInv, Types, Disks
  <1>2. ReadableStays
    BY DEF ReadableStays
  <1>3. ASSUME NEW s \in (disk'.remote + 1)..disk'.local, HasPayload(log'[s]) PROVE Kept(s)'
    BY <1>1, <1>2, <1>3, KeptStays
  <1>4. ASSUME NEW i \in DOMAIN drain'.batches, Batch(i)'.stage # "observing",
               NEW s \in Members(Batch(i)'), HasPayload(log'[s])
        PROVE  InContainer(i, s)'
    <2>1. Batch(i)' = Batch(i) /\ i \in DOMAIN drain.batches /\ i \in Nat
      BY <1>1, DrainTypes DEF Batch
    <2>2. Batch(i).first > disk.local /\ Batch(i).first \in Nat /\ Batch(i).last \in Nat
      BY <1>1, <1>4, <2>1, DrainTypes DEF WbInv, Draining, BatchOf
    <2>3. ASSUME NEW c \in disk.blobs, Within(c, i), c.state # "unlinked" PROVE Stays(c)
      <3>1. c.first \in Nat /\ c.last \in Nat /\ c.first <= c.last
        BY <1>1, DiskTypes DEF WbInv, Endings, EndOf
      <3>2. c.last > disk'.remote
        BY <1>1, <2>2, <2>3, <3>1 DEF Within
      <3>. QED
        BY <2>3, <3>2
    <2>4. Same(i, i)
      BY <1>4, <2>1, <2>3 DEF Same
    <2>. QED
      BY <1>4, <2>1, <2>4, StagedStays DEF SameBatch
  <1>. QED
    BY <1>3, <1>4 DEF Payloads, Members, Batch

\* No container is new while the process is up.
LEMMA EndingsUp ==
    ASSUME WbInv, Types', Longer, proc = "up", proc' = "up",
           \A d \in disk'.blobs : \E c \in disk.blobs : d.first = c.first /\ d.last = c.last
    PROVE  Endings'
  <1>1. ASSUME NEW d \in disk'.blobs PROVE EndOf(d)'
    <2>1. PICK c \in disk.blobs : d.first = c.first /\ d.last = c.last
      OBVIOUS
    <2>2. c.first <= c.last /\ c.last \in DOMAIN log /\ HasPayload(log[c.last])
      BY DEF WbInv, Endings, EndOf
    <2>. QED
      BY <2>1, <2>2 DEF EndOf, Longer, HasPayload
  <1>. QED
    BY <1>1 DEF Endings

-----------------------------------------------------------------------------
(* Steps of the clients and of the remote scheduler *)

\* A step that leaves the batches and the local watermark alone.
LEMMA DrainUntouched ==
    ASSUME WbInv, Types', Watermarks', Scheduling', Longer, proc = "up", proc' = "up", drain' = drain,
           disk'.local = disk.local, disk'.remote >= disk.remote,
           \A c \in disk.blobs : c.last > disk'.remote /\ c.state # "unlinked" => Stays(c),
           \A d \in disk'.blobs : \E c \in disk.blobs : d.first = c.first /\ d.last = c.last
    PROVE  WbInv'
  <1>1. Draining'
    BY DrainingKept DEF WbInv
  <1>2. Payloads'
    BY PayloadsKept DEF Watermarks
  <1>3. Endings'
    BY EndingsUp
  <1>. QED
    BY <1>1, <1>2, <1>3 DEF WbInv

\* A step that leaves the journal alone.
LEMMA JournalUntouched ==
    ASSUME WbInv, Types', Watermarks', Scheduling', Longer, proc = "up", proc' = "up", drain' = drain, disk' = disk
    PROVE  WbInv'
  <1>1. disk.remote \in Nat
    BY DiskTypes DEF WbInv
  <1>2. \A c \in disk.blobs : c.state # "unlinked" => Stays(c)
    BY DEF Stays
  <1>. QED
    BY <1>1, <1>2, DrainUntouched

LEMMA AcceptKeeps ==
    ASSUME WbInv, NEW m \in Mutation, Accept(m)
    PROVE  WbInv'
  <1>1. /\ proc = "up" /\ used.ops < MaxOps /\ log' = Append(log, m) /\ Use("ops")
        /\ overlay' = [s \in DOMAIN overlay \cup {Len(log) + 1} |->
                          IF s \in DOMAIN overlay THEN overlay[s] ELSE "memory"]
        /\ UNCHANGED <<disk, drain, barrier, failed, sched, remote, proc>>
    BY DEF Accept
  <1>2. Types /\ log \in Seq(Mutation) /\ Len(log) \in Nat /\ DOMAIN log = 1..Len(log) /\ used \in Uses /\ used.ops \in Nat
    BY LogTypes DEF WbInv
  <1>3. /\ log' \in Seq(Mutation) /\ Len(log') = Len(log) + 1 /\ DOMAIN log' = 1..(Len(log) + 1)
        /\ \A s \in DOMAIN log : log'[s] = log[s]
    <2>1. log' \in Seq(Mutation) /\ Len(log') = Len(log) + 1
      BY <1>1, <1>2, AppendProperties
    <2>2. \A s \in 1..Len(log) : log'[s] = log[s]
      BY <1>1, <1>2, AppendProperties
    <2>3. DOMAIN log' = 1..Len(log')
      BY <2>1, LenProperties
    <2>. QED
      BY <1>2, <2>1, <2>2, <2>3
  <1>4. Longer
    BY <1>2, <1>3 DEF Longer
  <1>5. used' \in Uses /\ used'.ops = used.ops + 1
    <2>1. used' = [used EXCEPT !.ops = @ + 1]
      BY <1>1 DEF Use
    <2>. QED
      BY <1>2, <2>1 DEF Uses
  <1>6. DOMAIN overlay' \subseteq DOMAIN log' /\ \A s \in DOMAIN overlay' : overlay'[s] \in {"memory", "journal"}
    <2>1. DOMAIN overlay \subseteq DOMAIN log /\ \A s \in DOMAIN overlay : overlay[s] \in {"memory", "journal"}
      BY <1>2 DEF Types
    <2>2. DOMAIN overlay' = DOMAIN overlay \cup {Len(log) + 1}
      BY <1>1
    <2>3. \A s \in DOMAIN overlay' : overlay'[s] = IF s \in DOMAIN overlay THEN overlay[s] ELSE "memory"
      BY <1>1
    <2>. QED
      BY <1>2, <1>3, <2>1, <2>2, <2>3
  <1>7. Len(log') <= used'.ops /\ used'.ops <= MaxOps
    BY <1>1, <1>2, <1>3, <1>5, Constants DEF Types
  <1>8. Types'
    BY <1>1, <1>2, <1>3, <1>5, <1>6, <1>7 DEF Types
  <1>9. Watermarks'
    <2>1. disk.local \in Nat /\ disk.local <= Len(log)
      BY <1>2, DiskTypes DEF WbInv, Watermarks
    <2>. QED
      BY <1>1, <1>2, <1>3, <2>1 DEF WbInv, Watermarks
  <1>10. Scheduling'
    BY <1>1 DEF WbInv, Scheduling
  <1>. QED
    BY <1>1, <1>4, <1>8, <1>9, <1>10, JournalUntouched

\* A step that changes neither the log nor the journal.
LEMMA OnlyScheduler ==
    ASSUME WbInv, proc = "up", UNCHANGED <<log, disk, drain, barrier, proc>>,
           DOMAIN overlay' \subseteq DOMAIN overlay, \A s \in DOMAIN overlay' : overlay'[s] \in {"memory", "journal"},
           remote' \in [Key -> Value], used' \in Uses, used'.ops = used.ops, sched' \in Schedules, Scheduling'
    PROVE  WbInv'
  <1>1. Types'
    BY DEF WbInv, Types
  <1>2. Watermarks' /\ Longer
    BY DEF WbInv, Watermarks, Longer
  <1>. QED
    BY <1>1, <1>2, JournalUntouched

LEMMA ReconcileKeeps ==
    ASSUME WbInv, NEW s, Reconcile(s)
    PROVE  WbInv'
  <1>1. proc = "up" /\ UNCHANGED <<log, disk, drain, barrier, sched, remote, proc, used>>
    BY DEF Reconcile, Serving
  <1>2. \A t \in DOMAIN overlay : overlay[t] \in {"memory", "journal"}
    BY DEF WbInv, Types
  <1>3. overlay' = Spilled({s}) \/ overlay' = [t \in DOMAIN overlay \ {s} |-> overlay[t]]
    BY DEF Reconcile
  <1>4. DOMAIN overlay' \subseteq DOMAIN overlay /\ \A t \in DOMAIN overlay' : overlay'[t] \in {"memory", "journal"}
    BY <1>2, <1>3 DEF Spilled
  <1>5. remote' \in [Key -> Value] /\ used' \in Uses /\ used'.ops = used.ops /\ sched' \in Schedules
    BY <1>1 DEF WbInv, Types
  <1>6. Scheduling'
    BY <1>1 DEF WbInv, Scheduling
  <1>. QED
    BY <1>1, <1>4, <1>5, <1>6, OnlyScheduler

\* A client's step accepts a mutation or reconciles one.
LEMMA ClientsAccept ==
    ASSUME Types, ClientStep
    PROVE  (\E m \in Mutation : Accept(m)) \/ \E s \in Sequence : Reconcile(s)
  <1>1. ASSUME NEW k \in Key, Create(k) PROVE \E m \in Mutation : Accept(m)
    <2>1. Accept(Plain(k, "create", NoKey, NewContent)) /\ used.ops < MaxOps
      BY <1>1 DEF Create, Accept
    <2>. QED
      BY <2>1, MutationTypes
  <1>2. ASSUME NEW k \in Key, Delete(k) PROVE \E m \in Mutation : Accept(m)
    <2>1. Accept(Plain(k, "delete", NoKey, Absent)) /\ used.ops < MaxOps
      BY <1>2 DEF Delete, Accept
    <2>. QED
      BY <2>1, MutationTypes
  <1>3. ASSUME NEW k \in Key, Overwrite(k) PROVE \E m \in Mutation : Accept(m)
    <2>1. Accept(Plain(k, "overwrite", NoKey, NewContent)) /\ used.ops < MaxOps
      BY <1>3 DEF Overwrite, Accept
    <2>. QED
      BY <2>1, MutationTypes
  <1>4. ASSUME NEW k \in Key, Update(k) PROVE \E m \in Mutation : Accept(m)
    <2>1. used.ops < MaxOps
      BY <1>4 DEF Update, Accept
    <2>2. PICK m : /\ m = LET on == {s \in DOMAIN overlay : k \in Touched(log[s])}
                          IN  [Plain(k, "update", NoKey, NewContent) EXCEPT
                                  !.seq = IF on = {} THEN 0 ELSE Max(on),
                                  !.tag = IF on = {} THEN remote[k] ELSE Absent]
                   /\ Accept(m)
      BY <1>4 DEF Update
    <2>3. m \in Mutation
      BY <2>1, <2>2, MutationTypes
    <2>. QED
      BY <2>2, <2>3
  <1>5. ASSUME NEW from \in Key, NEW to \in Key, Rename(from, to) PROVE \E m \in Mutation : Accept(m)
    <2>1. /\ Accept(Plain(to, "rename", from, Visible(from))) /\ used.ops < MaxOps
          /\ Visible(from) \notin {Absent, Lost}
      BY <1>5 DEF Rename, Accept
    <2>. QED
      BY <2>1, MutationTypes
  <1>6. FenceKey \subseteq Key
    BY DEF Key
  <1>. QED
    BY <1>1, <1>2, <1>3, <1>4, <1>5, <1>6 DEF ClientStep

LEMMA ClientsKeep ==
    ASSUME WbInv, ClientStep
    PROVE  WbInv'
  <1>1. Types
    BY DEF WbInv
  <1>. QED
    BY <1>1, ClientsAccept, AcceptKeeps, ReconcileKeeps

\* The parts of the overlay and of the scheduler that a scheduler's step keeps.
LEMMA SchedulerFacts ==
    ASSUME WbInv
    PROVE  /\ Types /\ disk.local \in Nat /\ disk.remote \in Nat /\ disk.remote <= disk.local
           /\ \A s \in DOMAIN overlay : overlay[s] \in {"memory", "journal"}
           /\ remote \in [Key -> Value] /\ used \in Uses
           /\ sched.window \subseteq 1..disk.local /\ sched.active \subseteq 1..disk.local /\ sched.done \subseteq 1..disk.local
           /\ 1..disk.local \subseteq Nat /\ Window \subseteq 1..disk.local
           /\ 1..disk.local \subseteq DOMAIN log /\ \A s \in 1..disk.local : log[s] \in Mutation
  <1>1. Types /\ Watermarks /\ Scheduling
    BY DEF WbInv
  <1>2. disk.local \in Nat /\ disk.remote \in Nat /\ disk.rows \subseteq 1..disk.local /\ disk.remote <= disk.local
    BY <1>1, DiskTypes DEF Watermarks
  <1>3. Window \subseteq 1..disk.local
    BY <1>2 DEF Window
  <1>4. 1..disk.local \subseteq DOMAIN log /\ \A s \in DOMAIN log : log[s] \in Mutation
    BY <1>1, <1>2, LogTypes DEF Watermarks
  <1>. QED
    BY <1>1, <1>2, <1>3, <1>4 DEF Types, Scheduling

\* What stops the scheduler, and what moves its window.
LEMMA StopKeeps ==
    ASSUME WbInv, NEW why \in {"local", "corrupt", "diverged", "io"}, sched' = Stop(why),
           disk'.local = disk.local, disk'.remote = disk.remote \/ sched.commit = "idle"
    PROVE  sched' \in Schedules /\ Scheduling'
  <1>1. Types /\ sched \in Schedules
    BY SchedTypes, SMTT(30) DEF WbInv
  <1>2. sched' \in Schedules
    BY <1>1, SchedFields
  <1>3. /\ sched'.mode = "stopped" /\ sched'.window = sched.window /\ sched'.active = {} /\ sched'.done = sched.done
        /\ sched'.commit = sched.commit /\ sched'.last = sched.last
    BY <1>1 DEF Stop, Schedules
  <1>. QED
    BY <1>2, <1>3, SchedulerFacts DEF WbInv, Scheduling

LEMMA LoadKeeps ==
    ASSUME WbInv, Load
    PROVE  WbInv'
  <1>1. proc = "up" /\ sched.mode = "wait" /\ UNCHANGED <<log, overlay, disk, drain, barrier, proc, remote, used>>
    BY DEF Load, Serving, SchedRest
  <1>2. sched' \in Schedules /\ Scheduling'
    <2>1. CASE sched' = Stop("corrupt") \/ sched' = Stop("local")
      BY <1>1, <2>1, StopKeeps
    <2>2. CASE sched' = [sched EXCEPT !.mode = "run", !.window = Window]
      <3>1. sched \in Schedules /\ Window \in SUBSET Nat
        BY SchedulerFacts, SchedTypes, SMTT(30)
      <3>2. sched' \in Schedules
        BY <2>2, <3>1, SchedulerFacts, SchedFields
      <3>3. /\ sched'.window = Window /\ sched'.active = sched.active /\ sched'.done = sched.done
            /\ sched'.commit = sched.commit /\ sched'.last = sched.last /\ sched'.next = sched.next
        BY <2>2, <3>1 DEF Schedules
      <3>4. Scheduling
        BY DEF WbInv
      <3>. QED
        BY <1>1, <3>2, <3>3, <3>4, SchedulerFacts DEF Scheduling
    <2>. QED
      BY <2>1, <2>2 DEF Load
  <1>. QED
    BY <1>1, <1>2, SchedulerFacts, OnlyScheduler

LEMMA DispatchKeeps ==
    ASSUME WbInv, Dispatch
    PROVE  WbInv'
  <1>1. /\ proc = "up" /\ UNCHANGED <<log, overlay, disk, drain, barrier, proc, remote, used>>
        /\ Dispatchable # {} /\ sched' = [sched EXCEPT !.active = @ \cup {Min(Dispatchable)}]
    BY DEF Dispatch, Serving, SchedRest
  <1>2. Min(Dispatchable) \in 1..disk.local
    <2>1. Dispatchable \subseteq sched.window
      BY DEF Dispatchable
    <2>2. Dispatchable \subseteq Nat
      BY <2>1, SchedulerFacts
    <2>. QED
      BY <1>1, <2>1, <2>2, SchedulerFacts, MinimumElement
  <1>3. sched \in Schedules
    BY SchedulerFacts, SchedTypes
  <1>4. sched' \in Schedules
    <2>1. sched.active \cup {Min(Dispatchable)} \subseteq Nat
      BY <1>2, SchedulerFacts
    <2>. QED
      BY <1>1, <1>3, <2>1 DEF Schedules
  <1>5. /\ sched'.window = sched.window /\ sched'.active = sched.active \cup {Min(Dispatchable)}
        /\ sched'.done = sched.done /\ sched'.mode = sched.mode
        /\ sched'.commit = sched.commit /\ sched'.last = sched.last /\ sched'.next = sched.next
    BY <1>1, <1>3 DEF Schedules
  <1>6. Scheduling'
    BY <1>1, <1>2, <1>5, SchedulerFacts DEF WbInv, Scheduling
  <1>. QED
    BY <1>1, <1>4, <1>6, SchedulerFacts, OnlyScheduler

LEMMA RestKeeps ==
    ASSUME WbInv, Rest
    PROVE  WbInv'
  <1>1. /\ proc = "up" /\ UNCHANGED <<log, overlay, disk, drain, barrier, proc, remote, used>>
        /\ sched.mode = "run" /\ sched' = [sched EXCEPT !.mode = "wait", !.retry = FALSE]
    BY DEF Rest, Serving, SchedRest
  <1>2. sched \in Schedules
    BY SchedulerFacts, SchedTypes
  <1>3. sched' \in Schedules
    BY <1>1, <1>2 DEF Schedules
  <1>4. /\ sched'.window = sched.window /\ sched'.active = sched.active /\ sched'.done = sched.done
        /\ sched'.commit = sched.commit /\ sched'.last = sched.last /\ sched'.next = sched.next
    BY <1>1, <1>2 DEF Schedules
  <1>5. Scheduling'
    BY <1>1, <1>4, SchedulerFacts DEF WbInv, Scheduling
  <1>. QED
    BY <1>1, <1>3, <1>5, SchedulerFacts, OnlyScheduler

LEMMA FinishKeeps ==
    ASSUME WbInv, Finish
    PROVE  WbInv'
  <1>1. /\ proc = "up" /\ UNCHANGED <<log, overlay, disk, drain, barrier, proc, remote, used>>
        /\ sched.commit = "pruned"
        /\ sched' = [sched EXCEPT !.commit = "idle", !.next = sched.last + 1, !.done = {s \in @ : s > sched.last}]
    BY DEF Finish, Serving, SchedRest
  <1>2. sched \in Schedules /\ sched.last \in Nat /\ sched.done \subseteq Nat
    BY SchedulerFacts, SchedTypes
  <1>3. sched' \in Schedules
    <2>1. {s \in sched.done : s > sched.last} \subseteq Nat /\ sched.last + 1 \in Nat
      BY <1>2
    <2>. QED
      BY <1>1, <1>2, <2>1 DEF Schedules
  <1>4. /\ sched'.window = sched.window /\ sched'.active = sched.active /\ sched'.done \subseteq sched.done
        /\ sched'.commit = "idle" /\ sched'.next = sched.last + 1
    BY <1>1, <1>2 DEF Schedules
  <1>5. Scheduling'
    BY <1>1, <1>4, SchedulerFacts DEF WbInv, Scheduling
  <1>. QED
    BY <1>1, <1>3, <1>5, SchedulerFacts, OnlyScheduler

\* The remote store holds contents, whatever is applied to it.
LEMMA AppliedTypes ==
    ASSUME Types, NEW m \in Mutation
    PROVE  Applied(m) \in [Key -> Value]
  BY EffectTypes DEF Applied, Types

LEMMA UploadKeeps ==
    ASSUME WbInv, NEW s, Upload(s)
    PROVE  WbInv'
  <1>1. /\ proc = "up" /\ s \in sched.active /\ UNCHANGED <<log, overlay, disk, drain, barrier, proc, used>>
        /\ (remote' = Applied(log[s]) \/ remote' = remote)
    BY DEF Upload, Serving, SchedRest
  <1>2. sched \in Schedules /\ s \in 1..disk.local /\ log[s] \in Mutation
    BY <1>1, SchedulerFacts, SchedTypes
  <1>3. remote' \in [Key -> Value]
    BY <1>1, <1>2, AppliedTypes, SchedulerFacts
  <1>4. sched' \in Schedules /\ Scheduling'
    <2>1. CASE sched' = [sched EXCEPT !.active = @ \ {s}, !.retry = TRUE]
      <3>1. sched.active \ {s} \in SUBSET Nat
        BY SchedulerFacts
      <3>2. sched' \in Schedules
        BY <1>2, <2>1, <3>1 DEF Schedules
      <3>3. /\ sched'.window = sched.window /\ sched'.active \subseteq sched.active /\ sched'.done = sched.done
            /\ sched'.commit = sched.commit /\ sched'.last = sched.last /\ sched'.next = sched.next
            /\ sched'.mode = sched.mode
        BY <1>2, <2>1 DEF Schedules
      <3>. QED
        BY <1>1, <3>2, <3>3, SchedulerFacts DEF WbInv, Scheduling
    <2>2. CASE sched' = Stop("diverged") \/ sched' = Stop("corrupt")
      BY <1>1, <2>2, StopKeeps
    <2>3. CASE sched' = [sched EXCEPT !.active = @ \ {s}, !.done = @ \cup {s},
                                      !.window = IF sched.retry THEN @ ELSE Window]
      <3>1. PICK w \in SUBSET (1..disk.local) : w = IF sched.retry THEN sched.window ELSE Window
        BY SchedulerFacts
      <3>2. sched' = [sched EXCEPT !.active = @ \ {s}, !.done = @ \cup {s}, !.window = w]
        BY <2>3, <3>1
      <3>3. sched.active \ {s} \in SUBSET Nat /\ sched.done \cup {s} \in SUBSET Nat /\ w \in SUBSET Nat
        BY <1>2, SchedulerFacts
      <3>4. sched' \in Schedules
        BY <1>2, <3>2, <3>3 DEF Schedules
      <3>5. /\ sched'.window = w /\ sched'.active \subseteq sched.active /\ sched'.done = sched.done \cup {s}
            /\ sched'.commit = sched.commit /\ sched'.last = sched.last /\ sched'.next = sched.next
            /\ sched'.mode = sched.mode
        BY <1>2, <3>2 DEF Schedules
      <3>. QED
        BY <1>1, <1>2, <3>4, <3>5, SchedulerFacts DEF WbInv, Scheduling
    <2>. QED
      BY <2>1, <2>2, <2>3 DEF Upload
  <1>. QED
    BY <1>1, <1>3, <1>4, SchedulerFacts, OnlyScheduler

LEMMA UploadFailsKeeps ==
    ASSUME WbInv, NEW s, UploadFails(s)
    PROVE  WbInv'
  <1>1. /\ proc = "up" /\ s \in sched.active /\ UNCHANGED <<log, overlay, disk, drain, barrier, proc>> /\ Use("errors")
        /\ sched' = [sched EXCEPT !.active = @ \ {s}, !.retry = TRUE]
        /\ remote' = Applied(log[s]) \/ remote' = remote \/ remote' = [remote EXCEPT ![log[s].key] = log[s].val]
    BY DEF UploadFails, Serving, SchedRest
  <1>2. sched \in Schedules /\ s \in 1..disk.local /\ log[s] \in Mutation /\ log[s].val \in Value
    BY <1>1, SchedulerFacts, SchedTypes, LogTypes
  <1>3. remote' \in [Key -> Value]
    BY <1>1, <1>2, AppliedTypes, SchedulerFacts
  <1>4. used' \in Uses /\ used'.ops = used.ops
    BY <1>1, SchedulerFacts, UseTypes
  <1>5. sched' \in Schedules
    <2>1. sched.active \ {s} \in SUBSET Nat
      BY SchedulerFacts
    <2>. QED
      BY <1>1, <1>2, <2>1 DEF Schedules
  <1>6. /\ sched'.window = sched.window /\ sched'.active \subseteq sched.active /\ sched'.done = sched.done
        /\ sched'.commit = sched.commit /\ sched'.last = sched.last /\ sched'.next = sched.next
        /\ sched'.mode = sched.mode
    BY <1>1, <1>2 DEF Schedules
  <1>7. Scheduling'
    BY <1>1, <1>6, SchedulerFacts DEF WbInv, Scheduling
  <1>. QED
    BY <1>1, <1>3, <1>4, <1>5, <1>7, SchedulerFacts, OnlyScheduler

\* The versions kept of the remote objects.
LEMMA VersionTypes ==
    ASSUME Types, NEW S, S \subseteq DOMAIN log
    PROVE  Versions(S) \in [Key -> [seq : Nat, tag : Value]]
  <1>1. ASSUME NEW k \in Key, NEW on, on = {s \in S : k \in Touched(log[s]) /\ ~ImmutableCreate(log[s])}
        PROVE  (IF on = {} THEN disk.versions[k] ELSE IF Effect(log[Max(on)], k) = Absent THEN NoVersion
                ELSE [seq |-> Max(on), tag |-> log[Max(on)].val]) \in [seq : Nat, tag : Value]
    <2>1. disk.versions[k] \in [seq : Nat, tag : Value]
      BY DiskTypes
    <2>2. NoVersion \in [seq : Nat, tag : Value]
      BY DEF NoVersion, Value
    <2>3. ASSUME on # {} PROVE Max(on) \in Nat /\ log[Max(on)].val \in Value
      <3>1. Max(on) \in DOMAIN log
        BY <1>1, <2>3, LastOf
      <3>. QED
        BY <3>1, LogTypes
    <2>. QED
      BY <2>1, <2>2, <2>3
  <1>. QED
    BY <1>1 DEF Versions

\* The journal with the remote watermark at `last`.
LEMMA MarkedDisk ==
    ASSUME WbInv, NEW last, proc = "up", sched.mode = "run", sched.commit = "idle",
           sched.next <= last, sched.next..last \subseteq sched.done, last \in Sequence
    PROVE  /\ Marked(last) \in Disks /\ Marked(last).rows = disk.rows /\ Marked(last).blobs = disk.blobs
           /\ Marked(last).local = disk.local /\ Marked(last).remote = last /\ last \in Nat
           /\ disk.remote <= last /\ last <= disk.local
  <1>1. sched.next = disk.remote + 1 /\ last \in Nat /\ disk.remote \in Nat /\ disk.local \in Nat
    BY SchedulerFacts, Constants DEF WbInv, Scheduling
  <1>2. last \in sched.done
    BY <1>1
  <1>3. last <= disk.local
    BY <1>1, <1>2, SchedulerFacts
  <1>4. Versions(sched.next..last) \in [Key -> [seq : Nat, tag : Value]]
    <2>1. sched.next..last \subseteq DOMAIN log
      BY SchedulerFacts
    <2>. QED
      BY <2>1, SchedulerFacts, VersionTypes
  <1>5. disk \in Disks
    BY SchedulerFacts, DiskTypes
  <1>6. PICK v \in [Key -> [seq : Nat, tag : Value]] : v = Versions(sched.next..last)
    BY <1>4
  <1>7. Marked(last) = [disk EXCEPT !.remote = last, !.versions = v]
    BY <1>6 DEF Marked
  <1>8. Marked(last) \in Disks
    BY <1>1, <1>5, <1>6, <1>7 DEF Disks
  <1>9. /\ Marked(last).rows = disk.rows /\ Marked(last).blobs = disk.blobs
        /\ Marked(last).local = disk.local /\ Marked(last).remote = last
    BY <1>5, <1>7 DEF Disks
  <1>10. disk.remote <= last
    BY <1>1
  <1>. QED
    BY <1>1, <1>3, <1>8, <1>9, <1>10

\* The remote watermark moves, and the containers stay as they are.
LEMMA WatermarkMoves ==
    ASSUME WbInv, NEW last, proc = "up", sched.mode = "run", sched.commit = "idle",
           sched.next <= last, sched.next..last \subseteq sched.done, last \in Sequence,
           UNCHANGED <<log, overlay, drain, barrier, proc, remote>>, used' \in Uses, used'.ops = used.ops,
           disk' = Marked(last), sched' \in Schedules, Scheduling'
    PROVE  WbInv'
  <1>1. /\ disk' \in Disks /\ disk'.rows = disk.rows /\ disk'.blobs = disk.blobs
        /\ disk'.local = disk.local /\ disk'.remote = last /\ last \in Nat /\ disk.remote <= last /\ last <= disk.local
    BY MarkedDisk
  <1>2. Types' /\ Longer
    BY <1>1 DEF WbInv, Types, Longer
  <1>3. Watermarks'
    <2>1. disk.remote \in Nat /\ disk.local \in Nat /\ Watermarks
      BY SchedulerFacts DEF WbInv
    <2>2. disk'.remote <= disk'.local /\ (disk'.remote + 1)..disk'.local \subseteq disk.rows
      BY <1>1, <2>1 DEF Watermarks
    <2>. QED
      BY <1>1, <2>1, <2>2 DEF Watermarks
  <1>4. \A c \in disk.blobs : c.state # "unlinked" => Stays(c)
    BY <1>1 DEF Stays
  <1>. QED
    BY <1>1, <1>2, <1>3, <1>4, DrainUntouched

LEMMA MarkRemoteKeeps ==
    ASSUME WbInv, NEW last \in Sequence, MarkRemote(last)
    PROVE  WbInv'
  <1>1. /\ proc = "up" /\ sched.mode = "run" /\ sched.commit = "idle"
        /\ sched.next <= last /\ sched.next..last \subseteq sched.done
        /\ disk' = Marked(last) /\ sched' = [sched EXCEPT !.commit = "marked", !.last = last]
        /\ UNCHANGED <<log, overlay, drain, barrier, proc, remote, used>>
    BY DEF MarkRemote, Serving, SchedRest
  <1>2. sched \in Schedules /\ last \in Nat /\ disk'.local = disk.local /\ disk'.remote = last
    BY <1>1, SchedulerFacts, SchedTypes, MarkedDisk
  <1>3. sched' \in Schedules
    BY <1>1, <1>2 DEF Schedules
  <1>4. /\ sched'.window = sched.window /\ sched'.active = sched.active /\ sched'.done = sched.done
        /\ sched'.commit = "marked" /\ sched'.last = last
    BY <1>1, <1>2 DEF Schedules
  <1>5. Scheduling'
    BY <1>2, <1>4, SchedulerFacts DEF Scheduling
  <1>. QED
    BY <1>1, <1>3, <1>5, SchedulerFacts, WatermarkMoves

LEMMA MarkFailsKeeps ==
    ASSUME WbInv, NEW last \in Sequence, NEW durable \in BOOLEAN, MarkFails(last, durable)
    PROVE  WbInv'
  <1>1. /\ proc = "up" /\ sched.mode = "run" /\ sched.commit = "idle"
        /\ sched.next <= last /\ sched.next..last \subseteq sched.done
        /\ disk' = Marked(last) \/ disk' = disk
        /\ sched' = Stop("io") /\ Use("fails")
        /\ UNCHANGED <<log, overlay, drain, barrier, proc, remote>>
    BY DEF MarkFails, Serving, SchedRest
  <1>2. used' \in Uses /\ used'.ops = used.ops
    BY <1>1, SchedulerFacts, UseTypes
  <1>3. disk'.local = disk.local
    BY <1>1, MarkedDisk
  <1>4. sched' \in Schedules /\ Scheduling'
    BY <1>1, <1>3, StopKeeps
  <1>5. CASE disk' = Marked(last)
    BY <1>1, <1>2, <1>4, <1>5, WatermarkMoves
  <1>6. CASE disk' = disk
    BY <1>1, <1>2, <1>4, <1>6, SchedulerFacts, OnlyScheduler
  <1>. QED
    BY <1>1, <1>5, <1>6

\* The stage of a remote commit moves on.
LEMMA CommitMoves ==
    ASSUME WbInv, sched.commit # "idle", NEW next \in {"retired", "swept", "pruned"},
           sched' = [sched EXCEPT !.commit = next], disk'.local = disk.local, disk'.remote = disk.remote
    PROVE  sched' \in Schedules /\ Scheduling' /\ sched.last = disk.remote
  <1>1. sched \in Schedules
    BY SchedulerFacts, SchedTypes
  <1>2. sched' \in Schedules
    BY <1>1 DEF Schedules
  <1>3. /\ sched'.window = sched.window /\ sched'.active = sched.active /\ sched'.done = sched.done
        /\ sched'.commit = next /\ sched'.last = sched.last
    BY <1>1 DEF Schedules
  <1>. QED
    BY <1>2, <1>3, SchedulerFacts DEF WbInv, Scheduling

LEMMA RetireKeeps ==
    ASSUME WbInv, Retire
    PROVE  WbInv'
  <1>1. /\ proc = "up" /\ sched.commit = "marked" /\ sched' = [sched EXCEPT !.commit = "retired"]
        /\ overlay' = [s \in {t \in DOMAIN overlay : t > sched.last} |-> overlay[s]]
        /\ UNCHANGED <<log, disk, drain, barrier, proc, remote, used>>
    BY DEF Retire, Serving, SchedRest
  <1>2. sched' \in Schedules /\ Scheduling'
    BY <1>1, CommitMoves
  <1>3. DOMAIN overlay' \subseteq DOMAIN overlay /\ \A s \in DOMAIN overlay' : overlay'[s] \in {"memory", "journal"}
    BY <1>1, SchedulerFacts
  <1>. QED
    BY <1>1, <1>2, <1>3, SchedulerFacts, OnlyScheduler

\* Sweeping unlinks containers that end at or below the watermark.
LEMMA SweptContainers ==
    ASSUME Types, NEW through \in Nat
    PROVE  /\ Swept(through) \subseteq Containers
           /\ \A d \in Swept(through) : \E c \in disk.blobs : d.first = c.first /\ d.last = c.last
           /\ \A c \in disk.blobs : c.last > through => c \in Swept(through)
  <1>1. disk.blobs \subseteq Containers /\ \A c \in disk.blobs : c.first \in Nat /\ c.last \in Nat
    BY DiskTypes
  <1>2. \A c \in Containers : /\ [c EXCEPT !.state = "unlinked"] \in Containers
                              /\ [c EXCEPT !.state = "unlinked"].first = c.first
                              /\ [c EXCEPT !.state = "unlinked"].last = c.last
    BY DEF Containers
  <1>3. ASSUME NEW d \in Swept(through)
        PROVE  d \in Containers /\ \E c \in disk.blobs : d.first = c.first /\ d.last = c.last
    <2>1. PICK c \in disk.blobs : d = c \/ d = [c EXCEPT !.state = "unlinked"]
      BY DEF Swept
    <2>. QED
      BY <1>1, <1>2, <2>1
  <1>4. ASSUME NEW c \in disk.blobs, c.last > through PROVE c \in Swept(through)
    <2>1. ~(c.last <= through)
      BY <1>1, <1>4
    <2>. QED
      BY <2>1 DEF Swept
  <1>. QED
    BY <1>3, <1>4

LEMMA SweepKeeps ==
    ASSUME WbInv, Sweep
    PROVE  WbInv'
  <1>1. /\ proc = "up" /\ sched.commit = "retired" /\ sched' = [sched EXCEPT !.commit = "swept"]
        /\ disk' = [disk EXCEPT !.blobs = Swept(sched.last)]
        /\ UNCHANGED <<log, overlay, drain, barrier, proc, remote, used>>
    BY DEF Sweep, Serving, SchedRest
  <1>2. sched.last \in Nat /\ Types
    BY SchedulerFacts, SchedTypes
  <1>3. /\ disk' \in Disks /\ disk'.blobs = Swept(sched.last)
        /\ disk'.rows = disk.rows /\ disk'.local = disk.local /\ disk'.remote = disk.remote
    BY <1>1, <1>2, SweptContainers, OnlyContainers
  <1>4. sched' \in Schedules /\ Scheduling' /\ sched.last = disk.remote
    BY <1>1, <1>3, CommitMoves
  <1>5. Types' /\ Watermarks' /\ Longer
    BY <1>1, <1>3, <1>4 DEF WbInv, Types, Watermarks, Longer
  <1>6. ASSUME NEW c \in disk.blobs, c.last > disk'.remote, c.state # "unlinked" PROVE Stays(c)
    BY <1>2, <1>3, <1>4, <1>6, SweptContainers DEF Stays
  <1>7. \A d \in disk'.blobs : \E c \in disk.blobs : d.first = c.first /\ d.last = c.last
    BY <1>2, <1>3, SweptContainers
  <1>8. disk'.remote >= disk.remote
    BY <1>3, SchedulerFacts
  <1>. QED
    BY <1>1, <1>3, <1>4, <1>5, <1>6, <1>7, <1>8, DrainUntouched

\* Pruning forgets the rows at or below the watermark and the unlinked containers.
LEMMA PrunedDisk ==
    ASSUME WbInv
    PROVE  /\ Pruned(disk.remote) \in Disks
           /\ Pruned(disk.remote).local = disk.local /\ Pruned(disk.remote).remote = disk.remote
           /\ Pruned(disk.remote).rows = {s \in disk.rows : s > disk.remote}
           /\ Pruned(disk.remote).blobs = {c \in disk.blobs : c.state # "unlinked"}
           /\ {s \in disk.rows : s > disk.remote} = (disk.remote + 1)..disk.local
  <1>1. /\ disk \in Disks /\ disk.rows \subseteq Nat /\ disk.blobs \subseteq Containers
        /\ disk.local \in Nat /\ disk.remote \in Nat
    BY SchedulerFacts, DiskTypes
  <1>2. {s \in disk.rows : s > disk.remote} \subseteq Nat /\ {c \in disk.blobs : c.state # "unlinked"} \subseteq Containers
    BY <1>1
  <1>3. {s \in disk.rows : s > disk.remote} = (disk.remote + 1)..disk.local
    BY <1>1 DEF WbInv, Watermarks
  <1>. QED
    BY <1>1, <1>2, <1>3 DEF Pruned, Disks

LEMMA PruneKeeps ==
    ASSUME WbInv, Prune
    PROVE  WbInv'
  <1>1. /\ proc = "up" /\ sched.commit = "swept" /\ sched' = [sched EXCEPT !.commit = "pruned"]
        /\ disk' = Pruned(sched.last)
        /\ UNCHANGED <<log, overlay, drain, barrier, proc, remote, used>>
    BY DEF Prune, Serving, SchedRest
  <1>2. sched.last = disk.remote
    BY <1>1 DEF WbInv, Scheduling
  <1>3. /\ disk' \in Disks /\ disk'.local = disk.local /\ disk'.remote = disk.remote
        /\ disk'.rows = (disk.remote + 1)..disk.local
        /\ disk'.blobs = {c \in disk.blobs : c.state # "unlinked"}
    BY <1>1, <1>2, PrunedDisk
  <1>4. sched' \in Schedules /\ Scheduling'
    BY <1>1, <1>3, CommitMoves
  <1>5. Types' /\ Longer
    BY <1>1, <1>3, <1>4 DEF WbInv, Types, Longer
  <1>6. Watermarks'
    BY <1>1, <1>3, SchedulerFacts DEF WbInv, Watermarks
  <1>7. \A c \in disk.blobs : c.state # "unlinked" => Stays(c)
    BY <1>3 DEF Stays
  <1>8. disk'.remote >= disk.remote
    BY <1>3, SchedulerFacts
  <1>. QED
    BY <1>1, <1>3, <1>4, <1>5, <1>6, <1>7, <1>8, DrainUntouched

LEMMA RemoteKeeps ==
    ASSUME WbInv, RemoteStep
    PROVE  WbInv'
  BY LoadKeeps, DispatchKeeps, RetireKeeps, SweepKeeps, PruneKeeps, FinishKeeps, RestKeeps, UploadKeeps,
     MarkRemoteKeeps DEF RemoteStep

-----------------------------------------------------------------------------
(* Steps of the journaler *)

LEMMA BatchFacts ==
    ASSUME WbInv, NEW i \in DOMAIN drain.batches
    PROVE  /\ i \in Nat \ {0} /\ Batch(i) \in Batches /\ Batch(i).first \in Nat /\ Batch(i).last \in Nat
           /\ BatchOf(i) /\ Batch(i).first <= Batch(i).last /\ Batch(i).last <= Len(log)
           /\ Batch(i).stage # "observing" => Batch(i).first > disk.local
           /\ 1 \in DOMAIN drain.batches
           /\ \A j \in DOMAIN drain.batches : i < j => Batch(i).last < Batch(j).first
  <1>1. Types /\ Draining
    BY DEF WbInv
  <1>2. /\ i \in Nat \ {0} /\ Batch(i) \in Batches /\ Batch(i).first \in Nat /\ Batch(i).last \in Nat
        /\ DOMAIN drain.batches = 1..Len(drain.batches) /\ Len(drain.batches) \in Nat
        /\ drain.admitted \in Nat /\ Len(log) \in Nat
    BY <1>1, DrainTypes, LogTypes
  <1>3. BatchOf(i) /\ drain.admitted <= Len(log)
    BY <1>1 DEF Draining
  <1>4. Batch(i).first <= Batch(i).last /\ Batch(i).last <= drain.admitted
    BY <1>3 DEF BatchOf
  <1>5. Batch(i).stage # "observing" => Batch(i).first > disk.local
    BY <1>3 DEF BatchOf
  <1>. QED
    BY <1>1, <1>2, <1>3, <1>4, <1>5 DEF Draining

\* A batch i, whose container holds what it has to.
Staged(i) == \A s \in Members(Batch(i)) : HasPayload(log[s]) => InContainer(i, s)

\* What is left to show of a step of the journaler.
LEMMA JournalerKeeps ==
    ASSUME WbInv, Types', Watermarks', Draining', Endings', proc = "up", proc' = "up", UNCHANGED <<log, sched>>,
           disk'.remote = disk.remote, disk'.local >= disk.local, ReadableStays,
           \A s \in (disk.local + 1)..disk'.local : HasPayload(log[s]) => Kept(s)',
           \A i \in DOMAIN drain'.batches : Batch(i)'.stage # "observing" => SameBatch(i) \/ Staged(i)'
    PROVE  WbInv'
  <1>1. disk.local \in Nat /\ disk.remote \in Nat /\ disk'.local \in Nat
    BY SchedulerFacts DEF Types, Disks
  <1>2. Longer
    BY DEF Longer
  <1>3. Scheduling'
    <2>1. 1..disk.local \subseteq 1..disk'.local
      BY <1>1
    <2>. QED
      BY <2>1 DEF WbInv, Scheduling
  <1>4. ASSUME NEW s \in (disk'.remote + 1)..disk'.local, HasPayload(log'[s]) PROVE Kept(s)'
    <2>1. CASE s <= disk.local
      <3>1. disk'.remote >= disk.remote /\ s \in (disk'.remote + 1)..disk.local
        BY <1>1, <2>1
      <3>. QED
        BY <1>2, <1>4, <3>1, KeptStays
    <2>2. CASE s > disk.local
      <3>1. s \in (disk.local + 1)..disk'.local
        BY <1>1, <2>2
      <3>. QED
        BY <1>4, <3>1
    <2>. QED
      BY <1>1, <2>1, <2>2
  <1>5. ASSUME NEW i \in DOMAIN drain'.batches, Batch(i)'.stage # "observing",
               NEW s \in Members(Batch(i)'), HasPayload(log'[s])
        PROVE  InContainer(i, s)'
    <2>1. CASE SameBatch(i)
      <3>1. i \in Nat
        <4>1. drain'.batches \in Seq(Batches)
          BY DEF Types, Drainings
        <4>2. DOMAIN drain'.batches = 1..Len(drain'.batches) /\ Len(drain'.batches) \in Nat
          BY <4>1, LenProperties
        <4>. QED
          BY <4>2
      <3>. QED
        BY <1>2, <1>5, <2>1, <3>1, StagedStays
    <2>2. CASE Staged(i)'
      BY <1>5, <2>2 DEF Staged, Members, Batch
    <2>. QED
      BY <1>5, <2>1, <2>2
  <1>6. Payloads'
    BY <1>4, <1>5 DEF Payloads, Members, Batch
  <1>. QED
    BY <1>3, <1>6 DEF WbInv

\* One batch moves to its next stage.
Restaged(i, stage) ==
    /\ i \in DOMAIN drain.batches /\ DOMAIN drain'.batches = DOMAIN drain.batches
    /\ Len(drain'.batches) = Len(drain.batches)
    /\ drain'.state = drain.state /\ drain'.admitted = drain.admitted
    /\ \A j \in DOMAIN drain.batches :
          /\ Batch(j)'.first = Batch(j).first /\ Batch(j)'.last = Batch(j).last
          /\ Batch(j)'.stage = IF j = i THEN stage ELSE Batch(j).stage

LEMMA RestagedTypes ==
    ASSUME Types, NEW i \in DOMAIN drain.batches,
           NEW stage \in {"staging", "ready", "committing", "observing"},
           drain' = [drain EXCEPT !.batches[i].stage = stage]
    PROVE  drain' \in Drainings /\ Restaged(i, stage)
  <1>1. /\ drain \in Drainings /\ drain.batches \in Seq(Batches) /\ drain.batches[i] \in Batches
        /\ Len(drain.batches) \in Nat /\ DOMAIN drain.batches = 1..Len(drain.batches)
    BY DrainTypes DEF Batch
  <1>. DEFINE b == [drain.batches[i] EXCEPT !.stage = stage]
  <1>2. b \in Batches /\ b.first = drain.batches[i].first /\ b.last = drain.batches[i].last /\ b.stage = stage
    BY <1>1 DEF Batches
  <1>3. drain' = [drain EXCEPT !.batches = [drain.batches EXCEPT ![i] = b]]
    BY <1>1 DEF Drainings
  <1>. HIDE DEF b
  <1>4. PICK q : q = [drain.batches EXCEPT ![i] = b]
    OBVIOUS
  <1>5. q \in Seq(Batches) /\ Len(q) = Len(drain.batches)
    BY <1>1, <1>2, <1>4, ExceptSeq
  <1>6. DOMAIN q = DOMAIN drain.batches /\ \A j \in DOMAIN drain.batches : q[j] = IF j = i THEN b ELSE drain.batches[j]
    BY <1>1, <1>4
  <1>7. drain' = [drain EXCEPT !.batches = q]
    BY <1>3, <1>4
  <1>8. drain' \in Drainings
    BY <1>1, <1>5, <1>7 DEF Drainings
  <1>9. drain'.batches = q /\ drain'.state = drain.state /\ drain'.admitted = drain.admitted
    BY <1>1, <1>7 DEF Drainings
  <1>. QED
    BY <1>2, <1>5, <1>6, <1>8, <1>9 DEF Restaged, Batch

LEMMA RestagedDraining ==
    ASSUME WbInv, Types', proc = "up", proc' = "up", log' = log, NEW i, NEW stage, Restaged(i, stage),
           \/ stage = "ready" /\ Batch(i).stage = "staging" /\ disk'.local = disk.local
           \/ stage = "committing" /\ i = 1 /\ Batch(1).stage = "ready" /\ Batch(1).first = disk.local + 1
              /\ disk'.local = disk.local
           \/ stage = "observing" /\ i = 1 /\ Batch(1).stage = "committing" /\ disk'.local = Batch(1).last
    PROVE  Draining'
  <1>1. /\ Types /\ Draining /\ disk.local \in Nat /\ disk'.local \in Nat
        /\ Len(drain.batches) \in Nat /\ DOMAIN drain.batches = 1..Len(drain.batches)
    BY SchedulerFacts, DrainTypes DEF WbInv, Types, Disks
  <1>2. i \in DOMAIN drain.batches /\ i \in Nat \ {0} /\ Len(drain.batches) \in Nat \ {0}
    BY <1>1, BatchFacts DEF Restaged
  <1>3. ASSUME NEW j \in DOMAIN drain.batches, j # 1 PROVE Before(j)' = Before(j)
    <2>1. j - 1 \in DOMAIN drain.batches
      BY <1>1, <1>3
    <2>2. drain'.batches[j - 1].last = drain.batches[j - 1].last
      BY <2>1 DEF Restaged, Batch
    <2>. QED
      BY <1>3, <2>2 DEF Before
  <1>4. Before(Len(drain.batches) + 1)' = Before(Len(drain.batches) + 1)
    <2>1. Len(drain.batches) \in DOMAIN drain.batches /\ Len(drain.batches) + 1 # 1
          /\ (Len(drain.batches) + 1) - 1 = Len(drain.batches)
      BY <1>1, <1>2
    <2>2. drain'.batches[Len(drain.batches)].last = drain.batches[Len(drain.batches)].last
      BY <2>1 DEF Restaged, Batch
    <2>3. Len(drain.batches)' = Len(drain.batches)
      BY DEF Restaged
    <2>. QED
      BY <2>1, <2>2, <2>3 DEF Before
  <1>5. ASSUME NEW j \in DOMAIN drain.batches PROVE BatchOf(j)'
    <2>1. /\ Batch(j)'.first = Batch(j).first /\ Batch(j)'.last = Batch(j).last
          /\ Batch(j)'.stage = IF j = i THEN stage ELSE Batch(j).stage
          /\ drain'.state = drain.state /\ drain'.admitted = drain.admitted
      BY DEF Restaged
    <2>2. /\ BatchOf(j) /\ Batch(j).first \in Nat /\ Batch(j).last \in Nat /\ j \in Nat \ {0}
          /\ 1 \in DOMAIN drain.batches
      BY BatchFacts
    <2>3. j # 1 => Batch(1).last < Batch(j).first /\ Batch(1).last \in Nat
      BY <2>2, BatchFacts
    <2>4. CASE j = i
      <3>1. /\ stage # "observing" => disk'.local = disk.local /\ Batch(j).stage # "observing"
            /\ stage \in {"committing", "observing"} => j = 1
            /\ stage = "committing" => Batch(j).first = disk'.local + 1
            /\ stage = "observing" => Batch(j).last = disk'.local
        BY <2>4
      <3>2. Before(j)' = Before(j) \/ stage = "observing"
        <4>1. CASE j # 1
          BY <1>3, <4>1
        <4>2. CASE j = 1
          BY <3>1, <4>2 DEF Before
        <4>. QED
          BY <4>1, <4>2
      <3>. QED
        BY <2>1, <2>2, <2>4, <3>1, <3>2 DEF BatchOf
    <2>5. CASE j # i
      <3>1. CASE disk'.local = disk.local
        <4>1. Before(j)' = Before(j)
          BY <1>3, <3>1 DEF Before
        <4>. QED
          BY <2>1, <2>2, <2>5, <3>1, <4>1 DEF BatchOf
      <3>2. CASE i = 1 /\ disk'.local = Batch(1).last
        <4>1. Before(j)' = Before(j) /\ j # 1
          BY <1>3, <2>5, <3>2
        <4>2. Batch(j).stage \notin {"committing", "observing"}
          BY <2>2, <4>1 DEF BatchOf
        <4>3. Batch(j).first > disk'.local
          BY <2>2, <2>3, <3>2, <4>1
        <4>. QED
          BY <2>1, <2>2, <2>5, <4>1, <4>2, <4>3 DEF BatchOf
      <3>. QED
        BY <3>1, <3>2
    <2>. QED
      BY <2>4, <2>5
  <1>6. DOMAIN drain'.batches = DOMAIN drain.batches
    BY DEF Restaged
  <1>7. \A j, k \in DOMAIN drain'.batches : j < k => Batch(j)'.last < Batch(k)'.first
    BY <1>1, <1>6 DEF Restaged, Draining
  <1>8. drain'.admitted <= Len(log')
    BY <1>1 DEF Restaged, Draining
  <1>9. drain'.state = "up" => drain'.admitted = Before(Len(drain.batches) + 1)'
    BY <1>1, <1>4 DEF Restaged, Draining
  <1>. QED
    BY <1>5, <1>6, <1>7, <1>8, <1>9 DEF Draining

\* A batch in an earlier place or the same one, with the containers untouched.
LEMMA SameWhenKept ==
    ASSUME NEW i, NEW j \in DOMAIN drain.batches, j \in Nat, Batch(j).stage # "observing",
           Batch(i)'.first = Batch(j).first, Batch(i)'.last = Batch(j).last,
           Batch(i)'.stage # "staging" => Batch(j).stage # "staging",
           \A c \in disk.blobs : Within(c, j) /\ c.state # "unlinked" => Stays(c)
    PROVE  SameBatch(i)
  BY DEF SameBatch, Same

LEMMA AllStay ==
    ASSUME disk'.blobs = disk.blobs
    PROVE  \A c \in disk.blobs : c.state # "unlinked" => Stays(c)
  BY DEF Stays

LEMMA CommitStartKeeps ==
    ASSUME WbInv, CommitStart
    PROVE  WbInv'
  <1>1. /\ proc = "up" /\ drain.state = "up" /\ 1 \in DOMAIN drain.batches /\ Batch(1).stage = "ready"
        /\ drain' = [drain EXCEPT !.batches[1].stage = "committing"]
        /\ UNCHANGED <<log, overlay, disk, barrier, sched, remote, proc, used>>
    BY DEF CommitStart, Serving, InStage, Batch
  <1>2. Types /\ disk.local \in Nat
    BY SchedulerFacts
  <1>3. drain' \in Drainings /\ Restaged(1, "committing")
    BY <1>1, <1>2, RestagedTypes
  <1>4. Types' /\ Watermarks'
    BY <1>1, <1>2, <1>3 DEF WbInv, Types, Watermarks
  <1>5. Batch(1).first = disk.local + 1
    BY <1>1, BatchFacts DEF BatchOf, Before
  <1>6. Draining'
    BY <1>1, <1>3, <1>4, <1>5, RestagedDraining
  <1>7. Endings' /\ ReadableStays /\ \A c \in disk.blobs : c.state # "unlinked" => Stays(c)
    BY <1>1, AllStay DEF WbInv, Endings, EndOf, ReadableStays
  <1>8. ASSUME NEW i \in DOMAIN drain'.batches, Batch(i)'.stage # "observing" PROVE SameBatch(i)
    <2>1. /\ i \in DOMAIN drain.batches /\ Batch(i)'.first = Batch(i).first /\ Batch(i)'.last = Batch(i).last
          /\ Batch(i)'.stage = IF i = 1 THEN "committing" ELSE Batch(i).stage
      BY <1>3, <1>8 DEF Restaged
    <2>2. i \in Nat /\ Batch(i).stage # "observing" /\ (Batch(i)'.stage # "staging" => Batch(i).stage # "staging")
      BY <1>1, <1>8, <2>1, BatchFacts
    <2>. QED
      BY <1>7, <2>1, <2>2, SameWhenKept
  <1>9. \A s \in (disk.local + 1)..disk'.local : FALSE
    BY <1>1, <1>2
  <1>10. disk'.local >= disk.local
    BY <1>1, <1>2
  <1>. QED
    BY <1>1, <1>4, <1>6, <1>7, <1>8, <1>9, <1>10, JournalerKeeps

\* The journal with the records of a batch.
LEMMA CommittedDisk ==
    ASSUME WbInv, 1 \in DOMAIN drain.batches, Batch(1).stage = "committing"
    PROVE  /\ Committed(Batch(1)) \in Disks /\ Committed(Batch(1)).blobs = disk.blobs
           /\ Committed(Batch(1)).remote = disk.remote /\ Committed(Batch(1)).local = Batch(1).last
           /\ Committed(Batch(1)).rows = disk.rows \cup Members(Batch(1))
           /\ Batch(1).first = disk.local + 1 /\ Batch(1).last >= disk.local
  <1>1. disk \in Disks /\ disk.rows \subseteq Nat /\ disk.local \in Nat
    BY SchedulerFacts, DiskTypes
  <1>2. Batch(1).first \in Nat /\ Batch(1).last \in Nat /\ Batch(1).first <= Batch(1).last /\ Batch(1).first = disk.local + 1
    BY BatchFacts DEF BatchOf
  <1>3. disk.rows \cup Members(Batch(1)) \subseteq Nat
    BY <1>1, <1>2 DEF Members
  <1>4. PICK r \in SUBSET Nat, n \in Nat : r = disk.rows \cup Members(Batch(1)) /\ n = Batch(1).last
    BY <1>2, <1>3
  <1>5. Committed(Batch(1)) = [disk EXCEPT !.rows = r, !.local = n]
    BY <1>4 DEF Committed
  <1>6. Committed(Batch(1)) \in Disks
    BY <1>1, <1>4, <1>5 DEF Disks
  <1>7. /\ Committed(Batch(1)).blobs = disk.blobs /\ Committed(Batch(1)).remote = disk.remote
        /\ Committed(Batch(1)).local = n /\ Committed(Batch(1)).rows = r
    BY <1>1, <1>5 DEF Disks
  <1>8. Batch(1).last >= disk.local
    BY <1>1, <1>2
  <1>. QED
    BY <1>2, <1>4, <1>6, <1>7, <1>8

\* The watermark takes the records and the payloads of the batch in.
LEMMA CommittedJournal ==
    ASSUME WbInv, Types', 1 \in DOMAIN drain.batches, Batch(1).stage = "committing", proc = "up", proc' = "up",
           UNCHANGED <<log, barrier>>, disk' = Committed(Batch(1))
    PROVE  /\ Watermarks' /\ Endings' /\ ReadableStays
           /\ \A s \in (disk.local + 1)..disk'.local : HasPayload(log[s]) => Kept(s)'
  <1>1. /\ disk'.blobs = disk.blobs /\ disk'.remote = disk.remote /\ disk'.local = Batch(1).last
        /\ disk'.rows = disk.rows \cup Members(Batch(1))
        /\ Batch(1).first = disk.local + 1 /\ Batch(1).last >= disk.local
    BY CommittedDisk
  <1>2. /\ disk.local \in Nat /\ disk.remote \in Nat /\ Batch(1).last \in Nat /\ Batch(1).last <= Len(log)
        /\ barrier \in Nat /\ Len(log) \in Nat
    BY SchedulerFacts, BatchFacts, LogTypes DEF Types
  <1>3. Watermarks'
    <2>1. Watermarks
      BY DEF WbInv
    <2>2. disk'.rows \subseteq 1..disk'.local
      BY <1>1, <1>2, <2>1 DEF Watermarks, Members
    <2>3. (disk'.remote + 1)..disk'.local \subseteq disk'.rows
      BY <1>1, <1>2, <2>1 DEF Watermarks, Members
    <2>. QED
      BY <1>1, <1>2, <2>1, <2>2, <2>3 DEF Watermarks
  <1>4. Endings'
    <2>1. Longer /\ \A d \in disk'.blobs : \E c \in disk.blobs : d.first = c.first /\ d.last = c.last
      BY <1>1 DEF Longer
    <2>. QED
      BY <2>1, EndingsUp
  <1>5. ReadableStays
    BY <1>1, AllStay DEF ReadableStays
  <1>6. ASSUME NEW s \in (disk.local + 1)..disk'.local, HasPayload(log[s]) PROVE Kept(s)'
    <2>1. InContainer(1, s)
      BY <1>1, <1>6 DEF WbInv, Payloads, Members
    <2>2. PICK c \in disk.blobs : Holds(c, s) /\ Within(c, 1) /\ c.state = "whole"
      BY <2>1 DEF InContainer
    <2>. QED
      BY <1>1, <2>2 DEF Kept, Holds, Within
  <1>. QED
    BY <1>3, <1>4, <1>5, <1>6

LEMMA CommitKeeps ==
    ASSUME WbInv, Commit
    PROVE  WbInv'
  <1>1. /\ proc = "up" /\ 1 \in DOMAIN drain.batches /\ Batch(1).stage = "committing"
        /\ drain' = [drain EXCEPT !.batches[1].stage = "observing"] /\ disk' = Committed(Batch(1))
        /\ UNCHANGED <<log, overlay, barrier, sched, remote, proc, used>>
    BY DEF Commit, Serving, InStage, Batch
  <1>2. Types /\ disk.local \in Nat
    BY SchedulerFacts
  <1>3. drain' \in Drainings /\ Restaged(1, "observing")
    BY <1>1, <1>2, RestagedTypes
  <1>4. /\ disk' \in Disks /\ disk'.local = Batch(1).last /\ disk'.remote = disk.remote /\ disk'.blobs = disk.blobs
        /\ disk'.local >= disk.local
    BY <1>1, CommittedDisk
  <1>5. Types'
    BY <1>1, <1>2, <1>3, <1>4 DEF Types
  <1>6. Draining'
    BY <1>1, <1>3, <1>4, <1>5, RestagedDraining
  <1>7. /\ Watermarks' /\ Endings' /\ ReadableStays
        /\ \A s \in (disk.local + 1)..disk'.local : HasPayload(log[s]) => Kept(s)'
    BY <1>1, <1>5, CommittedJournal
  <1>8. ASSUME NEW i \in DOMAIN drain'.batches, Batch(i)'.stage # "observing" PROVE SameBatch(i)
    <2>1. /\ i \in DOMAIN drain.batches /\ Batch(i)'.first = Batch(i).first /\ Batch(i)'.last = Batch(i).last
          /\ Batch(i)'.stage = IF i = 1 THEN "observing" ELSE Batch(i).stage
      BY <1>3, <1>8 DEF Restaged
    <2>2. i \in Nat /\ Batch(i).stage # "observing" /\ (Batch(i)'.stage # "staging" => Batch(i).stage # "staging")
      BY <1>1, <1>8, <2>1, BatchFacts
    <2>. QED
      BY <1>4, <2>1, <2>2, AllStay, SameWhenKept
  <1>. QED
    BY <1>1, <1>4, <1>5, <1>6, <1>7, <1>8, JournalerKeeps

\* A container written out is whole, and no other changes.
LEMMA WrittenContainers ==
    ASSUME Types, NEW b
    PROVE  /\ Written(b) \subseteq Containers
           /\ \A d \in Written(b) : \E c \in disk.blobs : d.first = c.first /\ d.last = c.last
           /\ \A c \in disk.blobs : \E d \in Written(b) :
                 /\ d.first = c.first /\ d.last = c.last
                 /\ c.state # "unlinked" => d.state # "unlinked"
                 /\ c.state = "whole" => d.state = "whole"
                 /\ Members(b) \cap (c.first..c.last) # {} => d.state = "whole"
  <1>1. disk.blobs \subseteq Containers
    BY DiskTypes
  <1>2. \A c \in Containers : /\ [c EXCEPT !.state = "whole"] \in Containers
                              /\ [c EXCEPT !.state = "whole"].first = c.first
                              /\ [c EXCEPT !.state = "whole"].last = c.last
                              /\ [c EXCEPT !.state = "whole"].state = "whole"
    BY DEF Containers
  <1>3. ASSUME NEW d \in Written(b)
        PROVE  d \in Containers /\ \E c \in disk.blobs : d.first = c.first /\ d.last = c.last
    <2>1. PICK c \in disk.blobs : d = c \/ d = [c EXCEPT !.state = "whole"]
      BY DEF Written
    <2>. QED
      BY <1>1, <1>2, <2>1
  <1>4. ASSUME NEW c \in disk.blobs
        PROVE  \E d \in Written(b) : /\ d.first = c.first /\ d.last = c.last
                                     /\ c.state # "unlinked" => d.state # "unlinked"
                                     /\ c.state = "whole" => d.state = "whole"
                                     /\ Members(b) \cap (c.first..c.last) # {} => d.state = "whole"
    <2>1. CASE Members(b) \cap (c.first..c.last) # {}
      <3>1. [c EXCEPT !.state = "whole"] \in Written(b)
        BY <2>1 DEF Written
      <3>. QED
        BY <1>1, <1>2, <3>1
    <2>2. CASE Members(b) \cap (c.first..c.last) = {}
      <3>1. c \in Written(b)
        BY <2>2 DEF Written
      <3>. QED
        BY <2>2, <3>1
    <2>. QED
      BY <2>1, <2>2
  <1>. QED
    BY <1>3, <1>4

LEMMA StageWritten ==
    ASSUME WbInv, NEW i, StageEnd(i), drain.state = "up"
    PROVE  WbInv'
  <1>1. /\ proc = "up" /\ i \in DOMAIN drain.batches /\ Batch(i).stage = "staging"
        /\ drain' = [drain EXCEPT !.batches[i].stage = "ready"]
        /\ disk' = [disk EXCEPT !.blobs = Written(Batch(i))]
        /\ UNCHANGED <<log, overlay, barrier, sched, remote, proc, used>>
    BY DEF StageEnd, Serving, InStage, Batch
  <1>2. Types /\ disk.local \in Nat
    BY SchedulerFacts
  <1>3. drain' \in Drainings /\ Restaged(i, "ready")
    BY <1>1, <1>2, RestagedTypes
  <1>4. /\ disk' \in Disks /\ disk'.blobs = Written(Batch(i)) /\ disk'.rows = disk.rows
        /\ disk'.local = disk.local /\ disk'.remote = disk.remote
    BY <1>1, <1>2, WrittenContainers, OnlyContainers
  <1>5. Types' /\ Watermarks' /\ Longer
    BY <1>1, <1>2, <1>3, <1>4 DEF WbInv, Types, Watermarks, Longer
  <1>6. Draining'
    BY <1>1, <1>3, <1>4, <1>5, RestagedDraining
  <1>7. \A c \in disk.blobs : c.state # "unlinked" => Stays(c)
    BY <1>2, <1>4, WrittenContainers DEF Stays
  <1>8. Endings' /\ ReadableStays
    <2>1. \A d \in disk'.blobs : \E c \in disk.blobs : d.first = c.first /\ d.last = c.last
      BY <1>2, <1>4, WrittenContainers
    <2>. QED
      BY <1>1, <1>5, <1>7, <2>1, EndingsUp DEF ReadableStays
  <1>9. ASSUME NEW j \in DOMAIN drain'.batches, Batch(j)'.stage # "observing" PROVE SameBatch(j) \/ Staged(j)'
    <2>1. /\ j \in DOMAIN drain.batches /\ Batch(j)'.first = Batch(j).first /\ Batch(j)'.last = Batch(j).last
          /\ Batch(j)'.stage = IF j = i THEN "ready" ELSE Batch(j).stage
      BY <1>3, <1>9 DEF Restaged
    <2>2. CASE j # i
      <3>1. j \in Nat /\ Batch(j).stage # "observing" /\ Batch(j)'.stage = Batch(j).stage
        BY <1>9, <2>1, <2>2, BatchFacts
      <3>. QED
        BY <1>7, <2>1, <3>1, SameWhenKept
    <2>3. CASE j = i
      <3>1. ASSUME NEW s \in Members(Batch(i)), HasPayload(log[s]) PROVE InContainer(i, s)'
        <4>1. PICK c \in disk.blobs : Holds(c, s) /\ Within(c, i)
          BY <1>1, <3>1 DEF WbInv, Payloads, InContainer
        <4>2. Members(Batch(i)) \cap (c.first..c.last) # {}
          BY <3>1, <4>1 DEF Holds
        <4>3. PICK d \in disk'.blobs : d.first = c.first /\ d.last = c.last /\ d.state = "whole"
          BY <1>2, <1>4, <4>2, WrittenContainers
        <4>. QED
          BY <2>1, <2>3, <4>1, <4>3 DEF InContainer, Holds, Within
      <3>. QED
        BY <1>1, <2>1, <2>3, <3>1 DEF Staged, Members
    <2>. QED
      BY <2>2, <2>3
  <1>10. disk'.local >= disk.local /\ \A s \in (disk.local + 1)..disk'.local : FALSE
    BY <1>2, <1>4
  <1>. QED
    BY <1>1, <1>4, <1>5, <1>6, <1>8, <1>9, <1>10, JournalerKeeps

\* Batch i leaves the drain.
Place(i, j) == IF j < i THEN j ELSE j + 1
Skips(i) ==
    /\ i \in DOMAIN drain.batches /\ drain'.batches \in Seq(Batches)
    /\ Len(drain'.batches) = Len(drain.batches) - 1
    /\ \A j \in 1..(Len(drain.batches) - 1) : drain'.batches[j] = drain.batches[Place(i, j)]

LEMMA TailSkips ==
    ASSUME Types, 1 \in DOMAIN drain.batches, drain'.batches = Tail(drain.batches)
    PROVE  Skips(1)
  <1>1. drain.batches \in Seq(Batches) /\ Len(drain.batches) \in Nat /\ DOMAIN drain.batches = 1..Len(drain.batches)
    BY DrainTypes
  <1>2. drain.batches # <<>>
    BY <1>1, EmptySeq
  <1>3. /\ Tail(drain.batches) \in Seq(Batches) /\ Len(Tail(drain.batches)) = Len(drain.batches) - 1
        /\ \A j \in 1..Len(Tail(drain.batches)) : Tail(drain.batches)[j] = drain.batches[j + 1]
    BY <1>1, <1>2, HeadTailProperties
  <1>4. \A j \in 1..(Len(drain.batches) - 1) : Place(1, j) = j + 1
    BY <1>1 DEF Place
  <1>. QED
    BY <1>3, <1>4 DEF Skips

LEMMA RemoveSkips ==
    ASSUME Types, NEW i \in DOMAIN drain.batches, drain'.batches = RemoveAt(drain.batches, i)
    PROVE  Skips(i)
  <1>. DEFINE q == drain.batches
  <1>1. q \in Seq(Batches) /\ Len(q) \in Nat /\ DOMAIN q = 1..Len(q) /\ i \in 1..Len(q)
    BY DrainTypes
  <1>. DEFINE l == SubSeq(q, 1, i - 1)
              r == SubSeq(q, i + 1, Len(q))
  <1>2. \A j \in 1..Len(q) : q[j] \in Batches
    BY <1>1, ElementOfSeq
  <1>. HIDE DEF q
  <1>3. l \in Seq(Batches) /\ Len(l) = i - 1 /\ \A j \in 1..(i - 1) : l[j] = q[j]
    <2>1. i - 1 \in Int /\ 1 \in Int /\ \A j \in 1..(i - 1) : q[j] \in Batches
      BY <1>1, <1>2
    <2>2. /\ l \in Seq(Batches) /\ Len(l) = IF 1 <= i - 1 THEN (i - 1) - 1 + 1 ELSE 0
          /\ \A j \in 1..((i - 1) - 1 + 1) : l[j] = q[1 + j - 1]
      BY <2>1, SubSeqProperties
    <2>. QED
      BY <1>1, <2>2
  <1>4. r \in Seq(Batches) /\ Len(r) = Len(q) - i /\ \A j \in 1..(Len(q) - i) : r[j] = q[i + j]
    <2>1. i + 1 \in Int /\ Len(q) \in Int /\ \A j \in (i + 1)..Len(q) : q[j] \in Batches
      BY <1>1, <1>2
    <2>2. /\ r \in Seq(Batches) /\ Len(r) = IF i + 1 <= Len(q) THEN Len(q) - (i + 1) + 1 ELSE 0
          /\ \A j \in 1..(Len(q) - (i + 1) + 1) : r[j] = q[(i + 1) + j - 1]
      BY <2>1, SubSeqProperties
    <2>. QED
      BY <1>1, <2>2
  <1>5. drain'.batches = l \o r
    BY DEF RemoveAt, q
  <1>. HIDE DEF l, r
  <1>6. /\ l \o r \in Seq(Batches) /\ Len(l \o r) = Len(l) + Len(r)
        /\ \A j \in 1..(Len(l) + Len(r)) : (l \o r)[j] = IF j <= Len(l) THEN l[j] ELSE r[j - Len(l)]
    BY <1>3, <1>4, ConcatProperties
  <1>7. Len(l) + Len(r) = Len(q) - 1
    BY <1>1, <1>3, <1>4
  <1>8. ASSUME NEW j \in 1..(Len(q) - 1) PROVE (l \o r)[j] = q[Place(i, j)]
    <2>1. CASE j < i
      BY <1>1, <1>3, <1>6, <1>7, <2>1 DEF Place
    <2>2. CASE ~(j < i)
      <3>1. j - (i - 1) \in 1..(Len(q) - i) /\ i + (j - (i - 1)) = j + 1
        BY <1>1, <2>2
      <3>2. (l \o r)[j] = r[j - (i - 1)]
        BY <1>1, <1>3, <1>6, <1>7, <2>2
      <3>. QED
        BY <1>4, <2>2, <3>1, <3>2 DEF Place
    <2>. QED
      BY <2>1, <2>2
  <1>. QED
    BY <1>5, <1>6, <1>7, <1>8 DEF Skips, q

LEMMA SkipPlaces ==
    ASSUME Types, NEW i, Skips(i)
    PROVE  /\ i \in DOMAIN drain.batches /\ i \in Nat \ {0} /\ Len(drain.batches) \in Nat
           /\ DOMAIN drain.batches = 1..Len(drain.batches)
           /\ DOMAIN drain'.batches = 1..(Len(drain.batches) - 1)
           /\ \A j \in DOMAIN drain'.batches :
                 /\ j \in Nat \ {0} /\ Place(i, j) \in DOMAIN drain.batches /\ Place(i, j) \in Nat
                 /\ Place(i, j) # i /\ j <= Place(i, j) /\ Batch(j)' = Batch(Place(i, j))
           /\ \A j, k \in DOMAIN drain'.batches : j < k => Place(i, j) < Place(i, k)
  <1>1. i \in DOMAIN drain.batches /\ Len(drain.batches) \in Nat /\ DOMAIN drain.batches = 1..Len(drain.batches)
    BY DrainTypes DEF Skips
  <1>2. DOMAIN drain'.batches = 1..(Len(drain.batches) - 1)
    BY LenProperties DEF Skips
  <1>3. ASSUME NEW j \in DOMAIN drain'.batches
        PROVE  /\ j \in Nat \ {0} /\ Place(i, j) \in DOMAIN drain.batches /\ Place(i, j) \in Nat
               /\ Place(i, j) # i /\ j <= Place(i, j) /\ Batch(j)' = Batch(Place(i, j))
    <2>1. /\ j \in Nat \ {0} /\ Place(i, j) \in DOMAIN drain.batches /\ Place(i, j) \in Nat
          /\ Place(i, j) # i /\ j <= Place(i, j)
      BY <1>1, <1>2 DEF Place
    <2>2. drain'.batches[j] = drain.batches[Place(i, j)]
      BY <1>2 DEF Skips
    <2>. QED
      BY <2>1, <2>2 DEF Batch
  <1>4. ASSUME NEW j \in DOMAIN drain'.batches, NEW k \in DOMAIN drain'.batches, j < k PROVE Place(i, j) < Place(i, k)
    BY <1>1, <1>2, <1>4 DEF Place
  <1>. QED
    BY <1>1, <1>2, <1>3, <1>4

\* The first batch, observed or given up, or any other of a drain that has failed.
LEMMA SkipsDraining ==
    ASSUME WbInv, Types', proc = "up", proc' = "up", log' = log, NEW i, Skips(i), drain'.admitted = drain.admitted,
           \/ drain'.state # "up" /\ disk'.local = disk.local
           \/ drain'.state # "up" /\ i = 1 /\ disk'.local = Batch(1).last
           \/ drain'.state = drain.state /\ i = 1 /\ Batch(1).stage = "observing" /\ disk'.local = disk.local
    PROVE  Draining'
  <1>1. Types /\ Draining /\ disk.local \in Nat /\ disk'.local \in Nat
    BY SchedulerFacts DEF WbInv, Types, Disks
  <1>2. ASSUME NEW j \in DOMAIN drain'.batches PROVE BatchOf(j)'
    <2>1. /\ j \in Nat \ {0} /\ Place(i, j) \in DOMAIN drain.batches /\ Place(i, j) \in Nat
          /\ Place(i, j) # i /\ j <= Place(i, j) /\ Batch(j)' = Batch(Place(i, j))
      BY <1>1, <1>2, SkipPlaces
    <2>2. PICK k \in DOMAIN drain.batches : k = Place(i, j)
      BY <2>1
    <2>3. /\ BatchOf(k) /\ Batch(k).first \in Nat /\ Batch(k).last \in Nat /\ 1 \in DOMAIN drain.batches
          /\ Batch(k).stage # "observing" => Batch(k).first > disk.local
      BY BatchFacts
    <2>4. Batch(k).stage \in {"committing", "observing"} => j = 1 /\ k = 1 /\ i # 1
      BY <2>1, <2>2, <2>3 DEF BatchOf
    <2>5. i = 1 => Batch(1).last < Batch(k).first /\ Batch(1).last \in Nat /\ k # 1 /\ k = j + 1
      <3>1. i = 1 => k # 1 /\ 1 < k /\ k = j + 1
        BY <2>1, <2>2 DEF Place
      <3>. QED
        BY <2>3, <3>1, BatchFacts
    <2>6. Batch(k).stage # "observing" => Batch(k).first > disk'.local
      BY <1>1, <2>3, <2>5
    <2>7. Batch(k).stage \in {"committing", "observing"} => disk'.local = disk.local
      BY <2>4
    <2>8. drain'.state = "up" => Before(j)' = Before(k)
      <3>. SUFFICES ASSUME drain'.state = "up" PROVE Before(j)' = Before(k)
        OBVIOUS
      <3>1. i = 1 /\ Batch(1).stage = "observing" /\ disk'.local = disk.local /\ k = j + 1 /\ k # 1
        BY <2>5
      <3>2. Batch(1).last = disk.local
        BY <2>3, <3>1, BatchFacts DEF BatchOf
      <3>3. Before(k) = drain.batches[j].last
        BY <2>1, <3>1 DEF Before
      <3>4. CASE j = 1
        BY <3>1, <3>2, <3>3, <3>4 DEF Before, Batch
      <3>5. CASE j # 1
        <4>1. j - 1 \in DOMAIN drain'.batches /\ Place(1, j - 1) = j
          <5>1. DOMAIN drain'.batches = 1..(Len(drain.batches) - 1) /\ Len(drain.batches) \in Nat
            BY <1>1, SkipPlaces
          <5>. QED
            BY <1>2, <2>1, <3>5, <5>1 DEF Place
        <4>2. Batch(j - 1)' = Batch(j)
          BY <1>1, <3>1, <4>1, SkipPlaces
        <4>. QED
          BY <3>3, <3>5, <4>2 DEF Before, Batch
      <3>. QED
        BY <3>4, <3>5
    <2>9. drain'.state = "up" => drain.state = "up"
      OBVIOUS
    <2>. QED
      BY <2>1, <2>2, <2>3, <2>4, <2>6, <2>7, <2>8, <2>9 DEF BatchOf
  <1>3. \A j, k \in DOMAIN drain'.batches : j < k => Batch(j)'.last < Batch(k)'.first
    BY <1>1, SkipPlaces DEF Draining
  <1>4. drain'.admitted <= Len(log')
    BY <1>1 DEF Draining
  <1>5. drain'.state = "up" => drain'.admitted = Before(Len(drain.batches) + 1)'
    <2>. SUFFICES ASSUME drain'.state = "up" PROVE drain'.admitted = Before(Len(drain.batches) + 1)'
      OBVIOUS
    <2>1. i = 1 /\ drain.state = "up" /\ Batch(1).stage = "observing" /\ disk'.local = disk.local
      OBVIOUS
    <2>2. /\ 1 \in DOMAIN drain.batches /\ Len(drain.batches) \in Nat \ {0} /\ DOMAIN drain.batches = 1..Len(drain.batches)
          /\ Len(drain'.batches) = Len(drain.batches) - 1 /\ DOMAIN drain'.batches = 1..(Len(drain.batches) - 1)
      BY <1>1, <2>1, SkipPlaces DEF Skips
    <2>3. drain.admitted = drain.batches[Len(drain.batches)].last
      BY <1>1, <2>1, <2>2 DEF Draining, Before
    <2>4. CASE Len(drain.batches) = 1
      <3>1. Len(drain'.batches) + 1 = 1
        BY <2>2, <2>4
      <3>2. Batch(1).last = disk.local
        BY <2>1, <2>2, BatchFacts DEF BatchOf
      <3>. QED
        BY <2>1, <2>3, <2>4, <3>1, <3>2 DEF Before, Batch
    <2>5. CASE Len(drain.batches) # 1
      <3>1. /\ Len(drain'.batches) + 1 # 1 /\ (Len(drain'.batches) + 1) - 1 = Len(drain.batches) - 1
            /\ Len(drain.batches) - 1 \in DOMAIN drain'.batches /\ Place(1, Len(drain.batches) - 1) = Len(drain.batches)
        <4>1. PICK n \in Nat \ {0} : n = Len(drain.batches)
          BY <2>2
        <4>2. n # 1 /\ Len(drain'.batches) = n - 1 /\ DOMAIN drain'.batches = 1..(n - 1)
          BY <2>2, <2>5, <4>1
        <4>3. (n - 1) + 1 # 1 /\ ((n - 1) + 1) - 1 = n - 1 /\ n - 1 \in 1..(n - 1) /\ Place(1, n - 1) = n
          BY <4>2 DEF Place
        <4>. QED
          BY <4>1, <4>2, <4>3
      <3>3. drain'.batches[Len(drain.batches) - 1] = drain.batches[Len(drain.batches)]
        BY <2>1, <2>2, <3>1 DEF Skips
      <3>. QED
        BY <2>3, <3>1, <3>3 DEF Before
    <2>. QED
      BY <2>4, <2>5
  <1>. QED
    BY <1>2, <1>3, <1>4, <1>5 DEF Draining

\* A container that holds nothing of a batch is not unlinked with it.
LEMMA UnlinkedContainers ==
    ASSUME WbInv, NEW i \in DOMAIN drain.batches, Batch(i).stage # "observing"
    PROVE  /\ Unlinked(Batch(i)) \subseteq disk.blobs
           /\ \A c \in disk.blobs : c.last <= disk.local => c \in Unlinked(Batch(i))
           /\ \A j \in DOMAIN drain.batches, c \in disk.blobs : j # i /\ Within(c, j) => c \in Unlinked(Batch(i))
  <1>1. /\ Batch(i).first \in Nat /\ Batch(i).last \in Nat /\ Batch(i).first > disk.local /\ disk.local \in Nat
        /\ i \in Nat /\ \A c \in disk.blobs : c.first \in Nat /\ c.last \in Nat
    BY BatchFacts, SchedulerFacts, DiskTypes
  <1>2. ASSUME NEW c \in disk.blobs, c.last < Batch(i).first \/ Batch(i).last < c.first PROVE c \in Unlinked(Batch(i))
    BY <1>1, <1>2 DEF Unlinked, Members
  <1>3. ASSUME NEW c \in disk.blobs, c.last <= disk.local PROVE c \in Unlinked(Batch(i))
    BY <1>1, <1>2, <1>3
  <1>4. ASSUME NEW j \in DOMAIN drain.batches, NEW c \in disk.blobs, j # i, Within(c, j) PROVE c \in Unlinked(Batch(i))
    <2>1. j \in Nat /\ Batch(j).first \in Nat /\ Batch(j).last \in Nat
      BY BatchFacts
    <2>2. Batch(i).last < Batch(j).first \/ Batch(j).last < Batch(i).first
      BY <1>1, <1>4, <2>1, BatchFacts
    <2>. QED
      BY <1>1, <1>2, <1>4, <2>1, <2>2 DEF Within
  <1>. QED
    BY <1>3, <1>4 DEF Unlinked

\* A batch whose container is not written, and is unlinked.
LEMMA BatchDropped ==
    ASSUME WbInv, NEW i \in DOMAIN drain.batches, Batch(i).stage = "staging", proc = "up", proc' = "up",
           NEW state \in {"failing", "failed"}, drain' = [drain EXCEPT !.state = state, !.batches = RemoveAt(@, i)],
           disk' = [disk EXCEPT !.blobs = Unlinked(Batch(i))],
           UNCHANGED <<log, overlay, barrier, sched, remote>>, used' \in Uses, used'.ops = used.ops
    PROVE  WbInv'
  <1>1. Types /\ disk.local \in Nat /\ disk.blobs \subseteq Containers /\ drain \in Drainings
    BY SchedulerFacts, DiskTypes, DrainTypes
  <1>2. Unlinked(Batch(i)) \subseteq disk.blobs
    BY UnlinkedContainers
  <1>3. /\ disk' \in Disks /\ disk'.blobs = Unlinked(Batch(i)) /\ disk'.rows = disk.rows
        /\ disk'.local = disk.local /\ disk'.remote = disk.remote
    BY <1>1, <1>2, OnlyContainers
  <1>4. /\ drain'.batches = RemoveAt(drain.batches, i) /\ drain'.admitted = drain.admitted /\ drain'.state = state
    BY <1>1 DEF Drainings
  <1>5. Skips(i)
    BY <1>1, <1>4, RemoveSkips
  <1>6. drain' \in Drainings
    <2>1. PICK q \in Seq(Batches) : q = RemoveAt(drain.batches, i)
      BY <1>4, <1>5 DEF Skips
    <2>2. drain' = [drain EXCEPT !.state = state, !.batches = q]
      BY <2>1
    <2>. QED
      BY <1>1, <2>1, <2>2 DEF Drainings
  <1>7. Types' /\ Watermarks' /\ Longer
    BY <1>1, <1>3, <1>6 DEF WbInv, Types, Watermarks, Longer
  <1>8. Draining'
    BY <1>3, <1>4, <1>5, <1>7, SkipsDraining
  <1>9. Endings'
    BY <1>2, <1>3, <1>7, EndingsUp
  <1>10. ReadableStays
    <2>1. ASSUME NEW c \in disk.blobs, c.state = "whole", c.last <= disk.local PROVE Stays(c)
      BY <1>3, <2>1, UnlinkedContainers DEF Stays
    <2>. QED
      BY <2>1 DEF ReadableStays
  <1>11. ASSUME NEW j \in DOMAIN drain'.batches, Batch(j)'.stage # "observing" PROVE SameBatch(j)
    <2>1. /\ Place(i, j) \in DOMAIN drain.batches /\ Place(i, j) \in Nat /\ Place(i, j) # i
          /\ Batch(j)' = Batch(Place(i, j))
      BY <1>1, <1>5, SkipPlaces
    <2>2. \A c \in disk.blobs : Within(c, Place(i, j)) /\ c.state # "unlinked" => Stays(c)
      BY <1>3, <2>1, UnlinkedContainers DEF Stays
    <2>. QED
      BY <1>11, <2>1, <2>2, SameWhenKept
  <1>12. disk'.local >= disk.local /\ \A s \in (disk.local + 1)..disk'.local : FALSE
    BY <1>1, <1>3
  <1>. QED
    BY <1>3, <1>7, <1>8, <1>9, <1>10, <1>11, <1>12, JournalerKeeps

LEMMA StageEndKeeps ==
    ASSUME WbInv, NEW i, StageEnd(i)
    PROVE  WbInv'
  <1>1. CASE drain.state = "up"
    BY <1>1, StageWritten
  <1>2. CASE drain.state # "up"
    <2>1. /\ proc = "up" /\ i \in DOMAIN drain.batches /\ Batch(i).stage = "staging"
          /\ drain' = [drain EXCEPT !.batches = RemoveAt(@, i)]
          /\ disk' = [disk EXCEPT !.blobs = Unlinked(Batch(i))]
          /\ UNCHANGED <<log, overlay, barrier, sched, remote, proc, used>>
      BY <1>2 DEF StageEnd, Serving, InStage, Batch
    <2>2. drain \in Drainings /\ used \in Uses
      BY SchedulerFacts, DrainTypes
    <2>3. PICK state \in {"failing", "failed"} : state = drain.state
      BY <1>2, <2>2 DEF Drainings
    <2>4. drain' = [drain EXCEPT !.state = state, !.batches = RemoveAt(@, i)]
      BY <2>1, <2>2, <2>3 DEF Drainings
    <2>. QED
      BY <2>1, <2>2, <2>4, BatchDropped
  <1>. QED
    BY <1>1, <1>2

LEMMA StageFailsKeeps ==
    ASSUME WbInv, NEW i, StageFails(i)
    PROVE  WbInv'
  <1>1. /\ proc = "up" /\ i \in DOMAIN drain.batches /\ Batch(i).stage = "staging" /\ Use("fails")
        /\ drain' = [drain EXCEPT !.state = "failing", !.batches = RemoveAt(@, i)]
        /\ disk' = [disk EXCEPT !.blobs = Unlinked(Batch(i))]
        /\ UNCHANGED <<log, overlay, barrier, sched, remote, proc>>
    BY DEF StageFails, Serving, InStage, Batch
  <1>2. used' \in Uses /\ used'.ops = used.ops
    BY <1>1, SchedulerFacts, UseTypes
  <1>3. PICK state \in {"failing", "failed"} : state = "failing"
    OBVIOUS
  <1>. QED
    BY <1>1, <1>2, <1>3, BatchDropped

\* The first batch leaves and the containers stay.
LEMMA FirstLeaves ==
    ASSUME WbInv, Types', Watermarks', Endings', Draining', proc = "up", proc' = "up", UNCHANGED <<log, sched>>, Skips(1),
           disk'.remote = disk.remote, disk'.local >= disk.local, disk'.blobs = disk.blobs,
           \A s \in (disk.local + 1)..disk'.local : HasPayload(log[s]) => Kept(s)'
    PROVE  WbInv'
  <1>1. ASSUME NEW j \in DOMAIN drain'.batches, Batch(j)'.stage # "observing" PROVE SameBatch(j)
    <2>1. /\ Place(1, j) \in DOMAIN drain.batches /\ Place(1, j) \in Nat /\ Batch(j)' = Batch(Place(1, j))
      BY SchedulerFacts, SkipPlaces
    <2>. QED
      BY <1>1, <2>1, AllStay, SameWhenKept
  <1>2. ReadableStays
    BY AllStay DEF ReadableStays
  <1>. QED
    BY <1>1, <1>2, JournalerKeeps

\* The drain with a state and without its first batch.
LEMMA TailTypes ==
    ASSUME Types, 1 \in DOMAIN drain.batches, NEW state \in {"up", "failing", "failed"},
           drain' = [drain EXCEPT !.state = state, !.batches = Tail(@)]
    PROVE  drain' \in Drainings /\ Skips(1) /\ drain'.admitted = drain.admitted /\ drain'.state = state
  <1>1. drain \in Drainings
    BY DrainTypes
  <1>2. drain'.batches = Tail(drain.batches) /\ drain'.admitted = drain.admitted /\ drain'.state = state
    BY <1>1 DEF Drainings
  <1>3. Skips(1)
    BY <1>2, TailSkips
  <1>4. PICK q \in Seq(Batches) : q = Tail(drain.batches)
    BY <1>2, <1>3 DEF Skips
  <1>5. drain' = [drain EXCEPT !.state = state, !.batches = q]
    BY <1>4
  <1>. QED
    BY <1>1, <1>2, <1>3, <1>4, <1>5 DEF Drainings

LEMMA CommitFailsKeeps ==
    ASSUME WbInv, NEW durable \in BOOLEAN, CommitFails(durable)
    PROVE  WbInv'
  <1>1. /\ proc = "up" /\ 1 \in DOMAIN drain.batches /\ Batch(1).stage = "committing" /\ Use("fails")
        /\ disk' = Committed(Batch(1)) \/ disk' = disk
        /\ drain' = [drain EXCEPT !.state = "failing", !.batches = Tail(@)]
        /\ UNCHANGED <<log, overlay, barrier, sched, remote, proc>>
    BY DEF CommitFails, Serving, InStage, Batch
  <1>2. Types /\ disk.local \in Nat /\ disk \in Disks
    BY SchedulerFacts, DiskTypes
  <1>3. used' \in Uses /\ used'.ops = used.ops
    BY <1>1, <1>2, UseTypes
  <1>4. drain' \in Drainings /\ Skips(1) /\ drain'.admitted = drain.admitted /\ drain'.state # "up"
    <2>1. PICK state \in {"up", "failing", "failed"} : state = "failing"
      OBVIOUS
    <2>. QED
      BY <1>1, <1>2, <2>1, TailTypes
  <1>5. CASE disk' = Committed(Batch(1))
    <2>1. /\ disk' \in Disks /\ disk'.local = Batch(1).last /\ disk'.remote = disk.remote /\ disk'.blobs = disk.blobs
          /\ disk'.local >= disk.local
      BY <1>1, <1>5, CommittedDisk
    <2>2. Types'
      BY <1>1, <1>2, <1>3, <1>4, <2>1 DEF Types
    <2>3. Draining'
      BY <1>1, <1>4, <2>1, <2>2, SkipsDraining
    <2>4. /\ Watermarks' /\ Endings'
          /\ \A s \in (disk.local + 1)..disk'.local : HasPayload(log[s]) => Kept(s)'
      BY <1>1, <1>5, <2>2, CommittedJournal
    <2>. QED
      BY <1>1, <1>4, <2>1, <2>2, <2>3, <2>4, FirstLeaves
  <1>6. CASE disk' = disk
    <2>1. Types' /\ Watermarks' /\ Endings'
      BY <1>1, <1>2, <1>3, <1>4, <1>6 DEF WbInv, Types, Watermarks, Endings, EndOf
    <2>2. Draining'
      BY <1>1, <1>4, <1>6, <2>1, SkipsDraining
    <2>3. disk'.local >= disk.local /\ \A s \in (disk.local + 1)..disk'.local : FALSE
      BY <1>2, <1>6
    <2>. QED
      BY <1>1, <1>4, <1>6, <2>1, <2>2, <2>3, FirstLeaves
  <1>. QED
    BY <1>1, <1>5, <1>6

LEMMA ObserveKeeps ==
    ASSUME WbInv, Observe
    PROVE  WbInv'
  <1>1. /\ proc = "up" /\ 1 \in DOMAIN drain.batches /\ Batch(1).stage = "observing"
        /\ UNCHANGED <<log, disk, sched, remote, proc, used>>
    BY DEF Observe, Serving, InStage, Batch
  <1>2. \/ drain' = [drain EXCEPT !.batches = Tail(@)] /\ barrier' = Batch(1).last
        \/ drain' = [drain EXCEPT !.state = "failing", !.batches = Tail(@)] /\ barrier' = barrier
    BY DEF Observe, Batch
  <1>3. \E S : overlay' = Spilled(S)
    BY DEF Observe
  <1>4. Types /\ disk.local \in Nat /\ drain \in Drainings /\ Batch(1).last = disk.local
    BY <1>1, SchedulerFacts, DrainTypes, BatchFacts DEF BatchOf
  <1>5. DOMAIN overlay' = DOMAIN overlay /\ \A s \in DOMAIN overlay' : overlay'[s] \in {"memory", "journal"}
    BY <1>3, SchedulerFacts DEF Spilled
  <1>6. barrier' \in Nat /\ barrier' <= disk.local
    <2>1. barrier \in Nat /\ barrier <= disk.local
      BY DEF WbInv, Types, Watermarks
    <2>. QED
      BY <1>2, <1>4, <2>1
  <1>7. /\ drain' \in Drainings /\ Skips(1) /\ drain'.admitted = drain.admitted
        /\ drain'.state # "up" \/ drain'.state = drain.state
    <2>1. PICK state \in {"up", "failing", "failed"} :
              /\ drain' = [drain EXCEPT !.state = state, !.batches = Tail(@)]
              /\ state # "up" \/ state = drain.state
      <3>1. CASE drain' = [drain EXCEPT !.state = "failing", !.batches = Tail(@)]
        BY <3>1
      <3>2. CASE drain' = [drain EXCEPT !.batches = Tail(@)]
        <4>1. drain.state \in {"up", "failing", "failed"}
          BY <1>4 DEF Drainings
        <4>2. drain' = [drain EXCEPT !.state = drain.state, !.batches = Tail(@)]
          BY <1>4, <3>2 DEF Drainings
        <4>. QED
          BY <4>1, <4>2
      <3>. QED
        BY <1>2, <3>1, <3>2
    <2>. QED
      BY <1>1, <1>4, <2>1, TailTypes
  <1>8. Types' /\ Watermarks' /\ Endings'
    BY <1>1, <1>4, <1>5, <1>6, <1>7 DEF WbInv, Types, Watermarks, Endings, EndOf
  <1>9. Draining'
    BY <1>1, <1>7, <1>8, SkipsDraining
  <1>10. disk'.local >= disk.local /\ \A s \in (disk.local + 1)..disk'.local : FALSE
    BY <1>1, <1>4
  <1>. QED
    BY <1>1, <1>7, <1>8, <1>9, <1>10, FirstLeaves

LEMMA GiveUpKeeps ==
    ASSUME WbInv, GiveUp
    PROVE  WbInv'
  <1>. DEFINE X == {c \in disk.blobs : \A i \in DOMAIN drain.batches : c \in Unlinked(drain.batches[i])}
  <1>1. /\ proc = "up" /\ \A i \in DOMAIN drain.batches : Batch(i).stage = "ready"
        /\ drain' = [drain EXCEPT !.state = "failed", !.batches = <<>>] /\ disk' = [disk EXCEPT !.blobs = X]
        /\ UNCHANGED <<log, overlay, barrier, sched, remote, proc, used>>
    BY DEF GiveUp, Serving, InStage, Batch
  <1>2. /\ Types /\ disk.local \in Nat /\ disk.blobs \subseteq Containers /\ drain \in Drainings
        /\ drain.admitted \in Nat /\ drain.admitted <= Len(log)
    BY SchedulerFacts, DiskTypes, DrainTypes DEF WbInv, Draining
  <1>3. X \subseteq disk.blobs /\ \A c \in disk.blobs : c.last <= disk.local => c \in X
    BY <1>1, UnlinkedContainers DEF Batch
  <1>. HIDE DEF X
  <1>4. /\ disk' \in Disks /\ disk'.blobs = X /\ disk'.rows = disk.rows
        /\ disk'.local = disk.local /\ disk'.remote = disk.remote
    BY <1>1, <1>2, <1>3, OnlyContainers
  <1>5. <<>> \in Seq(Batches) /\ DOMAIN (<<>>) = {}
    OBVIOUS
  <1>6. drain' \in Drainings /\ drain'.batches = <<>> /\ drain'.state = "failed" /\ drain'.admitted = drain.admitted
    BY <1>1, <1>2, <1>5 DEF Drainings
  <1>7. Types' /\ Watermarks' /\ Longer
    BY <1>1, <1>2, <1>4, <1>6 DEF WbInv, Types, Watermarks, Longer
  <1>8. DOMAIN drain'.batches = {}
    BY <1>5, <1>6
  <1>9. Draining'
    BY <1>1, <1>2, <1>6, <1>8 DEF Draining
  <1>10. Endings'
    BY <1>1, <1>3, <1>4, <1>7, EndingsUp
  <1>11. ReadableStays
    BY <1>3, <1>4 DEF ReadableStays, Stays
  <1>12. disk'.local >= disk.local /\ \A s \in (disk.local + 1)..disk'.local : FALSE
    BY <1>2, <1>4
  <1>. QED
    BY <1>1, <1>4, <1>7, <1>8, <1>9, <1>10, <1>11, <1>12, JournalerKeeps

\* The container of a batch spans its payloads, from the first to the last.
LEMMA NewContainer ==
    ASSUME Types, NEW b \in Batches, 1 <= b.first, b.last <= Len(log)
    PROVE  /\ ContainerOf(b) \subseteq Containers
           /\ \A d \in ContainerOf(b) : /\ d.first <= d.last /\ d.last \in DOMAIN log /\ HasPayload(log[d.last])
                                        /\ b.first <= d.first /\ d.last <= b.last /\ d.state = "torn"
           /\ \A s \in Members(b) : HasPayload(log[s]) => \E d \in ContainerOf(b) : Holds(d, s)
  <1>. DEFINE heavy == {s \in Members(b) : HasPayload(log[s])}
  <1>1. b.first \in Nat /\ b.last \in Nat /\ Len(log) \in Nat /\ DOMAIN log = 1..Len(log)
    BY LogTypes DEF Batches
  <1>2. heavy \subseteq Nat /\ heavy \subseteq DOMAIN log /\ \A s \in heavy : b.first <= s /\ s <= b.last /\ HasPayload(log[s])
    BY <1>1 DEF Members
  <1>3. ContainerOf(b) = IF heavy = {} THEN {} ELSE {[first |-> Min(heavy), last |-> Max(heavy), state |-> "torn"]}
    BY DEF ContainerOf
  <1>4. \A s \in Members(b) : HasPayload(log[s]) => s \in heavy
    OBVIOUS
  <1>. HIDE DEF heavy
  <1>5. CASE heavy = {}
    BY <1>3, <1>4, <1>5
  <1>6. CASE heavy # {}
    <2>1. Min(heavy) \in heavy /\ \A s \in heavy : Min(heavy) <= s
      BY <1>2, <1>6, MinimumElement
    <2>2. Max(heavy) \in heavy /\ \A s \in heavy : s <= Max(heavy)
      BY <1>1, <1>2, <1>6, GreatestElement
    <2>3. PICK lo, hi \in Nat : lo = Min(heavy) /\ hi = Max(heavy)
      BY <1>2, <2>1, <2>2
    <2>4. /\ ContainerOf(b) = {[first |-> lo, last |-> hi, state |-> "torn"]}
          /\ lo <= hi /\ hi \in DOMAIN log /\ HasPayload(log[hi]) /\ b.first <= lo /\ hi <= b.last /\ lo \in Nat \ {0}
      BY <1>1, <1>2, <1>3, <1>6, <2>1, <2>2, <2>3
    <2>5. [first |-> lo, last |-> hi, state |-> "torn"] \in Containers
      BY <2>3, <2>4 DEF Containers
    <2>6. ASSUME NEW s \in Members(b), HasPayload(log[s]) PROVE s \in lo..hi
      <3>1. s \in heavy /\ s \in Nat
        BY <1>2, <1>4, <2>6
      <3>. QED
        BY <2>1, <2>2, <2>3, <3>1
    <2>. QED
      BY <2>4, <2>5, <2>6 DEF Holds
  <1>. QED
    BY <1>5, <1>6

LEMMA AssembleKeeps ==
    ASSUME WbInv, NEW n \in 1..BatchMax, Assemble(n)
    PROVE  WbInv'
  <1>. DEFINE b == [first |-> drain.admitted + 1, last |-> drain.admitted + n, stage |-> "staging"]
  <1>0. PICK N : N = Len(drain.batches)
    OBVIOUS
  <1>1. /\ proc = "up" /\ drain.state = "up" /\ b.last <= Len(log)
        /\ drain' = [drain EXCEPT !.admitted = b.last, !.batches = Append(@, b)]
        /\ disk' = [disk EXCEPT !.blobs = disk.blobs \cup ContainerOf(b)]
        /\ UNCHANGED <<log, overlay, barrier, sched, remote, proc, used>>
    BY DEF Assemble, Serving
  <1>2. /\ Types /\ Draining /\ disk.local \in Nat /\ disk.blobs \subseteq Containers /\ drain \in Drainings
        /\ drain.admitted \in Nat /\ drain.batches \in Seq(Batches) /\ N \in Nat /\ DOMAIN drain.batches = 1..N
        /\ n \in Nat \ {0} /\ Len(log) \in Nat
    BY <1>0, SchedulerFacts, DiskTypes, DrainTypes, LogTypes, Constants DEF WbInv
  <1>3. /\ b \in Batches /\ b.first = drain.admitted + 1 /\ b.last = drain.admitted + n /\ b.stage = "staging"
        /\ b.first \in Nat /\ b.last \in Nat /\ b.first <= b.last /\ 1 <= b.first
    BY <1>2 DEF Batches
  <1>. HIDE DEF b
  <1>4. drain.admitted >= disk.local /\ drain.admitted = Before(N + 1)
    <2>1. drain.admitted = Before(N + 1)
      BY <1>0, <1>1, <1>2 DEF Draining
    <2>2. CASE N = 0
      BY <1>2, <2>1, <2>2 DEF Before
    <2>3. CASE N # 0
      <3>1. N \in DOMAIN drain.batches /\ N + 1 # 1 /\ (N + 1) - 1 = N
        BY <1>2, <2>3
      <3>2. Before(N + 1) = Batch(N).last
        BY <3>1 DEF Before, Batch
      <3>3. /\ BatchOf(N) /\ Batch(N).first \in Nat /\ Batch(N).last \in Nat /\ Batch(N).first <= Batch(N).last
            /\ Batch(N).stage # "observing" => Batch(N).first > disk.local
        BY <3>1, BatchFacts
      <3>4. Batch(N).stage = "observing" => Batch(N).last = disk.local
        BY <3>3 DEF BatchOf
      <3>. QED
        BY <1>2, <2>1, <3>2, <3>3, <3>4
    <2>. QED
      BY <2>1, <2>2, <2>3
  <1>5. /\ ContainerOf(b) \subseteq Containers
        /\ \A d \in ContainerOf(b) : /\ d.first <= d.last /\ d.last \in DOMAIN log /\ HasPayload(log[d.last])
                                     /\ b.first <= d.first /\ d.last <= b.last /\ d.state = "torn"
        /\ \A s \in Members(b) : HasPayload(log[s]) => \E d \in ContainerOf(b) : Holds(d, s)
    BY <1>1, <1>2, <1>3, NewContainer
  <1>6. /\ disk' \in Disks /\ disk'.blobs = disk.blobs \cup ContainerOf(b) /\ disk'.rows = disk.rows
        /\ disk'.local = disk.local /\ disk'.remote = disk.remote
    <2>1. PICK X : X = disk.blobs \cup ContainerOf(b)
      OBVIOUS
    <2>2. X \subseteq Containers /\ disk' = [disk EXCEPT !.blobs = X]
      BY <1>1, <1>2, <1>5, <2>1
    <2>. QED
      BY <1>2, <2>1, <2>2, OnlyContainers
  <1>7. /\ Append(drain.batches, b) \in Seq(Batches) /\ Len(Append(drain.batches, b)) = N + 1
        /\ \A j \in 1..N : Append(drain.batches, b)[j] = drain.batches[j]
        /\ Append(drain.batches, b)[N + 1] = b
    BY <1>0, <1>2, <1>3, AppendProperties
  <1>8. /\ drain' \in Drainings /\ drain'.state = "up" /\ drain'.admitted = b.last /\ Len(drain'.batches) = N + 1
        /\ DOMAIN drain'.batches = 1..(N + 1) /\ Batch(N + 1)' = b
        /\ \A j \in 1..N : Batch(j)' = Batch(j)
    <2>1. PICK q \in Seq(Batches), m \in Nat : q = Append(drain.batches, b) /\ m = b.last
      BY <1>3, <1>7
    <2>2. drain' = [drain EXCEPT !.admitted = m, !.batches = q]
      BY <1>1, <2>1
    <2>3. drain' \in Drainings
      BY <1>2, <2>1, <2>2 DEF Drainings
    <2>4. drain'.state = "up" /\ drain'.admitted = m /\ drain'.batches = q
      BY <1>1, <1>2, <2>2 DEF Drainings
    <2>5. DOMAIN q = 1..(N + 1)
      BY <1>7, <2>1, LenProperties
    <2>6. drain'.batches[N + 1] = b /\ \A j \in 1..N : drain'.batches[j] = drain.batches[j]
      BY <1>7, <2>1, <2>4
    <2>. QED
      BY <1>7, <2>1, <2>3, <2>4, <2>5, <2>6 DEF Batch
  <1>9. Types' /\ Watermarks' /\ Longer
    BY <1>1, <1>2, <1>6, <1>8 DEF WbInv, Types, Watermarks, Longer
  <1>10. Draining'
    <2>1. ASSUME NEW j \in 1..N PROVE BatchOf(j)'
      <3>1. BatchOf(j) /\ Batch(j).last \in Nat /\ j \in Nat \ {0}
        BY <1>2, BatchFacts
      <3>2. Batch(j).last <= b.last
        BY <1>2, <1>3, <3>1 DEF BatchOf
      <3>3. Before(j)' = Before(j)
        <4>1. CASE j = 1
          BY <1>6, <4>1 DEF Before
        <4>2. CASE j # 1
          <5>1. j - 1 \in 1..N
            BY <1>2, <4>2
          <5>. QED
            BY <1>8, <4>2, <5>1 DEF Before, Batch
        <4>. QED
          BY <4>1, <4>2
      <3>4. Batch(j)' = Batch(j)
        BY <1>8
      <3>. QED
        BY <1>1, <1>6, <1>8, <3>1, <3>2, <3>3, <3>4 DEF BatchOf
    <2>2. Before(N + 1)' = drain.admitted /\ N + 1 \in Nat
      <3>1. CASE N = 0
        BY <1>4, <1>6, <3>1 DEF Before
      <3>2. CASE N # 0
        <4>1. N \in 1..N /\ N + 1 # 1 /\ (N + 1) - 1 = N
          BY <1>2, <3>2
        <4>2. drain'.batches[N] = drain.batches[N]
          BY <1>8, <4>1 DEF Batch
        <4>. QED
          BY <1>2, <1>4, <4>1, <4>2 DEF Before
      <3>. QED
        BY <1>2, <3>1, <3>2
    <2>3. BatchOf(N + 1)'
      BY <1>2, <1>3, <1>4, <1>6, <1>8, <2>2 DEF BatchOf
    <2>4. \A j \in DOMAIN drain'.batches : BatchOf(j)'
      BY <1>2, <1>8, <2>1, <2>3
    <2>5. ASSUME NEW j \in DOMAIN drain'.batches, NEW k \in DOMAIN drain'.batches, j < k
          PROVE  Batch(j)'.last < Batch(k)'.first
      <3>1. j \in 1..N /\ Batch(j)' = Batch(j)
        BY <1>2, <1>8, <2>5
      <3>2. CASE k \in 1..N
        BY <1>2, <1>8, <2>5, <3>1, <3>2 DEF Draining
      <3>3. CASE k = N + 1
        <4>1. Batch(j).last \in Nat /\ Batch(j).last <= drain.admitted
          BY <1>2, <3>1, BatchFacts DEF BatchOf
        <4>. QED
          BY <1>2, <1>3, <1>8, <3>1, <3>3, <4>1
      <3>. QED
        BY <1>2, <1>8, <3>2, <3>3
    <2>6. drain'.admitted = Before(Len(drain.batches) + 1)'
      <3>1. Len(drain.batches)' = N + 1 /\ (N + 1) + 1 # 1 /\ ((N + 1) + 1) - 1 = N + 1
        BY <1>2, <1>8
      <3>2. drain'.batches[N + 1].last = b.last
        BY <1>8 DEF Batch
      <3>. QED
        BY <1>8, <3>1, <3>2 DEF Before
    <2>. QED
      BY <1>1, <1>2, <1>8, <2>4, <2>5, <2>6 DEF Draining
  <1>11. \A c \in disk.blobs : c.state # "unlinked" => Stays(c)
    BY <1>6 DEF Stays
  <1>12. Endings'
    <2>1. ASSUME NEW d \in disk'.blobs PROVE EndOf(d)'
      <3>1. d.first <= d.last /\ d.last \in DOMAIN log /\ HasPayload(log[d.last])
        <4>1. CASE d \in disk.blobs
          BY <1>1, <4>1 DEF WbInv, Endings, EndOf
        <4>2. CASE d \in ContainerOf(b)
          BY <1>5, <4>2
        <4>. QED
          BY <1>6, <4>1, <4>2
      <3>. QED
        BY <1>1, <3>1 DEF EndOf
    <2>. QED
      BY <2>1 DEF Endings
  <1>13. ReadableStays
    BY <1>11 DEF ReadableStays
  <1>14. ASSUME NEW j \in DOMAIN drain'.batches, Batch(j)'.stage # "observing" PROVE SameBatch(j) \/ Staged(j)'
    <2>1. CASE j \in 1..N
      <3>1. j \in DOMAIN drain.batches /\ j \in Nat /\ Batch(j)' = Batch(j)
        BY <1>2, <1>8, <2>1
      <3>. QED
        BY <1>11, <1>14, <3>1, SameWhenKept
    <2>2. CASE j = N + 1
      <3>1. ASSUME NEW s \in Members(b), HasPayload(log[s]) PROVE InContainer(j, s)'
        <4>1. PICK d \in ContainerOf(b) : Holds(d, s)
          BY <1>5, <3>1
        <4>2. d \in disk'.blobs /\ b.first <= d.first /\ d.last <= b.last /\ d.state = "torn"
          BY <1>5, <1>6
        <4>3. Batch(j)' = b
          BY <1>8, <2>2
        <4>. QED
          BY <1>3, <4>1, <4>2, <4>3 DEF InContainer, Holds, Within
      <3>. QED
        BY <1>1, <1>8, <2>2, <3>1 DEF Staged, Members
    <2>. QED
      BY <1>2, <1>8, <2>1, <2>2
  <1>15. disk'.local >= disk.local /\ \A s \in (disk.local + 1)..disk'.local : FALSE
    BY <1>2, <1>6
  <1>. QED
    BY <1>1, <1>6, <1>9, <1>10, <1>12, <1>13, <1>14, <1>15, JournalerKeeps

LEMMA JournalerStepsKeep ==
    ASSUME WbInv, LocalStep
    PROVE  WbInv'
  BY AssembleKeeps, StageEndKeeps, CommitStartKeeps, CommitKeeps, ObserveKeeps, GiveUpKeeps DEF LocalStep

-----------------------------------------------------------------------------
(* A crash and the steps of recovery *)

\* The process that has just started has no batch, nothing is scheduled and
\* what the journal has not committed is gone.
LEMMA IdleTypes ==
    ASSUME NEW n \in Nat
    PROVE  /\ Idle(n) \in Schedules /\ Idle(n).window = {} /\ Idle(n).active = {} /\ Idle(n).done = {}
           /\ Idle(n).commit = "idle" /\ Idle(n).next = n
  BY DEF Idle, Schedules

LEMMA EmptyDrain ==
    ASSUME NEW n \in Nat
    PROVE  /\ [state |-> "up", admitted |-> n, batches |-> <<>>] \in Drainings
           /\ DOMAIN (<<>>) = {} /\ Len(<<>>) = 0
  <1>1. <<>> \in Seq(Batches) /\ DOMAIN (<<>>) = {} /\ Len(<<>>) = 0
    OBVIOUS
  <1>. QED
    BY <1>1 DEF Drainings

LEMMA CrashKeeps ==
    ASSUME WbInv, Crash
    PROVE  WbInv'
  <1>1. /\ Use("crashes") /\ proc' = "opening" /\ log' = SubSeq(log, 1, disk.local) /\ overlay' = <<>>
        /\ drain' = [state |-> "up", admitted |-> 0, batches |-> <<>>] /\ barrier' = 0
        /\ sched' = Idle(1) /\ remote' = remote
    BY DEF Crash
  <1>2. PICK back \in SUBSET {c \in disk.blobs : c.state # "whole"} :
           disk' = [disk EXCEPT !.blobs =
                       {c \in @ : c.state = "whole"} \cup
                       {IF c.state = "torn" THEN c ELSE [c EXCEPT !.state = "whole"] : c \in back}]
    BY DEF Crash
  <1>. DEFINE X == {c \in disk.blobs : c.state = "whole"} \cup
                   {IF c.state = "torn" THEN c ELSE [c EXCEPT !.state = "whole"] : c \in back}
  <1>3. /\ Types /\ disk.local \in Nat /\ disk.remote \in Nat /\ disk.blobs \subseteq Containers
        /\ log \in Seq(Mutation) /\ Len(log) \in Nat /\ DOMAIN log = 1..Len(log) /\ disk.local <= Len(log)
    BY SchedulerFacts, DiskTypes, LogTypes DEF WbInv, Watermarks
  <1>4. ASSUME NEW d \in X PROVE d \in Containers /\ \E c \in disk.blobs : d.first = c.first /\ d.last = c.last
    <2>1. PICK c \in disk.blobs : d = c \/ d = [c EXCEPT !.state = "whole"]
      OBVIOUS
    <2>2. c \in Containers
      BY <1>3
    <2>3. /\ [c EXCEPT !.state = "whole"] \in Containers /\ [c EXCEPT !.state = "whole"].first = c.first
          /\ [c EXCEPT !.state = "whole"].last = c.last
      BY <2>2 DEF Containers
    <2>. QED
      BY <2>1, <2>2, <2>3
  <1>5. \A c \in disk.blobs : c.state = "whole" => c \in X
    OBVIOUS
  <1>6. disk' = [disk EXCEPT !.blobs = X]
    BY <1>2
  <1>. HIDE DEF X
  <1>7. /\ disk' \in Disks /\ disk'.blobs = X /\ disk'.rows = disk.rows
        /\ disk'.local = disk.local /\ disk'.remote = disk.remote
    BY <1>3, <1>4, <1>6, OnlyContainers
  <1>8. /\ log' \in Seq(Mutation) /\ Len(log') = disk.local /\ DOMAIN log' = 1..disk.local
        /\ \A s \in 1..disk.local : log'[s] = log[s]
    <2>1. \A s \in 1..disk.local : log[s] \in Mutation
      BY SchedulerFacts
    <2>2. 1 \in Int /\ disk.local \in Int
      BY <1>3
    <2>3. /\ log' \in Seq(Mutation) /\ Len(log') = IF 1 <= disk.local THEN disk.local - 1 + 1 ELSE 0
          /\ \A s \in 1..(disk.local - 1 + 1) : log'[s] = log[1 + s - 1]
      BY <1>1, <2>1, <2>2, SubSeqProperties
    <2>4. DOMAIN log' = 1..Len(log')
      BY <2>3, LenProperties
    <2>. QED
      BY <1>3, <2>3, <2>4
  <1>9. used' \in Uses /\ used'.ops = used.ops
    BY <1>1, <1>3, UseTypes
  <1>10. drain' \in Drainings /\ drain'.admitted = 0 /\ drain'.batches = <<>> /\ DOMAIN drain'.batches = {}
    BY <1>1, EmptyDrain
  <1>11. sched' \in Schedules /\ sched'.window = {} /\ sched'.active = {} /\ sched'.done = {} /\ sched'.commit = "idle"
    BY <1>1, IdleTypes
  <1>12. DOMAIN overlay' = {}
    BY <1>1, EmptyDrain
  <1>13. Types'
    <2>1. Len(log') <= used'.ops /\ used'.ops <= MaxOps
      BY <1>3, <1>8, <1>9, LogTypes DEF Types
    <2>2. remote' \in [Key -> Value] /\ barrier' \in Nat
      BY <1>1, SchedulerFacts
    <2>. QED
      BY <1>1, <1>7, <1>8, <1>9, <1>10, <1>11, <1>12, <2>1, <2>2 DEF Types
  <1>14. Watermarks'
    BY <1>1, <1>3, <1>7, <1>8 DEF WbInv, Watermarks
  <1>15. Draining'
    BY <1>1, <1>8, <1>10, <1>3 DEF Draining
  <1>16. Payloads'
    <2>1. ASSUME NEW s \in (disk.remote + 1)..disk.local, HasPayload(log'[s]) PROVE Kept(s)'
      <3>1. s \in 1..disk.local
        BY <1>3
      <3>2. Kept(s)
        BY <1>8, <2>1, <3>1 DEF WbInv, Payloads
      <3>. QED
        BY <1>5, <1>7, <3>2 DEF Kept, Holds
    <2>. QED
      BY <1>7, <1>10, <2>1 DEF Payloads
  <1>17. Endings'
    <2>1. ASSUME NEW d \in disk'.blobs PROVE EndOf(d)'
      <3>1. PICK c \in disk.blobs : d.first = c.first /\ d.last = c.last
        BY <1>4, <1>7
      <3>2. EndOf(c)
        BY DEF WbInv, Endings
      <3>3. d.last \in DOMAIN log' => d.last \in DOMAIN log /\ log'[d.last] = log[d.last]
        BY <1>3, <1>8
      <3>. QED
        BY <1>1, <3>1, <3>2, <3>3 DEF EndOf
    <2>. QED
      BY <2>1 DEF Endings
  <1>18. Scheduling'
    BY <1>1, <1>7, <1>11 DEF Scheduling
  <1>. QED
    BY <1>13, <1>14, <1>15, <1>16, <1>17, <1>18 DEF WbInv

\* A step of recovery before the check: it only forgets rows and containers that
\* hold nothing pending.
LEMMA RecoveryStep ==
    ASSUME WbInv, proc # "up", proc' \in {"sweeping", "pruning", "checking"},
           UNCHANGED <<log, overlay, drain, barrier, sched, remote, used>>,
           disk' \in Disks, disk'.local = disk.local, disk'.remote = disk.remote,
           disk'.rows \subseteq disk.rows, (disk.remote + 1)..disk.local \subseteq disk'.rows,
           \A c \in disk.blobs : c.last > disk.remote /\ c.last <= disk.local /\ c.state = "whole" => Stays(c),
           \A d \in disk'.blobs : \E c \in disk.blobs :
                d.first = c.first /\ d.last = c.last /\ (proc = "opening" => c.last <= disk.local),
           proc' = "checking" => \A d \in disk'.blobs : d.last > disk.remote
    PROVE  WbInv'
  <1>1. /\ Types /\ Draining /\ Watermarks /\ disk.local \in Nat /\ disk.remote \in Nat /\ Len(log) \in Nat
        /\ DOMAIN log = 1..Len(log) /\ DOMAIN drain.batches = {}
    BY SchedulerFacts, LogTypes, EmptyDrain DEF WbInv, Draining
  <1>2. Types'
    BY <1>1 DEF Types
  <1>3. Watermarks'
    BY <1>1 DEF Watermarks
  <1>4. Draining'
    BY <1>1 DEF Draining
  <1>5. Payloads'
    <2>1. ReadableStays /\ Longer
      BY DEF ReadableStays, Longer
    <2>2. disk'.local >= disk.local /\ disk'.remote >= disk.remote
      BY <1>1
    <2>3. \A s \in (disk'.remote + 1)..disk'.local : HasPayload(log'[s]) => Kept(s)'
      BY <1>2, <2>1, <2>2, KeptStays
    <2>. QED
      BY <1>1, <2>3 DEF Payloads
  <1>6. Endings'
    <2>1. ASSUME NEW d \in disk'.blobs PROVE EndOf(d)'
      <3>1. PICK c \in disk.blobs : d.first = c.first /\ d.last = c.last /\ (proc = "opening" => c.last <= disk.local)
        OBVIOUS
      <3>2. EndOf(c) /\ c.first \in Nat \ {0} /\ c.last \in Nat
        <4>1. c \in Containers
          BY <1>1, DiskTypes
        <4>. QED
          BY <4>1 DEF WbInv, Endings, Containers
      <3>3. c.last <= disk.local
        BY <1>1, <3>1, <3>2 DEF EndOf, Types
      <3>4. c.last \in DOMAIN log
        BY <1>1, <3>2, <3>3 DEF EndOf, Watermarks
      <3>. QED
        BY <3>1, <3>2, <3>3, <3>4 DEF EndOf
    <2>. QED
      BY <2>1 DEF Endings
  <1>7. Scheduling'
    BY DEF WbInv, Scheduling
  <1>. QED
    BY <1>2, <1>3, <1>4, <1>5, <1>6, <1>7 DEF WbInv

LEMMA RemoveUncommittedKeeps ==
    ASSUME WbInv, RemoveUncommitted
    PROVE  WbInv'
  <1>. DEFINE X == {c \in disk.blobs : c.last <= disk.local}
  <1>1. /\ proc = "opening" /\ proc' = "sweeping" /\ disk' = [disk EXCEPT !.blobs = X]
        /\ UNCHANGED <<log, overlay, drain, barrier, sched, remote, used>>
    BY DEF RemoveUncommitted, OpenRest
  <1>2. Types /\ X \subseteq Containers /\ (disk.remote + 1)..disk.local \subseteq disk.rows
    BY SchedulerFacts, DiskTypes DEF WbInv, Watermarks
  <1>3. /\ disk' \in Disks /\ disk'.blobs = X /\ disk'.rows = disk.rows
        /\ disk'.local = disk.local /\ disk'.remote = disk.remote
    BY <1>1, <1>2, OnlyContainers
  <1>4. \A c \in disk.blobs : c.last <= disk.local /\ c.state = "whole" => Stays(c)
    BY <1>3 DEF Stays
  <1>5. \A d \in disk'.blobs : d \in disk.blobs /\ d.last <= disk.local
    BY <1>3
  <1>. QED
    BY <1>1, <1>2, <1>3, <1>4, <1>5, RecoveryStep

LEMMA OpenSweepKeeps ==
    ASSUME WbInv, OpenSweep
    PROVE  WbInv'
  <1>1. /\ proc = "sweeping" /\ proc' = "pruning" /\ disk' = [disk EXCEPT !.blobs = Swept(disk.remote)]
        /\ UNCHANGED <<log, overlay, drain, barrier, sched, remote, used>>
    BY DEF OpenSweep, OpenRest
  <1>2. Types /\ disk.remote \in Nat /\ (disk.remote + 1)..disk.local \subseteq disk.rows
    BY SchedulerFacts DEF WbInv, Watermarks
  <1>3. /\ disk' \in Disks /\ disk'.blobs = Swept(disk.remote) /\ disk'.rows = disk.rows
        /\ disk'.local = disk.local /\ disk'.remote = disk.remote
    BY <1>1, <1>2, SweptContainers, OnlyContainers
  <1>4. \A c \in disk.blobs : c.last > disk.remote /\ c.state = "whole" => Stays(c)
    BY <1>2, <1>3, SweptContainers DEF Stays
  <1>5. \A d \in disk'.blobs : \E c \in disk.blobs : d.first = c.first /\ d.last = c.last
    BY <1>2, <1>3, SweptContainers
  <1>. QED
    BY <1>1, <1>2, <1>3, <1>4, <1>5, RecoveryStep

LEMMA OpenPruneKeeps ==
    ASSUME WbInv, OpenPrune
    PROVE  WbInv'
  <1>1. /\ proc = "pruning" /\ proc' = "checking"
        /\ disk' = [Pruned(disk.remote) EXCEPT !.blobs = {c \in @ : c.last > disk.remote}]
        /\ UNCHANGED <<log, overlay, drain, barrier, sched, remote, used>>
    BY DEF OpenPrune, OpenRest
  <1>2. PICK p \in Disks : /\ p = Pruned(disk.remote) /\ p.local = disk.local /\ p.remote = disk.remote
                           /\ p.rows = {s \in disk.rows : s > disk.remote}
                           /\ p.blobs = {c \in disk.blobs : c.state # "unlinked"}
                           /\ p.rows = (disk.remote + 1)..disk.local
    BY PrunedDisk
  <1>3. PICK X : X = {c \in p.blobs : c.last > disk.remote}
    OBVIOUS
  <1>4. disk' = [p EXCEPT !.blobs = X]
    BY <1>1, <1>2, <1>3
  <1>5. X \subseteq Containers
    BY <1>2, <1>3 DEF Disks
  <1>6. disk' \in Disks /\ disk'.local = p.local /\ disk'.remote = p.remote /\ disk'.rows = p.rows /\ disk'.blobs = X
    BY <1>2, <1>4, <1>5 DEF Disks
  <1>7. \A c \in disk.blobs : c.last > disk.remote /\ c.state = "whole" => Stays(c)
    BY <1>2, <1>3, <1>6 DEF Stays
  <1>8. \A d \in disk'.blobs : d \in disk.blobs /\ d.last > disk.remote
    BY <1>2, <1>3, <1>6
  <1>. QED
    BY <1>1, <1>2, <1>6, <1>7, <1>8, RecoveryStep

\* The check of recovery finds nothing wrong.
LEMMA NothingWrong ==
    ASSUME WbInv, proc = "checking"
    PROVE  Recoverable
  <1>. DEFINE pending == {s \in disk.rows : s > disk.remote}
  <1>1. /\ Types /\ disk.local \in Nat /\ disk.remote \in Nat /\ disk.remote <= disk.local
        /\ pending = (disk.remote + 1)..disk.local
    BY SchedulerFacts, PrunedDisk
  <1>2. pending \subseteq disk.rows
    OBVIOUS
  <1>3. disk.remote + 1..disk.local = (disk.remote + 1)..disk.local
    OBVIOUS
  <1>. HIDE DEF pending
  <1>4. ASSUME NEW s \in pending, HasPayload(log[s]) PROVE BlobReadable(s)
    <2>1. Kept(s)
      BY <1>1, <1>4 DEF WbInv, Payloads
    <2>. QED
      BY <1>2, <2>1 DEF Kept, BlobReadable, Holds
  <1>5. ASSUME NEW c \in disk.blobs PROVE \E s \in pending : HasPayload(log[s]) /\ s \in c.first..c.last
    <2>1. EndOf(c) /\ c.first \in Nat /\ c.last \in Nat
      BY <1>1, DiskTypes DEF WbInv, Endings
    <2>2. /\ c.last \in pending /\ HasPayload(log[c.last]) /\ c.last \in c.first..c.last
      BY <1>1, <2>1 DEF EndOf
    <2>. QED
      BY <2>2
  <1>. QED
    BY <1>1, <1>3, <1>4, <1>5 DEF Recoverable, pending

LEMMA ReopenKeeps ==
    ASSUME WbInv, Reopen
    PROVE  WbInv'
  <1>1. /\ proc = "checking" /\ proc' = "up" /\ overlay' = [s \in disk.rows |-> "journal"]
        /\ drain' = [drain EXCEPT !.admitted = disk.local] /\ barrier' = disk.local
        /\ sched' = Idle(disk.remote + 1) /\ UNCHANGED <<log, disk, failed, remote, used>>
    BY NothingWrong DEF Reopen
  <1>2. /\ Types /\ disk.local \in Nat /\ disk.remote \in Nat /\ disk.remote + 1 \in Nat /\ drain \in Drainings
        /\ Len(log) \in Nat /\ DOMAIN log = 1..Len(log)
    BY SchedulerFacts, LogTypes, DrainTypes
  <1>3. Watermarks /\ drain.batches = <<>> /\ disk.rows \subseteq DOMAIN log
    BY <1>1, <1>2 DEF WbInv, Draining, Watermarks
  <1>4. drain' \in Drainings /\ drain'.batches = <<>> /\ drain'.admitted = disk.local
    BY <1>1, <1>2, <1>3 DEF Drainings
  <1>5. /\ sched' \in Schedules /\ sched'.window = {} /\ sched'.active = {} /\ sched'.done = {}
        /\ sched'.commit = "idle" /\ sched'.next = disk.remote + 1
    BY <1>1, <1>2, IdleTypes
  <1>6. Types'
    BY <1>1, <1>2, <1>3, <1>4, <1>5 DEF Types
  <1>7. Watermarks'
    BY <1>1, <1>2, <1>3 DEF Watermarks
  <1>8. DOMAIN drain'.batches = {} /\ Len(drain'.batches) = 0
    BY <1>4, EmptyDrain
  <1>9. Draining'
    <2>1. Len(drain.batches)' + 1 = 1
      BY <1>8
    <2>. QED
      BY <1>1, <1>3, <1>4, <1>8, <2>1 DEF Draining, Before, Watermarks
  <1>10. Payloads'
    BY <1>1, <1>8 DEF WbInv, Payloads, Kept, Holds
  <1>11. Endings'
    BY <1>1 DEF WbInv, Endings, EndOf
  <1>12. Scheduling'
    BY <1>1, <1>5 DEF Scheduling
  <1>. QED
    BY <1>6, <1>7, <1>9, <1>10, <1>11, <1>12 DEF WbInv

-----------------------------------------------------------------------------
(* The theorems *)

LEMMA InitHolds ==
    ASSUME Init
    PROVE  WbInv
  <1>1. disk \in Disks
    <2>1. [k \in Key |-> NoVersion] \in [Key -> [seq : Nat, tag : Value]]
      BY DEF NoVersion, Value
    <2>. QED
      BY <2>1 DEF Init, Disks
  <1>2. /\ disk.rows = {} /\ disk.local = 0 /\ disk.remote = 0 /\ disk.blobs = {} /\ barrier = 0 /\ proc = "up"
        /\ log = <<>> /\ overlay = <<>>
    BY DEF Init
  <1>3. /\ drain \in Drainings /\ drain.batches = <<>> /\ drain.admitted = 0 /\ DOMAIN drain.batches = {}
        /\ Len(drain.batches) = 0
    BY EmptyDrain DEF Init
  <1>4. /\ sched \in Schedules /\ sched.window = {} /\ sched.active = {} /\ sched.done = {}
        /\ sched.commit = "idle" /\ sched.next = 1
    BY IdleTypes DEF Init
  <1>5. log \in Seq(Mutation) /\ Len(log) = 0 /\ DOMAIN log = {} /\ DOMAIN overlay = {}
    BY <1>2
  <1>6. used \in Uses /\ used.ops = 0
    BY DEF Init, Uses
  <1>7. remote \in [Key -> Value]
    BY DEF Init, Value
  <1>8. Types
    BY <1>1, <1>2, <1>3, <1>4, <1>5, <1>6, <1>7, Constants DEF Types
  <1>9. Watermarks /\ Payloads /\ Endings /\ Scheduling
    BY <1>2, <1>3, <1>4, <1>5 DEF Watermarks, Payloads, Endings, Scheduling
  <1>10. Draining
    BY <1>2, <1>3, <1>5 DEF Draining, Before
  <1>. QED
    BY <1>8, <1>9, <1>10 DEF WbInv

LEMMA StepHolds ==
    ASSUME WbInv, [Next]_vars
    PROVE  WbInv'
  <1>1. CASE FaultStep
    BY <1>1, StageFailsKeeps, CommitFailsKeeps, MarkFailsKeeps, UploadFailsKeeps, CrashKeeps DEF FaultStep
  <1>2. CASE OpenStep
    BY <1>2, RemoveUncommittedKeeps, OpenSweepKeeps, OpenPruneKeeps, ReopenKeeps DEF OpenStep
  <1>3. CASE UNCHANGED vars
    BY <1>3 DEF vars, WbInv, Types, Watermarks, Draining, BatchOf, Batch, Before, Payloads, Kept, Holds,
                InContainer, Within, Endings, EndOf, Scheduling
  <1>. QED
    BY <1>1, <1>2, <1>3, ClientsKeep, JournalerStepsKeep, RemoteKeeps DEF Next

\* The inductive invariant holds: the watermarks, the batches in flight, the
\* containers and the scheduler fit together at every step of run_journaler,
\* run_remote_scheduler and Journal::open, and after a crash between any two.
THEOREM WritebackInvariant == Spec => []WbInv
  BY InitHolds, StepHolds, PTL DEF Spec

\* Every variable keeps its type: in particular the watermarks and the barrier
\* never pass the end of the log.
THEOREM WritebackTypes == Spec => []TypeOK
  <1>1. ASSUME WbInv PROVE TypeOK
    <2>1. /\ Types /\ Watermarks /\ Draining /\ log \in Seq(Mutation) /\ Len(log) \in Nat /\ DOMAIN log = 1..Len(log)
          /\ used.ops \in Nat /\ MaxOps \in Nat
      BY <1>1, LogTypes, Constants DEF WbInv
    <2>2. Len(log) <= MaxOps
      BY <2>1 DEF Types
    <2>3. /\ disk.local \in Nat /\ disk.remote \in Nat /\ drain.admitted \in Nat /\ barrier \in Nat
          /\ disk.blobs \subseteq Containers
      BY <2>1, DiskTypes, DrainTypes DEF Types
    <2>4. disk.rows \subseteq DOMAIN log /\ {disk.local, disk.remote, barrier, drain.admitted} \subseteq 0..Len(log)
      BY <2>1, <2>3 DEF Watermarks, Draining
    <2>5. \A c \in disk.blobs : c.state \in {"torn", "whole", "unlinked"}
      BY <2>3 DEF Containers
    <2>6. drain.state \in {"up", "failing", "failed"} /\ sched.mode \in {"wait", "run", "stopped"}
      BY <2>1 DEF Types, Drainings, Schedules
    <2>. QED
      BY <2>1, <2>2, <2>4, <2>5, <2>6 DEF TypeOK, Types, Value
  <1>. QED
    BY <1>1, WritebackInvariant, PTL

\* Whatever was in flight when the process died, and however often it dies again
\* while it recovers, validate_recovery_state finds no hole between the
\* watermarks, no missing payload and no stray container: the journal opens.
THEOREM JournalOpens == Spec => []RecoveryOpens
  <1>1. ASSUME WbInv PROVE RecoveryOpens
    BY <1>1 DEF WbInv, Types, RecoveryOpens
  <1>. QED
    BY <1>1, WritebackInvariant, PTL

-----------------------------------------------------------------------------
(* What readers and the remote store see *)

Touching(S, k) == {s \in S : k \in Touched(log[s])}
Pending == (disk.remote + 1)..disk.local

(* A mutation was valid when it was accepted: the log itself tells.         *)
FollowsFrom(m, s) ==
    IF m.seq = 0 THEN m.tag = View(1..(s - 1), m.key)
    ELSE m.seq \in Touching(1..(s - 1), m.key) /\ \A t \in Touching(1..(s - 1), m.key) : t <= m.seq
Valid(m, s) ==
    /\ m.kind = "create" => m.src = NoKey /\ View(1..(s - 1), m.key) = Absent
    /\ m.kind = "update" => m.key \in FenceKey /\ View(1..(s - 1), m.key) # Absent /\ FollowsFrom(m, s)
    /\ m.kind = "delete" => m.val = Absent
    /\ m.kind = "rename" => m.src \in Key /\ m.src # m.key
Accepted == \A s \in DOMAIN log : Valid(log[s], s)

(* The overlay has what is not yet remote, but for what was withdrawn, and   *)
(* what it has is readable.                                                 *)
Readable(s) ==
    /\ overlay[s] = "journal" => s <= disk.local
    /\ s <= disk.local => s \in disk.rows /\ (HasPayload(log[s]) => Kept(s))
Overlaid ==
    /\ proc = "up" => (disk.remote + 1)..Len(log) \subseteq DOMAIN overlay \cup failed
    /\ proc = "up" => \A s \in DOMAIN overlay : s..Len(log) \subseteq DOMAIN overlay \cup failed
    /\ DOMAIN overlay \cap failed = {}
    /\ failed \subseteq (disk.local + 1)..Len(log)
    /\ failed # {} => drain.state = "failed"
    /\ drain.state = "failed" => drain.batches = <<>>
    /\ \A s \in DOMAIN overlay : Readable(s)
    /\ sched.commit \in {"retired", "swept", "pruned"} => \A s \in DOMAIN overlay : s > disk.remote
    /\ \A s \in disk.rows : s..disk.local \subseteq disk.rows
    /\ proc # "up" => DOMAIN overlay = {} /\ Len(log) = disk.local
    /\ proc = "checking" => \A s \in disk.rows : s > disk.remote

(* The remote store holds the records up to the watermark.  Ahead of it are  *)
(* the next record, done or half done, and new immutable objects that no     *)
(* record before them touches.                                              *)
Base(k) == View(1..disk.remote, k)
Ahead(s) ==
    \/ s = disk.remote + 1
    \/ ImmutableCreate(log[s]) /\ \A t \in (disk.remote + 1)..(s - 1) : Touched(log[t]) \cap Touched(log[s]) = {}
Settled(s) == \A k \in Touched(log[s]) : remote[k] = Effect(log[s], k)
Untouched(s) == \A k \in Touched(log[s]) : remote[k] = Base(k)
Half(s) == log[s].kind = "rename" /\ remote[log[s].key] = log[s].val /\ remote[log[s].src] = Base(log[s].src)
Mirrored ==
    /\ \A k \in Key : (\A s \in Pending : Ahead(s) => k \notin Touched(log[s])) => remote[k] = Base(k)
    /\ \A s \in Pending : Ahead(s) => Settled(s) \/ Untouched(s) \/ Half(s)

(* What the scheduler is uploading, has uploaded and is marking.            *)
Uploading ==
    /\ sched.next <= disk.remote + 1
    /\ \A s \in sched.active : s > disk.remote /\ Ahead(s)
    /\ \A s \in sched.done : s > disk.remote => Ahead(s) /\ Settled(s)
    /\ sched.active \cap sched.done = {}
    /\ sched.commit # "idle" => sched.next <= sched.last /\ sched.next..sched.last \subseteq sched.done

(* The version kept of a fenced object is that of the last record up to the  *)
(* watermark.                                                               *)
VersionOf(k) ==
    IF Base(k) = Absent THEN NoVersion
    ELSE [seq |-> Max(Touching(1..disk.remote, k)), tag |-> Base(k)]
Versioned == \A k \in FenceKey : disk.versions[k] = VersionOf(k)

SeenInv == Accepted /\ Overlaid /\ Mirrored /\ Uploading /\ Versioned /\ NoFalseDivergence

\* The view of a set of records is what the last of them leaves.
LEMMA ViewAt ==
    ASSUME Types, NEW S, S \subseteq DOMAIN log, NEW k, NEW s \in Touching(S, k), \A t \in Touching(S, k) : t <= s
    PROVE  View(S, k) = Effect(log[s], k) /\ Max(Touching(S, k)) = s
  <1>1. Touching(S, k) \subseteq Nat /\ Touching(S, k) # {} /\ s \in Nat
    BY LogTypes DEF Touching
  <1>2. Max(Touching(S, k)) \in Touching(S, k) /\ \A t \in Touching(S, k) : t <= Max(Touching(S, k))
    BY <1>1, GreatestElement
  <1>3. Max(Touching(S, k)) = s
    BY <1>1, <1>2
  <1>. QED
    BY <1>1, <1>3 DEF View, Touching

LEMMA ViewLast ==
    ASSUME Types, NEW S, S \subseteq DOMAIN log, NEW k, Touching(S, k) # {}
    PROVE  \E s \in Touching(S, k) : \A t \in Touching(S, k) : t <= s
  <1>1. Touching(S, k) \subseteq Nat /\ Len(log) \in Nat /\ \A t \in Touching(S, k) : t <= Len(log)
    BY LogTypes DEF Touching
  <1>. QED
    BY <1>1, GreatestElement

LEMMA ViewNothing ==
    ASSUME NEW S, NEW k, Touching(S, k) = {}
    PROVE  View(S, k) = Absent
  BY DEF View, Touching

LEMMA ViewSame ==
    ASSUME NEW S, NEW T, NEW k, Touching(S, k) = Touching(T, k)
    PROVE  View(S, k) = View(T, k)
  BY DEF View, Touching

\* A step that keeps records keeps what they come to.
LEMMA ViewKept ==
    ASSUME Types, NEW S, S \subseteq DOMAIN log, \A s \in S : log'[s] = log[s], NEW k
    PROVE  View(S, k)' = View(S, k) /\ Touching(S, k)' = Touching(S, k)
  <1>1. {s \in S : k \in Touched(log'[s])} = {s \in S : k \in Touched(log[s])}
    OBVIOUS
  <1>. DEFINE on == {s \in S : k \in Touched(log[s])}
  <1>2. View(S, k) = IF on = {} THEN Absent ELSE Effect(log[Max(on)], k)
    BY DEF View
  <1>3. View(S, k)' = IF on = {} THEN Absent ELSE Effect(log'[Max(on)], k)
    BY <1>1 DEF View
  <1>4. ASSUME on # {} PROVE log'[Max(on)] = log[Max(on)]
    <2>1. on \subseteq DOMAIN log
      OBVIOUS
    <2>2. Max(on) \in on
      BY <1>4, <2>1, LastOf
    <2>. QED
      BY <2>2
  <1>. QED
    BY <1>1, <1>2, <1>3, <1>4 DEF Touching

\* The records up to the local watermark stay, and the remote watermark too.
RecordsStay == disk'.remote = disk.remote /\ \A s \in 1..disk.local : log'[s] = log[s]

LEMMA BaseFrame ==
    ASSUME WbInv, RecordsStay
    PROVE  /\ \A k : Base(k)' = Base(k) /\ Touching(1..disk.remote, k)' = Touching(1..disk.remote, k)
           /\ \A s \in 1..disk.local : Ahead(s)' <=> Ahead(s)
  <1>1. /\ Types /\ disk.remote \in Nat /\ disk.local \in Nat /\ disk.remote <= disk.local
        /\ 1..disk.local \subseteq DOMAIN log
    BY SchedulerFacts
  <1>2. ASSUME NEW k PROVE Base(k)' = Base(k) /\ Touching(1..disk.remote, k)' = Touching(1..disk.remote, k)
    <2>1. PICK S : S = 1..disk.remote
      OBVIOUS
    <2>2. S \subseteq DOMAIN log /\ \A s \in S : log'[s] = log[s]
      BY <1>1, <2>1 DEF RecordsStay
    <2>3. View(S, k)' = View(S, k) /\ Touching(S, k)' = Touching(S, k)
      BY <1>1, <2>2, ViewKept
    <2>4. S = 1..disk'.remote
      BY <2>1 DEF RecordsStay
    <2>5. Base(k)' = View(S, k)'
      BY <2>4 DEF Base, View
    <2>6. Touching(1..disk.remote, k)' = Touching(S, k)'
      BY <2>4 DEF Touching
    <2>. QED
      BY <2>1, <2>3, <2>5, <2>6 DEF Base
  <1>3. ASSUME NEW s \in 1..disk.local PROVE Ahead(s)' <=> Ahead(s)
    <2>1. \A t \in (disk.remote + 1)..(s - 1) : log'[t] = log[t]
      BY <1>1 DEF RecordsStay
    <2>2. log'[s] = log[s] /\ disk'.remote = disk.remote
      BY DEF RecordsStay
    <2>. QED
      BY <2>1, <2>2 DEF Ahead
  <1>. QED
    BY <1>2, <1>3

LEMMA StoreFrame ==
    ASSUME WbInv, RecordsStay, remote' = remote, NEW s \in 1..disk.local
    PROVE  (Settled(s)' <=> Settled(s)) /\ (Untouched(s)' <=> Untouched(s)) /\ (Half(s)' <=> Half(s))
  <1>1. log'[s] = log[s] /\ \A k : Base(k)' = Base(k)
    BY BaseFrame DEF RecordsStay
  <1>2. Settled(s)' <=> Settled(s)
    BY <1>1 DEF Settled
  <1>3. Untouched(s)' <=> Untouched(s)
    BY <1>1 DEF Untouched
  <1>4. Half(s)' <=> Half(s)
    <2>1. PICK k : k = log[s].src
      OBVIOUS
    <2>2. Base(log[s].src)' = Base(k)'
      BY <1>1, <2>1 DEF Base, View
    <2>. QED
      BY <1>1, <2>1, <2>2 DEF Half
  <1>. QED
    BY <1>2, <1>3, <1>4

LEMMA PendingFacts ==
    ASSUME WbInv
    PROVE  Pending \subseteq 1..disk.local /\ \A s \in Pending : s \in Nat /\ s > disk.remote /\ s <= disk.local
  BY SchedulerFacts DEF Pending

LEMMA MirroredKept ==
    ASSUME WbInv, Mirrored, RecordsStay, remote' = remote, disk'.local = disk.local
    PROVE  Mirrored'
  <1>1. Pending' = Pending /\ Pending \subseteq 1..disk.local
    BY PendingFacts DEF Pending, RecordsStay
  <1>2. \A k : Base(k)' = Base(k)
    BY BaseFrame
  <1>3. \A s \in Pending : (Ahead(s)' <=> Ahead(s)) /\ log'[s] = log[s]
    BY <1>1, BaseFrame DEF RecordsStay
  <1>4. \A s \in Pending : (Settled(s)' <=> Settled(s)) /\ (Untouched(s)' <=> Untouched(s)) /\ (Half(s)' <=> Half(s))
    BY <1>1, StoreFrame
  <1>5. ASSUME NEW k \in Key, \A s \in Pending : Ahead(s)' => k \notin Touched(log'[s]) PROVE remote'[k] = Base(k)'
    BY <1>2, <1>3, <1>5 DEF Mirrored
  <1>6. ASSUME NEW s \in Pending, Ahead(s)' PROVE Settled(s)' \/ Untouched(s)' \/ Half(s)'
    BY <1>3, <1>4, <1>6 DEF Mirrored
  <1>. QED
    BY <1>1, <1>5, <1>6 DEF Mirrored

LEMMA UploadingKept ==
    ASSUME WbInv, Uploading, RecordsStay, remote' = remote, sched' = sched
    PROVE  Uploading'
  <1>1. sched.active \subseteq 1..disk.local /\ sched.done \subseteq 1..disk.local
    BY SchedulerFacts
  <1>2. \A s \in 1..disk.local : (Ahead(s)' <=> Ahead(s)) /\ (Settled(s)' <=> Settled(s))
    BY BaseFrame, StoreFrame
  <1>. QED
    BY <1>1, <1>2 DEF Uploading, RecordsStay

LEMMA VersionedKept ==
    ASSUME WbInv, Versioned, RecordsStay, disk'.versions = disk.versions
    PROVE  Versioned'
  <1>1. \A k : Base(k)' = Base(k) /\ Touching(1..disk.remote, k)' = Touching(1..disk.remote, k)
    BY BaseFrame
  <1>2. ASSUME NEW k PROVE VersionOf(k)' = VersionOf(k)
    BY <1>1 DEF VersionOf
  <1>. QED
    BY <1>2 DEF Versioned

\* The log is the same or longer, or a crash cut it at the local watermark.
LEMMA ValidKept ==
    ASSUME Types, NEW s \in DOMAIN log, \A t \in 1..s : log'[t] = log[t], Valid(log[s], s)
    PROVE  Valid(log[s], s)'
  <1>1. s \in Nat \ {0} /\ 1..(s - 1) \subseteq DOMAIN log /\ log'[s] = log[s] /\ \A t \in 1..(s - 1) : log'[t] = log[t]
    BY LogTypes
  <1>2. PICK m, S, k : m = log[s] /\ S = 1..(s - 1) /\ k = m.key
    OBVIOUS
  <1>3. View(S, k)' = View(S, k) /\ Touching(S, k)' = Touching(S, k)
    BY <1>1, <1>2, ViewKept
  <1>4. View(1..(s - 1), m.key)' = View(1..(s - 1), m.key) /\ Touching(1..(s - 1), m.key)' = Touching(1..(s - 1), m.key)
    BY <1>2, <1>3
  <1>5. Valid(m, s)' <=> Valid(m, s)
    BY <1>4 DEF Valid, FollowsFrom
  <1>6. Valid(log[s], s)' <=> Valid(m, s)'
    BY <1>1, <1>2 DEF Valid, FollowsFrom, View, Touching
  <1>. QED
    BY <1>2, <1>5, <1>6

LEMMA AcceptedKept ==
    ASSUME WbInv, WbInv', Accepted, DOMAIN log' \subseteq DOMAIN log, \A s \in DOMAIN log' : log'[s] = log[s]
    PROVE  Accepted'
  <1>1. Types /\ Types'
    BY DEF WbInv
  <1>2. Len(log') \in Nat /\ DOMAIN log' = 1..Len(log')
    BY <1>1, LenProperties DEF Types
  <1>3. ASSUME NEW s \in DOMAIN log' PROVE Valid(log[s], s)'
    <2>1. \A t \in 1..s : log'[t] = log[t]
      BY <1>2
    <2>2. Valid(log[s], s) /\ s \in DOMAIN log
      BY DEF Accepted
    <2>. QED
      BY <1>1, <2>1, <2>2, ValidKept
  <1>. QED
    BY <1>3 DEF Accepted

-----------------------------------------------------------------------------
(* What the invariant says of readers, of a crash and of the remote store *)

\* What the remote store shows of a key that no pending record touches.
LEMMA RemoteIsBase ==
    ASSUME WbInv, Mirrored, NEW k \in Key, Touching(Pending, k) = {}
    PROVE  remote[k] = Base(k)
  BY DEF Mirrored, Touching

\* The view of what was not withdrawn, for a key that no pending record touches.
LEMMA ViewIsBase ==
    ASSUME WbInv, Overlaid, NEW k, Touching((disk.remote + 1)..Len(log), k) \subseteq failed
    PROVE  View(DOMAIN log \ failed, k) = Base(k)
  <1>1. /\ disk.remote \in Nat /\ disk.local \in Nat /\ disk.remote <= disk.local /\ disk.local <= Len(log)
        /\ Len(log) \in Nat /\ DOMAIN log = 1..Len(log) /\ failed \subseteq (disk.local + 1)..Len(log)
    BY SchedulerFacts, LogTypes DEF WbInv, Watermarks, Overlaid
  <1>2. Touching(DOMAIN log \ failed, k) = Touching(1..disk.remote, k)
    BY <1>1 DEF Touching
  <1>. QED
    BY <1>2, ViewSame DEF Base

\* A payload that the overlay says is in the journal is found there.
LEMMA EntryReadable ==
    ASSUME WbInv, Overlaid, Accepted, NEW s \in DOMAIN overlay, NEW k, Effect(log[s], k) # Absent
    PROVE  /\ log[s].val = Effect(log[s], k) /\ HasPayload(log[s])
           /\ overlay[s] = "memory" \/ BlobReadable(s)
  <1>1. Types /\ s \in DOMAIN log /\ overlay[s] \in {"memory", "journal"} /\ Readable(s) /\ Valid(log[s], s)
    BY DEF WbInv, Types, Overlaid, Accepted
  <1>2. log[s].key = k /\ log[s].val = Effect(log[s], k)
    BY DEF Effect
  <1>3. HasPayload(log[s])
    BY <1>1, <1>2 DEF Valid, HasPayload
  <1>4. overlay[s] = "journal" => BlobReadable(s)
    BY <1>1, <1>3 DEF Readable, Kept, Holds, BlobReadable
  <1>. QED
    BY <1>1, <1>2, <1>3, <1>4

\* The newest entry of the overlay, or else the remote store, has what was written last.
LEMMA NewestIsCurrent ==
    ASSUME WbInv, SeenInv, proc = "up", NEW k \in Key
    PROVE  LET on == {s \in DOMAIN overlay : k \in Touched(log[s])}
           IN  /\ on = {} => Current(k) = remote[k]
               /\ on # {} => Max(on) \in on /\ Current(k) = Effect(log[Max(on)], k)
  <1>. DEFINE on == {s \in DOMAIN overlay : k \in Touched(log[s])}
  <1>1. /\ Overlaid /\ Accepted /\ Mirrored /\ Types
    BY DEF SeenInv, WbInv
  <1>2. /\ disk.remote \in Nat /\ disk.local \in Nat /\ disk.remote <= disk.local /\ disk.local <= Len(log)
        /\ Len(log) \in Nat /\ DOMAIN log = 1..Len(log) /\ failed \subseteq (disk.local + 1)..Len(log)
        /\ DOMAIN overlay \subseteq DOMAIN log /\ DOMAIN overlay \cap failed = {}
    BY <1>1, SchedulerFacts, LogTypes DEF WbInv, Watermarks, Overlaid, Types
  <1>4. (disk.remote + 1)..Len(log) \subseteq DOMAIN overlay \cup failed
    BY <1>1 DEF Overlaid
  <1>5. CASE on = {}
    <2>1. Touching((disk.remote + 1)..Len(log), k) \subseteq failed
      BY <1>4, <1>5 DEF Touching
    <2>2. Touching(Pending, k) = {}
      BY <1>2, <2>1 DEF Touching, Pending
    <2>. QED
      BY <1>1, <1>5, <2>1, <2>2, ViewIsBase, RemoteIsBase DEF Current
  <1>6. CASE on # {}
    <2>1. on \subseteq Nat /\ \A t \in on : t <= Len(log)
      BY <1>2
    <2>2. Max(on) \in on /\ \A t \in on : t <= Max(on)
      BY <1>2, <1>6, <2>1, GreatestElement
    <2>3. PICK s \in on : s = Max(on)
      BY <2>2
    <2>4. s \in DOMAIN overlay /\ k \in Touched(log[s]) /\ s \in Nat /\ \A t \in on : t <= s
      BY <2>1, <2>2, <2>3
    <2>5. s..Len(log) \subseteq DOMAIN overlay \cup failed
      BY <1>1, <2>4 DEF Overlaid
    <2>6. s \in Touching(DOMAIN log \ failed, k)
      BY <1>2, <2>4 DEF Touching
    <2>7. ASSUME NEW t \in Touching(DOMAIN log \ failed, k) PROVE t <= s
      <3>. SUFFICES ASSUME t > s PROVE FALSE
        BY <1>2, <2>4 DEF Touching
      <3>1. t \in s..Len(log) /\ t \notin failed /\ k \in Touched(log[t])
        BY <1>2, <2>4 DEF Touching
      <3>2. t \in on
        BY <2>5, <3>1
      <3>. QED
        BY <1>2, <2>4, <3>2
    <2>8. Current(k) = Effect(log[s], k)
      BY <1>1, <2>6, <2>7, ViewAt DEF Current
    <2>. HIDE DEF on
    <2>9. Max(on) \in on /\ Current(k) = Effect(log[Max(on)], k)
      BY <2>2, <2>3, <2>8
    <2>. QED
      BY <1>6, <2>9 DEF on
  <1>. QED
    BY <1>5, <1>6

LEMMA ReadersSeeLatest ==
    ASSUME WbInv, SeenInv, proc = "up", NEW k \in Key
    PROVE  Visible(k) = View(DOMAIN log \ failed, k)
  <1>. DEFINE on == {s \in DOMAIN overlay : k \in Touched(log[s])}
  <1>1. Visible(k) = IF on = {} THEN remote[k] ELSE IF Effect(log[Max(on)], k) = Absent THEN Absent
                     ELSE IF overlay[Max(on)] = "memory" \/ BlobReadable(Max(on)) THEN log[Max(on)].val ELSE Lost
    BY DEF Visible
  <1>2. /\ on = {} => Current(k) = remote[k]
        /\ on # {} => Max(on) \in on /\ Current(k) = Effect(log[Max(on)], k)
    BY NewestIsCurrent
  <1>3. ASSUME NEW s \in on, Effect(log[s], k) # Absent
        PROVE  log[s].val = Effect(log[s], k) /\ (overlay[s] = "memory" \/ BlobReadable(s))
    BY <1>3, EntryReadable DEF SeenInv
  <1>. HIDE DEF on
  <1>. QED
    BY <1>1, <1>2, <1>3 DEF Current

LEMMA CrashShowsAnswers ==
    ASSUME WbInv, SeenInv, proc = "up", NEW k \in Key,
           \A s \in DOMAIN log : k \in Touched(log[s]) => s <= disk.local \/ s \in failed
    PROVE  AfterCrash(k) = Visible(k)
  <1>. DEFINE on == {s \in disk.rows : s > disk.remote /\ k \in Touched(log[s])}
  <1>1. /\ Overlaid /\ Accepted /\ Mirrored /\ Types
    BY DEF SeenInv, WbInv
  <1>2. /\ disk.remote \in Nat /\ disk.local \in Nat /\ disk.remote <= disk.local /\ disk.local <= Len(log)
        /\ Len(log) \in Nat /\ DOMAIN log = 1..Len(log) /\ failed \subseteq (disk.local + 1)..Len(log)
    BY <1>1, SchedulerFacts, LogTypes DEF WbInv, Watermarks, Overlaid
  <1>3. AfterCrash(k) = IF on = {} THEN remote[k] ELSE IF Effect(log[Max(on)], k) = Absent THEN Absent
                        ELSE IF BlobReadable(Max(on)) THEN log[Max(on)].val ELSE Lost
    BY DEF AfterCrash
  <1>4. on = Touching(Pending, k)
    <2>1. {s \in disk.rows : s > disk.remote} = Pending
      BY PrunedDisk DEF Pending
    <2>. QED
      BY <2>1 DEF Touching
  <1>5. Visible(k) = View(DOMAIN log \ failed, k)
    BY ReadersSeeLatest
  <1>. HIDE DEF on
  <1>6. CASE on = {}
    <2>1. Touching((disk.remote + 1)..Len(log), k) \subseteq failed
      BY <1>2, <1>4, <1>6 DEF Touching, Pending
    <2>. QED
      BY <1>1, <1>3, <1>4, <1>5, <1>6, <2>1, ViewIsBase, RemoteIsBase
  <1>7. CASE on # {}
    <2>1. on \subseteq Nat /\ \A t \in on : t <= disk.local
      BY <1>2, <1>4 DEF Touching, Pending
    <2>2. PICK s \in on : s = Max(on) /\ \A t \in on : t <= s
      BY <1>2, <1>7, <2>1, GreatestElement
    <2>3. s \in Nat /\ s > disk.remote /\ s <= disk.local /\ k \in Touched(log[s])
      BY <1>2, <1>4, <2>1 DEF Touching, Pending
    <2>4. s \in Touching(DOMAIN log \ failed, k)
      BY <1>2, <2>3 DEF Touching
    <2>5. ASSUME NEW t \in Touching(DOMAIN log \ failed, k) PROVE t <= s
      <3>1. t \in Nat /\ t <= disk.local /\ k \in Touched(log[t])
        BY <1>2 DEF Touching
      <3>2. CASE t > disk.remote
        BY <1>2, <1>4, <2>2, <3>1, <3>2 DEF Touching, Pending
      <3>3. CASE t <= disk.remote
        BY <1>2, <2>3, <3>1, <3>3
      <3>. QED
        BY <1>2, <3>1, <3>2, <3>3
    <2>6. View(DOMAIN log \ failed, k) = Effect(log[s], k)
      BY <1>1, <2>4, <2>5, ViewAt
    <2>7. ASSUME Effect(log[s], k) # Absent PROVE log[s].val = Effect(log[s], k) /\ BlobReadable(s)
      <3>1. log[s].val = Effect(log[s], k) /\ s \in DOMAIN log /\ Valid(log[s], s)
        BY <1>1, <1>2, <2>3, <2>7 DEF Effect, Accepted
      <3>2. HasPayload(log[s])
        BY <2>7, <3>1 DEF Valid, HasPayload
      <3>3. s \in disk.rows /\ Kept(s)
        BY <1>2, <2>3, <3>2 DEF WbInv, Watermarks, Payloads
      <3>. QED
        BY <3>1, <3>3 DEF Kept, Holds, BlobReadable
    <2>. QED
      BY <1>3, <1>5, <1>7, <2>2, <2>6, <2>7
  <1>. QED
    BY <1>6, <1>7

\* A new immutable object touches its own key only.
LEMMA ImmutableTouches ==
    ASSUME Types, Accepted, NEW s \in DOMAIN log, ImmutableCreate(log[s])
    PROVE  Touched(log[s]) = {log[s].key} /\ log[s].key \in DataKey /\ Effect(log[s], log[s].key) = log[s].val
  <1>1. log[s].src = NoKey /\ log[s].key \in Key /\ log[s].key \in DataKey
    BY LogTypes DEF Accepted, Valid, ImmutableCreate
  <1>. QED
    BY <1>1, Constants DEF Touched, Effect

\* No two records ahead of the watermark touch the same key.
LEMMA AheadDisjoint ==
    ASSUME WbInv, NEW s \in Pending, NEW t \in Pending, s # t, Ahead(s), Ahead(t)
    PROVE  Touched(log[s]) \cap Touched(log[t]) = {}
  <1>1. s \in Nat /\ t \in Nat /\ s > disk.remote /\ t > disk.remote /\ disk.remote \in Nat
    BY PendingFacts, SchedulerFacts
  <1>2. ASSUME NEW a \in Nat, NEW b \in Nat, a > disk.remote, a < b, Ahead(b) PROVE Touched(log[a]) \cap Touched(log[b]) = {}
    <2>1. b # disk.remote + 1 /\ a \in (disk.remote + 1)..(b - 1)
      BY <1>1, <1>2
    <2>. QED
      BY <1>2, <2>1 DEF Ahead
  <1>3. CASE s < t
    BY <1>1, <1>2, <1>3
  <1>4. CASE t < s
    BY <1>1, <1>2, <1>4
  <1>. QED
    BY <1>1, <1>3, <1>4

\* One more record in the view.
LEMMA ViewNext ==
    ASSUME WbInv, NEW n \in Nat, n + 1 \in DOMAIN log, NEW k
    PROVE  View(1..(n + 1), k) = IF k \in Touched(log[n + 1]) THEN Effect(log[n + 1], k) ELSE View(1..n, k)
  <1>1. Types /\ 1..(n + 1) \subseteq DOMAIN log
    BY LogTypes DEF WbInv
  <1>2. CASE k \in Touched(log[n + 1])
    <2>1. n + 1 \in Touching(1..(n + 1), k) /\ \A t \in Touching(1..(n + 1), k) : t <= n + 1
      BY <1>2 DEF Touching
    <2>. QED
      BY <1>1, <1>2, <2>1, ViewAt
  <1>3. CASE k \notin Touched(log[n + 1])
    <2>1. Touching(1..(n + 1), k) = Touching(1..n, k)
      BY <1>3 DEF Touching
    <2>. QED
      BY <1>3, <2>1, ViewSame
  <1>. QED
    BY <1>2, <1>3

\* What the remote store shows of k is the view up to j, a new immutable object
\* or the target of a rename that is half done.
Explained(k, j) ==
    \/ remote[k] = View(1..j, k)
    \/ j < Len(log) /\ k \in Touched(log[j + 1]) /\ remote[k] = log[j + 1].val
       /\ log[j + 1].kind = "rename" /\ log[j + 1].key = k
    \/ \E s \in (j + 1)..disk.local : ImmutableCreate(log[s]) /\ log[s].key = k /\ remote[k] = log[s].val

LEMMA RemoteExplained ==
    ASSUME WbInv, SeenInv
    PROVE  RemotePrefix
  <1>. DEFINE f == disk.remote + 1
  <1>1. Types /\ Accepted /\ Mirrored /\ Uploading
    BY DEF WbInv, SeenInv
  <1>2. /\ disk.remote \in Nat /\ disk.local \in Nat /\ disk.remote <= disk.local /\ disk.local <= Len(log)
        /\ Len(log) \in Nat /\ DOMAIN log = 1..Len(log) /\ Pending = f..disk.local /\ Pending \subseteq DOMAIN log
        /\ sched.next \in Nat /\ sched.next <= f
    BY <1>1, SchedulerFacts, LogTypes, SchedTypes DEF WbInv, Watermarks, Pending, Uploading
  <1>3. ASSUME NEW s \in Pending, s # f, Ahead(s), NEW k \in Touched(log[s])
        PROVE  \/ ImmutableCreate(log[s]) /\ log[s].key = k /\ remote[k] = log[s].val
               \/ remote[k] = Base(k)
    <2>1. ImmutableCreate(log[s]) /\ s \in DOMAIN log
      BY <1>2, <1>3 DEF Ahead
    <2>2. k = log[s].key /\ Effect(log[s], k) = log[s].val
      BY <1>1, <1>3, <2>1, ImmutableTouches
    <2>3. Settled(s) \/ Untouched(s)
      BY <1>1, <1>3, <2>1 DEF Mirrored, Half, ImmutableCreate
    <2>. QED
      BY <1>3, <2>1, <2>2, <2>3 DEF Settled, Untouched
  <1>4. CASE f \in Pending /\ Settled(f)
    <2>1. ASSUME NEW k \in Key PROVE Explained(k, f)
      <3>1. View(1..f, k) = IF k \in Touched(log[f]) THEN Effect(log[f], k) ELSE Base(k)
        BY <1>2, <1>4, ViewNext DEF Base
      <3>2. CASE k \in Touched(log[f])
        BY <1>4, <3>1, <3>2 DEF Settled, Explained
      <3>3. CASE k \notin Touched(log[f]) /\ \E s \in Pending : Ahead(s) /\ k \in Touched(log[s])
        <4>1. PICK s \in Pending : Ahead(s) /\ k \in Touched(log[s])
          BY <3>3
        <4>2. s # f /\ s \in (f + 1)..disk.local
          BY <1>2, <3>3, <4>1
        <4>. QED
          BY <1>3, <3>1, <3>3, <4>1, <4>2 DEF Explained
      <3>4. CASE k \notin Touched(log[f]) /\ \A s \in Pending : Ahead(s) => k \notin Touched(log[s])
        BY <1>1, <3>1, <3>4 DEF Mirrored, Explained
      <3>. QED
        BY <3>2, <3>3, <3>4
    <2>2. f \in disk.remote..disk.local /\ sched.next <= f + 1
      BY <1>2, <1>4
    <2>. QED
      BY <2>1, <2>2 DEF RemotePrefix, Explained
  <1>5. CASE ~(f \in Pending /\ Settled(f))
    <2>1. ASSUME NEW k \in Key PROVE Explained(k, disk.remote)
      <3>1. CASE \A s \in Pending : Ahead(s) => k \notin Touched(log[s])
        BY <1>1, <3>1 DEF Mirrored, Explained, Base
      <3>2. CASE \E s \in Pending : Ahead(s) /\ k \in Touched(log[s])
        <4>1. PICK s \in Pending : Ahead(s) /\ k \in Touched(log[s])
          BY <3>2
        <4>2. CASE s # f
          BY <1>2, <1>3, <4>1, <4>2 DEF Explained, Base
        <4>3. CASE s = f
          <5>1. Untouched(f) \/ Half(f)
            BY <1>1, <1>5, <4>1, <4>3 DEF Mirrored
          <5>2. CASE Untouched(f)
            BY <4>1, <4>3, <5>2 DEF Untouched, Explained, Base
          <5>3. CASE Half(f)
            <6>1. k = log[f].key \/ k = log[f].src
              BY <4>1, <4>3 DEF Touched
            <6>2. disk.remote < Len(log)
              BY <1>2, <4>3
            <6>. QED
              BY <4>1, <4>3, <5>3, <6>1, <6>2 DEF Half, Explained, Base
          <5>. QED
            BY <5>1, <5>2, <5>3
        <4>. QED
          BY <4>2, <4>3
      <3>. QED
        BY <3>1, <3>2
    <2>2. disk.remote \in disk.remote..disk.local
      BY <1>2
    <2>. QED
      BY <1>2, <2>1, <2>2 DEF RemotePrefix, Explained
  <1>. QED
    BY <1>4, <1>5

\* Between the watermark and a record ahead of it nothing touches its keys.
LEMMA AheadSeesBase ==
    ASSUME WbInv, NEW s \in Pending, Ahead(s), NEW k \in Touched(log[s])
    PROVE  View(1..(s - 1), k) = Base(k) /\ Touching(1..(s - 1), k) = Touching(1..disk.remote, k)
  <1>1. disk.remote \in Nat /\ s \in Nat /\ s > disk.remote
    BY SchedulerFacts, PendingFacts
  <1>2. \A t \in (disk.remote + 1)..(s - 1) : k \notin Touched(log[t])
    <2>1. CASE s = disk.remote + 1
      BY <1>1, <2>1
    <2>2. CASE s # disk.remote + 1
      BY <2>2 DEF Ahead
    <2>. QED
      BY <2>1, <2>2
  <1>3. Touching(1..(s - 1), k) = Touching(1..disk.remote, k)
    BY <1>1, <1>2 DEF Touching
  <1>. QED
    BY <1>3, ViewSame DEF Base

\* What a conditional update must find is what the records before it left.
LEMMA PredecessorIsBase ==
    ASSUME WbInv, SeenInv, NEW s \in Pending, Ahead(s), log[s].kind = "update"
    PROVE  Predecessor(log[s]) = Base(log[s].key) /\ Base(log[s].key) # Absent
  <1>. DEFINE m == log[s]
              k == log[s].key
  <1>1. Types /\ Accepted /\ Versioned
    BY DEF WbInv, SeenInv
  <1>2. s \in DOMAIN log /\ log[s].key \in Key /\ log[s] \in Mutation
    BY <1>1, PendingFacts, SchedulerFacts, LogTypes
  <1>3. k \in Touched(m)
    BY <1>2, Constants DEF Touched
  <1>4. View(1..(s - 1), k) = Base(k) /\ Touching(1..(s - 1), k) = Touching(1..disk.remote, k)
    BY <1>3, AheadSeesBase
  <1>5. k \in FenceKey /\ View(1..(s - 1), k) # Absent /\ FollowsFrom(m, s)
    BY <1>1, <1>2 DEF Accepted, Valid
  <1>6. CASE m.seq = 0
    BY <1>4, <1>5, <1>6 DEF FollowsFrom, Predecessor
  <1>7. CASE m.seq # 0
    <2>1. m.seq \in Touching(1..disk.remote, k) /\ \A t \in Touching(1..disk.remote, k) : t <= m.seq
      BY <1>4, <1>5, <1>7 DEF FollowsFrom
    <2>2. 1..disk.remote \subseteq DOMAIN log
      BY SchedulerFacts
    <2>3. Max(Touching(1..disk.remote, k)) = m.seq
      BY <1>1, <2>1, <2>2, ViewAt
    <2>4. disk.versions[k] = [seq |-> m.seq, tag |-> Base(k)]
      BY <1>1, <1>4, <1>5, <2>3 DEF Versioned, VersionOf
    <2>. QED
      BY <1>4, <1>5, <1>7, <2>4 DEF Predecessor
  <1>. QED
    BY <1>6, <1>7

LEMMA UploadAgrees ==
    ASSUME WbInv, SeenInv, NEW s \in Pending, Ahead(s)
    PROVE  Outcome(s) # "diverged"
  <1>. DEFINE m == log[s]
              k == log[s].key
  <1>1. Types /\ Accepted /\ Mirrored
    BY DEF WbInv, SeenInv
  <1>2. s \in DOMAIN log /\ log[s].key \in Key /\ log[s] \in Mutation
    BY <1>1, PendingFacts, SchedulerFacts, LogTypes
  <1>3. k \in Touched(m) /\ Effect(m, k) = m.val
    BY <1>2, Constants DEF Touched, Effect
  <1>4. m.kind # "rename" => remote[k] \in {Base(k), m.val}
    BY <1>1, <1>3 DEF Mirrored, Settled, Untouched, Half
  <1>5. CASE m.kind = "create"
    <2>1. Base(k) = Absent
      BY <1>1, <1>2, <1>3, <1>5, AheadSeesBase DEF Accepted, Valid
    <2>. QED
      BY <1>4, <1>5, <2>1 DEF Outcome
  <1>6. CASE m.kind = "update"
    <2>1. Predecessor(m) = Base(k) /\ Base(k) # Absent
      BY <1>6, PredecessorIsBase
    <2>. QED
      BY <1>4, <1>6, <2>1 DEF Outcome
  <1>7. CASE m.kind \notin {"create", "update"}
    BY <1>7 DEF Outcome
  <1>. QED
    BY <1>5, <1>6, <1>7

\* The window is never found corrupt.
LEMMA WindowIsValid ==
    ASSUME WbInv, Overlaid, Uploading
    PROVE  WindowValid
  <1>. DEFINE from == {s \in disk.rows : s >= sched.next}
  <1>1. /\ Types /\ disk.local \in Nat /\ disk.remote \in Nat /\ disk.remote <= disk.local
        /\ disk.rows \subseteq 1..disk.local /\ (disk.remote + 1)..disk.local \subseteq disk.rows
        /\ sched.next \in Nat /\ sched.next <= disk.remote + 1
        /\ \A s \in disk.rows : s..disk.local \subseteq disk.rows
    BY SchedulerFacts, SchedTypes DEF WbInv, Watermarks, Overlaid, Uploading
  <1>2. WindowSize \in Nat \ {0}
    BY WritebackBounds DEF WindowSize
  <1>3. Window = {s \in from : Cardinality({t \in from : t < s}) < WindowSize}
    BY DEF Window
  <1>4. from \subseteq Nat /\ from \subseteq 1..disk.local /\ \A s \in from : s..disk.local \subseteq from
    BY <1>1
  <1>5. disk.remote < disk.local => disk.remote + 1 \in from
    BY <1>1
  <1>. HIDE DEF from
  <1>6. IsFiniteSet(1..disk.local)
    <2>1. 1 \in Int /\ disk.local \in Int
      BY <1>1
    <2>. QED
      BY <2>1, FS_Interval
  <1>7. ASSUME NEW s \in Window, NEW t \in from, t < s PROVE t \in Window
    <2>1. {u \in from : u < t} \subseteq {u \in from : u < s}
      <3>1. s \in Nat /\ t \in Nat
        BY <1>3, <1>4
      <3>2. \A u \in from : u \in Nat /\ (u < t => u < s)
        BY <1>4, <1>7, <3>1
      <3>. QED
        BY <3>2
    <2>2. IsFiniteSet({u \in from : u < s})
      <3>1. {u \in from : u < s} \subseteq 1..disk.local
        BY <1>4
      <3>. QED
        BY <1>6, <3>1, FS_Subset
    <2>3. /\ Cardinality({u \in from : u < t}) <= Cardinality({u \in from : u < s})
          /\ IsFiniteSet({u \in from : u < t})
      BY <2>1, <2>2, FS_Subset
    <2>4. Cardinality({u \in from : u < t}) \in Nat /\ Cardinality({u \in from : u < s}) \in Nat
      BY <2>2, <2>3, FS_CardinalityType
    <2>5. Cardinality({u \in from : u < s}) < WindowSize
      BY <1>3
    <2>6. Cardinality({u \in from : u < t}) < WindowSize
      BY <1>2, <2>3, <2>4, <2>5
    <2>. QED
      BY <1>3, <2>6
  <1>8. ASSUME from # {} PROVE Min(from) \in Window /\ Min(from) \in from /\ \A t \in from : Min(from) <= t
    <2>1. Min(from) \in from /\ \A t \in from : Min(from) <= t
      BY <1>4, <1>8, MinimumElement
    <2>2. {t \in from : t < Min(from)} = {}
      <3>1. PICK lo \in Nat : lo = Min(from)
        BY <1>4, <2>1
      <3>2. \A t \in from : t \in Nat /\ lo <= t
        BY <1>4, <2>1, <3>1
      <3>. QED
        BY <3>1, <3>2
    <2>3. Cardinality({}) = 0
      BY FS_EmptySet
    <2>. QED
      BY <1>2, <1>3, <2>1, <2>2, <2>3
  <1>9. Window \subseteq from
    BY <1>3
  <1>10. Min({Max({disk.remote + 1, sched.next}), disk.local + 1}) = disk.remote + 1
    <2>1. Max({disk.remote + 1, sched.next}) = disk.remote + 1
      <3>1. /\ {disk.remote + 1, sched.next} \subseteq Nat /\ {disk.remote + 1, sched.next} # {} /\ disk.remote + 1 \in Nat
            /\ \A x \in {disk.remote + 1, sched.next} : x <= disk.remote + 1
        BY <1>1
      <3>2. PICK S : S = {disk.remote + 1, sched.next}
        OBVIOUS
      <3>3. Max(S) \in S /\ \A x \in S : x <= Max(S)
        BY <3>1, <3>2, GreatestElement
      <3>. QED
        BY <1>1, <3>1, <3>2, <3>3
    <2>2. PICK S : S = {disk.remote + 1, disk.local + 1}
      OBVIOUS
    <2>3. S \subseteq Nat /\ S # {}
      BY <1>1, <2>2
    <2>4. Min(S) \in S /\ \A x \in S : Min(S) <= x
      BY <2>3, MinimumElement
    <2>5. Min(S) = disk.remote + 1
      BY <1>1, <2>2, <2>4
    <2>. QED
      BY <2>1, <2>2, <2>5
  <1>11. CASE Window = {}
    <2>1. disk.remote + 1 > disk.local
      BY <1>1, <1>5, <1>8, <1>11
    <2>. QED
      BY <1>10, <1>11, <2>1 DEF WindowValid
  <1>12. CASE Window # {}
    <2>1. from # {}
      BY <1>9, <1>12
    <2>2. Window \subseteq Nat /\ \A x \in Window : x <= disk.local
      BY <1>4, <1>9
    <2>3. Min(Window) \in Window /\ \A x \in Window : Min(Window) <= x
      BY <1>12, <2>2, MinimumElement
    <2>4. Max(Window) \in Window /\ \A x \in Window : x <= Max(Window)
      BY <1>1, <1>12, <2>2, GreatestElement
    <2>5. PICK lo, hi \in Nat : lo = Min(Window) /\ hi = Max(Window)
      BY <2>2, <2>3, <2>4
    <2>6. lo \in Window /\ hi \in Window /\ \A x \in Window : x \in Nat /\ lo <= x /\ x <= hi
      BY <2>2, <2>3, <2>4, <2>5
    <2>7. lo <= disk.remote + 1
      <3>1. CASE disk.remote < disk.local
        <4>1. PICK a \in Nat : a = Min(from)
          BY <1>4, <1>8, <2>1
        <4>2. a <= disk.remote + 1 /\ a \in Window
          BY <1>5, <1>8, <2>1, <3>1, <4>1
        <4>. QED
          BY <1>1, <2>6, <4>2
      <3>2. CASE ~(disk.remote < disk.local)
        <4>1. lo <= disk.local
          BY <2>2, <2>6
        <4>. QED
          BY <1>1, <3>2, <4>1
      <3>. QED
        BY <3>1, <3>2
    <2>8. Window = lo..hi
      <3>1. ASSUME NEW x \in lo..hi PROVE x \in Window
        <4>1. x \in Nat /\ lo <= x /\ x <= hi
          OBVIOUS
        <4>2. hi <= disk.local /\ lo \in from
          BY <1>9, <2>2, <2>6
        <4>3. x \in from
          BY <1>1, <1>4, <4>1, <4>2
        <4>4. x < hi \/ x = hi
          BY <4>1
        <4>. QED
          BY <1>7, <2>6, <4>3, <4>4
      <3>2. Window \subseteq lo..hi
        BY <2>6
      <3>. QED
        BY <3>1, <3>2
    <2>. QED
      BY <1>10, <1>12, <2>5, <2>7, <2>8 DEF WindowValid
  <1>. QED
    BY <1>11, <1>12

-----------------------------------------------------------------------------
(* Steps that leave the records and the watermarks alone *)

JournalStays ==
    disk'.rows = disk.rows /\ disk'.local = disk.local /\ disk'.remote = disk.remote /\ disk'.versions = disk.versions
CommittedStay == \A c \in disk.blobs : c.state = "whole" /\ c.last <= disk.local => Stays(c)

LEMMA OnlyBlobs ==
    ASSUME Types, NEW X, disk' = [disk EXCEPT !.blobs = X]
    PROVE  JournalStays /\ disk'.blobs = X
  <1>1. disk \in Disks
    BY DiskTypes
  <1>. QED
    BY <1>1 DEF Disks, JournalStays

LEMMA KeptLater ==
    ASSUME disk'.local = disk.local, CommittedStay, NEW s, Kept(s)
    PROVE  Kept(s)'
  <1>1. PICK c \in disk.blobs : c.state = "whole" /\ Holds(c, s) /\ c.last <= disk.local
    BY DEF Kept
  <1>2. PICK d \in disk'.blobs : d.first = c.first /\ d.last = c.last /\ d.state = "whole"
    BY <1>1 DEF CommittedStay, Stays
  <1>. QED
    BY <1>1, <1>2 DEF Kept, Holds

\* What the drain may do to the overlay: move entries onto the journal.
Respects ==
    /\ failed' = failed /\ DOMAIN overlay' = DOMAIN overlay
    /\ \A s \in DOMAIN overlay : overlay'[s] = overlay[s] \/ s <= disk.local
    /\ failed # {} => drain'.state = "failed"
    /\ drain'.state = "failed" => drain'.batches = <<>>
    /\ sched'.commit \in {"retired", "swept", "pruned"} => \A s \in DOMAIN overlay : s > disk.remote

LEMMA OverlaidKept ==
    ASSUME WbInv, Overlaid, JournalStays, CommittedStay, log' = log, proc = "up", proc' = "up", Respects
    PROVE  Overlaid'
  <1>1. ASSUME NEW s \in DOMAIN overlay' PROVE Readable(s)'
    <2>1. s \in DOMAIN overlay /\ Readable(s) /\ (overlay'[s] = overlay[s] \/ s <= disk.local)
      BY DEF Overlaid, Respects
    <2>2. Kept(s) => Kept(s)'
      BY KeptLater DEF JournalStays
    <2>. QED
      BY <2>1, <2>2 DEF Readable, JournalStays, HasPayload
  <1>. QED
    BY <1>1 DEF Overlaid, JournalStays, Respects

LEMMA DrainSees ==
    ASSUME WbInv, WbInv', SeenInv, JournalStays, CommittedStay, UNCHANGED <<log, sched, remote>>, proc = "up", proc' = "up",
           Respects
    PROVE  SeenInv'
  <1>1. Accepted /\ Overlaid /\ Mirrored /\ Uploading /\ Versioned /\ NoFalseDivergence
    BY DEF SeenInv
  <1>2. RecordsStay
    BY DEF RecordsStay, JournalStays
  <1>3. Accepted' /\ Overlaid'
    BY <1>1, AcceptedKept, OverlaidKept
  <1>4. Mirrored' /\ Uploading' /\ Versioned'
    BY <1>1, <1>2, MirroredKept, UploadingKept, VersionedKept DEF JournalStays
  <1>5. NoFalseDivergence'
    BY <1>1 DEF NoFalseDivergence
  <1>. QED
    BY <1>3, <1>4, <1>5 DEF SeenInv

-----------------------------------------------------------------------------
(* Steps of the clients *)

LEMMA ValidLater ==
    ASSUME Types, NEW m, NEW s \in Nat \ {0}, s <= Len(log) + 1, \A t \in 1..(s - 1) : log'[t] = log[t], Valid(m, s)
    PROVE  Valid(m, s)'
  <1>1. 1..(s - 1) \subseteq DOMAIN log
    BY LogTypes
  <1>2. PICK S, k : S = 1..(s - 1) /\ k = m.key
    OBVIOUS
  <1>3. View(S, k)' = View(S, k) /\ Touching(S, k)' = Touching(S, k)
    BY <1>1, <1>2, ViewKept
  <1>4. View(1..(s - 1), m.key)' = View(1..(s - 1), m.key) /\ Touching(1..(s - 1), m.key)' = Touching(1..(s - 1), m.key)
    BY <1>2, <1>3
  <1>. QED
    BY <1>4 DEF Valid, FollowsFrom

LEMMA AcceptSees ==
    ASSUME WbInv, WbInv', SeenInv, NEW m \in Mutation, Accept(m), Valid(m, Len(log) + 1)
    PROVE  SeenInv'
  <1>1. /\ proc = "up" /\ log' = Append(log, m) /\ proc' = "up"
        /\ overlay' = [s \in DOMAIN overlay \cup {Len(log) + 1} |->
                          IF s \in DOMAIN overlay THEN overlay[s] ELSE "memory"]
        /\ UNCHANGED <<disk, drain, barrier, failed, sched, remote>> /\ drain.state # "failed"
    BY DEF Accept
  <1>2. PICK n : n = Len(log) + 1
    OBVIOUS
  <1>3. /\ Types /\ Types' /\ log \in Seq(Mutation) /\ Len(log) \in Nat /\ DOMAIN log = 1..Len(log) /\ n \in Nat \ {0}
        /\ disk.local \in Nat /\ disk.local <= Len(log) /\ disk.remote \in Nat /\ disk.remote <= disk.local
        /\ DOMAIN overlay \subseteq DOMAIN log
    BY <1>2, LogTypes, SchedulerFacts DEF WbInv, Watermarks, Types
  <1>4. Len(log') = n /\ DOMAIN log' = 1..n /\ log'[n] = m /\ \A s \in DOMAIN log : log'[s] = log[s]
    BY <1>1, <1>2, <1>3, AppendProperties
  <1>5. Accepted /\ Overlaid /\ Mirrored /\ Uploading /\ Versioned /\ NoFalseDivergence
    BY DEF SeenInv
  <1>6. Accepted'
    <2>1. ASSUME NEW s \in 1..n PROVE Valid(log[s], s)'
      <3>1. CASE s # n
        <4>1. s \in DOMAIN log /\ \A t \in 1..s : log'[t] = log[t]
          BY <1>2, <1>3, <1>4, <3>1
        <4>. QED
          BY <1>3, <1>5, <4>1, ValidKept DEF Accepted
      <3>2. CASE s = n
        <4>1. Valid(m, n)
          BY <1>2
        <4>2. \A t \in 1..(n - 1) : log'[t] = log[t]
          BY <1>2, <1>3, <1>4
        <4>3. n <= Len(log) + 1
          BY <1>2, <1>3
        <4>4. Valid(m, n)'
          BY <1>3, <4>1, <4>2, <4>3, ValidLater
        <4>5. log'[s] = m
          BY <1>4, <3>2
        <4>. QED
          BY <3>2, <4>4, <4>5 DEF Valid, FollowsFrom, View, Touching
      <3>. QED
        BY <3>1, <3>2
    <2>. QED
      BY <1>4, <2>1 DEF Accepted
  <1>7. failed = {}
    BY <1>1, <1>5 DEF Overlaid
  <1>8. Overlaid'
    <2>1. DOMAIN overlay' = DOMAIN overlay \cup {n} /\ \A s \in DOMAIN overlay : overlay'[s] = overlay[s]
      BY <1>1, <1>2
    <2>2. overlay'[n] = "memory"
      BY <1>1, <1>2, <1>3
    <2>3. ASSUME NEW s \in DOMAIN overlay' PROVE Readable(s)'
      <3>1. CASE s \in DOMAIN overlay
        <4>1. Readable(s) /\ log'[s] = log[s] /\ overlay'[s] = overlay[s]
          BY <1>3, <1>4, <1>5, <2>1, <3>1 DEF Overlaid
        <4>2. Kept(s)' <=> Kept(s)
          BY <1>1 DEF Kept
        <4>. QED
          BY <1>1, <4>1, <4>2 DEF Readable, HasPayload
      <3>2. CASE s = n
        BY <1>1, <1>2, <1>3, <2>2, <3>2 DEF Readable
      <3>. QED
        BY <2>1, <3>1, <3>2
    <2>4. ASSUME NEW s \in Nat, s..Len(log) \subseteq DOMAIN overlay PROVE s..n \subseteq DOMAIN overlay'
      BY <1>2, <1>3, <2>1, <2>4
    <2>5. (disk'.remote + 1)..Len(log') \subseteq DOMAIN overlay' \cup failed'
      <3>1. (disk.remote + 1)..Len(log) \subseteq DOMAIN overlay
        BY <1>1, <1>5, <1>7 DEF Overlaid
      <3>. QED
        BY <1>1, <1>3, <1>4, <2>4, <3>1
    <2>6. \A s \in DOMAIN overlay' : s..Len(log') \subseteq DOMAIN overlay' \cup failed'
      <3>1. \A s \in DOMAIN overlay : s..Len(log) \subseteq DOMAIN overlay
        BY <1>1, <1>5, <1>7 DEF Overlaid
      <3>2. \A s \in DOMAIN overlay : s..n \subseteq DOMAIN overlay'
        BY <1>3, <2>4, <3>1
      <3>3. n..n \subseteq DOMAIN overlay'
        BY <1>3, <2>1
      <3>. QED
        BY <1>4, <2>1, <3>2, <3>3
    <2>7. sched'.commit \in {"retired", "swept", "pruned"} => \A s \in DOMAIN overlay' : s > disk'.remote
      BY <1>1, <1>2, <1>3, <1>5, <2>1 DEF Overlaid
    <2>. QED
      BY <1>1, <1>5, <1>7, <2>3, <2>5, <2>6, <2>7 DEF Overlaid
  <1>9. RecordsStay
    BY <1>1, <1>3, <1>4 DEF RecordsStay
  <1>10. Mirrored' /\ Uploading' /\ Versioned'
    BY <1>1, <1>5, <1>9, MirroredKept, UploadingKept, VersionedKept
  <1>11. NoFalseDivergence'
    BY <1>1, <1>5 DEF NoFalseDivergence
  <1>. QED
    BY <1>6, <1>8, <1>10, <1>11 DEF SeenInv

\* While the journaler has not failed nothing is withdrawn.
LEMMA VisibleNow ==
    ASSUME WbInv, SeenInv, proc = "up", drain.state # "failed", NEW k \in Key
    PROVE  Visible(k) = View(1..Len(log), k) /\ failed = {}
  <1>1. failed = {}
    BY DEF SeenInv, Overlaid
  <1>2. DOMAIN log \ failed = 1..Len(log)
    BY <1>1, LogTypes DEF WbInv
  <1>. QED
    BY <1>1, <1>2, ReadersSeeLatest

LEMMA UpdateValid ==
    ASSUME WbInv, SeenInv, proc = "up", drain.state # "failed", NEW k \in FenceKey, Visible(k) # Absent, NEW m \in Mutation,
           m.kind = "update", m.key = k,
           LET on == {s \in DOMAIN overlay : k \in Touched(log[s])}
           IN  m.seq = (IF on = {} THEN 0 ELSE Max(on)) /\ m.tag = (IF on = {} THEN remote[k] ELSE Absent)
    PROVE  Valid(m, Len(log) + 1)
  <1>. DEFINE on == {s \in DOMAIN overlay : k \in Touched(log[s])}
  <1>1. k \in Key /\ Types /\ Overlaid
    BY DEF Key, WbInv, SeenInv
  <1>2. Len(log) \in Nat /\ DOMAIN log = 1..Len(log) /\ DOMAIN overlay \subseteq DOMAIN log
    BY <1>1, LogTypes DEF Types
  <1>3. PICK n \in Nat : n = Len(log) + 1 /\ n - 1 = Len(log)
    BY <1>2
  <1>4. Visible(k) = View(1..(n - 1), k) /\ failed = {}
    BY <1>1, <1>3, VisibleNow
  <1>5. FollowsFrom(m, n)
    <2>1. CASE on = {}
      <3>1. m.seq = 0 /\ m.tag = remote[k] /\ Visible(k) = remote[k]
        BY <2>1 DEF Visible
      <3>. QED
        BY <1>4, <3>1 DEF FollowsFrom
    <2>2. CASE on # {}
      <3>1. on \subseteq Nat /\ \A s \in on : s <= Len(log)
        BY <1>2
      <3>2. Max(on) \in on /\ \A t \in on : t <= Max(on)
        BY <1>2, <2>2, <3>1, GreatestElement
      <3>3. PICK s \in on : s = Max(on) /\ s = m.seq
        BY <2>2, <3>2
      <3>4. s \in Touching(1..(n - 1), k) /\ s \in Nat /\ s # 0
        BY <1>2, <1>3, <3>3 DEF Touching
      <3>5. ASSUME NEW t \in Touching(1..(n - 1), k) PROVE t <= s
        <4>1. t \in 1..Len(log) /\ k \in Touched(log[t])
          BY <1>3 DEF Touching
        <4>2. CASE t >= s
          <5>1. t \in s..Len(log)
            BY <3>4, <4>1, <4>2
          <5>2. s..Len(log) \subseteq DOMAIN overlay
            BY <1>1, <1>4, <3>3 DEF Overlaid
          <5>3. t \in on
            BY <4>1, <5>1, <5>2
          <5>. QED
            BY <3>2, <3>3, <5>3
        <4>. QED
          BY <3>4, <4>1, <4>2
      <3>6. m.seq = s /\ m.seq # 0
        BY <3>3, <3>4
      <3>. QED
        BY <3>4, <3>5, <3>6 DEF FollowsFrom
    <2>. QED
      BY <2>1, <2>2
  <1>6. Valid(m, n)
    BY <1>4, <1>5 DEF Valid
  <1>. QED
    BY <1>3, <1>6

LEMMA PlainValid ==
    ASSUME WbInv, SeenInv, proc = "up", drain.state # "failed", NEW k \in Key
    PROVE  /\ Visible(k) = Absent => Valid(Plain(k, "create", NoKey, NewContent), Len(log) + 1)
           /\ Valid(Plain(k, "overwrite", NoKey, NewContent), Len(log) + 1)
           /\ Valid(Plain(k, "delete", NoKey, Absent), Len(log) + 1)
           /\ \A j \in Key : j # k => Valid(Plain(k, "rename", j, Visible(j)), Len(log) + 1)
  <1>1. Len(log) \in Nat
    BY LogTypes DEF WbInv
  <1>2. Visible(k) = View(1..((Len(log) + 1) - 1), k)
    <2>1. (Len(log) + 1) - 1 = Len(log)
      BY <1>1
    <2>. QED
      BY <2>1, VisibleNow
  <1>3. Visible(k) = Absent => Valid(Plain(k, "create", NoKey, NewContent), Len(log) + 1)
    BY <1>2 DEF Valid, Plain
  <1>4. /\ Valid(Plain(k, "overwrite", NoKey, NewContent), Len(log) + 1)
        /\ Valid(Plain(k, "delete", NoKey, Absent), Len(log) + 1)
    BY DEF Valid, Plain
  <1>5. \A j \in Key : j # k => Valid(Plain(k, "rename", j, Visible(j)), Len(log) + 1)
    BY DEF Valid, Plain
  <1>. QED
    BY <1>3, <1>4, <1>5

LEMMA ReconcileSees ==
    ASSUME WbInv, WbInv', SeenInv, NEW s, Reconcile(s)
    PROVE  SeenInv'
  <1>1. /\ proc = "up" /\ proc' = "up" /\ drain.state = "failed" /\ s \in DOMAIN overlay
        /\ UNCHANGED <<log, disk, drain, barrier, sched, remote>>
    BY DEF Reconcile, Serving
  <1>2. JournalStays /\ CommittedStay /\ RecordsStay
    BY <1>1, AllStay DEF JournalStays, CommittedStay, RecordsStay
  <1>3. Accepted /\ Overlaid /\ Mirrored /\ Uploading /\ Versioned /\ NoFalseDivergence
    BY DEF SeenInv
  <1>4. CASE s <= disk.local
    <2>1. overlay' = Spilled({s}) /\ failed' = failed
      BY <1>4 DEF Reconcile
    <2>2. Respects
      BY <1>1, <1>3, <1>4, <2>1 DEF Respects, Spilled, Overlaid
    <2>. QED
      BY <1>1, <1>2, <2>2, DrainSees
  <1>5. CASE ~(s <= disk.local)
    <2>1. overlay' = [t \in DOMAIN overlay \ {s} |-> overlay[t]] /\ failed' = failed \cup {s}
      BY <1>5 DEF Reconcile
    <2>2. /\ DOMAIN overlay' = DOMAIN overlay \ {s} /\ \A t \in DOMAIN overlay' : overlay'[t] = overlay[t]
          /\ DOMAIN overlay' \cup failed' = DOMAIN overlay \cup failed
      BY <1>1, <2>1
    <2>3. s \in (disk.local + 1)..Len(log)
      <3>1. s \in DOMAIN log /\ DOMAIN log = 1..Len(log) /\ Len(log) \in Nat /\ disk.local \in Nat
        BY <1>1, LogTypes, SchedulerFacts DEF Types
      <3>. QED
        BY <1>5, <3>1
    <2>4. ASSUME NEW t \in DOMAIN overlay' PROVE Readable(t)'
      <3>1. Readable(t) /\ overlay'[t] = overlay[t]
        BY <1>3, <2>2 DEF Overlaid
      <3>2. Kept(t)' <=> Kept(t)
        BY <1>1 DEF Kept
      <3>. QED
        BY <1>1, <3>1, <3>2 DEF Readable
    <2>5. Overlaid'
      BY <1>1, <1>3, <2>1, <2>2, <2>3, <2>4 DEF Overlaid
    <2>6. Accepted' /\ Mirrored' /\ Uploading' /\ Versioned'
      BY <1>1, <1>2, <1>3, AcceptedKept, MirroredKept, UploadingKept, VersionedKept
    <2>7. NoFalseDivergence'
      BY <1>1, <1>3 DEF NoFalseDivergence
    <2>. QED
      BY <2>5, <2>6, <2>7 DEF SeenInv
  <1>. QED
    BY <1>4, <1>5

LEMMA ClientsSee ==
    ASSUME WbInv, WbInv', SeenInv, ClientStep
    PROVE  SeenInv'
  <1>0. Types
    BY DEF WbInv
  <1>1. ASSUME NEW k \in Key, Create(k) PROVE SeenInv'
    <2>1. /\ Accept(Plain(k, "create", NoKey, NewContent)) /\ used.ops < MaxOps /\ Visible(k) = Absent
          /\ proc = "up" /\ drain.state # "failed"
      BY <1>1 DEF Create, Accept
    <2>. QED
      BY <1>0, <2>1, MutationTypes, PlainValid, AcceptSees
  <1>2. ASSUME NEW k \in Key, Delete(k) PROVE SeenInv'
    <2>1. /\ Accept(Plain(k, "delete", NoKey, Absent)) /\ used.ops < MaxOps /\ proc = "up" /\ drain.state # "failed"
      BY <1>2 DEF Delete, Accept
    <2>. QED
      BY <1>0, <2>1, MutationTypes, PlainValid, AcceptSees
  <1>3. ASSUME NEW k \in Key, Overwrite(k) PROVE SeenInv'
    <2>1. /\ Accept(Plain(k, "overwrite", NoKey, NewContent)) /\ used.ops < MaxOps /\ proc = "up" /\ drain.state # "failed"
      BY <1>3 DEF Overwrite, Accept
    <2>. QED
      BY <1>0, <2>1, MutationTypes, PlainValid, AcceptSees
  <1>4. ASSUME NEW k \in FenceKey, Update(k) PROVE SeenInv'
    <2>1. used.ops < MaxOps /\ k \in Key /\ Visible(k) # Absent /\ proc = "up" /\ drain.state # "failed"
      BY <1>4 DEF Update, Accept, Key
    <2>2. PICK on, q, t : on = {s \in DOMAIN overlay : k \in Touched(log[s])} /\ q = (IF on = {} THEN 0 ELSE Max(on))
                          /\ t = (IF on = {} THEN remote[k] ELSE Absent)
      OBVIOUS
    <2>3. PICK m : m = [Plain(k, "update", NoKey, NewContent) EXCEPT !.seq = q, !.tag = t] /\ Accept(m)
      BY <1>4, <2>2 DEF Update
    <2>4. m \in Mutation
      BY <1>0, <2>1, <2>2, <2>3, MutationTypes
    <2>5. m.kind = "update" /\ m.key = k /\ m.seq = q /\ m.tag = t
      BY <2>3 DEF Plain
    <2>6. Valid(m, Len(log) + 1)
      BY <2>1, <2>2, <2>4, <2>5, UpdateValid
    <2>. QED
      BY <2>3, <2>4, <2>6, AcceptSees
  <1>5. ASSUME NEW from \in Key, NEW to \in Key, from # to, Rename(from, to) PROVE SeenInv'
    <2>1. /\ Accept(Plain(to, "rename", from, Visible(from))) /\ used.ops < MaxOps
          /\ Visible(from) \notin {Absent, Lost} /\ proc = "up" /\ drain.state # "failed"
      BY <1>5 DEF Rename, Accept
    <2>2. PICK m : m = Plain(to, "rename", from, Visible(from))
      OBVIOUS
    <2>3. m \in Mutation /\ Valid(m, Len(log) + 1) /\ Accept(m)
      BY <1>0, <1>5, <2>1, <2>2, MutationTypes, PlainValid
    <2>. QED
      BY <2>3, AcceptSees
  <1>6. FenceKey \subseteq Key
    BY DEF Key
  <1>. QED
    BY <1>1, <1>2, <1>3, <1>4, <1>5, <1>6, ReconcileSees DEF ClientStep

-----------------------------------------------------------------------------
(* Steps of the journaler *)

\* While a batch is in flight the journaler has not given up.
LEMMA BatchMeansAlive ==
    ASSUME WbInv, SeenInv, NEW i \in DOMAIN drain.batches
    PROVE  drain.state # "failed" /\ failed = {}
  <1>1. drain.batches # <<>>
    BY EmptyDrain
  <1>. QED
    BY <1>1 DEF SeenInv, Overlaid

LEMMA AssembleSees ==
    ASSUME WbInv, WbInv', SeenInv, NEW n, Assemble(n)
    PROVE  SeenInv'
  <1>1. PICK X, q, a : /\ proc = "up" /\ proc' = "up" /\ drain.state = "up" /\ UNCHANGED <<log, overlay, failed, sched, remote>>
                       /\ drain' = [drain EXCEPT !.admitted = a, !.batches = q]
                       /\ disk' = [disk EXCEPT !.blobs = disk.blobs \cup X]
    BY DEF Assemble, Serving
  <1>2. Types /\ drain \in Drainings
    BY SchedulerFacts, DrainTypes
  <1>3. drain'.state = "up"
    BY <1>1, <1>2 DEF Drainings
  <1>4. JournalStays /\ disk'.blobs = disk.blobs \cup X
    BY <1>1, <1>2, OnlyBlobs
  <1>5. CommittedStay
    BY <1>4 DEF CommittedStay, Stays
  <1>6. Respects
    BY <1>1, <1>3 DEF SeenInv, Overlaid, Respects
  <1>. QED
    BY <1>1, <1>4, <1>5, <1>6, DrainSees

LEMMA StageEndSees ==
    ASSUME WbInv, WbInv', SeenInv, NEW i, StageEnd(i)
    PROVE  SeenInv'
  <1>1. /\ proc = "up" /\ proc' = "up" /\ i \in DOMAIN drain.batches /\ Batch(i).stage = "staging"
        /\ UNCHANGED <<log, overlay, failed, sched, remote>>
    BY DEF StageEnd, Serving, InStage, Batch
  <1>2. PICK X, q : /\ disk' = [disk EXCEPT !.blobs = X] /\ drain' = [drain EXCEPT !.batches = q]
                    /\ X = Written(Batch(i)) \/ X = Unlinked(Batch(i))
    BY DEF StageEnd, Batch
  <1>3. Types /\ drain \in Drainings /\ drain.state # "failed" /\ failed = {}
    BY <1>1, SchedulerFacts, DrainTypes, BatchMeansAlive
  <1>4. drain'.state # "failed"
    BY <1>2, <1>3 DEF Drainings
  <1>5. JournalStays /\ disk'.blobs = X
    BY <1>2, <1>3, OnlyBlobs
  <1>6. CommittedStay
    <2>1. CASE X = Written(Batch(i))
      BY <1>3, <1>5, <2>1, WrittenContainers DEF CommittedStay, Stays
    <2>2. CASE X = Unlinked(Batch(i))
      BY <1>1, <1>5, <2>2, UnlinkedContainers DEF CommittedStay, Stays
    <2>. QED
      BY <1>2, <2>1, <2>2
  <1>7. Respects
    BY <1>1, <1>3, <1>4 DEF SeenInv, Overlaid, Respects
  <1>. QED
    BY <1>1, <1>5, <1>6, <1>7, DrainSees

LEMMA StageFailsSees ==
    ASSUME WbInv, WbInv', SeenInv, NEW i, StageFails(i)
    PROVE  SeenInv'
  <1>1. /\ proc = "up" /\ proc' = "up" /\ i \in DOMAIN drain.batches /\ Batch(i).stage = "staging"
        /\ UNCHANGED <<log, overlay, failed, sched, remote>>
        /\ drain' = [drain EXCEPT !.state = "failing", !.batches = RemoveAt(@, i)]
        /\ disk' = [disk EXCEPT !.blobs = Unlinked(Batch(i))]
    BY DEF StageFails, Serving, InStage, Batch
  <1>2. Types /\ drain \in Drainings /\ failed = {}
    BY <1>1, SchedulerFacts, DrainTypes, BatchMeansAlive
  <1>3. drain'.state = "failing"
    BY <1>1, <1>2 DEF Drainings
  <1>4. JournalStays /\ disk'.blobs = Unlinked(Batch(i))
    BY <1>1, <1>2, OnlyBlobs
  <1>5. CommittedStay
    BY <1>1, <1>4, UnlinkedContainers DEF CommittedStay, Stays
  <1>6. Respects
    BY <1>1, <1>2, <1>3 DEF SeenInv, Overlaid, Respects
  <1>. QED
    BY <1>1, <1>4, <1>5, <1>6, DrainSees

LEMMA CommitStartSees ==
    ASSUME WbInv, WbInv', SeenInv, CommitStart
    PROVE  SeenInv'
  <1>1. /\ proc = "up" /\ proc' = "up" /\ drain.state = "up" /\ UNCHANGED <<log, overlay, disk, failed, sched, remote>>
        /\ drain' = [drain EXCEPT !.batches[1].stage = "committing"]
    BY DEF CommitStart, Serving
  <1>2. drain \in Drainings
    BY SchedulerFacts, DrainTypes
  <1>3. drain'.state = "up"
    BY <1>1, <1>2 DEF Drainings
  <1>4. JournalStays /\ CommittedStay
    BY <1>1, AllStay DEF JournalStays, CommittedStay
  <1>5. Respects
    BY <1>1, <1>3 DEF SeenInv, Overlaid, Respects
  <1>. QED
    BY <1>1, <1>4, <1>5, DrainSees

LEMMA ObserveSees ==
    ASSUME WbInv, WbInv', SeenInv, Observe
    PROVE  SeenInv'
  <1>1. /\ proc = "up" /\ proc' = "up" /\ 1 \in DOMAIN drain.batches /\ Batch(1).stage = "observing"
        /\ UNCHANGED <<log, disk, failed, sched, remote>>
    BY DEF Observe, Serving, InStage, Batch
  <1>2. \/ drain' = [drain EXCEPT !.batches = Tail(@)]
        \/ drain' = [drain EXCEPT !.state = "failing", !.batches = Tail(@)]
    BY DEF Observe
  <1>3. /\ drain \in Drainings /\ drain.state # "failed" /\ failed = {} /\ Batch(1).last = disk.local
        /\ Batch(1).first \in Nat /\ Batch(1).last \in Nat /\ disk.local \in Nat
    BY <1>1, SchedulerFacts, DrainTypes, BatchMeansAlive, BatchFacts DEF BatchOf
  <1>4. drain'.state # "failed"
    BY <1>2, <1>3 DEF Drainings
  <1>5. \E S : overlay' = Spilled(S) /\ \A s \in S : s <= disk.local
    <2>. DEFINE gone == Members(Batch(1)) \ DOMAIN overlay
    <2>1. Members(Batch(1)) \subseteq Nat /\ \A s \in Members(Batch(1)) : s <= disk.local
      BY <1>3 DEF Members
    <2>2. CASE gone = {}
      BY <2>1, <2>2 DEF Observe, Batch
    <2>3. CASE gone # {}
      <3>1. Min(gone) \in gone
        BY <2>1, <2>3, MinimumElement
      <3>2. PICK g \in Nat : g = Min(gone) /\ g <= disk.local
        BY <2>1, <3>1
      <3>3. \A s \in Batch(1).first..g : s <= disk.local
        BY <1>3, <3>2
      <3>4. overlay' = Spilled(Batch(1).first..Min(gone))
        BY <2>3 DEF Observe, Batch
      <3>. QED
        BY <3>2, <3>3, <3>4
    <2>. QED
      BY <2>2, <2>3
  <1>6. JournalStays /\ CommittedStay
    BY <1>1, AllStay DEF JournalStays, CommittedStay
  <1>7. DOMAIN overlay' = DOMAIN overlay /\ \A s \in DOMAIN overlay : overlay'[s] = overlay[s] \/ s <= disk.local
    BY <1>5 DEF Spilled
  <1>8. Respects
    BY <1>1, <1>3, <1>4, <1>7 DEF SeenInv, Overlaid, Respects
  <1>. QED
    BY <1>1, <1>6, <1>8, DrainSees

LEMMA GiveUpSees ==
    ASSUME WbInv, WbInv', SeenInv, GiveUp
    PROVE  SeenInv'
  <1>. DEFINE X == {c \in disk.blobs : \A i \in DOMAIN drain.batches : c \in Unlinked(drain.batches[i])}
  <1>1. /\ proc = "up" /\ proc' = "up" /\ \A i \in DOMAIN drain.batches : Batch(i).stage = "ready"
        /\ drain' = [drain EXCEPT !.state = "failed", !.batches = <<>>] /\ disk' = [disk EXCEPT !.blobs = X]
        /\ UNCHANGED <<log, overlay, failed, sched, remote>>
    BY DEF GiveUp, Serving, InStage, Batch
  <1>2. \A c \in disk.blobs : c.last <= disk.local => c \in X
    BY <1>1, UnlinkedContainers DEF Batch
  <1>. HIDE DEF X
  <1>3. Types /\ drain \in Drainings
    BY SchedulerFacts, DrainTypes
  <1>4. drain'.state = "failed" /\ drain'.batches = <<>>
    BY <1>1, <1>3 DEF Drainings
  <1>5. JournalStays /\ disk'.blobs = X
    BY <1>1, <1>3, OnlyBlobs
  <1>6. CommittedStay
    BY <1>2, <1>5 DEF CommittedStay, Stays
  <1>7. Respects
    BY <1>1, <1>4 DEF SeenInv, Overlaid, Respects
  <1>. QED
    BY <1>1, <1>5, <1>6, <1>7, DrainSees

\* The batch becomes part of what is pending.
LEMMA CommittedSees ==
    ASSUME WbInv, WbInv', SeenInv, 1 \in DOMAIN drain.batches, Batch(1).stage = "committing", proc = "up", proc' = "up",
           UNCHANGED <<log, overlay, failed, sched, remote>>, disk' = Committed(Batch(1)), drain'.state # "failed"
    PROVE  SeenInv'
  <1>1. /\ disk'.blobs = disk.blobs /\ disk'.remote = disk.remote /\ disk'.local = Batch(1).last
        /\ disk'.rows = disk.rows \cup ((disk.local + 1)..disk'.local) /\ disk'.local >= disk.local
    BY CommittedDisk DEF Members
  <1>2. disk'.versions = disk.versions
    <2>1. disk \in Disks
      BY SchedulerFacts, DiskTypes
    <2>2. PICK r, n : disk' = [disk EXCEPT !.rows = r, !.local = n]
      BY DEF Committed
    <2>. QED
      BY <2>1, <2>2 DEF Disks
  <1>3. /\ Types /\ disk.local \in Nat /\ disk.remote \in Nat /\ disk.remote <= disk.local /\ disk'.local \in Nat
        /\ DOMAIN overlay \subseteq Nat /\ failed = {} /\ disk.rows \subseteq 1..disk.local
    BY <1>1, SchedulerFacts, BatchFacts, BatchMeansAlive, LogTypes DEF Types, WbInv, Watermarks
  <1>4. Accepted /\ Overlaid /\ Mirrored /\ Uploading /\ Versioned /\ NoFalseDivergence
    BY DEF SeenInv
  <1>5. RecordsStay
    BY <1>1 DEF RecordsStay
  <1>6. Accepted' /\ Uploading' /\ Versioned'
    BY <1>2, <1>4, <1>5, AcceptedKept, UploadingKept, VersionedKept
  <1>7. NoFalseDivergence'
    BY <1>4 DEF NoFalseDivergence
  <1>8. Overlaid'
    <2>1. ASSUME NEW s \in DOMAIN overlay PROVE Readable(s)'
      <3>1. Readable(s) /\ s \in Nat
        BY <1>3, <1>4 DEF Overlaid
      <3>2. CASE s <= disk.local
        <4>1. Kept(s) => Kept(s)'
          <5>1. ASSUME NEW c \in disk.blobs, c.last <= disk.local PROVE c.last <= disk'.local
            BY <1>1, <1>3, <5>1, DiskTypes
          <5>. QED
            BY <1>1, <5>1 DEF Kept
        <4>. QED
          BY <1>1, <1>3, <3>1, <3>2, <4>1 DEF Readable
      <3>3. CASE s > disk.local
        <4>1. s <= disk'.local => s \in (disk.local + 1)..disk'.local /\ s \in (disk'.remote + 1)..disk'.local
          BY <1>1, <1>3, <3>1, <3>3
        <4>2. s <= disk'.local => (HasPayload(log[s]) => Kept(s)')
          BY <4>1 DEF WbInv, Payloads
        <4>3. overlay[s] # "journal"
          BY <1>3, <3>1, <3>3 DEF Readable
        <4>. QED
          BY <1>1, <4>1, <4>2, <4>3 DEF Readable, HasPayload
      <3>. QED
        BY <1>3, <3>1, <3>2, <3>3
    <2>2. ASSUME NEW s \in disk'.rows PROVE s..disk'.local \subseteq disk'.rows
      <3>1. CASE s \in disk.rows
        <4>1. s..disk.local \subseteq disk.rows /\ s \in Nat
          BY <1>3, <1>4, <3>1 DEF Overlaid
        <4>2. s..disk'.local \subseteq (s..disk.local) \cup ((disk.local + 1)..disk'.local)
          BY <1>3, <4>1
        <4>. QED
          BY <1>1, <4>1, <4>2
      <3>2. CASE s \in (disk.local + 1)..disk'.local
        BY <1>1, <1>3, <3>2
      <3>. QED
        BY <1>1, <3>1, <3>2
    <2>3. failed' \subseteq (disk'.local + 1)..Len(log')
      BY <1>3
    <2>. QED
      BY <1>1, <1>3, <1>4, <2>1, <2>2, <2>3 DEF Overlaid
  <1>9. Mirrored'
    <2>1. Pending \subseteq Pending' /\ Pending' = (disk.remote + 1)..disk'.local
      BY <1>1, <1>3 DEF Pending
    <2>2. ASSUME NEW s PROVE Ahead(s)' <=> Ahead(s)
      BY <1>1 DEF Ahead
    <2>3. \A k : Base(k)' = Base(k)
      BY <1>5, BaseFrame
    <2>4. ASSUME NEW k \in Key, \A s \in Pending' : Ahead(s)' => k \notin Touched(log'[s]) PROVE remote'[k] = Base(k)'
      BY <1>4, <2>1, <2>2, <2>3, <2>4 DEF Mirrored
    <2>5. ASSUME NEW s \in Pending', Ahead(s)' PROVE Settled(s)' \/ Untouched(s)' \/ Half(s)'
      <3>1. CASE s \in Pending
        <4>1. s \in 1..disk.local /\ (Settled(s) \/ Untouched(s) \/ Half(s))
          BY <1>4, <2>2, <2>5, <3>1, PendingFacts DEF Mirrored
        <4>. QED
          BY <1>5, <4>1, StoreFrame
      <3>2. CASE s \notin Pending
        <4>1. s \in Nat /\ s > disk.local /\ Ahead(s)
          <5>1. s \in (disk.remote + 1)..disk'.local /\ s \notin (disk.remote + 1)..disk.local
            BY <2>1, <2>5, <3>2 DEF Pending
          <5>2. Ahead(s)
            BY <2>2, <2>5
          <5>. QED
            BY <1>3, <5>1, <5>2
        <4>2. ASSUME NEW k \in Touched(log[s]) PROVE remote[k] = Base(k)
          <5>1. ASSUME NEW t \in Pending, Ahead(t) PROVE k \notin Touched(log[t])
            <6>1. t \in (disk.remote + 1)..(s - 1) /\ s # disk.remote + 1
              BY <1>3, <4>1, PendingFacts
            <6>. QED
              BY <4>1, <4>2, <6>1 DEF Ahead
          <5>2. k \in Key
            <6>1. s \in DOMAIN log
              BY <1>3, <2>1, <2>5, SchedulerFacts, LogTypes DEF WbInv, Watermarks
            <6>2. log[s] \in Mutation
              BY <1>3, <6>1, LogTypes
            <6>. QED
              BY <4>2, <6>2 DEF Touched, Mutation
          <5>. QED
            BY <1>4, <5>1, <5>2 DEF Mirrored
        <4>3. Untouched(s)'
          BY <2>3, <4>2 DEF Untouched
        <4>. QED
          BY <4>3
      <3>. QED
        BY <3>1, <3>2
    <2>. QED
      BY <2>4, <2>5 DEF Mirrored
  <1>. QED
    BY <1>6, <1>7, <1>8, <1>9 DEF SeenInv

LEMMA CommitSees ==
    ASSUME WbInv, WbInv', SeenInv, Commit
    PROVE  SeenInv'
  <1>1. /\ proc = "up" /\ proc' = "up" /\ 1 \in DOMAIN drain.batches /\ Batch(1).stage = "committing"
        /\ drain' = [drain EXCEPT !.batches[1].stage = "observing"] /\ disk' = Committed(Batch(1))
        /\ UNCHANGED <<log, overlay, failed, sched, remote>>
    BY DEF Commit, Serving, InStage, Batch
  <1>2. drain \in Drainings /\ drain.state # "failed"
    BY <1>1, SchedulerFacts, DrainTypes, BatchMeansAlive
  <1>3. drain'.state # "failed"
    BY <1>1, <1>2 DEF Drainings
  <1>. QED
    BY <1>1, <1>3, CommittedSees

LEMMA CommitFailsSees ==
    ASSUME WbInv, WbInv', SeenInv, NEW durable, CommitFails(durable)
    PROVE  SeenInv'
  <1>1. /\ proc = "up" /\ proc' = "up" /\ 1 \in DOMAIN drain.batches /\ Batch(1).stage = "committing"
        /\ disk' = Committed(Batch(1)) \/ disk' = disk
        /\ drain' = [drain EXCEPT !.state = "failing", !.batches = Tail(@)]
        /\ UNCHANGED <<log, overlay, failed, sched, remote>>
    BY DEF CommitFails, Serving, InStage, Batch
  <1>2. drain \in Drainings /\ failed = {}
    BY <1>1, SchedulerFacts, DrainTypes, BatchMeansAlive
  <1>3. drain'.state = "failing"
    BY <1>1, <1>2 DEF Drainings
  <1>4. CASE disk' = Committed(Batch(1))
    BY <1>1, <1>3, <1>4, CommittedSees
  <1>5. CASE disk' = disk
    <2>1. JournalStays /\ CommittedStay
      BY <1>5, AllStay DEF JournalStays, CommittedStay
    <2>2. Respects
      BY <1>1, <1>2, <1>3 DEF SeenInv, Overlaid, Respects
    <2>. QED
      BY <1>1, <2>1, <2>2, DrainSees
  <1>. QED
    BY <1>1, <1>4, <1>5

LEMMA JournalerSees ==
    ASSUME WbInv, WbInv', SeenInv, LocalStep
    PROVE  SeenInv'
  BY AssembleSees, StageEndSees, CommitStartSees, CommitSees, ObserveSees, GiveUpSees DEF LocalStep

-----------------------------------------------------------------------------
(* Steps of the remote scheduler *)

Cleaning(q) == q.commit \in {"retired", "swept", "pruned"}

LEMMA SchedSees ==
    ASSUME WbInv, WbInv', SeenInv, proc = "up", UNCHANGED <<log, overlay, disk, drain, failed, proc, remote>>,
           Uploading', NoFalseDivergence', Cleaning(sched') => Cleaning(sched)
    PROVE  SeenInv'
  <1>1. Accepted /\ Overlaid /\ Mirrored /\ Versioned
    BY DEF SeenInv
  <1>2. JournalStays /\ CommittedStay /\ RecordsStay
    BY AllStay DEF JournalStays, CommittedStay, RecordsStay
  <1>3. Respects
    BY <1>1 DEF Respects, Overlaid, Cleaning
  <1>4. Accepted' /\ Overlaid' /\ Mirrored' /\ Versioned'
    BY <1>1, <1>2, <1>3, AcceptedKept, OverlaidKept, MirroredKept, VersionedKept
  <1>. QED
    BY <1>4 DEF SeenInv

LEMMA SameAhead ==
    ASSUME UNCHANGED <<log, disk, remote>>
    PROVE  \A s : (Ahead(s)' <=> Ahead(s)) /\ (Settled(s)' <=> Settled(s))
  BY DEF Ahead, Settled

LEMMA UploadingFewer ==
    ASSUME WbInv, Uploading, UNCHANGED <<log, disk, remote>>, sched'.next = sched.next, sched'.active \subseteq sched.active,
           sched'.done = sched.done, sched'.commit = sched.commit, sched'.last = sched.last
    PROVE  Uploading'
  BY SameAhead DEF Uploading

LEMMA StopFields ==
    ASSUME Types, NEW why, sched' = Stop(why)
    PROVE  /\ sched'.next = sched.next /\ sched'.active = {} /\ sched'.done = sched.done /\ sched'.commit = sched.commit
           /\ sched'.last = sched.last /\ sched'.why = why
  <1>1. sched \in Schedules
    BY SchedTypes
  <1>. QED
    BY <1>1 DEF Stop, Schedules

LEMMA LoadSees ==
    ASSUME WbInv, WbInv', SeenInv, Load
    PROVE  SeenInv'
  <1>1. proc = "up" /\ UNCHANGED <<log, overlay, disk, drain, failed, proc, remote>>
    BY DEF Load, Serving, SchedRest
  <1>2. Types /\ sched \in Schedules /\ Overlaid /\ Uploading /\ NoFalseDivergence
    BY SchedulerFacts, SchedTypes DEF SeenInv
  <1>3. CASE sched' = Stop("local")
    <2>1. /\ sched'.next = sched.next /\ sched'.active = {} /\ sched'.done = sched.done /\ sched'.commit = sched.commit
          /\ sched'.last = sched.last /\ sched'.why = "local"
      BY <1>2, <1>3, StopFields
    <2>2. Uploading'
      BY <1>1, <1>2, <2>1, UploadingFewer
    <2>3. NoFalseDivergence' /\ (Cleaning(sched') => Cleaning(sched))
      BY <2>1 DEF NoFalseDivergence, Cleaning
    <2>. QED
      BY <1>1, <2>2, <2>3, SchedSees
  <1>4. CASE sched' = [sched EXCEPT !.mode = "run", !.window = Window]
    <2>1. /\ sched'.next = sched.next /\ sched'.active = sched.active /\ sched'.done = sched.done
          /\ sched'.commit = sched.commit /\ sched'.last = sched.last /\ sched'.why = sched.why
      BY <1>2, <1>4 DEF Schedules
    <2>2. Uploading'
      BY <1>1, <1>2, <2>1, UploadingFewer
    <2>3. NoFalseDivergence' /\ (Cleaning(sched') => Cleaning(sched))
      BY <1>2, <2>1 DEF NoFalseDivergence, Cleaning
    <2>. QED
      BY <1>1, <2>2, <2>3, SchedSees
  <1>5. WindowValid
    BY <1>2, WindowIsValid
  <1>. QED
    BY <1>3, <1>4, <1>5 DEF Load

LEMMA RestSees ==
    ASSUME WbInv, WbInv', SeenInv, Rest
    PROVE  SeenInv'
  <1>1. /\ proc = "up" /\ UNCHANGED <<log, overlay, disk, drain, failed, proc, remote>>
        /\ sched' = [sched EXCEPT !.mode = "wait", !.retry = FALSE]
    BY DEF Rest, Serving, SchedRest
  <1>2. sched \in Schedules /\ Uploading /\ NoFalseDivergence
    BY SchedulerFacts, SchedTypes DEF SeenInv
  <1>3. /\ sched'.next = sched.next /\ sched'.active = sched.active /\ sched'.done = sched.done
        /\ sched'.commit = sched.commit /\ sched'.last = sched.last /\ sched'.why = sched.why
    BY <1>1, <1>2 DEF Schedules
  <1>4. Uploading'
    BY <1>1, <1>2, <1>3, UploadingFewer
  <1>5. NoFalseDivergence' /\ (Cleaning(sched') => Cleaning(sched))
    BY <1>2, <1>3 DEF NoFalseDivergence, Cleaning
  <1>. QED
    BY <1>1, <1>4, <1>5, SchedSees

\* What is dispatched is ahead of the watermark and overtakes nothing it touches.
LEMMA DispatchedAhead ==
    ASSUME WbInv, SeenInv, proc = "up", sched.mode = "run", NEW s \in Dispatchable
    PROVE  s > disk.remote /\ Ahead(s) /\ s \in 1..disk.local /\ s \notin sched.done
  <1>1. /\ disk.remote \in Nat /\ sched.next \in Nat /\ sched.last \in Nat /\ sched.next <= disk.remote + 1
        /\ sched.window \subseteq 1..disk.local /\ 1..disk.local \subseteq Nat
    BY SchedulerFacts, SchedTypes DEF SeenInv, Uploading
  <1>2. /\ s \in sched.window /\ sched.next <= s /\ s \notin sched.done /\ (s = sched.next \/ ImmutableCreate(log[s]))
        /\ \A t \in sched.next..(s - 1) : Touched(log[t]) \cap Touched(log[s]) = {}
    BY DEF Dispatchable
  <1>3. s \in Nat
    BY <1>1, <1>2
  <1>4. CASE sched.commit = "idle"
    <2>1. sched.next = disk.remote + 1
      BY <1>4 DEF WbInv, Scheduling
    <2>2. Ahead(s)
      BY <1>2, <2>1 DEF Ahead
    <2>. QED
      BY <1>1, <1>2, <1>3, <2>1, <2>2
  <1>5. CASE sched.commit # "idle"
    <2>1. sched.last = disk.remote /\ sched.next <= disk.remote /\ sched.next..disk.remote \subseteq sched.done
      BY <1>5 DEF WbInv, Scheduling, SeenInv, Uploading
    <2>2. s \notin sched.next..disk.remote
      BY <1>2, <2>1
    <2>3. s > disk.remote /\ s # sched.next
      BY <1>1, <1>2, <1>3, <2>1, <2>2
    <2>4. \A t \in (disk.remote + 1)..(s - 1) : t \in sched.next..(s - 1)
      BY <1>1, <1>3
    <2>5. Ahead(s)
      BY <1>2, <2>3, <2>4 DEF Ahead
    <2>. QED
      BY <1>1, <1>2, <2>3, <2>5
  <1>. QED
    BY <1>4, <1>5

LEMMA DispatchSees ==
    ASSUME WbInv, WbInv', SeenInv, Dispatch
    PROVE  SeenInv'
  <1>1. /\ proc = "up" /\ UNCHANGED <<log, overlay, disk, drain, failed, proc, remote>> /\ sched.mode = "run"
        /\ Dispatchable # {} /\ sched' = [sched EXCEPT !.active = @ \cup {Min(Dispatchable)}]
    BY DEF Dispatch, Serving, SchedRest
  <1>2. sched \in Schedules /\ Uploading /\ NoFalseDivergence
    BY SchedulerFacts, SchedTypes DEF SeenInv
  <1>3. PICK s \in Dispatchable : s = Min(Dispatchable)
    <2>1. Dispatchable \subseteq Nat
      BY SchedulerFacts DEF Dispatchable
    <2>. QED
      BY <1>1, <2>1, MinimumElement
  <1>4. s > disk.remote /\ Ahead(s) /\ s \notin sched.done
    BY <1>1, DispatchedAhead
  <1>5. /\ sched'.next = sched.next /\ sched'.active = sched.active \cup {s} /\ sched'.done = sched.done
        /\ sched'.commit = sched.commit /\ sched'.last = sched.last /\ sched'.why = sched.why
    BY <1>1, <1>2, <1>3 DEF Schedules
  <1>6. Uploading'
    BY <1>1, <1>2, <1>4, <1>5, SameAhead DEF Uploading
  <1>7. NoFalseDivergence' /\ (Cleaning(sched') => Cleaning(sched))
    BY <1>2, <1>5 DEF NoFalseDivergence, Cleaning
  <1>. QED
    BY <1>1, <1>6, <1>7, SchedSees

LEMMA FinishSees ==
    ASSUME WbInv, WbInv', SeenInv, Finish
    PROVE  SeenInv'
  <1>1. /\ proc = "up" /\ UNCHANGED <<log, overlay, disk, drain, failed, proc, remote>> /\ sched.commit = "pruned"
        /\ sched' = [sched EXCEPT !.commit = "idle", !.next = sched.last + 1, !.done = {s \in @ : s > sched.last}]
    BY DEF Finish, Serving, SchedRest
  <1>2. sched \in Schedules /\ Uploading /\ NoFalseDivergence /\ sched.last = disk.remote /\ disk.remote \in Nat
    BY <1>1, SchedulerFacts, SchedTypes DEF SeenInv, WbInv, Scheduling
  <1>3. /\ sched'.next = sched.last + 1 /\ sched'.active = sched.active /\ sched'.done \subseteq sched.done
        /\ sched'.commit = "idle" /\ sched'.why = sched.why
    BY <1>1, <1>2 DEF Schedules
  <1>4. Uploading'
    BY <1>1, <1>2, <1>3, SameAhead DEF Uploading
  <1>5. NoFalseDivergence' /\ (Cleaning(sched') => Cleaning(sched))
    BY <1>2, <1>3 DEF NoFalseDivergence, Cleaning
  <1>. QED
    BY <1>1, <1>4, <1>5, SchedSees

\* A request to the remote store about one record ahead of the watermark leaves
\* the objects of the others alone.
LEMMA StoreTouched ==
    ASSUME WbInv, SeenInv, NEW s \in Pending, Ahead(s), UNCHANGED <<log, disk>>,
           \A k \in Key : k \notin Touched(log[s]) => remote'[k] = remote[k],
           Settled(s)' \/ Untouched(s)' \/ Half(s)'
    PROVE  Mirrored' /\ \A t \in Pending : t # s /\ Ahead(t) /\ Settled(t) => Settled(t)'
  <1>1. Mirrored /\ Pending' = Pending /\ \A t : Ahead(t)' <=> Ahead(t)
    BY DEF SeenInv, Pending, Ahead
  <1>2. \A k : Base(k)' = Base(k)
    BY DEF Base, View
  <1>3. ASSUME NEW t \in Pending PROVE \A k \in Touched(log[t]) : k \in Key
    <2>1. t \in DOMAIN log
      BY PendingFacts, SchedulerFacts
    <2>2. log[t] \in Mutation
      BY <2>1, LogTypes DEF WbInv
    <2>. QED
      BY <2>2 DEF Touched, Mutation
  <1>4. ASSUME NEW t \in Pending, t # s, Ahead(t) PROVE \A k \in Touched(log[t]) : remote'[k] = remote[k]
    <2>1. Touched(log[t]) \cap Touched(log[s]) = {}
      BY <1>4, AheadDisjoint
    <2>. QED
      BY <1>3, <2>1
  <1>5. ASSUME NEW t \in Pending, t # s, Ahead(t)
        PROVE  (Settled(t) => Settled(t)') /\ (Untouched(t) => Untouched(t)') /\ (Half(t) => Half(t)')
    <2>1. Settled(t) => Settled(t)'
      BY <1>4, <1>5 DEF Settled
    <2>2. Untouched(t) => Untouched(t)'
      BY <1>2, <1>4, <1>5 DEF Untouched
    <2>3. Half(t) => Half(t)'
      <3>. SUFFICES ASSUME Half(t) PROVE Half(t)'
        OBVIOUS
      <3>1. t \in DOMAIN log /\ log[t].kind = "rename"
        BY PendingFacts, SchedulerFacts DEF Half
      <3>2. log[t].key \in Touched(log[t]) /\ log[t].src \in Touched(log[t])
        <4>1. log[t].key \in Key /\ log[t].src \in Key
          BY <3>1, LogTypes DEF WbInv, SeenInv, Accepted, Valid
        <4>. QED
          BY <4>1, Constants DEF Touched
      <3>3. PICK k, j : k = log[t].key /\ j = log[t].src
        OBVIOUS
      <3>4. remote'[k] = remote[k] /\ remote'[j] = remote[j] /\ Base(j)' = Base(j)
        BY <1>2, <1>4, <1>5, <3>2, <3>3
      <3>5. Base(log[t].src)' = Base(j)'
        BY <3>3 DEF Base, View
      <3>. QED
        BY <3>1, <3>3, <3>4, <3>5 DEF Half
    <2>. QED
      BY <2>1, <2>2, <2>3
  <1>6. ASSUME NEW k \in Key, \A t \in Pending' : Ahead(t)' => k \notin Touched(log'[t]) PROVE remote'[k] = Base(k)'
    BY <1>1, <1>2, <1>6 DEF Mirrored
  <1>7. ASSUME NEW t \in Pending', Ahead(t)' PROVE Settled(t)' \/ Untouched(t)' \/ Half(t)'
    <2>1. CASE t = s
      BY <2>1
    <2>2. CASE t # s
      BY <1>1, <1>5, <1>7, <2>2 DEF Mirrored
    <2>. QED
      BY <2>1, <2>2
  <1>8. Mirrored'
    BY <1>6, <1>7 DEF Mirrored
  <1>. QED
    BY <1>5, <1>8

\* What a request may leave: nothing new, all of it, or the target of a rename.
LEMMA RequestLeaves ==
    ASSUME WbInv, SeenInv, NEW s \in Pending, Ahead(s), UNCHANGED <<log, disk>>,
           \/ remote' = remote
           \/ remote' = Applied(log[s])
           \/ log[s].kind = "rename" /\ remote' = [remote EXCEPT ![log[s].key] = log[s].val]
    PROVE  /\ \A k \in Key : k \notin Touched(log[s]) => remote'[k] = remote[k]
           /\ Settled(s)' \/ Untouched(s)' \/ Half(s)'
           /\ remote' = Applied(log[s]) => Settled(s)'
  <1>1. Accepted /\ Mirrored /\ Types
    BY DEF SeenInv, WbInv
  <1>2. s \in DOMAIN log /\ log[s] \in Mutation /\ log[s].key \in Key /\ remote \in [Key -> Value]
    BY <1>1, PendingFacts, SchedulerFacts, LogTypes
  <1>3. Touched(log[s]) \subseteq Key /\ log[s].key \in Touched(log[s])
    BY <1>2, Constants DEF Touched, Mutation
  <1>4. \A k : Base(k)' = Base(k)
    BY DEF Base, View
  <1>5. Settled(s) \/ Untouched(s) \/ Half(s)
    BY <1>1 DEF Mirrored
  <1>6. CASE remote' = Applied(log[s])
    <2>1. \A k \in Key : remote'[k] = IF k \in Touched(log[s]) THEN Effect(log[s], k) ELSE remote[k]
      BY <1>6 DEF Applied
    <2>2. Settled(s)'
      BY <1>3, <2>1 DEF Settled
    <2>. QED
      BY <2>1, <2>2
  <1>7. CASE remote' = remote /\ remote' # Applied(log[s])
    <2>1. (Settled(s) => Settled(s)') /\ (Untouched(s) => Untouched(s)')
      BY <1>4, <1>7 DEF Settled, Untouched
    <2>2. Half(s) => Half(s)'
      BY <1>7 DEF Half, Base, View
    <2>. QED
      BY <1>5, <1>7, <2>1, <2>2
  <1>8. CASE log[s].kind = "rename" /\ remote' = [remote EXCEPT ![log[s].key] = log[s].val] /\ remote' # Applied(log[s])
    <2>1. log[s].src \in Key /\ log[s].src # log[s].key
      BY <1>1, <1>2, <1>8 DEF Accepted, Valid
    <2>2. log[s].src \in Touched(log[s])
      BY <2>1, Constants DEF Touched
    <2>3. PICK m, k, j : m = log[s] /\ k = m.key /\ j = m.src
      OBVIOUS
    <2>4. remote'[k] = m.val /\ \A x \in Key : x # k => remote'[x] = remote[x]
      BY <1>2, <1>8, <2>3
    <2>5. CASE Settled(s)
      <3>1. remote[k] = m.val
        BY <1>3, <2>3, <2>5 DEF Settled, Effect
      <3>2. \A x \in Key : remote'[x] = remote[x]
        BY <2>4, <3>1
      <3>3. Settled(s)'
        BY <1>3, <2>5, <3>2 DEF Settled
      <3>. QED
        BY <1>3, <1>8, <2>3, <2>4, <3>3
    <2>6. CASE ~Settled(s)
      <3>1. remote[j] = Base(j)
        BY <1>5, <2>2, <2>3, <2>6 DEF Untouched, Half
      <3>2. remote'[j] = Base(j)'
        BY <1>4, <2>1, <2>3, <2>4, <3>1
      <3>3. Base(log[s].src)' = Base(j)'
        BY <2>3 DEF Base, View
      <3>4. Half(s)'
        BY <1>8, <2>3, <2>4, <3>2, <3>3 DEF Half
      <3>. QED
        BY <1>3, <1>8, <2>3, <2>4, <3>4
    <2>. QED
      BY <2>5, <2>6
  <1>. QED
    BY <1>6, <1>7, <1>8

\* The scheduler after a request about s, that has ended.
LEMMA RequestSees ==
    ASSUME WbInv, WbInv', SeenInv, proc = "up", UNCHANGED <<log, overlay, disk, drain, failed, proc>>, NEW s \in sched.active,
           \/ remote' = remote
           \/ remote' = Applied(log[s])
           \/ log[s].kind = "rename" /\ remote' = [remote EXCEPT ![log[s].key] = log[s].val],
           sched'.next = sched.next, sched'.active \subseteq sched.active \ {s},
           sched'.done = sched.done \/ (remote' = Applied(log[s]) /\ sched'.done = sched.done \cup {s}),
           sched'.commit = sched.commit, sched'.last = sched.last, sched'.why = sched.why
    PROVE  SeenInv'
  <1>1. Accepted /\ Overlaid /\ Mirrored /\ Uploading /\ Versioned /\ NoFalseDivergence
    BY DEF SeenInv
  <1>2. s \in Pending /\ Ahead(s) /\ disk.local \in Nat /\ disk.remote \in Nat
    BY <1>1, SchedulerFacts DEF Uploading, Pending
  <1>3. /\ \A k \in Key : k \notin Touched(log[s]) => remote'[k] = remote[k]
        /\ Settled(s)' \/ Untouched(s)' \/ Half(s)'
        /\ remote' = Applied(log[s]) => Settled(s)'
    BY <1>2, RequestLeaves
  <1>4. Mirrored' /\ \A t \in Pending : t # s /\ Ahead(t) /\ Settled(t) => Settled(t)'
    BY <1>2, <1>3, StoreTouched
  <1>5. \A t : Ahead(t)' <=> Ahead(t)
    BY DEF Ahead
  <1>6. ASSUME NEW t \in sched.done, t > disk.remote PROVE Ahead(t) /\ Settled(t)'
    <2>1. Ahead(t) /\ Settled(t) /\ t # s
      BY <1>1, <1>6 DEF Uploading
    <2>2. t \in Pending
      BY <1>2, <1>6, SchedulerFacts DEF Pending
    <2>. QED
      BY <1>4, <2>1, <2>2
  <1>7. Uploading'
    BY <1>1, <1>2, <1>3, <1>5, <1>6 DEF Uploading
  <1>8. JournalStays /\ CommittedStay /\ RecordsStay
    BY AllStay DEF JournalStays, CommittedStay, RecordsStay
  <1>9. Respects
    BY <1>1 DEF Respects, Overlaid
  <1>10. Accepted' /\ Overlaid' /\ Versioned'
    BY <1>1, <1>8, <1>9, AcceptedKept, OverlaidKept, VersionedKept
  <1>11. NoFalseDivergence'
    BY <1>1 DEF NoFalseDivergence
  <1>. QED
    BY <1>4, <1>7, <1>10, <1>11 DEF SeenInv

LEMMA UploadSees ==
    ASSUME WbInv, WbInv', SeenInv, NEW s, Upload(s)
    PROVE  SeenInv'
  <1>1. proc = "up" /\ s \in sched.active /\ UNCHANGED <<log, overlay, disk, drain, failed, proc>>
    BY DEF Upload, Serving, SchedRest
  <1>2. sched \in Schedules /\ Overlaid /\ Uploading
    BY SchedulerFacts, SchedTypes DEF SeenInv
  <1>3. s \in Pending /\ Ahead(s)
    BY <1>1, <1>2, SchedulerFacts DEF Uploading, Pending
  <1>4. Outcome(s) # "diverged" /\ WindowValid
    BY <1>2, <1>3, UploadAgrees, WindowIsValid
  <1>5. CASE Outcome(s) = "retry"
    <2>1. remote' = remote /\ sched' = [sched EXCEPT !.active = @ \ {s}, !.retry = TRUE]
      BY <1>5 DEF Upload
    <2>2. /\ sched'.next = sched.next /\ sched'.active = sched.active \ {s} /\ sched'.done = sched.done
          /\ sched'.commit = sched.commit /\ sched'.last = sched.last /\ sched'.why = sched.why
      BY <1>2, <2>1 DEF Schedules
    <2>. QED
      BY <1>1, <2>1, <2>2, RequestSees
  <1>6. CASE Outcome(s) = "applied"
    <2>1. PICK w : /\ remote' = Applied(log[s])
                   /\ sched' = [sched EXCEPT !.active = @ \ {s}, !.done = @ \cup {s}, !.window = w]
      <3>1. sched' = [sched EXCEPT !.active = @ \ {s}, !.done = @ \cup {s}, !.window = IF sched.retry THEN @ ELSE Window]
        BY <1>4, <1>6 DEF Upload
      <3>2. remote' = Applied(log[s])
        BY <1>6 DEF Upload
      <3>. QED
        BY <3>1, <3>2
    <2>2. /\ sched'.next = sched.next /\ sched'.active = sched.active \ {s} /\ sched'.done = sched.done \cup {s}
          /\ sched'.commit = sched.commit /\ sched'.last = sched.last /\ sched'.why = sched.why
      BY <1>2, <2>1 DEF Schedules
    <2>. QED
      BY <1>1, <2>1, <2>2, RequestSees
  <1>7. Outcome(s) \in {"retry", "applied", "diverged"}
    BY DEF Outcome
  <1>. QED
    BY <1>4, <1>5, <1>6, <1>7

LEMMA UploadFailsSees ==
    ASSUME WbInv, WbInv', SeenInv, NEW s, UploadFails(s)
    PROVE  SeenInv'
  <1>1. /\ proc = "up" /\ s \in sched.active /\ UNCHANGED <<log, overlay, disk, drain, failed, proc>>
        /\ sched' = [sched EXCEPT !.active = @ \ {s}, !.retry = TRUE]
    BY DEF UploadFails, Serving, SchedRest
  <1>2. \/ remote' = remote
        \/ remote' = Applied(log[s])
        \/ log[s].kind = "rename" /\ remote' = [remote EXCEPT ![log[s].key] = log[s].val]
    BY DEF UploadFails
  <1>3. sched \in Schedules
    BY SchedulerFacts, SchedTypes
  <1>4. /\ sched'.next = sched.next /\ sched'.active = sched.active \ {s} /\ sched'.done = sched.done
        /\ sched'.commit = sched.commit /\ sched'.last = sched.last /\ sched'.why = sched.why
    BY <1>1, <1>3 DEF Schedules
  <1>. QED
    BY <1>1, <1>2, <1>4, RequestSees

\* The stage of a remote commit moves on, once the overlay is past the watermark.
LEMMA CleanupSees ==
    ASSUME WbInv, WbInv', SeenInv, proc = "up", UNCHANGED <<log, drain, failed, proc, remote>>,
           NEW stage \in {"retired", "swept", "pruned"}, sched.commit # "idle", sched' = [sched EXCEPT !.commit = stage],
           disk'.local = disk.local, disk'.remote = disk.remote, disk'.versions = disk.versions,
           disk'.rows = disk.rows \/ disk'.rows = (disk.remote + 1)..disk.local,
           DOMAIN overlay' = {s \in DOMAIN overlay : s > disk.remote}, \A s \in DOMAIN overlay' : overlay'[s] = overlay[s],
           \A c \in disk.blobs : c.state = "whole" /\ c.last > disk.remote => Stays(c)
    PROVE  SeenInv'
  <1>1. Accepted /\ Overlaid /\ Mirrored /\ Uploading /\ Versioned /\ NoFalseDivergence
    BY DEF SeenInv
  <1>2. /\ Types /\ sched \in Schedules /\ disk.local \in Nat /\ disk.remote \in Nat /\ disk.remote <= disk.local
        /\ DOMAIN overlay \subseteq Nat /\ Len(log) \in Nat
    BY SchedulerFacts, SchedTypes, LogTypes DEF Types
  <1>3. /\ sched'.next = sched.next /\ sched'.active = sched.active /\ sched'.done = sched.done
        /\ sched'.commit = stage /\ sched'.last = sched.last /\ sched'.why = sched.why
    BY <1>2 DEF Schedules
  <1>4. RecordsStay
    BY DEF RecordsStay
  <1>5. Accepted' /\ Mirrored' /\ Versioned'
    BY <1>1, <1>4, AcceptedKept, MirroredKept, VersionedKept
  <1>6. Uploading'
    <2>1. \A s : (Ahead(s)' <=> Ahead(s)) /\ (Settled(s)' <=> Settled(s))
      BY DEF Ahead, Settled
    <2>. QED
      BY <1>1, <1>3, <2>1 DEF Uploading
  <1>7. NoFalseDivergence'
    BY <1>1, <1>3 DEF NoFalseDivergence
  <1>8. Overlaid'
    <2>1. ASSUME NEW s \in DOMAIN overlay' PROVE Readable(s)'
      <3>1. s \in DOMAIN overlay /\ s > disk.remote /\ Readable(s) /\ s \in Nat
        BY <1>1, <1>2 DEF Overlaid
      <3>2. Kept(s) => Kept(s)'
        <4>. SUFFICES ASSUME Kept(s) PROVE Kept(s)'
          OBVIOUS
        <4>1. PICK c \in disk.blobs : c.state = "whole" /\ Holds(c, s) /\ c.last <= disk.local
          BY DEF Kept
        <4>2. c.first \in Nat /\ c.last \in Nat
          BY <1>2, DiskTypes
        <4>3. c.last > disk.remote
          BY <1>2, <3>1, <4>1, <4>2 DEF Holds
        <4>4. PICK d \in disk'.blobs : d.first = c.first /\ d.last = c.last /\ d.state = "whole"
          BY <4>1, <4>3 DEF Stays
        <4>. QED
          BY <4>1, <4>4 DEF Kept, Holds
      <3>3. s <= disk.local => s \in disk'.rows
        BY <1>2, <3>1 DEF Readable
      <3>. QED
        BY <3>1, <3>2, <3>3 DEF Readable
    <2>2. ASSUME NEW a \in Nat, a > disk.remote, a..Len(log) \subseteq DOMAIN overlay \cup failed
          PROVE  a..Len(log) \subseteq DOMAIN overlay' \cup failed
      <3>1. \A s \in a..Len(log) : s > disk.remote
        BY <1>2, <2>2
      <3>. QED
        BY <2>2, <3>1
    <2>3. (disk'.remote + 1)..Len(log') \subseteq DOMAIN overlay' \cup failed'
      <3>1. (disk.remote + 1)..Len(log) \subseteq DOMAIN overlay \cup failed /\ disk.remote + 1 \in Nat /\ disk.remote + 1 > disk.remote
        BY <1>1, <1>2 DEF Overlaid
      <3>. QED
        BY <2>2, <3>1
    <2>4. \A s \in DOMAIN overlay' : s..Len(log') \subseteq DOMAIN overlay' \cup failed'
      <3>1. \A s \in DOMAIN overlay : s..Len(log) \subseteq DOMAIN overlay \cup failed
        BY <1>1 DEF Overlaid
      <3>. QED
        BY <1>2, <2>2, <3>1
    <2>5. \A s \in disk'.rows : s..disk'.local \subseteq disk'.rows
      <3>1. \A s \in (disk.remote + 1)..disk.local : s..disk.local \subseteq (disk.remote + 1)..disk.local
        BY <1>2
      <3>2. \A s \in disk.rows : s..disk.local \subseteq disk.rows
        BY <1>1 DEF Overlaid
      <3>3. CASE disk'.rows = disk.rows
        BY <3>2, <3>3
      <3>4. CASE disk'.rows = (disk.remote + 1)..disk.local
        BY <3>1, <3>4
      <3>. QED
        BY <3>3, <3>4
    <2>6. DOMAIN overlay' \cap failed' = {}
      BY <1>1 DEF Overlaid
    <2>. QED
      BY <1>1, <2>1, <2>3, <2>4, <2>5, <2>6 DEF Overlaid
  <1>. QED
    BY <1>5, <1>6, <1>7, <1>8 DEF SeenInv

LEMMA RetireSees ==
    ASSUME WbInv, WbInv', SeenInv, Retire
    PROVE  SeenInv'
  <1>1. /\ proc = "up" /\ sched.commit = "marked" /\ sched' = [sched EXCEPT !.commit = "retired"]
        /\ overlay' = [s \in {t \in DOMAIN overlay : t > sched.last} |-> overlay[s]]
        /\ UNCHANGED <<log, disk, drain, failed, proc, remote>>
    BY DEF Retire, Serving, SchedRest
  <1>2. sched.last = disk.remote
    BY <1>1 DEF WbInv, Scheduling
  <1>3. \A c \in disk.blobs : c.state = "whole" => Stays(c)
    BY <1>1, AllStay
  <1>4. PICK stage \in {"retired", "swept", "pruned"} : stage = "retired"
    OBVIOUS
  <1>5. DOMAIN overlay' = {s \in DOMAIN overlay : s > disk.remote} /\ \A s \in DOMAIN overlay' : overlay'[s] = overlay[s]
    BY <1>1, <1>2
  <1>. QED
    BY <1>1, <1>3, <1>4, <1>5, CleanupSees

LEMMA SweepSees ==
    ASSUME WbInv, WbInv', SeenInv, Sweep
    PROVE  SeenInv'
  <1>1. /\ proc = "up" /\ sched.commit = "retired" /\ sched' = [sched EXCEPT !.commit = "swept"]
        /\ disk' = [disk EXCEPT !.blobs = Swept(sched.last)]
        /\ UNCHANGED <<log, overlay, drain, failed, proc, remote>>
    BY DEF Sweep, Serving, SchedRest
  <1>2. sched.last = disk.remote /\ Types /\ disk.remote \in Nat
    BY <1>1, SchedulerFacts DEF WbInv, Scheduling
  <1>3. JournalStays /\ disk'.blobs = Swept(disk.remote)
    BY <1>1, <1>2, OnlyBlobs
  <1>4. \A c \in disk.blobs : c.state = "whole" /\ c.last > disk.remote => Stays(c)
    BY <1>2, <1>3, SweptContainers DEF Stays
  <1>5. PICK stage \in {"retired", "swept", "pruned"} : stage = "swept"
    OBVIOUS
  <1>6. DOMAIN overlay' = {s \in DOMAIN overlay : s > disk.remote}
    BY <1>1 DEF SeenInv, Overlaid
  <1>. QED
    BY <1>1, <1>3, <1>4, <1>5, <1>6, CleanupSees DEF JournalStays

\* Pruning keeps the versions.
LEMMA PrunedVersions ==
    ASSUME Types, NEW n
    PROVE  Pruned(n).versions = disk.versions
  <1>1. disk \in Disks
    BY DiskTypes
  <1>2. PICK r, b : Pruned(n) = [disk EXCEPT !.rows = r, !.blobs = b]
    BY DEF Pruned
  <1>. QED
    BY <1>1, <1>2 DEF Disks

LEMMA PruneSees ==
    ASSUME WbInv, WbInv', SeenInv, Prune
    PROVE  SeenInv'
  <1>1. /\ proc = "up" /\ sched.commit = "swept" /\ sched' = [sched EXCEPT !.commit = "pruned"]
        /\ disk' = Pruned(sched.last) /\ UNCHANGED <<log, overlay, drain, failed, proc, remote>>
    BY DEF Prune, Serving, SchedRest
  <1>2. sched.last = disk.remote /\ Types
    BY <1>1, SchedulerFacts DEF WbInv, Scheduling
  <1>3. /\ disk'.local = disk.local /\ disk'.remote = disk.remote /\ disk'.versions = disk.versions
        /\ disk'.rows = (disk.remote + 1)..disk.local /\ disk'.blobs = {c \in disk.blobs : c.state # "unlinked"}
    BY <1>1, <1>2, PrunedDisk, PrunedVersions
  <1>4. \A c \in disk.blobs : c.state = "whole" => Stays(c)
    BY <1>3 DEF Stays
  <1>5. PICK stage \in {"retired", "swept", "pruned"} : stage = "pruned"
    OBVIOUS
  <1>6. DOMAIN overlay' = {s \in DOMAIN overlay : s > disk.remote}
    BY <1>1 DEF SeenInv, Overlaid
  <1>. QED
    BY <1>1, <1>3, <1>4, <1>5, <1>6, CleanupSees

-----------------------------------------------------------------------------
(* The remote watermark moves *)

\* Over a run of uploads that are done, what the records come to is what the
\* remote store shows.
LEMMA RunIsSettled ==
    ASSUME WbInv, SeenInv, NEW last \in Nat, disk.remote < last, last <= disk.local,
           (disk.remote + 1)..last \subseteq sched.done, NEW k
    PROVE  /\ Touching((disk.remote + 1)..last, k) # {} => View(1..last, k) = remote[k]
           /\ Touching((disk.remote + 1)..last, k) = {} =>
                 View(1..last, k) = Base(k) /\ Touching(1..last, k) = Touching(1..disk.remote, k)
           /\ \A s \in (disk.remote + 1)..last : s \in Pending /\ Ahead(s) /\ Settled(s)
  <1>. DEFINE run == (disk.remote + 1)..last
  <1>1. /\ Types /\ disk.remote \in Nat /\ disk.local \in Nat /\ 1..disk.local \subseteq DOMAIN log
    BY SchedulerFacts
  <1>2. ASSUME NEW s \in run PROVE s \in Pending /\ Ahead(s) /\ Settled(s) /\ s \in Nat
    <2>1. s \in Nat /\ s > disk.remote /\ s <= disk.local /\ s \in sched.done
      BY <1>1
    <2>. QED
      BY <1>1, <2>1 DEF SeenInv, Uploading, Pending
  <1>3. ASSUME Touching(run, k) # {} PROVE View(1..last, k) = remote[k]
    <2>1. PICK s \in run : k \in Touched(log[s])
      BY <1>3 DEF Touching
    <2>2. \A t \in run : t # s => k \notin Touched(log[t])
      BY <1>2, <2>1, AheadDisjoint
    <2>3. s \in Touching(1..last, k) /\ \A t \in Touching(1..last, k) : t <= s
      BY <1>1, <1>2, <2>1, <2>2 DEF Touching
    <2>4. 1..last \subseteq DOMAIN log
      BY <1>1
    <2>5. View(1..last, k) = Effect(log[s], k)
      BY <1>1, <2>3, <2>4, ViewAt
    <2>. QED
      BY <1>2, <2>1, <2>5 DEF Settled
  <1>4. ASSUME Touching(run, k) = {} PROVE View(1..last, k) = Base(k) /\ Touching(1..last, k) = Touching(1..disk.remote, k)
    <2>1. Touching(1..last, k) = Touching(1..disk.remote, k)
      <3>1. \A t \in 1..last : t \in run \/ t \in 1..disk.remote
        BY <1>1
      <3>2. 1..disk.remote \subseteq 1..last
        BY <1>1
      <3>. QED
        BY <1>4, <3>1, <3>2 DEF Touching
    <2>. QED
      BY <2>1, ViewSame DEF Base
  <1>. QED
    BY <1>2, <1>3, <1>4

\* The versions after a run are those of the last records.
LEMMA RunVersions ==
    ASSUME WbInv, SeenInv, NEW last \in Nat, disk.remote < last, last <= disk.local,
           (disk.remote + 1)..last \subseteq sched.done, NEW k \in FenceKey
    PROVE  Versions((disk.remote + 1)..last)[k] =
              IF View(1..last, k) = Absent THEN NoVersion
              ELSE [seq |-> Max(Touching(1..last, k)), tag |-> View(1..last, k)]
  <1>. DEFINE run == (disk.remote + 1)..last
              on == {s \in run : k \in Touched(log[s]) /\ ~ImmutableCreate(log[s])}
  <1>1. /\ Types /\ Accepted /\ Versioned /\ disk.remote \in Nat /\ disk.local \in Nat /\ 1..disk.local \subseteq DOMAIN log
        /\ k \in Key /\ k \notin DataKey
    BY SchedulerFacts, WritebackBounds DEF SeenInv, Key
  <1>2. run \subseteq DOMAIN log /\ 1..last \subseteq DOMAIN log
    BY <1>1
  <1>3. on = Touching(run, k)
    <2>1. \A s \in run : k \in Touched(log[s]) => ~ImmutableCreate(log[s])
      BY <1>1, <1>2, ImmutableTouches
    <2>. QED
      BY <2>1 DEF Touching
  <1>4. Versions(run)[k] = IF on = {} THEN disk.versions[k] ELSE IF Effect(log[Max(on)], k) = Absent THEN NoVersion
                           ELSE [seq |-> Max(on), tag |-> log[Max(on)].val]
    BY <1>1 DEF Versions
  <1>. HIDE DEF on
  <1>5. CASE on = {}
    <2>1. View(1..last, k) = Base(k) /\ Touching(1..last, k) = Touching(1..disk.remote, k)
      BY <1>3, <1>5, RunIsSettled
    <2>2. disk.versions[k] = VersionOf(k)
      BY <1>1 DEF Versioned
    <2>. QED
      BY <1>4, <1>5, <2>1, <2>2 DEF VersionOf
  <1>6. CASE on # {}
    <2>1. PICK s \in Touching(run, k) : \A t \in Touching(run, k) : t <= s
      BY <1>1, <1>2, <1>3, <1>6, ViewLast
    <2>2. Max(on) = s
      BY <1>1, <1>2, <1>3, <2>1, ViewAt
    <2>3. s \in Touching(1..last, k) /\ \A t \in Touching(1..last, k) : t <= s
      <3>1. s \in run /\ k \in Touched(log[s]) /\ s \in Nat
        BY <1>1 DEF Touching
      <3>2. ASSUME NEW t \in Touching(1..last, k) PROVE t <= s
        <4>1. t \in 1..last /\ k \in Touched(log[t])
          BY DEF Touching
        <4>2. CASE t > disk.remote
          <5>1. t \in Touching(run, k)
            BY <1>1, <4>1, <4>2 DEF Touching
          <5>. QED
            BY <2>1, <5>1
        <4>3. CASE t <= disk.remote
          BY <1>1, <3>1, <4>1, <4>3
        <4>. QED
          BY <1>1, <4>1, <4>2, <4>3
      <3>. QED
        BY <1>1, <3>1, <3>2 DEF Touching
    <2>4. View(1..last, k) = Effect(log[s], k) /\ Max(Touching(1..last, k)) = s
      BY <1>1, <1>2, <2>3, ViewAt
    <2>5. Effect(log[s], k) # Absent => log[s].val = Effect(log[s], k)
      BY DEF Effect
    <2>. QED
      BY <1>4, <1>6, <2>2, <2>4, <2>5
  <1>. QED
    BY <1>5, <1>6

\* A record that was ahead of the old watermark is ahead of the new one or at
\* or below it; one that was not has its objects as the records up to it left them.
LEMMA MarkedMirrors ==
    ASSUME WbInv, SeenInv, NEW last \in Nat, disk.remote < last, last <= disk.local,
           (disk.remote + 1)..last \subseteq sched.done, UNCHANGED <<log, remote>>,
           disk'.remote = last, disk'.local = disk.local
    PROVE  /\ Mirrored' /\ \A s \in Pending : s > last /\ Ahead(s) => Ahead(s)'
           /\ \A s : Settled(s)' <=> Settled(s)
  <1>. DEFINE run == (disk.remote + 1)..last
  <1>1. /\ Types /\ Mirrored /\ disk.remote \in Nat /\ disk.local \in Nat /\ 1..disk.local \subseteq DOMAIN log
    BY SchedulerFacts DEF SeenInv
  <1>2. Pending' = (last + 1)..disk.local /\ \A s \in Pending' : s \in Pending /\ s > last /\ s \in Nat
    BY <1>1 DEF Pending
  <1>3. \A s \in Pending : s \in Nat /\ (s > last => s \in Pending') /\ (s <= last => s \in run)
    BY <1>1 DEF Pending
  <1>4. \A s : Settled(s)' <=> Settled(s)
    BY DEF Settled
  <1>5. ASSUME NEW k
        PROVE  /\ Touching(run, k) # {} => Base(k)' = remote[k]
               /\ Touching(run, k) = {} => Base(k)' = Base(k)
    <2>1. Base(k)' = View(1..last, k)
      BY DEF Base, View
    <2>. QED
      BY <2>1, RunIsSettled
  <1>6. ASSUME NEW s \in Pending, s > last, Ahead(s)
        PROVE  Ahead(s)' /\ ImmutableCreate(log[s]) /\ \A t \in (disk.remote + 1)..(s - 1) : Touched(log[t]) \cap Touched(log[s]) = {}
    <2>1. s # disk.remote + 1 /\ s \in Nat
      BY <1>1, <1>3, <1>6
    <2>2. ImmutableCreate(log[s]) /\ \A t \in (disk.remote + 1)..(s - 1) : Touched(log[t]) \cap Touched(log[s]) = {}
      BY <1>6, <2>1 DEF Ahead
    <2>3. \A t \in (last + 1)..(s - 1) : t \in (disk.remote + 1)..(s - 1)
      BY <1>1, <2>1
    <2>. QED
      BY <2>2, <2>3 DEF Ahead
  <1>7. ASSUME NEW s \in Pending, Ahead(s)' PROVE Touched(log[s]) \subseteq Key
    <2>1. log[s] \in Mutation
      BY <1>1, PendingFacts, LogTypes
    <2>. QED
      BY <2>1 DEF Touched, Mutation
  <1>8. ASSUME NEW k \in Key, \A s \in Pending' : Ahead(s)' => k \notin Touched(log'[s]) PROVE remote'[k] = Base(k)'
    <2>1. CASE Touching(run, k) # {}
      BY <1>5, <2>1
    <2>2. CASE Touching(run, k) = {}
      <3>1. ASSUME NEW s \in Pending, Ahead(s) PROVE k \notin Touched(log[s])
        <4>1. CASE s > last
          BY <1>3, <1>6, <1>8, <3>1, <4>1
        <4>2. CASE s <= last
          BY <1>3, <2>2, <4>2 DEF Touching
        <4>. QED
          BY <1>3, <4>1, <4>2
      <3>. QED
        BY <1>1, <1>5, <2>2, <3>1 DEF Mirrored
    <2>. QED
      BY <2>1, <2>2
  <1>9. ASSUME NEW s \in Pending', Ahead(s)' PROVE Settled(s)' \/ Untouched(s)' \/ Half(s)'
    <2>1. s \in Pending /\ s > last /\ s \in Nat
      BY <1>2
    <2>2. CASE Ahead(s)
      <3>1. ImmutableCreate(log[s]) /\ \A t \in (disk.remote + 1)..(s - 1) : Touched(log[t]) \cap Touched(log[s]) = {}
        BY <1>6, <2>1, <2>2
      <3>2. Settled(s) \/ Untouched(s)
        BY <1>1, <2>1, <2>2, <3>1 DEF Mirrored, Half, ImmutableCreate
      <3>3. ASSUME Untouched(s) PROVE Untouched(s)'
        <4>1. ASSUME NEW k \in Touched(log[s]) PROVE remote[k] = Base(k)'
          <5>1. Touching(run, k) = {}
            <6>1. \A t \in run : t \in (disk.remote + 1)..(s - 1)
              BY <1>1, <2>1
            <6>. QED
              BY <3>1, <6>1 DEF Touching
          <5>. QED
            BY <1>5, <3>3, <5>1 DEF Untouched
        <4>. QED
          BY <4>1 DEF Untouched
      <3>. QED
        BY <1>4, <3>2, <3>3
    <2>3. CASE ~Ahead(s)
      <3>1. ASSUME NEW k \in Touched(log[s]) PROVE remote[k] = Base(k)'
        <4>1. k \in Key
          BY <1>7, <1>9, <2>1
        <4>2. CASE Touching(run, k) # {}
          BY <1>5, <4>2
        <4>3. CASE Touching(run, k) = {}
          <5>1. ASSUME NEW t \in Pending, Ahead(t) PROVE k \notin Touched(log[t])
            <6>1. CASE t <= last
              BY <1>3, <4>3, <6>1 DEF Touching
            <6>2. CASE t > s
              <7>1. s \in (disk.remote + 1)..(t - 1) /\ t > last
                BY <1>1, <1>3, <2>1, <6>2
              <7>2. Touched(log[s]) \cap Touched(log[t]) = {}
                BY <1>6, <5>1, <7>1
              <7>. QED
                BY <3>1, <7>2
            <6>3. CASE t > last /\ t < s
              <7>1. t \in (last + 1)..(s - 1) /\ s # last + 1
                BY <1>3, <2>1, <6>3
              <7>2. Touched(log[t]) \cap Touched(log[s]) = {}
                BY <1>9, <7>1 DEF Ahead
              <7>. QED
                BY <3>1, <7>2
            <6>4. t # s
              BY <2>3, <5>1
            <6>5. t \in Nat
              BY <1>3
            <6>6. t <= last \/ t > s \/ (t > last /\ t < s)
              BY <2>1, <6>4, <6>5
            <6>. QED
              BY <6>1, <6>2, <6>3, <6>6
          <5>. QED
            BY <1>1, <1>5, <4>1, <4>3, <5>1 DEF Mirrored
        <4>. QED
          BY <4>2, <4>3
      <3>2. Untouched(s)'
        BY <3>1 DEF Untouched
      <3>. QED
        BY <3>2
    <2>. QED
      BY <2>2, <2>3
  <1>10. Mirrored'
    BY <1>8, <1>9 DEF Mirrored
  <1>. QED
    BY <1>4, <1>6, <1>10

LEMMA MarkedSees ==
    ASSUME WbInv, WbInv', SeenInv, NEW last \in Sequence, proc = "up", sched.mode = "run", sched.commit = "idle",
           sched.next <= last, sched.next..last \subseteq sched.done, disk' = Marked(last),
           UNCHANGED <<log, overlay, drain, failed, proc, remote>>,
           sched'.next = sched.next, sched'.active \subseteq sched.active, sched'.done = sched.done,
           sched'.commit = "idle" \/ (sched'.commit = "marked" /\ sched'.last = last), sched'.why \in {sched.why, "io"}
    PROVE  SeenInv'
  <1>1. Accepted /\ Overlaid /\ Mirrored /\ Uploading /\ Versioned /\ NoFalseDivergence
    BY DEF SeenInv
  <1>2. /\ disk'.rows = disk.rows /\ disk'.blobs = disk.blobs /\ disk'.local = disk.local /\ disk'.remote = last /\ last \in Nat
        /\ disk.remote <= last /\ last <= disk.local
    BY MarkedDisk
  <1>3. /\ sched.next = disk.remote + 1 /\ disk.remote \in Nat /\ disk.local \in Nat /\ Types /\ disk \in Disks
        /\ Len(log) \in Nat /\ DOMAIN overlay \subseteq Nat
    BY SchedulerFacts, DiskTypes, LogTypes DEF WbInv, Scheduling, Types
  <1>4. disk.remote < last /\ (disk.remote + 1)..last \subseteq sched.done
    BY <1>2, <1>3
  <1>5. /\ Mirrored' /\ \A s \in Pending : s > last /\ Ahead(s) => Ahead(s)'
        /\ \A s : Settled(s)' <=> Settled(s)
    BY <1>2, <1>4, MarkedMirrors
  <1>6. Accepted'
    BY <1>1, AcceptedKept
  <1>7. Versioned'
    <2>1. disk'.versions = Versions((disk.remote + 1)..last)
      <3>1. PICK v : v = Versions((disk.remote + 1)..last)
        OBVIOUS
      <3>2. disk' = [disk EXCEPT !.remote = last, !.versions = v]
        BY <1>3, <3>1 DEF Marked
      <3>. QED
        BY <1>3, <3>1, <3>2 DEF Disks
    <2>2. ASSUME NEW k \in FenceKey PROVE disk'.versions[k] = VersionOf(k)'
      <3>1. Base(k)' = View(1..last, k) /\ Touching(1..disk.remote, k)' = Touching(1..last, k)
        BY <1>2 DEF Base, View, Touching
      <3>2. VersionOf(k)' = IF View(1..last, k) = Absent THEN NoVersion
                            ELSE [seq |-> Max(Touching(1..last, k)), tag |-> View(1..last, k)]
        BY <3>1 DEF VersionOf
      <3>. QED
        BY <1>2, <1>4, <2>1, <3>2, RunVersions
    <2>. QED
      BY <2>2 DEF Versioned
  <1>8. Uploading'
    <2>1. ASSUME NEW s \in sched.active PROVE s > last /\ Ahead(s)'
      <3>1. s \in Pending /\ Ahead(s) /\ s \notin sched.done /\ s \in Nat /\ s > disk.remote
        BY <1>1, <1>3, SchedulerFacts DEF Uploading, Pending
      <3>2. s > last
        BY <1>2, <1>3, <1>4, <3>1
      <3>. QED
        BY <1>5, <3>1, <3>2
    <2>2. ASSUME NEW s \in sched.done, s > last PROVE Ahead(s)' /\ Settled(s)'
      <3>1. s > disk.remote /\ s \in Pending
        BY <1>2, <1>3, <2>2, SchedulerFacts DEF Pending
      <3>. QED
        BY <1>1, <1>5, <2>2, <3>1 DEF Uploading
    <2>3. sched.next <= last + 1
      BY <1>2, <1>3
    <2>. QED
      BY <1>1, <1>2, <2>1, <2>2, <2>3 DEF Uploading
  <1>9. Overlaid'
    <2>1. ASSUME NEW s \in DOMAIN overlay PROVE Readable(s)'
      <3>1. Readable(s) /\ (Kept(s)' <=> Kept(s))
        BY <1>1, <1>2 DEF Overlaid, Kept
      <3>. QED
        BY <1>2, <3>1 DEF Readable
    <2>2. (disk'.remote + 1)..Len(log) \subseteq (disk.remote + 1)..Len(log)
      BY <1>2, <1>3
    <2>. QED
      BY <1>1, <1>2, <2>1, <2>2 DEF Overlaid
  <1>10. NoFalseDivergence'
    BY <1>1 DEF NoFalseDivergence
  <1>. QED
    BY <1>5, <1>6, <1>7, <1>8, <1>9, <1>10 DEF SeenInv

LEMMA MarkRemoteSees ==
    ASSUME WbInv, WbInv', SeenInv, NEW last \in Sequence, MarkRemote(last)
    PROVE  SeenInv'
  <1>1. /\ proc = "up" /\ sched.mode = "run" /\ sched.commit = "idle"
        /\ sched.next <= last /\ sched.next..last \subseteq sched.done
        /\ disk' = Marked(last) /\ sched' = [sched EXCEPT !.commit = "marked", !.last = last]
        /\ UNCHANGED <<log, overlay, drain, failed, proc, remote>>
    BY DEF MarkRemote, Serving, SchedRest
  <1>2. sched \in Schedules
    BY SchedulerFacts, SchedTypes
  <1>3. /\ sched'.next = sched.next /\ sched'.active = sched.active /\ sched'.done = sched.done
        /\ sched'.commit = "marked" /\ sched'.last = last /\ sched'.why = sched.why
    BY <1>1, <1>2 DEF Schedules
  <1>. QED
    BY <1>1, <1>3, MarkedSees

LEMMA MarkFailsSees ==
    ASSUME WbInv, WbInv', SeenInv, NEW last \in Sequence, NEW durable, MarkFails(last, durable)
    PROVE  SeenInv'
  <1>1. /\ proc = "up" /\ sched.mode = "run" /\ sched.commit = "idle"
        /\ sched.next <= last /\ sched.next..last \subseteq sched.done
        /\ disk' = Marked(last) \/ disk' = disk
        /\ sched' = Stop("io") /\ UNCHANGED <<log, overlay, drain, failed, proc, remote>>
    BY DEF MarkFails, Serving, SchedRest
  <1>2. /\ sched'.next = sched.next /\ sched'.active = {} /\ sched'.done = sched.done /\ sched'.commit = sched.commit
        /\ sched'.last = sched.last /\ sched'.why = "io"
    BY <1>1, SchedulerFacts, StopFields
  <1>3. CASE disk' = Marked(last)
    BY <1>1, <1>2, <1>3, MarkedSees
  <1>4. CASE disk' = disk
    <2>1. Uploading'
      BY <1>1, <1>2, <1>4, UploadingFewer DEF SeenInv
    <2>2. NoFalseDivergence' /\ (Cleaning(sched') => Cleaning(sched))
      BY <1>2 DEF NoFalseDivergence, Cleaning
    <2>. QED
      BY <1>1, <1>4, <2>1, <2>2, SchedSees
  <1>. QED
    BY <1>1, <1>3, <1>4

LEMMA SchedulerSees ==
    ASSUME WbInv, WbInv', SeenInv, RemoteStep
    PROVE  SeenInv'
  BY LoadSees, DispatchSees, RetireSees, SweepSees, PruneSees, FinishSees, RestSees, UploadSees,
     MarkRemoteSees DEF RemoteStep

-----------------------------------------------------------------------------
(* A crash and the steps of recovery *)

LEMMA CrashSees ==
    ASSUME WbInv, WbInv', SeenInv, Crash
    PROVE  SeenInv'
  <1>1. /\ proc' = "opening" /\ log' = SubSeq(log, 1, disk.local) /\ overlay' = <<>>
        /\ drain' = [state |-> "up", admitted |-> 0, batches |-> <<>>] /\ failed' = {}
        /\ sched' = Idle(1) /\ remote' = remote
    BY DEF Crash
  <1>2. PICK X : disk' = [disk EXCEPT !.blobs = X]
    BY DEF Crash
  <1>3. /\ Types /\ disk.local \in Nat /\ disk.remote \in Nat /\ log \in Seq(Mutation) /\ Len(log) \in Nat
        /\ DOMAIN log = 1..Len(log) /\ disk.local <= Len(log)
    BY SchedulerFacts, LogTypes DEF WbInv, Watermarks
  <1>4. JournalStays
    BY <1>2, <1>3, OnlyBlobs
  <1>5. Len(log') = disk.local /\ DOMAIN log' = 1..disk.local /\ \A s \in 1..disk.local : log'[s] = log[s]
    <2>1. \A s \in 1..disk.local : log[s] \in Mutation
      BY SchedulerFacts
    <2>2. 1 \in Int /\ disk.local \in Int
      BY <1>3
    <2>3. /\ log' \in Seq(Mutation) /\ Len(log') = IF 1 <= disk.local THEN disk.local - 1 + 1 ELSE 0
          /\ \A s \in 1..(disk.local - 1 + 1) : log'[s] = log[1 + s - 1]
      BY <1>1, <2>1, <2>2, SubSeqProperties
    <2>4. DOMAIN log' = 1..Len(log')
      BY <2>3, LenProperties
    <2>. QED
      BY <1>3, <2>3, <2>4
  <1>6. RecordsStay
    BY <1>4, <1>5 DEF RecordsStay, JournalStays
  <1>7. Accepted /\ Overlaid /\ Mirrored /\ Versioned
    BY DEF SeenInv
  <1>8. Accepted'
    <2>1. DOMAIN log' \subseteq DOMAIN log
      BY <1>3, <1>5
    <2>. QED
      BY <1>5, <1>7, <2>1, AcceptedKept
  <1>9. Mirrored' /\ Versioned'
    BY <1>1, <1>4, <1>6, <1>7, MirroredKept, VersionedKept DEF JournalStays
  <1>10. /\ sched'.active = {} /\ sched'.done = {} /\ sched'.commit = "idle" /\ sched'.next = 1 /\ sched'.why = "none"
    BY <1>1 DEF Idle
  <1>11. Uploading' /\ NoFalseDivergence'
    BY <1>3, <1>4, <1>10 DEF Uploading, NoFalseDivergence, JournalStays
  <1>12. DOMAIN overlay' = {}
    BY <1>1, EmptyDrain
  <1>13. Overlaid'
    BY <1>1, <1>4, <1>5, <1>7, <1>10, <1>12 DEF Overlaid, JournalStays
  <1>. QED
    BY <1>8, <1>9, <1>11, <1>13 DEF SeenInv

LEMMA RecoverySees ==
    ASSUME WbInv, WbInv', SeenInv, proc # "up", proc' # "up", UNCHANGED <<log, overlay, drain, failed, sched, remote>>,
           disk'.local = disk.local, disk'.remote = disk.remote, disk'.versions = disk.versions,
           disk'.rows = disk.rows \/ disk'.rows = (disk.remote + 1)..disk.local,
           proc' = "checking" => disk'.rows = (disk.remote + 1)..disk.local
    PROVE  SeenInv'
  <1>1. Accepted /\ Overlaid /\ Mirrored /\ Uploading /\ Versioned /\ NoFalseDivergence
    BY DEF SeenInv
  <1>2. RecordsStay /\ disk.local \in Nat /\ disk.remote \in Nat
    BY SchedulerFacts DEF RecordsStay
  <1>3. Accepted' /\ Mirrored' /\ Uploading' /\ Versioned'
    BY <1>1, <1>2, AcceptedKept, MirroredKept, UploadingKept, VersionedKept
  <1>4. NoFalseDivergence'
    BY <1>1 DEF NoFalseDivergence
  <1>5. /\ \A s \in (disk.remote + 1)..disk.local : s..disk.local \subseteq (disk.remote + 1)..disk.local
        /\ \A s \in (disk.remote + 1)..disk.local : s > disk.remote
        /\ \A s \in disk.rows : s..disk.local \subseteq disk.rows
    BY <1>1, <1>2 DEF Overlaid
  <1>6. \A s \in disk'.rows : s..disk'.local \subseteq disk'.rows
    <2>1. CASE disk'.rows = disk.rows
      BY <1>5, <2>1
    <2>2. CASE disk'.rows = (disk.remote + 1)..disk.local
      BY <1>5, <2>2
    <2>. QED
      BY <2>1, <2>2
  <1>7. DOMAIN overlay = {} /\ Len(log) = disk.local
    BY <1>1 DEF Overlaid
  <1>8. Overlaid'
    BY <1>1, <1>5, <1>6, <1>7 DEF Overlaid
  <1>. QED
    BY <1>3, <1>4, <1>8 DEF SeenInv

LEMMA OpeningSees ==
    ASSUME WbInv, WbInv', SeenInv, RemoveUncommitted \/ OpenSweep \/ OpenPrune
    PROVE  SeenInv'
  <1>0. Types
    BY DEF WbInv
  <1>1. CASE RemoveUncommitted \/ OpenSweep
    <2>1. PICK X : disk' = [disk EXCEPT !.blobs = X]
      BY <1>1 DEF RemoveUncommitted, OpenSweep
    <2>2. /\ proc # "up" /\ proc' \in {"sweeping", "pruning"} /\ UNCHANGED <<log, overlay, drain, failed, sched, remote>>
      BY <1>1 DEF RemoveUncommitted, OpenSweep, OpenRest
    <2>3. JournalStays
      BY <1>0, <2>1, OnlyBlobs
    <2>. QED
      BY <2>2, <2>3, RecoverySees DEF JournalStays
  <1>2. CASE OpenPrune
    <2>1. /\ proc # "up" /\ proc' = "checking" /\ UNCHANGED <<log, overlay, drain, failed, sched, remote>>
      BY <1>2 DEF OpenPrune, OpenRest
    <2>2. PICK p \in Disks : /\ p = Pruned(disk.remote) /\ p.local = disk.local /\ p.remote = disk.remote
                             /\ p.versions = disk.versions /\ p.rows = (disk.remote + 1)..disk.local
      BY <1>0, PrunedDisk, PrunedVersions
    <2>3. PICK X : disk' = [p EXCEPT !.blobs = X]
      BY <1>2, <2>2 DEF OpenPrune
    <2>4. disk'.local = p.local /\ disk'.remote = p.remote /\ disk'.rows = p.rows /\ disk'.versions = p.versions
      BY <2>2, <2>3 DEF Disks
    <2>. QED
      BY <2>1, <2>2, <2>4, RecoverySees
  <1>. QED
    BY <1>1, <1>2

LEMMA ReopenSees ==
    ASSUME WbInv, WbInv', SeenInv, Reopen
    PROVE  SeenInv'
  <1>1. /\ proc = "checking" /\ proc' = "up" /\ overlay' = [s \in disk.rows |-> "journal"]
        /\ drain' = [drain EXCEPT !.admitted = disk.local]
        /\ sched' = Idle(disk.remote + 1) /\ UNCHANGED <<log, disk, failed, remote>>
    BY NothingWrong DEF Reopen
  <1>2. Accepted /\ Overlaid /\ Mirrored /\ Versioned
    BY DEF SeenInv
  <1>3. /\ disk.local \in Nat /\ disk.remote \in Nat /\ drain \in Drainings
        /\ Len(log) = disk.local /\ disk.rows \subseteq 1..disk.local /\ \A s \in disk.rows : s > disk.remote
        /\ (disk.remote + 1)..disk.local \subseteq disk.rows
    BY <1>1, <1>2, SchedulerFacts, DrainTypes DEF Overlaid, WbInv, Watermarks
  <1>4. drain'.state = drain.state /\ drain'.batches = drain.batches
    BY <1>1, <1>3 DEF Drainings
  <1>5. /\ sched'.active = {} /\ sched'.done = {} /\ sched'.commit = "idle" /\ sched'.next = disk.remote + 1
        /\ sched'.why = "none"
    BY <1>1 DEF Idle
  <1>6. RecordsStay
    BY <1>1 DEF RecordsStay
  <1>7. Accepted' /\ Mirrored' /\ Versioned'
    BY <1>1, <1>2, <1>6, AcceptedKept, MirroredKept, VersionedKept
  <1>8. Uploading' /\ NoFalseDivergence'
    BY <1>1, <1>3, <1>5 DEF Uploading, NoFalseDivergence
  <1>9. failed = {}
    BY <1>2, <1>3 DEF Overlaid
  <1>10. DOMAIN overlay' = disk.rows
    BY <1>1
  <1>11. ASSUME NEW s \in DOMAIN overlay' PROVE Readable(s)'
    <2>1. s \in disk.rows /\ s <= disk.local /\ s \in (disk.remote + 1)..disk.local
      BY <1>3, <1>10
    <2>2. HasPayload(log[s]) => Kept(s)
      BY <2>1 DEF WbInv, Payloads
    <2>3. Kept(s) => Kept(s)'
      BY <1>1 DEF Kept
    <2>. QED
      BY <1>1, <2>1, <2>2, <2>3 DEF Readable, HasPayload
  <1>12. Overlaid'
    BY <1>1, <1>2, <1>3, <1>4, <1>5, <1>9, <1>10, <1>11 DEF Overlaid
  <1>. QED
    BY <1>7, <1>8, <1>12 DEF SeenInv

-----------------------------------------------------------------------------
(* The theorems about readers, answers and the remote store *)

LEMMA InitSees ==
    ASSUME Init
    PROVE  SeenInv
  <1>1. /\ disk.rows = {} /\ disk.local = 0 /\ disk.remote = 0 /\ log = <<>> /\ overlay = <<>> /\ failed = {} /\ proc = "up"
        /\ remote = [k \in Key |-> Absent] /\ disk.versions = [k \in Key |-> NoVersion] /\ drain.state = "up"
    BY DEF Init
  <1>2. DOMAIN log = {} /\ Len(log) = 0 /\ DOMAIN overlay = {}
    BY <1>1, EmptyDrain
  <1>3. /\ sched.active = {} /\ sched.done = {} /\ sched.commit = "idle" /\ sched.next = 1 /\ sched.why = "none"
    BY DEF Init, Idle
  <1>4. Accepted
    BY <1>2 DEF Accepted
  <1>5. Overlaid
    BY <1>1, <1>2, <1>3 DEF Overlaid
  <1>6. \A k : Base(k) = Absent
    BY <1>1 DEF Base, View
  <1>7. Pending = {}
    BY <1>1 DEF Pending
  <1>8. Mirrored
    BY <1>1, <1>6, <1>7 DEF Mirrored
  <1>9. Uploading /\ NoFalseDivergence
    BY <1>1, <1>3 DEF Uploading, NoFalseDivergence
  <1>10. Versioned
    BY <1>1, <1>6 DEF Versioned, VersionOf, Key
  <1>. QED
    BY <1>4, <1>5, <1>8, <1>9, <1>10 DEF SeenInv

LEMMA UnchangedSees ==
    ASSUME SeenInv, UNCHANGED vars
    PROVE  SeenInv'
  <1>1. UNCHANGED <<log, overlay, disk, drain, failed, sched, remote, proc>>
    BY DEF vars
  <1>2. Accepted' /\ Versioned' /\ NoFalseDivergence'
    BY <1>1 DEF SeenInv, Accepted, Valid, FollowsFrom, View, Touching, Versioned, VersionOf, Base, NoFalseDivergence
  <1>3. Overlaid'
    BY <1>1 DEF SeenInv, Overlaid, Readable, Kept, Holds
  <1>4. Mirrored' /\ Uploading'
    <2>1. Pending' = Pending /\ (\A s : Ahead(s)' <=> Ahead(s)) /\ (\A k : Base(k)' = Base(k))
      BY <1>1 DEF Pending, Ahead, Base, View
    <2>2. \A s : Settled(s)' <=> Settled(s)
      BY <1>1 DEF Settled
    <2>3. \A s : Untouched(s)' <=> Untouched(s)
      BY <1>1, <2>1 DEF Untouched
    <2>4. \A s : Half(s)' <=> Half(s)
      BY <1>1 DEF Half, Base, View
    <2>5. Mirrored'
      BY <1>1, <2>1, <2>2, <2>3, <2>4 DEF SeenInv, Mirrored
    <2>6. Uploading'
      BY <1>1, <2>1, <2>2 DEF SeenInv, Uploading
    <2>. QED
      BY <2>5, <2>6
  <1>. QED
    BY <1>2, <1>3, <1>4 DEF SeenInv

LEMMA StepSees ==
    ASSUME WbInv, WbInv', SeenInv, [Next]_vars
    PROVE  SeenInv'
  <1>1. CASE FaultStep
    BY <1>1, StageFailsSees, CommitFailsSees, MarkFailsSees, UploadFailsSees, CrashSees DEF FaultStep
  <1>2. CASE OpenStep
    BY <1>2, OpeningSees, ReopenSees DEF OpenStep
  <1>. QED
    BY <1>1, <1>2, UnchangedSees, ClientsSee, JournalerSees, SchedulerSees DEF Next

\* What was accepted, what the overlay has, what the remote store holds, what the
\* scheduler has in flight and the versions the journal keeps agree with the log
\* at every step of the tier, and after a crash between any two.
THEOREM SeenInvariant == Spec => []SeenInv
  <1>1. Init => SeenInv
    BY InitSees
  <1>2. WbInv /\ WbInv' /\ SeenInv /\ [Next]_vars => SeenInv'
    BY StepSees
  <1>. QED
    BY <1>1, <1>2, WritebackInvariant, PTL DEF Spec

\* An object whose callers all have their answer reads the same after a crash:
\* the barrier answers only for what is durable, and what reconcile_local_wait_error
\* withdrew is not.
THEOREM AnswersAreKept == Spec => []AnswersSurvive
  <1>1. ASSUME WbInv, SeenInv PROVE AnswersSurvive
    <2>. SUFFICES ASSUME proc = "up", NEW k \in Key,
                         \A s \in DOMAIN log : k \in Touched(log[s]) =>
                             s <= barrier \/ s \in failed \/ (drain.state = "failed" /\ s <= disk.local)
                  PROVE  AfterCrash(k) = Visible(k)
      BY DEF AnswersSurvive
    <2>1. /\ barrier \in Nat /\ disk.local \in Nat /\ barrier <= disk.local /\ DOMAIN log \subseteq Nat
      BY <1>1, SchedulerFacts, LogTypes DEF WbInv, Watermarks, Types
    <2>2. \A s \in DOMAIN log : k \in Touched(log[s]) => s <= disk.local \/ s \in failed
      BY <2>1
    <2>. QED
      BY <1>1, <2>2, CrashShowsAnswers
  <1>. QED
    BY <1>1, WritebackInvariant, SeenInvariant, PTL

\* The remote store is at every moment a state the tier went through, but for new
\* immutable objects and a rename that is half done: the fences that
\* collect_pipeline_batch does not let overtake anything keep their order.
THEOREM RemoteIsPrefix == Spec => []RemotePrefix
  <1>1. ASSUME WbInv, SeenInv PROVE RemotePrefix
    BY <1>1, RemoteExplained
  <1>. QED
    BY <1>1, WritebackInvariant, SeenInvariant, PTL

\* With no other writer the scheduler never stops for content or a version it
\* does not know, nor for a hole in its window: what a lost answer, a half-done
\* rename, a crash or the pruning left is recognised by remote_put_mode,
\* verify_existing and validate_scheduler_window.
THEOREM NeverDiverges == Spec => []NoFalseDivergence
  <1>1. SeenInv => NoFalseDivergence
    BY DEF SeenInv
  <1>. QED
    BY <1>1, SeenInvariant, PTL

-----------------------------------------------------------------------------
(* A read that the tier overtakes *)

(* What a read under way may still find is among what the object held since *)
(* its look-up: the remote store's content, and whatever may be uploaded     *)
(* meanwhile; or the payload of its entry, which is in the overlay, on the   *)
(* journal, or at the remote store already.                                 *)
Shape == \E a, k, e, n, g : read = [at |-> a, key |-> k, entry |-> e, seen |-> n, got |-> g]
FromRemote(k, seen) ==
    /\ remote[k] \in seen
    /\ \A s \in DOMAIN overlay : k \in Touched(log[s]) => Effect(log[s], k) \in seen
FromJournal(k, s, seen) ==
    /\ s \in DOMAIN log /\ Effect(log[s], k) # Absent /\ log[s].val \in seen
    /\ s \in DOMAIN overlay => overlay[s] = "journal"
    /\ s \in DOMAIN overlay \/ s <= disk.remote
ReadInv ==
    /\ Shape
    /\ Fetching => proc = "up" /\ read.key \in Key
    /\ read.at = "remote" => FromRemote(read.key, read.seen)
    /\ read.at = "journal" => FromJournal(read.key, read.entry, read.seen)
    /\ ReadsCurrent

\* What a step of the tier may do to the log, the overlay and the remote store
\* while the process goes on: a mutation is added, an entry leaves when it is
\* remote or was never durable, and the store takes the effect of an entry.
Goes(k) ==
    /\ \A s \in DOMAIN log : s \in DOMAIN log' /\ log'[s] = log[s]
    /\ \A s \in DOMAIN overlay' :
          \/ s \in DOMAIN overlay /\ (overlay[s] = "journal" => overlay'[s] = "journal")
          \/ s \notin DOMAIN log /\ (k \in Touched(log'[s]) => Effect(log'[s], k) = Current(k)')
    /\ \A s \in DOMAIN overlay : s \in DOMAIN overlay' \/ s <= disk'.remote \/ overlay[s] # "journal"
    /\ disk.remote <= disk'.remote
    /\ \/ remote'[k] = remote[k]
       \/ \E s \in DOMAIN overlay : k \in Touched(log[s]) /\ remote'[k] = Effect(log[s], k)

LEMMA StillGoes ==
    ASSUME WbInv, NEW k, UNCHANGED <<log, remote>>, disk'.remote = disk.remote, DOMAIN overlay' = DOMAIN overlay,
           \A s \in DOMAIN overlay : overlay[s] = "journal" => overlay'[s] = "journal"
    PROVE  Goes(k)
  BY SchedulerFacts DEF Goes

\* A new mutation is what its object now holds.
LEMMA AcceptGoes ==
    ASSUME WbInv, SeenInv, NEW k, NEW m \in Mutation, Accept(m)
    PROVE  Goes(k)
  <1>1. PICK t : t = Len(log) + 1
    OBVIOUS
  <1>2. /\ log' = Append(log, m) /\ UNCHANGED <<disk, failed, remote>>
        /\ overlay' = [s \in DOMAIN overlay \cup {t} |-> IF s \in DOMAIN overlay THEN overlay[s] ELSE "memory"]
    BY <1>1 DEF Accept
  <1>3. /\ log \in Seq(Mutation) /\ Len(log) \in Nat /\ DOMAIN log = 1..Len(log) /\ DOMAIN overlay \subseteq DOMAIN log
        /\ disk.remote \in Nat /\ disk.local \in Nat /\ disk.local <= Len(log)
    BY SchedulerFacts, LogTypes DEF WbInv, Watermarks, Types
  <1>4. DOMAIN log' = 1..t /\ \A s \in DOMAIN log : s \in DOMAIN log' /\ log'[s] = log[s]
    <2>1. log' \in Seq(Mutation) /\ Len(log') = t /\ \A s \in 1..Len(log) : log'[s] = log[s]
      BY <1>1, <1>2, <1>3, AppendProperties
    <2>2. DOMAIN log' = 1..Len(log')
      BY <2>1, LenProperties
    <2>. QED
      BY <1>1, <1>3, <2>1, <2>2
  <1>5. failed \subseteq DOMAIN log /\ t \notin DOMAIN log /\ t \in DOMAIN log' /\ t \in Nat
    BY <1>1, <1>3, <1>4 DEF SeenInv, Overlaid
  <1>6. ASSUME k \in Touched(log'[t]) PROVE Effect(log'[t], k) = Current(k)'
    <2>. DEFINE on == {s \in DOMAIN log' \ failed' : k \in Touched(log'[s])}
    <2>1. Current(k)' = IF on = {} THEN Absent ELSE Effect(log'[Max(on)], k)
      BY DEF Current, View
    <2>2. on \subseteq Nat /\ t \in on /\ \A s \in on : s <= t
      BY <1>2, <1>4, <1>5, <1>6
    <2>3. PICK X : X = on
      OBVIOUS
    <2>4. X \subseteq Nat /\ t \in X /\ \A s \in X : s <= t
      BY <2>2, <2>3
    <2>. HIDE DEF on
    <2>5. Max(X) \in X /\ \A s \in X : s <= Max(X)
      BY <1>5, <2>4, GreatestElement
    <2>6. Max(X) = t
      <3>1. t \in Nat /\ Max(X) \in Nat
        BY <1>5, <2>4, <2>5
      <3>2. t <= Max(X) /\ Max(X) <= t
        BY <2>4, <2>5
      <3>. QED
        BY <3>1, <3>2
    <2>. QED
      BY <2>1, <2>3, <2>4, <2>6
  <1>7. DOMAIN overlay' = DOMAIN overlay \cup {t} /\ \A s \in DOMAIN overlay : overlay'[s] = overlay[s]
    BY <1>2
  <1>8. disk.remote <= disk'.remote /\ remote' = remote
    BY <1>2, <1>3
  <1>9. ASSUME NEW s \in DOMAIN overlay'
        PROVE  \/ s \in DOMAIN overlay /\ (overlay[s] = "journal" => overlay'[s] = "journal")
               \/ s \notin DOMAIN log /\ (k \in Touched(log'[s]) => Effect(log'[s], k) = Current(k)')
    BY <1>5, <1>6, <1>7
  <1>. QED
    BY <1>4, <1>7, <1>8, <1>9 DEF Goes

\* What is withdrawn was not on the journal.
LEMMA ReconcileGoes ==
    ASSUME WbInv, SeenInv, NEW k, NEW s, Reconcile(s)
    PROVE  Goes(k)
  <1>1. /\ UNCHANGED <<log, disk, remote>> /\ s \in DOMAIN overlay
        /\ \/ s <= disk.local /\ overlay' = Spilled({s})
           \/ ~(s <= disk.local) /\ overlay' = [t \in DOMAIN overlay \ {s} |-> overlay[t]]
    BY DEF Reconcile
  <1>2. overlay[s] = "journal" => s <= disk.local
    BY <1>1 DEF SeenInv, Overlaid, Readable
  <1>3. disk.remote <= disk'.remote
    BY <1>1, SchedulerFacts
  <1>4. CASE overlay' = Spilled({s})
    BY <1>1, <1>4, StillGoes DEF Spilled
  <1>5. CASE ~(s <= disk.local) /\ overlay' = [t \in DOMAIN overlay \ {s} |-> overlay[t]]
    BY <1>1, <1>2, <1>3, <1>5 DEF Goes
  <1>. QED
    BY <1>1, <1>4, <1>5

LEMMA ClientsGo ==
    ASSUME WbInv, WbInv', SeenInv, NEW k, ClientStep
    PROVE  Goes(k)
  <1>1. Types
    BY DEF WbInv
  <1>. QED
    BY <1>1, ClientsAccept, AcceptGoes, ReconcileGoes

LEMMA JournalerGoes ==
    ASSUME WbInv, NEW k, \/ LocalStep
                         \/ \E i \in DOMAIN drain.batches : StageFails(i)
                         \/ \E durable \in BOOLEAN : CommitFails(durable)
    PROVE  Goes(k)
  <1>1. disk \in Disks
    BY SchedulerFacts, DiskTypes
  <1>2. UNCHANGED <<log, remote>>
    BY DEF LocalStep, Assemble, StageEnd, CommitStart, Commit, Observe, GiveUp, StageFails, CommitFails
  <1>3. \/ disk' = disk
        \/ \E X : disk' = [disk EXCEPT !.blobs = X]
        \/ \E X, y : disk' = [disk EXCEPT !.rows = X, !.local = y]
    BY DEF LocalStep, Assemble, StageEnd, CommitStart, Commit, Observe, GiveUp, StageFails, CommitFails, Committed
  <1>4. disk'.remote = disk.remote
    BY <1>1, <1>3 DEF Disks
  <1>5. overlay' = overlay \/ \E S : overlay' = Spilled(S)
    BY DEF LocalStep, Assemble, StageEnd, CommitStart, Commit, Observe, GiveUp, StageFails, CommitFails
  <1>6. DOMAIN overlay' = DOMAIN overlay /\ \A s \in DOMAIN overlay : overlay[s] = "journal" => overlay'[s] = "journal"
    BY <1>5 DEF Spilled
  <1>. QED
    BY <1>2, <1>4, <1>6, StillGoes

\* What is uploaded is pending, and so in the overlay.
LEMMA UploadGoes ==
    ASSUME WbInv, SeenInv, NEW k \in Key, NEW s, proc = "up", Upload(s) \/ UploadFails(s)
    PROVE  Goes(k)
  <1>1. s \in sched.active /\ UNCHANGED <<log, overlay, disk>>
    BY DEF Upload, UploadFails, SchedRest
  <1>2. \/ remote' = remote
        \/ remote' = Applied(log[s])
        \/ remote' = [remote EXCEPT ![log[s].key] = log[s].val]
    BY DEF Upload, UploadFails
  <1>3. /\ Types /\ disk.remote \in Nat /\ disk.local \in Nat /\ s \in 1..disk.local /\ s > disk.remote /\ disk.local <= Len(log)
        /\ Len(log) \in Nat /\ DOMAIN log = 1..Len(log) /\ remote \in [Key -> Value] /\ log \in Seq(Mutation)
    BY <1>1, SchedulerFacts, LogTypes DEF WbInv, Watermarks, Scheduling, SeenInv, Uploading, Types
  <1>4. s \in DOMAIN overlay
    BY <1>3 DEF SeenInv, Overlaid
  <1>5. log[s].key \in Touched(log[s])
    BY <1>3, Constants, LogTypes DEF Touched, Mutation
  <1>6. remote'[k] = remote[k] \/ (k \in Touched(log[s]) /\ remote'[k] = Effect(log[s], k))
    BY <1>2, <1>3, <1>5 DEF Applied, Effect
  <1>. QED
    BY <1>1, <1>3, <1>4, <1>6 DEF Goes

LEMMA MarkGoes ==
    ASSUME WbInv, NEW k, NEW last \in Sequence, MarkRemote(last) \/ \E durable \in BOOLEAN : MarkFails(last, durable)
    PROVE  Goes(k)
  <1>1. /\ proc = "up" /\ sched.mode = "run" /\ sched.commit = "idle" /\ sched.next <= last /\ sched.next..last \subseteq sched.done
        /\ disk' = Marked(last) \/ disk' = disk
        /\ UNCHANGED <<log, overlay, remote>>
    BY DEF MarkRemote, MarkFails, Serving, SchedRest
  <1>2. disk.remote \in Nat /\ last \in Nat /\ sched.next = disk.remote + 1 /\ sched.next \in Nat
    BY <1>1, SchedulerFacts, SchedTypes DEF WbInv, Scheduling, Sequence, Schedules
  <1>3. disk'.remote = last \/ disk'.remote = disk.remote
    BY <1>1, MarkedDisk
  <1>4. disk.remote <= disk'.remote
    BY <1>1, <1>2, <1>3
  <1>. QED
    BY <1>1, <1>4 DEF Goes

LEMMA SchedulerGoes ==
    ASSUME WbInv, NEW k, Load \/ Dispatch \/ Retire \/ Sweep \/ Prune \/ Finish \/ Rest
    PROVE  Goes(k)
  <1>1. UNCHANGED <<log, remote>>
    BY DEF Load, Dispatch, Retire, Sweep, Prune, Finish, Rest, SchedRest
  <1>2. disk \in Disks
    BY SchedulerFacts, DiskTypes
  <1>3. \/ disk' = disk
        \/ \E X : disk' = [disk EXCEPT !.blobs = X]
        \/ \E X, Y : disk' = [disk EXCEPT !.rows = X, !.blobs = Y]
    BY DEF Load, Dispatch, Retire, Sweep, Prune, Finish, Rest, Pruned
  <1>4. disk'.remote = disk.remote
    BY <1>2, <1>3 DEF Disks
  <1>5. CASE Retire
    <2>1. overlay' = [s \in {t \in DOMAIN overlay : t > sched.last} |-> overlay[s]] /\ sched.last = disk.remote
      BY <1>5 DEF Retire, WbInv, Scheduling
    <2>2. disk.remote \in Nat /\ DOMAIN overlay \subseteq Nat
      BY SchedulerFacts, LogTypes DEF WbInv, Types
    <2>. QED
      BY <1>1, <1>4, <2>1, <2>2 DEF Goes
  <1>6. CASE ~Retire
    <2>1. overlay' = overlay
      BY <1>6 DEF Load, Dispatch, Sweep, Prune, Finish, Rest
    <2>. QED
      BY <1>1, <1>4, <2>1, StillGoes
  <1>. QED
    BY <1>5, <1>6

LEMMA TierGoes ==
    ASSUME WbInv, WbInv', SeenInv, NEW k \in Key, Next, proc = "up", proc' = "up"
    PROVE  Goes(k)
  <1>1. CASE RemoteStep
    BY <1>1, SchedulerGoes, UploadGoes, MarkGoes DEF RemoteStep
  <1>2. CASE FaultStep
    <2>1. ~Crash
      BY DEF Crash
    <2>. QED
      BY <1>2, <2>1, JournalerGoes, MarkGoes, UploadGoes DEF FaultStep
  <1>3. ~OpenStep
    BY DEF OpenStep, RemoveUncommitted, OpenSweep, OpenPrune, Reopen
  <1>. QED
    BY <1>1, <1>2, <1>3, ClientsGo, JournalerGoes DEF Next

\* The tier takes a step while a read is under way.
LEMMA TierKeepsRead ==
    ASSUME WbInv, WbInv', SeenInv, ReadInv, Next, Watch
    PROVE  ReadInv'
  <1>1. PICK a, j, e, n, g : read = [at |-> a, key |-> j, entry |-> e, seen |-> n, got |-> g]
    BY DEF ReadInv, Shape
  <1>2. PICK k \in Key \cup {NoKey} :
           /\ k = j
           /\ read' = IF proc' = "up" /\ Fetching THEN [read EXCEPT !.seen = @ \cup {Current(k)'}] ELSE NoRead
    BY <1>1 DEF Watch
  <1>3. CASE ~(proc' = "up" /\ Fetching)
    <2>1. read' = [at |-> "idle", key |-> NoKey, entry |-> 0, seen |-> {}, got |-> Absent]
      BY <1>2, <1>3 DEF NoRead
    <2>2. Shape'
      BY <2>1 DEF Shape
    <2>3. ~Fetching' /\ read'.at = "idle"
      BY <2>1 DEF Fetching
    <2>. QED
      BY <2>2, <2>3 DEF ReadInv, ReadsCurrent
  <1>4. CASE proc' = "up" /\ Fetching
    <2>1. PICK c : c = Current(k)'
      OBVIOUS
    <2>2. read' = [at |-> a, key |-> j, entry |-> e, seen |-> n \cup {c}, got |-> g]
      BY <1>1, <1>2, <1>4, <2>1
    <2>3. a \in {"remote", "journal"} /\ proc = "up" /\ j \in Key /\ proc' = "up"
      BY <1>1, <1>4 DEF ReadInv, Fetching
    <2>4. Goes(j)
      BY <2>3, TierGoes
    <2>5. Shape' /\ Fetching' /\ read'.at = a /\ read'.key = j /\ read'.entry = e /\ read'.seen = n \cup {c}
      BY <2>2, <2>3 DEF Shape, Fetching
    <2>6. a = "remote" => FromRemote(j, n)
      BY <1>1 DEF ReadInv
    <2>7. a = "journal" => FromJournal(j, e, n)
      BY <1>1 DEF ReadInv
    <2>8. c = Current(j)' /\ DOMAIN overlay \subseteq DOMAIN log /\ DOMAIN log \subseteq Nat /\ DOMAIN log' \subseteq Nat
          /\ disk.remote \in Nat /\ disk'.remote \in Nat
      <3>1. DOMAIN overlay \subseteq DOMAIN log /\ DOMAIN log \subseteq Nat /\ disk.remote \in Nat
        BY SchedulerFacts, LogTypes DEF WbInv, Types
      <3>2. Types'
        BY DEF WbInv
      <3>3. DOMAIN log' \subseteq Nat /\ disk'.remote \in Nat
        BY <3>2 DEF Types, Disks
      <3>. QED
        BY <1>2, <2>1, <3>1, <3>3
    <2>9. ASSUME a = "remote" PROVE FromRemote(j, n \cup {c})'
      <3>1. remote'[j] \in n \cup {c}
        BY <2>4, <2>6, <2>9 DEF Goes, FromRemote
      <3>2. ASSUME NEW s \in DOMAIN overlay', j \in Touched(log'[s]) PROVE Effect(log'[s], j) \in n \cup {c}
        BY <2>4, <2>6, <2>8, <2>9, <3>2 DEF Goes, FromRemote
      <3>. QED
        BY <3>1, <3>2 DEF FromRemote
    <2>10. ASSUME a = "journal" PROVE FromJournal(j, e, n \cup {c})'
      <3>1. e \in DOMAIN log' /\ log'[e] = log[e]
        BY <2>4, <2>7, <2>10 DEF Goes, FromJournal
      <3>2. e \in DOMAIN overlay' => overlay'[e] = "journal"
        BY <2>4, <2>7, <2>10 DEF Goes, FromJournal
      <3>3. e \in DOMAIN overlay' \/ e <= disk'.remote
        <4>1. CASE e \in DOMAIN overlay
          BY <2>4, <2>7, <2>10, <4>1 DEF Goes, FromJournal
        <4>2. CASE e <= disk.remote
          <5>1. e \in Nat /\ disk.remote <= disk'.remote
            BY <2>4, <2>7, <2>8, <2>10 DEF Goes, FromJournal
          <5>. QED
            BY <2>8, <4>2, <5>1
        <4>. QED
          BY <2>7, <2>10, <4>1, <4>2 DEF FromJournal
      <3>. QED
        BY <2>7, <2>10, <3>1, <3>2, <3>3 DEF FromJournal
    <2>11. ReadsCurrent'
      BY <2>3, <2>5 DEF ReadsCurrent
    <2>. QED
      BY <2>3, <2>5, <2>9, <2>10, <2>11 DEF ReadInv
  <1>. QED
    BY <1>3, <1>4

LEMMA LookupKeepsRead ==
    ASSUME WbInv, SeenInv, NEW k \in Key, NEW head, Lookup(k, head)
    PROVE  ReadInv'
  <1>. DEFINE on == {s \in DOMAIN overlay : k \in Touched(log[s])}
              now(s) == s # 0 /\ (Effect(log[s], k) = Absent \/ overlay[s] = "memory" \/ head)
  <1>1. /\ proc = "up" /\ UNCHANGED <<log, overlay, disk, failed, remote, proc>>
    BY DEF Lookup, Serving, vars
  <1>2. PICK s, c : s = Newest(k) /\ c = Current(k)
    OBVIOUS
  <1>3. read' = [at |-> IF s = 0 THEN "remote" ELSE IF now(s) THEN "done" ELSE "journal",
                 key |-> k, entry |-> s, seen |-> {c}, got |-> IF now(s) THEN Effect(log[s], k) ELSE Absent]
    BY <1>2 DEF Lookup
  <1>4. /\ on = {} => c = remote[k]
        /\ on # {} => Max(on) \in on /\ c = Effect(log[Max(on)], k)
    BY <1>1, <1>2, NewestIsCurrent
  <1>5. s = IF on = {} THEN 0 ELSE Max(on)
    BY <1>2 DEF Newest
  <1>6. DOMAIN overlay \subseteq DOMAIN log /\ 0 \notin DOMAIN log /\ \A t \in DOMAIN overlay : overlay[t] \in {"memory", "journal"}
    BY SchedulerFacts, LogTypes DEF WbInv, Types
  <1>. HIDE DEF now
  <1>7. Shape' /\ read'.key = k /\ read'.entry = s /\ read'.seen = {c}
    BY <1>3 DEF Shape
  <1>8. CASE s = 0
    <2>1. on = {}
      BY <1>4, <1>5, <1>6, <1>8
    <2>2. read'.at = "remote"
      BY <1>3, <1>8
    <2>3. FromRemote(k, {c})'
      BY <1>1, <1>4, <2>1 DEF FromRemote
    <2>. QED
      BY <1>1, <1>7, <2>2, <2>3 DEF ReadInv, ReadsCurrent, Fetching
  <1>9. CASE s # 0 /\ now(s)
    <2>1. read'.at = "done" /\ read'.got = Effect(log[s], k)
      BY <1>3, <1>9
    <2>2. c = Effect(log[s], k)
      BY <1>4, <1>5, <1>9
    <2>. QED
      BY <1>7, <2>1, <2>2 DEF ReadInv, ReadsCurrent, Fetching
  <1>10. CASE s # 0 /\ ~now(s)
    <2>1. read'.at = "journal"
      BY <1>3, <1>10
    <2>2. s \in on /\ c = Effect(log[s], k)
      BY <1>4, <1>5, <1>10
    <2>3. Effect(log[s], k) # Absent /\ overlay[s] # "memory"
      BY <1>10 DEF now
    <2>4. log[s].val = Effect(log[s], k)
      BY <2>2, <2>3, EntryReadable DEF SeenInv
    <2>5. FromJournal(k, s, {c})'
      BY <1>1, <1>6, <2>2, <2>3, <2>4 DEF FromJournal
    <2>. QED
      BY <1>1, <1>7, <2>1, <2>5 DEF ReadInv, ReadsCurrent, Fetching
  <1>. QED
    BY <1>8, <1>9, <1>10

\* The payload arrives, or its entry is gone.
LEMMA FetchKeepsRead ==
    ASSUME WbInv, SeenInv, ReadInv, Fetch \/ FetchFails
    PROVE  ReadInv'
  <1>1. PICK a, k, e, n, g : read = [at |-> a, key |-> k, entry |-> e, seen |-> n, got |-> g]
    BY DEF ReadInv, Shape
  <1>2. /\ UNCHANGED <<log, overlay, disk, remote, proc>> /\ a \in {"remote", "journal"}
    BY <1>1 DEF Fetch, FetchFails, Fetching, vars
  <1>3. CASE Fetch
    <2>1. PICK v : v = IF a = "remote" THEN remote[k] ELSE log[e].val
      OBVIOUS
    <2>2. read' = [at |-> "done", key |-> k, entry |-> e, seen |-> n, got |-> v]
      BY <1>1, <1>3, <2>1 DEF Fetch
    <2>3. v \in n
      BY <1>1, <1>2, <2>1 DEF ReadInv, FromRemote, FromJournal
    <2>. QED
      BY <2>2, <2>3 DEF ReadInv, Shape, Fetching, ReadsCurrent
  <1>4. CASE FetchFails
    <2>1. /\ a = "journal" /\ ~BlobReadable(e)
          /\ read' = [at |-> "failed", key |-> k, entry |-> e, seen |-> n, got |-> g]
      BY <1>1, <1>4 DEF FetchFails
    <2>2. FromJournal(k, e, n)
      BY <1>1, <2>1 DEF ReadInv
    <2>3. e \notin DOMAIN overlay
      <3>. SUFFICES ASSUME e \in DOMAIN overlay PROVE FALSE
        OBVIOUS
      <3>1. overlay[e] = "memory" \/ BlobReadable(e)
        BY <2>2, EntryReadable DEF FromJournal, SeenInv
      <3>. QED
        BY <2>1, <2>2, <3>1 DEF FromJournal
    <2>4. e <= disk.remote
      BY <2>2, <2>3 DEF FromJournal
    <2>5. read'.at = "failed" /\ read'.entry = e /\ Shape'
      BY <2>1 DEF Shape
    <2>. QED
      BY <1>2, <2>3, <2>4, <2>5 DEF ReadInv, Fetching, ReadsCurrent
  <1>. QED
    BY <1>3, <1>4

LEMMA StillKeepsRead ==
    ASSUME ReadInv, UNCHANGED readVars
    PROVE  ReadInv'
  <1>1. UNCHANGED <<log, overlay, disk, remote, proc, read>>
    BY DEF readVars, vars
  <1>2. Shape' /\ ReadsCurrent' /\ (Fetching' <=> Fetching)
    BY <1>1 DEF ReadInv, Shape, ReadsCurrent, Fetching
  <1>3. \A k, n : FromRemote(k, n) => FromRemote(k, n)'
    BY <1>1 DEF FromRemote
  <1>4. \A k, s, n : FromJournal(k, s, n) => FromJournal(k, s, n)'
    BY <1>1 DEF FromJournal
  <1>. QED
    BY <1>1, <1>2, <1>3, <1>4 DEF ReadInv

\* The reader changes nothing of the tier.
THEOREM ReadersLeaveNoTrace == ReadSpec => Spec
  <1>1. ReadInit => Init
    BY DEF ReadInit
  <1>2. [ReadNext]_readVars => [Next]_vars
    BY DEF ReadNext, Lookup, Fetch, FetchFails, readVars
  <1>. QED
    BY <1>1, <1>2, PTL DEF ReadSpec, Spec

\* A read may be overtaken anywhere between its look-up (visible_entry) and its
\* fetch (load_payload, open_verified_blob, the remote store's get) by writers, the
\* journaler and the scheduler, which may move the payload, retire the entry and
\* unlink the container.  It returns something the object held meanwhile, and fails
\* only for an entry that is at the remote store and was retired since.
THEOREM ReadsAreCurrent == ReadSpec => []ReadsCurrent
  <1>1. ASSUME ReadInit PROVE ReadInv
    <2>1. read = [at |-> "idle", key |-> NoKey, entry |-> 0, seen |-> {}, got |-> Absent]
      BY <1>1 DEF ReadInit, NoRead
    <2>2. Shape /\ read.at = "idle"
      BY <2>1 DEF Shape
    <2>. QED
      BY <2>2 DEF ReadInv, Fetching, ReadsCurrent
  <1>2. ASSUME WbInv, WbInv', SeenInv, ReadInv, [ReadNext]_readVars PROVE ReadInv'
    BY <1>2, TierKeepsRead, LookupKeepsRead, FetchKeepsRead, StillKeepsRead DEF ReadNext
  <1>3. ReadInv => ReadsCurrent
    BY DEF ReadInv
  <1>. QED
    BY <1>1, <1>2, <1>3, WritebackInvariant, SeenInvariant, ReadersLeaveNoTrace, PTL DEF ReadSpec

=============================================================================
