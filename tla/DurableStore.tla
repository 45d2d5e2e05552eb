---------------------------- MODULE DurableStore ----------------------------
(***************************************************************************)
(* What the data plane promises its clients, without segments, counters,   *)
(* uploads or garbage collection: every extent has a content, a write       *)
(* changes one extent atomically, a flush makes everything written so far   *)
(* durable, a crash falls back to exactly the last flush, and a checkpoint  *)
(* keeps the durable contents of the moment it was taken.                   *)
(*                                                                         *)
(* A content is the set of the writes an extent's bytes come from: {} is a  *)
(* hole, a full overwrite leaves one write, a partial one adds to the set.  *)
(***************************************************************************)
EXTENDS Naturals

CONSTANTS Slot,        \* the extents (one per file)
          Datum,       \* what a write may carry
          Name         \* the names checkpoints go by

VARIABLES mem,         \* mem[s]: the content a reader of s sees
          durable,     \* durable[s]: the content a restart recovers
          pinned,      \* pinned[n][s]: the content checkpoint n keeps of s
          written,     \* the writes that have taken effect
          epoch        \* how often the server was restarted

avars == <<mem, durable, pinned, written, epoch>>

Init ==
    /\ mem = [s \in Slot |-> {}]
    /\ durable = mem
    /\ pinned = <<>>
    /\ written = {}
    /\ epoch = 0

(* A write, once: over the whole extent, over a part of it, or zeroes over  *)
(* all of it.                                                               *)
Write(s) ==
    /\ \E v \in Datum \ written :
          /\ \/ mem' = [mem EXCEPT ![s] = {v}]
             \/ mem' = [mem EXCEPT ![s] = @ \cup {v}]
             \/ mem' = [mem EXCEPT ![s] = {}]
          /\ written' = written \cup {v}
    /\ UNCHANGED <<durable, pinned, epoch>>

Flush ==
    /\ durable' = mem
    /\ UNCHANGED <<mem, pinned, written, epoch>>

Crash ==
    /\ mem' = durable
    /\ epoch' = epoch + 1
    /\ UNCHANGED <<durable, pinned, written>>

(* Taking, or retaking, the checkpoint n.                                   *)
Pin(n) ==
    /\ pinned' = [m \in DOMAIN pinned \cup {n} |-> IF m = n THEN durable ELSE pinned[m]]
    /\ UNCHANGED <<mem, durable, written, epoch>>

(* Dropping some of the checkpoints: by name, or because they expired.      *)
Unpin ==
    /\ \E D \in SUBSET DOMAIN pinned : pinned' = [m \in DOMAIN pinned \ D |-> pinned[m]]
    /\ UNCHANGED <<mem, durable, written, epoch>>

Next ==
    \/ \E s \in Slot : Write(s)
    \/ Flush
    \/ Crash
    \/ \E n \in Name : Pin(n)
    \/ Unpin

Spec == Init /\ [][Next]_avars
=============================================================================
