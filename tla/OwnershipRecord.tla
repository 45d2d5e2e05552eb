-------------------------- MODULE OwnershipRecord --------------------------
(***************************************************************************)
(* The values of the durable HA ownership record of ZeroFS                 *)
(* (replication/leader_record.rs) and the functions that compute the next  *)
(* one:  (absent | Active) -> Claiming -> Opening -> Active.               *)
(*                                                                         *)
(* One flat record stands for the enum RecordState: Claiming and Opening   *)
(* carry floor, rev and last; Active carries epoch; the fields a phase     *)
(* does not have are 0 or NoLast.  The incarnation UUID is a counter.      *)
(***************************************************************************)
EXTENDS Naturals

CONSTANTS
    Node,          \* node_ids of the replication pair
    NoNode,        \* stands for "nobody"
    MarkerEpochs   \* possible epochs of a pre-existing bootstrap leader marker

ASSUME NodeAssumption == NoNode \notin Node
ASSUME MarkerAssumption == MarkerEpochs \subseteq Nat \ {0}

Owner == [node : Node, inc : Nat]

NoOwner == [node |-> NoNode, inc |-> 0]

LastActive == [gen : Nat, owner : Owner \cup {NoOwner}, epoch : Nat]

NoLast == [gen |-> 0, owner |-> NoOwner, epoch |-> 0]

\* LastActive::from_leader_marker: the marker has an epoch and a node only.
Markers == {NoLast} \cup
    {[gen |-> e, owner |-> [node |-> n, inc |-> 0], epoch |-> e] : n \in Node, e \in MarkerEpochs}

Phase == {"absent", "claiming", "opening", "active"}

Record == [gen : Nat, phase : Phase, owner : Owner \cup {NoOwner},
           floor : Nat, rev : Nat, last : LastActive, epoch : Nat]

NoRecord == [gen |-> 0, phase |-> "absent", owner |-> NoOwner,
             floor |-> 0, rev |-> 0, last |-> NoLast, epoch |-> 0]

InHandoff(r) == r.phase \in {"claiming", "opening"}

\* LastActive::from_active
LastOf(r) == [gen |-> r.gen, owner |-> r.owner, epoch |-> r.epoch]

\* Mutant: a claim of an unfinished handoff, and the first claim, forget the last
\* writer they inherit.
MutClaimBaseForgets(r, m) ==
    CASE r.phase = "active" -> [gen |-> r.gen, floor |-> r.epoch, last |-> LastOf(r)]
      [] InHandoff(r) -> [gen |-> r.gen, floor |-> r.floor, last |-> NoLast]
      [] r.phase = "absent" -> [gen |-> m.epoch, floor |-> m.epoch, last |-> NoLast]

\* claim_base, and the bootstrap marker m where there is no record yet.
ClaimBase(r, m) ==
    CASE r.phase = "active" -> [gen |-> r.gen, floor |-> r.epoch, last |-> LastOf(r)]
      [] InHandoff(r) -> [gen |-> r.gen, floor |-> r.floor, last |-> r.last]
      [] r.phase = "absent" -> [gen |-> m.epoch, floor |-> m.epoch, last |-> m]

\* Mutant: the floor admits the last writer's own epoch.
MutClaimedBelowFloor(r, m, o) ==
    [gen |-> ClaimBase(r, m).gen + 1, phase |-> "claiming", owner |-> o,
     floor |-> ClaimBase(r, m).floor - 1, rev |-> 1, last |-> ClaimBase(r, m).last, epoch |-> 0]

Claimed(r, m, o) ==
    [gen |-> ClaimBase(r, m).gen + 1, phase |-> "claiming", owner |-> o,
     floor |-> ClaimBase(r, m).floor, rev |-> 1, last |-> ClaimBase(r, m).last, epoch |-> 0]

RenewedHandoff(r) == [r EXCEPT !.rev = @ + 1]

Opened(r) == [RenewedHandoff(r) EXCEPT !.phase = "opening"]

Activated(r, e) ==
    [gen |-> r.gen, phase |-> "active", owner |-> r.owner,
     floor |-> 0, rev |-> 0, last |-> NoLast, epoch |-> e]

\* OwnershipRecord::validate: what parse accepts on every read.
Valid(r) ==
    /\ r.gen > 0
    /\ r.owner # NoOwner
    /\ r.phase = "active" => r.epoch > 0
    /\ InHandoff(r) =>
          /\ r.rev > 0
          /\ r.last # NoLast => r.last.gen < r.gen /\ r.last.epoch <= r.floor

\* latest_writer: the last Active writer that the record, or the marker, names.
LatestWriter(r, m) ==
    CASE r.phase = "active" -> LastOf(r)
      [] InHandoff(r) -> r.last
      [] r.phase = "absent" -> m

\* Mutant: any handoff in progress passes for one's own.
MutSameAttemptAny(mine, current) == InHandoff(mine) /\ InHandoff(current)

\* reconcile_own_handoff_revision: `current` continues the attempt that owns `mine`.
SameAttempt(mine, current) ==
    /\ InHandoff(mine)
    /\ current.gen = mine.gen
    /\ current.phase = mine.phase
    /\ current.owner = mine.owner
    /\ current.floor = mine.floor
    /\ current.last = mine.last
    /\ current.rev >= mine.rev
=============================================================================
