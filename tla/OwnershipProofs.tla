-------------------------- MODULE OwnershipProofs --------------------------
(***************************************************************************)
(* The ownership record, for any number of nodes, generations, revisions,  *)
(* claims and stray PUTs:                                                  *)
(*   - the abstract cell keeps one owner per generation, orders writer     *)
(*     epochs like generations, names the latest writer, stays parseable   *)
(*     and never returns to an old value (CellInv is inductive);           *)
(*   - Ownership implements the cell (OwnInv is inductive), and a writer   *)
(*     that opened the database is always above the floor.                 *)
(***************************************************************************)
EXTENDS Ownership, TLAPS

-----------------------------------------------------------------------------
(* Records *)

\* A bootstrap marker is a LastActive whose generation is its epoch (LastActive::from_leader_marker).
LEMMA MarkerType ==
    ASSUME NEW m \in Markers
    PROVE  m \in LastActive /\ m.gen = m.epoch /\ m.epoch \in Nat
  BY MarkerAssumption DEF Markers, NoLast, LastActive, Owner, NoOwner

\* What a claim of r writes: the next generation, and floor and last writer carried over (claim_base).
LEMMA ClaimedFacts ==
    ASSUME NEW r \in Record, NEW m \in Markers, NEW o \in Owner
    PROVE  /\ Claimed(r, m, o) \in Record
           /\ Claimed(r, m, o).phase = "claiming" /\ Claimed(r, m, o).owner = o
           /\ Claimed(r, m, o).rev = 1 /\ Claimed(r, m, o).epoch = 0
           /\ Claimed(r, m, o).last = LatestWriter(r, m)
           /\ r.phase = "active" => /\ Claimed(r, m, o).gen = r.gen + 1
                                    /\ Claimed(r, m, o).floor = r.epoch
           /\ InHandoff(r) => /\ Claimed(r, m, o).gen = r.gen + 1
                              /\ Claimed(r, m, o).floor = r.floor
           /\ r.phase = "absent" => /\ Claimed(r, m, o).gen = m.epoch + 1
                                    /\ Claimed(r, m, o).floor = m.epoch
  <1>. m \in LastActive
    BY MarkerType
  <1>1. CASE r.phase = "active"
    BY <1>1 DEF Record, LastActive, Claimed, ClaimBase, LastOf, InHandoff, LatestWriter, Phase
  <1>2. CASE InHandoff(r)
    BY <1>2 DEF Record, LastActive, Claimed, ClaimBase, LastOf, InHandoff, LatestWriter, Phase
  <1>3. CASE r.phase = "absent"
    BY <1>3 DEF Record, LastActive, Claimed, ClaimBase, LastOf, InHandoff, LatestWriter, Phase
  <1>. QED
    BY <1>1, <1>2, <1>3 DEF Record, Phase, InHandoff

\* Renewing and opening advance the revision and keep the rest of the attempt (renewed_handoff).
LEMMA StepFacts ==
    ASSUME NEW r \in Record, NEW s, s = RenewedHandoff(r) \/ s = Opened(r)
    PROVE  /\ s \in Record
           /\ s.gen = r.gen /\ s.owner = r.owner /\ s.rev = r.rev + 1
           /\ s.floor = r.floor /\ s.last = r.last /\ s.epoch = r.epoch
           /\ s = RenewedHandoff(r) => s.phase = r.phase
           /\ s = Opened(r) => s.phase = "opening"
  <1>. DEFINE t == RenewedHandoff(r)
  <1>1. /\ t \in Record /\ t.gen = r.gen /\ t.owner = r.owner /\ t.rev = r.rev + 1
        /\ t.floor = r.floor /\ t.last = r.last /\ t.epoch = r.epoch /\ t.phase = r.phase
    BY DEF Record, RenewedHandoff
  <1>. DEFINE u == Opened(r)
  <1>2. u = [t EXCEPT !.phase = "opening"]
    BY DEF Opened
  <1>. HIDE DEF t, u
  <1>3. /\ u \in Record /\ u.gen = t.gen /\ u.owner = t.owner /\ u.rev = t.rev
        /\ u.floor = t.floor /\ u.last = t.last /\ u.epoch = t.epoch /\ u.phase = "opening"
    BY <1>1, <1>2 DEF Record, Phase
  <1>4. s = t \/ s = u
    BY DEF t, u
  <1>5. r.gen = t.gen /\ (s = RenewedHandoff(r) => s = t) /\ (s = Opened(r) => s = u)
    BY <1>1 DEF t, u
  <1>. QED
    BY <1>1, <1>3, <1>4, <1>5

\* Activating keeps generation and owner and publishes the epoch (activate).
LEMMA ActivatedFacts ==
    ASSUME NEW r \in Record, NEW e \in Nat
    PROVE  /\ Activated(r, e) \in Record
           /\ Activated(r, e).gen = r.gen /\ Activated(r, e).owner = r.owner
           /\ Activated(r, e).phase = "active" /\ Activated(r, e).epoch = e
           /\ Activated(r, e).floor = 0
  <1>1. NoLast \in LastActive
    BY DEF NoLast, LastActive
  <1>. QED
    BY <1>1 DEF Record, Activated, Phase

\* Every successor of a record is a record (the transitions of leader_record.rs).
LEMMA SuccessorType ==
    ASSUME NEW r \in Record, NEW m \in Markers, NEW s, Successor(r, m, s)
    PROVE  s \in Record
  BY ClaimedFacts, StepFacts, ActivatedFacts DEF Successor

-----------------------------------------------------------------------------
(* The cell *)

CellType ==
    /\ object \in Record
    /\ marker \in Markers
    /\ history \subseteq Record

\* The record in the store is the newest of its history.
Newest ==
    /\ object.phase = "absent" => object = NoRecord /\ history = {}
    /\ object.phase # "absent" => object \in history
    /\ \A r \in history :
          /\ r.phase # "absent"
          /\ r.gen <= object.gen
          /\ r.gen = object.gen /\ InHandoff(object) => InHandoff(r) /\ r.rev <= object.rev
          /\ r.gen = object.gen /\ r.phase = "active" => r = object
          /\ r.gen = object.gen => r.owner = object.owner

\* The record's floor, or its own epoch, covers every earlier Active writer.
FloorCovers ==
    \A r \in Actives : r.gen < object.gen =>
        /\ InHandoff(object) => r.epoch <= object.floor
        /\ object.phase = "active" => r.epoch < object.epoch

CellInv ==
    /\ CellType
    /\ Newest
    /\ FloorCovers
    /\ OneOwnerPerGeneration
    /\ EpochsFollowGenerations
    /\ LatestWriterExact
    /\ RecordsValid

\* A legal successor is new: it is not in the history (a superseded record never returns).
LEMMA SuccessorIsNew ==
    ASSUME CellType, Newest, NEW s, Successor(object, marker, s)
    PROVE  s \notin history
  <1>. USE DEF CellType
  <1>1. CASE s.owner \in Owner /\ s = Claimed(object, marker, s.owner)
    <2>1. CASE object.phase = "absent"
      BY <2>1 DEF Newest
    <2>2. CASE object.phase # "absent"
      <3>1. s.gen = object.gen + 1
        BY <1>1, <2>2, ClaimedFacts DEF Record, Phase, InHandoff
      <3>. QED
        BY <3>1 DEF Newest, Record
    <2>. QED
      BY <2>1, <2>2
  <1>2. CASE InHandoff(object) /\ s = RenewedHandoff(object)
    <2>1. s.gen = object.gen /\ s.rev = object.rev + 1
      BY <1>2, StepFacts
    <2>. QED
      BY <1>2, <2>1 DEF Newest, Record
  <1>3. CASE object.phase = "claiming" /\ s = Opened(object)
    <2>1. s.gen = object.gen /\ s.rev = object.rev + 1
      BY <1>3, StepFacts
    <2>. QED
      BY <1>3, <2>1 DEF Newest, Record, InHandoff
  <1>4. CASE object.phase = "opening" /\ s = Activated(object, s.epoch)
    <2>1. s.gen = object.gen /\ s.phase = "active"
      BY <1>4 DEF Activated, Record
    <2>. QED
      BY <1>4, <2>1 DEF Newest, Record, InHandoff
  <1>. QED
    BY <1>1, <1>2, <1>3, <1>4 DEF Successor

\* Each cell step keeps the invariant (the step that conjoins all phases of a handoff).
LEMMA CellStep ==
    ASSUME CellInv, CellNext
    PROVE  CellInv'
  <1>. DEFINE s == object'
  <1>. USE DEF CellType
  <1>1. /\ Successor(object, marker, s) /\ history' = history \cup {s} /\ marker' = marker
    BY DEF CellNext, Install
  <1>2. /\ object \in Record /\ marker \in Markers /\ history \subseteq Record
        /\ marker \in LastActive /\ marker.gen = marker.epoch
    BY MarkerType DEF CellInv
  <1>3. CASE s.owner \in Owner /\ s = Claimed(object, marker, s.owner)
    <2>1. /\ s \in Record /\ s.phase = "claiming" /\ s.rev = 1 /\ InHandoff(s)
          /\ s.last = LatestWriter(object, marker)
          /\ object.phase = "active" => s.gen = object.gen + 1 /\ s.floor = object.epoch
          /\ InHandoff(object) => s.gen = object.gen + 1 /\ s.floor = object.floor
          /\ object.phase = "absent" => s.gen = marker.epoch + 1 /\ s.floor = marker.epoch
      BY <1>2, <1>3, ClaimedFacts DEF InHandoff
    <2>2. \A r \in history : r.gen < s.gen
      BY <1>2, <2>1 DEF CellInv, Newest, Record, Phase, InHandoff
    <2>3. Actives' = Actives
      BY <1>1, <2>1 DEF Actives
    <2>4. Newest'
      BY <1>1, <1>2, <2>1, <2>2 DEF CellInv, Newest, Record
    <2>5. FloorCovers'
      BY <1>1, <1>2, <2>1, <2>3 DEF CellInv, Newest, FloorCovers, Actives, Record, Phase, InHandoff
    <2>6. OneOwnerPerGeneration'
      BY <1>1, <1>2, <2>1, <2>2 DEF CellInv, OneOwnerPerGeneration, Record
    <2>7. EpochsFollowGenerations'
      BY <2>3 DEF CellInv, EpochsFollowGenerations
    <2>8. LatestWriterExact'
      BY <1>1, <2>1, <2>3 DEF CellInv, LatestWriterExact, LatestWriter, InHandoff
    <2>9. Valid(s)
      <3>1. s.owner # NoOwner /\ s.gen > 0
        BY <1>2, <1>3, <2>1, NodeAssumption DEF Owner, NoOwner, Record, LastActive, Phase, InHandoff
      <3>2. s.last # NoLast => s.last.gen < s.gen /\ s.last.epoch <= s.floor
        BY <1>2, <2>1 DEF CellInv, Newest, RecordsValid, Valid, Record, LastActive, Phase,
                          InHandoff, LatestWriter, LastOf
      <3>. QED
        BY <2>1, <3>1, <3>2 DEF Valid
    <2>. QED
      BY <1>1, <1>2, <2>1, <2>4, <2>5, <2>6, <2>7, <2>8, <2>9 DEF CellInv, RecordsValid
  <1>4. CASE \/ InHandoff(object) /\ s = RenewedHandoff(object)
             \/ object.phase = "claiming" /\ s = Opened(object)
    <2>1. /\ s \in Record /\ InHandoff(object) /\ InHandoff(s)
          /\ s.gen = object.gen /\ s.owner = object.owner /\ s.rev = object.rev + 1
          /\ s.floor = object.floor /\ s.last = object.last
      BY <1>2, <1>4, StepFacts DEF InHandoff
    <2>2. object \in history
      BY <2>1 DEF CellInv, Newest, InHandoff
    <2>3. Actives' = Actives
      BY <1>1, <2>1 DEF Actives, InHandoff
    <2>4. Newest'
      BY <1>1, <1>2, <2>1, <2>2 DEF CellInv, Newest, Record, InHandoff
    <2>5. FloorCovers'
      BY <1>1, <2>1, <2>3 DEF CellInv, FloorCovers, InHandoff
    <2>6. OneOwnerPerGeneration'
      BY <1>1, <2>1, <2>2 DEF CellInv, OneOwnerPerGeneration, Newest
    <2>7. EpochsFollowGenerations'
      BY <2>3 DEF CellInv, EpochsFollowGenerations
    <2>8. LatestWriterExact'
      BY <1>1, <2>1, <2>3 DEF CellInv, LatestWriterExact, LatestWriter, InHandoff
    <2>9. Valid(s)
      BY <1>2, <2>1, <2>2 DEF CellInv, RecordsValid, Valid, InHandoff, Record
    <2>. QED
      BY <1>1, <1>2, <2>1, <2>4, <2>5, <2>6, <2>7, <2>8, <2>9 DEF CellInv, RecordsValid
  <1>5. CASE /\ object.phase = "opening" /\ s = Activated(object, s.epoch)
             /\ s.epoch \in Nat /\ s.epoch > object.floor
    <2>1. /\ s \in Record /\ InHandoff(object) /\ ~InHandoff(s) /\ s.phase = "active"
          /\ s.gen = object.gen /\ s.owner = object.owner
      BY <1>2, <1>5, ActivatedFacts DEF InHandoff
    <2>2. object \in history /\ object.owner # NoOwner /\ object.gen > 0
      BY <2>1 DEF CellInv, Newest, RecordsValid, Valid, InHandoff
    <2>3. Actives' = Actives \cup {s}
      BY <1>1, <2>1 DEF Actives
    <2>4. \A r \in Actives : r.gen < s.gen /\ r.epoch < s.epoch /\ r.gen \in Nat
      BY <1>2, <1>5, <2>1 DEF CellInv, Newest, FloorCovers, Actives, Record, InHandoff
    <2>5. Newest'
      BY <1>1, <1>2, <2>1, <2>2, <2>4 DEF CellInv, Newest, Record, Actives
    <2>6. FloorCovers'
      BY <1>1, <2>1, <2>3, <2>4 DEF FloorCovers, Record
    <2>7. OneOwnerPerGeneration'
      BY <1>1, <2>1, <2>2 DEF CellInv, OneOwnerPerGeneration, Newest
    <2>8. EpochsFollowGenerations'
      <3>1. s.gen \in Nat
        BY <2>1 DEF Record
      <3>. QED
        BY <2>3, <2>4, <3>1 DEF CellInv, EpochsFollowGenerations
    <2>9. LatestWriterExact'
      <3>1. LatestWriter(s, marker') = LastOf(s) /\ LastOf(s).gen = s.gen /\ s.gen \in Nat
        BY <2>1 DEF LatestWriter, LastOf, Record
      <3>. QED
        BY <2>3, <2>4, <3>1 DEF LatestWriterExact
    <2>10. Valid(s)
      BY <1>2, <1>5, <2>1, <2>2 DEF Valid, Record
    <2>. QED
      BY <1>1, <1>2, <2>1, <2>5, <2>6, <2>7, <2>8, <2>9, <2>10 DEF CellInv, RecordsValid
  <1>. QED
    BY <1>1, <1>3, <1>4, <1>5 DEF Successor

\* CellInv holds in every behaviour of the abstract cell of leader_record.rs.
THEOREM CellSafety == CellSpec => []CellInv
  <1>1. CellInit => CellInv
    <2>. SUFFICES ASSUME CellInit PROVE CellInv
      OBVIOUS
    <2>1. NoRecord \in Record /\ NoRecord.phase = "absent" /\ ~InHandoff(NoRecord)
      <3>1. NoLast \in LastActive
        BY DEF NoLast, LastActive
      <3>. QED
        BY <3>1 DEF NoRecord, Record, Phase, InHandoff
    <2>2. Actives = {}
      BY DEF CellInit, Actives
    <2>3. LatestWriterExact
      BY <2>1, <2>2 DEF CellInit, LatestWriterExact, LatestWriter
    <2>. QED
      BY <2>1, <2>2, <2>3 DEF CellInit, CellInv, CellType, Newest, FloorCovers,
          OneOwnerPerGeneration, EpochsFollowGenerations, RecordsValid
  <1>2. CellInv /\ [CellNext]_cellVars => CellInv'
    <2>1. ASSUME CellInv, UNCHANGED cellVars PROVE CellInv'
      BY <2>1 DEF cellVars, CellInv, CellType, Newest, FloorCovers, OneOwnerPerGeneration,
          EpochsFollowGenerations, LatestWriterExact, RecordsValid, Actives
    <2>. QED
      BY <2>1, CellStep
  <1>. QED
    BY <1>1, <1>2, PTL DEF CellSpec

\* The cell never returns to a value it had: a superseded owner stays superseded.
THEOREM CellNeverReinstalls == CellSpec => NeverReinstalled
  <1>1. CellInv /\ [CellNext]_cellVars => [object' # object => object' \notin history]_cellVars
    BY SuccessorIsNew DEF CellInv, CellNext
  <1>. QED
    BY <1>1, CellSafety, PTL DEF CellSpec, NeverReinstalled

-----------------------------------------------------------------------------
(* Nodes, PUTs and the store *)

Holding == {"claimed", "opening", "validated", "opened", "checked"}

Bounded(r, d) == r.floor <= d /\ r.epoch <= d

\* An attempt knows its phase, its outstanding PUT is a legal step from the
\* record it expects, and no epoch it carries is ahead of the database's (d).
AttemptOK(a, m, d) ==
    /\ a.st = "none" <=> a.op = "none"
    /\ a.st # "none" => Successor(a.rec, m, a.want)
    /\ a.op = "claim" <=> a.pc = "claiming"
    /\ a.op = "claim" => a.want.phase = "claiming"
    /\ a.op = "renew" => a.pc \in Holding /\ a.want = RenewedHandoff(a.rec)
    /\ a.op = "open" => a.pc = "claimed" /\ a.want = Opened(a.rec)
    /\ a.op = "activate" => /\ a.pc = "checked" /\ a.want = Activated(a.rec, a.want.epoch)
                            /\ a.want.epoch > a.rec.floor
    /\ a.pc = "claimed" => a.rec.phase = "claiming"
    /\ a.pc \in Holding \ {"claimed"} => a.rec.phase = "opening"
    /\ Bounded(a.rec, d) /\ Bounded(a.want, d)
    /\ a.epoch <= d
    /\ a.epoch > 0 => a.pc \in {"opened", "checked", "active"}
    /\ a.epoch > 0 /\ a.pc # "active" => a.epoch > a.rec.floor

OrphanOK(p, m, d) == Successor(p.expect, m, p.want) /\ Bounded(p.want, d)

OwnInv ==
    /\ TypeOK
    /\ marker \in Markers /\ marker.epoch <= dbEpoch
    /\ Bounded(object, dbEpoch)
    /\ \A n \in Node : AttemptOK(att[n], marker, dbEpoch)
    /\ \A p \in orphans : OrphanOK(p, marker, dbEpoch)

\* A step that only replaces one attempt by a sound one keeps the invariant (no store effect).
LEMMA AttemptStep ==
    ASSUME OwnInv, NEW n \in Node, NEW a \in Attempt, AttemptOK(a, marker, dbEpoch),
           att' = [att EXCEPT ![n] = a],
           UNCHANGED <<object, marker, history, dbEpoch, orphans>>,
           nextInc' \in Nat \ {0}
    PROVE  OwnInv'
  BY DEF OwnInv, TypeOK

\* An idle node holds nothing (a node back in role election).
LEMMA IdleOK ==
    ASSUME NEW m, NEW d \in Nat
    PROVE  Idle \in Attempt /\ AttemptOK(Idle, m, d)
  <1>1. NoRecord \in Record
    <2>1. NoLast \in LastActive
      BY DEF NoLast, LastActive
    <2>. QED
      BY <2>1 DEF NoRecord, Record, Phase
  <1>2. NoRecord.floor = 0 /\ NoRecord.epoch = 0
    BY DEF NoRecord
  <1>3. Idle \in Attempt
    BY <1>1 DEF Idle, Attempt, Pc, Op
  <1>. QED
    BY <1>2, <1>3 DEF Idle, AttemptOK, Holding, Bounded

\* The record in the store and the attempt's own are one attempt: same phase, floor and owner
\* (reconcile_own_handoff_revision), so a transition planned on one is legal on the other.
LEMMA ActivatedSame ==
    ASSUME NEW r \in Record, NEW s \in Record, SameAttempt(r, s), NEW e
    PROVE  Activated(s, e) = Activated(r, e)
  BY DEF SameAttempt, Activated

\* An attempt that goes on under a revision r of its own record, with a PUT w that is a
\* legal step of the right kind in flight, is sound (renewal, begin_open, activate).
LEMMA SendOK ==
    ASSUME NEW a \in Attempt, NEW m \in Markers, NEW d \in Nat, AttemptOK(a, m, d),
           a.pc \in Holding, NEW b \in Attempt,
           b.pc = a.pc, b.epoch = a.epoch, b.st # "none", b.op \in Op \ {"none", "claim"},
           Bounded(b.rec, d), b.rec.phase = a.rec.phase, b.rec.floor = a.rec.floor,
           Successor(b.rec, m, b.want), Bounded(b.want, d),
           b.op = "renew" => b.want = RenewedHandoff(b.rec),
           b.op = "open" => b.pc = "claimed" /\ b.want = Opened(b.rec),
           b.op = "activate" => /\ b.pc = "checked" /\ b.want = Activated(b.rec, b.want.epoch)
                                /\ b.want.epoch > b.rec.floor
    PROVE  AttemptOK(b, m, d)
  BY DEF AttemptOK, Holding

\* A first claim is a legal step from any record a node may read (claim_inner).
LEMMA ClaimSendOK ==
    ASSUME NEW r \in Record, NEW m \in Markers, NEW d \in Nat, Bounded(r, d), m.epoch <= d,
           NEW o \in Owner
    PROVE  LET a == Send([Idle EXCEPT !.pc = "claiming", !.rec = r], "claim", Claimed(r, m, o))
           IN  a \in Attempt /\ AttemptOK(a, m, d)
  <1>. DEFINE w == Claimed(r, m, o)
              i == [Idle EXCEPT !.pc = "claiming", !.rec = r]
              a == Send(i, "claim", w)
  <1>1. w \in Record /\ w.phase = "claiming" /\ w.owner = o /\ Bounded(w, d)
    BY ClaimedFacts, MarkerType DEF Bounded, Record, Phase, InHandoff
  <1>2. Successor(r, m, w)
    BY <1>1 DEF Successor
  <1>. HIDE DEF w
  <1>3. /\ i \in Attempt /\ i.pc = "claiming" /\ i.rec = r /\ i.epoch = 0
    BY IdleOK DEF Idle, Attempt, Pc, NoRecord
  <1>. HIDE DEF i
  <1>4. /\ a \in Attempt /\ a.pc = "claiming" /\ a.rec = r /\ a.epoch = 0
        /\ a.op = "claim" /\ a.want = w /\ a.st = "flying"
    BY <1>1, <1>3 DEF Send, Attempt, Op
  <1>. HIDE DEF a
  <1>5. AttemptOK(a, m, d)
    BY <1>1, <1>2, <1>4 DEF AttemptOK, Holding
  <1>. QED
    BY <1>4, <1>5 DEF a, i, w

\* An attempt that goes on under a revision of its own record with no PUT is sound.
LEMMA SettleOK ==
    ASSUME NEW a \in Attempt, NEW m, NEW d \in Nat, AttemptOK(a, m, d), a.op # "claim",
           NEW b \in Attempt, b.pc = a.pc, b.epoch = a.epoch,
           b.op = "none", b.want = NoRecord, b.st = "none",
           Bounded(b.rec, d), b.rec.phase = a.rec.phase, b.rec.floor = a.rec.floor
    PROVE  AttemptOK(b, m, d)
  <1>1. Bounded(NoRecord, d)
    BY DEF NoRecord, Bounded
  <1>. QED
    BY <1>1 DEF AttemptOK

\* Learning that the PUT was applied moves the attempt to its next phase (write_exact: Applied).
LEMMA AfterAppliedOK ==
    ASSUME NEW a \in Attempt, NEW m \in Markers, NEW d \in Nat, AttemptOK(a, m, d), a.st # "none"
    PROVE  AfterApplied(a) \in Attempt /\ AttemptOK(AfterApplied(a), m, d)
  <1>. DEFINE s == Settle(a)
              pc == CASE a.op = "claim" -> "claimed"
                      [] a.op = "open" -> "opening"
                      [] a.op = "activate" -> "active"
                      [] a.op = "renew" -> a.pc
              b == [s EXCEPT !.rec = a.want, !.pc = pc]
  <1>1. /\ s \in Attempt /\ s.pc = a.pc /\ s.rec = a.rec /\ s.epoch = a.epoch
        /\ s.op = "none" /\ s.want = NoRecord /\ s.st = "none"
    BY IdleOK DEF Settle, Attempt, Op, Idle
  <1>2. AfterApplied(a) = b
    BY DEF AfterApplied
  <1>3. /\ pc \in Pc
        /\ a.op = "claim" => pc = "claimed"
        /\ a.op = "open" => pc = "opening"
        /\ a.op = "activate" => pc = "active"
        /\ a.op = "renew" => pc = a.pc
    BY DEF Attempt, Op, AttemptOK, Pc
  <1>. HIDE DEF s, pc
  <1>4. /\ b \in Attempt /\ b.pc = pc /\ b.rec = a.want /\ b.epoch = a.epoch
        /\ b.op = "none" /\ b.want = NoRecord /\ b.st = "none"
    BY <1>1, <1>3 DEF Attempt
  <1>5. Bounded(NoRecord, d)
    BY DEF NoRecord, Bounded
  <1>. HIDE DEF b
  <1>. SUFFICES AttemptOK(b, m, d)
    BY <1>2, <1>4
  <1>6. a.rec \in Record /\ a.want \in Record /\ a.op \in Op \ {"none"}
    BY DEF Attempt, AttemptOK
  <1>7. CASE a.op = "claim"
    BY <1>3, <1>4, <1>5, <1>6, <1>7 DEF AttemptOK, Holding
  <1>8. CASE a.op = "renew"
    <2>1. a.want.phase = a.rec.phase /\ a.want.floor = a.rec.floor
      BY <1>6, <1>8, StepFacts DEF AttemptOK
    <2>. QED
      BY <1>3, <1>4, <1>5, <1>8, <2>1 DEF AttemptOK
  <1>9. CASE a.op = "open"
    <2>1. a.want.phase = "opening" /\ a.epoch = 0
      BY <1>6, <1>9, StepFacts DEF AttemptOK, Attempt
    <2>. QED
      BY <1>3, <1>4, <1>5, <1>9, <2>1 DEF AttemptOK, Holding
  <1>10. CASE a.op = "activate"
    BY <1>3, <1>4, <1>5, <1>10 DEF AttemptOK, Holding
  <1>. QED
    BY <1>6, <1>7, <1>8, <1>9, <1>10 DEF Op

\* Giving up a PUT that may still fly keeps the invariant: it stays a legal step (Drop for HandoffLease).
LEMMA AbandonStep ==
    ASSUME OwnInv, NEW n \in Node, NEW a \in Attempt, AttemptOK(a, marker, dbEpoch),
           Abandon(n), att' = [att EXCEPT ![n] = a],
           UNCHANGED <<object, marker, history, dbEpoch, nextInc>>
    PROVE  OwnInv'
  <1>1. att[n] \in Attempt /\ AttemptOK(att[n], marker, dbEpoch)
    BY DEF OwnInv, TypeOK
  <1>2. att[n].st = "flying" => PutOf(n) \in Put /\ OrphanOK(PutOf(n), marker, dbEpoch)
    BY <1>1 DEF AttemptOK, PutOf, Put, OrphanOK, Attempt
  <1>3. orphans' \subseteq Put /\ \A p \in orphans' : OrphanOK(p, marker, dbEpoch)
    BY <1>2 DEF Abandon, OwnInv, TypeOK
  <1>. QED
    BY <1>3 DEF OwnInv, TypeOK

\* Installing a legal successor keeps every part of the invariant about the store.
LEMMA InstallStep ==
    ASSUME OwnInv, NEW w \in Record, Bounded(w, dbEpoch), Install(w),
           NEW n \in Node, NEW a \in Attempt, AttemptOK(a, marker, dbEpoch),
           att' = [att EXCEPT ![n] = a], orphans' \subseteq orphans,
           UNCHANGED <<marker, dbEpoch, nextInc>>
    PROVE  OwnInv'
  BY DEF OwnInv, TypeOK, Install

\* The node's own steps keep the invariant: one case per action of Ownership.
LEMMA NodeStepInv ==
    ASSUME OwnInv, NEW n \in Node, NodeStep(n)
    PROVE  OwnInv'
  <1>. DEFINE a == att[n]
  <1>1. /\ a \in Attempt /\ AttemptOK(a, marker, dbEpoch) /\ marker \in Markers
        /\ object \in Record /\ dbEpoch \in Nat /\ nextInc \in Nat \ {0}
        /\ marker.epoch <= dbEpoch /\ Bounded(object, dbEpoch)
        /\ a.rec \in Record /\ a.want \in Record
        /\ Idle \in Attempt /\ AttemptOK(Idle, marker, dbEpoch)
    BY IdleOK DEF OwnInv, TypeOK, Attempt
  <1>2. ASSUME Set(n, Idle), UNCHANGED <<object, marker, dbEpoch, orphans, history, nextInc>>
        PROVE  OwnInv'
    BY <1>1, <1>2, AttemptStep DEF Set
  <1>3. ASSUME SendClaim(n, object), UNCHANGED <<object, marker, dbEpoch, orphans, history>>
        PROVE  OwnInv'
    <2>. DEFINE o == [node |-> n, inc |-> nextInc]
                b == Send([Idle EXCEPT !.pc = "claiming", !.rec = object], "claim",
                          Claimed(object, marker, o))
    <2>1. o \in Owner
      BY <1>1 DEF Owner
    <2>2. b \in Attempt /\ AttemptOK(b, marker, dbEpoch)
      BY <1>1, <2>1, ClaimSendOK
    <2>3. att' = [att EXCEPT ![n] = b] /\ nextInc' = nextInc + 1
      BY <1>3 DEF SendClaim, Set
    <2>. HIDE DEF b
    <2>4. nextInc' \in Nat \ {0}
      BY <1>1, <2>3
    <2>. QED
      BY <1>3, <2>2, <2>3, <2>4, AttemptStep
  <1>4. ASSUME NEW force \in BOOLEAN, ClaimNow(n, force) PROVE OwnInv'
    BY <1>3, <1>4 DEF ClaimNow
  <1>5. CASE Observe(n)
    <2>. DEFINE b == [Idle EXCEPT !.pc = "observing", !.rec = object]
    <2>1. /\ b \in Attempt /\ b.pc = "observing" /\ b.rec = object /\ b.epoch = 0
          /\ b.op = "none" /\ b.want = NoRecord /\ b.st = "none"
      BY <1>1 DEF Idle, Attempt, Pc, NoRecord
    <2>2. Bounded(NoRecord, dbEpoch)
      BY <1>1 DEF NoRecord, Bounded
    <2>3. att' = [att EXCEPT ![n] = b]
      BY <1>5 DEF Observe, Set
    <2>. HIDE DEF b
    <2>4. AttemptOK(b, marker, dbEpoch)
      BY <1>1, <2>1, <2>2 DEF AttemptOK, Holding
    <2>5. b \in Attempt /\ UNCHANGED <<object, marker, dbEpoch, orphans, history, nextInc>>
      BY <1>5, <2>1 DEF Observe
    <2>. QED
      BY <1>1, <2>3, <2>4, <2>5, AttemptStep
  <1>6. CASE ObservedStale(n)
    BY <1>3, <1>6 DEF ObservedStale
  <1>7. CASE ObservedLive(n)
    BY <1>2, <1>7 DEF ObservedLive
  <1>8. CASE StoreApplies(n)
    <2>. DEFINE b == [a EXCEPT !.st = "ok"]
    <2>1. /\ b \in Attempt /\ b.pc = a.pc /\ b.rec = a.rec /\ b.epoch = a.epoch
          /\ b.op = a.op /\ b.want = a.want /\ b.st = "ok" /\ a.st = "flying"
      BY <1>1, <1>8 DEF Attempt, StoreApplies
    <2>2. att' = [att EXCEPT ![n] = b] /\ Install(a.want)
      BY <1>8 DEF StoreApplies, Set
    <2>. HIDE DEF b
    <2>3. AttemptOK(b, marker, dbEpoch) /\ Bounded(a.want, dbEpoch)
      BY <1>1, <2>1 DEF AttemptOK
    <2>. QED
      BY <1>1, <1>8, <2>1, <2>2, <2>3, InstallStep DEF StoreApplies
  <1>9. CASE PutOk(n) \/ PutReconciled(n)
    <2>1. a.st # "none" /\ att' = [att EXCEPT ![n] = AfterApplied(a)]
      BY <1>9 DEF PutOk, PutReconciled, Set
    <2>2. AfterApplied(a) \in Attempt /\ AttemptOK(AfterApplied(a), marker, dbEpoch)
      BY <1>1, <2>1, AfterAppliedOK
    <2>. QED
      BY <1>1, <1>9, <2>1, <2>2, AttemptStep DEF PutOk, PutReconciled
  <1>10. CASE PutUnknown(n)
    <2>1. a.st # "none" /\ a.op \in {"claim", "renew", "open", "activate"} /\ Abandon(n)
      BY <1>1, <1>10 DEF PutUnknown, AttemptOK, Attempt, Op
    <2>2. CASE a.op = "claim"
      BY <1>1, <1>10, <2>1, <2>2, AbandonStep DEF PutUnknown, Set
    <2>3. CASE a.op = "renew"
      <3>1. att' = [att EXCEPT ![n] = Settle(a)]
        BY <1>10, <2>3 DEF PutUnknown, Set
      <3>2. /\ Settle(a) \in Attempt /\ Settle(a).pc = a.pc /\ Settle(a).rec = a.rec
            /\ Settle(a).epoch = a.epoch /\ Settle(a).op = "none"
            /\ Settle(a).want = NoRecord /\ Settle(a).st = "none"
        BY <1>1 DEF Settle, Attempt, Op, Idle
      <3>3. AttemptOK(Settle(a), marker, dbEpoch)
        BY <1>1, <2>3, <3>2, SettleOK DEF AttemptOK
      <3>. QED
        BY <1>1, <1>10, <2>1, <3>1, <3>2, <3>3, AbandonStep DEF PutUnknown
    <2>4. CASE a.op \in {"open", "activate"}
      <3>. DEFINE b == [a EXCEPT !.st = "flying"]
      <3>1. att' = [att EXCEPT ![n] = b]
        BY <1>10, <2>4 DEF PutUnknown, Set
      <3>2. /\ b \in Attempt /\ b.pc = a.pc /\ b.rec = a.rec /\ b.epoch = a.epoch
            /\ b.op = a.op /\ b.want = a.want /\ b.st = "flying"
        BY <1>1 DEF Attempt
      <3>. HIDE DEF b
      <3>3. AttemptOK(b, marker, dbEpoch)
        BY <1>1, <2>1, <3>2 DEF AttemptOK
      <3>. QED
        BY <1>1, <1>10, <2>1, <3>1, <3>2, <3>3, AbandonStep DEF PutUnknown
    <2>. QED
      BY <2>1, <2>2, <2>3, <2>4
  <1>11. CASE PutChanged(n)
    <2>. DEFINE adopted == [a EXCEPT !.rec = object]
    <2>1. /\ a.st # "none" /\ a.op \in {"claim", "renew", "open", "activate"}
          /\ UNCHANGED <<object, marker, dbEpoch, orphans, history, nextInc>>
      BY <1>1, <1>11 DEF PutChanged, AttemptOK, Attempt, Op
    <2>2. /\ adopted \in Attempt /\ adopted.pc = a.pc /\ adopted.rec = object
          /\ adopted.epoch = a.epoch /\ adopted.op = a.op /\ adopted.want = a.want
      BY <1>1 DEF Attempt
    <2>3. CASE Set(n, Idle)
      BY <1>2, <2>1, <2>3
    <2>4. CASE a.op = "renew" /\ SameAttempt(a.rec, object) /\ Set(n, Settle(adopted))
      <3>. HIDE DEF adopted
      <3>. DEFINE b == Settle(adopted)
      <3>1. /\ b \in Attempt /\ b.pc = a.pc /\ b.rec = object /\ b.epoch = a.epoch
            /\ b.op = "none" /\ b.want = NoRecord /\ b.st = "none"
        BY <1>1, <2>2 DEF Settle, Attempt, Op, Idle
      <3>. HIDE DEF b
      <3>2. AttemptOK(b, marker, dbEpoch)
        BY <1>1, <2>4, <3>1, SettleOK DEF SameAttempt
      <3>3. att' = [att EXCEPT ![n] = b]
        BY <2>4 DEF Set, b
      <3>. QED
        BY <1>1, <2>1, <3>1, <3>2, <3>3, AttemptStep
    <2>5. CASE a.op = "renew" /\ Set(n, [Settle(a) EXCEPT !.lost = TRUE])
      <3>. DEFINE c == Settle(a)
                  b == [c EXCEPT !.lost = TRUE]
      <3>1. /\ c \in Attempt /\ c.pc = a.pc /\ c.rec = a.rec /\ c.epoch = a.epoch
            /\ c.op = "none" /\ c.want = NoRecord /\ c.st = "none"
        BY <1>1 DEF Settle, Attempt, Op, Idle
      <3>2. att' = [att EXCEPT ![n] = b]
        BY <2>5 DEF Set
      <3>. HIDE DEF c
      <3>3. /\ b \in Attempt /\ b.pc = a.pc /\ b.rec = a.rec /\ b.epoch = a.epoch
            /\ b.op = "none" /\ b.want = NoRecord /\ b.st = "none"
        BY <3>1 DEF Attempt
      <3>. HIDE DEF b
      <3>4. AttemptOK(b, marker, dbEpoch)
        BY <1>1, <2>5, <3>3, SettleOK DEF AttemptOK
      <3>. QED
        BY <1>1, <2>1, <3>2, <3>3, <3>4, AttemptStep
    <2>6. CASE /\ a.op = "open" /\ SameAttempt(a.rec, object)
               /\ Set(n, Send(adopted, "open", Opened(object)))
      <3>. HIDE DEF adopted
      <3>. DEFINE w == Opened(object)
                  b == Send(adopted, "open", w)
      <3>1. /\ w \in Record /\ Bounded(w, dbEpoch) /\ object.phase = "claiming"
            /\ Successor(object, marker, w)
        BY <1>1, <2>6, StepFacts DEF AttemptOK, SameAttempt, Bounded, Successor
      <3>2. att' = [att EXCEPT ![n] = b]
        BY <2>6 DEF Set
      <3>3. /\ b \in Attempt /\ b.pc = a.pc /\ b.rec = object /\ b.epoch = a.epoch
            /\ b.op = "open" /\ b.want = w /\ b.st = "flying"
        BY <2>2, <3>1 DEF Send, Attempt, Op
      <3>. HIDE DEF b
      <3>4. a.pc = "claimed" /\ a.pc \in Holding
        BY <1>1, <2>6 DEF AttemptOK, Holding
      <3>5. AttemptOK(b, marker, dbEpoch)
        BY <1>1, <2>6, <3>1, <3>3, <3>4, SendOK DEF SameAttempt, Op
      <3>. QED
        BY <1>1, <2>1, <3>2, <3>3, <3>5, AttemptStep
    <2>7. CASE /\ a.op = "activate" /\ SameAttempt(a.rec, object)
               /\ Set(n, Send(adopted, "activate", a.want))
      <3>. HIDE DEF adopted
      <3>. DEFINE b == Send(adopted, "activate", a.want)
      <3>1. /\ a.pc = "checked" /\ a.pc \in Holding /\ a.want = Activated(a.rec, a.want.epoch)
            /\ a.want.epoch > a.rec.floor /\ a.want.epoch \in Nat /\ Bounded(a.want, dbEpoch)
            /\ a.rec.phase = "opening"
        BY <1>1, <2>7 DEF AttemptOK, Holding, Record
      <3>2. a.want = Activated(object, a.want.epoch) /\ Successor(object, marker, a.want)
        BY <1>1, <2>7, <3>1, ActivatedSame DEF SameAttempt, Successor
      <3>3. att' = [att EXCEPT ![n] = b]
        BY <2>7 DEF Set
      <3>4. /\ b \in Attempt /\ b.pc = a.pc /\ b.rec = object /\ b.epoch = a.epoch
            /\ b.op = "activate" /\ b.want = a.want /\ b.st = "flying"
        BY <1>1, <2>2 DEF Send, Attempt, Op
      <3>. HIDE DEF b
      <3>5. AttemptOK(b, marker, dbEpoch)
        BY <1>1, <2>7, <3>1, <3>2, <3>4, SendOK DEF SameAttempt, Op
      <3>. QED
        BY <1>1, <2>1, <3>3, <3>4, <3>5, AttemptStep
    <2>. QED
      BY <1>11, <2>1, <2>3, <2>4, <2>5, <2>6, <2>7 DEF PutChanged
  <1>12. CASE Renew(n)
    <2>. DEFINE w == RenewedHandoff(a.rec)
                b == Send(a, "renew", w)
    <2>1. /\ a.pc \in Holding /\ a.op = "none" /\ att' = [att EXCEPT ![n] = b]
          /\ UNCHANGED <<object, marker, dbEpoch, orphans, history, nextInc>>
      BY <1>12 DEF Renew, HoldsHandoff, NoPut, Set, Holding
    <2>2. /\ w \in Record /\ Bounded(w, dbEpoch) /\ Successor(a.rec, marker, w)
      BY <1>1, <2>1, StepFacts DEF AttemptOK, Holding, InHandoff, Bounded, Successor
    <2>3. /\ b \in Attempt /\ b.pc = a.pc /\ b.rec = a.rec /\ b.epoch = a.epoch
          /\ b.op = "renew" /\ b.want = w /\ b.st = "flying"
      BY <1>1, <2>2 DEF Send, Attempt, Op
    <2>. HIDE DEF b
    <2>4. AttemptOK(b, marker, dbEpoch)
      BY <1>1, <2>1, <2>2, <2>3, SendOK DEF AttemptOK, Op
    <2>. QED
      BY <1>1, <2>1, <2>3, <2>4, AttemptStep
  <1>13. CASE BeginOpen(n)
    <2>1. CASE Set(n, Idle)
      BY <1>2, <1>13, <2>1 DEF BeginOpen
    <2>2. CASE Set(n, Send(a, "open", Opened(a.rec)))
      <3>. DEFINE w == Opened(a.rec)
                  b == Send(a, "open", w)
      <3>1. /\ a.pc = "claimed" /\ a.pc \in Holding /\ att' = [att EXCEPT ![n] = b]
            /\ UNCHANGED <<object, marker, dbEpoch, orphans, history, nextInc>>
        BY <1>13, <2>2 DEF BeginOpen, Set, Holding
      <3>2. /\ w \in Record /\ Bounded(w, dbEpoch) /\ Successor(a.rec, marker, w)
        BY <1>1, <3>1, StepFacts DEF AttemptOK, Bounded, Successor
      <3>3. /\ b \in Attempt /\ b.pc = a.pc /\ b.rec = a.rec /\ b.epoch = a.epoch
            /\ b.op = "open" /\ b.want = w /\ b.st = "flying"
        BY <1>1, <3>2 DEF Send, Attempt, Op
      <3>. HIDE DEF b
      <3>4. AttemptOK(b, marker, dbEpoch)
        BY <1>1, <3>1, <3>2, <3>3, SendOK DEF AttemptOK, Op
      <3>. QED
        BY <1>1, <3>1, <3>3, <3>4, AttemptStep
    <2>. QED
      BY <1>13, <2>1, <2>2 DEF BeginOpen
  <1>14. CASE ValidateOpening(n)
    <2>. DEFINE p == IF a.pc = "opening" THEN "validated" ELSE "checked"
                b == [a EXCEPT !.rec = object, !.pc = p]
    <2>1. CASE Set(n, Idle)
      BY <1>2, <1>14, <2>1 DEF ValidateOpening
    <2>2. CASE SameAttempt(a.rec, object) /\ Set(n, b)
      <3>1. /\ a.pc \in {"opening", "opened"} /\ a.op = "none" /\ a.rec.phase = "opening"
            /\ att' = [att EXCEPT ![n] = b]
            /\ UNCHANGED <<object, marker, dbEpoch, orphans, history, nextInc>>
        BY <1>1, <1>14, <2>2 DEF ValidateOpening, NoPut, Set, AttemptOK, Holding
      <3>2. p \in Pc /\ p \in {"validated", "checked"} /\ (a.epoch > 0 => p = "checked")
        BY <1>1, <3>1 DEF Pc, AttemptOK
      <3>. HIDE DEF p
      <3>3. /\ b \in Attempt /\ b.pc = p /\ b.rec = object /\ b.epoch = a.epoch
            /\ b.op = "none" /\ b.want = a.want /\ b.st = a.st
        BY <1>1, <3>1, <3>2 DEF Attempt
      <3>. HIDE DEF b
      <3>4. object.phase = "opening" /\ object.floor = a.rec.floor
        BY <2>2, <3>1 DEF SameAttempt
      <3>5. AttemptOK(b, marker, dbEpoch)
        BY <1>1, <3>1, <3>2, <3>3, <3>4 DEF AttemptOK, Holding
      <3>. QED
        BY <1>1, <3>1, <3>3, <3>5, AttemptStep
    <2>. QED
      BY <1>14, <2>1, <2>2 DEF ValidateOpening
  <1>14a. CASE RetryWriter(n)
    <2>. DEFINE b == [a EXCEPT !.rec = object, !.pc = "opening", !.epoch = 0]
    <2>1. CASE Set(n, Idle)
      BY <1>2, <1>14a, <2>1 DEF RetryWriter
    <2>2. CASE SameAttempt(a.rec, object) /\ Set(n, b)
      <3>1. /\ a.pc = "checked" /\ a.op = "none" /\ a.rec.phase = "opening"
            /\ att' = [att EXCEPT ![n] = b]
            /\ UNCHANGED <<object, marker, dbEpoch, orphans, history, nextInc>>
        BY <1>1, <1>14a, <2>2 DEF RetryWriter, NoPut, Set, AttemptOK, Holding
      <3>2. /\ b \in Attempt /\ b.pc = "opening" /\ b.rec = object /\ b.epoch = 0
            /\ b.op = "none" /\ b.want = a.want /\ b.st = a.st
        BY <1>1, <3>1 DEF Attempt, Pc
      <3>. HIDE DEF b
      <3>3. object.phase = "opening" /\ object.floor = a.rec.floor
        BY <2>2, <3>1 DEF SameAttempt
      <3>4. AttemptOK(b, marker, dbEpoch)
        BY <1>1, <3>1, <3>2, <3>3 DEF AttemptOK, Holding
      <3>. QED
        BY <1>1, <3>1, <3>2, <3>4, AttemptStep
    <2>. QED
      BY <1>14a, <2>1, <2>2 DEF RetryWriter
  <1>15. CASE OpenDb(n)
    <2>. DEFINE b == [a EXCEPT !.pc = "opened", !.epoch = dbEpoch + 1]
    <2>1. /\ a.pc = "validated" /\ dbEpoch' = dbEpoch + 1 /\ att' = [att EXCEPT ![n] = b]
          /\ UNCHANGED <<object, marker, orphans, history, nextInc>>
      BY <1>15 DEF OpenDb, Set
    <2>2. /\ b \in Attempt /\ b.pc = "opened" /\ b.rec = a.rec /\ b.epoch = dbEpoch + 1
          /\ b.op = a.op /\ b.want = a.want /\ b.st = a.st
      <3>1. "opened" \in Pc /\ dbEpoch + 1 \in Nat /\ a \in Attempt
        BY <1>1 DEF Pc
      <3>. HIDE DEF a
      <3>. QED
        BY <3>1 DEF Attempt
    <2>. HIDE DEF b
    <2>3. AttemptOK(b, marker, dbEpoch + 1)
      BY <1>1, <2>1, <2>2 DEF AttemptOK, Holding, Bounded, Record
    <2>4. \A k \in Node : AttemptOK(att[k], marker, dbEpoch + 1)
      BY <1>1 DEF OwnInv, TypeOK, AttemptOK, Bounded, Attempt, Record
    <2>5. \A p \in orphans : OrphanOK(p, marker, dbEpoch + 1)
      BY <1>1 DEF OwnInv, TypeOK, OrphanOK, Put, Bounded, Record
    <2>6. Bounded(object, dbEpoch + 1) /\ marker.epoch <= dbEpoch + 1
      BY <1>1, MarkerType DEF Bounded, Record
    <2>. QED
      BY <1>1, <2>1, <2>2, <2>3, <2>4, <2>5, <2>6 DEF OwnInv, TypeOK
  <1>16. CASE Activate(n)
    <2>1. CASE Set(n, Idle)
      BY <1>2, <1>16, <2>1 DEF Activate
    <2>2. ASSUME NEW e \in {a.epoch, dbEpoch}, e > a.rec.floor,
                 Set(n, Send(a, "activate", Activated(a.rec, e)))
          PROVE  OwnInv'
      <3>. DEFINE w == Activated(a.rec, e)
                  b == Send(a, "activate", w)
      <3>1. /\ a.pc = "checked" /\ a.pc \in Holding /\ att' = [att EXCEPT ![n] = b]
            /\ UNCHANGED <<object, marker, dbEpoch, orphans, history, nextInc>>
        BY <1>16, <2>2 DEF Activate, Set, Holding
      <3>2. e \in Nat /\ e <= dbEpoch
        BY <1>1, <2>2 DEF AttemptOK, Attempt
      <3>3. /\ w \in Record /\ Bounded(w, dbEpoch) /\ w.epoch = e
            /\ Successor(a.rec, marker, w)
        <4>1. w \in Record /\ w.epoch = e /\ w.floor = 0
          BY <1>1, <3>2, ActivatedFacts
        <4>2. a.rec.phase = "opening"
          BY <1>1, <3>1 DEF AttemptOK, Holding
        <4>. QED
          BY <1>1, <2>2, <3>2, <4>1, <4>2 DEF Bounded, Successor
      <3>4. /\ b \in Attempt /\ b.pc = a.pc /\ b.rec = a.rec /\ b.epoch = a.epoch
            /\ b.op = "activate" /\ b.want = w /\ b.st = "flying"
        BY <1>1, <3>3 DEF Send, Attempt, Op
      <3>. HIDE DEF b
      <3>5. b.want = Activated(b.rec, b.want.epoch) /\ b.want.epoch > b.rec.floor
        BY <2>2, <3>3, <3>4
      <3>. HIDE DEF w
      <3>6. AttemptOK(b, marker, dbEpoch)
        BY <1>1, <3>1, <3>3, <3>4, <3>5, SendOK DEF AttemptOK, Op
      <3>. QED
        BY <1>1, <3>1, <3>4, <3>6, AttemptStep
    <2>. QED
      BY <1>16, <2>1, <2>2 DEF Activate
  <1>17. CASE StepDown(n)
    BY <1>2, <1>17 DEF StepDown
  <1>18. CASE Crash(n)
    BY <1>1, <1>18, AbandonStep DEF Crash, Set
  <1>. QED
    BY <1>4, <1>5, <1>6, <1>7, <1>8, <1>9, <1>10, <1>11, <1>12, <1>13, <1>14, <1>14a, <1>15,
       <1>16, <1>17, <1>18 DEF NodeStep

\* A late PUT of a request nobody waits for keeps the invariant (a detached renewal, a dead node).
LEMMA LateInv ==
    ASSUME OwnInv, NEW p \in orphans, StoreAppliesLate(p)
    PROVE  OwnInv'
  <1>1. p.want \in Record /\ Bounded(p.want, dbEpoch)
    BY DEF OwnInv, TypeOK, OrphanOK, Put
  <1>. QED
    BY <1>1 DEF OwnInv, TypeOK, StoreAppliesLate, Install

\* The initial states satisfy the invariant: an empty store, or only a bootstrap marker.
LEMMA InitInv ==
    ASSUME Init
    PROVE  OwnInv
  <1>1. /\ object = NoRecord /\ marker \in Markers /\ history = {} /\ dbEpoch = marker.epoch
        /\ marker \in LastActive /\ dbEpoch \in Nat
    BY MarkerType DEF Init, CellInit
  <1>2. NoRecord \in Record /\ Bounded(NoRecord, dbEpoch)
    <2>1. NoLast \in LastActive
      BY DEF NoLast, LastActive
    <2>. QED
      BY <1>1, <2>1 DEF NoRecord, Record, Phase, Bounded
  <1>. QED
    BY <1>1, <1>2, IdleOK DEF Init, OwnInv, TypeOK

\* Along every behaviour, each outstanding or stray PUT is a legal step from the record it
\* expects, and no epoch in a record is ahead of the database (the strengthening OwnInv).
THEOREM OwnershipInvariant == Spec => []OwnInv
  <1>1. Init => OwnInv
    BY InitInv
  <1>2. OwnInv /\ [Next]_vars => OwnInv'
    <2>1. ASSUME OwnInv, UNCHANGED vars PROVE OwnInv'
      BY <2>1 DEF vars, OwnInv, TypeOK
    <2>. QED
      BY <2>1, NodeStepInv, LateInv DEF Next
  <1>. QED
    BY <1>1, <1>2, PTL DEF Spec

\* The state of the ownership protocol keeps its type (leader_record.rs: records, tokens, PUTs).
THEOREM OwnershipTypeCorrect == Spec => []TypeOK
  <1>1. OwnInv => TypeOK
    BY DEF OwnInv
  <1>. QED
    BY <1>1, OwnershipInvariant, PTL

\* A node that opened the database holds an epoch above the floor it will publish against.
THEOREM WriterAboveFloor == Spec => []OpenedAboveFloor
  <1>1. OwnInv => OpenedAboveFloor
    BY DEF OwnInv, AttemptOK, OpenedAboveFloor
  <1>. QED
    BY <1>1, OwnershipInvariant, PTL

\* Ownership implements the atomic cell: with lost replies, resent and late PUTs and crashes,
\* the object only ever takes legal steps.
THEOREM OwnershipRefinesCell == Spec => CellSpec
  <1>1. Init => CellInit
    BY DEF Init
  <1>2. OwnInv /\ [Next]_vars => [CellNext]_cellVars
    <2>1. ASSUME UNCHANGED <<object, marker, history>> PROVE [CellNext]_cellVars
      BY <2>1 DEF cellVars
    <2>2. ASSUME NEW r, NEW w, object = r, Successor(r, marker, w), Install(w), marker' = marker
          PROVE  CellNext
      BY <2>2 DEF CellNext, Install
    <2>3. ASSUME OwnInv, NEW n \in Node, StoreApplies(n) PROVE CellNext
      <3>1. Successor(att[n].rec, marker, att[n].want)
        BY <2>3 DEF OwnInv, AttemptOK, StoreApplies
      <3>. QED
        BY <2>2, <2>3, <3>1 DEF StoreApplies
    <2>4. ASSUME OwnInv, NEW p \in orphans, StoreAppliesLate(p) PROVE CellNext
      <3>1. Successor(p.expect, marker, p.want)
        BY <2>4 DEF OwnInv, OrphanOK
      <3>. QED
        BY <2>2, <2>4, <3>1 DEF StoreAppliesLate
    <2>5. ASSUME NEW n \in Node, NodeStep(n), ~StoreApplies(n)
          PROVE  UNCHANGED <<object, marker, history>>
      BY <2>5 DEF NodeStep, ClaimNow, Observe, ObservedStale, ObservedLive, PutOk, PutReconciled,
          PutUnknown, PutChanged, Renew, BeginOpen, ValidateOpening, OpenDb, RetryWriter, Activate,
          StepDown, Crash
    <2>6. ASSUME UNCHANGED vars PROVE UNCHANGED <<object, marker, history>>
      BY <2>6 DEF vars
    <2>. QED
      BY <2>1, <2>3, <2>4, <2>5, <2>6 DEF Next
  <1>. QED
    BY <1>1, <1>2, OwnershipInvariant, PTL DEF Spec, CellSpec

\* Writer epochs follow ownership generations (the floor of claim_base and the ensure! of activate).
THEOREM EpochOrder == Spec => []EpochsFollowGenerations
  <1>1. CellInv => EpochsFollowGenerations
    BY DEF CellInv
  <1>. QED
    BY <1>1, OwnershipRefinesCell, CellSafety, PTL

\* Two incarnations never own one generation (PutMode::Create and PutMode::Update of write_exact).
THEOREM SingleOwner == Spec => []OneOwnerPerGeneration
  <1>1. CellInv => OneOwnerPerGeneration
    BY DEF CellInv
  <1>. QED
    BY <1>1, OwnershipRefinesCell, CellSafety, PTL

\* The record names the last Active writer through every abandoned handoff (last_active).
THEOREM LatestWriterKnown == Spec => []LatestWriterExact
  <1>1. CellInv => LatestWriterExact
    BY DEF CellInv
  <1>. QED
    BY <1>1, OwnershipRefinesCell, CellSafety, PTL

\* Every stored record passes OwnershipRecord::validate.
THEOREM RecordsParse == Spec => []RecordsValid
  <1>1. CellInv => RecordsValid
    BY DEF CellInv
  <1>. QED
    BY <1>1, OwnershipRefinesCell, CellSafety, PTL

\* A replaced record never comes back, so validate_active never accepts a superseded leader.
THEOREM SupersededForever == Spec => NeverReinstalled
  BY OwnershipRefinesCell, CellNeverReinstalls, PTL
=============================================================================
