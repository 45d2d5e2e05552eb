----------------------------- MODULE Ownership -----------------------------
(***************************************************************************)
(* The durable HA ownership record of ZeroFS and the conditional writes    *)
(* that move it (replication/leader_record.rs), driven by the startup loop *)
(* of cli/init.rs.  One object in the object store is advanced             *)
(*     (absent | Active) -> Claiming -> Opening -> Active                  *)
(* by compare-and-swap.  Each node runs one attempt at a time; an attempt  *)
(* holds the last record it is known to own and at most one outstanding    *)
(* PUT, because renewals and transitions serialise on one mutex.           *)
(*                                                                         *)
(* Abstractions.                                                           *)
(*  - A version (ETag or object version) is identified with the record it  *)
(*    names.  That is what a content-hash ETag gives; it is sound because  *)
(*    a record is never installed twice (NeverReinstalled).                *)
(*  - A PUT takes effect at any later time, or never.  Its reply may be    *)
(*    lost, and the store client may resend it, in which case a success    *)
(*    can come back as a failed precondition.                              *)
(*  - Waiting (claim grace, HANDOFF_STALE_AFTER, retry pauses) is untimed  *)
(*    here: a wait may end at any moment, so what holds here holds for     *)
(*    every timing.  Authority times the waits.                            *)
(*  - The incarnation UUID is a counter: fresh on every claim.             *)
(***************************************************************************)
EXTENDS OwnershipCell, FiniteSets

CONSTANTS
    MaxGen,        \* bound on the ownership generation (u64 in the code)
    MaxRev,        \* bound on the handoff revision (u64 in the code)
    MaxEpoch,      \* bound on the database writer epoch
    MaxInc,        \* bound on the number of claims ever tried
    MaxOrphans     \* bound on PUTs left in flight by abandoned requests

ASSUME BoundsAssumption ==
    /\ MaxGen \in Nat /\ MaxRev \in Nat /\ MaxEpoch \in Nat
    /\ MaxInc \in Nat /\ MaxOrphans \in Nat

\* object, marker and history come from OwnershipCell.
VARIABLES
    dbEpoch,  \* newest writer epoch of the database manifest
    att,      \* att[n]: the attempt node n is running
    orphans,  \* PUTs still in flight whose requester gave up or died
    nextInc   \* next incarnation

vars == <<object, marker, history, dbEpoch, att, orphans, nextInc>>

-----------------------------------------------------------------------------
(* Attempts *)

Pc == {"idle", "observing", "claiming", "claimed", "opening", "validated",
       "opened", "checked", "active"}

Op == {"none", "claim", "renew", "open", "activate"}

\* rec: the record the attempt observed (observing, claiming) or owns, whose
\* version the next PUT expects; want: the value of the outstanding PUT;
\* st: what the store did with it; epoch: the writer epoch this attempt opened.
Attempt == [pc : Pc, op : Op, rec : Record, want : Record,
            st : {"none", "flying", "ok"}, epoch : Nat, lost : BOOLEAN]

Idle == [pc |-> "idle", op |-> "none", rec |-> NoRecord, want |-> NoRecord,
         st |-> "none", epoch |-> 0, lost |-> FALSE]

\* The attempts whose HandoffLease renews in the background.
HoldsHandoff(n) == att[n].pc \in {"claimed", "opening", "validated", "opened", "checked"}

NoPut(n) == att[n].op = "none"

Put == [expect : Record, want : Record]

PutOf(n) == [expect |-> att[n].rec, want |-> att[n].want]

Send(a, op, want) == [a EXCEPT !.op = op, !.want = want, !.st = "flying"]

Settle(a) == [a EXCEPT !.op = "none", !.want = NoRecord, !.st = "none"]

\* The PUT node n abandons may still reach the store, unless the store has
\* already handled it, or it was lost on the way.
Abandon(n) ==
    \/ orphans' = orphans
    \/ /\ att[n].st = "flying"
       /\ Cardinality(orphans) < MaxOrphans
       /\ orphans' = orphans \cup {PutOf(n)}

Set(n, a) == att' = [att EXCEPT ![n] = a]

TypeOK ==
    /\ object \in Record
    /\ marker \in LastActive
    /\ dbEpoch \in Nat
    /\ att \in [Node -> Attempt]
    /\ orphans \subseteq Put
    /\ history \subseteq Record
    /\ nextInc \in Nat \ {0}

Init ==
    /\ CellInit
    /\ dbEpoch = marker.epoch
    /\ att = [n \in Node |-> Idle]
    /\ orphans = {}
    /\ nextInc = 1

-----------------------------------------------------------------------------
(* Claiming *)

SendClaim(n, r) ==
    /\ nextInc <= MaxInc
    /\ ClaimBase(r, marker).gen < MaxGen
    /\ nextInc' = nextInc + 1
    /\ Set(n, Send([Idle EXCEPT !.pc = "claiming", !.rec = r],
                   "claim", Claimed(r, marker, [node |-> n, inc |-> nextInc])))

\* A claim of an Active or absent record, or a forced claim of any record.
ClaimNow(n, force) ==
    /\ att[n].pc = "idle"
    /\ force \/ ~InHandoff(object)
    /\ SendClaim(n, object)
    /\ UNCHANGED <<object, marker, dbEpoch, orphans, history>>

\* A handoff in progress is first observed for HANDOFF_STALE_AFTER.
Observe(n) ==
    /\ att[n].pc = "idle"
    /\ InHandoff(object)
    /\ Set(n, [Idle EXCEPT !.pc = "observing", !.rec = object])
    /\ UNCHANGED <<object, marker, dbEpoch, orphans, history, nextInc>>

\* Mutant: only a handoff that is still Claiming is recovered.
MutObservedStaleClaiming(n) ==
    /\ att[n].pc = "observing"
    /\ object = att[n].rec
    /\ object.phase = "claiming"
    /\ SendClaim(n, object)
    /\ UNCHANGED <<object, marker, dbEpoch, orphans, history>>

ObservedStale(n) ==
    /\ att[n].pc = "observing"
    /\ object = att[n].rec
    /\ SendClaim(n, object)
    /\ UNCHANGED <<object, marker, dbEpoch, orphans, history>>

\* The record moved while it was observed: ClaimRejected, back to election.
ObservedLive(n) ==
    /\ att[n].pc = "observing"
    /\ object # att[n].rec
    /\ Set(n, Idle)
    /\ UNCHANGED <<object, marker, dbEpoch, orphans, history, nextInc>>

-----------------------------------------------------------------------------
(* The store, and what a PUT's requester makes of the answer (write_exact) *)

\* Mutant: the PUT is unconditional.
MutStoreOverwrites(n) ==
    /\ att[n].st = "flying"
    /\ Install(att[n].want)
    /\ Set(n, [att[n] EXCEPT !.st = "ok"])
    /\ UNCHANGED <<marker, dbEpoch, orphans, nextInc>>

\* The store applies the PUT node n is waiting for.
StoreApplies(n) ==
    /\ att[n].st = "flying"
    /\ object = att[n].rec
    /\ Install(att[n].want)
    /\ Set(n, [att[n] EXCEPT !.st = "ok"])
    /\ UNCHANGED <<marker, dbEpoch, orphans, nextInc>>

\* The store applies a PUT nobody waits for any more.
StoreAppliesLate(p) ==
    /\ object = p.expect
    /\ Install(p.want)
    /\ orphans' = orphans \ {p}
    /\ UNCHANGED <<marker, dbEpoch, att, nextInc>>

AfterApplied(a) ==
    [Settle(a) EXCEPT !.rec = a.want,
                      !.pc = CASE a.op = "claim" -> "claimed"
                               [] a.op = "open" -> "opening"
                               [] a.op = "activate" -> "active"
                               [] a.op = "renew" -> a.pc]

\* A reply says the PUT was applied.
PutOk(n) ==
    /\ att[n].st = "ok"
    /\ Set(n, AfterApplied(att[n]))
    /\ UNCHANGED <<object, marker, dbEpoch, orphans, history, nextInc>>

\* The request failed without a verdict, and the reread shows the desired value.
PutReconciled(n) ==
    /\ att[n].st # "none"
    /\ object = att[n].want
    /\ Set(n, AfterApplied(att[n]))
    /\ UNCHANGED <<object, marker, dbEpoch, orphans, history, nextInc>>

\* The request failed without a verdict and the reread failed or does not show
\* the desired value.  A claim gives up, a renewal waits for its next turn,
\* a transition repeats the same PUT.
PutUnknown(n) ==
    /\ att[n].st # "none"
    /\ Abandon(n)
    /\ Set(n, CASE att[n].op = "claim" -> Idle
                [] att[n].op = "renew" -> Settle(att[n])
                [] att[n].op \in {"open", "activate"} -> [att[n] EXCEPT !.st = "flying"])
    /\ UNCHANGED <<object, marker, dbEpoch, history, nextInc>>

\* The precondition failed and the reread shows another record than desired.
\* An unexpected newer revision of the attempt's own handoff is adopted; a
\* transition then tries again on top of it.  Anything else is lost ownership.
PutChanged(n) ==
    LET a == att[n]
        adopted == [a EXCEPT !.rec = object]
    IN  /\ a.st # "none"
        /\ object # a.rec
        /\ object # a.want
        /\ Set(n, CASE a.op = "claim" -> Idle
                    [] a.op = "renew" ->
                          IF SameAttempt(a.rec, object) THEN Settle(adopted)
                                                        ELSE [Settle(a) EXCEPT !.lost = TRUE]
                    [] a.op = "open" ->
                          IF SameAttempt(a.rec, object) THEN Send(adopted, "open", Opened(object))
                                                        ELSE Idle
                    [] a.op = "activate" ->
                          IF SameAttempt(a.rec, object) THEN Send(adopted, "activate", a.want)
                                                        ELSE Idle)
        /\ UNCHANGED <<object, marker, dbEpoch, orphans, history, nextInc>>

-----------------------------------------------------------------------------
(* A held handoff: renewal, opening the database, activation *)

\* The bound on revisions, which leaves room for the transition to Opening.
CanRenew(r) == r.rev + 1 < MaxRev \/ (r.phase = "opening" /\ r.rev < MaxRev)

\* One turn of the renewal task.
Renew(n) ==
    /\ HoldsHandoff(n) /\ NoPut(n) /\ ~att[n].lost
    /\ CanRenew(att[n].rec)
    /\ Set(n, Send(att[n], "renew", RenewedHandoff(att[n].rec)))
    /\ UNCHANGED <<object, marker, dbEpoch, orphans, history, nextInc>>

\* begin_open, once the claim grace is over.
BeginOpen(n) ==
    /\ att[n].pc = "claimed" /\ NoPut(n)
    /\ \/ /\ att[n].lost
          /\ Set(n, Idle)
       \/ /\ ~att[n].lost
          /\ Set(n, Send(att[n], "open", Opened(att[n].rec)))
    /\ UNCHANGED <<object, marker, dbEpoch, orphans, history, nextInc>>

\* validate_opening, before and after the database is opened.  On refusal the
\* writer, if any, is closed and the node returns to role election.
ValidateOpening(n) ==
    /\ att[n].pc \in {"opening", "opened"} /\ NoPut(n)
    /\ IF ~att[n].lost /\ SameAttempt(att[n].rec, object)
       THEN Set(n, [att[n] EXCEPT !.rec = object,
                                  !.pc = IF @ = "opening" THEN "validated" ELSE "checked"])
       ELSE Set(n, Idle)
    /\ UNCHANGED <<object, marker, dbEpoch, orphans, history, nextInc>>

\* Mutant: the epoch is read from the manifest before the open.
MutOpenDbReadsEarly(n) ==
    /\ att[n].pc = "validated"
    /\ dbEpoch < MaxEpoch
    /\ dbEpoch' = dbEpoch + 1
    /\ Set(n, [att[n] EXCEPT !.pc = "opened", !.epoch = dbEpoch])
    /\ UNCHANGED <<object, marker, orphans, history, nextInc>>

\* Opening SlateDB for writing takes the next writer epoch and fences every
\* earlier writer.
OpenDb(n) ==
    /\ att[n].pc = "validated"
    /\ dbEpoch < MaxEpoch
    /\ dbEpoch' = dbEpoch + 1
    /\ Set(n, [att[n] EXCEPT !.pc = "opened", !.epoch = dbEpoch + 1])
    /\ UNCHANGED <<object, marker, orphans, history, nextInc>>

\* The promotion or the replay lost to a newer epoch: the writer is closed and,
\* if Opening is still owned, the database is opened again.
RetryWriter(n) ==
    /\ att[n].pc = "checked" /\ NoPut(n)
    /\ IF ~att[n].lost /\ SameAttempt(att[n].rec, object)
       THEN Set(n, [att[n] EXCEPT !.rec = object, !.pc = "opening", !.epoch = 0])
       ELSE Set(n, Idle)
    /\ UNCHANGED <<object, marker, dbEpoch, orphans, history, nextInc>>

\* activate.  The epoch is read from the database's status manifest, which by
\* now may be that of a writer that fenced this one.
Activate(n) ==
    /\ att[n].pc = "checked" /\ NoPut(n)
    /\ \E epoch \in {att[n].epoch, dbEpoch} :
          IF ~att[n].lost /\ epoch > att[n].rec.floor
          THEN Set(n, Send(att[n], "activate", Activated(att[n].rec, epoch)))
          ELSE Set(n, Idle)
    /\ UNCHANGED <<object, marker, dbEpoch, orphans, history, nextInc>>

\* validate_active refuses: the leader steps down.
StepDown(n) ==
    /\ att[n].pc = "active"
    /\ object # att[n].rec
    /\ Set(n, Idle)
    /\ UNCHANGED <<object, marker, dbEpoch, orphans, history, nextInc>>

\* The process dies, or drops its token; a PUT in flight stays in flight.
Crash(n) ==
    /\ att[n].pc # "idle"
    /\ Abandon(n)
    /\ Set(n, Idle)
    /\ UNCHANGED <<object, marker, dbEpoch, history, nextInc>>

NodeStep(n) ==
    \/ \E force \in BOOLEAN : ClaimNow(n, force)
    \/ Observe(n) \/ ObservedStale(n) \/ ObservedLive(n)
    \/ StoreApplies(n)
    \/ PutOk(n) \/ PutReconciled(n) \/ PutUnknown(n) \/ PutChanged(n)
    \/ Renew(n) \/ BeginOpen(n) \/ ValidateOpening(n) \/ OpenDb(n)
    \/ RetryWriter(n) \/ Activate(n) \/ StepDown(n) \/ Crash(n)

Next ==
    \/ \E n \in Node : NodeStep(n)
    \/ \E p \in orphans : StoreAppliesLate(p)

Spec == Init /\ [][Next]_vars

\* Startup role election never leaves an unresolved handoff alone
\* (immediate_role_decision: Lead, then recover_handoff), the store answers, some
\* observation is not cut short by a crash, and a transition gets the FIFO mutex
\* that renewals release between their turns.
Fairness ==
    \A n \in Node :
       /\ WF_vars(\/ Observe(n) \/ ObservedLive(n) \/ StoreApplies(n) \/ PutOk(n)
                  \/ PutReconciled(n) \/ PutChanged(n) \/ OpenDb(n))
       /\ SF_vars(ObservedStale(n) \/ BeginOpen(n) \/ ValidateOpening(n) \/ Activate(n))

FairSpec == Spec /\ Fairness

-----------------------------------------------------------------------------
(* Properties *)

\* A node that opened the database can always activate: the epoch it opened is
\* above the recorded floor, so the ensure! in activate never fires on it.
OpenedAboveFloor ==
    \A n \in Node : att[n].epoch > 0 /\ att[n].pc # "active" => att[n].epoch > att[n].rec.floor

\* The bounds leave nobody to try: no writer epoch is left to open, or nobody
\* holds the handoff and no further claim is left.
Exhausted ==
    \/ dbEpoch = MaxEpoch /\ \A n \in Node : att[n].pc \notin {"opened", "checked"}
    \/ /\ nextInc > MaxInc \/ object.gen = MaxGen
       /\ \A n \in Node : ~HoldsHandoff(n) /\ att[n].op # "claim"

\* A handoff never wedges: whatever node died in it and whatever reply was lost,
\* the record becomes Active again (or the bounds leave nobody to try).
HandoffResolves == InHandoff(object) ~> (object.phase = "active" \/ Exhausted)
=============================================================================
