-------------------------- MODULE ReplicationTail --------------------------
(***************************************************************************)
(* The standby's in-memory tail of shipped batches (replication/tail.rs):  *)
(* a pure value and the functions on it.  A batch is a write id; the       *)
(* mutation results that ride along for retry detection are left out.      *)
(***************************************************************************)
EXTENDS Naturals

\* batches[s]: the batch kept under ship sequence s; max: the highest sequence
\* of the term known of; durable: what the leader proved to be on shared storage.
NoTail == [epoch |-> 0, batches |-> <<>>, max |-> 0, durable |-> 0]

Larger(a, b) == IF a < b THEN b ELSE a

TailOf(t, epoch) == IF epoch > t.epoch THEN [NoTail EXCEPT !.epoch = epoch] ELSE t

\* retains_contiguous_range
Retains(t, first, last) == first..last \subseteq DOMAIN t.batches

\* covers_predecessors: every sequence before seq is durable or retained.
CoversPredecessors(t, epoch, seq, watermark) ==
    LET durable == IF t.epoch = epoch THEN Larger(t.durable, watermark) ELSE watermark
    IN  \/ seq - 1 <= durable
        \/ t.epoch = epoch /\ Retains(t, durable + 1, seq - 1)

\* prune
Prune(t, watermark) ==
    [t EXCEPT !.durable = Larger(@, watermark),
              !.batches = [s \in {s \in DOMAIN t.batches : s > watermark} |-> t.batches[s]]]

\* Mutant: the highest sequence is not updated.
MutAcceptKeepsMax(t, epoch, seq, w) ==
    IF epoch < t.epoch THEN t
    ELSE LET u == TailOf(t, epoch)
         IN  [u EXCEPT !.batches = [s \in DOMAIN u.batches \cup {seq} |->
                                       IF s = seq THEN w ELSE u.batches[s]]]

\* accept_validated
Accept(t, epoch, seq, w) ==
    IF epoch < t.epoch THEN t
    ELSE LET u == TailOf(t, epoch)
         IN  [u EXCEPT !.max = Larger(@, seq),
                       !.batches = [s \in DOMAIN u.batches \cup {seq} |->
                                       IF s = seq THEN w ELSE u.batches[s]]]

\* Every sequence up to max is durable or retained.
Covered(t) == t.durable >= t.max \/ Retains(t, t.durable + 1, t.max)

\* observe_coverage: the tail after a heartbeat's frontier.  A term without any
\* applied ship does not replace an older term's tail.
ObserveCoverage(t, epoch, applied, durable) ==
    IF epoch < t.epoch \/ (epoch > t.epoch /\ applied = 0) THEN t
    ELSE LET u == TailOf(t, epoch)
         IN  Prune([u EXCEPT !.max = Larger(@, applied)], durable)

\* ... and what it answers.
CoverageAnswer(t, epoch, applied, durable) ==
    /\ epoch >= t.epoch
    /\ \/ epoch > t.epoch /\ applied = 0
       \/ Covered(ObserveCoverage(t, epoch, applied, durable))

\* Mutant: having heard of the term's batches counts as having them.
MutPreservesUncovered(t, observed) == observed > 0 /\ t.epoch = observed /\ t.max > 0

PreservesLineage(t, observed) ==
    observed > 0 /\ t.epoch = observed /\ t.max > 0 /\ Covered(t)

HasUncoveredLineage(t, observed) ==
    t.epoch = observed /\ t.max > 0 /\ ~PreservesLineage(t, observed)

\* A durable HA stamp, written with every batch a leader applies itself.
NoStamp == [epoch |-> 0, shipped |-> 0, solo |-> FALSE, applied |-> 0]

\* Mutant: the frontier of applied attempts is ignored after Solo operation.
MutReconciledToShipped(t, stamp) ==
    CASE stamp.epoch > t.epoch -> NoTail
      [] stamp.epoch < t.epoch -> t
      [] stamp.epoch = t.epoch -> Prune(t, stamp.shipped)

\* replay_decision and what reconcile_durable_head does with it: a newer term's
\* stamp discards the tail, one of the same term prunes what it represents.
ReconciledTail(t, stamp) ==
    CASE stamp.epoch > t.epoch -> NoTail
      [] stamp.epoch < t.epoch -> t
      [] stamp.epoch = t.epoch -> Prune(t, IF stamp.solo THEN stamp.applied ELSE stamp.shipped)
=============================================================================
