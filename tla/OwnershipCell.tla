--------------------------- MODULE OwnershipCell ---------------------------
(***************************************************************************)
(* What the ownership record promises, without nodes, messages, failures   *)
(* or a store: a cell that is claimed, renewed, opened and activated in    *)
(* atomic steps.  Ownership implements it with conditional PUTs whose      *)
(* replies may be lost and whose effects may come late.                    *)
(***************************************************************************)
EXTENDS OwnershipRecord

VARIABLES
    object,   \* the record in the store, or NoRecord
    marker,   \* the bootstrap leader marker, as a LastActive, or NoLast
    history   \* every record ever installed (ghost)

cellVars == <<object, marker, history>>

\* The only values that may replace r.  A claim may take over any record, in
\* the next generation; the other steps stay within one.
Successor(r, m, s) ==
    \/ /\ s.owner \in Owner
       /\ s = Claimed(r, m, s.owner)
    \/ /\ InHandoff(r)
       /\ s = RenewedHandoff(r)
    \/ /\ r.phase = "claiming"
       /\ s = Opened(r)
    \/ /\ r.phase = "opening"
       /\ s.epoch \in Nat /\ s.epoch > r.floor
       /\ s = Activated(r, s.epoch)

Install(r) ==
    /\ object' = r
    /\ history' = history \cup {r}

CellInit ==
    /\ object = NoRecord
    /\ marker \in Markers
    /\ history = {}

CellNext ==
    /\ Successor(object, marker, object')
    /\ Install(object')
    /\ UNCHANGED marker

CellSpec == CellInit /\ [][CellNext]_cellVars

-----------------------------------------------------------------------------
Actives == {r \in history : r.phase = "active"}

\* Fencing order and ownership order agree: a writer that became Active in a
\* later generation has a strictly larger writer epoch, through any number of
\* abandoned, forced or recovered handoffs in between.
EpochsFollowGenerations ==
    \A r, s \in Actives : r.gen < s.gen => r.epoch < s.epoch

\* One owner per generation: no interleaving of claims, lost replies and late
\* PUTs lets two incarnations own the same generation.
OneOwnerPerGeneration ==
    \A r, s \in history : r.gen = s.gen => r.owner = s.owner

\* The record always speaks for the writer that was Active last (or for the
\* bootstrap marker): what startup role election asks of it (latest_writer).
LatestWriterExact ==
    LET latest == LatestWriter(object, marker)
    IN  IF Actives = {} THEN latest = marker
        ELSE /\ \E r \in Actives : latest = LastOf(r)
             /\ \A r \in Actives : r.gen <= latest.gen

\* Every record ever stored is accepted by the parser, so no node is locked out.
RecordsValid == \A r \in history : Valid(r)

\* A record, once replaced, never comes back: a superseded leader can never pass
\* validate_active again, and comparing ETags is as good as comparing versions.
NeverReinstalled == [][object' # object => object' \notin history]_cellVars
=============================================================================
