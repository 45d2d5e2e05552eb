----------------------------- MODULE Authority -----------------------------
(***************************************************************************)
(* Serving authority in time: the serving lease and its supervisor         *)
(* (replication/lease.rs), the claim grace (leader_record.rs), the quiesced*)
(* heartbeat acknowledgements (transport.rs, init.rs) and the response     *)
(* drain (cli/server.rs), for a replication pair.                          *)
(*                                                                         *)
(* A leader may answer clients while its lease is held and not expired.    *)
(* It renews from the START of a request: a read of the ownership record   *)
(* that found it exactly Active, or a heartbeat the standby acknowledged.  *)
(* A standby that wants to take over stops acknowledging, installs a       *)
(* Claiming record and waits Grace before it opens the database.           *)
(*                                                                         *)
(* Time is a global Tick and every clock is a count-down or an age, so     *)
(* that behaviours of any length have finitely many states.  The record    *)
(* is the atomic cell that Ownership implements; a generation names its    *)
(* owner (OneOwnerPerGeneration).  A PUT whose owner is dead when it lands *)
(* is a transition followed by Crash and Restart.                          *)
(* The wall clock fallback of the lease and a clean close are left out.    *)
(***************************************************************************)
EXTENDS Naturals

CONSTANTS
    Node,        \* the two nodes of the pair
    NoNode,      \* the owner of an absent record
    TTL,         \* AUTHORITY_TTL
    Final,       \* FINAL_OWNERSHIP_RECOVERY_TIMEOUT
    Drain,       \* RESPONSE_DRAIN_TIMEOUT
    Slack,       \* the extra second of CLAIM_GRACE
    Prompt,      \* whether all reactions of a step-down together take less than Slack
    MaxGen       \* bound on the ownership generation

ASSUME PairAssumption ==
    /\ NoNode \notin Node
    /\ \A m, n, p \in Node : m = n \/ m = p \/ n = p
ASSUME TimingAssumption ==
    /\ TTL \in Nat \ {0} /\ Final \in Nat \ {0} /\ Drain \in Nat /\ Slack \in Nat \ {0}
    /\ Prompt \in BOOLEAN /\ MaxGen \in Nat

VARIABLES
    rec,   \* the ownership record
    node   \* node[n]: the process on node n

vars == <<rec, node>>

\* Mutant: the grace forgets the response drain.
MutGraceNoDrain == TTL + Final + Slack

Grace == TTL + Final + Drain + Slack

FinalTimeout == IF TTL < Final THEN TTL ELSE Final

-----------------------------------------------------------------------------
(* State *)

Rec == [gen : Nat, phase : {"absent", "claiming", "opening", "active"}, owner : Node \cup {NoNode}]

Role == {"down", "standby", "quiesced", "claimed", "opening", "opened", "active",
         "serving", "draining"}

\* gen: the generation of the token or Active ownership the process holds;
\* wait: claim grace left; left: lease time left; kind, age, res: the ownership
\* read under way; hb, hbAge: the heartbeat under way; drain: drain time left;
\* lag: time its overdue reactions have taken since authority was last good.
Process == [role : Role, gen : Nat, wait : 0..Grace,
            lease : {"uninit", "held", "suspended", "revoked"}, left : 0..TTL,
            kind : {"none", "initial", "ordinary", "final"}, age : 0..TTL,
            res : {"none", "exact", "changed"},
            hb : {"none", "sent", "acked"}, hbAge : 0..TTL,
            drain : 0..Drain, lag : 0..Slack]

Fresh == [role |-> "standby", gen |-> 0, wait |-> 0, lease |-> "uninit", left |-> 0,
          kind |-> "none", age |-> 0, res |-> "none", hb |-> "none", hbAge |-> 0,
          drain |-> 0, lag |-> 0]

Dead == [Fresh EXCEPT !.role = "down"]

\* Lease::is_valid
Valid(s) == s.lease = "held" /\ s.left > 0

\* The roles in which a process owns a generation.
Holder == {"claimed", "opening", "opened", "active", "serving", "draining"}

\* The roles reached only after the claim grace.
PastGrace == {"opening", "opened", "active", "serving", "draining"}

\* Types; lease time, ages, grace and drain stay within the code's timeouts
\* (AUTHORITY_TTL, CLAIM_GRACE and the others in replication/mod.rs).
TypeOK ==
    /\ rec \in Rec
    /\ node \in [Node -> Process]

Init ==
    /\ rec = [gen |-> 0, phase |-> "absent", owner |-> NoNode]
    /\ node = [n \in Node |-> Fresh]

Set(n, s) == node' = [node EXCEPT ![n] = s]

Owns(n, phase) ==
    rec.phase = phase /\ rec.owner = n /\ rec.gen = node[n].gen

-----------------------------------------------------------------------------
(* Taking over *)

\* quiesce_heartbeat_acks, before the claim is tried.
Quiesce(n) ==
    /\ node[n].role = "standby"
    /\ Set(n, [node[n] EXCEPT !.role = "quiesced"])
    /\ UNCHANGED rec

\* The claim CAS: of an Active or absent record, or of an unfinished handoff that
\* was stale, or by force.
ClaimCas(n) ==
    /\ node[n].role = "quiesced"
    /\ rec.gen < MaxGen
    /\ rec' = [gen |-> rec.gen + 1, phase |-> "claiming", owner |-> n]
    /\ Set(n, [Fresh EXCEPT !.role = "claimed", !.gen = rec.gen + 1, !.wait = Grace])

\* ClaimRejected: role election again, with acknowledgements resumed.
ClaimRejected(n) ==
    /\ node[n].role = "quiesced"
    /\ Set(n, Fresh)
    /\ UNCHANGED rec

\* Mutant: a claim is opened at once, without the grace.
MutBeginOpenAtOnce(n) ==
    /\ node[n].role = "claimed"
    /\ Owns(n, "claiming")
    /\ rec' = [rec EXCEPT !.phase = "opening"]
    /\ Set(n, [node[n] EXCEPT !.role = "opening", !.wait = 0])

\* begin_open, once the claim grace has passed.
BeginOpen(n) ==
    /\ node[n].role = "claimed"
    /\ node[n].wait = 0
    /\ Owns(n, "claiming")
    /\ rec' = [rec EXCEPT !.phase = "opening"]
    /\ Set(n, [node[n] EXCEPT !.role = "opening"])

\* Opening the database fences every earlier writer.
OpenDb(n) ==
    /\ node[n].role = "opening"
    /\ Owns(n, "opening")
    /\ Set(n, [node[n] EXCEPT !.role = "opened"])
    /\ UNCHANGED rec

Activate(n) ==
    /\ node[n].role = "opened"
    /\ Owns(n, "opening")
    /\ rec' = [rec EXCEPT !.phase = "active"]
    /\ Set(n, [node[n] EXCEPT !.role = "active"])

\* OwnershipLost or a refused validate_opening: role election again.
LoseHandoff(n) ==
    /\ node[n].role \in {"claimed", "opening", "opened"}
    /\ rec.gen # node[n].gen
    /\ Set(n, Fresh)
    /\ UNCHANGED rec

-----------------------------------------------------------------------------
(* Ownership reads *)

StartRead(n) ==
    /\ node[n].kind = "none"
    /\ \/ node[n].role = "active"
       \/ node[n].role = "serving" /\ node[n].lease = "held"
    /\ Set(n, [node[n] EXCEPT !.kind = IF node[n].role = "active" THEN "initial" ELSE "ordinary",
                              !.age = 0])
    /\ UNCHANGED rec

\* The store reads the record; the answer is used later.
StoreAnswers(n) ==
    /\ node[n].kind # "none"
    /\ node[n].res = "none"
    /\ Set(n, [node[n] EXCEPT !.res = IF Owns(n, "active") THEN "exact" ELSE "changed"])
    /\ UNCHANGED rec

NoRead(s) == [s EXCEPT !.kind = "none", !.age = 0, !.res = "none"]

\* The lease is revoked and the loss token stops the server.
Revoked(s) ==
    [NoRead(s) EXCEPT !.role = "draining", !.lease = "revoked", !.left = 0,
                      !.hb = "none", !.hbAge = 0, !.drain = Drain]

\* Mutant: a renewal is added to what is left of the lease.
MutGrantedExtends(s, age) == [s EXCEPT !.lease = "held", !.left = @ + TTL - age, !.lag = 0]

\* Authority granted from a request of the given age.
Granted(s, age) == [s EXCEPT !.lease = "held", !.left = TTL - age, !.lag = 0]

\* A read fails or times out: final recovery is terminal, other reads are retried.
ReadFails(n) ==
    /\ node[n].kind # "none"
    /\ Set(n, IF node[n].kind = "final" THEN Revoked(node[n]) ELSE NoRead(node[n]))
    /\ UNCHANGED rec

\* activate_lease_with_validator: listeners open with at least a third of the TTL left.
InitialReadDone(n) ==
    /\ node[n].kind = "initial"
    /\ \/ /\ node[n].res = "changed"
          /\ Set(n, Dead)
       \/ /\ node[n].res = "exact"
          /\ Set(n, IF 3 * (TTL - node[n].age) >= TTL
                    THEN [Granted(NoRead(node[n]), node[n].age) EXCEPT !.role = "serving"]
                    ELSE NoRead(node[n]))
    /\ UNCHANGED rec

\* renew_from never shortens; an expired lease is recovered if the request started
\* less than a TTL ago, and is lost otherwise.
OrdinaryReadDone(n) ==
    /\ node[n].kind = "ordinary"
    /\ \/ /\ node[n].res = "changed"
          /\ Set(n, Revoked(node[n]))
       \/ /\ node[n].res = "exact"
          /\ Set(n, CASE node[n].left = 0 /\ node[n].age = TTL -> Revoked(node[n])
                      [] node[n].left < TTL - node[n].age -> Granted(NoRead(node[n]), node[n].age)
                      [] OTHER -> NoRead(node[n]))
    /\ UNCHANGED rec

\* final_ownership_recovery
FinalReadDone(n) ==
    /\ node[n].kind = "final"
    /\ node[n].res # "none"
    /\ Set(n, IF node[n].res = "exact" /\ node[n].age < TTL
              THEN Granted(NoRead(node[n]), node[n].age)
              ELSE Revoked(node[n]))
    /\ UNCHANGED rec

\* The lease expired: serving is suspended, a pending read is dropped and the
\* one final read starts.
Suspended(s) == [s EXCEPT !.lease = "suspended", !.kind = "final", !.age = 0, !.res = "none"]

Suspend(n) ==
    /\ node[n].lease = "held"
    /\ node[n].left = 0
    /\ Set(n, Suspended(node[n]))
    /\ UNCHANGED rec

-----------------------------------------------------------------------------
(* Heartbeats *)

SendHeartbeat(n) ==
    /\ node[n].role = "serving"
    /\ node[n].hb = "none"
    /\ Set(n, [node[n] EXCEPT !.hb = "sent", !.hbAge = 0])
    /\ UNCHANGED rec

\* Mutant: acknowledgements are not quiesced before a claim.
MutAckWhileClaiming(n) ==
    /\ node[n].hb = "sent"
    /\ \E p \in Node \ {n} : node[p].role \in {"standby", "quiesced", "claimed", "opening"}
    /\ Set(n, [node[n] EXCEPT !.hb = "acked"])
    /\ UNCHANGED rec

\* receive_heartbeat: only a standby that has not been quiesced acknowledges.
AckHeartbeat(n) ==
    /\ node[n].hb = "sent"
    /\ \E p \in Node \ {n} : node[p].role = "standby"
    /\ Set(n, [node[n] EXCEPT !.hb = "acked"])
    /\ UNCHANGED rec

NoHeartbeat(s) == [s EXCEPT !.hb = "none", !.hbAge = 0]

LoseHeartbeat(n) ==
    /\ node[n].hb # "none"
    /\ Set(n, NoHeartbeat(node[n]))
    /\ UNCHANGED rec

\* Mutant: an acknowledgement revives a lease that has just expired.
MutPeerAckRevives(n) ==
    /\ node[n].hb = "acked"
    /\ node[n].lease = "held"
    /\ Set(n, IF node[n].left < TTL - node[n].hbAge
              THEN Granted(NoRead(NoHeartbeat(node[n])), node[n].hbAge)
              ELSE NoRead(NoHeartbeat(node[n])))
    /\ UNCHANGED rec

\* The supervisor takes an acknowledgement, dropping a read under way.  It renews
\* a live lease from the heartbeat's start and finds an expired one expired.
PeerAck(n) ==
    /\ node[n].hb = "acked"
    /\ node[n].lease = "held"
    /\ Set(n, CASE node[n].left = 0 -> Suspended(NoHeartbeat(node[n]))
                [] node[n].left > 0 /\ node[n].left < TTL - node[n].hbAge ->
                      Granted(NoRead(NoHeartbeat(node[n])), node[n].hbAge)
                [] OTHER -> NoRead(NoHeartbeat(node[n])))
    /\ UNCHANGED rec

-----------------------------------------------------------------------------
(* Losing authority *)

\* The database was fenced, or a message carried a newer writer epoch.  Before
\* its first grant the process fails, with its listeners still closed.
Fenced(n) ==
    /\ node[n].role \in {"active", "serving"}
    /\ \E p \in Node \ {n} :
          /\ node[p].role \in {"opened", "active", "serving"}
          /\ node[p].gen > node[n].gen
    /\ Set(n, IF node[n].role = "serving" THEN Revoked(node[n]) ELSE Dead)
    /\ UNCHANGED rec

\* The server's listeners have stopped, or were aborted at the end of the drain.
DrainDone(n) ==
    /\ node[n].role = "draining"
    /\ Set(n, Dead)
    /\ UNCHANGED rec

Crash(n) ==
    /\ node[n].role # "down"
    /\ Set(n, Dead)
    /\ UNCHANGED rec

Restart(n) ==
    /\ node[n].role = "down"
    /\ Set(n, Fresh)
    /\ UNCHANGED rec

-----------------------------------------------------------------------------
(* Time *)

\* A timer of the step-down has gone off and its reaction is outstanding.
Due(s) ==
    \/ s.lease = "held" /\ s.left = 0
    \/ s.kind = "final" /\ s.age >= FinalTimeout
    \/ s.role = "draining" /\ s.drain = 0

Less(t) == IF t > 0 THEN t - 1 ELSE 0

\* Ages past the TTL all mean too old: the code keeps absolute deadlines, and the cap
\* only keeps the model finite.
Older(t) == IF t < TTL THEN t + 1 ELSE TTL

Aged(s) ==
    [s EXCEPT !.wait = Less(@), !.left = Less(@), !.drain = Less(@),
              !.age = IF s.kind = "none" THEN 0 ELSE Older(@),
              !.hbAge = IF s.hb = "none" THEN 0 ELSE Older(@),
              !.lag = IF Prompt /\ Due(s) /\ @ < Slack THEN @ + 1 ELSE @]

Tick ==
    /\ Prompt => \A n \in Node : Due(node[n]) => node[n].lag + 1 < Slack
    /\ node' = [n \in Node |-> Aged(node[n])]
    /\ UNCHANGED rec

NodeStep(n) ==
    \/ Quiesce(n) \/ ClaimCas(n) \/ ClaimRejected(n)
    \/ BeginOpen(n) \/ OpenDb(n) \/ Activate(n) \/ LoseHandoff(n)
    \/ StartRead(n) \/ StoreAnswers(n) \/ ReadFails(n)
    \/ InitialReadDone(n) \/ OrdinaryReadDone(n) \/ FinalReadDone(n) \/ Suspend(n)
    \/ SendHeartbeat(n) \/ AckHeartbeat(n) \/ LoseHeartbeat(n) \/ PeerAck(n)
    \/ Fenced(n) \/ DrainDone(n) \/ Crash(n) \/ Restart(n)

Next == Tick \/ \E n \in Node : NodeStep(n)

Spec == Init /\ [][Next]_vars

-----------------------------------------------------------------------------
(* Properties *)

\* At no instant may both nodes answer clients, however late timers are noticed and
\* answers arrive: an expired lease is not valid even before anybody reacts to it.
ExclusiveAuthority ==
    \A m, n \in Node : Valid(node[m]) /\ Valid(node[n]) => m = n

\* When a successor leaves the claim grace, and so may open the database, replay
\* its tail and serve, the predecessor's authority is gone, even if the successor
\* or its standby kept acknowledging heartbeats until the last moment.
SuccessorOpensAlone ==
    \A m, n \in Node :
        node[m].role \in PastGrace /\ node[n].gen < node[m].gen => ~Valid(node[n])

\* CLAIM_GRACE also covers final validation and response drain: when a successor
\* leaves the grace, the predecessor's server is gone.  Holds if the reactions of
\* one step-down (timers noticed late) together take less than Slack.
PredecessorStopped ==
    Prompt => \A m, n \in Node :
        node[m].role \in PastGrace /\ node[n].gen < node[m].gen =>
            node[n].role \notin {"serving", "draining"}

\* Authority is first gained, and regained after a lapse, only on an ownership
\* read that found the record exactly Active; an acknowledgement never revives it.
OnlyOwnershipRevives ==
    [][\A n \in Node : ~Valid(node[n]) /\ Valid(node[n])' => node[n].res = "exact"]_vars
=============================================================================
