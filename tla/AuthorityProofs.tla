-------------------------- MODULE AuthorityProofs --------------------------
(***************************************************************************)
(* Exclusive serving authority and the claim grace, for every choice of    *)
(* the timeouts and any number of generations.                             *)
(*                                                                         *)
(* The argument.  Let t own a later generation than s, and let E be the    *)
(* time since t's claim (Grace minus the grace t still waits for).  Every  *)
(* grant s holds or may still turn into one was requested before the       *)
(* claim: a lease ends within TTL - E, an exact answer and an acknowledged *)
(* heartbeat are at least E old, and new ones cannot arise, because the    *)
(* record no longer names s and t, the only possible standby, is not       *)
(* acknowledging.  Past the grace E = Grace >= TTL, so nothing is left.    *)
(* With prompt reactions, what s still needs to stop (Remaining) is in the *)
(* same way always less than the grace t still waits for.                  *)
(***************************************************************************)
EXTENDS Authority, Integers, TLAPS

Stopping == {"serving", "draining"}

\* What each role implies of one process.
ProcOK(s) ==
    /\ s.role \notin Holder => s.gen = 0
    /\ s.role \in Holder => s.gen > 0
    /\ s.role \in PastGrace => s.wait = 0
    /\ s.role = "serving" <=> s.lease \in {"held", "suspended"}
    /\ s.lease # "held" => s.left = 0
    /\ s.kind # "none" => s.role \in {"active", "serving"}
    /\ s.kind = "initial" => s.role = "active"
    /\ s.kind = "ordinary" => s.lease = "held"
    /\ s.lease = "suspended" => s.kind = "final"
    /\ s.kind = "final" => s.lease = "suspended"
    /\ s.res # "none" => s.kind # "none"
    /\ s.hb # "none" => s.role = "serving"
    /\ Prompt => s.lag < Slack

\* The longest time s may still need until its server has stopped, if nothing renews it.
Remaining(s) ==
    Drain + (Slack - 1 - s.lag) +
    (CASE s.lease = "held" -> s.left + FinalTimeout
       [] s.lease = "suspended" -> (IF s.age < FinalTimeout THEN FinalTimeout - s.age ELSE 0)
       [] OTHER -> 0) -
    (IF s.role = "draining" THEN Drain - s.drain ELSE 0)

\* Time since t's claim.
Elapsed(t) == Grace - t.wait

\* s is outranked by t: whatever grants s was requested before t's claim.
Outranked(s, t) ==
    /\ Valid(s) => s.left + Elapsed(t) <= TTL
    /\ s.res = "exact" => s.age >= Elapsed(t) \/ s.age = TTL
    /\ s.hb = "acked" => s.hbAge >= Elapsed(t) \/ s.hbAge = TTL
    /\ Prompt /\ s.role \in Stopping => Remaining(s) < t.wait

PairOK(s, t) ==
    s.role \in Holder /\ t.role \in Holder =>
        /\ s.gen # t.gen
        /\ s.gen < t.gen => Outranked(s, t)

Inv ==
    /\ TypeOK
    /\ \A n \in Node : ProcOK(node[n]) /\ node[n].gen <= rec.gen
    /\ \A n \in Node : \A p \in Node \ {n} : PairOK(node[n], node[p])

-----------------------------------------------------------------------------
(* Records *)

\* The timeouts are numbers, and the final read's timeout is within both TTL and Final (lease.rs).
LEMMA Timing ==
    /\ TTL \in Nat /\ TTL > 0 /\ Final \in Nat /\ Drain \in Nat /\ Slack \in Nat /\ Slack > 0
    /\ Grace \in Nat /\ Grace = TTL + Final + Drain + Slack
    /\ FinalTimeout \in Nat /\ FinalTimeout <= Final /\ FinalTimeout <= TTL
    /\ MaxGen \in Nat /\ Prompt \in BOOLEAN
  BY TimingAssumption DEF Grace, FinalTimeout

\* A new or dead process holds nothing.
LEMMA FreshFacts ==
    ASSUME NEW s \in {Fresh, Dead}
    PROVE  /\ s \in Process /\ s.role \notin Holder /\ s.gen = 0 /\ ~Valid(s)
           /\ s.res = "none" /\ s.hb = "none" /\ ProcOK(s)
  <1>1. CASE s = Fresh
    BY <1>1, Timing DEF Fresh, Process, Role, Holder, PastGrace, Valid, ProcOK
  <1>2. CASE s = Dead
    <2>1. Dead = [role |-> "down", gen |-> 0, wait |-> 0, lease |-> "uninit", left |-> 0,
                  kind |-> "none", age |-> 0, res |-> "none", hb |-> "none", hbAge |-> 0,
                  drain |-> 0, lag |-> 0]
      BY DEF Dead, Fresh
    <2>. QED
      BY <1>2, <2>1, Timing DEF Process, Role, Holder, PastGrace, Valid, ProcOK
  <1>. QED
    BY <1>1, <1>2

\* Dropping the read leaves the rest of the process alone.
LEMMA NoReadFacts ==
    ASSUME NEW s \in Process
    PROVE  LET u == NoRead(s) IN
           /\ u \in Process /\ u.kind = "none" /\ u.age = 0 /\ u.res = "none"
           /\ u.role = s.role /\ u.gen = s.gen /\ u.wait = s.wait /\ u.lease = s.lease
           /\ u.left = s.left /\ u.hb = s.hb /\ u.hbAge = s.hbAge /\ u.drain = s.drain
           /\ u.lag = s.lag
  <1>1. 0 \in 0..TTL
    BY Timing
  <1>2. NoRead(s) \in Process
    BY <1>1 DEF NoRead, Process
  <1>. QED
    BY <1>2 DEF NoRead, Process

\* Dropping the heartbeat leaves the rest of the process alone.
LEMMA NoHeartbeatFacts ==
    ASSUME NEW s \in Process
    PROVE  LET u == NoHeartbeat(s) IN
           /\ u \in Process /\ u.hb = "none" /\ u.hbAge = 0
           /\ u.role = s.role /\ u.gen = s.gen /\ u.wait = s.wait /\ u.lease = s.lease
           /\ u.left = s.left /\ u.kind = s.kind /\ u.age = s.age /\ u.res = s.res
           /\ u.drain = s.drain /\ u.lag = s.lag
  <1>1. 0 \in 0..TTL
    BY Timing
  <1>2. NoHeartbeat(s) \in Process
    BY <1>1 DEF NoHeartbeat, Process
  <1>. QED
    BY <1>2 DEF NoHeartbeat, Process

\* A grant sets the lease time from the request's age and nothing else but the lag.
LEMMA GrantedFacts ==
    ASSUME NEW s \in Process, NEW a \in 0..TTL
    PROVE  LET u == Granted(s, a) IN
           /\ u \in Process /\ u.lease = "held" /\ u.left = TTL - a /\ u.lag = 0
           /\ u.role = s.role /\ u.gen = s.gen /\ u.wait = s.wait
           /\ u.kind = s.kind /\ u.age = s.age /\ u.res = s.res
           /\ u.hb = s.hb /\ u.hbAge = s.hbAge /\ u.drain = s.drain
  <1>1. TTL - a \in 0..TTL /\ 0 \in 0..Slack
    BY Timing
  <1>. QED
    BY <1>1 DEF Granted, Process

\* Suspension starts the final read.
LEMMA SuspendedFacts ==
    ASSUME NEW s \in Process
    PROVE  LET u == Suspended(s) IN
           /\ u \in Process /\ u.lease = "suspended" /\ u.kind = "final" /\ u.age = 0
           /\ u.res = "none" /\ u.role = s.role /\ u.gen = s.gen /\ u.wait = s.wait
           /\ u.left = s.left /\ u.hb = s.hb /\ u.hbAge = s.hbAge /\ u.drain = s.drain
           /\ u.lag = s.lag
  <1>1. 0 \in 0..TTL
    BY Timing
  <1>2. Suspended(s) \in Process
    BY <1>1 DEF Suspended, Process
  <1>. QED
    BY <1>2 DEF Suspended, Process

\* Revocation ends every grant and starts the drain.
LEMMA RevokedFacts ==
    ASSUME NEW s \in Process
    PROVE  LET u == Revoked(s) IN
           /\ u \in Process /\ u.role = "draining" /\ u.lease = "revoked" /\ u.left = 0
           /\ u.kind = "none" /\ u.age = 0 /\ u.res = "none" /\ u.hb = "none"
           /\ u.drain = Drain /\ u.gen = s.gen /\ u.wait = s.wait /\ u.lag = s.lag
  <1>. DEFINE t == NoRead(s)
              u == Revoked(s)
  <1>1. /\ t \in Process /\ t.kind = "none" /\ t.age = 0 /\ t.res = "none"
        /\ t.gen = s.gen /\ t.wait = s.wait /\ t.lag = s.lag
    BY NoReadFacts
  <1>2. u = [t EXCEPT !.role = "draining", !.lease = "revoked", !.left = 0,
                      !.hb = "none", !.hbAge = 0, !.drain = Drain]
    BY DEF Revoked
  <1>3. 0 \in 0..TTL /\ Drain \in 0..Drain /\ "draining" \in Role
    BY Timing DEF Role
  <1>. HIDE DEF t, u
  <1>4. u \in Process
    BY <1>1, <1>2, <1>3 DEF Process
  <1>5. /\ u.role = "draining" /\ u.lease = "revoked" /\ u.left = 0
        /\ u.hb = "none" /\ u.drain = Drain /\ u.kind = t.kind /\ u.age = t.age /\ u.res = t.res
        /\ u.gen = t.gen /\ u.wait = t.wait /\ u.lag = t.lag
    BY <1>1, <1>2 DEF Process
  <1>. QED
    BY <1>1, <1>4, <1>5 DEF u

-----------------------------------------------------------------------------
(* Steps of one process *)

\* The numbers of a process.
LEMMA ProcessNumbers ==
    ASSUME NEW s \in Process
    PROVE  /\ s.gen \in Nat /\ s.wait \in 0..Grace /\ s.left \in 0..TTL /\ s.age \in 0..TTL
           /\ s.hbAge \in 0..TTL /\ s.drain \in 0..Drain /\ s.lag \in 0..Slack
  BY DEF Process

\* Remaining by the state of the lease.
LEMMA RemainingFacts ==
    ASSUME NEW s \in Process, ProcOK(s), s.role \in Stopping, Prompt
    PROVE  /\ Remaining(s) \in Nat
           /\ s.lease = "held" => Remaining(s) = Drain + (Slack - 1 - s.lag) + s.left + FinalTimeout
           /\ s.lease = "suspended" =>
                 Remaining(s) = Drain + (Slack - 1 - s.lag) +
                                (IF s.age < FinalTimeout THEN FinalTimeout - s.age ELSE 0)
           /\ s.role = "draining" => Remaining(s) = s.drain + (Slack - 1 - s.lag)
  <1>1. /\ s.left \in 0..TTL /\ s.age \in 0..TTL /\ s.drain \in 0..Drain /\ s.lag \in 0..Slack
        /\ s.lag < Slack
    BY ProcessNumbers DEF ProcOK
  <1>2. CASE s.lease = "held"
    <2>1. s.role # "draining"
      BY <1>2 DEF ProcOK
    <2>. QED
      BY <1>1, <1>2, <2>1, Timing DEF Remaining
  <1>3. CASE s.lease = "suspended"
    <2>1. s.role # "draining"
      BY <1>3 DEF ProcOK
    <2>. QED
      BY <1>1, <1>3, <2>1, Timing DEF Remaining
  <1>4. CASE s.lease \notin {"held", "suspended"}
    <2>1. s.role = "draining"
      BY <1>4 DEF ProcOK, Stopping
    <2>. QED
      BY <1>1, <1>4, <2>1, Timing DEF Remaining
  <1>. QED
    BY <1>2, <1>3, <1>4

\* u was granted authority from a request of the given age.
FromRequest(u, age) == age < TTL /\ u.lease = "held" /\ u.left = TTL - age /\ u.lag = 0

\* u follows s, and every grant of u was one, or was in reach, in s.
Derived(u, s) ==
    /\ u.role \in Holder => s.role \in Holder /\ u.gen = s.gen /\ u.wait = s.wait
    /\ u.res = "exact" => s.res = "exact" /\ u.age = s.age
    /\ u.hb = "acked" => s.hb = "acked" /\ u.hbAge = s.hbAge
    /\ \/ s.res = "exact" /\ FromRequest(u, s.age)
       \/ s.hb = "acked" /\ FromRequest(u, s.hbAge)
       \/ /\ Valid(u) => Valid(s) /\ u.left = s.left
          /\ Prompt /\ u.role \in Stopping => s.role \in Stopping /\ Remaining(u) <= Remaining(s)

\* A derived process stays outranked by whatever outranked it.
LEMMA DerivedOutranked ==
    ASSUME NEW s \in Process, NEW u \in Process, NEW t \in Process,
           ProcOK(s), ProcOK(u), Derived(u, s), Outranked(s, t)
    PROVE  Outranked(u, t)
  <1>1. /\ s.left \in 0..TTL /\ s.age \in 0..TTL /\ s.hbAge \in 0..TTL /\ t.wait \in 0..Grace
        /\ u.left \in 0..TTL
    BY ProcessNumbers
  <1>2. ASSUME NEW age \in 0..TTL, FromRequest(u, age), age >= Elapsed(t) \/ age = TTL
        PROVE  /\ Valid(u) => u.left + Elapsed(t) <= TTL
               /\ Prompt /\ u.role \in Stopping => Remaining(u) < t.wait
    <2>1. u.left = TTL - age /\ age >= Grace - t.wait /\ u.lag = 0 /\ u.lease = "held"
      BY <1>1, <1>2, Timing DEF FromRequest, Elapsed
    <2>2. Valid(u) => u.left + Elapsed(t) <= TTL
      BY <1>1, <2>1, Timing DEF Elapsed
    <2>3. ASSUME Prompt, u.role \in Stopping PROVE Remaining(u) < t.wait
      <3>1. Remaining(u) = Drain + (Slack - 1 - u.lag) + u.left + FinalTimeout
        BY <2>1, <2>3, RemainingFacts
      <3>. QED
        BY <1>1, <2>1, <3>1, Timing
    <2>. QED
      BY <2>2, <2>3
  <1>3. CASE s.res = "exact" /\ FromRequest(u, s.age)
    BY <1>1, <1>2, <1>3 DEF Outranked, Derived
  <1>4. CASE s.hb = "acked" /\ FromRequest(u, s.hbAge)
    BY <1>1, <1>2, <1>4 DEF Outranked, Derived
  <1>5. CASE /\ Valid(u) => Valid(s) /\ u.left = s.left
             /\ Prompt /\ u.role \in Stopping => s.role \in Stopping /\ Remaining(u) <= Remaining(s)
    <2>1. Valid(u) => u.left + Elapsed(t) <= TTL
      BY <1>5 DEF Outranked
    <2>2. ASSUME Prompt, u.role \in Stopping PROVE Remaining(u) < t.wait
      <3>1. Remaining(u) \in Nat /\ Remaining(s) \in Nat /\ Remaining(s) < t.wait
        BY <1>5, <2>2, RemainingFacts DEF Outranked
      <3>. QED
        BY <1>1, <1>5, <2>2, <3>1, Timing
    <2>. QED
      BY <2>1, <2>2 DEF Outranked, Derived
  <1>. QED
    BY <1>3, <1>4, <1>5 DEF Derived

\* A step in which one process moves to a derived one keeps the invariant.
LEMMA DerivedStep ==
    ASSUME Inv, NEW n \in Node, NEW u \in Process, ProcOK(u), Derived(u, node[n]),
           node' = [node EXCEPT ![n] = u], rec' \in Rec, rec'.gen = rec.gen
    PROVE  Inv'
  <1>1. /\ node \in [Node -> Process] /\ node[n] \in Process /\ ProcOK(node[n]) /\ rec \in Rec
        /\ node[n].gen <= rec.gen /\ u.gen \in Nat /\ rec.gen \in Nat
    BY ProcessNumbers DEF Inv, TypeOK, Rec
  <1>2. u.gen <= rec.gen
    BY <1>1 DEF ProcOK, Derived
  <1>3. ASSUME NEW p \in Node \ {n} PROVE PairOK(u, node[p]) /\ PairOK(node[p], u)
    <2>1. PairOK(node[n], node[p]) /\ PairOK(node[p], node[n]) /\ node[p] \in Process
      BY <1>1, <1>3 DEF Inv
    <2>2. PairOK(u, node[p])
      BY <1>1, <2>1, DerivedOutranked DEF PairOK, Derived
    <2>3. PairOK(node[p], u)
      BY <1>1, <2>1 DEF PairOK, Derived, Outranked, Elapsed
    <2>. QED
      BY <2>2, <2>3
  <1>4. node' \in [Node -> Process] /\ node'[n] = u /\ \A p \in Node \ {n} : node'[p] = node[p]
    BY <1>1
  <1>5. \A k \in Node : ProcOK(node'[k]) /\ node'[k].gen <= rec'.gen
    BY <1>1, <1>2, <1>4 DEF Inv
  <1>6. \A k \in Node : \A p \in Node \ {k} : PairOK(node'[k], node'[p])
    BY <1>3, <1>4 DEF Inv
  <1>. QED
    BY <1>4, <1>5, <1>6 DEF Inv, TypeOK

\* Where the lease, its time and the server's state stay, so does what remains.
LEMMA SameRemaining ==
    ASSUME NEW s \in Process, NEW u \in Process, u.role = s.role, u.lease = s.lease, u.left = s.left,
           u.lag = s.lag, u.drain = s.drain, ProcOK(s), ProcOK(u), Prompt, s.role \in Stopping,
           s.lease = "suspended" => u.age = s.age
    PROVE  Remaining(u) <= Remaining(s)
  BY Timing, ProcessNumbers DEF Remaining

\* Back to role election, or dead: nothing is held.
LEMMA GoneStep ==
    ASSUME Inv, NEW n \in Node, NEW u \in {Fresh, Dead}, node' = [node EXCEPT ![n] = u], rec' = rec
    PROVE  Inv'
  <1>1. u \in Process /\ u.role \notin Holder /\ ~Valid(u) /\ u.res = "none" /\ u.hb = "none" /\ ProcOK(u)
    BY FreshFacts
  <1>2. Derived(u, node[n])
    BY <1>1 DEF Derived, Holder, Stopping
  <1>3. rec' \in Rec /\ rec'.gen = rec.gen
    BY DEF Inv, TypeOK
  <1>. QED
    BY <1>1, <1>2, <1>3, DerivedStep

\* Revocation of a serving process: its drain is within what remained.
LEMMA RevokedStep ==
    ASSUME Inv, NEW n \in Node, node[n].role = "serving",
           node' = [node EXCEPT ![n] = Revoked(node[n])], rec' = rec
    PROVE  Inv'
  <1>. DEFINE s == node[n]
              u == Revoked(s)
  <1>1. s \in Process /\ ProcOK(s) /\ s.role = "serving" /\ rec' \in Rec /\ rec'.gen = rec.gen
    BY DEF Inv, TypeOK
  <1>2. /\ u \in Process /\ u.role = "draining" /\ u.lease = "revoked" /\ u.left = 0
        /\ u.kind = "none" /\ u.age = 0 /\ u.res = "none" /\ u.hb = "none"
        /\ u.drain = Drain /\ u.gen = s.gen /\ u.wait = s.wait /\ u.lag = s.lag
    BY <1>1, RevokedFacts
  <1>. HIDE DEF s, u
  <1>3. ProcOK(u)
    BY <1>1, <1>2 DEF ProcOK, Holder, PastGrace
  <1>4. ASSUME Prompt PROVE Remaining(u) <= Remaining(s)
    <2>1. Remaining(u) = u.drain + (Slack - 1 - u.lag)
      BY <1>2, <1>3, <1>4, RemainingFacts DEF Stopping
    <2>2. \/ Remaining(s) = Drain + (Slack - 1 - s.lag) + s.left + FinalTimeout
          \/ Remaining(s) = Drain + (Slack - 1 - s.lag) +
                            (IF s.age < FinalTimeout THEN FinalTimeout - s.age ELSE 0)
      BY <1>1, <1>4, RemainingFacts DEF Stopping, ProcOK
    <2>3. s.left \in 0..TTL /\ s.age \in 0..TTL /\ s.lag \in 0..Slack
      BY <1>1, ProcessNumbers
    <2>. QED
      BY <1>2, <2>1, <2>2, <2>3, Timing
  <1>5. Derived(u, s)
    BY <1>1, <1>2, <1>4 DEF Derived, Holder, Stopping, Valid
  <1>. QED
    BY <1>1, <1>2, <1>3, <1>5, DerivedStep DEF s, u

\* A step that changes neither lease, lag, drain nor holder status and adds no grant: reads are
\* started or dropped, heartbeats are sent or dropped.
LEMMA QuietStep ==
    ASSUME Inv, NEW n \in Node, NEW u \in Process, ProcOK(u), rec' \in Rec, rec'.gen = rec.gen,
           node' = [node EXCEPT ![n] = u],
           u.role = node[n].role, u.gen = node[n].gen, u.wait = node[n].wait,
           u.lease = node[n].lease, u.left = node[n].left, u.lag = node[n].lag,
           u.drain = node[n].drain, u.lease = "suspended" => u.age = node[n].age,
           u.res = "exact" => node[n].res = "exact" /\ u.age = node[n].age,
           u.hb = "acked" => node[n].hb = "acked" /\ u.hbAge = node[n].hbAge
    PROVE  Inv'
  <1>1. node[n] \in Process /\ ProcOK(node[n])
    BY DEF Inv, TypeOK
  <1>2. Prompt /\ node[n].role \in Stopping => Remaining(u) <= Remaining(node[n])
    BY <1>1, SameRemaining
  <1>3. Derived(u, node[n])
    BY <1>2 DEF Derived, Valid
  <1>. QED
    BY <1>3, DerivedStep

\* A grant from an exact read, or from an acknowledged heartbeat, of the given age.
LEMMA GrantStep ==
    ASSUME Inv, NEW n \in Node, NEW u \in Process, NEW age \in 0..TTL, rec' = rec,
           node' = [node EXCEPT ![n] = u], node[n].role \in {"active", "serving"}, age < TTL,
           \/ node[n].res = "exact" /\ age = node[n].age
           \/ node[n].hb = "acked" /\ age = node[n].hbAge,
           u.role = "serving", u.gen = node[n].gen, u.wait = node[n].wait,
           u.lease = "held", u.left = TTL - age, u.lag = 0, u.kind = "none", u.res = "none",
           u.hb = "acked" => node[n].hb = "acked" /\ u.hbAge = node[n].hbAge
    PROVE  Inv'
  <1>1. node[n] \in Process /\ ProcOK(node[n]) /\ rec' \in Rec /\ rec'.gen = rec.gen
    BY DEF Inv, TypeOK
  <1>2. ProcOK(u)
    BY <1>1, Timing DEF ProcOK, Holder, PastGrace
  <1>3. Derived(u, node[n])
    BY DEF Derived, FromRequest, Holder
  <1>. QED
    BY <1>1, <1>2, <1>3, DerivedStep

\* Suspension: the final read's time was already counted in what remained.
LEMMA SuspendStep ==
    ASSUME Inv, NEW n \in Node, NEW u \in Process, rec' = rec, node' = [node EXCEPT ![n] = u],
           node[n].lease = "held", node[n].left = 0,
           u.role = node[n].role, u.gen = node[n].gen, u.wait = node[n].wait, u.drain = node[n].drain,
           u.lease = "suspended", u.left = 0, u.lag = node[n].lag, u.kind = "final", u.age = 0,
           u.res = "none", u.hb = "acked" => node[n].hb = "acked" /\ u.hbAge = node[n].hbAge
    PROVE  Inv'
  <1>1. node[n] \in Process /\ ProcOK(node[n]) /\ rec' \in Rec /\ rec'.gen = rec.gen
    BY DEF Inv, TypeOK
  <1>2. ProcOK(u)
    BY <1>1 DEF ProcOK, Holder, PastGrace
  <1>3. ASSUME Prompt PROVE Remaining(u) <= Remaining(node[n])
    <2>1. node[n].role = "serving" /\ u.role \in Stopping /\ node[n].role \in Stopping
      BY <1>1 DEF ProcOK, Stopping
    <2>2. Remaining(node[n]) = Drain + (Slack - 1 - node[n].lag) + node[n].left + FinalTimeout
      BY <1>1, <1>3, <2>1, RemainingFacts
    <2>3. Remaining(u) = Drain + (Slack - 1 - u.lag) +
                         (IF u.age < FinalTimeout THEN FinalTimeout - u.age ELSE 0)
      BY <1>2, <1>3, <2>1, RemainingFacts
    <2>4. node[n].lag \in 0..Slack
      BY <1>1, ProcessNumbers
    <2>. QED
      BY <2>2, <2>3, <2>4, Timing
  <1>4. Derived(u, node[n])
    BY <1>1, <1>3 DEF Derived, Valid, Stopping, ProcOK
  <1>. QED
    BY <1>1, <1>2, <1>4, DerivedStep

\* One process moves; its pairs are shown to be in order separately.
LEMMA LocalStep ==
    ASSUME Inv, NEW n \in Node, NEW u \in Process, ProcOK(u), node' = [node EXCEPT ![n] = u],
           rec' \in Rec, rec.gen <= rec'.gen, u.gen <= rec'.gen,
           \A p \in Node \ {n} : PairOK(u, node[p]) /\ PairOK(node[p], u)
    PROVE  Inv'
  <1>1. node \in [Node -> Process] /\ rec.gen \in Nat /\ rec'.gen \in Nat
    BY DEF Inv, TypeOK, Rec
  <1>2. node' \in [Node -> Process] /\ node'[n] = u /\ \A p \in Node \ {n} : node'[p] = node[p]
    BY <1>1
  <1>3. \A k \in Node : node[k].gen \in Nat
    BY <1>1, ProcessNumbers
  <1>4. \A k \in Node : ProcOK(node'[k]) /\ node'[k].gen <= rec'.gen
    BY <1>1, <1>2, <1>3 DEF Inv
  <1>5. \A k \in Node : \A p \in Node \ {k} : PairOK(node'[k], node'[p])
    BY <1>2 DEF Inv
  <1>. QED
    BY <1>2, <1>4, <1>5 DEF Inv, TypeOK

\* A process that owns the newest generation may be granted anything.
LEMMA NewestStep ==
    ASSUME Inv, NEW n \in Node, NEW u \in Process, ProcOK(u), node' = [node EXCEPT ![n] = u],
           rec' = rec, node[n].gen = rec.gen, u.gen = node[n].gen, u.wait = node[n].wait,
           node[n].role \in Holder
    PROVE  Inv'
  <1>1. rec' \in Rec /\ rec.gen \in Nat
    BY DEF Inv, TypeOK, Rec
  <1>2. ASSUME NEW p \in Node \ {n} PROVE PairOK(u, node[p]) /\ PairOK(node[p], u)
    <2>1. /\ PairOK(node[n], node[p]) /\ PairOK(node[p], node[n])
          /\ node[p].gen <= rec.gen /\ node[p].gen \in Nat
      BY <1>2, ProcessNumbers DEF Inv, TypeOK
    <2>. QED
      BY <1>1, <2>1 DEF PairOK, Outranked, Elapsed
  <1>3. rec.gen <= rec'.gen /\ u.gen <= rec'.gen
    BY <1>1
  <1>. QED
    BY <1>1, <1>2, <1>3, LocalStep

\* The claim: the new owner outranks everybody, and every grant is younger than TTL.
LEMMA ClaimStep ==
    ASSUME Inv, NEW n \in Node, ClaimCas(n)
    PROVE  Inv'
  <1>. DEFINE u == [Fresh EXCEPT !.role = "claimed", !.gen = rec.gen + 1, !.wait = Grace]
  <1>1. rec \in Rec /\ rec.gen \in Nat /\ rec'.gen = rec.gen + 1 /\ node' = [node EXCEPT ![n] = u]
    BY DEF Inv, TypeOK, Rec, ClaimCas, Set
  <1>2. rec' \in Rec
    BY <1>1 DEF ClaimCas, Rec
  <1>3. /\ Fresh \in Process /\ Fresh.lease = "uninit" /\ Fresh.left = 0 /\ Fresh.kind = "none"
        /\ Fresh.res = "none" /\ Fresh.hb = "none" /\ Fresh.lag = 0
    BY FreshFacts DEF Fresh
  <1>4. /\ u \in Process /\ u.role = "claimed" /\ u.gen = rec.gen + 1 /\ u.wait = Grace
        /\ ProcOK(u)
    <2>1. "claimed" \in Role /\ rec.gen + 1 \in Nat /\ Grace \in 0..Grace
      BY <1>1, Timing DEF Role
    <2>2. u \in Process
      BY <1>3, <2>1 DEF Process
    <2>3. u.role = "claimed" /\ u.gen = rec.gen + 1 /\ u.wait = Grace
      BY <1>3 DEF Process
    <2>4. /\ u.lease = "uninit" /\ u.left = 0 /\ u.kind = "none" /\ u.res = "none" /\ u.hb = "none"
          /\ u.lag = 0
      BY <1>3 DEF Process
    <2>. HIDE DEF u
    <2>. QED
      BY <1>1, <2>2, <2>3, <2>4, Timing DEF ProcOK, Holder, PastGrace
  <1>. HIDE DEF u
  <1>5. ASSUME NEW p \in Node \ {n} PROVE PairOK(u, node[p]) /\ PairOK(node[p], u)
    <2>1. node[p] \in Process /\ ProcOK(node[p]) /\ node[p].gen <= rec.gen /\ node[p].gen \in Nat
      BY <1>5, ProcessNumbers DEF Inv, TypeOK
    <2>2. /\ node[p].left \in 0..TTL /\ node[p].age \in 0..TTL /\ node[p].hbAge \in 0..TTL
          /\ node[p].lag \in 0..Slack /\ node[p].drain \in 0..Drain
      BY <2>1, ProcessNumbers
    <2>3. Elapsed(u) = 0
      BY <1>4, Timing DEF Elapsed
    <2>4. ASSUME Prompt, node[p].role \in Stopping PROVE Remaining(node[p]) < Grace
      <3>1. \/ Remaining(node[p]) = Drain + (Slack - 1 - node[p].lag) + node[p].left + FinalTimeout
            \/ Remaining(node[p]) = Drain + (Slack - 1 - node[p].lag) +
                  (IF node[p].age < FinalTimeout THEN FinalTimeout - node[p].age ELSE 0)
            \/ Remaining(node[p]) = node[p].drain + (Slack - 1 - node[p].lag)
        BY <2>1, <2>4, RemainingFacts DEF Stopping, ProcOK
      <3>. QED
        BY <2>2, <3>1, Timing
    <2>5. Outranked(node[p], u)
      BY <1>4, <2>2, <2>3, <2>4, Timing DEF Outranked
    <2>. QED
      BY <1>1, <1>4, <2>1, <2>5 DEF PairOK
  <1>6. rec.gen <= rec'.gen /\ u.gen <= rec'.gen
    BY <1>1, <1>4
  <1>. QED
    BY <1>1, <1>2, <1>4, <1>5, <1>6, LocalStep

-----------------------------------------------------------------------------
(* Time *)

\* What a tick does to a process.
LEMMA AgedFacts ==
    ASSUME NEW s \in Process
    PROVE  /\ Aged(s) \in Process
           /\ Aged(s).role = s.role /\ Aged(s).gen = s.gen /\ Aged(s).lease = s.lease
           /\ Aged(s).kind = s.kind /\ Aged(s).res = s.res /\ Aged(s).hb = s.hb
           /\ Aged(s).wait = Less(s.wait) /\ Aged(s).left = Less(s.left) /\ Aged(s).drain = Less(s.drain)
           /\ Aged(s).age = (IF s.kind = "none" THEN 0 ELSE Older(s.age))
           /\ Aged(s).hbAge = (IF s.hb = "none" THEN 0 ELSE Older(s.hbAge))
           /\ Aged(s).lag = (IF Prompt /\ Due(s) /\ s.lag < Slack THEN s.lag + 1 ELSE s.lag)
  <1>. DEFINE wait == Less(s.wait)
              left == Less(s.left)
              drain == Less(s.drain)
              age == IF s.kind = "none" THEN 0 ELSE Older(s.age)
              hbAge == IF s.hb = "none" THEN 0 ELSE Older(s.hbAge)
              lag == IF Prompt /\ Due(s) /\ s.lag < Slack THEN s.lag + 1 ELSE s.lag
  <1>1. /\ wait \in 0..Grace /\ left \in 0..TTL /\ drain \in 0..Drain /\ age \in 0..TTL
        /\ hbAge \in 0..TTL /\ lag \in 0..Slack
    BY ProcessNumbers, Timing DEF Less, Older
  <1>2. Aged(s) = [s EXCEPT !.wait = wait, !.left = left, !.drain = drain, !.age = age,
                            !.hbAge = hbAge, !.lag = lag]
    BY DEF Aged
  <1>. HIDE DEF wait, left, drain, age, hbAge, lag
  <1>3. Aged(s) \in Process
    BY <1>1, <1>2 DEF Process
  <1>4. /\ Aged(s).role = s.role /\ Aged(s).gen = s.gen /\ Aged(s).lease = s.lease
        /\ Aged(s).kind = s.kind /\ Aged(s).res = s.res /\ Aged(s).hb = s.hb
    BY <1>2 DEF Process
  <1>5. /\ Aged(s).wait = wait /\ Aged(s).left = left /\ Aged(s).drain = drain
        /\ Aged(s).age = age /\ Aged(s).hbAge = hbAge /\ Aged(s).lag = lag
    BY <1>2 DEF Process
  <1>. QED
    BY <1>3, <1>4, <1>5 DEF wait, left, drain, age, hbAge, lag

\* A process that is not overdue, or has slack left, stays sound and needs one tick less to stop.
LEMMA AgedOK ==
    ASSUME NEW s \in Process, ProcOK(s), Prompt /\ Due(s) => s.lag + 1 < Slack
    PROVE  /\ ProcOK(Aged(s))
           /\ Prompt /\ s.role \in Stopping => Remaining(Aged(s)) <= Remaining(s) - 1
  <1>. DEFINE u == Aged(s)
  <1>1. /\ u \in Process /\ u.role = s.role /\ u.gen = s.gen /\ u.lease = s.lease
        /\ u.kind = s.kind /\ u.res = s.res /\ u.hb = s.hb
        /\ u.wait = Less(s.wait) /\ u.left = Less(s.left) /\ u.drain = Less(s.drain)
        /\ u.age = (IF s.kind = "none" THEN 0 ELSE Older(s.age))
        /\ u.lag = (IF Prompt /\ Due(s) /\ s.lag < Slack THEN s.lag + 1 ELSE s.lag)
    BY AgedFacts
  <1>2. /\ s.wait \in 0..Grace /\ s.left \in 0..TTL /\ s.age \in 0..TTL
        /\ s.drain \in 0..Drain /\ s.lag \in 0..Slack
    BY ProcessNumbers
  <1>. HIDE DEF u
  <1>3. ProcOK(u)
    <2>1. Prompt => u.lag < Slack
      BY <1>1, <1>2, Timing DEF ProcOK
    <2>2. (s.wait = 0 => u.wait = 0) /\ (s.left = 0 => u.left = 0)
      BY <1>1, <1>2 DEF Less
    <2>. QED
      BY <1>1, <2>1, <2>2 DEF ProcOK
  <1>4. ASSUME Prompt, s.role \in Stopping PROVE Remaining(u) <= Remaining(s) - 1
    <2>1. CASE s.lease = "held"
      <3>1. /\ Remaining(s) = Drain + (Slack - 1 - s.lag) + s.left + FinalTimeout
            /\ Remaining(u) = Drain + (Slack - 1 - u.lag) + u.left + FinalTimeout
        BY <1>1, <1>3, <1>4, <2>1, RemainingFacts
      <3>2. s.left = 0 => Due(s)
        BY <2>1 DEF Due
      <3>3. s.kind # "final" /\ s.role # "draining"
        BY <2>1 DEF ProcOK
      <3>. QED
        BY <1>1, <1>2, <1>4, <2>1, <3>1, <3>2, <3>3, Timing DEF Less, Due
    <2>2. CASE s.lease = "suspended"
      <3>1. /\ Remaining(s) = Drain + (Slack - 1 - s.lag) +
                              (IF s.age < FinalTimeout THEN FinalTimeout - s.age ELSE 0)
            /\ Remaining(u) = Drain + (Slack - 1 - u.lag) +
                              (IF u.age < FinalTimeout THEN FinalTimeout - u.age ELSE 0)
        BY <1>1, <1>3, <1>4, <2>2, RemainingFacts
      <3>2. s.kind = "final" /\ s.role # "draining"
        BY <2>2 DEF ProcOK
      <3>. QED
        BY <1>1, <1>2, <1>4, <2>2, <3>1, <3>2, Timing DEF Older, Due
    <2>3. CASE s.role = "draining"
      <3>1. /\ Remaining(s) = s.drain + (Slack - 1 - s.lag)
            /\ Remaining(u) = u.drain + (Slack - 1 - u.lag)
        BY <1>1, <1>3, <1>4, <2>3, RemainingFacts
      <3>2. s.lease # "held" /\ s.kind = "none"
        BY <2>3 DEF ProcOK
      <3>. QED
        BY <1>1, <1>2, <1>4, <2>3, <3>1, <3>2, Timing DEF Less, Due
    <2>. QED
      BY <1>4, <2>1, <2>2, <2>3 DEF Stopping, ProcOK
  <1>. QED
    BY <1>3, <1>4 DEF u

\* A tick keeps an outranked process outranked: every clock of the pair moves together.
LEMMA AgedPair ==
    ASSUME NEW s \in Process, NEW t \in Process, ProcOK(s), ProcOK(t), PairOK(s, t),
           Prompt /\ Due(s) => s.lag + 1 < Slack
    PROVE  PairOK(Aged(s), Aged(t))
  <1>. DEFINE u == Aged(s)
              v == Aged(t)
  <1>1. /\ u \in Process /\ u.role = s.role /\ u.gen = s.gen /\ u.lease = s.lease
        /\ u.kind = s.kind /\ u.res = s.res /\ u.hb = s.hb /\ u.left = Less(s.left)
        /\ u.age = (IF s.kind = "none" THEN 0 ELSE Older(s.age))
        /\ u.hbAge = (IF s.hb = "none" THEN 0 ELSE Older(s.hbAge))
    BY AgedFacts
  <1>2. v.role = t.role /\ v.gen = t.gen /\ v.wait = Less(t.wait)
    BY AgedFacts
  <1>3. ProcOK(u) /\ (Prompt /\ s.role \in Stopping => Remaining(u) <= Remaining(s) - 1)
    BY AgedOK
  <1>4. /\ t.wait \in 0..Grace /\ s.left \in 0..TTL /\ s.age \in 0..TTL /\ s.hbAge \in 0..TTL
    BY ProcessNumbers
  <1>. HIDE DEF u, v
  <1>5. ASSUME Outranked(s, t) PROVE Outranked(u, v)
    <2>1. Valid(u) => u.left + Elapsed(v) <= TTL
      BY <1>1, <1>2, <1>4, <1>5, Timing DEF Outranked, Valid, Elapsed, Less
    <2>2. u.res = "exact" => u.age >= Elapsed(v) \/ u.age = TTL
      <3>1. s.res = "exact" => s.kind # "none"
        BY DEF ProcOK
      <3>. QED
        BY <1>1, <1>2, <1>4, <1>5, <3>1, Timing DEF Outranked, Elapsed, Less, Older
    <2>3. u.hb = "acked" => u.hbAge >= Elapsed(v) \/ u.hbAge = TTL
      BY <1>1, <1>2, <1>4, <1>5, Timing DEF Outranked, Elapsed, Less, Older
    <2>4. ASSUME Prompt, u.role \in Stopping PROVE Remaining(u) < v.wait
      <3>1. Remaining(u) \in Nat /\ Remaining(s) \in Nat
        BY <1>1, <1>3, <2>4, RemainingFacts
      <3>2. Remaining(s) < t.wait
        BY <1>1, <1>5, <2>4 DEF Outranked
      <3>. QED
        BY <1>1, <1>2, <1>3, <1>4, <2>4, <3>1, <3>2, Timing DEF Less
    <2>. QED
      BY <2>1, <2>2, <2>3, <2>4 DEF Outranked
  <1>. QED
    BY <1>1, <1>2, <1>5 DEF PairOK, u, v

\* Time passes for both processes at once.
LEMMA TickStep ==
    ASSUME Inv, Tick
    PROVE  Inv'
  <1>1. node \in [Node -> Process] /\ rec \in Rec /\ rec' = rec
    BY DEF Inv, TypeOK, Tick
  <1>2. \A k \in Node : node'[k] = Aged(node[k])
    BY DEF Tick
  <1>3. \A k \in Node : node[k] \in Process /\ (Prompt /\ Due(node[k]) => node[k].lag + 1 < Slack)
    BY <1>1 DEF Tick
  <1>4. \A k \in Node : Aged(node[k]) \in Process /\ Aged(node[k]).gen = node[k].gen
    BY <1>3, AgedFacts
  <1>5. \A k \in Node : ProcOK(Aged(node[k]))
    BY <1>3, AgedOK DEF Inv
  <1>6. \A k \in Node : \A p \in Node \ {k} : PairOK(Aged(node[k]), Aged(node[p]))
    BY <1>3, AgedPair DEF Inv
  <1>7. node' \in [Node -> Process]
    BY <1>4 DEF Tick
  <1>8. \A k \in Node : ProcOK(node'[k]) /\ node'[k].gen <= rec'.gen
    BY <1>1, <1>2, <1>4, <1>5 DEF Inv
  <1>9. \A k \in Node : \A p \in Node \ {k} : PairOK(node'[k], node'[p])
    BY <1>2, <1>6
  <1>. QED
    BY <1>1, <1>7, <1>8, <1>9 DEF Inv, TypeOK

-----------------------------------------------------------------------------
(* Actions *)

\* A process without reads, heartbeats or a lease changes its role.
LEMMA RoleStep ==
    ASSUME Inv, NEW n \in Node, NEW r \in Role, rec' \in Rec, rec'.gen = rec.gen,
           node' = [node EXCEPT ![n] = [node[n] EXCEPT !.role = r]],
           node[n].role \notin {"active", "serving"}, r \notin Stopping,
           r \in Holder <=> node[n].role \in Holder, r \in PastGrace => node[n].wait = 0
    PROVE  Inv'
  <1>. DEFINE s == node[n]
              u == [s EXCEPT !.role = r]
  <1>1. s \in Process /\ ProcOK(s) /\ s.role \notin {"active", "serving"} /\ node' = [node EXCEPT ![n] = u]
    BY DEF Inv, TypeOK
  <1>2. u \in Process
    BY <1>1 DEF Process
  <1>3. /\ u.role = r /\ u.gen = s.gen /\ u.wait = s.wait /\ u.lease = s.lease /\ u.left = s.left
        /\ u.kind = s.kind /\ u.age = s.age /\ u.res = s.res /\ u.hb = s.hb /\ u.hbAge = s.hbAge
        /\ u.drain = s.drain /\ u.lag = s.lag
    BY <1>1 DEF Process
  <1>4. (r \in Holder <=> s.role \in Holder) /\ (r \in PastGrace => s.wait = 0)
    OBVIOUS
  <1>. HIDE DEF s, u
  <1>5. ProcOK(u)
    BY <1>1, <1>3, <1>4 DEF ProcOK, Stopping
  <1>6. Derived(u, s)
    BY <1>3, <1>4 DEF Derived, Valid
  <1>. QED
    BY <1>1, <1>2, <1>5, <1>6, DerivedStep DEF s

\* Taking over: quiescing, opening, activating.
LEMMA TakeOverStep ==
    ASSUME Inv, NEW n \in Node, Quiesce(n) \/ BeginOpen(n) \/ OpenDb(n) \/ Activate(n)
    PROVE  Inv'
  <1>1. rec \in Rec /\ node[n] \in Process /\ ProcOK(node[n])
    BY DEF Inv, TypeOK
  <1>2. {"quiesced", "opening", "opened", "active"} \subseteq Role
    BY DEF Role
  <1>3. CASE Quiesce(n)
    BY <1>1, <1>2, <1>3, RoleStep DEF Quiesce, Set, Stopping, Holder, PastGrace
  <1>4. CASE BeginOpen(n)
    <2>1. rec' \in Rec /\ rec'.gen = rec.gen
      BY <1>1, <1>4 DEF BeginOpen, Rec
    <2>. QED
      BY <1>1, <1>2, <1>4, <2>1, RoleStep DEF BeginOpen, Set, Stopping, Holder, PastGrace
  <1>5. CASE OpenDb(n)
    <2>1. node[n].wait = 0
      BY <1>1, <1>5 DEF OpenDb, ProcOK, PastGrace
    <2>. QED
      BY <1>1, <1>2, <1>5, <2>1, RoleStep DEF OpenDb, Set, Stopping, Holder, PastGrace
  <1>6. CASE Activate(n)
    <2>1. rec' \in Rec /\ rec'.gen = rec.gen
      BY <1>1, <1>6 DEF Activate, Rec
    <2>2. node[n].wait = 0
      BY <1>1, <1>6 DEF Activate, ProcOK, PastGrace
    <2>. QED
      BY <1>1, <1>2, <1>6, <2>1, <2>2, RoleStep DEF Activate, Set, Stopping, Holder, PastGrace
  <1>. QED
    BY <1>3, <1>4, <1>5, <1>6

\* Everything that ends in role election or in death.
LEMMA LeavingStep ==
    ASSUME Inv, NEW n \in Node,
           \/ ClaimRejected(n) \/ LoseHandoff(n) \/ Fenced(n)
           \/ DrainDone(n) \/ Crash(n) \/ Restart(n)
    PROVE  Inv'
  <1>1. CASE Fenced(n)
    BY <1>1, RevokedStep, GoneStep DEF Fenced, Set
  <1>2. CASE ~Fenced(n)
    BY <1>2, GoneStep DEF ClaimRejected, LoseHandoff, DrainDone, Crash, Restart, Set
  <1>. QED
    BY <1>1, <1>2

\* Dropping a read that is not the final one.
LEMMA DropRead ==
    ASSUME Inv, NEW n \in Node, node[n].kind # "final", rec' = rec,
           node' = [node EXCEPT ![n] = NoRead(node[n])]
    PROVE  Inv'
  <1>. DEFINE s == node[n]
              u == NoRead(s)
  <1>1. s \in Process /\ ProcOK(s) /\ rec' \in Rec /\ rec'.gen = rec.gen /\ s.kind # "final"
    BY DEF Inv, TypeOK
  <1>2. /\ u \in Process /\ u.kind = "none" /\ u.age = 0 /\ u.res = "none"
        /\ u.role = s.role /\ u.gen = s.gen /\ u.wait = s.wait /\ u.lease = s.lease
        /\ u.left = s.left /\ u.hb = s.hb /\ u.hbAge = s.hbAge /\ u.drain = s.drain
        /\ u.lag = s.lag
    BY <1>1, NoReadFacts
  <1>. HIDE DEF s, u
  <1>3. ProcOK(u) /\ u.lease # "suspended"
    BY <1>1, <1>2 DEF ProcOK
  <1>. QED
    BY <1>1, <1>2, <1>3, QuietStep DEF s, u

\* The ownership read, from its start to the store's answer.
LEMMA ReadStep ==
    ASSUME Inv, NEW n \in Node, StartRead(n) \/ StoreAnswers(n) \/ ReadFails(n)
    PROVE  Inv'
  <1>. DEFINE s == node[n]
  <1>1. s \in Process /\ ProcOK(s) /\ rec \in Rec /\ rec' = rec /\ rec' \in Rec /\ rec'.gen = rec.gen
    BY DEF Inv, TypeOK, StartRead, StoreAnswers, ReadFails
  <1>2. 0 \in 0..TTL
    BY Timing
  <1>3. CASE StartRead(n)
    <2>. DEFINE kind == IF s.role = "active" THEN "initial" ELSE "ordinary"
                u == [s EXCEPT !.kind = kind, !.age = 0]
    <2>1. /\ node' = [node EXCEPT ![n] = u] /\ s.kind = "none"
          /\ s.role = "active" \/ (s.role = "serving" /\ s.lease = "held")
      BY <1>3 DEF StartRead, Set
    <2>2. kind \in {"initial", "ordinary"} /\ (kind = "initial" <=> s.role = "active")
      OBVIOUS
    <2>. HIDE DEF kind
    <2>3. u \in Process
      BY <1>1, <1>2, <2>2 DEF Process
    <2>4. /\ u.role = s.role /\ u.gen = s.gen /\ u.wait = s.wait /\ u.lease = s.lease
          /\ u.left = s.left /\ u.hb = s.hb /\ u.hbAge = s.hbAge /\ u.drain = s.drain
          /\ u.lag = s.lag /\ u.res = s.res /\ u.kind = kind
      BY <1>1 DEF Process
    <2>. HIDE DEF s, u
    <2>5. ProcOK(u) /\ u.lease # "suspended" /\ u.res = "none"
      BY <1>1, <2>1, <2>2, <2>3, <2>4 DEF ProcOK, Process
    <2>. QED
      BY <1>1, <2>1, <2>3, <2>4, <2>5, QuietStep DEF s
  <1>4. CASE StoreAnswers(n)
    <2>. DEFINE res == IF Owns(n, "active") THEN "exact" ELSE "changed"
                u == [s EXCEPT !.res = res]
    <2>1. node' = [node EXCEPT ![n] = u] /\ s.kind # "none"
      BY <1>4 DEF StoreAnswers, Set
    <2>2. res \in {"exact", "changed"} /\ (res = "exact" => s.gen = rec.gen)
      BY DEF Owns
    <2>. HIDE DEF res
    <2>3. u \in Process
      BY <1>1, <2>2 DEF Process
    <2>4. /\ u.role = s.role /\ u.gen = s.gen /\ u.wait = s.wait /\ u.lease = s.lease
          /\ u.left = s.left /\ u.hb = s.hb /\ u.hbAge = s.hbAge /\ u.drain = s.drain
          /\ u.lag = s.lag /\ u.res = res /\ u.kind = s.kind /\ u.age = s.age
      BY <1>1 DEF Process
    <2>. HIDE DEF s, u
    <2>5. ProcOK(u) /\ s.role \in Holder
      BY <1>1, <2>1, <2>4 DEF ProcOK, Holder
    <2>6. CASE res = "exact"
      BY <1>1, <2>1, <2>2, <2>3, <2>4, <2>5, <2>6, NewestStep DEF s
    <2>7. CASE res # "exact"
      BY <1>1, <2>1, <2>3, <2>4, <2>5, <2>7, QuietStep DEF s
    <2>. QED
      BY <2>6, <2>7
  <1>5. CASE ReadFails(n)
    <2>1. CASE s.kind = "final"
      <3>1. s.role = "serving"
        BY <1>1, <2>1 DEF ProcOK
      <3>. QED
        BY <1>1, <1>5, <2>1, <3>1, RevokedStep DEF ReadFails, Set
    <2>2. CASE s.kind # "final"
      BY <1>1, <1>5, <2>2, DropRead DEF ReadFails, Set
    <2>. QED
      BY <2>1, <2>2
  <1>. QED
    BY <1>3, <1>4, <1>5

\* A heartbeat is sent, lost, or acknowledged by the other node, which is then a standby.
LEMMA HeartbeatStep ==
    ASSUME Inv, NEW n \in Node, SendHeartbeat(n) \/ LoseHeartbeat(n) \/ AckHeartbeat(n)
    PROVE  Inv'
  <1>. DEFINE s == node[n]
  <1>1. /\ s \in Process /\ ProcOK(s) /\ s.gen <= rec.gen /\ rec \in Rec /\ rec' = rec
        /\ rec' \in Rec /\ rec'.gen = rec.gen
    BY DEF Inv, TypeOK, SendHeartbeat, LoseHeartbeat, AckHeartbeat
  <1>2. 0 \in 0..TTL
    BY Timing
  <1>3. CASE SendHeartbeat(n)
    <2>. DEFINE u == [s EXCEPT !.hb = "sent", !.hbAge = 0]
    <2>1. node' = [node EXCEPT ![n] = u] /\ s.role = "serving"
      BY <1>3 DEF SendHeartbeat, Set
    <2>2. u \in Process
      BY <1>1, <1>2 DEF Process
    <2>3. /\ u.role = s.role /\ u.gen = s.gen /\ u.wait = s.wait /\ u.lease = s.lease
          /\ u.left = s.left /\ u.hb = "sent" /\ u.drain = s.drain
          /\ u.lag = s.lag /\ u.res = s.res /\ u.kind = s.kind /\ u.age = s.age
      BY <1>1 DEF Process
    <2>. HIDE DEF s, u
    <2>4. ProcOK(u)
      BY <1>1, <2>1, <2>3 DEF ProcOK
    <2>. QED
      BY <1>1, <2>1, <2>2, <2>3, <2>4, QuietStep DEF s
  <1>4. CASE LoseHeartbeat(n)
    <2>. DEFINE u == NoHeartbeat(s)
    <2>1. node' = [node EXCEPT ![n] = u]
      BY <1>4 DEF LoseHeartbeat, Set
    <2>2. /\ u \in Process /\ u.hb = "none"
          /\ u.role = s.role /\ u.gen = s.gen /\ u.wait = s.wait /\ u.lease = s.lease
          /\ u.left = s.left /\ u.kind = s.kind /\ u.age = s.age /\ u.res = s.res
          /\ u.drain = s.drain /\ u.lag = s.lag
      BY <1>1, NoHeartbeatFacts
    <2>. HIDE DEF s, u
    <2>3. ProcOK(u)
      BY <1>1, <2>2 DEF ProcOK
    <2>. QED
      BY <1>1, <2>1, <2>2, <2>3, QuietStep DEF s
  <1>5. CASE AckHeartbeat(n)
    <2>. DEFINE u == [s EXCEPT !.hb = "acked"]
    <2>1. node' = [node EXCEPT ![n] = u] /\ s.hb = "sent"
      BY <1>5 DEF AckHeartbeat, Set
    <2>2. u \in Process
      BY <1>1 DEF Process
    <2>3. /\ u.role = s.role /\ u.gen = s.gen /\ u.wait = s.wait /\ u.lease = s.lease
          /\ u.left = s.left /\ u.hb = "acked" /\ u.drain = s.drain
          /\ u.lag = s.lag /\ u.res = s.res /\ u.kind = s.kind /\ u.age = s.age
      BY <1>1 DEF Process
    <2>. HIDE DEF s, u
    <2>4. ProcOK(u)
      BY <1>1, <2>1, <2>3 DEF ProcOK
    <2>5. \A p \in Node \ {n} : node[p].role = "standby"
      BY <1>5, PairAssumption DEF AckHeartbeat
    <2>6. \A p \in Node \ {n} : PairOK(u, node[p]) /\ PairOK(node[p], u)
      BY <2>5 DEF PairOK, Holder
    <2>7. rec.gen <= rec'.gen /\ u.gen <= rec'.gen
      BY <1>1, <2>3 DEF Rec
    <2>. QED
      BY <1>1, <2>1, <2>2, <2>4, <2>6, <2>7, LocalStep
  <1>. QED
    BY <1>3, <1>4, <1>5

\* A grant from an exact read of the process's own age.
LEMMA GrantRead ==
    ASSUME Inv, NEW n \in Node, node[n].res = "exact", node[n].age < TTL, rec' = rec,
           NEW u \in Process, node' = [node EXCEPT ![n] = u], u.role = "serving",
           \/ u = Granted(NoRead(node[n]), node[n].age)
           \/ u = [Granted(NoRead(node[n]), node[n].age) EXCEPT !.role = "serving"]
    PROVE  Inv'
  <1>. DEFINE s == node[n]
              v == NoRead(s)
              w == Granted(v, s.age)
  <1>1. s \in Process /\ ProcOK(s)
    BY DEF Inv, TypeOK
  <1>2. s.age \in 0..TTL /\ s.role \in {"active", "serving"}
    BY <1>1, ProcessNumbers DEF ProcOK
  <1>3. /\ v \in Process /\ v.kind = "none" /\ v.res = "none"
        /\ v.gen = s.gen /\ v.wait = s.wait /\ v.hb = s.hb /\ v.hbAge = s.hbAge
    BY <1>1, NoReadFacts
  <1>4. u = w \/ u = [w EXCEPT !.role = "serving"]
    OBVIOUS
  <1>. HIDE DEF v
  <1>5. /\ w \in Process /\ w.lease = "held" /\ w.left = TTL - s.age /\ w.lag = 0
        /\ w.gen = v.gen /\ w.wait = v.wait /\ w.kind = v.kind /\ w.res = v.res
        /\ w.hb = v.hb /\ w.hbAge = v.hbAge
    BY <1>2, <1>3, GrantedFacts
  <1>. HIDE DEF w
  <1>6. /\ u.lease = w.lease /\ u.left = w.left /\ u.lag = w.lag /\ u.gen = w.gen
        /\ u.wait = w.wait /\ u.kind = w.kind /\ u.res = w.res /\ u.hb = w.hb /\ u.hbAge = w.hbAge
    BY <1>4, <1>5 DEF Process
  <1>7. /\ u.gen = node[n].gen /\ u.wait = node[n].wait /\ u.lease = "held" /\ u.left = TTL - node[n].age
        /\ u.lag = 0 /\ u.kind = "none" /\ u.res = "none"
        /\ u.hb = "acked" => node[n].hb = "acked" /\ u.hbAge = node[n].hbAge
    BY <1>3, <1>5, <1>6
  <1>8. node[n].age \in 0..TTL /\ node[n].role \in {"active", "serving"}
    BY <1>2
  <1>. HIDE DEF s
  <1>. QED
    BY <1>7, <1>8, GrantStep

\* What becomes of an answered ownership read.
LEMMA ReadDoneStep ==
    ASSUME Inv, NEW n \in Node, InitialReadDone(n) \/ OrdinaryReadDone(n) \/ FinalReadDone(n)
    PROVE  Inv'
  <1>. DEFINE s == node[n]
              w == Granted(NoRead(s), s.age)
  <1>1. s \in Process /\ ProcOK(s) /\ s.age \in 0..TTL /\ s.left \in 0..TTL /\ rec' = rec
    BY ProcessNumbers DEF Inv, TypeOK, InitialReadDone, OrdinaryReadDone, FinalReadDone
  <1>2. w \in Process /\ w.role = s.role
    <2>1. NoRead(s) \in Process /\ NoRead(s).role = s.role
      BY <1>1, NoReadFacts
    <2>. QED
      BY <1>1, <2>1, GrantedFacts
  <1>3. CASE InitialReadDone(n)
    <2>1. s.kind # "final"
      BY <1>3 DEF InitialReadDone
    <2>2. CASE s.res = "changed"
      BY <1>1, <1>3, <2>2, GoneStep DEF InitialReadDone, Set
    <2>3. CASE s.res = "exact" /\ 3 * (TTL - s.age) >= TTL
      <3>. DEFINE u == [w EXCEPT !.role = "serving"]
      <3>1. s.age < TTL
        BY <1>1, <2>3, Timing
      <3>2. node' = [node EXCEPT ![n] = u]
        BY <1>3, <2>3 DEF InitialReadDone, Set
      <3>. HIDE DEF w
      <3>3. u \in Process /\ u.role = "serving"
        BY <1>2 DEF Process, Role
      <3>. QED
        BY <1>1, <2>3, <3>1, <3>2, <3>3, GrantRead DEF w
    <2>4. CASE s.res = "exact" /\ ~(3 * (TTL - s.age) >= TTL)
      BY <1>1, <1>3, <2>1, <2>4, DropRead DEF InitialReadDone, Set
    <2>. QED
      BY <1>3, <2>2, <2>3, <2>4 DEF InitialReadDone
  <1>4. CASE OrdinaryReadDone(n)
    <2>1. s.kind # "final" /\ s.role = "serving" /\ s.lease = "held"
      BY <1>1, <1>4 DEF OrdinaryReadDone, ProcOK
    <2>2. CASE s.res = "changed"
      BY <1>1, <1>4, <2>1, <2>2, RevokedStep DEF OrdinaryReadDone, Set
    <2>3. CASE s.res = "exact" /\ s.left = 0 /\ s.age = TTL
      BY <1>1, <1>4, <2>1, <2>3, RevokedStep DEF OrdinaryReadDone, Set
    <2>4. CASE s.res = "exact" /\ ~(s.left = 0 /\ s.age = TTL) /\ s.left < TTL - s.age
      <3>1. s.age < TTL
        BY <1>1, <2>4, Timing
      <3>2. node' = [node EXCEPT ![n] = w]
        BY <1>4, <2>4 DEF OrdinaryReadDone, Set
      <3>. QED
        BY <1>1, <1>2, <2>1, <2>4, <3>1, <3>2, GrantRead
    <2>5. CASE s.res = "exact" /\ ~(s.left = 0 /\ s.age = TTL) /\ ~(s.left < TTL - s.age)
      BY <1>1, <1>4, <2>1, <2>5, DropRead DEF OrdinaryReadDone, Set
    <2>. QED
      BY <1>4, <2>2, <2>3, <2>4, <2>5 DEF OrdinaryReadDone
  <1>5. CASE FinalReadDone(n)
    <2>1. s.role = "serving"
      BY <1>1, <1>5 DEF FinalReadDone, ProcOK
    <2>2. CASE s.res = "exact" /\ s.age < TTL
      BY <1>1, <1>2, <1>5, <2>1, <2>2, GrantRead DEF FinalReadDone, Set
    <2>3. CASE ~(s.res = "exact" /\ s.age < TTL)
      BY <1>1, <1>5, <2>1, <2>3, RevokedStep DEF FinalReadDone, Set
    <2>. QED
      BY <2>2, <2>3
  <1>. QED
    BY <1>3, <1>4, <1>5

\* The lease expires, or an acknowledgement is taken.
LEMMA LeaseStep ==
    ASSUME Inv, NEW n \in Node, Suspend(n) \/ PeerAck(n)
    PROVE  Inv'
  <1>. DEFINE s == node[n]
              v == NoHeartbeat(s)
              w == NoRead(v)
              x == Granted(w, s.hbAge)
              y == Suspended(v)
  <1>1. /\ s \in Process /\ ProcOK(s) /\ s.hbAge \in 0..TTL /\ s.left \in 0..TTL
        /\ rec' = rec /\ rec' \in Rec /\ rec'.gen = rec.gen
    BY ProcessNumbers DEF Inv, TypeOK, Suspend, PeerAck
  <1>2. s.lease = "held" /\ s.role = "serving" /\ s.kind # "final"
    BY <1>1 DEF Suspend, PeerAck, ProcOK
  <1>3. CASE Suspend(n)
    <2>. DEFINE u == Suspended(s)
    <2>1. node' = [node EXCEPT ![n] = u] /\ s.left = 0
      BY <1>3 DEF Suspend, Set
    <2>2. /\ u \in Process /\ u.lease = "suspended" /\ u.kind = "final" /\ u.age = 0
          /\ u.res = "none" /\ u.role = s.role /\ u.gen = s.gen /\ u.wait = s.wait
          /\ u.left = s.left /\ u.hb = s.hb /\ u.hbAge = s.hbAge /\ u.drain = s.drain
          /\ u.lag = s.lag
      BY <1>1, SuspendedFacts
    <2>. HIDE DEF s, u
    <2>. QED
      BY <1>1, <1>2, <2>1, <2>2, SuspendStep DEF s
  <1>4. CASE PeerAck(n)
    <2>1. /\ v \in Process /\ v.hb = "none"
          /\ v.role = s.role /\ v.gen = s.gen /\ v.wait = s.wait /\ v.lease = s.lease
          /\ v.left = s.left /\ v.kind = s.kind /\ v.age = s.age /\ v.res = s.res
          /\ v.drain = s.drain /\ v.lag = s.lag
      BY <1>1, NoHeartbeatFacts
    <2>2. s.hb = "acked"
      BY <1>4 DEF PeerAck
    <2>. DEFINE c == CASE s.left = 0 -> y
                       [] s.left > 0 /\ s.left < TTL - s.hbAge -> x
                       [] OTHER -> w
    <2>3. node' = [node EXCEPT ![n] = c]
      BY <1>4 DEF PeerAck, Set
    <2>. HIDE DEF s, v, w, x, y
    <2>a. /\ s.left = 0 => c = y
          /\ s.left > 0 /\ s.left < TTL - s.hbAge => c = x
          /\ ~(s.left = 0) /\ ~(s.left > 0 /\ s.left < TTL - s.hbAge) => c = w
      BY <1>1, Timing
    <2>. HIDE DEF c
    <2>. USE DEF w, x, y
    <2>4. CASE s.left = 0
      <3>1. /\ y \in Process /\ y.lease = "suspended" /\ y.kind = "final" /\ y.age = 0
            /\ y.res = "none" /\ y.role = v.role /\ y.gen = v.gen /\ y.wait = v.wait
            /\ y.left = v.left /\ y.hb = v.hb /\ y.drain = v.drain /\ y.lag = v.lag
        BY <2>1, SuspendedFacts
      <3>. HIDE DEF s, y
      <3>. QED
        BY <1>1, <1>2, <2>1, <2>3, <2>a, <2>4, <3>1, SuspendStep DEF s
    <2>5. /\ w \in Process /\ w.kind = "none" /\ w.res = "none"
          /\ w.role = v.role /\ w.gen = v.gen /\ w.wait = v.wait /\ w.lease = v.lease
          /\ w.left = v.left /\ w.hb = v.hb /\ w.drain = v.drain /\ w.lag = v.lag
      BY <2>1, NoReadFacts
    <2>. HIDE DEF w
    <2>6. CASE s.left > 0 /\ s.left < TTL - s.hbAge
      <3>1. /\ x \in Process /\ x.lease = "held" /\ x.left = TTL - s.hbAge /\ x.lag = 0
            /\ x.role = w.role /\ x.gen = w.gen /\ x.wait = w.wait /\ x.kind = w.kind
            /\ x.res = w.res /\ x.hb = w.hb
        BY <1>1, <2>5, GrantedFacts
      <3>2. s.hbAge < TTL
        BY <1>1, <2>6, Timing
      <3>. HIDE DEF s, x
      <3>. QED
        <4>1. node' = [node EXCEPT ![n] = x]
          BY <2>3, <2>a, <2>6
        <4>2. /\ x.role = "serving" /\ x.gen = s.gen /\ x.wait = s.wait /\ x.kind = "none"
              /\ x.res = "none" /\ x.hb # "acked"
          BY <1>2, <2>1, <2>5, <3>1
        <4>. QED
          BY <1>1, <1>2, <2>2, <3>1, <3>2, <4>1, <4>2, GrantStep DEF s
    <2>7. CASE ~(s.left = 0) /\ ~(s.left > 0 /\ s.left < TTL - s.hbAge)
      <3>. HIDE DEF s
      <3>1. ProcOK(w) /\ w.lease # "suspended"
        BY <1>1, <1>2, <2>1, <2>5 DEF ProcOK
      <3>. QED
        BY <1>1, <1>2, <2>1, <2>3, <2>a, <2>5, <2>7, <3>1, QuietStep DEF s
    <2>. QED
      BY <2>4, <2>6, <2>7
  <1>. QED
    BY <1>3, <1>4

-----------------------------------------------------------------------------
(* The invariant and what follows *)

\* Two fresh standbys and an empty record satisfy the invariant.
LEMMA InitInv == Init => Inv
  <1>. SUFFICES ASSUME Init PROVE Inv
    OBVIOUS
  <1>1. rec \in Rec /\ rec.gen = 0 /\ \A n \in Node : node[n] = Fresh
    BY DEF Init, Rec
  <1>2. \A n \in Node : node[n] \in Process /\ ProcOK(node[n]) /\ node[n].role \notin Holder /\ node[n].gen = 0
    BY <1>1, FreshFacts
  <1>3. node \in [Node -> Process]
    BY <1>2 DEF Init
  <1>. QED
    BY <1>1, <1>2, <1>3 DEF Inv, TypeOK, PairOK

\* Every step of the supervisor, the takeover and the clock keeps the invariant.
LEMMA NextInv == Inv /\ [Next]_vars => Inv'
  <1>. SUFFICES ASSUME Inv, [Next]_vars PROVE Inv'
    OBVIOUS
  <1>1. CASE UNCHANGED vars
    BY <1>1 DEF vars, Inv, TypeOK, ProcOK, PairOK, Outranked, Valid, Remaining, Elapsed
  <1>2. CASE Tick
    BY <1>2, TickStep
  <1>3. ASSUME NEW n \in Node, NodeStep(n) PROVE Inv'
    BY <1>3, TakeOverStep, ClaimStep, LeavingStep, ReadStep, ReadDoneStep, LeaseStep, HeartbeatStep
       DEF NodeStep
  <1>. QED
    BY <1>1, <1>2, <1>3 DEF Next

\* Every reachable state: whatever grants an outranked process was requested before
\* its successor's claim (the argument above), for any TTL, timeouts and grace.
THEOREM AuthorityInvariant == Spec => []Inv
  BY InitInv, NextInv, PTL DEF Spec

\* The model's record and processes keep their types.
THEOREM AuthorityTypeCorrect == Spec => []TypeOK
  <1>1. Inv => TypeOK
    BY DEF Inv
  <1>. QED
    BY <1>1, AuthorityInvariant, PTL

\* Of two processes with a valid lease neither can have the newer generation.
LEMMA InvExclusive == Inv => ExclusiveAuthority
  <1>. SUFFICES ASSUME Inv, NEW m \in Node, NEW n \in Node, Valid(node[m]), Valid(node[n]), m # n
                PROVE  FALSE
    BY DEF ExclusiveAuthority
  <1>1. /\ node[m] \in Process /\ ProcOK(node[m]) /\ node[n] \in Process /\ ProcOK(node[n])
        /\ PairOK(node[m], node[n]) /\ PairOK(node[n], node[m])
    BY DEF Inv, TypeOK
  <1>2. /\ node[m].role = "serving" /\ node[n].role = "serving"
        /\ node[m].wait = 0 /\ node[n].wait = 0
    BY <1>1 DEF Valid, ProcOK, PastGrace
  <1>3. node[m].gen \in Nat /\ node[n].gen \in Nat /\ node[m].left \in 0..TTL /\ node[n].left \in 0..TTL
    BY <1>1, ProcessNumbers
  <1>4. Outranked(node[m], node[n]) \/ Outranked(node[n], node[m])
    BY <1>1, <1>2, <1>3 DEF PairOK, Holder
  <1>. QED
    BY <1>2, <1>3, <1>4, Timing DEF Outranked, Valid, Elapsed

\* No two nodes ever hold a valid serving lease at once (lease.rs), however late
\* reads, acknowledgements, timers and restarts come.
THEOREM AuthorityExclusive == Spec => []ExclusiveAuthority
  BY InvExclusive, AuthorityInvariant, PTL

\* A process past its grace outranks its predecessor with nothing of the latter's left.
LEMMA InvOpensAlone == Inv => SuccessorOpensAlone /\ PredecessorStopped
  <1>. SUFFICES ASSUME Inv, NEW m \in Node, NEW n \in Node, node[m].role \in PastGrace,
                       node[n].gen < node[m].gen
                PROVE  ~Valid(node[n]) /\ (Prompt => node[n].role \notin {"serving", "draining"})
    BY DEF SuccessorOpensAlone, PredecessorStopped
  <1>1. /\ node[m] \in Process /\ ProcOK(node[m]) /\ node[n] \in Process /\ ProcOK(node[n])
    BY DEF Inv, TypeOK
  <1>2. node[m].gen \in Nat /\ node[n].gen \in Nat /\ node[n].left \in 0..TTL /\ m # n
    BY <1>1, ProcessNumbers
  <1>3. node[m].wait = 0 /\ node[m].role \in Holder
    BY <1>1 DEF ProcOK, PastGrace, Holder
  <1>4. CASE node[n].role \notin Holder
    BY <1>1, <1>4 DEF Valid, ProcOK, Holder
  <1>5. CASE node[n].role \in Holder
    <2>1. Outranked(node[n], node[m])
      BY <1>2, <1>3, <1>5 DEF Inv, PairOK
    <2>2. ~Valid(node[n])
      BY <1>2, <1>3, <2>1, Timing DEF Outranked, Valid, Elapsed
    <2>3. ASSUME Prompt, node[n].role \in Stopping PROVE FALSE
      <3>1. Remaining(node[n]) \in Nat
        BY <1>1, <2>3, RemainingFacts
      <3>. QED
        BY <1>3, <2>1, <2>3, <3>1 DEF Outranked
    <2>. QED
      BY <2>2, <2>3 DEF Stopping
  <1>. QED
    BY <1>4, <1>5

\* CLAIM_GRACE (leader_record.rs) outlasts every lease a predecessor can hold.
THEOREM GraceCoversLease == Spec => []SuccessorOpensAlone
  <1>1. Inv => SuccessorOpensAlone
    BY InvOpensAlone
  <1>. QED
    BY <1>1, AuthorityInvariant, PTL

\* CLAIM_GRACE also outlasts the final recovery and the drain of a prompt predecessor.
THEOREM GraceCoversDrain == Spec => []PredecessorStopped
  <1>1. Inv => PredecessorStopped
    BY InvOpensAlone
  <1>. QED
    BY <1>1, AuthorityInvariant, PTL

\* The lease is held after the step only if it was valid, or an exact answer was there.
LEMMA NoRevival ==
    ASSUME Inv, NEW n \in Node, NodeStep(n), Valid(node'[n])
    PROVE  Valid(node[n]) \/ node[n].res = "exact"
  <1>. DEFINE s == node[n]
  <1>1. s \in Process /\ ProcOK(s) /\ s.age \in 0..TTL /\ s.hbAge \in 0..TTL /\ node \in [Node -> Process]
    BY ProcessNumbers DEF Inv, TypeOK
  <1>2. Fresh.lease = "uninit" /\ Dead.lease = "uninit" /\ Revoked(s).lease = "revoked"
    BY <1>1, RevokedFacts DEF Fresh, Dead
  <1>3. NoRead(s).lease = s.lease /\ NoRead(s).left = s.left
    BY <1>1, NoReadFacts
  <1>4. CASE Quiesce(n) \/ BeginOpen(n) \/ OpenDb(n) \/ Activate(n)
    BY <1>1, <1>4 DEF Quiesce, BeginOpen, OpenDb, Activate, Set, Valid, Process
  <1>5. CASE ClaimCas(n)
    BY <1>1, <1>5 DEF ClaimCas, Set, Valid, Fresh
  <1>6. CASE \/ ClaimRejected(n) \/ LoseHandoff(n) \/ Fenced(n)
             \/ DrainDone(n) \/ Crash(n) \/ Restart(n)
    BY <1>1, <1>2, <1>6 DEF ClaimRejected, LoseHandoff, Fenced, DrainDone, Crash, Restart, Set, Valid
  <1>7. CASE StartRead(n) \/ StoreAnswers(n)
    <2>. DEFINE kind == IF s.role = "active" THEN "initial" ELSE "ordinary"
                res == IF Owns(n, "active") THEN "exact" ELSE "changed"
                u == [s EXCEPT !.kind = kind, !.age = 0]
                v == [s EXCEPT !.res = res]
    <2>1. node'[n] \in {u, v}
      BY <1>1, <1>7 DEF StartRead, StoreAnswers, Set
    <2>. HIDE DEF kind, res
    <2>2. u.lease = s.lease /\ u.left = s.left /\ v.lease = s.lease /\ v.left = s.left
      BY <1>1 DEF Process
    <2>. HIDE DEF u, v
    <2>. QED
      BY <2>1, <2>2 DEF Valid
  <1>8. CASE ReadFails(n)
    BY <1>1, <1>2, <1>3, <1>8 DEF ReadFails, Set, Valid
  <1>9. CASE InitialReadDone(n) \/ OrdinaryReadDone(n)
    BY <1>1, <1>2, <1>9 DEF InitialReadDone, OrdinaryReadDone, Set, Valid
  <1>10. CASE FinalReadDone(n)
    BY <1>1, <1>2, <1>10 DEF FinalReadDone, Set, Valid
  <1>11. CASE SendHeartbeat(n) \/ AckHeartbeat(n)
    BY <1>1, <1>11 DEF SendHeartbeat, AckHeartbeat, Set, Valid, Process
  <1>12. NoHeartbeat(s) \in Process /\ NoHeartbeat(s).lease = s.lease /\ NoHeartbeat(s).left = s.left
    BY <1>1, NoHeartbeatFacts
  <1>13. CASE LoseHeartbeat(n)
    BY <1>1, <1>12, <1>13 DEF LoseHeartbeat, Set, Valid
  <1>14. CASE Suspend(n)
    <2>1. Suspended(s).lease = "suspended"
      BY <1>1, SuspendedFacts
    <2>. QED
      BY <1>1, <1>14, <2>1 DEF Suspend, Set, Valid
  <1>15. CASE PeerAck(n)
    <2>1. Suspended(NoHeartbeat(s)).lease = "suspended"
      BY <1>12, SuspendedFacts
    <2>2. s.lease = "held" /\ (s.left = 0 => node'[n] = Suspended(NoHeartbeat(s)))
      BY <1>1, <1>15 DEF PeerAck, Set
    <2>3. s.left # 0
      BY <2>1, <2>2 DEF Valid
    <2>4. s.left \in 0..TTL
      BY <1>1, ProcessNumbers
    <2>. QED
      BY <2>2, <2>3, <2>4, Timing DEF Valid
  <1>. QED
    BY <1>4, <1>5, <1>6, <1>7, <1>8, <1>9, <1>10, <1>11, <1>13, <1>14, <1>15 DEF NodeStep

\* Only an exact ownership read gives authority that was not there: the acknowledgement
\* path of the supervisor (lease.rs) extends a live lease and never revives one.
THEOREM AuthorityFromOwnership == Spec => OnlyOwnershipRevives
  <1>. DEFINE Step == \A n \in Node : ~Valid(node[n]) /\ Valid(node[n])' => node[n].res = "exact"
  <1>1. Inv /\ Next => Step
    <2>. SUFFICES ASSUME Inv, Next, NEW n \in Node, ~Valid(node[n]), Valid(node'[n])
                  PROVE  node[n].res = "exact"
      BY DEF Valid
    <2>1. CASE Tick
      <3>1. node[n] \in Process /\ node[n].left \in 0..TTL /\ node'[n] = Aged(node[n])
        BY <2>1, ProcessNumbers DEF Inv, TypeOK, Tick
      <3>2. Aged(node[n]).lease = node[n].lease /\ Aged(node[n]).left = Less(node[n].left)
        BY <3>1, AgedFacts
      <3>. QED
        BY <3>1, <3>2, Timing DEF Valid, Less
    <2>2. ASSUME NEW k \in Node, NodeStep(k) PROVE node[n].res = "exact"
      <3>1. CASE k = n
        BY <2>2, <3>1, NoRevival
      <3>2. CASE k # n
        <4>1. node'[n] = node[n]
          BY <2>2, <3>2 DEF NodeStep, Quiesce, ClaimCas, ClaimRejected, BeginOpen, OpenDb, Activate,
             LoseHandoff, StartRead, StoreAnswers, ReadFails, InitialReadDone, OrdinaryReadDone,
             FinalReadDone, Suspend, SendHeartbeat, AckHeartbeat, LoseHeartbeat, PeerAck, Fenced,
             DrainDone, Crash, Restart, Set, Inv, TypeOK
        <4>. QED
          BY <4>1
      <3>. QED
        BY <3>1, <3>2
    <2>. QED
      BY <2>1, <2>2 DEF Next
  <1>2. Inv /\ [Next]_vars => [Step]_vars
    BY <1>1
  <1>. QED
    BY <1>2, AuthorityInvariant, PTL DEF Spec, OnlyOwnershipRevives
=============================================================================
