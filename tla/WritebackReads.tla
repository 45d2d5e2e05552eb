--------------------------- MODULE WritebackReads ---------------------------
(***************************************************************************)
(* A reader of the write-back tier (overlay.rs get_opts, head and list).   *)
(* It looks an object up in the overlay, lets go of the overlay's lock and *)
(* fetches the payload from where the entry said it was; everything that   *)
(* Writeback.tla describes may happen in between.                          *)
(*                                                                         *)
(* One read is under way at a time: reads change nothing that another read *)
(* or a writer looks at.  The cache of small payloads (BlobCache) holds    *)
(* what the journal held, and makes Fetch possible where the journal has   *)
(* nothing any more.                                                       *)
(***************************************************************************)
EXTENDS Writeback

VARIABLE read   \* the read under way, and what the object held meanwhile

\* got is the payload returned.  seen is not state of the program: it is what
\* the object held since the look-up, at one time or another.
NoRead == [at |-> "idle", key |-> NoKey, entry |-> 0, seen |-> {}, got |-> Absent]

\* The content of k as its writers know it: the newest mutation not withdrawn.
Current(k) == View(DOMAIN log \ failed, k)

\* The newest pending entry of k, 0 when there is none.
Newest(k) ==
    LET on == {s \in DOMAIN overlay : k \in Touched(log[s])}
    IN  IF on = {} THEN 0 ELSE Max(on)

Fetching == read.at \in {"remote", "journal"}

\* visible_entry, and what get_opts does before its next await.  A deleted
\* object, a payload in memory and the metadata of an entry (head, list) are
\* answered from the copy of the entry.
Lookup(k, head) ==
    LET s == Newest(k)
        now == s # 0 /\ (Effect(log[s], k) = Absent \/ overlay[s] = "memory" \/ head)
    IN  /\ Serving /\ ~Fetching
        /\ read' = [at |-> IF s = 0 THEN "remote" ELSE IF now THEN "done" ELSE "journal",
                    key |-> k, entry |-> s, seen |-> {Current(k)},
                    got |-> IF now THEN Effect(log[s], k) ELSE Absent]
        /\ UNCHANGED vars

\* The remote store answers, or the payload is found in the journal or in the cache.
Fetch ==
    /\ Fetching
    /\ read' = [read EXCEPT !.at = "done",
                            !.got = IF read.at = "remote" THEN remote[read.key]
                                    ELSE log[read.entry].val]
    /\ UNCHANGED vars

\* open_verified_blob does not find the record or its container, which is an
\* error to the caller: there is no second look.
FetchFails ==
    /\ read.at = "journal" /\ ~BlobReadable(read.entry)
    /\ read' = [read EXCEPT !.at = "failed"]
    /\ UNCHANGED vars

\* The read while the tier takes a step: it ends with the process, and an
\* answered one is forgotten.
Watch ==
    \E k \in Key \cup {NoKey} :
        /\ k = read.key
        /\ read' = IF proc' = "up" /\ Fetching
                   THEN [read EXCEPT !.seen = @ \cup {Current(k)'}]
                   ELSE NoRead

ReadInit == Init /\ read = NoRead

ReadNext ==
    \/ Next /\ Watch
    \/ \E k \in Key, head \in BOOLEAN : Lookup(k, head)
    \/ Fetch \/ FetchFails

readVars == <<vars, read>>

ReadSpec == ReadInit /\ [][ReadNext]_readVars

\* The fairness of the tier's own loops; nothing is asked of the reader.
FairReadSpec ==
    ReadSpec /\ WF_vars(LocalStep) /\ WF_vars(RemoteStep) /\ WF_vars(OpenStep)

-----------------------------------------------------------------------------
(* Properties. *)

\* A read returns what the object held at some time since its look-up, though
\* the payload moves from memory to the journal and on to the remote store
\* meanwhile, and uploads, deletions and renames overtake it.  It fails only when
\* its record had reached the remote store and left the overlay in between, so
\* that a second read would not meet it again (overlay.rs get_opts, load_payload,
\* mark_local_batch, remove_remote_prefix; remote.rs commit_remote_run).
ReadsCurrent ==
    /\ read.at = "done" => read.got \in read.seen
    /\ read.at = "failed" => read.entry \notin DOMAIN overlay /\ read.entry <= disk.remote
=============================================================================
