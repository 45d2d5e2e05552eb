---------------------------- MODULE VolatileFile ----------------------------
(***************************************************************************)
(* What the mutation pipeline promises to the clients of a serving process *)
(* (fs/mutation): a file is an array of cells in memory.  A write, striped  *)
(* over several inodes or not, changes all its cells at once when it is     *)
(* acknowledged, and exactly once; a hole punch clears an inode; nothing    *)
(* that happens behind the acknowledgement (staging, canonical apply,       *)
(* retirement, rollback, failure, shutdown) can be seen.                    *)
(***************************************************************************)
EXTENDS Integers

CONSTANTS Inode, Cell, Data     \* Data: the contents a cell may be given

Zero == 0

VARIABLES
    file,    \* file[i][c]: what a read of cell c of inode i returns
    acked,   \* the writes acknowledged, by their contents
    punched  \* how many holes were punched

vars == <<file, acked, punched>>

Init ==
    /\ file = [i \in Inode |-> [c \in Cell |-> Zero]]
    /\ acked = {}
    /\ punched = 0

Write(d, members, cells) ==
    /\ d \notin acked
    /\ acked' = acked \cup {d}
    /\ file' = [i \in Inode |-> [c \in Cell |->
                  IF i \in members /\ c \in cells THEN d ELSE file[i][c]]]
    /\ UNCHANGED punched

Punch(i) ==
    /\ punched' = punched + 1
    /\ file' = [file EXCEPT ![i] = [c \in Cell |-> Zero]]
    /\ UNCHANGED acked

Next ==
    \/ \E d \in Data, members \in (SUBSET Inode) \ {{}}, cells \in (SUBSET Cell) \ {{}} :
          Write(d, members, cells)
    \/ \E i \in Inode : Punch(i)

Spec == Init /\ [][Next]_vars
=============================================================================
