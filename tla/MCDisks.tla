------------------------------ MODULE MCDisks ------------------------------
EXTENDS Disks
CONSTANTS p1, p2, home, sub, bk

Nothing == [is |-> FALSE, has |-> [p \in Parts |-> NoFile]]
Whole(s, c) == [is |-> TRUE, has |-> [p \in Parts |-> IF p \in PartsOf[s.name] THEN c ELSE NoFile]]

TwoFiles == [x \in Names |-> IF x \in Folders THEN {p1, p2} ELSE {p1}]

(* The netdisk has everything, and the backup disk older copies.              *)
Both == [s \in Slots |-> IF s.n = 0 THEN Whole(s, IF s.dir \in Netdisk THEN 2 ELSE 1) ELSE Nothing]

(* Two folders of the netdisk have an entry each, and nothing is backed up.   *)
Twice == [s \in Slots |-> IF s.n = 0 /\ s.dir \in Netdisk
                          THEN Whole(s, IF s.dir = sub THEN 2 ELSE 1) ELSE Nothing]
=============================================================================
