----------------------------- MODULE MCProvision ----------------------------
(* Instances of Provision for TLC.                                          *)
EXTENDS Provision, TLC

CONSTANTS u1, u2

\* The first account is an ordinary user, the second an administrator.
RolesMC == [u \in Users |-> IF u = u1 THEN {FALSE} ELSE {TRUE}]

OwnerMC == [s \in Stacks |-> u1]
OneService == [s \in Stacks |-> 1]
\* A stack that publishes a port of the first block, and stacks that publish none.
StackPortsMC == [s \in Stacks |-> {10100}]
NoPorts == [s \in Stacks |-> {}]
\* Other programs take all but two ports of the first block.
BusyMC == 10102 .. 10199

Symmetry == Permutations(Ids) \cup Permutations(Reqs)
=============================================================================
