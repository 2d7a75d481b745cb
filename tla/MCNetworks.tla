----------------------------- MODULE MCNetworks -----------------------------
(* Networks for TLC: one user with two containers, one administrator.      *)
EXTENDS Networks, TLC

CONSTANTS root, u1, g1, g2, lan, d, c1, c2

MCOwner == [c \in Containers |-> u1]
MCAsked == {Bridge, lan, d}
MCLists == {{Bridge, d}}
MCPools == {{lan}}

Symmetry == Permutations(Requests) \cup Permutations(Groups)
=============================================================================
