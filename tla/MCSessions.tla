----------------------------- MODULE MCSessions -----------------------------
EXTENDS Sessions, TLC
CONSTANTS u1, u2, b1, b2, l1, l2, l3, r1, r2

TwoPeople == b1 :> u1 @@ b2 :> u2
OnePerson == b1 :> u1 @@ b2 :> u1
Symmetry == Permutations(Logins) \cup Permutations(Reqs)
=============================================================================
