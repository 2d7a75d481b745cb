------------------------------ MODULE MCNetdisk ------------------------------
(* Netdisk for TLC: one user with a quota, and one whose files are shared.  *)
EXTENDS Netdisk, TLC

CONSTANTS ann, bob, a, b

MCQuota == ann :> 2 @@ bob :> 0
MCStored == ann :> (a :> 1 @@ b :> 0) @@ bob :> (a :> 0 @@ b :> 1)
MCMounted == {<<ann, b>>}
MCWants == {a :> 1 @@ b :> 1}

Symmetry == Permutations(Requests)
=============================================================================
