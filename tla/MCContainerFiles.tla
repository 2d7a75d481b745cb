-------------------------- MODULE MCContainerFiles --------------------------
(* ContainerFiles for TLC: small trees, a folder with a file in it among them. *)
EXTENDS ContainerFiles

MCHuge == <<"huge">>
A == <<"a">>
B == <<"b">>
AB == <<"a", "b">>
C == <<"c">>

ABC == <<"a", "b", "c">>

MCRoots == {Root, A, AB}
MCFolders == {Root, A}
MCTargets == {A, B, AB}
MCWords == {"x", "y"}
MCNewBodies == {<<"y", "x">>}
MCEditLists == {<<[old |-> "x", new |-> "y"]>>, <<[old |-> "x", new |-> "y"], [old |-> "y", new |-> "x"]>>}
MCPathLists == {<<AB, B>>}
MCTrees == {A :> Dir @@ AB :> Dir @@ ABC :> File(<<"x">>) @@ B :> File(<<"y", "y">>) @@ C :> File(<<"x", "x">>),
            A :> File(<<"x", "y">>) @@ B :> Link(Out)}
MCDiskTrees == {A :> Dir @@ AB :> File(<<"x">>) @@ B :> Link(A)}
MCLinkTargets == {A, Out}

Symmetry == Permutations(Calls)
=============================================================================
