---------------------------- MODULE MCChunkUpload ---------------------------
(***************************************************************************)
(* Instances of ChunkUpload for TLC.                                       *)
(***************************************************************************)
EXTENDS ChunkUpload, TLC

CONSTANTS f1, f2

\* Two contents of one size, and two of different sizes; a chunk is two units.
SameSize == f1 :> 3 @@ f2 :> 3
TwoSizes == f1 :> 3 @@ f2 :> 4
OneFile == f1 :> 3
OneChunk == f1 :> 2

TwoPages == 1 .. 2
ThreePages == 1 .. 3
OnePage == {1}

AllPoints == {"read", "segment lock", "open", "copy", "state lock", "tmp", "rename",
              "create", "append", "stat", "check", "clean"}
BeforeCleanup == AllPoints \ {"clean"}

\* Request slots are interchangeable.
Symmetry == Permutations(Reqs)

=============================================================================
