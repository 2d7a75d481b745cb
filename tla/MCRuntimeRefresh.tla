-------------------------- MODULE MCRuntimeRefresh --------------------------
(* RuntimeRefresh for TLC.  Handlers and refreshers are interchangeable, so *)
(* the runs without a temporal property use their permutations.             *)
EXTENDS RuntimeRefresh, TLC

Symmetry == Permutations(Handlers) \cup Permutations(Workers)
=============================================================================
