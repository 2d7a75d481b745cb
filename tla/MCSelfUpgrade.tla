---------------------------- MODULE MCSelfUpgrade ---------------------------
(* SelfUpgrade for TLC: three releases, four processes, every fate.        *)
EXTENDS SelfUpgrade, TLC
=============================================================================
