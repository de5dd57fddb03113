--------------------------- MODULE MCCdpTaskQueue ---------------------------
(* Instances of CdpTaskQueue for TLC; the values are in the cfg files.       *)
EXTENDS CdpTaskQueue, TLC

Symmetry == Permutations(Receivers) \cup Permutations(Workers)
=============================================================================
