---------------------------- MODULE MCScscfNotify ---------------------------
(* Instances of ScscfNotify for TLC; the values are in the cfg files.        *)
EXTENDS ScscfNotify, TLC

Symmetry == Permutations(SipProcs) \cup Permutations(Ids) \cup Permutations(Devices)
=============================================================================
