-------------------------- MODULE MCCdpTransaction --------------------------
(* Instances of CdpTransaction for TLC; the values are in the cfg files.     *)
EXTENDS CdpTransaction, TLC

Symmetry == Permutations(Callers) \cup Permutations(Workers) \cup Permutations(SemAddrs)
=============================================================================
