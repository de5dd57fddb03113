------------------------------ MODULE MCCdpPeer ------------------------------
(* Instances of CdpPeer for TLC; the values are in the cfg files.            *)
EXTENDS CdpPeer

\* A number may mean one descriptor in each process: they were forked from one.
Alike == [q \in Procs |-> Sock]
=============================================================================
