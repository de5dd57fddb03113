----------------------------- MODULE MCPcscfPcc -----------------------------
EXTENDS PcscfPcc, TLC

Symmetry == Permutations(SipProcs) \cup Permutations(Dialogs)
OneRow == [s \in Sessions |-> CHOOSE r \in Rows : TRUE]
=============================================================================
