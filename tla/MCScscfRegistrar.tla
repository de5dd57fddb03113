-------------------------- MODULE MCScscfRegistrar --------------------------
(* Instances of ScscfRegistrar for TLC; the values are in the cfg files.     *)
EXTENDS ScscfRegistrar, TLC

CONSTANTS a, b

TwoIds  == <<a, b>>
\* The two identities in slots of their own, and in one.
Layouts == {(a :> 1) @@ (b :> 2), (a :> 1) @@ (b :> 1)}
=============================================================================
