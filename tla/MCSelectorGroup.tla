-------------------------- MODULE MCSelectorGroup --------------------------
(* Model values for SelectorGroup.                                         *)
EXTENDS SelectorGroup, TLC

CONSTANTS s1, s2, s3

OneServer == <<s1>>
ThreeServers == <<s1, s2, s3>>
AnyOrder == Permutations(Clients)
=============================================================================
