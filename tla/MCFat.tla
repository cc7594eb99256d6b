------------------------------- MODULE MCFat --------------------------------
(* The instance of Fat that TLC checks: four clusters of three units, two  *)
(* names, folders that hold one item before they need a second cluster.    *)
EXTENDS FatInv, TLC

CONSTANTS a, b, x, y, h

MCNames   == {a, b}
MCData    == {x, y}
MCHandles == {h}

MCSymmetry == Permutations(MCNames) \cup Permutations(MCData)
=============================================================================
