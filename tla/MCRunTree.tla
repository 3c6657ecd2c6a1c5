----------------------------- MODULE MCRunTree -----------------------------
(* A workflow whose first step is a workflow of two leaves and whose second *)
(* step is a leaf: top -> {mid -> {left, right}, side}.                     *)
EXTENDS RunTreeRecursion

CONSTANTS top, mid, left, right, side

MCRun == {top, mid, left, right, side}
MCParent == [r \in MCRun |-> CASE r = top -> NoRun
                               [] r \in {mid, side} -> top
                               [] OTHER -> mid]
MCFirst == [S \in (SUBSET MCRun) \ {{}} |-> CHOOSE r \in S : TRUE]
=============================================================================
