------------------------ MODULE MCContentDeployment ------------------------
(***************************************************************************)
(* ContentDeployment for TLC: sites, slots and runs are model values, and  *)
(* the slots of a site are interchangeable.                                *)
(***************************************************************************)
EXTENDS ContentDeployment, TLC

Symmetry == Permutations(Slot)
=============================================================================
