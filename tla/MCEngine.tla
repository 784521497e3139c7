------------------------------ MODULE MCEngine ------------------------------
(***************************************************************************)
(* Model-checking instances of Engine.                                     *)
(***************************************************************************)
EXTENDS Engine, TLC

Symmetry == Permutations(Region)
=============================================================================
