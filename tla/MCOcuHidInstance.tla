-------------------------- MODULE MCOcuHidInstance --------------------------
(* Callers of OcuHidInstance are alike.                                      *)
EXTENDS OcuHidInstance, TLC

Symmetry == Permutations(Callers)
=============================================================================
