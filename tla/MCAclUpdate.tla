----------------------------- MODULE MCAclUpdate -----------------------------
(***************************************************************************)
(* Instances of AclUpdate.                                                 *)
(***************************************************************************)
EXTENDS AclUpdate, TLC

Symmetry == Permutations(Readers)
=============================================================================
