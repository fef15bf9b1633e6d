------------------------------ MODULE MCInitSHM ------------------------------
(* Small instances of InitSHM.                                             *)
EXTENDS InitSHM

==============================================================================
