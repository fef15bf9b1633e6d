---------------------------- MODULE MCShmChannel ----------------------------
(* Small instances of ShmChannel; hook threads are interchangeable.        *)
EXTENDS ShmChannel, TLC

Symmetry == Permutations(Writers)
=============================================================================
