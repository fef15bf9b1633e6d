--------------------------- MODULE MCLinkedBuffer ---------------------------
(* Small instances of LinkedBuffer.  Heap addresses are interchangeable,   *)
(* and so are the threads of one kind.                                     *)
EXTENDS LinkedBuffer, TLC

Symmetry == Permutations(Nodes) \cup Permutations(Producers)
              \cup Permutations(Consumers)
=============================================================================
