----------------------------- MODULE MCAclFilter -----------------------------
(***************************************************************************)
(* Instances of AclFilter with addresses of two bytes: tables of up to     *)
(* MaxRows of the rows below, which include twins that differ in access    *)
(* only and a row whose address has bits outside its mask, and clients     *)
(* with a length of 0, below, at and beyond the length of an address.      *)
(***************************************************************************)
EXTENDS AclFilter
LOCAL INSTANCE Bitwise

CONSTANT MaxRows

AndBytes(x, y) == x & y

Row(t, a, m, x) == [HwType |-> t, HwAddr |-> a, HwMask |-> m, access |-> x]

Rows ==
  { Row(1, <<0, 0>>, <<0, 0>>, x) : x \in BOOLEAN }
    \cup { Row(1, a, <<255, 0>>, x) :
              a \in {<<127, 0>>, <<255, 0>>}, x \in BOOLEAN }
    \cup { Row(1, a, <<255, 255>>, x) :
              a \in {<<127, 0>>, <<255, 127>>}, x \in BOOLEAN }
    \cup { Row(1, <<255, 127>>, <<255, 0>>, TRUE),
           Row(6, <<0, 0>>, <<0, 0>>, FALSE) }

AllTables == { t \in SUBSET Rows : Cardinality(t) <= MaxRows }

AllClients ==
  [HwType : {1, 6}, HwAddr : {<<127, 0>>, <<255, 127>>}, HwAddrLen : 0..3]
=============================================================================
