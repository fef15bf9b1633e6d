------------------------------ MODULE AclFilter ------------------------------
(***************************************************************************)
(* How the access list decides: the rows of the database table are         *)
(* fetched in the order of the query and cut off at the size of the list   *)
(* (acl_do_update), sorted with acl_compartor (acl_sort_entry), and        *)
(* searched for the first entry that matches a client (acl_filter, called  *)
(* by DhcpNewPktHook).  Where an order leaves ties, any outcome of the     *)
(* database and of qsort is possible.  DhcpNewPktHook passes the length    *)
(* that the packet states, up to 255, and acl_filter compares that many    *)
(* bytes of arrays of 16: what it reads behind them is any byte.           *)
(*                                                                         *)
(* The list as it is shared between threads is the matter of AclUpdate;    *)
(* here is one table, one load, one decision.                              *)
(***************************************************************************)
EXTENDS Integers, Sequences, FiniteSets

CONSTANTS
  Bytes,            \* length of HwAddr and HwMask; 16 in the code
  MaxEntries,       \* entries the list has room for; 2048 in the code
  Tables,           \* contents of the table access_list: finite sets of rows
  Clients,          \* arguments of acl_filter: [HwType, HwAddr, HwAddrLen]
  BitAnd(_, _)      \* bitwise and of two bytes

Address == [1..Bytes -> 0..255]
ACL_ENTRY == [HwType : 0..255, HwAddr : Address, HwMask : Address,
              access : BOOLEAN]

ASSUME AclAssumption ==
  /\ Bytes \in Nat /\ MaxEntries \in Nat
  /\ \A t \in Tables : t \subseteq ACL_ENTRY /\ IsFiniteSet(t)
  /\ \A c \in Clients : c.HwAddrLen \in 0..255

VARIABLES
  table,            \* the rows in the database
  buff,             \* ACL_ENTRY buff[2048], then the list: a sequence
  stage,            \* "table", "fetched", "sorted" or "decided"
  client, decision  \* the call of acl_filter and its result

vars == <<table, buff, stage, client, decision>>

Least(S) == CHOOSE i \in S : \A j \in S : i <= j

(* The sign of the first difference, 0 if there is none.                   *)
CompareSigned(u, v) ==                \* mutant: the difference as a char
  IF u = v THEN 0
  ELSE LET i == Least({j \in 1..Bytes : u[j] # v[j]})
       IN  ((u[i] - v[i] + 128) % 256) - 128

Compare(u, v) ==
  IF u = v THEN 0
  ELSE LET i == Least({j \in 1..Bytes : u[j] # v[j]}) IN u[i] - v[i]

acl_compartor(a, b) ==
  IF a.HwType # b.HwType THEN a.HwType - b.HwType
  ELSE IF a.HwMask # b.HwMask THEN Compare(a.HwMask, b.HwMask)
  ELSE Compare(a.HwAddr, b.HwAddr)

(* The sequences that list the elements of S once each.                    *)
Entries(s) == {s[i] : i \in DOMAIN s}
Listings(S) == {s \in [1..Cardinality(S) -> S] : Entries(s) = S}
-----------------------------------------------------------------------------
Init ==
  /\ table \in Tables
  /\ buff = <<>>
  /\ stage = "table"
  /\ client \in Clients
  /\ decision = TRUE

(* ORDER BY hwmask DESC, hwaddr: addresses and masks are stored in the one *)
(* form that dhcp_hw_addr writes, so that they order as their bytes do.    *)
QueryAscending(a, b) ==               \* mutant: ORDER BY hwmask, hwaddr
  IF a.HwMask # b.HwMask THEN Compare(a.HwMask, b.HwMask) < 0
                         ELSE Compare(a.HwAddr, b.HwAddr) <= 0

QueryOrder(a, b) ==
  IF a.HwMask # b.HwMask THEN Compare(a.HwMask, b.HwMask) > 0
                         ELSE Compare(a.HwAddr, b.HwAddr) <= 0

FetchUnlimited ==                     \* mutant: no count<2048
  /\ stage = "table" /\ stage' = "fetched"
  /\ buff' \in {s \in Listings(table) :
                 \A i, j \in DOMAIN s : i < j => QueryOrder(s[i], s[j])}
  /\ UNCHANGED <<table, client, decision>>

Fetch ==
  /\ stage = "table" /\ stage' = "fetched"
  /\ \E s \in Listings(table) :
       /\ \A i, j \in DOMAIN s : i < j => QueryOrder(s[i], s[j])
       /\ buff' = SubSeq(s, 1, IF Len(s) < MaxEntries THEN Len(s)
                                                      ELSE MaxEntries)
  /\ UNCHANGED <<table, client, decision>>

acl_sort_entry ==
  /\ stage = "fetched" /\ stage' = "sorted"
  /\ buff' \in Listings(Entries(buff))
  /\ \A i, j \in DOMAIN buff' : i < j => acl_compartor(buff'[i], buff'[j]) <= 0
  /\ UNCHANGED <<table, client, decision>>

(* The bytes of the address that are compared and known agree.             *)
Agrees(e) ==
  /\ e.HwType = client.HwType
  /\ \A j \in 1..Bytes : j <= client.HwAddrLen =>
       BitAnd(client.HwAddr[j], e.HwMask[j]) = e.HwAddr[j]

(* The entries that match.  For a length beyond the arrays, which of those *)
(* that agree match in the bytes behind them as well is open.              *)
Matches ==
  LET agree == {i \in DOMAIN buff : Agrees(buff[i])}
  IN  IF client.HwAddrLen <= Bytes THEN {agree} ELSE SUBSET agree

FilterLast ==                         \* mutant: the last match decides
  /\ stage = "sorted" /\ stage' = "decided"
  /\ \E hits \in Matches :
       decision' = IF hits = {} THEN TRUE
                   ELSE buff[CHOOSE i \in hits : \A j \in hits : i >= j].access
  /\ UNCHANGED <<table, buff, client>>

acl_filter ==
  /\ stage = "sorted" /\ stage' = "decided"
  /\ \E hits \in Matches :
       decision' = IF hits = {} THEN TRUE ELSE buff[Least(hits)].access
  /\ UNCHANGED <<table, buff, client>>

Next == Fetch \/ acl_sort_entry \/ acl_filter

Spec == Init /\ [][Next]_vars
-----------------------------------------------------------------------------
(* Type invariant.                                                         *)
TypeOK ==
  /\ table \in Tables /\ client \in Clients
  /\ Entries(buff) \subseteq table /\ Len(buff) <= MaxEntries
  /\ stage \in {"table", "fetched", "sorted", "decided"}
  /\ decision \in BOOLEAN

(* acl_compartor is an order, as qsort requires: the sign is reversed with *)
(* the arguments, and it is transitive.  The differences of unsigned bytes *)
(* are taken as int.                                                       *)
ComparatorIsOrder ==
  \A a, b \in table :
    /\ acl_compartor(a, b) < 0 <=> acl_compartor(b, a) > 0
    /\ \A c \in table : acl_compartor(a, b) <= 0 /\ acl_compartor(b, c) <= 0
                          => acl_compartor(a, c) <= 0

(* A client whose length fits the arrays is decided by a least one of the  *)
(* entries that match it, in the order of acl_compartor: the one with the  *)
(* smallest mask, which is the most general one where the masks are        *)
(* prefixes.  The least ones differ in nothing but their access, so that   *)
(* the order of the rows does not matter unless two rows are such twins.   *)
(* A client that none matches is permitted.  Of a client with a longer     *)
(* length no more holds than that it is refused by an entry that denies    *)
(* and agrees with the whole address.                                      *)
LeastDecides ==
  LET M == {e \in Entries(buff) : Agrees(e)}
      L == {e \in M : \A f \in M : acl_compartor(e, f) <= 0}
  IN  stage = "decided" =>
        IF client.HwAddrLen > Bytes
          THEN decision = FALSE => \E e \in M : e.access = FALSE
        ELSE IF M = {} THEN decision = TRUE
        ELSE /\ \E e \in L : decision = e.access
             /\ \A e, f \in L : f = [e EXCEPT !.access = f.access]

(* A table that fits is loaded without loss, and a larger one fills the    *)
(* list.  The query fetches the largest masks first, and among equal masks *)
(* the smallest addresses, while the search begins with the smallest masks *)
(* and addresses: of a table larger than the list each lost row would have *)
(* been searched before all the kept rows of its type with another mask,   *)
(* and before none of those with the same.                                 *)
DropsSmallestMasks ==
  stage = "sorted" =>
    /\ IF Cardinality(table) <= MaxEntries THEN Entries(buff) = table
                                           ELSE Len(buff) = MaxEntries
    /\ \A lost \in table \ Entries(buff), e \in Entries(buff) :
         lost.HwType = e.HwType =>
           (acl_compartor(lost, e) < 0 <=> lost.HwMask # e.HwMask)

=============================================================================
