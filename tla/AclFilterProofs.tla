--------------------------- MODULE AclFilterProofs ---------------------------
(***************************************************************************)
(* The access list's order and decision, for tables, addresses and lists   *)
(* of any size.                                                            *)
(***************************************************************************)
EXTENDS AclFilter, FiniteSetTheorems, Induction, TLAPS

(* Least(S) is the least element of a non-empty set of naturals.           *)
LEMMA LeastProperty ==
  ASSUME NEW S, S \subseteq Nat, S # {}
  PROVE  Least(S) \in S /\ \A j \in S : Least(S) <= j
<1>1. \E i \in S : \A j \in S : i <= j BY LeastNumber
<1> QED BY <1>1 DEF Least
-----------------------------------------------------------------------------
(* The lexicographic order that Compare decides.                           *)
Below(u, v) ==
  \E i \in 1..Bytes : u[i] < v[i] /\ \A j \in 1..(i - 1) : u[j] = v[j]

(* The sign of Compare, for addresses of any length.                       *)
LEMMA CompareSign ==
  ASSUME NEW u \in Address, NEW v \in Address
  PROVE  /\ Compare(u, v) \in Int
         /\ Compare(u, v) = 0 <=> u = v
         /\ Compare(u, v) < 0 <=> Below(u, v)
         /\ Compare(u, v) > 0 <=> Below(v, u)
<1> DEFINE D == {j \in 1..Bytes : u[j] # v[j]}
           i == Least(D)
<1>0. /\ Bytes \in Nat
      /\ \A j \in 1..Bytes : u[j] \in 0..255 /\ v[j] \in 0..255
  BY AclAssumption DEF Address
<1>1. CASE u = v
  <2>1. Compare(u, v) = 0 BY <1>1 DEF Compare
  <2>2. ~Below(u, v) /\ ~Below(v, u) BY <1>0, <1>1 DEF Below
  <2> QED BY <1>1, <2>1, <2>2
<1>2. CASE u # v
  <2>1. D # {}
    <3> SUFFICES ASSUME D = {} PROVE u = v BY <1>2
    <3>1. \A j \in 1..Bytes : u[j] = v[j] OBVIOUS
    <3>2. u = [j \in 1..Bytes |-> u[j]] BY DEF Address
    <3>3. v = [j \in 1..Bytes |-> v[j]] BY DEF Address
    <3>4. [j \in 1..Bytes |-> u[j]] = [j \in 1..Bytes |-> v[j]] BY <3>1
    <3> QED BY <3>2, <3>3, <3>4
  <2>2. i \in D /\ \A j \in D : i <= j
    <3> HIDE DEF D
    <3>1. D \subseteq Nat BY <1>0 DEF D
    <3> QED BY <2>1, <3>1, LeastProperty
  <2>3. Compare(u, v) = u[i] - v[i] BY <1>2 DEF Compare
  <2>4. i \in 1..Bytes /\ u[i] # v[i] /\ u[i] \in 0..255 /\ v[i] \in 0..255
    BY <2>2, <1>0
  <2>5. \A j \in 1..Bytes : j < i => u[j] = v[j]
    <3> HIDE DEF i
    <3> SUFFICES ASSUME NEW j \in 1..Bytes, j < i, u[j] # v[j] PROVE FALSE
      OBVIOUS
    <3>1. j \in D OBVIOUS
    <3> QED BY <3>1, <2>2, <2>4, <1>0
  <2> HIDE DEF i, D
  <2>6. u[i] < v[i] <=> Below(u, v)
    <3>1. ASSUME u[i] < v[i] PROVE Below(u, v)
      BY <3>1, <2>4, <2>5, <1>0 DEF Below
    <3>2. ASSUME Below(u, v) PROVE u[i] < v[i]
      <4>1. PICK k \in 1..Bytes :
              u[k] < v[k] /\ \A j \in 1..(k - 1) : u[j] = v[j]
        BY <3>2 DEF Below
      <4>2. ~(i < k) BY <4>1, <2>4, <1>0
      <4>3. ~(k < i) BY <4>1, <2>5, <1>0
      <4>4. k = i BY <4>2, <4>3, <2>4, <1>0
      <4> QED BY <4>1, <4>4
    <3> QED BY <3>1, <3>2
  <2>7. v[i] < u[i] <=> Below(v, u)
    <3>1. ASSUME v[i] < u[i] PROVE Below(v, u)
      BY <3>1, <2>4, <2>5, <1>0 DEF Below
    <3>2. ASSUME Below(v, u) PROVE v[i] < u[i]
      <4>1. PICK k \in 1..Bytes :
              v[k] < u[k] /\ \A j \in 1..(k - 1) : v[j] = u[j]
        BY <3>2 DEF Below
      <4>2. ~(i < k) BY <4>1, <2>4, <1>0
      <4>3. ~(k < i) BY <4>1, <2>5, <1>0
      <4>4. k = i BY <4>2, <4>3, <2>4, <1>0
      <4> QED BY <4>1, <4>4
    <3> QED BY <3>1, <3>2
  <2>8. \A p, q \in 0..255 : /\ p - q \in Int /\ (p - q = 0 <=> p = q)
                             /\ (p - q < 0 <=> p < q) /\ (p - q > 0 <=> q < p)
    OBVIOUS
  <2>9. /\ u[i] - v[i] \in Int /\ u[i] - v[i] # 0
        /\ (u[i] - v[i] < 0 <=> u[i] < v[i])
        /\ (u[i] - v[i] > 0 <=> v[i] < u[i])
    BY <2>4, <2>8
  <2> QED BY <1>2, <2>3, <2>9, <2>6, <2>7
<1> QED BY <1>1, <1>2

(* The order of addresses is transitive.                                   *)
LEMMA BelowTransitive ==
  ASSUME NEW u \in Address, NEW v \in Address, NEW w \in Address,
         Below(u, v), Below(v, w)
  PROVE  Below(u, w)
<1>0. /\ Bytes \in Nat
      /\ \A j \in 1..Bytes : /\ u[j] \in 0..255 /\ v[j] \in 0..255
                            /\ w[j] \in 0..255
  BY AclAssumption DEF Address
<1>1. PICK i \in 1..Bytes : u[i] < v[i] /\ \A j \in 1..(i - 1) : u[j] = v[j]
  BY DEF Below
<1>2. PICK k \in 1..Bytes : v[k] < w[k] /\ \A j \in 1..(k - 1) : v[j] = w[j]
  BY DEF Below
<1>3. CASE i <= k
  <2>1. u[i] < w[i]
    <3>1. CASE i = k
      <4>1. u[i] \in 0..255 /\ v[i] \in 0..255 /\ w[i] \in 0..255 BY <1>0
      <4>2. u[i] < v[i] /\ v[i] < w[i] BY <1>1, <1>2, <3>1
      <4>3. \A p, q, r \in 0..255 : p < q /\ q < r => p < r OBVIOUS
      <4> QED BY <4>1, <4>2, <4>3
    <3>2. CASE i < k
      <4>1. i \in 1..(k - 1) BY <1>0, <3>2
      <4> QED BY <1>1, <1>2, <4>1
    <3> QED BY <1>0, <1>3, <3>1, <3>2
  <2>2. \A j \in 1..(i - 1) : u[j] = w[j] BY <1>0, <1>1, <1>2, <1>3
  <2> QED BY <2>1, <2>2 DEF Below
<1>4. CASE k < i
  <2>1. u[k] < w[k] BY <1>0, <1>1, <1>2, <1>4
  <2>2. \A j \in 1..(k - 1) : u[j] = w[j] BY <1>0, <1>1, <1>2, <1>4
  <2> QED BY <2>1, <2>2 DEF Below
<1> QED BY <1>0, <1>3, <1>4

(* The sign of acl_compartor.                                              *)
LEMMA ComparatorSign ==
  ASSUME NEW a \in ACL_ENTRY, NEW b \in ACL_ENTRY
  PROVE  /\ acl_compartor(a, b) \in Int
         /\ acl_compartor(a, b) = 0 <=>
              a.HwType = b.HwType /\ a.HwMask = b.HwMask /\ a.HwAddr = b.HwAddr
         /\ acl_compartor(a, b) < 0 <=>
              \/ a.HwType < b.HwType
              \/ a.HwType = b.HwType /\ Below(a.HwMask, b.HwMask)
              \/ /\ a.HwType = b.HwType /\ a.HwMask = b.HwMask
                 /\ Below(a.HwAddr, b.HwAddr)
<1>1. /\ a.HwType \in 0..255 /\ b.HwType \in 0..255
      /\ a.HwMask \in Address /\ b.HwMask \in Address
      /\ a.HwAddr \in Address /\ b.HwAddr \in Address
  BY DEF ACL_ENTRY
<1>2. ASSUME NEW u \in Address PROVE ~Below(u, u)
  <2>1. Compare(u, u) = 0 BY DEF Compare
  <2> QED BY <2>1, CompareSign
<1>3. CASE a.HwType # b.HwType
  <2> DEFINE p == a.HwType
             q == b.HwType
             c == acl_compartor(a, b)
  <2>1. c = p - q BY <1>3 DEF acl_compartor
  <2>2. p \in 0..255 /\ q \in 0..255 /\ p # q BY <1>1, <1>3
  <2>3. c \in Int /\ c # 0 /\ (c < 0 <=> p < q)
    <3> HIDE DEF p, q, c
    <3> QED BY <2>1, <2>2
  <2> QED BY <1>3, <2>3
<1>4. CASE a.HwType = b.HwType /\ a.HwMask # b.HwMask
  <2>1. acl_compartor(a, b) = Compare(a.HwMask, b.HwMask)
    BY <1>4 DEF acl_compartor
  <2> QED BY <1>1, <1>4, <2>1, CompareSign
<1>5. CASE a.HwType = b.HwType /\ a.HwMask = b.HwMask
  <2>1. acl_compartor(a, b) = Compare(a.HwAddr, b.HwAddr)
    BY <1>5 DEF acl_compartor
  <2> QED BY <1>1, <1>2, <1>5, <2>1, CompareSign
<1> QED BY <1>3, <1>4, <1>5

(* acl_compartor orders entries: one of two comes first, transitively.     *)
LEMMA ComparatorOrder ==
  ASSUME NEW a \in ACL_ENTRY, NEW b \in ACL_ENTRY, NEW c \in ACL_ENTRY
  PROVE  /\ acl_compartor(a, b) < 0 <=> acl_compartor(b, a) > 0
         /\ acl_compartor(a, b) <= 0 /\ acl_compartor(b, c) <= 0
              => acl_compartor(a, c) <= 0
<1> DEFINE Lt(x, y) == acl_compartor(x, y) < 0
           Same(x, y) == /\ x.HwType = y.HwType /\ x.HwMask = y.HwMask
                         /\ x.HwAddr = y.HwAddr
<1>1. \A x \in ACL_ENTRY : /\ x.HwType \in 0..255
                           /\ x.HwMask \in Address /\ x.HwAddr \in Address
  BY DEF ACL_ENTRY
<1>2. \A x, y \in ACL_ENTRY :
        /\ acl_compartor(x, y) \in Int
        /\ acl_compartor(x, y) = 0 <=> Same(x, y)
        /\ Lt(x, y) <=> \/ x.HwType < y.HwType
                        \/ x.HwType = y.HwType /\ Below(x.HwMask, y.HwMask)
                        \/ /\ x.HwType = y.HwType /\ x.HwMask = y.HwMask
                           /\ Below(x.HwAddr, y.HwAddr)
  BY ComparatorSign
<1>3. \A u, v \in Address : /\ u = v \/ Below(u, v) \/ Below(v, u)
                            /\ ~(Below(u, v) /\ Below(v, u))
                            /\ ~Below(u, u)
  <2> TAKE u, v \in Address
  <2>1. /\ Compare(u, v) \in Int
        /\ Compare(u, v) = 0 <=> u = v
        /\ Compare(u, v) < 0 <=> Below(u, v)
        /\ Compare(u, v) > 0 <=> Below(v, u)
    BY CompareSign
  <2>2. ~Below(u, u)
    <3>1. Compare(u, u) = 0 BY DEF Compare
    <3> QED BY <3>1, CompareSign
  <2> HIDE DEF Lt
  <2> QED BY <2>1, <2>2
<1>4. \A u, v, w \in Address : Below(u, v) /\ Below(v, w) => Below(u, w)
  BY BelowTransitive
<1>0. \A p, q, r \in 0..255 :
        /\ p < q \/ p = q \/ q < p
        /\ ~(p < q /\ q < p) /\ ~(p < p)
        /\ p < q /\ q < r => p < r
  OBVIOUS
<1>5. \A x, y \in ACL_ENTRY : acl_compartor(x, y) <= 0 <=> Lt(x, y) \/ Same(x, y)
  BY <1>2
<1>6. \A x, y \in ACL_ENTRY : Lt(x, y) \/ Lt(y, x) \/ Same(x, y)
  <2> HIDE DEF Lt
  <2> TAKE x, y \in ACL_ENTRY
  <2>1. x.HwType < y.HwType \/ x.HwType = y.HwType \/ y.HwType < x.HwType
    BY <1>0, <1>1, Zenon
  <2> QED BY <1>1, <1>2, <1>3, <2>1
<1>7. \A x, y \in ACL_ENTRY : ~(Lt(x, y) /\ Lt(y, x)) /\ ~(Lt(x, y) /\ Same(x, y))
  <2> HIDE DEF Lt
  <2> TAKE x, y \in ACL_ENTRY
  <2>1. /\ x.HwType \in 0..255 /\ y.HwType \in 0..255
        /\ x.HwMask \in Address /\ y.HwMask \in Address
        /\ x.HwAddr \in Address /\ y.HwAddr \in Address
    BY <1>1
  <2>2. /\ ~(x.HwType < y.HwType /\ y.HwType < x.HwType)
        /\ ~(x.HwType < x.HwType) /\ ~(y.HwType < y.HwType)
    BY <1>0, <2>1, Zenon
  <2>3. /\ ~(Below(x.HwMask, y.HwMask) /\ Below(y.HwMask, x.HwMask))
        /\ ~(Below(x.HwAddr, y.HwAddr) /\ Below(y.HwAddr, x.HwAddr))
        /\ ~Below(x.HwMask, x.HwMask) /\ ~Below(y.HwMask, y.HwMask)
        /\ ~Below(x.HwAddr, x.HwAddr) /\ ~Below(y.HwAddr, y.HwAddr)
    BY <1>3, <2>1
  <2>4. /\ Lt(x, y) <=> \/ x.HwType < y.HwType
                        \/ x.HwType = y.HwType /\ Below(x.HwMask, y.HwMask)
                        \/ /\ x.HwType = y.HwType /\ x.HwMask = y.HwMask
                           /\ Below(x.HwAddr, y.HwAddr)
        /\ Lt(y, x) <=> \/ y.HwType < x.HwType
                        \/ y.HwType = x.HwType /\ Below(y.HwMask, x.HwMask)
                        \/ /\ y.HwType = x.HwType /\ y.HwMask = x.HwMask
                           /\ Below(y.HwAddr, x.HwAddr)
    BY <1>2
  <2>5. ASSUME Lt(x, y), Lt(y, x) PROVE FALSE
    <3>1. CASE x.HwType = y.HwType /\ x.HwMask = y.HwMask
      BY <2>2, <2>3, <2>4, <2>5, <3>1
    <3>2. CASE x.HwType = y.HwType /\ x.HwMask # y.HwMask
      BY <2>2, <2>3, <2>4, <2>5, <3>2
    <3>3. CASE x.HwType # y.HwType
      BY <2>2, <2>4, <2>5, <3>3
    <3> QED BY <3>1, <3>2, <3>3
  <2>6. ASSUME Lt(x, y), Same(x, y) PROVE FALSE
    BY <2>2, <2>3, <2>4, <2>6
  <2> QED BY <2>5, <2>6
<1>8. Lt(a, b) /\ Lt(b, c) => Lt(a, c)
  <2> HIDE DEF Lt
  <2> SUFFICES ASSUME Lt(a, b), Lt(b, c) PROVE Lt(a, c) OBVIOUS
  <2>1. /\ a.HwType \in 0..255 /\ b.HwType \in 0..255 /\ c.HwType \in 0..255
        /\ a.HwMask \in Address /\ b.HwMask \in Address /\ c.HwMask \in Address
        /\ a.HwAddr \in Address /\ b.HwAddr \in Address /\ c.HwAddr \in Address
    BY <1>1
  <2>2. a.HwType < b.HwType /\ b.HwType < c.HwType => a.HwType < c.HwType
    BY <1>0, <2>1, Zenon
  <2>3. /\ Below(a.HwMask, b.HwMask) /\ Below(b.HwMask, c.HwMask)
             => Below(a.HwMask, c.HwMask)
        /\ Below(a.HwAddr, b.HwAddr) /\ Below(b.HwAddr, c.HwAddr)
             => Below(a.HwAddr, c.HwAddr)
    BY <1>4, <2>1
  <2>4. \A x, y \in {a, b, c} :
          Lt(x, y) <=> \/ x.HwType < y.HwType
                       \/ x.HwType = y.HwType /\ Below(x.HwMask, y.HwMask)
                       \/ /\ x.HwType = y.HwType /\ x.HwMask = y.HwMask
                          /\ Below(x.HwAddr, y.HwAddr)
    BY <1>2
  <2>5. CASE a.HwType < b.HwType BY <2>2, <2>4, <2>5
  <2>6. CASE a.HwType = b.HwType /\ b.HwType < c.HwType BY <2>4, <2>6
  <2>7. CASE a.HwType = b.HwType /\ b.HwType = c.HwType
    BY <2>3, <2>4, <2>7
  <2> QED BY <2>4, <2>5, <2>6, <2>7
<1>9. acl_compartor(b, a) > 0 <=> ~(Lt(b, a) \/ Same(b, a))
  BY <1>2
<1> HIDE DEF Lt
<1>10. Lt(a, b) <=> acl_compartor(b, a) > 0 BY <1>6, <1>7, <1>9
<1>11. (Lt(a, b) \/ Same(a, b)) /\ (Lt(b, c) \/ Same(b, c))
         => Lt(a, c) \/ Same(a, c)
  BY <1>2, <1>8
<1> QED BY <1>5, <1>10, <1>11 DEF Lt
-----------------------------------------------------------------------------
(* What was cut off would have been searched before what was kept, but for *)
(* rows with the same mask.                                                *)
DropsSmallest ==
  \A lost \in table \ Entries(buff), e \in Entries(buff) :
    lost.HwType = e.HwType =>
      (acl_compartor(lost, e) < 0 <=> lost.HwMask # e.HwMask)

(* Every row is fetched once, all of them or as many as there is room for. *)
Filled ==
  /\ Cardinality(Entries(buff)) = Len(buff)
  /\ IF Cardinality(table) <= MaxEntries THEN Entries(buff) = table
                                         ELSE Len(buff) = MaxEntries

Sorted == \A i, j \in DOMAIN buff : i < j => acl_compartor(buff[i], buff[j]) <= 0

IInv ==
  /\ TypeOK /\ buff \in Seq(table)
  /\ stage # "table" => DropsSmallest /\ Filled
  /\ stage \in {"sorted", "decided"} => Sorted
  /\ LeastDecides

(* The rows of a table are entries, and finitely many.                     *)
LEMMA TableTypes ==
  ASSUME table \in Tables
  PROVE  table \subseteq ACL_ENTRY /\ IsFiniteSet(table)
BY AclAssumption

(* A listing is a sequence, no longer than any that has these entries.     *)
LEMMA ListingTypes ==
  ASSUME NEW S, IsFiniteSet(S), NEW s \in Listings(S)
  PROVE  /\ Cardinality(S) \in Nat
         /\ s \in Seq(S) /\ Len(s) = Cardinality(S) /\ Entries(s) = S
         /\ DOMAIN s = 1..Cardinality(S)
<1>1. Cardinality(S) \in Nat BY FS_CardinalityType
<1>2. s \in [1..Cardinality(S) -> S] /\ Entries(s) = S BY DEF Listings
<1>3. s \in Seq(S) /\ Len(s) = Cardinality(S) BY <1>1, <1>2
<1> QED BY <1>1, <1>2, <1>3

LEMMA EntriesBound ==
  ASSUME NEW T, NEW s \in Seq(T)
  PROVE  IsFiniteSet(Entries(s)) /\ Cardinality(Entries(s)) <= Len(s)
<1> DEFINE I == 1..Len(s)
<1>1. Len(s) \in Nat /\ DOMAIN s = I OBVIOUS
<1>2. IsFiniteSet(I) /\ Cardinality(I) = Len(s) BY <1>1, FS_Interval
<1>3. Entries(s) = {s[i] : i \in I} BY <1>1 DEF Entries
<1>4. s \in Surjection(I, Entries(s)) BY <1>1, <1>3 DEF Surjection
<1> HIDE DEF I
<1> QED BY <1>2, <1>4, FS_Surjection

(* A listing repeats nothing, so neither does a prefix of it.              *)
LEMMA ListingPrefix ==
  ASSUME NEW S, IsFiniteSet(S), NEW s \in Listings(S),
         NEW n \in 0..Cardinality(S),
         NEW b, b \in Seq(S), Len(b) = n, \A i \in 1..n : b[i] = s[i]
  PROVE  Cardinality(Entries(b)) = n
<1> DEFINE I == 1..Cardinality(S)
           J == 1..n
<1>1. Cardinality(S) \in Nat /\ n \in Nat BY FS_CardinalityType
<1>2. s \in [I -> S] /\ Entries(s) = S /\ DOMAIN s = I BY DEF Listings
<1>3. s \in Surjection(I, S) BY <1>2 DEF Surjection, Entries
<1>4. IsFiniteSet(I) /\ Cardinality(I) = Cardinality(S) BY <1>1, FS_Interval
<1>5. s \in Injection(I, S)
  <2> HIDE DEF I
  <2> QED BY <1>3, <1>4, FS_Surjection
<1>6. J \subseteq I BY <1>1
<1>7. \A i, j \in J : b[i] = b[j] => i = j
  <2> TAKE i, j \in J
  <2>1. i \in I /\ j \in I /\ b[i] = s[i] /\ b[j] = s[j] BY <1>6
  <2> HIDE DEF I, J
  <2> QED BY <1>5, <2>1 DEF Injection, IsInjective
<1>8. b \in [J -> Entries(b)] /\ Entries(b) = {b[i] : i \in J} BY <1>1 DEF Entries
<1>9. b \in Surjection(J, Entries(b)) /\ b \in Injection(J, Entries(b))
  BY <1>7, <1>8 DEF Surjection, Injection, IsInjective
<1>10. IsFiniteSet(J) /\ Cardinality(J) = n BY <1>1, FS_Interval
<1> HIDE DEF J
<1> QED BY <1>9, <1>10, FS_Surjection

(* acl_filter decides by a least matching entry of a sorted list.          *)
LEMMA FilterDecides ==
  ASSUME table \in Tables, client \in Clients, buff \in Seq(table), Sorted,
         acl_filter
  PROVE  LeastDecides' /\ decision' \in BOOLEAN
<1> DEFINE M == {e \in Entries(buff) : Agrees(e)}
           L == {e \in M : \A f \in M : acl_compartor(e, f) <= 0}
           agree == {i \in DOMAIN buff : Agrees(buff[i])}
<1>1. UNCHANGED <<table, buff, client>> /\ stage' = "decided" BY DEF acl_filter
<1>2. ASSUME NEW e PROVE Agrees(e)' <=> Agrees(e) BY <1>1 DEF Agrees
<1>3. Entries(buff)' = Entries(buff) BY <1>1 DEF Entries
<1>4. M' = M BY <1>2, <1>3
<1>5. L' = L BY <1>4
<1>0. PICK hits \in Matches :
        decision' = IF hits = {} THEN TRUE ELSE buff[Least(hits)].access
  BY DEF acl_filter
<1>6. hits \subseteq agree /\ agree \subseteq Nat /\ agree \subseteq DOMAIN buff
  BY <1>0 DEF Matches
<1>7. M = {buff[i] : i \in agree} BY DEF Entries
<1>b. ASSUME hits # {}
      PROVE  /\ Least(hits) \in hits /\ \A j \in hits : Least(hits) <= j
             /\ buff[Least(hits)] \in M
             /\ buff[Least(hits)].access \in BOOLEAN
  <2>1. Least(hits) \in hits /\ \A j \in hits : Least(hits) <= j
    <3>1. hits \subseteq Nat BY <1>6
    <3> QED BY <1>b, <3>1, LeastProperty
  <2>2. Least(hits) \in DOMAIN buff /\ buff[Least(hits)] \in M
    BY <1>6, <1>7, <2>1
  <2>3. buff[Least(hits)] \in ACL_ENTRY BY <2>2, TableTypes
  <2>4. buff[Least(hits)].access \in BOOLEAN BY <2>3 DEF ACL_ENTRY
  <2> QED BY <2>1, <2>2, <2>4
<1>c. decision' \in BOOLEAN BY <1>0, <1>b
<1>d. CASE client.HwAddrLen > Bytes
  <2>1. ASSUME decision' = FALSE PROVE \E e \in M : e.access = FALSE
    <3>1. hits # {} BY <1>0, <2>1
    <3>2. buff[Least(hits)].access = FALSE BY <1>0, <2>1, <3>1
    <3> HIDE DEF M
    <3> QED BY <1>b, <3>1, <3>2
  <2> HIDE DEF M, L
  <2>2. client'.HwAddrLen > Bytes /\ (decision' = FALSE => \E e \in M' : e.access = FALSE)
    BY <1>1, <1>4, <1>d, <2>1
  <2> QED BY <2>2, <1>c DEF LeastDecides, M, L
<1>8. CASE ~(client.HwAddrLen > Bytes) /\ agree = {}
  <2>1. hits = {} BY <1>6, <1>8
  <2>2. M = {} /\ decision' = TRUE BY <1>0, <1>7, <1>8, <2>1
  <2>3. ~(client'.HwAddrLen > Bytes) /\ M' = {} BY <1>1, <1>4, <1>8, <2>2
  <2> QED BY <2>2, <2>3, <1>c DEF LeastDecides
<1>9. CASE ~(client.HwAddrLen > Bytes) /\ agree # {}
  <2>0. hits = agree
    <3>1. client.HwAddrLen <= Bytes
      <4> DEFINE n == client.HwAddrLen
      <4>1. n \in 0..255 /\ Bytes \in Nat /\ ~(n > Bytes) BY <1>9, AclAssumption
      <4> HIDE DEF n
      <4>2. n <= Bytes BY <4>1
      <4> QED BY <4>2 DEF n
    <3> QED BY <1>0, <3>1 DEF Matches
  <2> DEFINE k == Least(hits)
  <2>1. k \in hits /\ \A j \in hits : k <= j BY <1>b, <1>9, <2>0
  <2>2. decision' = buff[k].access BY <1>0, <1>9, <2>0
  <2> HIDE DEF k, agree
  <2>3. buff[k] \in M BY <1>7, <2>0, <2>1
  <2>4. \A f \in M : acl_compartor(buff[k], f) <= 0
    <3> TAKE f \in M
    <3>1. PICK j \in hits : f = buff[j] BY <1>7, <2>0
    <3>2. CASE j = k
      <4>1. acl_compartor(f, f) = 0 BY DEF acl_compartor, Compare
      <4> QED BY <3>1, <3>2, <4>1
    <3>3. CASE j # k
      <4>1. k < j BY <2>1, <3>3, <1>6
      <4> QED BY <3>1, <4>1, <2>1, <1>6 DEF Sorted
    <3> QED BY <3>2, <3>3
  <2>5. buff[k] \in L /\ M # {} BY <2>3, <2>4
  <2>a. \A e, f \in L : f = [e EXCEPT !.access = f.access]
    <3> TAKE e, f \in L
    <3>1. e \in M /\ f \in M OBVIOUS
    <3>2. M \subseteq ACL_ENTRY BY TableTypes DEF Entries
    <3>3. e \in ACL_ENTRY /\ f \in ACL_ENTRY BY <3>1, <3>2
    <3>4. acl_compartor(e, f) <= 0 /\ acl_compartor(f, e) <= 0 BY <3>1
    <3>5. ~(acl_compartor(e, f) < 0)
      <4>1. acl_compartor(e, f) < 0 => acl_compartor(f, e) > 0
        BY <3>3, ComparatorOrder
      <4>2. acl_compartor(f, e) \in Int BY <3>3, ComparatorSign
      <4> HIDE DEF M, L
      <4> QED BY <3>4, <4>1, <4>2
    <3>6. acl_compartor(e, f) = 0
      <4>1. acl_compartor(e, f) \in Int BY <3>3, ComparatorSign
      <4> HIDE DEF M, L
      <4> QED BY <3>4, <3>5, <4>1
    <3>7. e.HwType = f.HwType /\ e.HwMask = f.HwMask /\ e.HwAddr = f.HwAddr
      BY <3>3, <3>6, ComparatorSign
    <3> HIDE DEF M, L
    <3> QED BY <3>3, <3>7 DEF ACL_ENTRY
  <2> HIDE DEF M, L
  <2>6. /\ ~(client'.HwAddrLen > Bytes)
        /\ M' # {} /\ \E e \in L' : decision' = e.access
        /\ \A e, f \in L' : f = [e EXCEPT !.access = f.access]
    BY <1>1, <1>4, <1>5, <1>9, <2>2, <2>5, <2>a
  <2> QED BY <2>6, <1>c DEF LeastDecides, M, L
<1> QED BY <1>d, <1>8, <1>9
-----------------------------------------------------------------------------
(* Before the fetch there is nothing.                                      *)
LEMMA InitIInv == Init => IInv
<1> SUFFICES ASSUME Init PROVE IInv OBVIOUS
<1>1. Entries(buff) = {} /\ Len(buff) = 0 /\ buff \in Seq(table)
  BY DEF Init, Entries
<1>2. MaxEntries \in Nat BY AclAssumption
<1>3. TypeOK BY <1>1, <1>2 DEF Init, TypeOK
<1>4. LeastDecides BY DEF Init, LeastDecides
<1> QED BY <1>1, <1>3, <1>4 DEF Init, IInv

(* The fetch keeps a prefix of the rows in the order of the query.         *)
LEMMA FetchIInv == IInv /\ Fetch => IInv'
<1> SUFFICES ASSUME IInv, Fetch PROVE IInv' OBVIOUS
<1>1. MaxEntries \in Nat BY AclAssumption
<1>2. /\ table \in Tables /\ client \in Clients /\ decision \in BOOLEAN
      /\ stage' = "fetched" /\ UNCHANGED <<table, client, decision>>
  BY DEF IInv, TypeOK, Fetch
<1>3. table \subseteq ACL_ENTRY /\ IsFiniteSet(table) BY <1>2, TableTypes
<1> DEFINE m(s) == IF Len(s) < MaxEntries THEN Len(s) ELSE MaxEntries
<1>4. PICK s \in Listings(table) :
         /\ \A i, j \in DOMAIN s : i < j => QueryOrder(s[i], s[j])
         /\ buff' = SubSeq(s, 1, m(s))
  BY DEF Fetch
<1>5. s \in Seq(table) /\ Entries(s) = table /\ DOMAIN s = 1..Len(s)
  BY <1>3, ListingTypes
<1> DEFINE n == m(s)
<1>6. n \in 0..Len(s) /\ n <= MaxEntries /\ Len(s) \in Nat BY <1>1, <1>5
<1> HIDE DEF n
<1>7. /\ buff' \in Seq(table) /\ Len(buff') = n
      /\ \A i \in 1..n : buff'[i] = s[i]
  <2>1. buff' = SubSeq(s, 1, n) BY <1>4 DEF n
  <2> QED BY <2>1, <1>5, <1>6
<1>8. DOMAIN buff' = 1..n BY <1>6, <1>7
<1>9. Entries(buff') = {s[i] : i \in 1..n} BY <1>7, <1>8 DEF Entries
<1>10. TypeOK'
  <2>1. Entries(buff') \subseteq table BY <1>5, <1>6, <1>9 DEF Entries
  <2>2. Entries(buff)' = Entries(buff') BY DEF Entries
  <2> QED BY <2>1, <2>2, <1>2, <1>6, <1>7 DEF TypeOK
<1>11. DropsSmallest'
  <2> SUFFICES ASSUME NEW lost \in table, lost \notin Entries(buff'),
                      NEW e \in Entries(buff'),
                      lost.HwType = e.HwType
               PROVE  acl_compartor(lost, e) < 0 <=> lost.HwMask # e.HwMask
    BY <1>2 DEF DropsSmallest, Entries
  <2>1. PICK i \in 1..n : e = s[i] BY <1>9
  <2>2. PICK j \in 1..Len(s) : lost = s[j] BY <1>5 DEF Entries
  <2>3. j \notin 1..n BY <1>9, <2>2
  <2>4. i < j /\ i \in DOMAIN s /\ j \in DOMAIN s
    BY <1>5, <1>6, <2>1, <2>2, <2>3
  <2>5. QueryOrder(e, lost) BY <1>4, <2>1, <2>2, <2>4
  <2>6. lost \in ACL_ENTRY /\ e \in ACL_ENTRY BY <1>3, <1>5, <2>1, <2>4
  <2>a. /\ lost.HwMask \in Address /\ e.HwMask \in Address
        /\ lost.HwAddr \in Address /\ e.HwAddr \in Address
        /\ lost.HwType \in 0..255
    BY <2>6 DEF ACL_ENTRY
  <2>b. \A p \in 0..255 : ~(p < p) OBVIOUS
  <2>c. ~(lost.HwType < e.HwType) BY <2>a, <2>b
  <2>7. CASE e.HwMask = lost.HwMask
    <3>1. ~Below(lost.HwMask, e.HwMask)
      <4>1. Compare(lost.HwMask, e.HwMask) = 0 BY <2>7 DEF Compare
      <4> QED BY <4>1, <2>a, CompareSign
    <3>2. Compare(e.HwAddr, lost.HwAddr) <= 0 BY <2>5, <2>7 DEF QueryOrder
    <3>3. ~(Compare(e.HwAddr, lost.HwAddr) > 0)
      <4> DEFINE c == Compare(e.HwAddr, lost.HwAddr)
      <4>1. c \in Int /\ c <= 0 BY <3>2, <2>a, CompareSign
      <4> HIDE DEF c
      <4>2. ~(c > 0) BY <4>1
      <4> QED BY <4>2 DEF c
    <3>4. ~Below(lost.HwAddr, e.HwAddr) BY <3>3, <2>a, CompareSign
    <3>5. ~(acl_compartor(lost, e) < 0)
      BY <2>6, <2>c, <3>1, <3>4, ComparatorSign
    <3> QED BY <2>7, <3>5
  <2>8. CASE e.HwMask # lost.HwMask
    <3>1. Compare(e.HwMask, lost.HwMask) > 0 BY <2>5, <2>8 DEF QueryOrder
    <3>2. Below(lost.HwMask, e.HwMask) BY <3>1, <2>a, CompareSign
    <3>3. acl_compartor(lost, e) < 0 BY <2>6, <3>2, ComparatorSign
    <3> QED BY <2>8, <3>3
  <2> QED BY <2>7, <2>8
<1>12. LeastDecides' BY <1>2 DEF LeastDecides
<1>13. Filled'
  <2>1. Len(s) = Cardinality(table) /\ Cardinality(table) \in Nat
    BY <1>3, ListingTypes
  <2>2. Cardinality(Entries(buff')) = n BY <1>3, <1>6, <1>7, <2>1, ListingPrefix
  <2>3. Entries(buff)' = Entries(buff') BY DEF Entries
  <2>4. CASE Cardinality(table) <= MaxEntries
    <3>1. n = Len(s) BY <1>1, <2>1, <2>4 DEF n
    <3>2. Entries(buff') = table BY <1>5, <1>9, <3>1 DEF Entries
    <3> QED BY <1>2, <1>7, <2>2, <2>3, <2>4, <3>2 DEF Filled
  <2>5. CASE ~(Cardinality(table) <= MaxEntries)
    <3>1. n = MaxEntries BY <1>1, <2>1, <2>5 DEF n
    <3> QED BY <1>2, <1>7, <2>2, <2>3, <2>5, <3>1 DEF Filled
  <2> QED BY <2>4, <2>5
<1> QED BY <1>2, <1>7, <1>10, <1>11, <1>12, <1>13 DEF IInv

(* Sorting keeps the entries.                                              *)
LEMMA SortIInv == IInv /\ acl_sort_entry => IInv'
<1> SUFFICES ASSUME IInv, acl_sort_entry PROVE IInv' OBVIOUS
<1>1. MaxEntries \in Nat BY AclAssumption
<1>2. /\ table \in Tables /\ client \in Clients /\ decision \in BOOLEAN
      /\ stage = "fetched" /\ stage' = "sorted"
      /\ UNCHANGED <<table, client, decision>>
      /\ Entries(buff) \subseteq table /\ Len(buff) <= MaxEntries
      /\ buff \in Seq(table) /\ DropsSmallest /\ Filled
  BY DEF IInv, TypeOK, acl_sort_entry
<1>3. /\ IsFiniteSet(Entries(buff)) /\ Cardinality(Entries(buff)) <= Len(buff)
  BY <1>2, EntriesBound
<1>4. buff' \in Listings(Entries(buff)) BY DEF acl_sort_entry
<1> DEFINE S == Entries(buff)
           b == buff'
<1>5. /\ Cardinality(S) \in Nat /\ b \in Seq(S)
      /\ Len(b) = Cardinality(S) /\ Entries(b) = S
  <2>1. b \in Listings(S) /\ IsFiniteSet(S) BY <1>3, <1>4
  <2> HIDE DEF S, b
  <2> QED BY <2>1, ListingTypes
<1>6. Entries(buff)' = Entries(buff) BY <1>5 DEF Entries
<1>7. buff' \in Seq(table) BY <1>2, <1>5
<1>8. Len(buff') <= MaxEntries
  <2>1. Len(buff) \in Nat BY <1>2
  <2> QED BY <2>1, <1>1, <1>2, <1>3, <1>5
<1>9. TypeOK' BY <1>2, <1>6, <1>8 DEF TypeOK
<1>10. DropsSmallest' BY <1>2, <1>6 DEF DropsSmallest
<1>11. Sorted' BY DEF Sorted, acl_sort_entry
<1>12. LeastDecides' BY <1>2 DEF LeastDecides
<1>13. Filled'
  <2>1. Len(buff') = Len(buff) /\ Cardinality(Entries(buff)) = Len(buff)
    BY <1>2, <1>5 DEF Filled
  <2> QED BY <1>2, <1>6, <2>1 DEF Filled
<1> QED BY <1>2, <1>7, <1>9, <1>10, <1>11, <1>12, <1>13 DEF IInv

(* Every step.                                                             *)
LEMMA StepIInv == IInv /\ [Next]_vars => IInv'
<1> SUFFICES ASSUME IInv, [Next]_vars PROVE IInv' OBVIOUS
<1>1. CASE Fetch BY <1>1, FetchIInv
<1>2. CASE acl_sort_entry BY <1>2, SortIInv
<1>3. CASE acl_filter
  <2>1. /\ UNCHANGED <<table, buff, client>>
        /\ stage = "sorted" /\ stage' = "decided"
    BY <1>3 DEF acl_filter
  <2>2. /\ table \in Tables /\ client \in Clients /\ buff \in Seq(table)
        /\ Sorted /\ DropsSmallest /\ Filled
    BY <2>1 DEF IInv, TypeOK
  <2>3. LeastDecides' /\ decision' \in BOOLEAN BY <1>3, <2>2, FilterDecides
  <2>5. TypeOK' BY <2>1, <2>3 DEF IInv, TypeOK, Entries
  <2>6. Sorted' /\ DropsSmallest' /\ Filled'
    BY <2>1, <2>2 DEF Sorted, DropsSmallest, Filled, Entries
  <2> QED BY <2>1, <2>2, <2>3, <2>5, <2>6 DEF IInv
<1>4. CASE UNCHANGED vars
  <2>1. UNCHANGED <<table, buff, stage, client, decision>> BY <1>4 DEF vars
  <2>2. ASSUME NEW e PROVE Agrees(e)' <=> Agrees(e) BY <2>1 DEF Agrees
  <2>3. Entries(buff)' = Entries(buff) BY <2>1 DEF Entries
  <2>4. TypeOK' BY <2>1, <2>3 DEF IInv, TypeOK
  <2>5. LeastDecides' BY <2>1, <2>2, <2>3 DEF IInv, LeastDecides
  <2>6. /\ stage' # "table" => DropsSmallest' /\ Filled'
        /\ stage' \in {"sorted", "decided"} => Sorted'
    BY <2>1, <2>3 DEF IInv, DropsSmallest, Filled, Sorted
  <2> QED BY <2>1, <2>4, <2>5, <2>6 DEF IInv
<1> QED BY <1>1, <1>2, <1>3, <1>4 DEF Next

(* acl_do_update and acl_filter: the list holds rows of the table only and *)
(* never more than it has room for.                                        *)
THEOREM AclTypes == Spec => []TypeOK
<1>1. IInv => TypeOK BY DEF IInv
<1> QED BY InitIInv, StepIInv, <1>1, PTL DEF Spec

(* acl_compartor is an order on the rows of every table: qsort may rely on *)
(* it.                                                                     *)
THEOREM AclComparator == Spec => []ComparatorIsOrder
<1>1. IInv => ComparatorIsOrder
  <2> SUFFICES ASSUME IInv, NEW a \in table, NEW b \in table, NEW c \in table
               PROVE  /\ acl_compartor(a, b) < 0 <=> acl_compartor(b, a) > 0
                      /\ acl_compartor(a, b) <= 0 /\ acl_compartor(b, c) <= 0
                           => acl_compartor(a, c) <= 0
    BY DEF ComparatorIsOrder
  <2>1. a \in ACL_ENTRY /\ b \in ACL_ENTRY /\ c \in ACL_ENTRY
    BY TableTypes DEF IInv, TypeOK
  <2> QED BY <2>1, ComparatorOrder
<1> QED BY InitIInv, StepIInv, <1>1, PTL DEF Spec

(* acl_filter decides by a least matching entry, whatever the order of the *)
(* rows, and permits a client that none matches; one whose length goes     *)
(* beyond the arrays it refuses only by an entry that agrees and denies.   *)
THEOREM AclLeastDecides == Spec => []LeastDecides
<1>1. IInv => LeastDecides BY DEF IInv
<1> QED BY InitIInv, StepIInv, <1>1, PTL DEF Spec

(* acl_do_update loads a table that fits without loss; what it drops of a  *)
(* larger one the search would have come to before every kept row of the   *)
(* same type and another mask, and before none of the same mask.           *)
THEOREM AclLimit == Spec => []DropsSmallestMasks
<1>1. IInv => DropsSmallestMasks BY DEF IInv, DropsSmallestMasks, DropsSmallest, Filled
<1> QED BY InitIInv, StepIInv, <1>1, PTL DEF Spec
-----------------------------------------------------------------------------
(* R orders S: of two elements one comes first, transitively.              *)
Orders(R, S) ==
  /\ \A a, b \in S : <<a, b>> \in R \/ <<b, a>> \in R
  /\ \A a, b, c \in S : <<a, b>> \in R /\ <<b, c>> \in R => <<a, c>> \in R

(* A finite set with an order has an element that may come last.           *)
LEMMA LastExists ==
  ASSUME NEW S, IsFiniteSet(S), S # {}, NEW R, Orders(R, S)
  PROVE  \E z \in S : \A a \in S : <<a, z>> \in R
<1> DEFINE P == {n \in Nat : \A T \in SUBSET S :
                   Cardinality(T) = n /\ T # {}
                     => \E z \in T : \A a \in T : <<a, z>> \in R}
<1>0. \A T \in SUBSET S : IsFiniteSet(T) /\ Cardinality(T) \in Nat
  BY FS_Subset, FS_CardinalityType
<1>1. 0 \in P
  <2>1. \A T \in SUBSET S : Cardinality(T) = 0 => T = {} BY <1>0, FS_EmptySet
  <2> QED BY <2>1
<1>2. ASSUME NEW n \in Nat, n \in P PROVE n + 1 \in P
  <2> SUFFICES ASSUME NEW T \in SUBSET S, Cardinality(T) = n + 1, T # {}
               PROVE  \E z \in T : \A a \in T : <<a, z>> \in R
    OBVIOUS
  <2>1. PICK x : x \in T OBVIOUS
  <2> DEFINE U == T \ {x}
  <2>2. Cardinality(U) = n
    <3>1. Cardinality(U) = Cardinality(T) - 1 BY <1>0, <2>1, FS_RemoveElement
    <3> QED BY <3>1
  <2>3. <<x, x>> \in R BY <2>1 DEF Orders
  <2>4. CASE U = {} BY <2>1, <2>3, <2>4
  <2>5. CASE U # {}
    <3>1. PICK y \in U : \A a \in U : <<a, y>> \in R
      <4>1. U \in SUBSET S OBVIOUS
      <4> HIDE DEF U
      <4> QED BY <1>2, <2>2, <2>5, <4>1
    <3>2. \A a \in T : a = x \/ a \in U OBVIOUS
    <3>3. CASE <<x, y>> \in R BY <3>1, <3>2, <3>3
    <3>4. CASE <<y, x>> \in R
      <4>1. \A a \in U : <<a, x>> \in R BY <2>1, <3>1, <3>4 DEF Orders
      <4> QED BY <2>1, <2>3, <3>2, <4>1
    <3> QED BY <2>1, <3>3, <3>4 DEF Orders
  <2> QED BY <2>4, <2>5
<1> HIDE DEF P
<1>3. Nat \subseteq P BY <1>1, <1>2, NatSet
<1>4. Cardinality(S) \in P /\ S \in SUBSET S BY <1>0, <1>3
<1> QED BY <1>4 DEF P

(* A finite set with an order can be listed in that order.                 *)
LEMMA ListingExists ==
  ASSUME NEW S, IsFiniteSet(S), NEW R, Orders(R, S)
  PROVE  \E s \in Listings(S) :
           \A i, j \in DOMAIN s : i < j => <<s[i], s[j]>> \in R
<1> DEFINE Good(T) == \E s \in Listings(T) :
                        \A i, j \in DOMAIN s : i < j => <<s[i], s[j]>> \in R
           P == {n \in Nat : \A T \in SUBSET S : Cardinality(T) = n => Good(T)}
<1>0. \A T \in SUBSET S : IsFiniteSet(T) /\ Cardinality(T) \in Nat
  BY FS_Subset, FS_CardinalityType
<1>1. 0 \in P
  <2> SUFFICES ASSUME NEW T \in SUBSET S, Cardinality(T) = 0 PROVE Good(T)
    OBVIOUS
  <2>1. T = {} BY <1>0, FS_EmptySet
  <2> DEFINE s == [i \in 1..0 |-> 0]
  <2>2. 1..0 = {} /\ DOMAIN s = {} OBVIOUS
  <2>3. s \in [1..Cardinality(T) -> T] BY <2>2
  <2>4. Entries(s) = T BY <2>1, <2>2 DEF Entries
  <2>5. s \in Listings(T) BY <2>3, <2>4 DEF Listings
  <2> HIDE DEF s
  <2> QED BY <2>2, <2>5
<1>2. ASSUME NEW n \in Nat, n \in P PROVE n + 1 \in P
  <2> SUFFICES ASSUME NEW T \in SUBSET S, Cardinality(T) = n + 1 PROVE Good(T)
    OBVIOUS
  <2>1. T # {} BY FS_EmptySet
  <2>2. Orders(R, T) BY DEF Orders
  <2>3. PICK z \in T : \A a \in T : <<a, z>> \in R BY <1>0, <2>1, <2>2, LastExists
  <2> DEFINE U == T \ {z}
  <2>4. Cardinality(U) = n
    <3>1. Cardinality(U) = Cardinality(T) - 1 BY <1>0, <2>3, FS_RemoveElement
    <3> QED BY <3>1
  <2>5. PICK s \in Listings(U) :
          \A i, j \in DOMAIN s : i < j => <<s[i], s[j]>> \in R
    <3>1. U \in SUBSET S OBVIOUS
    <3> HIDE DEF U
    <3> QED BY <1>2, <2>4, <3>1
  <2>6. s \in [1..n -> U] /\ Entries(s) = U BY <2>4, <2>5 DEF Listings
  <2> DEFINE t == [i \in 1..(n + 1) |-> IF i = n + 1 THEN z ELSE s[i]]
  <2>7. \A i \in 1..(n + 1) : i = n + 1 \/ i \in 1..n OBVIOUS
  <2>8. /\ t[n + 1] = z /\ \A i \in 1..n : i \in 1..(n + 1) /\ t[i] = s[i]
    <3>1. n + 1 \in 1..(n + 1) /\ \A i \in 1..n : i \in 1..(n + 1) /\ i # n + 1
      OBVIOUS
    <3> QED BY <3>1
  <2>9. \A i \in 1..n : s[i] \in U /\ s[i] \in T BY <2>6
  <2>10. t \in [1..(n + 1) -> T] BY <2>3, <2>7, <2>9
  <2>11. Entries(t) = T
    <3>1. DOMAIN t = 1..(n + 1) /\ DOMAIN s = 1..n BY <2>6
    <3>2. Entries(t) \subseteq T BY <2>10, <3>1 DEF Entries
    <3>3. ASSUME NEW a \in T PROVE a \in Entries(t)
      <4>1. CASE a = z
        <5>1. n + 1 \in DOMAIN t BY <3>1
        <5> HIDE DEF t
        <5> QED BY <2>8, <4>1, <5>1 DEF Entries
      <4>2. CASE a # z
        <5>1. a \in Entries(s) BY <2>6, <4>2
        <5>2. PICK i \in 1..n : a = s[i] BY <3>1, <5>1 DEF Entries
        <5>3. i \in DOMAIN t /\ t[i] = a BY <2>8, <3>1, <5>2
        <5> HIDE DEF t
        <5> QED BY <5>3 DEF Entries
      <4> QED BY <4>1, <4>2
    <3> QED BY <3>2, <3>3
  <2>12. t \in Listings(T) BY <2>10, <2>11 DEF Listings
  <2>13. ASSUME NEW i \in DOMAIN t, NEW j \in DOMAIN t, i < j
         PROVE  <<t[i], t[j]>> \in R
    <3>1. i \in 1..(n + 1) /\ j \in 1..(n + 1) OBVIOUS
    <3>2. i \in 1..n BY <2>13, <3>1
    <3>3. t[i] = s[i] /\ s[i] \in T BY <2>8, <2>9, <3>2
    <3>4. CASE j = n + 1
      <4>1. t[j] = z BY <2>8, <3>4
      <4> HIDE DEF t
      <4> QED BY <2>3, <3>3, <4>1
    <3>5. CASE j \in 1..n
      <4>1. t[j] = s[j] /\ i \in DOMAIN s /\ j \in DOMAIN s
        BY <2>6, <2>8, <3>2, <3>5
      <4> HIDE DEF t
      <4> QED BY <2>5, <2>13, <3>3, <4>1
    <3> QED BY <2>7, <3>1, <3>4, <3>5
  <2> HIDE DEF t
  <2> QED BY <2>12, <2>13
<1> HIDE DEF P
<1>3. Nat \subseteq P BY <1>1, <1>2, NatSet
<1>4. Cardinality(S) \in P /\ S \in SUBSET S BY <1>0, <1>3
<1> QED BY <1>4 DEF P

(* ORDER BY hwmask DESC, hwaddr orders the rows.                           *)
LEMMA QueryOrders ==
  ASSUME NEW a \in ACL_ENTRY, NEW b \in ACL_ENTRY, NEW c \in ACL_ENTRY
  PROVE  /\ QueryOrder(a, b) \/ QueryOrder(b, a)
         /\ QueryOrder(a, b) /\ QueryOrder(b, c) => QueryOrder(a, c)
<1>1. \A x \in ACL_ENTRY : x.HwMask \in Address /\ x.HwAddr \in Address
  BY DEF ACL_ENTRY
<1>2. \A u, v \in Address : /\ Compare(u, v) > 0 <=> Below(v, u)
                            /\ Compare(u, v) <= 0 <=> ~Below(v, u)
                            /\ u = v \/ Below(u, v) \/ Below(v, u)
                            /\ ~(Below(u, v) /\ Below(v, u))
  <2> TAKE u, v \in Address
  <2> DEFINE k == Compare(u, v)
  <2>1. /\ k \in Int /\ (k = 0 <=> u = v)
        /\ (k < 0 <=> Below(u, v)) /\ (k > 0 <=> Below(v, u))
    BY CompareSign
  <2> HIDE DEF k
  <2>2. /\ k <= 0 <=> ~(k > 0) /\ (k < 0 \/ k = 0 \/ k > 0) /\ ~(k < 0 /\ k > 0)
    BY <2>1
  <2>3. /\ k > 0 <=> Below(v, u)
        /\ k <= 0 <=> ~Below(v, u)
        /\ u = v \/ Below(u, v) \/ Below(v, u)
        /\ ~(Below(u, v) /\ Below(v, u))
    BY <2>1, <2>2
  <2> QED BY <2>3 DEF k
<1>3. \A x, y \in ACL_ENTRY :
        QueryOrder(x, y) <=> \/ Below(y.HwMask, x.HwMask)
                             \/ x.HwMask = y.HwMask /\ ~Below(y.HwAddr, x.HwAddr)
  <2> TAKE x, y \in ACL_ENTRY
  <2>1. CASE x.HwMask = y.HwMask
    BY <1>1, <1>2, <2>1 DEF QueryOrder
  <2>2. CASE x.HwMask # y.HwMask
    BY <1>1, <1>2, <2>2 DEF QueryOrder
  <2> QED BY <2>1, <2>2
<1>4. \A u, v, w \in Address : Below(u, v) /\ Below(v, w) => Below(u, w)
  BY BelowTransitive
<1>5. QueryOrder(a, b) \/ QueryOrder(b, a)
  BY <1>1, <1>2, <1>3
<1>6. QueryOrder(a, b) /\ QueryOrder(b, c) => QueryOrder(a, c)
  <2> SUFFICES ASSUME QueryOrder(a, b), QueryOrder(b, c) PROVE QueryOrder(a, c)
    OBVIOUS
  <2>1. CASE a.HwMask = b.HwMask /\ b.HwMask = c.HwMask
    <3>1. ~Below(b.HwAddr, a.HwAddr) /\ ~Below(c.HwAddr, b.HwAddr)
      BY <1>1, <1>2, <1>3, <2>1
    <3>2. ~Below(c.HwAddr, a.HwAddr) BY <1>1, <1>2, <1>4, <3>1
    <3> QED BY <1>3, <2>1, <3>2
  <2>2. CASE ~(a.HwMask = b.HwMask /\ b.HwMask = c.HwMask)
    <3>1. Below(c.HwMask, a.HwMask)
      <4>1. CASE a.HwMask = b.HwMask BY <1>3, <2>2, <4>1
      <4>2. CASE b.HwMask = c.HwMask BY <1>3, <2>2, <4>2
      <4>3. CASE a.HwMask # b.HwMask /\ b.HwMask # c.HwMask
        <5>1. Below(b.HwMask, a.HwMask) /\ Below(c.HwMask, b.HwMask)
          BY <1>3, <4>3
        <5> QED BY <1>1, <1>4, <5>1
      <4> QED BY <4>1, <4>2, <4>3
    <3> QED BY <1>3, <3>1
  <2> QED BY <2>1, <2>2
<1> QED BY <1>5, <1>6

(* The database can order any set of rows for acl_do_update, and qsort can *)
(* sort any list of them in acl_sort_entry: no table and no list is left   *)
(* without an outcome, so that what the other theorems say of outcomes is  *)
(* said of at least one for every table.                                   *)
THEOREM AclOutcomes ==
  Spec => [](/\ \E s \in Listings(table) :
                  \A i, j \in DOMAIN s : i < j => QueryOrder(s[i], s[j])
             /\ \E s \in Listings(Entries(buff)) :
                  \A i, j \in DOMAIN s : i < j => acl_compartor(s[i], s[j]) <= 0)
<1>1. ASSUME IInv
      PROVE  /\ \E s \in Listings(table) :
                  \A i, j \in DOMAIN s : i < j => QueryOrder(s[i], s[j])
             /\ \E s \in Listings(Entries(buff)) :
                  \A i, j \in DOMAIN s : i < j => acl_compartor(s[i], s[j]) <= 0
  <2> DEFINE E == Entries(buff)
  <2>1. /\ table \subseteq ACL_ENTRY /\ IsFiniteSet(table)
        /\ E \subseteq ACL_ENTRY /\ IsFiniteSet(E)
    BY <1>1, TableTypes, FS_Subset DEF IInv, TypeOK
  <2> HIDE DEF E
  <2>2. \E s \in Listings(table) :
          \A i, j \in DOMAIN s : i < j => QueryOrder(s[i], s[j])
    <3> DEFINE R == {p \in table \X table : QueryOrder(p[1], p[2])}
    <3>1. \A a, b \in table : <<a, b>> \in R <=> QueryOrder(a, b) OBVIOUS
    <3>2. Orders(R, table)
      <4> HIDE DEF R
      <4> QED BY <2>1, <3>1, QueryOrders DEF Orders
    <3>3. PICK s \in Listings(table) :
            \A i, j \in DOMAIN s : i < j => <<s[i], s[j]>> \in R
      <4> HIDE DEF R
      <4> QED BY <2>1, <3>2, ListingExists
    <3>4. \A i \in DOMAIN s : s[i] \in table BY DEF Listings, Entries
    <3> HIDE DEF R
    <3> QED BY <3>1, <3>3, <3>4
  <2>3. \E s \in Listings(E) :
          \A i, j \in DOMAIN s : i < j => acl_compartor(s[i], s[j]) <= 0
    <3> DEFINE R == {p \in E \X E : acl_compartor(p[1], p[2]) <= 0}
    <3>1. \A a, b \in E : <<a, b>> \in R <=> acl_compartor(a, b) <= 0 OBVIOUS
    <3>2. ASSUME NEW a \in ACL_ENTRY, NEW b \in ACL_ENTRY
          PROVE  acl_compartor(a, b) <= 0 \/ acl_compartor(b, a) <= 0
      <4> DEFINE x == acl_compartor(a, b)
                 y == acl_compartor(b, a)
      <4>1. x \in Int /\ y \in Int /\ (y < 0 <=> x > 0)
        BY ComparatorSign, ComparatorOrder
      <4> HIDE DEF x, y
      <4>2. x <= 0 \/ y <= 0 BY <4>1
      <4> QED BY <4>2 DEF x, y
    <3>3. Orders(R, E)
      <4> HIDE DEF R
      <4>1. \A a, b, c \in E :
              acl_compartor(a, b) <= 0 /\ acl_compartor(b, c) <= 0
                => acl_compartor(a, c) <= 0
        BY <2>1, ComparatorOrder
      <4> QED BY <2>1, <3>1, <3>2, <4>1 DEF Orders
    <3>4. PICK s \in Listings(E) :
            \A i, j \in DOMAIN s : i < j => <<s[i], s[j]>> \in R
      <4> HIDE DEF R
      <4> QED BY <2>1, <3>3, ListingExists
    <3>5. \A i \in DOMAIN s : s[i] \in E BY DEF Listings, Entries
    <3> HIDE DEF R
    <3> QED BY <3>1, <3>4, <3>5
  <2> QED BY <2>2, <2>3 DEF E
<1> QED BY InitIInv, StepIInv, <1>1, PTL DEF Spec
==============================================================================
