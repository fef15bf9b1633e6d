------------------------- MODULE LinkedBufferProofs -------------------------
(***************************************************************************)
(* Proofs about LinkedBuffer for any number of threads, any address space  *)
(* and any capacity.                                                       *)
(*                                                                         *)
(* The inductive invariant joins the list to its wake-ups.  The list part  *)
(* is needed for the types (size never goes below 0, head is never an      *)
(* unwritten next field), the account of wake-ups needs the lock (at most  *)
(* one producer is about to signal), and the bound on the entries left     *)
(* behind needs the account.                                               *)
(***************************************************************************)
EXTENDS LinkedBuffer, FiniteSetTheorems, TLAPS

(* Fewer entries are left behind without a wake-up than the buffer holds.  *)
LagBounded == coalesced < MaxSize

IInv == TypeOK /\ LockProtects /\ FifoList /\ WakeupsAccounted /\ LagBounded

USE DEF Threads

-----------------------------------------------------------------------------
(* Operations that leave the list and its history alone keep it a FIFO.    *)
LEMMA FifoListUnchanged ==
  ASSUME FifoList, UNCHANGED <<list, accepted, delivered>>
  PROVE  FifoList'
BY DEF FifoList, list

(* The consumers on their way are finitely many.                           *)
LEMMA WokenFinite ==
  /\ IsFiniteSet(Woken)
  /\ Cardinality(Woken) \in Nat
<1>1. Woken \subseteq Consumers BY DEF Woken
<1>2. IsFiniteSet(Woken) BY <1>1, BufferAssumption, FS_Subset
<1> QED BY <1>2, FS_CardinalityType

(* buffer_init establishes the invariant.                                  *)
LEMMA InitIInv == Init => IInv
<1> SUFFICES ASSUME Init PROVE IInv OBVIOUS
<1> USE BufferAssumption
<1>1. TypeOK
  <2>1. pc \in [Threads -> ProducerPC \cup ConsumerPC]
        /\ (\A p \in Producers : pc[p] \in ProducerPC)
        /\ (\A c \in Consumers : pc[c] \in ConsumerPC)
    BY DEF Init, ProducerPC, ConsumerPC
  <2>2. next \in [Nodes -> Nodes \cup {Uninit}] /\ ptr \in [Nodes -> Nat]
    BY DEF Init
  <2>3. evt \in BOOLEAN /\ lock \in Threads \cup {NULL} /\ allocated \subseteq Nodes
    BY DEF Init
  <2>4. /\ size \in 0..MaxSize
        /\ accepted \in Nat /\ delivered \in Nat /\ coalesced \in Nat
    BY DEF Init
  <2>5. head \in Nodes \cup {NULL} /\ tail \in Nodes \cup {NULL}
    BY DEF Init
  <2> QED BY <2>1, <2>2, <2>3, <2>4, <2>5 DEF TypeOK
<1>2. LockProtects BY DEF Init, LockProtects
<1>3. FifoList
  <2>1. size = 0 /\ accepted = 0 /\ delivered = 0 /\ allocated = {}
        /\ head = NULL /\ tail = NULL BY DEF Init
  <2> DEFINE s == [i \in 1..size |-> CHOOSE n \in Nodes : TRUE]
  <2>2. 1..size = {} BY <2>1
  <2>3. s \in [1..size -> Nodes] BY <2>2
  <2> HIDE DEF s
  <2>4. allocated = {s[i] : i \in 1..size} BY <2>1, <2>2
  <2>5. /\ \A i, j \in 1..size : s[i] = s[j] => i = j
        /\ \A i \in 1..size : ptr[s[i]] = delivered + i
        /\ \A i \in 1..size : i # size => next[s[i]] = s[i + 1]
    BY <2>2
  <2>6. accepted = delivered + size BY <2>1
  <2> QED BY <2>1, <2>3, <2>4, <2>5, <2>6 DEF FifoList
<1>4. WakeupsAccounted
  <2>1. Woken = {} /\ Signalling = {} BY DEF Init, Woken, Signalling
  <2>2. Cardinality(Woken) = 0 BY <2>1, FS_EmptySet
  <2> QED BY <2>1, <2>2 DEF Init, WakeupsAccounted, Count
<1>5. LagBounded BY DEF Init, LagBounded
<1> QED BY <1>1, <1>2, <1>3, <1>4, <1>5 DEF IInv

(* Taking the lock, for either operation.                                  *)
LEMMA AcquireIInv ==
  ASSUME IInv, NEW t \in Threads,
         \/ t \in Producers /\ AddAcquire(t)
         \/ t \in Consumers /\ RemoveAcquire(t)
  PROVE  IInv'
<1> USE BufferAssumption DEF AddAcquire, RemoveAcquire, Acquire, Goto, list
<1>1. TypeOK' BY DEF IInv, TypeOK, ProducerPC, ConsumerPC
<1>2. LockProtects' BY DEF IInv, TypeOK, LockProtects
<1>3. FifoList' BY FifoListUnchanged DEF IInv
<1>4. Woken' = Woken /\ Signalling' = Signalling
  BY DEF IInv, TypeOK, Woken, Signalling
<1>5. WakeupsAccounted' BY <1>4 DEF IInv, WakeupsAccounted
<1>6. LagBounded' BY DEF IInv, LagBounded
<1> QED BY <1>1, <1>2, <1>3, <1>5, <1>6 DEF IInv

(* Releasing it, for either operation.                                     *)
LEMMA ReleaseIInv ==
  ASSUME IInv, NEW t \in Threads, Release(t)
  PROVE  IInv'
<1> USE BufferAssumption DEF Release, Goto, list
<1>1. TypeOK' BY DEF IInv, TypeOK, ProducerPC, ConsumerPC
<1>2. LockProtects' BY DEF IInv, TypeOK, LockProtects
<1>3. FifoList' BY FifoListUnchanged DEF IInv
<1>4. Woken' = Woken /\ Signalling' = Signalling
  BY DEF IInv, TypeOK, Woken, Signalling
<1>5. WakeupsAccounted' BY <1>4 DEF IInv, WakeupsAccounted
<1>6. LagBounded' BY DEF IInv, LagBounded
<1> QED BY <1>1, <1>2, <1>3, <1>5, <1>6 DEF IInv

(* The two returns of FALSE of buffer_add_tail.                            *)
LEMMA AddRefusedIInv ==
  ASSUME IInv, NEW p \in Producers, AddFull(p) \/ AddNoMemory(p)
  PROVE  IInv'
<1> USE BufferAssumption DEF AddFull, AddNoMemory, Goto, list
<1>1. TypeOK' BY DEF IInv, TypeOK, ProducerPC, ConsumerPC
<1>2. LockProtects' BY DEF IInv, TypeOK, LockProtects
<1>3. FifoList' BY FifoListUnchanged DEF IInv
<1>4. Woken' = Woken /\ Signalling' = Signalling
  BY DEF IInv, TypeOK, Woken, Signalling
<1>5. WakeupsAccounted' BY <1>4 DEF IInv, WakeupsAccounted
<1>6. LagBounded' BY DEF IInv, LagBounded
<1> QED BY <1>1, <1>2, <1>3, <1>5, <1>6 DEF IInv
-----------------------------------------------------------------------------
(* Linking an entry extends the list by one at its tail; the wake-up for   *)
(* it is the signal the producer is about to send.                         *)
LEMMA AddLinkIInv ==
  ASSUME IInv, NEW p \in Producers, AddLink(p)
  PROVE  IInv'
<1> USE BufferAssumption DEF IInv
<1>1. PICK n \in Nodes \ allocated :
        /\ allocated' = allocated \cup {n}
        /\ ptr' = [ptr EXCEPT ![n] = accepted + 1]
        /\ LinkAtTail(n)
  BY DEF AddLink
<1>2. /\ size < MaxSize /\ size' = size + 1 /\ accepted' = accepted + 1
      /\ pc[p] = "add" /\ pc' = [pc EXCEPT ![p] = "signal"]
      /\ UNCHANGED <<evt, lock, delivered, coalesced>>
  BY DEF AddLink, HasRoom, Goto
<1>3. TypeOK'
  <2>1. head' \in Nodes \cup {NULL} /\ tail' \in Nodes \cup {NULL}
        /\ next' \in [Nodes -> Nodes \cup {Uninit}]
    BY <1>1 DEF LinkAtTail, TypeOK
  <2>2. ptr' \in [Nodes -> Nat] /\ allocated' \subseteq Nodes
    BY <1>1 DEF TypeOK
  <2>3. size' \in 0..MaxSize BY <1>2 DEF TypeOK
  <2> QED BY <1>2, <2>1, <2>2, <2>3 DEF TypeOK, ProducerPC, ConsumerPC
<1>4. LockProtects' BY <1>2 DEF TypeOK, LockProtects
<1>5. FifoList'
  <2>1. PICK s \in [1..size -> Nodes] :
         /\ \A i, j \in 1..size : s[i] = s[j] => i = j
         /\ allocated = {s[i] : i \in 1..size}
         /\ \A i \in 1..size : ptr[s[i]] = delivered + i
         /\ \A i \in 1..size : i # size => next[s[i]] = s[i + 1]
         /\ IF size = 0 THEN head = NULL /\ tail = NULL
                        ELSE head = s[1] /\ tail = s[size]
    BY DEF FifoList
  <2> DEFINE r == [i \in 1..size' |-> IF i = size' THEN n ELSE s[i]]
  <2>2. size \in Nat /\ size' = size + 1 /\ size' \in Nat BY <1>2 DEF TypeOK
  <2>3. r \in [1..size' -> Nodes] BY <2>2
  <2>4. \A i \in 1..size : r[i] = s[i] /\ s[i] \in allocated /\ s[i] # n
    BY <2>1, <2>2
  <2>5. r[size'] = n BY <2>2
  <2> HIDE DEF r
  <2>6. \A i \in 1..size' : i \in 1..size \/ i = size' BY <2>2
  <2>7. \A i, j \in 1..size' : r[i] = r[j] => i = j
    BY <2>1, <2>4, <2>5, <2>6
  <2>8. allocated' = {r[i] : i \in 1..size'}
    <3>1. \A x \in allocated' : \E i \in 1..size' : x = r[i]
      BY <1>1, <2>1, <2>2, <2>4, <2>5
    <3>2. \A i \in 1..size' : r[i] \in allocated'
      BY <1>1, <2>4, <2>5, <2>6
    <3> QED BY <3>1, <3>2
  <2>9. \A i \in 1..size' : ptr'[r[i]] = delivered' + i
    <3>1. ptr'[n] = delivered + size'
      BY <1>1, <1>2, <2>2 DEF FifoList, TypeOK
    <3>2. \A i \in 1..size : ptr'[s[i]] = delivered + i
      BY <1>1, <2>1, <2>4 DEF TypeOK
    <3> QED BY <1>2, <2>4, <2>5, <2>6, <3>1, <3>2
  <2>10. \A i \in 1..size' : i # size' => next'[r[i]] = r[i + 1]
    <3> SUFFICES ASSUME NEW i \in 1..size', i # size'
                 PROVE  next'[r[i]] = r[i + 1]
      OBVIOUS
    <3>1. i \in 1..size /\ size # 0 BY <2>2, <2>6
    <3>2. tail = s[size] /\ tail # NULL /\ tail \in Nodes
      BY <2>1, <2>2, <3>1
    <3>3. next' = [next EXCEPT ![tail] = n] BY <1>1, <3>2 DEF LinkAtTail
    <3>4. CASE i = size
      BY <2>2, <2>4, <2>5, <3>1, <3>2, <3>3, <3>4 DEF TypeOK
    <3>5. CASE i # size
      <4>1. i + 1 \in 1..size /\ size \in 1..size BY <2>2, <3>1, <3>5
      <4>2. s[i] # tail BY <2>1, <3>1, <3>2, <3>5, <4>1
      <4>3. next'[s[i]] = s[i + 1] BY <2>1, <3>1, <3>3, <3>5, <4>2 DEF TypeOK
      <4> QED BY <2>4, <3>1, <4>1, <4>3
    <3> QED BY <3>4, <3>5
  <2>11. head' = r[1] /\ tail' = r[size'] /\ size' # 0
    <3>1. tail' = r[size'] /\ size' # 0
      BY <1>1, <2>2, <2>5 DEF LinkAtTail
    <3>2. CASE size = 0
      BY <1>1, <2>1, <2>2, <2>5, <3>2 DEF LinkAtTail
    <3>3. CASE size # 0
      <4>1. 1 \in 1..size /\ size \in 1..size BY <2>2, <3>3
      <4>2. tail \in Nodes /\ tail # NULL BY <2>1, <3>3, <4>1
      <4>3. head' = head BY <1>1, <4>2 DEF LinkAtTail
      <4> QED BY <2>1, <2>4, <3>1, <3>3, <4>1, <4>3
    <3> QED BY <3>1, <3>2, <3>3
  <2>12. accepted' = delivered' + size'
    BY <1>2 DEF FifoList, TypeOK
  <2> QED BY <2>3, <2>7, <2>8, <2>9, <2>10, <2>11, <2>12 DEF FifoList
<1>6. WakeupsAccounted'
  <2>1. Woken' = Woken BY <1>2 DEF Woken, TypeOK
  <2>2. Signalling = {} BY <1>2 DEF Signalling, LockProtects, TypeOK
  <2>3. p \in Signalling' BY <1>2 DEF Signalling, TypeOK
  <2> QED BY <1>2, <2>1, <2>2, <2>3, WokenFinite
          DEF WakeupsAccounted, Count, TypeOK
<1>7. LagBounded' BY <1>2 DEF LagBounded
<1> QED BY <1>3, <1>4, <1>5, <1>6, <1>7

(* SetEvent turns the producer's intention into a signal, or finds one     *)
(* already there and leaves the entry behind.                              *)
LEMMA AddSignalIInv ==
  ASSUME IInv, NEW p \in Producers, AddSignal(p)
  PROVE  IInv'
<1> USE BufferAssumption DEF IInv
<1>1. /\ pc[p] = "signal" /\ pc' = [pc EXCEPT ![p] = "unlock"]
      /\ evt' = TRUE
      /\ coalesced' = coalesced + Count(evt)
      /\ UNCHANGED <<list, lock, accepted, delivered>>
  BY DEF AddSignal, Goto, Count, TypeOK
<1>2. TypeOK' BY <1>1 DEF TypeOK, ProducerPC, ConsumerPC, list, Count
<1>3. LockProtects' BY <1>1 DEF TypeOK, LockProtects
<1>4. FifoList' BY <1>1, FifoListUnchanged
<1>5. Woken' = Woken BY <1>1 DEF Woken, TypeOK
<1>6. p \in Signalling /\ Signalling' = {}
  BY <1>1 DEF Signalling, LockProtects, TypeOK
<1>7. WakeupsAccounted'
  BY <1>1, <1>5, <1>6, WokenFinite DEF WakeupsAccounted, Count, TypeOK, list
<1>8. LagBounded'
  BY <1>1, <1>6, WokenFinite
     DEF WakeupsAccounted, LagBounded, Count, TypeOK
<1> QED BY <1>2, <1>3, <1>4, <1>7, <1>8
-----------------------------------------------------------------------------
(* A wait that is satisfied hands the signal to one consumer.              *)
LEMMA WaitEvtIInv ==
  ASSUME IInv, NEW c \in Consumers, WaitEvt(c)
  PROVE  IInv'
<1> USE BufferAssumption DEF IInv
<1>1. /\ pc[c] = "idle" /\ pc' = [pc EXCEPT ![c] = "woken"]
      /\ evt /\ evt' = FALSE
      /\ UNCHANGED <<list, lock, accepted, delivered, coalesced>>
  BY DEF WaitEvt, Goto
<1>2. TypeOK' BY <1>1 DEF TypeOK, ProducerPC, ConsumerPC, list
<1>3. LockProtects' BY <1>1 DEF TypeOK, LockProtects
<1>4. FifoList' BY <1>1, FifoListUnchanged
<1>5. WakeupsAccounted'
  <2>1. c \notin Woken /\ Woken' = Woken \cup {c}
    BY <1>1 DEF Woken, TypeOK
  <2>2. Cardinality(Woken') = Cardinality(Woken) + 1
    BY <2>1, WokenFinite, FS_AddElement
  <2>3. Signalling' = Signalling BY <1>1 DEF Signalling, TypeOK
  <2> QED BY <1>1, <2>2, <2>3, WokenFinite
          DEF WakeupsAccounted, Count, TypeOK, list
<1>6. LagBounded' BY <1>1 DEF LagBounded
<1> QED BY <1>2, <1>3, <1>4, <1>5, <1>6

(* Every consumer that was woken has an entry to remove.                   *)
LEMMA WokenImpliesEntry ==
  ASSUME IInv, NEW c \in Woken
  PROVE  size > 0 /\ head # NULL
<1>1. Cardinality(Woken) # 0 BY WokenFinite, FS_EmptySet
<1>2. size > 0
  BY <1>1, WokenFinite DEF IInv, WakeupsAccounted, Count, TypeOK
<1>3. 1 \in 1..size BY <1>2 DEF IInv, TypeOK
<1> QED BY <1>2, <1>3, BufferAssumption DEF IInv, FifoList

(* Removing the head shortens the list by one; the consumer's wake-up is   *)
(* used up with it.                                                        *)
LEMMA RemoveHeadIInv ==
  ASSUME IInv, NEW c \in Consumers, RemoveHead(c)
  PROVE  IInv'
<1> USE BufferAssumption DEF IInv
<1>1. pc[c] = "remove" /\ pc' = [pc EXCEPT ![c] = "unlock"]
      /\ UNCHANGED <<evt, lock, accepted, coalesced>>
  BY DEF RemoveHead, Goto
<1>2. c \in Woken BY <1>1 DEF Woken
<1>3. size > 0 /\ head # NULL BY <1>2, WokenImpliesEntry
<1>4. /\ delivered' = ptr[head]
      /\ IF tail = head THEN head' = NULL /\ tail' = NULL
                        ELSE head' = next[head] /\ UNCHANGED tail
      /\ size' = size - 1
      /\ allocated' = allocated \ {head}
      /\ next' = [next EXCEPT ![head] = Uninit]
      /\ ptr' = [ptr EXCEPT ![head] = 0]
  BY <1>3 DEF RemoveHead
<1>5. PICK s \in [1..size -> Nodes] :
       /\ \A i, j \in 1..size : s[i] = s[j] => i = j
       /\ allocated = {s[i] : i \in 1..size}
       /\ \A i \in 1..size : ptr[s[i]] = delivered + i
       /\ \A i \in 1..size : i # size => next[s[i]] = s[i + 1]
       /\ IF size = 0 THEN head = NULL /\ tail = NULL
                      ELSE head = s[1] /\ tail = s[size]
  BY DEF FifoList
<1>6. size \in Nat /\ size' \in Nat /\ size' = size - 1 /\ size >= 1
  BY <1>3, <1>4 DEF TypeOK
<1>7. 1 \in 1..size /\ size \in 1..size BY <1>3, <1>6
<1>8. head = s[1] /\ tail = s[size] /\ head \in Nodes /\ tail \in Nodes
  BY <1>3, <1>5, <1>7
<1>9. tail = head <=> size = 1 BY <1>5, <1>7, <1>8
<1>10. size # 1 => head' = s[2] /\ s[2] \in Nodes /\ tail' = tail
  BY <1>4, <1>5, <1>6, <1>7, <1>8, <1>9
<1>11. TypeOK'
  <2>1. head' \in Nodes \cup {NULL} /\ tail' \in Nodes \cup {NULL}
    BY <1>4, <1>8, <1>9, <1>10
  <2>2. /\ next' \in [Nodes -> Nodes \cup {Uninit}]
        /\ ptr' \in [Nodes -> Nat]
        /\ allocated' \subseteq Nodes /\ delivered' \in Nat
    BY <1>4, <1>8 DEF TypeOK
  <2>3. size' \in 0..MaxSize BY <1>6 DEF TypeOK
  <2> QED BY <1>1, <2>1, <2>2, <2>3 DEF TypeOK, ProducerPC, ConsumerPC
<1>12. LockProtects' BY <1>1 DEF TypeOK, LockProtects
<1>13. FifoList'
  <2> DEFINE r == [i \in 1..size' |-> s[i + 1]]
  <2>1. \A i \in 1..size' : i \in 1..size /\ i + 1 \in 1..size /\ i + 1 # 1
    BY <1>6
  <2>2. r \in [1..size' -> Nodes] BY <2>1
  <2>3. \A i \in 1..size' : r[i] = s[i + 1] /\ r[i] \in Nodes /\ r[i] # head
    BY <1>5, <1>7, <1>8, <2>1
  <2> HIDE DEF r
  <2>4. \A i, j \in 1..size' : r[i] = r[j] => i = j
    <3> SUFFICES ASSUME NEW i \in 1..size', NEW j \in 1..size', r[i] = r[j]
                 PROVE  i = j
      OBVIOUS
    <3>1. i + 1 = j + 1 BY <1>5, <2>1, <2>3
    <3> QED BY <3>1, <1>6
  <2>5. allocated' = {r[i] : i \in 1..size'}
    <3>1. \A x \in allocated' : \E i \in 1..size' : x = r[i]
      <4> SUFFICES ASSUME NEW x \in allocated' PROVE \E i \in 1..size' : x = r[i]
        OBVIOUS
      <4>1. PICK k \in 1..size : x = s[k] /\ k # 1 BY <1>4, <1>5, <1>8
      <4>2. k - 1 \in 1..size' /\ (k - 1) + 1 = k BY <1>6, <4>1
      <4> QED BY <2>3, <4>1, <4>2
    <3>2. \A i \in 1..size' : r[i] \in allocated' BY <1>4, <1>5, <2>1, <2>3
    <3> QED BY <3>1, <3>2
  <2>6. delivered' = delivered + 1 BY <1>4, <1>5, <1>7, <1>8
  <2>7. \A i \in 1..size' : ptr'[r[i]] = delivered' + i
    <3> SUFFICES ASSUME NEW i \in 1..size' PROVE ptr'[r[i]] = delivered' + i
      OBVIOUS
    <3>1. ptr'[r[i]] = ptr[s[i + 1]] BY <1>4, <2>3 DEF TypeOK
    <3>2. ptr[s[i + 1]] = delivered + (i + 1) BY <1>5, <2>1
    <3> QED BY <1>6, <2>6, <3>1, <3>2 DEF TypeOK
  <2>8. \A i \in 1..size' : i # size' => next'[r[i]] = r[i + 1]
    <3> SUFFICES ASSUME NEW i \in 1..size', i # size'
                 PROVE  next'[r[i]] = r[i + 1]
      OBVIOUS
    <3>1. i + 1 \in 1..size' /\ i + 1 # size BY <1>6
    <3>2. next'[r[i]] = next[s[i + 1]] BY <1>4, <2>3 DEF TypeOK
    <3>3. next[s[i + 1]] = s[(i + 1) + 1] BY <1>5, <2>1, <3>1
    <3> QED BY <2>3, <3>1, <3>2, <3>3
  <2>9. IF size' = 0 THEN head' = NULL /\ tail' = NULL
                     ELSE head' = r[1] /\ tail' = r[size']
    <3>1. CASE size = 1 BY <1>4, <1>6, <1>9, <3>1
    <3>2. CASE size # 1
      <4>1. 1 \in 1..size' /\ size' \in 1..size' /\ size' # 0
        BY <1>6, <3>2, <1>3
      <4>2. r[1] = s[2] /\ r[size'] = s[size]
        <5>1. r[1] = s[1 + 1] BY <2>3, <4>1
        <5>2. r[size'] = s[size' + 1] BY <2>3, <4>1
        <5> QED BY <5>1, <5>2, <1>6
      <4> QED BY <1>8, <1>10, <3>2, <4>1, <4>2
    <3> QED BY <3>1, <3>2
  <2>10. accepted' = delivered' + size'
    BY <1>1, <1>6, <2>6 DEF FifoList, TypeOK
  <2> QED BY <2>2, <2>4, <2>5, <2>7, <2>8, <2>9, <2>10 DEF FifoList
<1>14. WakeupsAccounted'
  <2>1. Woken' = Woken \ {c} BY <1>1 DEF Woken, TypeOK
  <2>2. Cardinality(Woken') = Cardinality(Woken) - 1
    BY <1>2, <2>1, WokenFinite, FS_RemoveElement
  <2>3. Signalling' = Signalling BY <1>1 DEF Signalling, TypeOK
  <2>4. coalesced' = coalesced /\ evt' = evt BY <1>1
  <2>5. /\ Count(evt) \in Nat /\ Count(Signalling # {}) \in Nat
        /\ coalesced \in Nat
    BY DEF Count, TypeOK
  <2>6. size = coalesced + Count(evt) + Cardinality(Woken)
                 + Count(Signalling # {})
    BY DEF WakeupsAccounted
  <2>7. size' = coalesced + Count(evt) + Cardinality(Woken')
                  + Count(Signalling # {})
    BY <1>6, <2>2, <2>5, <2>6, WokenFinite
  <2> QED BY <2>3, <2>4, <2>7 DEF WakeupsAccounted, Count
<1>15. LagBounded' BY <1>1 DEF LagBounded
<1> QED BY <1>11, <1>12, <1>13, <1>14, <1>15
-----------------------------------------------------------------------------
(* Every step keeps the invariant.                                         *)
LEMMA NextIInv == IInv /\ [Next]_vars => IInv'
<1> SUFFICES ASSUME IInv, [Next]_vars PROVE IInv' OBVIOUS
<1>1. CASE UNCHANGED vars
  <2>1. Woken' = Woken /\ Signalling' = Signalling
    BY <1>1 DEF vars, Woken, Signalling
  <2>2. TypeOK' BY <1>1 DEF IInv, vars, list, TypeOK
  <2>3. LockProtects' BY <1>1 DEF IInv, vars, LockProtects
  <2>4. FifoList' BY <1>1, FifoListUnchanged DEF IInv, vars
  <2>5. WakeupsAccounted' /\ LagBounded'
    BY <1>1, <2>1 DEF IInv, vars, list, WakeupsAccounted, LagBounded
  <2> QED BY <2>2, <2>3, <2>4, <2>5 DEF IInv
<1>2. ASSUME NEW p \in Producers, buffer_add_tail(p) PROVE IInv'
  BY <1>2, AcquireIInv, AddRefusedIInv, AddLinkIInv, AddSignalIInv, ReleaseIInv
     DEF buffer_add_tail
<1>3. ASSUME NEW c \in Consumers, buffer_remove_head(c) PROVE IInv'
  <2>1. CASE WaitTimeout(c) BY <1>1, <2>1 DEF WaitTimeout
  <2> QED BY <1>3, <2>1, WaitEvtIInv, AcquireIInv, RemoveHeadIInv, ReleaseIInv
          DEF buffer_remove_head
<1> QED BY <1>1, <1>2, <1>3 DEF Next

(* The invariant holds in every reachable state.                           *)
THEOREM BufferInvariant == Spec => []IInv
<1> QED BY InitIInv, NextIInv, PTL DEF Spec

(* The types of the buffer's state: in particular size stays within the    *)
(* capacity and no unwritten next field becomes head.                      *)
THEOREM BufferTypes == Spec => []TypeOK
BY BufferInvariant, PTL DEF IInv

(* The list is a well-formed FIFO that loses and leaks nothing, whatever   *)
(* the interleaving of buffer_add_tail and buffer_remove_head.             *)
THEOREM BufferIsFifo == Spec => [](LockProtects /\ FifoList)
BY BufferInvariant, PTL DEF IInv

(* Queued entries and wake-ups on their way stay accounted for.            *)
THEOREM BufferWakeups == Spec => []WakeupsAccounted
BY BufferInvariant, PTL DEF IInv

(* buffer_remove_head returns NULL only after a timeout: a consumer that   *)
(* was woken finds an entry.                                               *)
THEOREM BufferNoEmptyWakeup == Spec => []WokenFindsEntry
<1>1. IInv => WokenFindsEntry
  <2> SUFFICES ASSUME IInv, NEW c \in Consumers, pc[c] = "remove"
               PROVE  head # NULL
    BY DEF WokenFindsEntry
  <2>1. c \in Woken BY DEF Woken
  <2> QED BY <2>1, WokenImpliesEntry
<1> QED BY <1>1, BufferInvariant, PTL

(* A full buffer always has a wake-up on its way, although calls that find *)
(* it full do not signal: the entries left behind are never all of them.   *)
THEOREM BufferFullHasWakeup == Spec => []FullHasWakeup
<1>1. IInv => FullHasWakeup
  <2> SUFFICES ASSUME IInv, size = MaxSize, ~evt, Woken = {}, Signalling = {}
               PROVE  FALSE
    BY DEF FullHasWakeup
  <2>1. Cardinality(Woken) = 0 BY FS_EmptySet
  <2>2. size = coalesced
    BY <2>1 DEF IInv, WakeupsAccounted, Count, TypeOK
  <2> QED BY <2>2, BufferAssumption DEF IInv, LagBounded, TypeOK
<1> QED BY <1>1, BufferInvariant, PTL

(* The linked list, its lock and its event implement a bounded FIFO: every *)
(* step puts a value where there is room, takes the oldest one, or changes *)
(* nothing a caller can see.                                               *)
THEOREM BufferRefinesFifo == Spec => ImplementsFifo
<1>1. Init => Fifo!Init BY DEF Init, Fifo!Init
<1>2. IInv /\ [Next]_vars => [Fifo!Next]_(Fifo!vars)
  <2> SUFFICES ASSUME IInv, [Next]_vars PROVE [Fifo!Next]_(Fifo!vars)
    OBVIOUS
  <2> USE DEF Fifo!Next, Fifo!vars
  <2>1. CASE UNCHANGED vars BY <2>1 DEF vars
  <2>2. ASSUME NEW p \in Producers, AddLink(p) PROVE Fifo!Put
    BY <2>2, BufferAssumption
       DEF AddLink, HasRoom, IInv, TypeOK, FifoList, Fifo!Put
  <2>3. ASSUME NEW c \in Consumers, RemoveHead(c) PROVE Fifo!Take
    <3>1. c \in Woken /\ accepted' = accepted
      BY <2>3 DEF Woken, RemoveHead, Goto
    <3>2. size > 0 /\ head # NULL BY <3>1, WokenImpliesEntry
    <3>3. delivered' = ptr[head] BY <2>3, <3>2 DEF RemoveHead
    <3>4. 1 \in 1..size /\ size # 0 BY <3>2 DEF IInv, TypeOK
    <3>5. ptr[head] = delivered + 1 BY <3>4 DEF IInv, FifoList
    <3>6. delivered < accepted BY <3>2 DEF IInv, FifoList, TypeOK
    <3> QED BY <3>1, <3>3, <3>5, <3>6 DEF Fifo!Take
  <2>4. ASSUME NEW p \in Producers, buffer_add_tail(p), ~AddLink(p)
        PROVE  UNCHANGED Fifo!vars
    BY <2>4 DEF buffer_add_tail, AddAcquire, Acquire, AddFull, AddNoMemory,
                AddSignal, Release
  <2>5. ASSUME NEW c \in Consumers, buffer_remove_head(c), ~RemoveHead(c)
        PROVE  UNCHANGED Fifo!vars
    BY <2>5 DEF buffer_remove_head, WaitEvt, WaitTimeout, RemoveAcquire,
                Acquire, Release, vars
  <2> QED BY <2>1, <2>2, <2>3, <2>4, <2>5 DEF Next
<1> QED BY <1>1, <1>2, BufferInvariant, PTL DEF Spec, ImplementsFifo, Fifo!Spec
=============================================================================
