---------------------------- MODULE LinkedBuffer ----------------------------
(***************************************************************************)
(* Monitor/linked_buffer.cpp: the queue between the Monitor's main thread  *)
(* and its handler thread.  A singly linked list of malloc'ed entries, a   *)
(* slim reader/writer lock held exclusively by both operations, and an     *)
(* auto-reset event that buffer_add_tail sets and buffer_remove_head waits *)
(* for before it takes the lock.                                           *)
(*                                                                         *)
(* The wait is outside the lock and the event holds one bit, so a wake-up  *)
(* and the entry it stands for travel separately: the properties below are *)
(* about how the two stay related.                                         *)
(***************************************************************************)
EXTENDS Integers, FiniteSets

CONSTANTS
  Producers,    \* threads that call buffer_add_tail
  Consumers,    \* threads that call buffer_remove_head
  Nodes,        \* addresses malloc can return for a LINKED_BUFFER_ENTRY
  MaxSize,      \* buffer_init(max_size); 65536 in the Monitor
  MaxAdds,      \* bound: successful calls of buffer_add_tail in a behaviour
  NULL,         \* the null pointer
  Uninit        \* the content of a pointer field malloc left unwritten

Threads == Producers \cup Consumers

ASSUME BufferAssumption ==
  /\ IsFiniteSet(Consumers)
  /\ Producers \cap Consumers = {}
  /\ NULL \notin Threads \cup Nodes
  /\ Uninit \notin Nodes \cup {NULL}
  /\ MaxSize \in Nat \ {0}
  /\ MaxAdds \in Nat

VARIABLES
  head, tail,   \* PLINKED_BUFFER_ENTRY head, tail
  next,         \* next[n]: the next field of the entry at address n
  ptr,          \* ptr[n]: the value stored in the entry at address n
  allocated,    \* addresses that are malloc'ed and not yet freed
  size,         \* size_t size
  evt,          \* the auto-reset event: signalled or not
  lock,         \* the exclusive owner of the SRWLOCK, NULL when free
  pc,           \* where each thread is inside its operation
  accepted,     \* history: number of the last value accepted
  delivered,    \* history: number of the last value handed out
  coalesced     \* history: SetEvent calls that found the event signalled

list == <<head, tail, next, ptr, allocated, size>>
vars == <<list, evt, lock, pc, accepted, delivered, coalesced>>

ProducerPC == {"idle", "add", "signal", "unlock"}
ConsumerPC == {"idle", "woken", "remove", "unlock"}

(* buffer_init                                                             *)
Init ==
  /\ head = NULL /\ tail = NULL
  /\ next = [n \in Nodes |-> Uninit]
  /\ ptr = [n \in Nodes |-> 0]
  /\ allocated = {}
  /\ size = 0
  /\ evt = FALSE
  /\ lock = NULL
  /\ pc = [t \in Threads |-> "idle"]
  /\ accepted = 0 /\ delivered = 0 /\ coalesced = 0

Goto(t, from, to) == pc[t] = from /\ pc' = [pc EXCEPT ![t] = to]
-----------------------------------------------------------------------------
(* AcquireSRWLockExclusive and, in the __finally block,                    *)
(* ReleaseSRWLockExclusive.                                                *)
Acquire(t, from, to) ==
  /\ lock = NULL
  /\ lock' = t
  /\ Goto(t, from, to)
  /\ UNCHANGED <<list, evt, accepted, delivered, coalesced>>

Release(t) ==
  /\ Goto(t, "unlock", "idle")
  /\ lock' = NULL
  /\ UNCHANGED <<list, evt, accepted, delivered, coalesced>>

(* buffer_add_tail.                                                        *)
AddAcquire(p) == Acquire(p, "idle", "add")

HasRoomOffByOne == size <= MaxSize    \* mutant

HasRoom == size < MaxSize

(* The two returns of FALSE: the buffer is full, or malloc returned NULL.  *)
(* Neither reaches SetEvent.                                               *)
AddFull(p) ==
  /\ ~HasRoom
  /\ Goto(p, "add", "unlock")
  /\ UNCHANGED <<list, evt, lock, accepted, delivered, coalesced>>

AddNoMemory(p) ==
  /\ HasRoom
  /\ Goto(p, "add", "unlock")
  /\ UNCHANGED <<list, evt, lock, accepted, delivered, coalesced>>

(* The entry is linked behind the tail; its next field stays unwritten.    *)
LinkKeepsTail(n) ==                   \* mutant: tail is not moved
  IF tail # NULL
    THEN next' = [next EXCEPT ![tail] = n] /\ UNCHANGED <<head, tail>>
    ELSE UNCHANGED next /\ head' = n /\ tail' = n

LinkAtHead(n) ==                      \* mutant: a stack instead of a queue
  /\ head' = n
  /\ tail' = IF tail # NULL THEN tail ELSE n
  /\ next' = IF tail # NULL THEN [next EXCEPT ![n] = head] ELSE next

LinkAtTail(n) ==
  /\ tail' = n
  /\ IF tail # NULL
       THEN next' = [next EXCEPT ![tail] = n] /\ UNCHANGED head
       ELSE UNCHANGED next /\ head' = n

AddLink(p) ==
  /\ HasRoom
  /\ accepted < MaxAdds
  /\ Goto(p, "add", "signal")
  /\ \E n \in Nodes \ allocated :
       /\ allocated' = allocated \cup {n}
       /\ ptr' = [ptr EXCEPT ![n] = accepted + 1]
       /\ LinkAtTail(n)
  /\ size' = size + 1
  /\ accepted' = accepted + 1
  /\ UNCHANGED <<evt, lock, delivered, coalesced>>

AddSignalIfFirst(p) ==                \* mutant: wake only for the first entry
  /\ Goto(p, "signal", "unlock")
  /\ evt' = (evt \/ size = 1)
  /\ UNCHANGED <<list, lock, accepted, delivered, coalesced>>

AddSignal(p) ==
  /\ Goto(p, "signal", "unlock")
  /\ evt' = TRUE
  /\ coalesced' = IF evt THEN coalesced + 1 ELSE coalesced
  /\ UNCHANGED <<list, lock, accepted, delivered>>

(* buffer_remove_head.  The wait that is satisfied resets the event; the   *)
(* wait that times out returns NULL and changes nothing.                   *)
WaitEvtManual(c) ==                   \* mutant: a manual-reset event
  /\ evt
  /\ Goto(c, "idle", "woken")
  /\ UNCHANGED <<list, evt, lock, accepted, delivered, coalesced>>

WaitEvt(c) ==
  /\ evt
  /\ evt' = FALSE
  /\ Goto(c, "idle", "woken")
  /\ UNCHANGED <<list, lock, accepted, delivered, coalesced>>

WaitTimeout(c) ==
  /\ ~evt
  /\ pc[c] = "idle"
  /\ UNCHANGED vars

RemoveTryAcquire(c) ==                \* mutant: gives up if the lock is taken
  IF lock = NULL
    THEN Acquire(c, "woken", "remove")
    ELSE /\ Goto(c, "woken", "idle")
         /\ UNCHANGED <<list, evt, lock, accepted, delivered, coalesced>>

RemoveAcquire(c) == Acquire(c, "woken", "remove")

(* free(entry) makes the address available again, its fields meaningless.  *)
RemoveHead(c) ==
  /\ Goto(c, "remove", "unlock")
  /\ IF head = NULL
       THEN UNCHANGED <<list, delivered>>
       ELSE /\ delivered' = ptr[head]
            /\ IF tail = head
                 THEN head' = NULL /\ tail' = NULL
                 ELSE head' = next[head] /\ UNCHANGED tail
            /\ size' = size - 1
            /\ allocated' = allocated \ {head}
            /\ next' = [next EXCEPT ![head] = Uninit]
            /\ ptr' = [ptr EXCEPT ![head] = 0]
  /\ UNCHANGED <<evt, lock, accepted, coalesced>>
-----------------------------------------------------------------------------
buffer_add_tail(p) == \/ AddAcquire(p) \/ AddFull(p) \/ AddNoMemory(p)
                      \/ AddLink(p) \/ AddSignal(p) \/ Release(p)

buffer_remove_head(c) == \/ WaitEvt(c) \/ WaitTimeout(c) \/ RemoveAcquire(c)
                         \/ RemoveHead(c) \/ Release(c)

Next == \/ \E p \in Producers : buffer_add_tail(p)
        \/ \E c \in Consumers : buffer_remove_head(c)

Spec == Init /\ [][Next]_vars

(* A thread inside an operation keeps running; a consumer that asks for    *)
(* the lock again and again finds it free (the Monitor's producer spends   *)
(* its time waiting for a message, not holding this lock).  A producer     *)
(* need not call.                                                          *)
Fairness ==
  /\ \A p \in Producers : WF_vars(\/ AddFull(p) \/ AddNoMemory(p) \/ AddLink(p)
                                  \/ AddSignal(p) \/ Release(p))
  /\ \A c \in Consumers : /\ WF_vars(WaitEvt(c) \/ RemoveHead(c) \/ Release(c))
                          /\ SF_vars(RemoveAcquire(c))

FairSpec == Spec /\ Fairness
-----------------------------------------------------------------------------
(* Entries that a wake-up is on its way for: consumers that were woken and *)
(* have not yet removed, producers that have linked and not yet signalled. *)
Woken == {c \in Consumers : pc[c] \in {"woken", "remove"}}
Signalling == {p \in Producers : pc[p] = "signal"}

Count(b) == IF b THEN 1 ELSE 0

(* Type invariant.  An unwritten next field never becomes head or tail.    *)
TypeOK ==
  /\ head \in Nodes \cup {NULL} /\ tail \in Nodes \cup {NULL}
  /\ next \in [Nodes -> Nodes \cup {Uninit}]
  /\ ptr \in [Nodes -> Nat]
  /\ allocated \subseteq Nodes
  /\ size \in 0..MaxSize
  /\ evt \in BOOLEAN
  /\ lock \in Threads \cup {NULL}
  /\ pc \in [Threads -> ProducerPC \cup ConsumerPC]
  /\ \A p \in Producers : pc[p] \in ProducerPC
  /\ \A c \in Consumers : pc[c] \in ConsumerPC
  /\ accepted \in Nat /\ delivered \in Nat /\ coalesced \in Nat

(* The two operations exclude each other: a thread is in the part of       *)
(* buffer_add_tail or buffer_remove_head that touches the list exactly     *)
(* while it owns the lock.                                                 *)
LockProtects ==
  \A t \in Threads : pc[t] \in {"add", "signal", "remove", "unlock"} <=> lock = t

(* The list is well formed and FIFO: following next from head visits size  *)
(* distinct entries, ends at tail, visits every allocated entry (nothing   *)
(* leaks, nothing freed is still linked), never follows an unwritten next, *)
(* and finds the accepted values in order with none missing.               *)
FifoList ==
  /\ accepted = delivered + size
  /\ \E s \in [1..size -> Nodes] :
       /\ \A i, j \in 1..size : s[i] = s[j] => i = j
       /\ allocated = {s[i] : i \in 1..size}
       /\ \A i \in 1..size : ptr[s[i]] = delivered + i
       /\ \A i \in 1..size : i # size => next[s[i]] = s[i + 1]
       /\ IF size = 0 THEN head = NULL /\ tail = NULL
                      ELSE head = s[1] /\ tail = s[size]

(* Every queued entry is covered by one wake-up on its way, except one     *)
(* entry for each SetEvent that found the event still signalled: those     *)
(* stay behind until later calls of buffer_add_tail wake a consumer.       *)
WakeupsAccounted ==
  size = coalesced + Count(evt) + Cardinality(Woken) + Count(Signalling # {})

(* A consumer that was woken finds an entry when it gets the lock, even if *)
(* other consumers ran in between: buffer_remove_head returns NULL only    *)
(* for a timeout, which is what handle_thread takes NULL for.              *)
WokenFindsEntry == \A c \in Consumers : pc[c] = "remove" => head # NULL

(* A full buffer always has a wake-up on its way.  Calls that find it full *)
(* do not signal, so without this a full buffer would refuse every event   *)
(* for ever while its consumer sleeps.                                     *)
FullHasWakeup ==
  size = MaxSize => evt \/ Woken # {} \/ Signalling # {}

(* The list implements the FIFO of BoundedFifo.                            *)
Fifo == INSTANCE BoundedFifo WITH Capacity <- MaxSize
ImplementsFifo == Fifo!Spec

(* A full buffer is eventually drained of an entry.                        *)
FullDrains == size = MaxSize ~> size < MaxSize

(* A signalled event is eventually turned into the delivery of an entry.   *)
SignalDelivers ==
  \A k \in 0..MaxAdds : (evt /\ delivered = k) ~> (delivered > k)
=============================================================================
