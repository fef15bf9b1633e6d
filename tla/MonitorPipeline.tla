-------------------------- MODULE MonitorPipeline --------------------------
(***************************************************************************)
(* Inside the Monitor (Monitor/main.cpp): the main thread copies each      *)
(* event out of shared memory and queues a pointer to the copy, and        *)
(* handle_thread takes the pointer, logs the event to the database and     *)
(* frees what it points at.  There is one copy, buf, for all events: it is *)
(* malloc'ed once, before the loop, so every pointer in the event buffer   *)
(* is the same.                                                            *)
(*                                                                         *)
(* The event buffer is BoundedFifo, which module LinkedBuffer implements.  *)
(* Events are numbered in the order of their arrival.  Reading or writing  *)
(* memory that was freed is undefined: undef records that it happened, the *)
(* content becomes arbitrary and the process may end.  A process that ends *)
(* is started again; the rows it logged stay.                              *)
(***************************************************************************)
EXTENDS Integers, Sequences

CONSTANTS
  MaxSize,        \* buffer_init(max_size); 65536 in the Monitor
  MaxEvents,      \* bound: events that arrive in a behaviour
  Garbage         \* content that is no single event

(* What an event makes of its handler: an offer, an offer whose packet has *)
(* no host name option or an empty one, an address deletion with and       *)
(* without the control code DHCP_PROB_RELEASE, a client deletion, and      *)
(* anything else (the FakeClient's "Hello world").                         *)
Kinds == {"offer", "nohost", "release", "keep", "delete", "other"}
Types == {"OFFER", "ADDRESS_DELETE", "CLIENT_DELETE", "NONE"}

ASSUME PipelineAssumption ==
  MaxSize \in Nat \ {0} /\ MaxEvents \in Nat /\ Garbage \notin Nat

(* The first DWORD of the arguments, as the hooks fill it in.              *)
HookType(k) == CASE k \in {"offer", "nohost"} -> "OFFER"
                 [] k \in {"release", "keep"} -> "ADDRESS_DELETE"
                 [] k = "delete" -> "CLIENT_DELETE"
                 [] OTHER -> "NONE"

VARIABLES
  kind,                  \* history: kind[n] is the kind of event n
  buf,                   \* what buf points at: an event, or Garbage
  freed,                 \* buf has been freed
  undef,                 \* history: this process used freed memory
  accepted, delivered,   \* the event buffer (BoundedFifo)
  entry,                 \* history: entry[i] is the event entry i was for
  evt,                   \* the event buffer's auto-reset event
  mpc, hpc,              \* positions of the main and the handler thread
  type,                  \* HookType as handle_thread read it
  seen,                  \* the event whose fields the handler read
  rows                   \* rows inserted into the database

queue == <<accepted, delivered, entry, evt>>
vars == <<kind, buf, freed, undef, queue, mpc, hpc, type, seen, rows>>

Queue == INSTANCE BoundedFifo WITH Capacity <- MaxSize

MainPC == {"down", "wait", "copying", "add"}
HandlerPC == {"wait", "remove", "switch", "fields", "more", "act", "free"}

(* A new process: malloc(2048), buffer_init and CreateThread.              *)
Init ==
  /\ buf = Garbage /\ freed = FALSE /\ undef = FALSE
  /\ Queue!Init /\ entry = <<>> /\ evt = FALSE
  /\ mpc = "wait" /\ hpc = "wait"
  /\ type = "NONE" /\ seen = Garbage
  /\ kind = <<>> /\ rows = {}

MGoto(from, to) == mpc = from /\ mpc' = to
HGoto(from, to) == mpc # "down" /\ hpc = from /\ hpc' = to

(* An access to buf.                                                       *)
Use == undef' = (undef \/ freed)
-----------------------------------------------------------------------------
(* Main thread: memcpy(buf, shm.data, 2048) takes two steps, then          *)
(* buffer_add_tail, whose refusal is not noticed.                          *)
CopyOnce ==                           \* mutant: copies only the first event
  /\ Len(kind) < MaxEvents
  /\ MGoto("wait", IF buf = Garbage THEN "copying" ELSE "add")
  /\ \E k \in Kinds : kind' = Append(kind, k)
  /\ Use
  /\ UNCHANGED <<buf, freed, queue, hpc, type, seen, rows>>

CopyStart ==
  /\ Len(kind) < MaxEvents
  /\ MGoto("wait", "copying")
  /\ \E k \in Kinds : kind' = Append(kind, k)
  /\ buf' = Garbage
  /\ Use
  /\ UNCHANGED <<freed, queue, hpc, type, seen, rows>>

CopyPointerSize ==                    \* mutant: sizeof(buf) for 2048
  /\ MGoto("copying", "add")
  /\ Use
  /\ UNCHANGED <<kind, buf, freed, queue, hpc, type, seen, rows>>

CopyEnd ==
  /\ MGoto("copying", "add")
  /\ buf' = Len(kind)
  /\ Use
  /\ UNCHANGED <<kind, freed, queue, hpc, type, seen, rows>>

Add ==
  /\ MGoto("add", "wait")
  /\ Queue!Put
  /\ entry' = Append(entry, Len(kind))
  /\ evt' = TRUE
  /\ UNCHANGED <<kind, buf, freed, undef, hpc, type, seen, rows>>

AddRefused ==                         \* full, or no memory for the entry
  /\ MGoto("add", "wait")
  /\ UNCHANGED <<kind, buf, freed, undef, queue, hpc, type, seen, rows>>
-----------------------------------------------------------------------------
(* handle_thread: buffer_remove_head(buffer, 5000), which returns NULL     *)
(* only for a timeout (LinkedBuffer!WokenFindsEntry).                      *)
WakeManual ==                         \* mutant: a manual-reset event
  /\ evt
  /\ HGoto("wait", "remove")
  /\ UNCHANGED <<kind, buf, freed, undef, queue, mpc, type, seen, rows>>

Wake ==
  /\ evt /\ evt' = FALSE
  /\ HGoto("wait", "remove")
  /\ UNCHANGED <<kind, buf, freed, undef, accepted, delivered, entry, mpc,
                 type, seen, rows>>

Timeout == ~evt /\ HGoto("wait", "wait") /\ UNCHANGED vars

Remove ==
  /\ HGoto("remove", "switch")
  /\ Queue!Take
  /\ UNCHANGED <<kind, buf, freed, undef, entry, evt, mpc, type, seen, rows>>

(* The switch on HookType: an unknown type goes straight to free.          *)
Switch ==
  /\ \E to \in {"fields", "free"} :
       /\ HGoto("switch", to)
       /\ type' \in IF buf = Garbage THEN Types ELSE {HookType(kind[buf])}
       /\ to = "free" <=> type' = "NONE"
  /\ Use
  /\ UNCHANGED <<kind, buf, freed, queue, mpc, seen, rows>>

(* The handler of that type reads the rest, at several times: fields of    *)
(* the event in buf then, meaningless if that one has another layout, and  *)
(* mixed up if they are of different events.                               *)
Fields ==
  /\ HGoto("fields", "more")
  /\ seen' = IF buf # Garbage /\ HookType(kind[buf]) = type THEN buf
                                                            ELSE Garbage
  /\ Use
  /\ UNCHANGED <<kind, buf, freed, queue, mpc, type, rows>>

MoreFields ==
  /\ HGoto("more", "act")
  /\ seen' = IF buf = seen THEN seen ELSE Garbage
  /\ Use
  /\ UNCHANGED <<kind, buf, freed, queue, mpc, type, rows>>

Sees(k) == seen # Garbage => kind[seen] = k

(* INSERT INTO offer_log or lease_log.  The row remembers the event its    *)
(* entry was queued for, the newest event then begun, and undef.           *)
Insert ==
  /\ HGoto("act", "free")
  /\ \/ type = "OFFER" /\ Sees("offer")
     \/ type = "ADDRESS_DELETE" /\ Sees("release")
     \/ type = "CLIENT_DELETE"
  /\ rows' = rows \cup {[event |-> seen, queued |-> entry[delivered],
                         newest |-> Len(kind), undef |-> undef]}
  /\ UNCHANGED <<kind, buf, freed, undef, queue, mpc, type, seen>>

(* mysql_query fails, which is only printed; or handle_lease returns       *)
(* because the control code is not DHCP_PROB_RELEASE.                      *)
NoRow ==
  /\ HGoto("act", "free")
  /\ type = "OFFER" => Sees("offer")
  /\ UNCHANGED <<kind, buf, freed, undef, queue, mpc, type, seen, rows>>

(* handle_offer uses the result of dhcp_find_option for the host name      *)
(* without a test: NULL is dereferenced.  Of an empty name the byte before *)
(* it, its length 0, is taken for a trailing zero, and the length becomes  *)
(* the largest size_t.  In both cases the process ends.                    *)
HostNameFault ==
  /\ mpc # "down" /\ hpc = "act"
  /\ type = "OFFER" /\ Sees("nohost")
  /\ mpc' = "down"
  /\ UNCHANGED <<kind, buf, freed, undef, queue, hpc, type, seen, rows>>

Free ==
  /\ HGoto("free", "wait")
  /\ freed' = TRUE
  /\ Use
  /\ UNCHANGED <<kind, buf, queue, mpc, type, seen, rows>>
-----------------------------------------------------------------------------
(* Freed memory is reused by the heap; a process that used it may end; a   *)
(* new one is started.                                                     *)
Scribble ==
  /\ mpc # "down" /\ freed /\ buf # Garbage
  /\ buf' = Garbage
  /\ UNCHANGED <<kind, freed, undef, queue, mpc, hpc, type, seen, rows>>

Die ==
  /\ mpc # "down" /\ undef
  /\ mpc' = "down"
  /\ UNCHANGED <<kind, buf, freed, undef, queue, hpc, type, seen, rows>>

Start ==
  /\ MGoto("down", "wait") /\ hpc' = "wait"
  /\ buf' = Garbage /\ freed' = FALSE /\ undef' = FALSE
  /\ accepted' = 0 /\ delivered' = 0 /\ entry' = <<>> /\ evt' = FALSE
  /\ type' = "NONE" /\ seen' = Garbage
  /\ UNCHANGED <<kind, rows>>
-----------------------------------------------------------------------------
main_thread == CopyStart \/ CopyEnd \/ Add \/ AddRefused

handle_thread == \/ Wake \/ Timeout \/ Remove \/ Switch
                 \/ Fields \/ MoreFields \/ Insert \/ NoRow \/ HostNameFault \/ Free

Next == main_thread \/ handle_thread \/ Scribble \/ Die \/ Start

Spec == Init /\ [][Next]_vars
-----------------------------------------------------------------------------
(* Type invariant.  A woken handler has an entry to take.                  *)
TypeOK ==
  /\ kind \in Seq(Kinds)
  /\ buf \in 1..Len(kind) \cup {Garbage} /\ seen \in 1..Len(kind) \cup {Garbage}
  /\ freed \in BOOLEAN /\ undef \in BOOLEAN /\ evt \in BOOLEAN
  /\ delivered \in Nat /\ accepted \in delivered..(delivered + MaxSize)
  /\ entry \in Seq(1..Len(kind)) /\ Len(entry) = accepted
  /\ mpc \in MainPC /\ hpc \in HandlerPC
  /\ type \in Types
  /\ hpc = "remove" \/ evt => delivered < accepted

(* An event is logged as it was received if no newer one has begun to      *)
(* arrive when its row is written, and the process is still sound.         *)
FaithfulUnlessOvertaken ==
  \A r \in rows : ~r.undef /\ r.newest = r.queued => r.event = r.queued

(* Overwriting the one buffer loses old events and never brings one back:  *)
(* what is logged for an entry is mixed up, or the event it was queued for *)
(* or a later one.                                                         *)
NeverOlder ==
  \A r \in rows : ~r.undef => r.event = Garbage \/ r.event >= r.queued

(* Events are copied to, and handled from, memory that the Monitor owns.   *)
BufferOwned == ~undef
=============================================================================
