------------------------ MODULE MonitorPipelineProofs ------------------------
(***************************************************************************)
(* The Monitor's two threads and their one buffer, for any number of       *)
(* events and any size of the event buffer.                                *)
(*                                                                         *)
(* The invariant has layers: types, with the signals that are backed by    *)
(* entries; that the one buffer holds the newest event or garbage; and     *)
(* what the handler has read of it and logged.                             *)
(***************************************************************************)
EXTENDS MonitorPipeline, SequenceTheorems, TLAPS

Busy == {"switch", "fields", "more", "act", "free"}

(* Each signal has an entry of its own.                                    *)
Backed ==
  /\ evt /\ hpc = "remove" => delivered + 1 < accepted
  /\ hpc \in Busy => delivered > 0
  /\ mpc \in {"copying", "add"} => Len(kind) > 0

TypeInv == TypeOK /\ Backed

(* Facts about the sequences that several steps use.                       *)
LEMMA Lengths ==
  ASSUME TypeInv
  PROVE  /\ Len(kind) \in Nat /\ Len(entry) \in Nat
         /\ accepted \in Nat /\ delivered \in Nat /\ delivered <= accepted
         /\ accepted <= delivered + MaxSize
         /\ \A i \in 1..accepted : entry[i] \in 1..Len(kind)
<1>1. /\ kind \in Seq(Kinds) /\ entry \in Seq(1..Len(kind)) /\ Len(entry) = accepted
      /\ delivered \in Nat /\ accepted \in delivered..(delivered + MaxSize)
  BY DEF TypeInv, TypeOK
<1>2. MaxSize \in Nat BY PipelineAssumption
<1>3. Len(kind) \in Nat /\ Len(entry) \in Nat BY <1>1
<1> QED BY <1>1, <1>2, <1>3, ElementOfSeq

LEMMA InitTypes == Init => TypeInv
<1> SUFFICES ASSUME Init PROVE TypeInv OBVIOUS
<1>1. kind = <<>> /\ entry = <<>> /\ Len(kind) = 0 /\ Len(entry) = 0
      /\ kind \in Seq(Kinds) /\ entry \in Seq(1..Len(kind))
  BY DEF Init
<1>2. accepted = 0 /\ delivered = 0 BY DEF Init, Queue!Init
<1>3. accepted \in delivered..(delivered + MaxSize)
  BY <1>2, PipelineAssumption
<1> QED BY <1>1, <1>2, <1>3
    DEF Init, TypeInv, TypeOK, Backed, MainPC, HandlerPC, Types, Busy

(* An event arrives: the entries still name events.                        *)
LEMMA CopyStartTypes ==
  ASSUME TypeInv, CopyStart
  PROVE  TypeInv'
<1>1. PICK k \in Kinds : kind' = Append(kind, k) BY DEF CopyStart
<1>2. kind \in Seq(Kinds) /\ entry \in Seq(1..Len(kind)) BY DEF TypeInv, TypeOK
<1>3. kind' \in Seq(Kinds) /\ Len(kind') = Len(kind) + 1 BY <1>1, <1>2
<1>4. 1..Len(kind) \subseteq 1..Len(kind') BY <1>3, Lengths
<1>5. entry \in Seq(1..Len(kind')) BY <1>2, <1>4, SeqMonotonic
<1>6. seen \in 1..Len(kind') \cup {Garbage} BY <1>4 DEF TypeInv, TypeOK
<1>7. Len(kind') > 0 BY <1>3, Lengths
<1>8. undef' \in BOOLEAN BY DEF CopyStart, Use, TypeInv, TypeOK
<1>9. /\ mpc' = "copying" /\ buf' = Garbage
      /\ UNCHANGED <<freed, accepted, delivered, entry, evt, hpc, type, seen>>
  BY DEF CopyStart, MGoto, queue
<1>10. TypeOK'
  BY <1>3, <1>5, <1>6, <1>8, <1>9 DEF TypeInv, TypeOK, MainPC
<1>11. Backed' BY <1>7, <1>9 DEF TypeInv, Backed
<1> QED BY <1>10, <1>11 DEF TypeInv

LEMMA AddTypes ==
  ASSUME TypeInv, Add
  PROVE  TypeInv'
<1>1. /\ mpc = "add" /\ mpc' = "wait" /\ evt' = TRUE
      /\ entry' = Append(entry, Len(kind))
      /\ UNCHANGED <<kind, buf, freed, undef, hpc, type, seen>>
      /\ accepted - delivered < MaxSize
      /\ accepted' = accepted + 1 /\ delivered' = delivered
  BY DEF Add, MGoto, Queue!Put
<1>2. Len(kind) \in 1..Len(kind) BY <1>1, Lengths DEF TypeInv, Backed
<1>3. entry' \in Seq(1..Len(kind)) /\ Len(entry') = Len(entry) + 1
  BY <1>1, <1>2 DEF TypeInv, TypeOK
<1>4. Len(entry') = accepted' BY <1>1, <1>3 DEF TypeInv, TypeOK
<1>5. accepted' \in delivered'..(delivered' + MaxSize)
  BY <1>1, Lengths, PipelineAssumption
<1>6. delivered < accepted' BY <1>1, Lengths
<1>7. hpc = "remove" => delivered + 1 < accepted'
  <2>1. hpc = "remove" => delivered < accepted BY DEF TypeInv, TypeOK
  <2> QED BY <1>1, <2>1, Lengths
<1>8. TypeOK' BY <1>1, <1>3, <1>4, <1>5, <1>6 DEF TypeInv, TypeOK, MainPC
<1>9. Backed' BY <1>1, <1>7 DEF TypeInv, Backed
<1> QED BY <1>8, <1>9 DEF TypeInv

LEMMA RemoveTypes ==
  ASSUME TypeInv, Remove
  PROVE  TypeInv'
<1>1. /\ hpc = "remove" /\ hpc' = "switch"
      /\ UNCHANGED <<kind, buf, freed, undef, entry, evt, mpc, type, seen>>
      /\ delivered < accepted /\ delivered' = delivered + 1 /\ accepted' = accepted
  BY DEF Remove, HGoto, Queue!Take
<1>2. delivered' \in Nat /\ delivered' > 0 BY <1>1, Lengths
<1>3. accepted' \in delivered'..(delivered' + MaxSize)
  BY <1>1, Lengths, PipelineAssumption
<1>4. evt' => delivered' < accepted' BY <1>1 DEF TypeInv, Backed
<1>5. TypeOK' BY <1>1, <1>2, <1>3, <1>4 DEF TypeInv, TypeOK, HandlerPC
<1>6. Backed' BY <1>1, <1>2 DEF TypeInv, Backed
<1> QED BY <1>5, <1>6 DEF TypeInv

LEMMA StartTypes ==
  ASSUME TypeInv, Start
  PROVE  TypeInv'
<1>1. /\ mpc' = "wait" /\ hpc' = "wait" /\ buf' = Garbage /\ freed' = FALSE
      /\ undef' = FALSE /\ accepted' = 0 /\ delivered' = 0 /\ entry' = <<>>
      /\ evt' = FALSE /\ type' = "NONE" /\ seen' = Garbage /\ kind' = kind
  BY DEF Start, MGoto
<1>2. entry' \in Seq(1..Len(kind')) /\ Len(entry') = accepted' BY <1>1
<1>3. accepted' \in delivered'..(delivered' + MaxSize) BY <1>1, PipelineAssumption
<1>4. TypeOK'
  BY <1>1, <1>2, <1>3 DEF TypeInv, TypeOK, MainPC, HandlerPC, Types
<1>5. Backed' BY <1>1 DEF Backed, Busy
<1> QED BY <1>4, <1>5 DEF TypeInv

(* Steps that do not touch the event buffer's counts.                      *)
LEMMA HandlerTypes ==
  ASSUME TypeInv, Switch \/ Fields \/ MoreFields \/ Insert \/ NoRow \/ HostNameFault \/ Free
  PROVE  TypeInv'
<1>0. UNCHANGED <<kind, accepted, delivered, entry, evt>>
      /\ (mpc' = mpc \/ mpc' = "down")
      /\ hpc \in Busy /\ hpc' \in {"fields", "more", "act", "free", "wait"}
  BY DEF Switch, Fields, MoreFields, Insert, NoRow, HostNameFault, Free, HGoto, queue, Busy
<1>1. freed' \in BOOLEAN /\ undef' \in BOOLEAN
  BY DEF Switch, Fields, MoreFields, Insert, NoRow, HostNameFault, Free, Use, TypeInv, TypeOK
<1>2. buf' = buf
  BY DEF Switch, Fields, MoreFields, Insert, NoRow, HostNameFault, Free
<1>3. seen' \in 1..Len(kind) \cup {Garbage}
  BY DEF Switch, Fields, MoreFields, Insert, NoRow, HostNameFault, Free, TypeInv, TypeOK
<1>4. type' \in Types
  <2>1. \A k \in Kinds : HookType(k) \in Types BY DEF HookType, Types, Kinds
  <2>2. buf # Garbage => kind[buf] \in Kinds
    BY ElementOfSeq DEF TypeInv, TypeOK
  <2>3. CASE Switch BY <2>1, <2>2, <2>3 DEF Switch
  <2>4. CASE ~Switch
    BY <2>4 DEF Fields, MoreFields, Insert, NoRow, HostNameFault, Free, TypeInv, TypeOK
  <2> QED BY <2>3, <2>4
<1>5. TypeOK'
  BY <1>0, <1>1, <1>2, <1>3, <1>4 DEF TypeInv, TypeOK, MainPC, HandlerPC
<1>6. Backed' BY <1>0 DEF TypeInv, Backed, Busy
<1> QED BY <1>5, <1>6 DEF TypeInv

(* Every step keeps the types.                                             *)
LEMMA StepTypes == TypeInv /\ [Next]_vars => TypeInv'
<1> SUFFICES ASSUME TypeInv, [Next]_vars PROVE TypeInv' OBVIOUS
<1>1. CASE CopyEnd
  <2>1. /\ mpc = "copying" /\ mpc' = "add" /\ buf' = Len(kind)
        /\ UNCHANGED <<kind, freed, accepted, delivered, entry, evt, hpc, type, seen>>
    BY <1>1 DEF CopyEnd, MGoto, queue
  <2>2. Len(kind) \in 1..Len(kind) BY <2>1, Lengths DEF TypeInv, Backed
  <2>3. undef' \in BOOLEAN BY <1>1 DEF CopyEnd, Use, TypeInv, TypeOK
  <2> QED BY <2>1, <2>2, <2>3 DEF TypeInv, TypeOK, Backed, MainPC
<1>2. CASE AddRefused \/ Scribble \/ Die
  <2>1. /\ UNCHANGED <<kind, freed, undef, accepted, delivered, entry, evt, hpc,
                       type, seen>>
        /\ mpc' \in {"wait", "down", mpc} /\ buf' \in {buf, Garbage}
    BY <1>2 DEF AddRefused, Scribble, Die, MGoto, queue
  <2> QED BY <2>1 DEF TypeInv, TypeOK, Backed, MainPC
<1>3. CASE Wake
  <2>1. /\ evt /\ evt' = FALSE /\ hpc = "wait" /\ hpc' = "remove"
        /\ UNCHANGED <<kind, buf, freed, undef, accepted, delivered, entry, mpc,
                       type, seen>>
    BY <1>3 DEF Wake, HGoto
  <2> QED BY <2>1 DEF TypeInv, TypeOK, Backed, HandlerPC, Busy
<1>4. CASE Timeout \/ UNCHANGED vars
  BY <1>4 DEF Timeout, vars, queue, TypeInv, TypeOK, Backed
<1> QED BY <1>1, <1>2, <1>3, <1>4, CopyStartTypes, AddTypes, RemoveTypes,
           HandlerTypes, StartTypes DEF Next, main_thread, handle_thread

-----------------------------------------------------------------------------
(* The buffer holds the newest event or garbage; the newest event as soon  *)
(* as it is copied, until the buffer is freed.                             *)
CopyInv ==
  /\ buf \in {Len(kind), Garbage}
  /\ mpc \in {"copying", "add"} => \A i \in 1..accepted : entry[i] < Len(kind)
  /\ ~freed /\ (mpc = "add" \/ (mpc = "wait" /\ accepted > 0)) => buf = Len(kind)

LEMMA InitCopy == Init => CopyInv
BY DEF Init, Queue!Init, CopyInv

LEMMA StepCopy == TypeInv /\ CopyInv /\ [Next]_vars => CopyInv'
<1> SUFFICES ASSUME TypeInv, CopyInv, [Next]_vars PROVE CopyInv' OBVIOUS
<1>1. CASE CopyStart
  <2>1. /\ mpc' = "copying" /\ buf' = Garbage /\ UNCHANGED <<accepted, entry>>
    BY <1>1 DEF CopyStart, MGoto, queue
  <2>2. PICK k \in Kinds : kind' = Append(kind, k) BY <1>1 DEF CopyStart
  <2>3. Len(kind') = Len(kind) + 1 BY <2>2 DEF TypeInv, TypeOK
  <2>4. \A i \in 1..accepted : entry[i] < Len(kind')
    BY <2>3, Lengths
  <2> QED BY <2>1, <2>4 DEF CopyInv
<1>2. CASE CopyEnd
  <2>1. /\ mpc = "copying" /\ mpc' = "add" /\ buf' = Len(kind)
        /\ UNCHANGED <<kind, accepted, entry>>
    BY <1>2 DEF CopyEnd, MGoto, queue
  <2> QED BY <2>1 DEF CopyInv
<1>3. CASE Add
  <2>1. mpc = "add" /\ mpc' = "wait" /\ UNCHANGED <<kind, buf, freed>>
    BY <1>3 DEF Add, MGoto
  <2> QED BY <2>1 DEF CopyInv
<1>4. CASE AddRefused
  <2>1. mpc = "add" /\ mpc' = "wait" /\ UNCHANGED <<kind, buf, freed>>
    BY <1>4 DEF AddRefused, MGoto
  <2> QED BY <2>1 DEF CopyInv
<1>5. CASE handle_thread \/ Die \/ UNCHANGED vars
  <2>1. /\ UNCHANGED <<kind, buf, accepted, entry>>
        /\ (mpc' = mpc \/ mpc' = "down") /\ (freed' = freed \/ freed' = TRUE)
    BY <1>5 DEF handle_thread, Wake, Timeout, Remove, Switch, Fields, MoreFields, Insert,
                NoRow, HostNameFault, Free, Die, vars, queue, Queue!Take
  <2> QED BY <2>1 DEF CopyInv
<1>6. CASE Scribble
  <2>1. /\ freed /\ buf' = Garbage /\ UNCHANGED <<kind, freed, accepted, entry, mpc>>
    BY <1>6 DEF Scribble, queue
  <2> QED BY <2>1 DEF CopyInv
<1>7. CASE Start
  <2>1. /\ mpc' = "wait" /\ buf' = Garbage /\ accepted' = 0
    BY <1>7 DEF Start, MGoto
  <2> QED BY <2>1 DEF CopyInv
<1> QED BY <1>1, <1>2, <1>3, <1>4, <1>5, <1>6, <1>7 DEF Next, main_thread

-----------------------------------------------------------------------------
(* What the handler has read: nothing older than the event its entry was   *)
(* queued for, and exactly that while it is the newest one.                *)
Newest == entry[delivered] = Len(kind)

SeenInv ==
  /\ hpc = "fields" /\ ~undef /\ Newest => type = HookType(kind[Len(kind)])
  /\ hpc \in {"more", "act"} => seen = Garbage \/ seen >= entry[delivered]
  /\ hpc \in {"more", "act"} /\ ~undef /\ Newest => seen = Len(kind)

LEMMA InitSeen == Init => SeenInv
BY DEF Init, SeenInv

(* The entry being handled, and what the buffer holds when it is the       *)
(* newest and nothing was freed.                                           *)
LEMMA HandledEntry ==
  ASSUME TypeInv, CopyInv, hpc \in Busy
  PROVE  /\ delivered \in 1..accepted /\ entry[delivered] \in 1..Len(kind)
         /\ Newest /\ ~freed /\ mpc # "down" => buf = Len(kind)
<1>1. delivered \in 1..accepted BY Lengths DEF TypeInv, Backed
<1>2. entry[delivered] \in 1..Len(kind) BY <1>1, Lengths
<1>3. accepted > 0 BY <1>1, Lengths
<1>4. ASSUME Newest, ~freed, mpc # "down" PROVE buf = Len(kind)
  <2>1. mpc # "copying"
    <3> SUFFICES ASSUME mpc = "copying" PROVE FALSE OBVIOUS
    <3>1. entry[delivered] < Len(kind) BY <1>1 DEF CopyInv
    <3> QED BY <1>2, <1>4, <3>1, Lengths DEF Newest
  <2> QED BY <1>3, <1>4, <2>1 DEF CopyInv, TypeInv, TypeOK, MainPC
<1> QED BY <1>1, <1>2, <1>4

LEMMA StepSeen == TypeInv /\ CopyInv /\ SeenInv /\ [Next]_vars => SeenInv'
<1> SUFFICES ASSUME TypeInv, CopyInv, SeenInv, [Next]_vars PROVE SeenInv'
  OBVIOUS
<1>1. CASE CopyStart
  <2>1. UNCHANGED <<hpc, delivered, entry, seen>> BY <1>1 DEF CopyStart, queue
  <2>2. PICK k \in Kinds : kind' = Append(kind, k) BY <1>1 DEF CopyStart
  <2>3. Len(kind') = Len(kind) + 1 BY <2>2 DEF TypeInv, TypeOK
  <2>4. hpc \in Busy => ~Newest'
    <3> SUFFICES ASSUME hpc \in Busy PROVE ~Newest' OBVIOUS
    <3>1. entry[delivered] \in 1..Len(kind) BY HandledEntry
    <3> QED BY <2>1, <2>3, <3>1, Lengths DEF Newest
  <2> QED BY <2>1, <2>4 DEF SeenInv, Busy
<1>2. CASE Add
  <2>1. /\ UNCHANGED <<kind, hpc, delivered, undef, type, seen>>
        /\ entry' = Append(entry, Len(kind))
    BY <1>2 DEF Add, Queue!Put
  <2>2. hpc \in Busy => entry'[delivered] = entry[delivered]
    <3> SUFFICES ASSUME hpc \in Busy PROVE entry'[delivered] = entry[delivered]
      OBVIOUS
    <3>1. delivered \in 1..Len(entry) BY HandledEntry DEF TypeInv, TypeOK
    <3> QED BY <2>1, <3>1 DEF TypeInv, TypeOK
  <2> QED BY <2>1, <2>2 DEF SeenInv, Busy, Newest
<1>3. CASE CopyEnd
  <2>1. UNCHANGED <<kind, hpc, delivered, entry, type, seen>> /\ (undef => undef')
    BY <1>3 DEF CopyEnd, Use, queue
  <2> QED BY <2>1 DEF SeenInv, Newest
<1>4. CASE AddRefused \/ Timeout \/ Scribble \/ Die \/ HostNameFault \/ UNCHANGED vars
  <2>1. UNCHANGED <<kind, hpc, delivered, entry, type, seen, undef>>
    BY <1>4 DEF AddRefused, Timeout, Scribble, Die, HostNameFault, queue, vars
  <2> QED BY <2>1 DEF SeenInv, Newest
<1>5. CASE Wake \/ Remove \/ Insert \/ NoRow \/ Free \/ Start
  <2>1. hpc' \notin {"fields", "more", "act"}
    BY <1>5 DEF Wake, Remove, Insert, NoRow, Free, Start, HGoto
  <2> QED BY <2>1 DEF SeenInv
<1>6. CASE Switch
  <2>1. /\ mpc # "down" /\ hpc = "switch" /\ hpc' \in {"fields", "free"}
        /\ UNCHANGED <<kind, delivered, entry>> /\ undef' = (undef \/ freed)
        /\ type' \in IF buf = Garbage THEN Types ELSE {HookType(kind[buf])}
    BY <1>6 DEF Switch, HGoto, Use, queue
  <2>2. ~undef' /\ Newest => buf = Len(kind) BY <2>1, HandledEntry DEF Busy
  <2>3. Len(kind) # Garbage BY Lengths, PipelineAssumption
  <2> QED BY <2>1, <2>2, <2>3 DEF SeenInv, Newest
<1>7. CASE Fields
  <2>1. /\ mpc # "down" /\ hpc = "fields" /\ hpc' = "more"
        /\ UNCHANGED <<kind, delivered, entry, type>> /\ undef' = (undef \/ freed)
        /\ seen' = IF buf # Garbage /\ HookType(kind[buf]) = type THEN buf
                                                                  ELSE Garbage
    BY <1>7 DEF Fields, HGoto, Use, queue
  <2>2. ~undef' /\ Newest => buf = Len(kind) BY <2>1, HandledEntry DEF Busy
  <2>3. Len(kind) # Garbage BY Lengths, PipelineAssumption
  <2>4. seen' = Garbage \/ seen' >= entry'[delivered']
    <3>1. entry[delivered] \in 1..Len(kind) BY <2>1, HandledEntry DEF Busy
    <3>2. seen' \in {Len(kind), Garbage} BY <2>1 DEF CopyInv
    <3> QED BY <2>1, <3>1, <3>2, Lengths
  <2>5. ~undef' /\ Newest => seen' = Len(kind)
    BY <2>1, <2>2, <2>3 DEF SeenInv
  <2> QED BY <2>1, <2>4, <2>5 DEF SeenInv, Newest
<1>8. CASE MoreFields
  <2>1. /\ mpc # "down" /\ hpc = "more" /\ hpc' = "act"
        /\ UNCHANGED <<kind, delivered, entry, type>> /\ undef' = (undef \/ freed)
        /\ seen' = IF buf = seen THEN seen ELSE Garbage
    BY <1>8 DEF MoreFields, HGoto, Use, queue
  <2>2. ~undef' /\ Newest => buf = Len(kind) BY <2>1, HandledEntry DEF Busy
  <2>3. ~undef' /\ Newest => seen' = Len(kind) BY <2>1, <2>2 DEF SeenInv
  <2>4. seen' = Garbage \/ seen' >= entry'[delivered'] BY <2>1 DEF SeenInv
  <2> QED BY <2>1, <2>3, <2>4 DEF SeenInv, Newest
<1> QED BY <1>1, <1>2, <1>3, <1>4, <1>5, <1>6, <1>7, <1>8
        DEF Next, main_thread, handle_thread

-----------------------------------------------------------------------------
(* What was logged.                                                        *)
RowsInv == FaithfulUnlessOvertaken /\ NeverOlder

LEMMA StepRows == TypeInv /\ SeenInv /\ RowsInv /\ [Next]_vars => RowsInv'
<1> SUFFICES ASSUME TypeInv, SeenInv, RowsInv, [Next]_vars PROVE RowsInv'
  OBVIOUS
<1>1. CASE Insert
  <2> DEFINE row == [event |-> seen, queued |-> entry[delivered],
                     newest |-> Len(kind), undef |-> undef]
  <2>1. hpc = "act" /\ rows' = rows \cup {row} BY <1>1 DEF Insert, HGoto
  <2>2. /\ row.event = seen /\ row.queued = entry[delivered]
        /\ row.newest = Len(kind) /\ row.undef = undef
    OBVIOUS
  <2>3. row.event = Garbage \/ row.event >= row.queued
    BY <2>1, <2>2 DEF SeenInv
  <2>4. ~row.undef /\ row.newest = row.queued => row.event = row.queued
    BY <2>1, <2>2 DEF SeenInv, Newest
  <2> HIDE DEF row
  <2> QED BY <2>1, <2>3, <2>4 DEF RowsInv, FaithfulUnlessOvertaken, NeverOlder
<1>2. CASE ~Insert
  <2>1. rows' = rows
    BY <1>2 DEF Next, main_thread, handle_thread, CopyStart, CopyEnd, Add,
                AddRefused, Wake, Timeout, Remove, Switch, Fields, MoreFields, NoRow,
                HostNameFault, Free, Scribble, Die, Start, vars
  <2> QED BY <2>1 DEF RowsInv, FaithfulUnlessOvertaken, NeverOlder
<1> QED BY <1>1, <1>2
-----------------------------------------------------------------------------
IInv == TypeInv /\ CopyInv /\ SeenInv /\ RowsInv

LEMMA Inductive == Spec => []IInv
<1>1. Init => IInv
  <2>1. Init => RowsInv
    BY DEF Init, RowsInv, FaithfulUnlessOvertaken, NeverOlder
  <2> QED BY <2>1, InitTypes, InitCopy, InitSeen DEF IInv
<1>2. IInv /\ [Next]_vars => IInv'
  BY StepTypes, StepCopy, StepSeen, StepRows DEF IInv
<1> QED BY <1>1, <1>2, PTL DEF Spec

(* The Monitor's threads stay in their types; in particular a woken        *)
(* handle_thread finds an entry.                                           *)
THEOREM PipelineTypes == Spec => []TypeOK
<1>1. IInv => TypeOK BY DEF IInv, TypeInv
<1> QED BY <1>1, Inductive, PTL

(* A row written before a newer event arrives, by a process that has not   *)
(* used freed memory, is the event handle_thread was woken for.            *)
THEOREM PipelineFaithful == Spec => []FaithfulUnlessOvertaken
<1>1. IInv => FaithfulUnlessOvertaken BY DEF IInv, RowsInv
<1> QED BY <1>1, Inductive, PTL

(* However often the main thread overwrites buf, handle_thread never logs  *)
(* an event older than the one it took from the event buffer.              *)
THEOREM PipelineNeverOlder == Spec => []NeverOlder
<1>1. IInv => NeverOlder BY DEF IInv, RowsInv
<1> QED BY <1>1, Inductive, PTL
==============================================================================
