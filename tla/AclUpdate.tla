------------------------------ MODULE AclUpdate ------------------------------
(***************************************************************************)
(* The access list between its two processes: acl_update_thread of the     *)
(* Monitor polls the table access_list and replaces the list in shared     *)
(* memory, the DHCP server's threads search it in acl_filter.  Either      *)
(* process may end and start again at any time, and the DHCP service may   *)
(* be started again within its process.                                    *)
(*                                                                         *)
(* The table is a set of versions, numbered as they are written; ts[v] is  *)
(* the second in which v was.  Replacing or deleting a row removes its     *)
(* version.  The list holds the versions that were loaded; what it decides *)
(* for a client is the matter of AclFilter, which also deals with tables   *)
(* larger than the list.                                                   *)
(***************************************************************************)
EXTENDS Integers, Sequences, FiniteSets

CONSTANTS
  Readers,        \* threads of the DHCP server in acl_filter
  Torn,           \* entries that memcpy is in the middle of writing
  MaxVersions,    \* bound: versions written in a behaviour
  MaxClock,       \* bound: seconds
  MaxFailures,    \* bound: queries that fail on a live connection
  MaxStops,       \* bound: calls of acl_update_stop in a process, 0 or 1
  MaxCrashes      \* bound: ends of either process, failures of acl_init and
                  \* starts within the process

ASSUME UpdateAssumption ==
  /\ IsFiniteSet(Readers)
  /\ MaxVersions \in Nat /\ MaxClock \in Nat
  /\ MaxFailures \in Nat /\ MaxCrashes \in Nat /\ MaxStops \in Nat
  /\ \A S \in SUBSET (1..MaxVersions) : Torn # S

VARIABLES
  db, ts, clock,      \* the table and its clock
  lost,               \* the updater's connection to it is lost
  last,               \* last_update
  upc, counter, buff, \* acl_update_thread
  exit,               \* acl_update_event_exit, which is set once
  length, entry,      \* the shared list
  lock,               \* the SRWLOCK in it
  acl,                \* DHCP server: "none" if it does not run, "list", or
                      \* NULL: "handle" if it has the mapping open, "null"
  rpc, view,          \* its threads, what they have read
  failed, asof,       \* history: last load failed; versions at the last load
  abandoned,          \* history: who ended without releasing the lock
  reset,              \* history: the lock was initialised while being held
  failures, crashes   \* history: counted

table == <<db, ts, clock, lost>>
updater == <<last, upc, counter, buff, exit>>
list == <<length, entry, lock>>
server == <<acl, rpc, view>>
history == <<failed, asof, abandoned, reset, failures, crashes>>
vars == <<table, updater, list, server, history>>

Versions == 1..Len(ts)
UpdaterPC == {"down", "connect", "wait", "load", "lock", "length", "copy",
              "copying", "unlock", "ended"}
Writing == {"length", "copy", "copying", "unlock"}
Connected == {"wait", "load", "lock"} \cup Writing
ReaderPC == {"idle", "null", "lock", "length", "search", "unlock"}
Reading == {"length", "search", "unlock"}
Searching == {r \in Readers : rpc[r] \in Reading}
Mapped == acl \in {"list", "handle"}

(* The SRW lock, used from two processes as a word in shared memory.       *)
Word == [writer : BOOLEAN, readers : Nat]
Free == [writer |-> FALSE, readers |-> 0]
Anything == [writer : BOOLEAN, readers : 0..Cardinality(Readers)]

(* Releasing a lock that is not held that way leaves it in any state.      *)
ReleasedExclusive(w) == IF w.writer THEN {Free} ELSE Anything
ReleasedShared(w) ==
  IF ~w.writer /\ w.readers > 0 THEN {[w EXCEPT !.readers = w.readers - 1]}
                                ELSE Anything

Nothing == [length |-> 0, entry |-> {}]

Init ==
  /\ db = {} /\ ts = <<>> /\ clock = 1 /\ lost = FALSE
  /\ last = 0 /\ upc = "down" /\ counter = 0 /\ buff = {} /\ exit = "none"
  /\ length = 0 /\ entry = {} /\ lock = Free
  /\ acl = "none" /\ rpc = [r \in Readers |-> "idle"]
  /\ view = [r \in Readers |-> Nothing]
  /\ failed = FALSE /\ asof = 0 /\ abandoned = {} /\ reset = FALSE
  /\ failures = 0 /\ crashes = 0

UGoto(from, to) == upc = from /\ upc' = to
RGoto(r, from, to) == rpc[r] = from /\ rpc' = [rpc EXCEPT ![r] = to]
-----------------------------------------------------------------------------
(* The database: a row is written, over an old one or not; a row is        *)
(* deleted; time passes.                                                   *)
WriteRow ==
  /\ Len(ts) < MaxVersions
  /\ ts' = Append(ts, clock)
  /\ \E old \in {{}} \cup {{v} : v \in db} :
       db' = (db \ old) \cup {Len(ts) + 1}
  /\ UNCHANGED <<clock, lost, updater, list, server, history>>

DeleteRow ==
  /\ \E v \in db : db' = db \ {v}
  /\ UNCHANGED <<ts, clock, lost, updater, list, server, history>>

Tick ==
  /\ clock < MaxClock
  /\ clock' = clock + 1
  /\ UNCHANGED <<db, ts, lost, updater, list, server, history>>

(* Nothing connects the thread again: all its queries fail from now on.    *)
LoseConnection ==
  /\ upc \in Connected /\ ~lost /\ lost' = TRUE
  /\ UNCHANGED <<db, ts, clock, updater, list, server, history>>

Database == WriteRow \/ DeleteRow \/ Tick \/ LoseConnection
-----------------------------------------------------------------------------
(* acl_update_thread.  Its start: acl_connect finds the mapping while the  *)
(* server has it; otherwise, or without a database, the thread returns.    *)
Connect ==
  /\ Mapped
  /\ UGoto("connect", "wait")
  /\ lost' = FALSE
  /\ UNCHANGED <<db, ts, clock, last, counter, buff, exit, list, server,
                 history>>

ConnectFails ==
  /\ ~Mapped \/ failures < MaxFailures
  /\ failures' = IF Mapped THEN failures + 1 ELSE failures
  /\ UGoto("connect", "ended")
  /\ UNCHANGED <<table, last, counter, buff, exit, list, server, failed, asof,
                 abandoned, reset, crashes>>

(* WAIT_OBJECT_0 leaves the switch and stays in the loop.                  *)
WaitExit ==
  /\ UGoto("wait", "wait")
  /\ exit = "set" /\ exit' = "used"
  /\ UNCHANGED <<table, last, counter, buff, list, server, history>>

(* WAIT_TIMEOUT; only every third one polls.                               *)
WaitTimeoutNever(polls) ==            \* mutant: counter++%3==3
  /\ exit # "set"
  /\ (counter = 3) <=> polls
  /\ counter' = (counter + 1) % 3

WaitTimeout(polls) ==
  /\ exit # "set"
  /\ (counter = 0) <=> polls
  /\ counter' = (counter + 1) % 3

WaitOnly ==
  /\ UGoto("wait", "wait")
  /\ WaitTimeout(FALSE)
  /\ UNCHANGED <<table, last, buff, exit, list, server, history>>

(* acl_check_last_update: SELECT MAX(ts+0) ... where (ts+0)>last_update    *)
Newer == {v \in db : ts[v] > last}

CheckNothing ==
  /\ UGoto("wait", "wait")
  /\ WaitTimeout(TRUE)
  /\ \/ (Newer = {} \/ lost) /\ UNCHANGED failures
     \/ failures < MaxFailures /\ failures' = failures + 1
  /\ UNCHANGED <<table, last, buff, exit, list, server, failed, asof,
                 abandoned, reset, crashes>>

CheckFound ==
  /\ UGoto("wait", "load")
  /\ WaitTimeout(TRUE) /\ ~lost
  /\ \E v \in Newer : /\ \A w \in Newer : ts[w] <= ts[v]
                      /\ last' = ts[v]
  /\ failed' = FALSE
  /\ UNCHANGED <<table, buff, exit, list, server, asof, abandoned, reset,
                 failures, crashes>>

(* acl_do_update: the rows are fetched, parsed and sorted in buff.         *)
LoadNewest ==                         \* mutant: only the rows just noticed
  /\ UGoto("load", "lock") /\ ~lost
  /\ buff' = {v \in db : ts[v] >= last}
  /\ asof' = Len(ts)
  /\ UNCHANGED <<table, last, counter, exit, list, server, failed,
                 abandoned, reset, failures, crashes>>

Load ==
  /\ UGoto("load", "lock") /\ ~lost
  /\ buff' = db
  /\ asof' = Len(ts)
  /\ UNCHANGED <<table, last, counter, exit, list, server, failed,
                 abandoned, reset, failures, crashes>>

LoadFails ==
  /\ lost \/ failures < MaxFailures
  /\ UGoto("load", "wait")
  /\ failed' = TRUE /\ failures' = IF lost THEN failures ELSE failures + 1
  /\ UNCHANGED <<table, last, counter, buff, exit, list, server, asof,
                 abandoned, reset, crashes>>

WriteLock ==
  /\ lock = Free
  /\ UGoto("lock", "length")
  /\ lock' = [lock EXCEPT !.writer = TRUE]
  /\ UNCHANGED <<table, last, counter, buff, exit, length, entry, server,
                 history>>

SetLengthForgotten ==                 \* mutant: length is not written
  /\ UGoto("length", "copy")
  /\ UNCHANGED <<table, last, counter, buff, exit, list, server, history>>

SetLengthLast ==                      \* mutant: index of the last entry
  /\ UGoto("length", "copy")
  /\ length' = Cardinality(buff) - 1
  /\ UNCHANGED <<table, last, counter, buff, exit, entry, lock, server,
                 history>>

SetLength ==
  /\ UGoto("length", "copy")
  /\ length' = Cardinality(buff)
  /\ UNCHANGED <<table, last, counter, buff, exit, entry, lock, server,
                 history>>

CopyStart ==
  /\ UGoto("copy", "copying")
  /\ entry' = Torn
  /\ UNCHANGED <<table, last, counter, buff, exit, length, lock, server,
                 history>>

CopyEnd ==
  /\ UGoto("copying", "unlock")
  /\ entry' = buff
  /\ UNCHANGED <<table, last, counter, buff, exit, length, lock, server,
                 history>>

WriteUnlockForgotten ==               \* mutant: no acl_write_unlock
  /\ UGoto("unlock", "wait")
  /\ buff' = {}
  /\ UNCHANGED <<table, last, counter, exit, list, server, history>>

WriteUnlock ==
  /\ UGoto("unlock", "wait")
  /\ lock' \in ReleasedExclusive(lock)
  /\ buff' = {}
  /\ UNCHANGED <<table, last, counter, exit, length, entry, server, history>>

acl_update_stop ==
  /\ upc # "down" /\ MaxStops > 0
  /\ exit = "none" /\ exit' = "set"
  /\ UNCHANGED <<table, last, upc, counter, buff, list, server, history>>

UpdateStep == \/ Connect \/ ConnectFails \/ WaitExit \/ WaitOnly
              \/ CheckNothing \/ CheckFound \/ Load \/ LoadFails
              \/ SetLength \/ CopyStart \/ CopyEnd \/ WriteUnlock

acl_update_thread == UpdateStep \/ WriteLock
-----------------------------------------------------------------------------
(* acl_filter, from DhcpNewPktHook, which does not ask whether acl is NULL *)
Call(r) ==
  /\ acl # "none"
  /\ RGoto(r, "idle", IF acl = "list" THEN "lock" ELSE "null")
  /\ UNCHANGED <<table, updater, list, acl, view, history>>

(* The lock of no list: an exception before __try, from which the call     *)
(* comes back if the server survives it.                                   *)
ReadFaults(r) ==
  /\ RGoto(r, "null", "idle")
  /\ UNCHANGED <<table, updater, list, acl, view, history>>

ReadUnlocked(r) ==                    \* mutant: no AcquireSRWLockShared
  /\ RGoto(r, "lock", "length")
  /\ UNCHANGED <<table, updater, list, acl, view, history>>

ReadLock(r) ==
  /\ ~lock.writer
  /\ RGoto(r, "lock", "length")
  /\ lock' = [lock EXCEPT !.readers = lock.readers + 1]
  /\ UNCHANGED <<table, updater, length, entry, acl, view, history>>

ReadLength(r) ==
  /\ RGoto(r, "length", "search")
  /\ view' = [view EXCEPT ![r].length = length]
  /\ UNCHANGED <<table, updater, list, acl, history>>

Search(r) ==
  /\ RGoto(r, "search", "unlock")
  /\ view' = [view EXCEPT ![r].entry = entry]
  /\ UNCHANGED <<table, updater, list, acl, history>>

ReadUnlock(r) ==
  /\ RGoto(r, "unlock", "idle")
  /\ lock' \in ReleasedShared(lock)
  /\ view' = [view EXCEPT ![r] = Nothing]
  /\ UNCHANGED <<table, updater, length, entry, acl, history>>

ReadStep(r) == ReadFaults(r) \/ ReadLength(r) \/ Search(r) \/ ReadUnlock(r)

acl_filter(r) == ReadLock(r) \/ ReadStep(r)
-----------------------------------------------------------------------------
(* The mapping lives as long as a process has it open; a new one is zero.  *)
(* A process that ends inside the lock leaves it taken.                    *)
Unmap(open, left) ==
  IF open THEN UNCHANGED list /\ abandoned' = abandoned \cup left
          ELSE length' = 0 /\ entry' = {} /\ lock' = Free /\ abandoned' = {}

(* DHCP_CONTROL_START, of a new process or again of a running one.         *)
Start == acl # "none" => crashes < MaxCrashes
Restarts == crashes' = IF acl = "none" THEN crashes ELSE crashes + 1

(* acl_init opens or creates the mapping and initialises the lock in it.   *)
acl_init ==
  /\ Start /\ Restarts
  /\ acl' = "list"
  /\ lock' = Free
  /\ reset' = (reset \/ lock.writer \/ Searching # {})
  /\ abandoned' = {}
  /\ UNCHANGED <<table, updater, length, entry, rpc, view, failed, asof,
                 failures>>

(* It returns NULL, with no mapping or with one it has no view of; a       *)
(* mapping from before stays open.                                         *)
acl_init_fails ==
  /\ crashes < MaxCrashes /\ crashes' = crashes + 1
  /\ acl' \in IF Mapped THEN {"handle"} ELSE {"handle", "null"}
  /\ UNCHANGED <<table, updater, list, rpc, view, failed, asof, abandoned,
                 reset, failures>>

ServerEnds ==
  /\ acl # "none" /\ acl' = "none"
  /\ crashes < MaxCrashes /\ crashes' = crashes + 1
  /\ Unmap(upc \in Connected, IF Searching # {} THEN {"reader"} ELSE {})
  /\ rpc' = [r \in Readers |-> "idle"]
  /\ view' = [r \in Readers |-> Nothing]
  /\ UNCHANGED <<table, updater, failed, asof, reset, failures>>

(* CreateEvent, CreateThread                                               *)
acl_update_start ==
  /\ UGoto("down", "connect")
  /\ last' = 0 /\ counter' = 0 /\ buff' = {} /\ exit' = "none"
  /\ UNCHANGED <<table, list, server, history>>

MonitorEnds ==
  /\ upc # "down" /\ upc' = "down"
  /\ crashes < MaxCrashes /\ crashes' = crashes + 1
  /\ Unmap(Mapped, IF upc \in Writing THEN {"updater"} ELSE {})
  /\ last' = 0 /\ counter' = 0 /\ buff' = {} /\ exit' = "none"
  /\ failed' = FALSE
  /\ UNCHANGED <<table, server, asof, reset, failures>>

Processes == \/ acl_init \/ acl_init_fails \/ ServerEnds
             \/ acl_update_start \/ MonitorEnds
-----------------------------------------------------------------------------
Next == \/ Database \/ acl_update_thread \/ acl_update_stop \/ Processes
        \/ \E r \in Readers : Call(r) \/ acl_filter(r)

Spec == Init /\ [][Next]_vars

(* Threads run.  Nothing grants the lock to one that waits for it, makes a *)
(* process start, a packet arrive or a row change.                         *)
Fairness == WF_vars(UpdateStep) /\ \A r \in Readers : WF_vars(ReadStep(r))

FairSpec == Spec /\ Fairness
-----------------------------------------------------------------------------
(* Type invariant.                                                         *)
TypeOK ==
  /\ ts \in Seq(Nat) /\ Len(ts) <= MaxVersions /\ db \subseteq Versions
  /\ clock \in Nat \ {0} /\ lost \in BOOLEAN
  /\ last \in 0..clock /\ upc \in UpdaterPC /\ counter \in 0..2
  /\ buff \subseteq Versions /\ exit \in {"none", "set", "used"}
  /\ length \in Nat /\ (entry = Torn \/ entry \subseteq Versions)
  /\ lock \in Word
  /\ acl \in {"none", "null", "handle", "list"} /\ rpc \in [Readers -> ReaderPC]
  /\ view \in [Readers -> [length : Nat, entry : {Torn} \cup SUBSET Versions]]
  /\ failed \in BOOLEAN /\ asof \in 0..Len(ts)
  /\ abandoned \subseteq {"updater", "reader"} /\ reset \in BOOLEAN
  /\ failures \in Nat /\ crashes \in Nat

(* A list that reader r can search: as many entries as its length says,    *)
(* none half written.                                                      *)
Whole(v) == v.entry # Torn /\ v.length = Cardinality(v.entry)

(* Through ends and starts of both processes acl_filter searches a list    *)
(* that some load left complete, unless acl_init has initialised the lock  *)
(* while an updater, alive or dead, or a thread that searched held it.     *)
SearchesWholeList ==
  ~reset => \A r \in Readers : rpc[r] = "unlock" => Whole(view[r])

(* Whoever waits for the lock waits for a thread inside it, or for one     *)
(* whose process ended inside it, with the same exception: neither the     *)
(* writer nor a reader is counted in the lock after it has left, whatever  *)
(* ends, fails or starts in between.                                       *)
LockAccounted ==
  ~reset =>
    /\ lock.writer <=> upc \in Writing \/ "updater" \in abandoned
    /\ lock.readers # Cardinality(Searching) => "reader" \in abandoned

(* While the updater writes nobody is searching, with the same exception.  *)
WriterAlone ==
  ~reset /\ upc \in Writing => \A r \in Readers : rpc[r] \notin Reading

(* The list as acl_filter sees it: replaced when acl_write_lock returns,   *)
(* not to be read while a dead updater holds the lock, and read by a call  *)
(* that has searched it.                                                   *)
ListOf(rows) == [length |-> Cardinality(rows), entry |-> rows]

Content ==
  IF upc \in Writing THEN {ListOf(buff)}
  ELSE IF lock.writer THEN {} ELSE {[length |-> length, entry |-> entry]}

ReadBy == [r \in Readers |-> IF rpc[r] = "unlock" THEN {view[r]} ELSE {}]

Shared == INSTANCE SharedList WITH
  rows <- db, snapshot <- buff, content <- Content, seen <- ReadBy,
  trusted <- ~reset, List <- ListOf

(* The two threads, their lock and the ends of their processes implement   *)
(* the list of SharedList: acl_do_update puts what one query found in its  *)
(* place as a whole, acl_filter reads the whole of it, and it stays in     *)
(* place until acl_filter has returned.                                    *)
ImplementsSharedList == Shared!Spec

(* What the polling can miss.  While the updater waits and its last load   *)
(* did not fail, every row of the table that is not in the list is newer   *)
(* than last_update, and the next check that succeeds notices it; or it    *)
(* was written after that load, in the very second last_update stands for, *)
(* and no check will.                                                      *)
MissedExplained ==
  upc = "wait" /\ ~failed =>
    \A v \in IF entry = Torn THEN db ELSE db \ entry :
      ts[v] > last \/ (ts[v] = last /\ v > asof)

(* A row newer than last_update reaches the list, unless it is changed or  *)
(* deleted first, the load it is noticed for fails, the connection to the  *)
(* database is lost, the updater's process or thread ends, or it waits in  *)
(* acl_write_lock for ever.                                                *)
ChangeArrives ==
  \A v \in 1..MaxVersions :
    (upc = "wait" /\ v \in db /\ ts[v] > last)
      ~> \/ entry # Torn /\ v \in entry
         \/ v \notin db \/ (failed /\ ts[v] <= last) \/ lost
         \/ upc \in {"down", "ended"}
         \/ [](upc = "lock")

(* acl_update_stop stops the thread, unless it waits for the lock for ever *)
StopStops == exit = "set" ~> upc \in {"down", "ended"} \/ [](upc = "lock")
=============================================================================
