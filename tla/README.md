# Verification of the DHCP filter and logger

TLA+ models, TLC runs and TLAPS proofs for the Win32 DHCP callout hook and its
Monitor. The models are translated from the C and C++ sources; `PROJECT.json`
maps every definition to the lines it stands for.

## 1. The system

Two processes on one Windows machine:

```
 DHCP server process                          Monitor process
 +----------------------------+   shared      +-----------------------------------------+
 | CalloutHook.dll            |   memory      | main thread          handle_thread      |
 |  hook threads              |   block +     |  wait esnd           buffer_remove_head |
 |   InitSHM (connect once)   |-> mutex +  -> |  shm_lock, memcpy    INSERT INTO ...    |
 |   shm_write                |   event esnd  |  buffer_add_tail --> free               |
 |  DhcpControlHook           |               |                                         |
 |  DhcpNewPktHook (disabled) |<- shared ACL <-  acl_update_thread (disabled)           |
 +----------------------------+   list        +-----------------------------------------+
```

| Part | State | Operations | Talks to |
|---|---|---|---|
| callout hooks (`CalloutHook/CalloutHook.cpp`) | `shm`, `_shm_init_lock`, `acl` | `InitSHM`, `DhcpControlHook`, three event hooks, `DhcpNewPktHook` | called by the DHCP server's threads; writes to the channel |
| channel (`libdhcp/src/shm.cpp`) | the mapped block, a named mutex, a named auto-reset event | `shm_init`, `shm_close`, `shm_lock`, `shm_unlock`, `shm_write` | shared by both processes |
| lock (`libdhcp/src/lock.cpp`) | a mutex handle | `lock_init`, `lock_init_ex`, `lock_wait`, `lock_release`, `lock_destory` | Win32 |
| Monitor (`Monitor/main.cpp`) | `buf`, `buffer`, `conn` | receive loop, `handle_thread`, `handle_offer/lease/delete` | reads the channel, fills the event buffer, writes to MySQL |
| event buffer (`Monitor/linked_buffer.cpp`) | a linked list, an SRW lock, an auto-reset event | `buffer_init`, `buffer_add_tail`, `buffer_remove_head` | main thread to handler thread |
| access list (`libdhcp/src/acl.cpp`) | shared list of entries with an SRW lock in it | `acl_init`, `acl_connect`, `acl_sort_entry`, `acl_filter` | read by `DhcpNewPktHook`, written by the updater |
| updater (`Monitor/acl_update.cpp`) | `last_update`, exit event | `acl_check_last_update`, `acl_do_update`, `acl_update_thread` | MySQL to shared list |
| packets (`libdhcp/src/dhcp.c`) | none | `dhcp_find_option`, address formatting | used by hooks and handlers |
| the rest | | configuration, time strings, debug output, `libdb`, `FakeClient`, `dhcputils`, installers, `libmysql` | |

Two parts are switched off at this commit: `callout_table` has no entry for
`DhcpNewPktHook`, and `_tmain` calls `acl_update_start` in a comment only. The
code is complete and is modelled as it behaves once these two lines are enabled.

What is hard about it, and what a test would hardly reach:

* threads of two processes meet on a mutex that can be *abandoned*, and
  `lock_wait` reports an abandoned mutex as a failure although it was acquired;
* signals are one bit (auto-reset events) and travel separately from the data
  they announce, in the channel and again in the event buffer;
* either process may die at any instruction and return while the other goes on;
* the connection is made lazily under double-checked locking, published before
  it is complete, and its failure is reported as success;
* the mapping is published before the names of its mutex and event are in it, and
  a process that finds a name empty quietly goes without that object;
* data outlives its protection: one receive buffer for all events, freed by
  another thread; the position of the updater advanced before the update;
* the access list lives in memory shared by two processes, with its lock inside
  it: a process can die holding that lock, and a new one initialises it again.

The complete list, with lines and the properties that cover it, is `hazards` in
`PROJECT.json`.

What would make each part correct: the *event buffer* is a FIFO that loses,
leaks and duplicates nothing and whose consumer never sleeps on a full buffer;
the *channel* excludes torn messages, never leaves its newest message without a
signal, bounds duplicates, and never blocks the DHCP server; the *hooks* build
one connection, show nobody an incomplete one longer than its builder works on
it, and return; the *Monitor* hands each event to its handler intact; the
*access list* decides by the first matching entry of a consistent list, and the
*updater* brings every change of the table into it.

## 2. Modules

| Module | Models | Composes |
|---|---|---|
| `LinkedBuffer` | `linked_buffer.cpp`, at heap level | refines `BoundedFifo` |
| `BoundedFifo` | what `linked_buffer.h` promises | |
| `Win32Sync` | `lock.cpp` over the Win32 mutex | |
| `ShmChannel` | `shm_init` of both sides, `shm_write` and the receive loop of `main.cpp`, with crashes of both processes | `Win32Sync`; hooks x channel x Monitor |
| `InitSHM` | `InitSHM`, `DhcpControlHook` and the frame of the event hooks | `Win32Sync`; hooks x `shm_init` |
| `MonitorPipeline` | main thread, `handle_thread` and its handlers, the one receive buffer | `BoundedFifo` as the event buffer |
| `AclFilter` | the query's order and limit, `acl_compartor`, `acl_sort_entry`, the search of `acl_filter` | |
| `AclUpdate` | `acl_update_thread`, `acl_init`, `acl_connect`, the locking of `acl_filter`, with ends of both processes | database x Monitor x DHCP server; refines `SharedList` |
| `SharedList` | what `acl.h` promises: a list replaced and read as a whole | |
| `DhcpFindOption` | `dhcp_find_option` | |
| `MC*` | instances for TLC | |
| `Induction` | least numbers and induction over the naturals, for the proofs | |
| `*Proofs` | TLAPS proofs | |

**LinkedBuffer.** `head`, `tail`, `size` are the fields of `LINKED_BUFFER`;
`next` and `ptr` the fields of the entries, indexed by address; `allocated` the
live addresses. `free` makes an address available again and its fields
meaningless; a `next` field that `malloc` left unwritten is `Uninit`, and
following it would break `TypeOK`. `evt` is the event, `lock` the owner of the
SRW lock. One action per visible step: acquire, the two refusals, link, signal,
release; wait satisfied, wait timed out, acquire, remove, release. The values
stored are numbered in order of acceptance, which is all a FIFO depends on.

**Win32Sync.** A mutex is `[owner, count, abandoned]`. `LockWaitOk`,
`LockWaitAbandoned` and `LockWaitTimeout` are the outcomes of `lock_wait`; a
timeout is possible only while another thread owns the mutex.

**ShmChannel.** `block` and `names` are the mapping: the message, and the lockdef,
which the Monitor copies into it after the mapping has become visible (`MStart`,
`MNameStart`, `MNameEnd`). `conn`, `lockh` and `esndh` are the server's `SHM_BLOCK`
as `InitSHM` fills it in: the lock is absent, a null handle, a mutex of another
name (the name was read half copied) or the shared one. `wpc` and `mpc` are the
positions of the hook threads in `shm_write` and of the Monitor in its loop; `via`
is the lock a hook found in `shm_lock`, which need not be the one that `shm_unlock`
finds. A hook without a lock passes (`WPass`), one without an event does not signal
(`WNoEvent`). `memcpy` is two steps on either side: the block is `Torn` while a hook
writes it, two hooks that copy at once may leave a mixture, and the Monitor's copy
of a block that changes meanwhile is the old content, the new or a mixture.
`serverHas` and `MonitorHas` are the objects each process has open; an object that
neither has open disappears with its content. `MonitorCrash` and `ServerCrash` may
happen at any point, in `shm_init` too. History variables record what was written,
passed on and how often, and which messages have lost their signal: `lost` is set
exactly where the code gives up a signal (no event, no lock after the wait), where
two hooks spoil a message, or where a process dies with one; `bare` records that a
hook has passed `shm_lock` without the mutex, `kept` the acquisitions that a
thread will not release.

**InitSHM.** `stage` is how far `shm_init` has filled in the block that `shm`
points at, `lock` and `esnd` are what it found; `early` says that the names in the
mapping may still be missing. `Check` reads `shm` without the mutex, `Call` reads it
again for `shm_write`, whose test of the lock, copy and signal are steps of their
own, each looking at the block as it is by then; so a write begun without a lock
can outlast the building. A write faults without a block, without data or without
the view; in freed or uninitialised memory anything is possible. A fault ends the
process (`Die`) or is survived, since that depends on the DHCP server.

**MonitorPipeline.** What happens to an event after the channel: `buf` is the
content of the one block `_tmain` allocates, `kind` the events that arrived,
`accepted` and `delivered` the event buffer through its abstract specification
(which `LinkedBuffer` is proved to implement), `entry` the event each queued
pointer was meant for. `memcpy`, the read of `HookType` and the reads of a
handler (two of them, `Fields` and `MoreFields`) are separate steps, so that an
event can be overwritten between any two of them. `free(buf)` sets `freed`; a later use sets `undef`, after which the
content is arbitrary and the process may end. `HostNameFault` is the offer
without a host name, or with an empty one, that ends the process.

**AclFilter.** One table, one load, one decision: `Fetch` takes the rows in any
order that satisfies the `ORDER BY` and cuts them off at the size of the list,
`acl_sort_entry` yields any sequence sorted for `acl_compartor`, `acl_filter` is the
search. Ties are choices, as they are for the database and for `qsort`. The length
that `DhcpNewPktHook` passes on is the packet's, 0 to 255; beyond the 16 bytes of an
address the search compares what happens to lie behind the arrays, so which of the
entries that agree in the address match is a choice too (`Matches`).

**AclUpdate.** The table is a set of row versions with one-second time stamps;
`upc` and `rpc` are the positions of the updater and of the server's threads;
`length`, `entry` and `lock` are the shared list. Writing it takes the three
steps of the code, with `Torn` while `memcpy` runs. The SRW lock is a word in
shared memory; releasing it when it is not held leaves any word. The mapping
and its content disappear when no process has it open. `acl` is the server's
pointer: the service is started (`acl_init`) or started in vain (`acl_init_fails`),
in a new process or again in a running one; on NULL `acl_filter` faults. `lost` is
the loss of the one connection the updater makes. `abandoned` and `reset`
record that a process ended inside the lock and that `acl_init` initialised a
lock being held.

**SharedList.** The list as its users may think of it: a load takes the table as
it is, a replacement puts the loaded rows in place in one step while no call has
the list in hand, a call reads length and entries at once. `AclUpdate` maps to it
with `Content`, the list or, from the moment `acl_do_update` has the lock, what it
is about to write; `ReadBy`, what a call of `acl_filter` has read and still uses;
and `~reset` for `trusted`.

**DhcpFindOption.** The loop, one iteration per step, over an area of bytes; the
two bytes behind it exist because the code can read the first of them.

The operators marked `mutant` in the modules are plausible bugs; each is
substituted for the definition that follows it to show that a property notices.

## 3. Runs

| Run | Instance | Shows |
|---|---|---|
| `buffer_safety` | 2 producers, 2 consumers, capacity 4, 5 addresses, 12 adds | the list is a FIFO at heap level; wake-ups account for entries; refinement of `BoundedFifo` |
| `buffer_live` | 1 producer, 2 consumers, capacity 2, 4 adds | full buffers drain, signals end in deliveries |
| `channel_crash` | 2 hook threads, 3 messages, 1 crash of the server, 2 of the Monitor | ownership of the mutex, torn, lost and duplicated messages, no message after a newer one |
| `channel_live` | 2 hook threads, 2 messages, 1 crash of the Monitor | hooks return, messages arrive |
| `connect` | 3 hook threads, 3 calls, 1 stop and restart | double-checked connection: what stays behind, who faults; hook calls end |
| `pipeline_safety` | 3 events of 6 kinds, buffer of 2 | which events are logged as received |
| `pipeline_owned` | 2 events, buffer of 2 | violated: the Monitor owns the memory it uses |
| `acl_decision` | all tables of up to 4 of 12 rows, list of 3, 16 clients with lengths 0 to 3, 2-byte addresses | comparison, decision, what the limit drops |
| `acl_update_safety` | 2 readers, 2 row versions, 2 seconds, lost connections, 2 ends, failed or repeated starts | no reader sees a list being replaced; who is counted in the lock; which rows are missed; refinement of `SharedList` |
| `acl_update_live` | 1 reader, 2 row versions, 2 seconds, lost connections, 1 failed query, 1 stop, 1 end | changes arrive |
| `acl_update_stop` | 1 reader, 1 row version, 1 stop | violated: `acl_update_stop` stops the thread |
| `find_option` | every encoding of up to 3 options, every area of up to 4 bytes over 4 values | the first option is found, inside the area, and the search ends |

Bounds. Capacity 4 leaves room for one entry per thread and more; five
addresses let a removed address come back in any position and an off-by-one
overflow show; 12 adds fill and drain the buffer several times. Two hook threads,
one end of the server and two of the Monitor suffice for the longest stories of the
channel: the server dies while copying, the Monitor inherits the mutex, a signal
set earlier makes it read the half-written block; the Monitor ends while filling in
the names, and a server that connected to them keeps the mapping alive for the
next. Three messages are one passed on, one on its way and one written over it; the
proofs cover any number of all of these. Three hook threads are a builder, one
that saw the incomplete block and one that waits; the third call can follow a
failed connection or a restart. Three events are one being handled, one queued
and one being copied over both. Four rows overflow a list of three, and the rows
include twins that differ only in access, nested masks, bytes above 127 and an
address with bits outside its mask. Two row versions in two seconds give a change
in the second already seen and one in a later second; two ends of processes let
a Monitor die inside the lock and the service restart around it. Values of
options look like codes, pads and `DHO_END` in turn. The proofs show that the
safety properties do not depend on any of these numbers. Threads of one kind and
heap addresses are interchangeable, so symmetry is used where only safety is
checked.

`CHECK_DEADLOCK FALSE` where the system may stop: `connect`, since after
`MaxCalls` calls the hooks are idle for good; `acl_decision` and `find_option`,
which model a computation that ends; `AclUpdate`, where a process that ends inside
the lock blocks the next updater once no process may end any more, which is a result
(below) and not an artefact.

Fairness. Weak fairness for a thread inside an operation: the scheduler runs
it. `RemoveAcquire` is strongly fair: the lock is released again and again, and
the other thread of the Monitor spends its time waiting for messages, not on
this lock. In `AclUpdate` the acquisitions have no fairness at all: an SRW lock is
neither fair nor made for two processes, so an updater may wait in `acl_write_lock`
for ever, which `ChangeArrives` excepts, and nothing is claimed of a reader's wait.
Not fair, because nothing promises them: calls of hooks and producers, crashes,
starts of processes, changes of the table, notifications of the service.

Results a maintainer may want to know:

* `WakeupsAccounted` says what a coalesced `SetEvent` costs: the entry stays
  one position behind for as long as the process lives, so the buffer's useful
  capacity shrinks by one each time; `FullHasWakeup` says that it never shrinks
  to nothing.
* After a crash that abandons the mutex its heir keeps it for good. If that is
  the Monitor, every later `shm_write` times out and its event is dropped until
  the Monitor ends; if it is a hook thread, only that thread can still write
  and the Monitor cannot read. `HookReturns` still holds.
* A server that opens the mapping between `shm.cpp:119` and `:133` of the Monitor's
  start gets `SHM_OK` without the mutex, the event or both, and `ReadyIsFinal` says
  that no thread repairs this. Without the event none of
  its messages is announced; without the mutex the Monitor can read a half-written
  block with no crash at all. Hooks that write through a block still being built do
  the same for one message. `HandsNewest` says what survives: the Monitor never goes
  back to an older message.
* `lock_init_ex` takes a null handle for a mutex (`lock.cpp:12`): all later writes,
  or all later reads if it is the Monitor's, fail.
* `BufferOwned` fails (`Monitor/main.cpp:109`): the handler frees the block the
  main thread goes on using. As long as that has done no harm an event is logged as received unless a newer one overtakes it
  (`FaithfulUnlessOvertaken`), and an older one never comes back (`NeverOlder`).
* `StopStops` fails (`Monitor/acl_update.cpp:118`): the `break` leaves the
  `switch`, the event is used up and the thread polls on.
* `MissedExplained` names what the polling misses for good: rows written after
  the load within the second `last_update` stands for, everything a failed load
  would have brought (until the table changes again), and, as the statement is
  about rows that are in the table, every deletion.
* A Monitor that ends inside the list's lock leaves `acl_filter` waiting, without
  a timeout, until the service is restarted; the restart initialises the lock
  and exposes the half-written list, the exception of `SearchesWholeList`.
  `LockAccounted` says that there is nobody else a waiter can be waiting for.
* The updater connects to the database once. When that connection is lost every
  later check fails quietly, and no change arrives until the Monitor is started
  again: `ChangeArrives` holds with that exception only.
* `DropsSmallestMasks`: a table that fits is loaded without loss. The query fetches
  the largest masks first and the search starts with the smallest, so a table
  that overflows the list loses rows that would have been searched before the kept
  ones with another mask; only among rows with the same mask it loses those that
  come last. `LeastDecides`: the matching row with the smallest mask wins, which is
  the most general one where masks are prefixes, and two rows can compete for the
  decision only if they differ in access alone. With a stated length of 0 every row
  of the type matches; with one above 16 the decision depends on bytes behind the
  arrays, and all that holds is that a refusal comes from a row that denies and
  agrees with the whole address.
* The comment "Need lock before call" at `acl_sort_entry` (`libdhcp/src/acl.cpp:57`)
  is not followed by `acl_do_update`, which sorts a private buffer before it
  takes the lock: harmless, and modelled so.

## 4. Proofs

All proofs are for any sets of threads and addresses, any capacity and any
bounds, from the assumptions named in the modules (`BufferAssumption`,
`ChannelAssumption`, `InitAssumption`, `PipelineAssumption`, `AclAssumption`,
`UpdateAssumption`, `InputAssumption`: finiteness of thread sets and tables,
distinct model values, numbers are natural, bytes are bytes).

*LinkedBufferProofs.* `IInv` joins `TypeOK`, `LockProtects` (who is past the
acquisition is the owner; stated for the proof, no run lists it), `FifoList`,
`WakeupsAccounted` and `LagBounded` (`coalesced < MaxSize`). None is inductive
alone: that `size` stays natural and `head` an address needs the list; that a
woken consumer finds an entry needs the account of wake-ups; the account needs
the lock, which allows one signalling producer; and `LagBounded` follows from
the account at the moment of the coalesced signal. Results: types, FIFO, wake-up
accounting, `WokenFindsEntry`, `FullHasWakeup`, and the refinement of
`BoundedFifo`.

*ShmChannelProofs.* Layers. `LockInv` accounts for the mutex, including heirs,
acquisitions a thread no longer knows of, and processes that are gone or have the
mutex not open (`ServerPresence`, `MonitorPresence`). `BareInv` says that until a
hook passes without the mutex those inside have it and no two copies overlap;
`TornInv` says where half-written content can come from. `NewestInv` says that
whoever may make the Monitor read the block, a signal or a thread on its way to one
(`Pending`), finds the newest message in it or a half-written one, and orders what
the Monitor has copied between what it passed on and what is in the block.
`DataInv` keeps the newest message in the block while it is neither passed on nor
has lost its signal, and `SignalBudget` counts the signals still outstanding.
Results: ownership, `TornExplained`, `NewestAnnounced`, `DuplicatesBounded`, and the
action property `HandsNewest`.

*InitSHMProofs.* The named invariants with `LockShape` (a waiting thread does not
own the mutex), `BlockShape` (a block that is built or closed is in nobody's hands;
lock and event are there unless the names may have been missing) and `CleanRun`
(without failures and stops, who is past the building has the block, and finds data
in it unless it came before). Results: `HalfBuiltHasBuilder`, `LeakAfterReady`,
`FaultExplained`, `TypeOK`, the action property `ReadyIsFinal`, and `OneBuilder`,
which no run lists since the others rest on it.

*MonitorPipelineProofs.* `TypeInv` adds to the types that each signal has an
entry of its own. `CopyInv` is the key: the block holds the newest event or
garbage, and the newest one from the end of its copy until the block is freed.
With it `SeenInv` follows what the handler has read: never an event older than
its entry's, and exactly that one as long as it is the newest. Results: all three
invariants of `pipeline_safety`.

*AclFilterProofs.* The difference of the first differing bytes orders byte
strings of any length (`CompareSign`, `BelowTransitive`); least elements come from
the well-foundedness of the naturals. That the list is full whenever rows are
missing (`Filled`) is part of the invariant. Results: all four invariants of
`acl_decision`, for any tables, clients and length of addresses. `AclOutcomes`
adds that these say something of every table: there is always an order for the
query and always a result for the sort, by induction over the number of rows.

*AclUpdateProofs.* Four layers: types with time stamps that lie in the past
(`Stamps`); `LockInv`, who holds the lock, dead updaters and readers
included, with at least as many readers counted as there are; `ListInv`, the list is whole whenever no
writer holds it, and a reader's view agrees with it; `MissedInv`, the rows missing
from the list or from the buffer on its way into it. All but the types hold only
while no held lock was reset, as the properties say. Results: the four
invariants of `acl_update_safety`, for any number of readers, rows, failures and
ends of processes; `WriterAlone`, that nobody searches a list being replaced,
which no run lists since it follows from `LockInv`; and the refinement of
`SharedList`. The refinement takes effect at `acl_write_lock`: from then on no
call has the list in hand (`NobodyRead`) and the three steps that write it are
invisible; each other step of the updater (`UpdaterShared`), of a reader
(`ReaderShared`) and of the processes (`ProcessShared`) is a step of the abstract
list or leaves it alone, and `acl_init` on a held lock is the step that ends the
promise.

*DhcpFindOptionProofs.* `TypeOK` and `FoundInside`, for areas of any size and
content, and `FindsFirst` for areas that encode any number of options of any
size. Its reference, `Offset`, is a recursive function; `OffsetSolves` shows that
such a function exists, and `OffsetSteps` what it adds at each option. The
invariant is `Place`: before it returns the loop stands at the start of an option
or of `DHO_END`, with no option of the wanted code before it, or behind `DHO_END`
when there is none at all. `FindOptionAdvances` is the safety half of
`Terminates`: an iteration that goes on starts inside the area and advances by at
least two bytes.

*Induction.* The provers cannot instantiate the library's induction rules, which
take an operator as a parameter. The rules here are about sets: a nonempty set of
naturals has a least member (`LeastNumber`), and a set of naturals that holds 0 and
with each number the next is all of them (`NatSet`). A proof by induction defines
the set of the numbers for which its claim holds.

Only model-checked: the liveness properties (`FullDrains`, `SignalDelivers`,
`HookReturns`, `EventuallyHanded`, `ChangeArrives`, `Terminates`),
since the prover has no fairness. Every invariant and every action property of a
passing run is a theorem.

## 5. Outside the models

Win32 objects behave as documented: mutexes, auto-reset events, SRW locks, the
lifetime of named objects. An SRW lock is documented for the threads of one
process; `AclUpdate` takes it for a lock word that works across processes, which
is what the code relies on. What a contended release does to a waiter in the other
process is left open: a waiter is never promised the lock. The DHCP server sends its control notifications when
no other callout is active; the service may be started again in a running process.
`malloc` in `InitSHM` and the creation of `_shm_init_lock` succeed. In `ShmChannel` a
block that was freed keeps its content until the next attempt gets the same memory;
what else may become of a hook inside freed memory is `InitSHM`'s. A name read while
it is copied may be empty, whole or cut off anywhere, and both names change together,
which allows more than one order of copying does. The database's clock
does not run backwards and its binary strings are ordered as their bytes.
`AclUpdate` has tables that fit into the list; larger ones are `AclFilter`'s.
Argument structures, logging, formatting, security descriptors and privileges
are left out; where they decide an outcome (`shm_init` failing, for the channel and
for `acl_init`) the outcome is a choice.

Not modelled:

* `libmysql/include`: vendored headers of the MySQL client, declarations without
  behaviour of this program. They are by far the largest part of the source
  lines, so the share of all lines that the models cover stays small; of the
  program's own code every part whose state threads or processes share is covered.
* Configuration (`config.cpp`), debug output, time strings (`utils.cpp`), address
  formatting (`dhcp_hw_addr*`, the name tables) and `acl_parse_hwaddr`: sequential
  conversions between strings and bytes; a row of the table is modelled as the
  entry it is parsed into.
* `libdb` and `dhcputils`: not linked into the programs of the solution.
  `shm_write_or_skip`: never called. Installer projects: no behaviour.

## 6. State of the work

Every part whose state threads or processes share has its module, its runs and
proofs of its invariants, action properties and refinements. What could still be
added: `MonitorPipeline` with the detailed `ShmChannel` in front of it instead of
arriving events, and the composition of `AclFilter` with `AclUpdate` for tables
larger than the list.
