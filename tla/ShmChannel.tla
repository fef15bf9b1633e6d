----------------------------- MODULE ShmChannel -----------------------------
(***************************************************************************)
(* The shared-memory mailbox between the DHCP server's callout hooks and   *)
(* the Monitor: shm_init and shm_write (libdhcp/src/shm.cpp) and the       *)
(* receive loop of Monitor/main.cpp.                                       *)
(*                                                                         *)
(* The mapping holds one message and the names of a mutex that guards it   *)
(* and of an auto-reset event that says it was written.  A write replaces  *)
(* what is there, read or not.  The Monitor creates the mapping first and  *)
(* fills in the names later; a hook that finds a name empty goes without   *)
(* that object, and hooks use their SHM_BLOCK while InitSHM is still       *)
(* filling it in.  Either process can die at any point and come back; an   *)
(* object lives while one of them has it open.                             *)
(*                                                                         *)
(* Messages are numbered in the order in which they are written.  memcpy   *)
(* into the block takes two steps, between which its content is Torn.      *)
(***************************************************************************)
EXTENDS Win32Sync, FiniteSets

CONSTANTS
  Writers,            \* hook threads of the DHCP server
  Monitor,            \* the Monitor's main thread
  Torn,               \* the content of a block that is half written
  MaxWrites,          \* bound: messages written in a behaviour
  MaxServerCrashes,   \* bound: terminations of the DHCP server process
  MaxMonitorCrashes   \* bound: terminations of the Monitor process

Threads == Writers \cup {Monitor}

ASSUME ChannelAssumption ==
  /\ Monitor \notin Writers
  /\ NoThread \notin Threads
  /\ Torn \notin Nat
  /\ IsFiniteSet(Writers)
  /\ MaxWrites \in Nat /\ MaxServerCrashes \in Nat /\ MaxMonitorCrashes \in Nat

VARIABLES
  mutex,              \* SHM_CALLOUT_LOCK
  esnd,               \* SHM_CALLOUT_EVENT_SEND: signalled or not
  block, names,       \* the mapping: the message, 0 at first; the lockdef
  conn,               \* how far InitSHM has got with the server's SHM_BLOCK
  lockh, esndh,       \* its lock; its esnd is the Monitor's event
  serverHas,          \* objects the server's process has open
  wpc, via, msg,      \* each hook thread: where it is inside shm_write, the
                      \* lock shm_lock found, the message it has written
  mixed,              \* hooks whose memcpy overlaps another hook's
  mpc, mlock,         \* the Monitor: where it is, whether it has the mutex
  buf,                \* its private copy of the message
  written,            \* history: messages written so far
  handed,             \* history: last message passed to buffer_add_tail
  copies,             \* history: messages passed on since the last write
  tornHanded,         \* history: a half-written message was passed on
  lost,               \* history: messages up to this one may have lost the
                      \* signal that announced them, or were spoilt
  kept,               \* history: acquisitions a thread will not release
  bare,               \* history: a hook passed shm_lock without the mutex
  serverCrashes, monitorCrashes

shared == <<mutex, esnd, block, names>>
link == <<conn, lockh, esndh, serverHas>>
hooks == <<wpc, via, msg, mixed>>
monitor == <<mpc, mlock, buf>>
history == <<written, handed, copies, tornHanded, lost, kept, bare,
             serverCrashes, monitorCrashes>>
vars == <<shared, link, hooks, monitor, history>>

LockHandle == {"none", "null", "other", "shared"}
Objects == {"map", "mutex", "event"}
WriterPC == {"idle", "lock", "copy", "copying", "unlock", "signal"}
StartPC == {"mapped", "naming", "mutex", "event"}
LoopPC == {"wait", "lock", "copy", "copying", "add", "unlock"}

(* No process has been started.                                            *)
Init ==
  /\ mutex = NewMutex /\ esnd = FALSE /\ block = 0 /\ names = "empty"
  /\ conn = "none" /\ lockh = "none" /\ esndh = FALSE /\ serverHas = {}
  /\ wpc = [w \in Writers |-> "idle"] /\ via = [w \in Writers |-> "none"]
  /\ msg = [w \in Writers |-> 0] /\ mixed = {}
  /\ mpc = "down" /\ mlock = FALSE /\ buf = 0
  /\ written = 0 /\ handed = 0 /\ copies = 0 /\ lost = 0
  /\ tornHanded = FALSE /\ bare = FALSE
  /\ kept = [t \in Threads |-> 0]
  /\ serverCrashes = 0 /\ monitorCrashes = 0

MonitorHas == {o \in Objects : \/ o = "map" /\ mpc # "down"
                               \/ o = "mutex" /\ mlock
                               \/ o = "event" /\ mpc \in LoopPC}

Count(b) == IF b THEN 1 ELSE 0
WGoto(w, from, to) == wpc[w] = from /\ wpc' = [wpc EXCEPT ![w] = to]
WReturn(w, from) ==
  /\ WGoto(w, from, "idle")
  /\ via' = [via EXCEPT ![w] = "none"] /\ msg' = [msg EXCEPT ![w] = 0]
MGoto(from, to) == mpc = from /\ mpc' = to
-----------------------------------------------------------------------------
(* InitSHM, by one hook at a time (module InitSHM): shm_init(shm, NULL).   *)
(* From Connect on the other hooks can write through the block.  A block   *)
(* that is freed because the event could not be opened keeps its content   *)
(* until the next attempt, whose malloc gets the same memory, and nothing  *)
(* of it is closed: a hook still inside shm_write goes on with what it     *)
(* finds there.                                                            *)
Connect ==
  /\ conn = "none" /\ "map" \in serverHas \cup MonitorHas
  /\ conn' = "viewed" /\ lockh' = "none" /\ esndh' = FALSE
  /\ serverHas' = serverHas \cup {"map"}
  /\ UNCHANGED <<shared, hooks, monitor, history>>

(* What a name looks like to a process that reads it while the Monitor may *)
(* be copying it: SHM_LOCK_NONE, the beginning of it, or the whole.        *)
NameFound == CASE names = "empty"   -> {"empty"}
               [] names = "partial" -> {"empty", "cut", "whole"}
               [] OTHER             -> {"whole"}

(* lock_init_ex does not notice that CreateMutexEx failed: a null handle.  *)
(* A name that is cut off is that of some other mutex.                     *)
ConnectMutex ==
  /\ conn = "viewed" /\ conn' = "locked"
  /\ \E n \in NameFound :
       lockh' \in CASE n = "empty" -> {"none"}
                    [] n = "cut"   -> {"other", "null"}
                    [] OTHER       -> {"shared", "null"}
  /\ serverHas' = IF lockh' = "shared" THEN serverHas \cup {"mutex"}
                                       ELSE serverHas
  /\ UNCHANGED <<shared, esndh, hooks, monitor, history>>

ConnectEvent ==
  /\ conn = "locked" /\ conn' = "built"
  /\ \E n \in NameFound : esndh' = (n = "whole")
  /\ serverHas' = IF esndh' THEN serverHas \cup {"event"} ELSE serverHas
  /\ UNCHANGED <<shared, lockh, hooks, monitor, history>>

ConnectFails ==
  /\ conn = "locked" /\ NameFound # {"empty"}
  /\ conn' = "none"
  /\ UNCHANGED <<shared, lockh, esndh, serverHas, hooks, monitor, history>>
-----------------------------------------------------------------------------
(* shm_write by hook thread w.  shm_lock(shm, 2500) looks at the lock of   *)
(* the block: there may be none yet, or none at all.                       *)
WBegin(w) ==
  /\ conn # "none"
  /\ written + Cardinality({v \in Writers : wpc[v] # "idle"}) < MaxWrites
  /\ WGoto(w, "idle", "lock")
  /\ via' = [via EXCEPT ![w] = lockh]
  /\ UNCHANGED <<shared, link, msg, mixed, monitor, history>>

WPass(w) ==                           \* no mutex, or some other one
  /\ via[w] \in {"none", "other"}
  /\ WGoto(w, "lock", "copy")
  /\ bare' = TRUE
  /\ UNCHANGED <<shared, link, via, msg, mixed, monitor, written, handed,
                 copies, tornHanded, lost, kept, serverCrashes,
                 monitorCrashes>>

WLock(w) ==
  /\ via[w] = "shared" /\ LockWaitOk(mutex, mutex', w)
  /\ WGoto(w, "lock", "copy")
  /\ UNCHANGED <<esnd, block, names, link, via, msg, mixed, monitor, history>>

(* Anything but WAIT_OBJECT_0: the call returns SHM_LOCK_FAILED and the    *)
(* hook's event is dropped.                                                *)
WLockAbandoned(w) ==
  /\ via[w] = "shared" /\ LockWaitAbandoned(mutex, mutex', w)
  /\ WReturn(w, "lock")
  /\ kept' = [kept EXCEPT ![w] = kept[w] + 1]
  /\ UNCHANGED <<esnd, block, names, link, mixed, monitor, written, handed,
                 copies, tornHanded, lost, bare, serverCrashes,
                 monitorCrashes>>

WLockInfinite(w) == FALSE /\ UNCHANGED vars      \* mutant: INFINITE for 2500

WLockTimeout(w) ==
  /\ via[w] = "shared" /\ LockWaitTimeout(mutex, mutex', w)
  /\ WReturn(w, "lock")
  /\ UNCHANGED <<esnd, block, names, link, mixed, monitor, history>>

WLockFails(w) ==                      \* WAIT_FAILED, or the other mutex taken
  /\ via[w] \in {"null", "other"}
  /\ WReturn(w, "lock")
  /\ UNCHANGED <<shared, link, mixed, monitor, history>>

Copying == {w \in Writers : wpc[w] = "copying"}

WCopyStart(w) ==
  /\ WGoto(w, "copy", "copying")
  /\ block' = Torn
  /\ mixed' = IF Copying = {} THEN mixed ELSE Copying \cup {w}
  /\ UNCHANGED <<mutex, esnd, names, link, via, msg, monitor, history>>

(* What two hooks copy at the same time ends up mixed, or is the message   *)
(* of the last one.                                                        *)
WCopyEnd(w) ==
  /\ WGoto(w, "copying", "unlock")
  /\ written' = written + 1 /\ copies' = 0
  /\ msg' = [msg EXCEPT ![w] = written + 1]
  /\ mixed' = mixed \ {w}
  /\ \/ block' = written + 1 /\ Copying = {w} /\ UNCHANGED lost
     \/ block' = Torn /\ w \in mixed /\ lost' = written + 1
  /\ UNCHANGED <<mutex, esnd, names, link, via, monitor, handed, tornHanded,
                 kept, bare, serverCrashes, monitorCrashes>>

WUnlockForgotten(w) ==                \* mutant: no shm_unlock
  /\ WGoto(w, "unlock", "signal")
  /\ UNCHANGED <<shared, link, via, msg, mixed, monitor, history>>

(* shm_unlock looks at the lock again, which need not be the one taken.    *)
WUnlock(w) ==
  /\ WGoto(w, "unlock", "signal")
  /\ mutex' = IF lockh = "shared" THEN Released(mutex, w) ELSE mutex
  /\ kept' = [kept EXCEPT ![w] =
               kept[w] + Count(via[w] = "shared")
                 - Count(lockh = "shared" /\ mutex.owner = w)]
  /\ UNCHANGED <<esnd, block, names, link, via, msg, mixed, monitor, written,
                 handed, copies, tornHanded, lost, bare, serverCrashes,
                 monitorCrashes>>

WSignalPulse(w) ==                    \* mutant: PulseEvent for SetEvent
  /\ WReturn(w, "signal")
  /\ esnd' = (mpc = "wait")
  /\ UNCHANGED <<mutex, block, names, link, mixed, monitor, history>>

WSignal(w) ==
  /\ esndh
  /\ WReturn(w, "signal")
  /\ esnd' = TRUE
  /\ UNCHANGED <<mutex, block, names, link, mixed, monitor, history>>

WNoEvent(w) ==                        \* esnd is null, or some other event
  /\ ~esndh
  /\ WReturn(w, "signal")
  /\ lost' = IF msg[w] > lost THEN msg[w] ELSE lost
  /\ UNCHANGED <<shared, link, mixed, monitor, written, handed, copies,
                 tornHanded, kept, bare, serverCrashes, monitorCrashes>>

shm_write(w) == \/ WPass(w) \/ WLock(w) \/ WLockAbandoned(w)
                \/ WLockTimeout(w) \/ WLockFails(w) \/ WCopyStart(w)
                \/ WCopyEnd(w) \/ WUnlock(w) \/ WSignal(w) \/ WNoEvent(w)
-----------------------------------------------------------------------------
(* _tmain: shm_init with a lockdef creates the mapping, copies the names   *)
(* into it and creates mutex and event, or opens those that exist under    *)
(* their names and leaves message and signal as they are.  A step that     *)
(* fails, or no database, ends the process (MonitorCrash), but for the     *)
(* mutex, whose failure lock_init_ex does not notice.                      *)
MStart ==
  /\ MGoto("down", "mapped")
  /\ buf' = 0
  /\ UNCHANGED <<shared, link, hooks, mlock, history>>

MNameStart ==
  /\ MGoto("mapped", "naming")
  /\ names' = IF names = "whole" THEN "whole" ELSE "partial"
  /\ UNCHANGED <<mutex, esnd, block, link, hooks, mlock, buf, history>>

MNameEnd ==
  /\ MGoto("naming", "mutex")
  /\ names' = "whole"
  /\ UNCHANGED <<mutex, esnd, block, link, hooks, mlock, buf, history>>

MOpenMutex ==
  /\ MGoto("mutex", "event")
  /\ mlock' \in BOOLEAN
  /\ UNCHANGED <<shared, link, hooks, buf, history>>

MOpenEvent ==
  /\ MGoto("event", "wait")
  /\ UNCHANGED <<shared, link, hooks, mlock, buf, history>>

(* The receive loop.  A wait of 1000 ms that times out prints a dot.       *)
MWaitManual ==                        \* mutant: a manual-reset event
  /\ esnd
  /\ MGoto("wait", "lock")
  /\ UNCHANGED <<shared, link, hooks, mlock, buf, history>>

MWait ==
  /\ esnd
  /\ esnd' = FALSE
  /\ MGoto("wait", "lock")
  /\ UNCHANGED <<mutex, block, names, link, hooks, mlock, buf, history>>

MWaitTimeout ==
  /\ ~esnd
  /\ MGoto("wait", "wait")
  /\ UNCHANGED <<shared, link, hooks, mlock, buf, history>>

(* shm_lock(&shm, 1500): without the lock the signal just taken is spent   *)
(* and the loop goes back to waiting.                                      *)
MLockIgnored ==                       \* mutant: result of shm_lock not tested
  /\ mlock
  /\ \/ LockWaitOk(mutex, mutex', Monitor)
     \/ LockWaitTimeout(mutex, mutex', Monitor)
  /\ MGoto("lock", "copy")
  /\ UNCHANGED <<esnd, block, names, link, hooks, mlock, buf, history>>

MLock ==
  /\ mlock /\ LockWaitOk(mutex, mutex', Monitor)
  /\ MGoto("lock", "copy")
  /\ UNCHANGED <<esnd, block, names, link, hooks, mlock, buf, history>>

MLockAbandoned ==
  /\ mlock /\ LockWaitAbandoned(mutex, mutex', Monitor)
  /\ MGoto("lock", "wait")
  /\ kept' = [kept EXCEPT ![Monitor] = kept[Monitor] + 1]
  /\ lost' = written
  /\ UNCHANGED <<esnd, block, names, link, hooks, mlock, buf, written, handed,
                 copies, tornHanded, bare, serverCrashes, monitorCrashes>>

MLockFails ==                         \* WAIT_TIMEOUT; WAIT_FAILED without mutex
  /\ IF mlock THEN LockWaitTimeout(mutex, mutex', Monitor) ELSE mutex' = mutex
  /\ MGoto("lock", "wait")
  /\ lost' = written
  /\ UNCHANGED <<esnd, block, names, link, hooks, mlock, buf, written, handed,
                 copies, tornHanded, kept, bare, serverCrashes,
                 monitorCrashes>>

(* memcpy(buf, shm.data, 2048), in two steps: a block that changes in the  *)
(* meantime is copied as it was, as it is, or mixed.                       *)
MCopyStart ==
  /\ MGoto("copy", "copying")
  /\ buf' = block
  /\ UNCHANGED <<shared, link, hooks, mlock, history>>

MCopyEnd ==
  /\ MGoto("copying", "add")
  /\ buf' \in IF block = buf THEN {buf} ELSE {buf, block, Torn}
  /\ UNCHANGED <<shared, link, hooks, mlock, history>>

(* buffer_add_tail(buffer, buf), still under the mutex.                    *)
MAdd ==
  /\ MGoto("add", "unlock")
  /\ IF buf = Torn
       THEN tornHanded' = TRUE /\ UNCHANGED handed
       ELSE handed' = buf /\ UNCHANGED tornHanded
  /\ copies' = copies + 1
  /\ UNCHANGED <<shared, link, hooks, mlock, buf, written, lost, kept, bare,
                 serverCrashes, monitorCrashes>>

(* shm_unlock in the __finally block.                                      *)
MUnlockForgotten ==                   \* mutant: no shm_unlock
  /\ MGoto("unlock", "wait")
  /\ UNCHANGED <<shared, link, hooks, mlock, buf, history>>

MUnlock ==
  /\ MGoto("unlock", "wait")
  /\ mutex' = Released(mutex, Monitor)
  /\ UNCHANGED <<esnd, block, names, link, hooks, mlock, buf, history>>

main_loop == \/ MNameStart \/ MNameEnd \/ MOpenMutex \/ MOpenEvent
             \/ MWait \/ MWaitTimeout \/ MLock \/ MLockAbandoned
             \/ MLockFails \/ MCopyStart \/ MCopyEnd \/ MAdd \/ MUnlock
-----------------------------------------------------------------------------
(* Termination of a process: a signal taken or still to be sent dies with  *)
(* its thread.  Of the objects those stay that the other process has open, *)
(* the mutex abandoned if it was owned; the others go with their content.  *)
ObjectsAfter(open, dead) ==
  /\ mutex' = IF "mutex" \in open THEN Deserted(mutex, dead) ELSE NewMutex
  /\ esnd' = (esnd /\ "event" \in open)
  /\ IF "map" \in open THEN UNCHANGED <<block, names>>
                       ELSE block' = 0 /\ names' = "empty"

MonitorCrash ==
  /\ monitorCrashes < MaxMonitorCrashes
  /\ mpc # "down"
  /\ mpc' = "down" /\ mlock' = FALSE
  /\ ObjectsAfter(serverHas, {Monitor})
  /\ lost' = IF \/ mpc \in {"lock", "copy", "copying", "add"}
                \/ esnd /\ "event" \notin serverHas
               THEN written ELSE lost
  /\ kept' = [kept EXCEPT ![Monitor] = 0]
  /\ monitorCrashes' = monitorCrashes + 1
  /\ UNCHANGED <<link, hooks, buf, written, handed, copies, tornHanded, bare,
                 serverCrashes>>

ServerCrash ==
  /\ serverCrashes < MaxServerCrashes
  /\ serverHas # {}
  /\ conn' = "none" /\ lockh' = "none" /\ esndh' = FALSE /\ serverHas' = {}
  /\ wpc' = [w \in Writers |-> "idle"] /\ via' = [w \in Writers |-> "none"]
  /\ msg' = [w \in Writers |-> 0] /\ mixed' = {}
  /\ ObjectsAfter(MonitorHas, Writers)
  /\ lost' = IF \/ \E w \in Writers : wpc[w] \in {"copying", "unlock", "signal"}
                \/ esnd /\ "event" \notin MonitorHas
               THEN written ELSE lost
  /\ kept' = [t \in Threads |-> IF t = Monitor THEN kept[t] ELSE 0]
  /\ serverCrashes' = serverCrashes + 1
  /\ UNCHANGED <<monitor, written, handed, copies, tornHanded, bare,
                 monitorCrashes>>
-----------------------------------------------------------------------------
Next == \/ Connect \/ ConnectMutex \/ ConnectEvent \/ ConnectFails
        \/ \E w \in Writers : WBegin(w) \/ shm_write(w)
        \/ MStart \/ main_loop
        \/ MonitorCrash \/ ServerCrash

Spec == Init /\ [][Next]_vars

(* Threads inside shm_write and the Monitor's main thread keep running.    *)
(* Nothing promises that a hook is called or that a dead Monitor is        *)
(* started again.                                                          *)
Fairness == (\A w \in Writers : WF_vars(shm_write(w))) /\ WF_vars(main_loop)

FairSpec == Spec /\ Fairness
-----------------------------------------------------------------------------
(* Type invariant; the Monitor never owns the mutex more than twice: once  *)
(* abandoned, once to read the block.                                      *)
TypeOK ==
  /\ mutex \in Mutex(Threads) /\ (mutex.owner = Monitor => mutex.count <= 2)
  /\ esnd \in BOOLEAN
  /\ block \in Nat \cup {Torn} /\ names \in {"empty", "partial", "whole"}
  /\ conn \in {"none", "viewed", "locked", "built"}
  /\ lockh \in LockHandle /\ esndh \in BOOLEAN /\ serverHas \subseteq Objects
  /\ wpc \in [Writers -> WriterPC] /\ via \in [Writers -> LockHandle]
  /\ msg \in [Writers -> Nat] /\ mixed \subseteq Copying
  /\ mpc \in {"down"} \cup StartPC \cup LoopPC /\ mlock \in BOOLEAN
  /\ buf \in Nat \cup {Torn}
  /\ written \in Nat /\ handed \in Nat /\ copies \in Nat /\ lost \in Nat
  /\ tornHanded \in BOOLEAN /\ bare \in BOOLEAN
  /\ kept \in [Threads -> Nat]
  /\ serverCrashes \in Nat /\ monitorCrashes \in Nat

(* t is between shm_lock and shm_unlock, and took the mutex.               *)
Holds(t) == IF t = Monitor THEN mpc \in {"copy", "copying", "add", "unlock"}
            ELSE /\ via[t] = "shared"
                 /\ wpc[t] \in {"copy", "copying", "unlock"}

(* Ownership of the mutex is accounted for by the code: a thread owns it   *)
(* once for having taken it in shm_lock and not yet come to shm_unlock,    *)
(* and once more for each time it was handed the mutex as abandoned or did *)
(* not find it in shm_unlock; no other thread owns it.                     *)
OwnershipAccounted ==
  \A t \in Threads :
    LET n == Count(Holds(t)) + kept[t]
    IN  IF mutex.owner = t THEN mutex.count = n /\ n > 0 ELSE n = 0

(* A message is passed on half written only if the server died earlier or  *)
(* some hook has written without the mutex: otherwise neither the hooks    *)
(* among themselves nor a Monitor that dies and comes back can make the    *)
(* Monitor read a block that is being written.                             *)
TornExplained == tornHanded => serverCrashes > 0 \/ bare

(* The newest message is never left without an announcement.  Unless it    *)
(* was passed on, or its hook had no event, or the Monitor could not lock  *)
(* after taking the signal, or a process died with the signal or spoilt    *)
(* the message: a signal is set, or about to be set by the hook that wrote *)
(* it, or has woken the Monitor, which has the message or will find it; or *)
(* another hook is already copying a newer one over it.                    *)
NewestAnnounced ==
  written > handed /\ written > lost =>
    \/ esnd
    \/ \E w \in Writers : wpc[w] \in {"unlock", "signal"} /\ msg[w] = written
    \/ mpc \in {"lock", "copy"}
    \/ mpc \in {"copying", "add"} /\ buf = written
    \/ Copying # {}

(* The Monitor never goes back: what it passes on is newer than all it has *)
(* passed on before, whatever hooks do without the mutex, and no restart   *)
(* of either process makes it read an old block, or an empty one, for a    *)
(* new message.  While all hooks use the mutex it is also the newest there *)
(* is: nobody writes between its copy and buffer_add_tail.                 *)
HandsNewest ==
  [][handed' # handed =>
       handed' > handed /\ (handed' = written \/ bare)]_vars

(* A message is passed on more than once when a signal for an earlier one  *)
(* arrives late, but no more often than signals can be outstanding: one    *)
(* taken by the Monitor, one set, and one per hook about to set it.        *)
DuplicatesBounded == copies <= Cardinality(Writers) + 2

(* A hook call returns whatever the Monitor does: shm_write never keeps    *)
(* the DHCP server waiting for ever, not even for a mutex that its owner   *)
(* will never release.                                                     *)
HookReturns == \A w \in Writers : wpc[w] # "idle" ~> wpc[w] = "idle"

(* While the Monitor runs, a message written is eventually passed on, or   *)
(* overtaken by a newer one that is, or loses its signal: because its hook *)
(* had no event, the Monitor got no lock, or a process died.               *)
EventuallyHanded ==
  \A k \in 1..MaxWrites :
    written >= k ~> (handed >= k \/ lost >= k \/ mpc = "down")

=============================================================================
