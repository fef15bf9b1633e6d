------------------------------- MODULE InitSHM -------------------------------
(***************************************************************************)
(* CalloutHook/CalloutHook.cpp: how the hook threads of the DHCP server    *)
(* come by the shared-memory block they write to.  InitSHM connects on the *)
(* first call, under a mutex, with the global pointer shm tested before    *)
(* and after the mutex is taken; a connection that fails is tried again by *)
(* the next call.  DhcpControlHook creates the mutex when the service      *)
(* starts and closes the block when it stops.                              *)
(*                                                                         *)
(* shm points at the block from the moment it is allocated, before         *)
(* shm_init has filled it in, and InitSHM returns TRUE whether or not      *)
(* shm_init succeeded; so what a hook finds when it goes on to shm_write   *)
(* depends on what the other threads are doing.  And shm_init succeeds     *)
(* without a mutex or an event when the Monitor, which creates the mapping *)
(* before it fills in their names, has not come to do so.                  *)
(***************************************************************************)
EXTENDS Win32Sync

CONSTANTS
  Hooks,        \* hook threads of the DHCP server
  MaxCalls,     \* bound: hook calls in a behaviour
  MaxStops      \* bound: DHCP_CONTROL_STOP notifications in a behaviour

ASSUME InitAssumption ==
  NoThread \notin Hooks /\ MaxCalls \in Nat /\ MaxStops \in Nat

VARIABLES
  shm,          \* the global PSHM_BLOCK: 0 is NULL, k the k-th block malloc'ed
  last,         \* the block malloc'ed last; all earlier ones are freed
  stage,        \* how far that block has been filled in
  lock, esnd,   \* its lock: none, a null handle or open; its event: set or not
  early,        \* the names in the mapping may be incomplete
  initLock,     \* _shm_init_lock
  pc,           \* where each hook thread is
  arg, hasty,   \* the pointer a thread passed to shm_write; history: it took
                \* the pointer before data was set
  running,      \* between DHCP_CONTROL_START and DHCP_CONTROL_STOP
  failed,       \* history: a connection failed since the process started
  calls, stops  \* history: hook calls; stops since the process started

block == <<shm, last, stage, lock, esnd>>
taken == <<arg, hasty>>
counts == <<calls, failed, stops>>
vars == <<block, early, initLock, pc, taken, running, counts>>

(* Where shm_init is: after "raw" (malloc) and "zeroed", data is set in    *)
(* "viewed", lock was tried in "locked", esnd in "built": SHM_OK.          *)
(* shm_close leaves data dangling: "closed".                               *)
Stage == {"none", "raw", "zeroed", "viewed", "locked", "built", "freed",
          "closed"}

(* Threads in Building are filling in the block, in Locked between taking  *)
(* the mutex and releasing it.                                             *)
BuildPC == {"zero", "open", "mutex", "event", "free", "null"}
LockedPC == BuildPC \cup {"recheck", "release"}
PC == LockedPC \cup {"idle", "check", "wait", "call", "write", "copy", "signal",
                     "faulted"}

Init ==
  /\ shm = 0 /\ last = 0 /\ stage = "none" /\ lock = "none" /\ esnd = FALSE
  /\ early = TRUE
  /\ initLock = NewMutex
  /\ pc = [t \in Hooks |-> "idle"]
  /\ arg = [t \in Hooks |-> 0] /\ hasty = [t \in Hooks |-> FALSE]
  /\ running = TRUE
  /\ calls = 0 /\ failed = FALSE /\ stops = 0

Goto(t, from, to) == pc[t] = from /\ pc' = [pc EXCEPT ![t] = to]
-----------------------------------------------------------------------------
(* DhcpAddressOfferHook, DhcpAddressDelHook and DhcpDeleteClientHook all   *)
(* begin with if(InitSHM()).                                               *)
HookCall(t) ==
  /\ running
  /\ calls < MaxCalls
  /\ calls' = calls + 1
  /\ Goto(t, "idle", "check")
  /\ UNCHANGED <<block, early, initLock, taken, running, failed, stops>>

(* if(shm)return TRUE, without the mutex                                   *)
Check(t) ==
  /\ Goto(t, "check", IF shm # 0 THEN "call" ELSE "wait")
  /\ UNCHANGED <<block, early, initLock, taken, running, counts>>

(* lock_wait(&_shm_init_lock, 50000); on a timeout InitSHM returns FALSE   *)
(* and the hook drops its event.                                           *)
Lock(t) ==
  /\ LockWaitOk(initLock, initLock', t)
  /\ Goto(t, "wait", "recheck")
  /\ UNCHANGED <<block, early, taken, running, counts>>

LockInfinite(t) == FALSE /\ UNCHANGED vars       \* mutant: INFINITE for 50000

LockTimeout(t) ==
  /\ LockWaitTimeout(initLock, initLock', t)
  /\ Goto(t, "wait", "idle")
  /\ UNCHANGED <<block, early, taken, running, counts>>

(* The second test returns with the mutex still owned.                     *)
RecheckFound(t) ==
  /\ shm # 0
  /\ Goto(t, "recheck", "call")
  /\ UNCHANGED <<block, early, initLock, taken, running, counts>>

MallocUnchecked(t) ==                 \* mutant: no second test of shm
  /\ Goto(t, "recheck", "zero")
  /\ last' = last + 1 /\ shm' = last + 1 /\ stage' = "raw"
  /\ UNCHANGED <<lock, esnd, early, initLock, taken, running, counts>>

Malloc(t) ==
  /\ shm = 0
  /\ Goto(t, "recheck", "zero")
  /\ last' = last + 1 /\ shm' = last + 1 /\ stage' = "raw"
  /\ UNCHANGED <<lock, esnd, early, initLock, taken, running, counts>>

(* ZeroMemory, len and filename; then shm_init_client(shm).                *)
Zero(t) ==
  /\ Goto(t, "zero", "open")
  /\ stage' = "zeroed" /\ lock' = "none" /\ esnd' = FALSE
  /\ UNCHANGED <<shm, last, early, initLock, taken, running, counts>>

(* The Monitor may not have come to fill in the names, or may be just at   *)
(* it.  Once the process has opened the mapping it stays as it is, for a   *)
(* failure of shm_init does not close it.                                  *)
OpenMapping(t) ==
  /\ Goto(t, "open", "mutex")
  /\ stage' = "viewed"
  /\ early' \in {early, FALSE}
  /\ UNCHANGED <<shm, last, lock, esnd, initLock, taken, running, counts>>

(* A name that is empty is skipped.  lock_init_ex does not notice that     *)
(* CreateMutexEx failed.                                                   *)
OpenMutex(t) ==
  /\ Goto(t, "mutex", "event")
  /\ stage' = "locked"
  /\ \/ early /\ UNCHANGED lock
     \/ lock' \in {"null", "open"}
  /\ UNCHANGED <<shm, last, esnd, early, initLock, taken, running, counts>>

OpenEvent(t) ==
  /\ Goto(t, "event", "release")
  /\ stage' = "built"
  /\ \/ early /\ UNCHANGED esnd
     \/ esnd' = TRUE
  /\ UNCHANGED <<shm, last, lock, early, initLock, taken, running, counts>>

(* shm_init fails: no mapping because the Monitor is not there, or no      *)
(* event although there is a name for it.                                  *)
ShmInitFailed(t) ==
  /\ Goto(t, "open", "free") \/ Goto(t, "event", "free")
  /\ failed' = TRUE
  /\ UNCHANGED <<block, early, initLock, taken, running, calls, stops>>

(* Nothing is left of a freed block: see Undefined.                        *)
Free(t) ==
  /\ Goto(t, "free", "null")
  /\ stage' = "freed" /\ lock' = "none" /\ esnd' = FALSE
  /\ UNCHANGED <<shm, last, early, initLock, taken, running, counts>>

SetNullForgotten(t) ==                \* mutant: shm keeps the freed address
  /\ Goto(t, "null", "release")
  /\ UNCHANGED <<block, early, initLock, taken, running, counts>>

SetNull(t) ==
  /\ Goto(t, "null", "release")
  /\ shm' = 0
  /\ UNCHANGED <<last, stage, lock, esnd, early, initLock, taken, running,
                 counts>>

ReleaseForgotten(t) ==                \* mutant: no lock_release
  /\ Goto(t, "release", "call")
  /\ UNCHANGED <<block, early, initLock, taken, running, counts>>

Release(t) ==
  /\ Goto(t, "release", "call")
  /\ initLock' = Released(initLock, t)
  /\ UNCHANGED <<block, early, taken, running, counts>>

InitShm(t) == \/ Check(t) \/ Lock(t) \/ LockTimeout(t) \/ RecheckFound(t)
              \/ Malloc(t) \/ Zero(t) \/ OpenMapping(t) \/ OpenMutex(t)
              \/ OpenEvent(t) \/ ShmInitFailed(t) \/ Free(t) \/ SetNull(t)
              \/ Release(t)
-----------------------------------------------------------------------------
(* shm_write(shm, &args, sizeof(args)): the global is read for the call;   *)
(* the fields of what it points at are read one by one after that, while   *)
(* another thread may be writing or freeing them.                          *)
Call(t) ==
  /\ Goto(t, "call", "write")
  /\ arg' = [arg EXCEPT ![t] = shm]
  /\ hasty' = [hasty EXCEPT ![t] = stage \in {"raw", "zeroed"}]
  /\ UNCHANGED <<block, early, initLock, running, counts>>

Undefined(t) == arg[t] # last \/ stage \in {"raw", "freed"}

WriteStep(t, from, to) ==
  /\ arg[t] # 0
  /\ Goto(t, from, to)
  /\ UNCHANGED <<block, early, initLock, taken, running, counts>>

Return(t, from) ==
  /\ Goto(t, from, "idle")
  /\ arg' = [arg EXCEPT ![t] = 0] /\ hasty' = [hasty EXCEPT ![t] = FALSE]
  /\ UNCHANGED <<block, early, initLock, running, counts>>

(* shm_lock: without a lock it is passed, a null handle never is.          *)
WriteLock(t) ==
  (Undefined(t) \/ lock \in {"none", "open"}) /\ WriteStep(t, "write", "copy")

WriteRefused(t) ==
  (Undefined(t) \/ lock \in {"null", "open"}) /\ arg[t] # 0 /\ Return(t, "write")

(* memcpy(shm->data, data, len) and shm_unlock: nothing is copied while    *)
(* the len of a zeroed block is still 0.                                   *)
WriteCopy(t) ==
  /\ Undefined(t) \/ stage \in {"zeroed", "viewed", "locked", "built"}
  /\ WriteStep(t, "copy", "signal")

WriteSignal(t) == arg[t] # 0 /\ Return(t, "signal")    \* or not, as esnd is by now

(* Access violation: no block at all, data still null, or the view gone.   *)
WriteFaults(t) ==
  /\ \/ pc[t] \in {"write", "copy", "signal"} /\ (arg[t] = 0 \/ Undefined(t))
     \/ pc[t] = "copy" /\ stage \in {"zeroed", "closed"}
  /\ pc' = [pc EXCEPT ![t] = "faulted"]
  /\ UNCHANGED <<block, early, initLock, taken, running, counts>>

shm_write(t) == \/ Call(t) \/ WriteLock(t) \/ WriteRefused(t) \/ WriteCopy(t)
                \/ WriteSignal(t) \/ WriteFaults(t)

(* The DHCP server either survives the exception of a callout or dies of   *)
(* it and is started afresh.                                               *)
Survive(t) == Return(t, "faulted")

Die ==
  /\ \E t \in Hooks : pc[t] = "faulted"
  /\ shm' = 0 /\ last' = 0 /\ stage' = "none" /\ lock' = "none" /\ esnd' = FALSE
  /\ early' = TRUE
  /\ initLock' = NewMutex
  /\ pc' = [t \in Hooks |-> "idle"]
  /\ arg' = [t \in Hooks |-> 0] /\ hasty' = [t \in Hooks |-> FALSE]
  /\ failed' = FALSE /\ stops' = 0
  /\ UNCHANGED <<running, calls>>

(* DhcpControlHook.  The server sends its notifications when no other      *)
(* callout is active.  STOP closes the block, and lock_destory the mutex;  *)
(* shm keeps pointing at the block.  START creates a new mutex.            *)
ControlStop ==
  /\ running /\ stops < MaxStops
  /\ \A t \in Hooks : pc[t] = "idle"
  /\ running' = FALSE
  /\ stage' = IF shm # 0 THEN "closed" ELSE stage
  /\ stops' = stops + 1
  /\ UNCHANGED <<shm, last, lock, esnd, early, initLock, pc, taken, calls,
                 failed>>

ControlStart ==
  /\ ~running
  /\ running' = TRUE
  /\ initLock' = NewMutex
  /\ UNCHANGED <<block, early, pc, taken, counts>>
-----------------------------------------------------------------------------
HookStep(t) == InitShm(t) \/ shm_write(t) \/ Survive(t)

Next == \/ \E t \in Hooks : HookCall(t) \/ HookStep(t)
        \/ Die \/ ControlStop \/ ControlStart

Spec == Init /\ [][Next]_vars

(* A thread inside a hook keeps running; nothing else is promised.         *)
FairSpec == Spec /\ \A t \in Hooks : WF_vars(HookStep(t))
-----------------------------------------------------------------------------
Building == {t \in Hooks : pc[t] \in BuildPC}

(* Type invariant.  shm is NULL or the newest block, and no thread owns    *)
(* the mutex twice.                                                        *)
TypeOK ==
  /\ shm \in Nat /\ last \in Nat /\ shm \in {0, last}
  /\ stage \in Stage /\ lock \in {"none", "null", "open"} /\ esnd \in BOOLEAN
  /\ early \in BOOLEAN
  /\ initLock \in Mutex(Hooks) /\ initLock.count <= 1
  /\ pc \in [Hooks -> PC]
  /\ arg \in [Hooks -> Nat] /\ hasty \in [Hooks -> BOOLEAN]
  /\ running \in BOOLEAN
  /\ calls \in Nat /\ failed \in BOOLEAN /\ stops \in Nat

(* The mutex keeps the threads that build the block apart: only its owner  *)
(* is between lock_wait and lock_release.                                  *)
OneBuilder == \A t \in Hooks : pc[t] \in LockedPC => initLock.owner = t

(* A block that hooks can see through shm and nobody is building has been  *)
(* through all of shm_init, or was closed by DHCP_CONTROL_STOP.  It lacks  *)
(* the event or the mutex only if the mapping was opened before the        *)
(* Monitor had filled in their names; no failure leaves such a block, or a *)
(* freed one, behind.  (The mutex may be a null handle.)                   *)
HalfBuiltHasBuilder ==
  shm # 0 /\ Building = {} =>
    \/ stage = "closed"
    \/ stage = "built" /\ (early \/ (lock # "none" /\ esnd))

(* The second test in InitSHM returns without releasing the mutex, but     *)
(* only when the block is there to stay: a thread that keeps the mutex     *)
(* never keeps a later call of InitSHM from connecting.                    *)
LeakAfterReady ==
  \A t \in Hooks :
    initLock.owner = t /\ pc[t] \notin LockedPC =>
      shm # 0 /\ stage \in {"built", "closed"}

(* As long as no connection has failed and the service was not stopped, a  *)
(* hook faults only if it took the pointer between malloc and the moment   *)
(* shm_init sets data: whoever finds the block later, complete or not,     *)
(* gets through shm_write, whatever the other threads do meanwhile.        *)
FaultExplained ==
  \A t \in Hooks :
    pc[t] = "faulted" /\ ~failed /\ stops = 0 => hasty[t]

(* What shm_init has returned is final: no thread touches the block again, *)
(* so that a complete connection lasts until DHCP_CONTROL_STOP or the end  *)
(* of the process, and one without mutex or event is not repaired before.  *)
ReadyIsFinal ==
  [][stage = "built" =>
       \/ shm' = shm /\ stage' = "built" /\ lock' = lock /\ esnd' = esnd
       \/ ControlStop \/ Die]_vars

(* A hook call ends: with the mutex never released, InitSHM gives up.      *)
HookReturns == \A t \in Hooks : pc[t] # "idle" ~> pc[t] = "idle"
==============================================================================
