---------------------------- MODULE InitSHMProofs ----------------------------
(***************************************************************************)
(* Proofs about InitSHM for any number of hook threads, calls, failed      *)
(* connections, faults and restarts of the service.                        *)
(***************************************************************************)
EXTENDS InitSHM, TLAPS

(* The mutex is never abandoned while the process lives, and a thread that *)
(* waits for it does not own it: it has seen shm = NULL, while who kept    *)
(* the mutex kept it because shm was set.                                  *)
LockShape ==
  /\ ~initLock.abandoned
  /\ initLock.owner = NoThread => initLock.count = 0
  /\ \A t \in Hooks : pc[t] = "wait" => initLock.owner # t
  /\ ~running => \A t \in Hooks : pc[t] = "idle"

(* shm is set while a thread builds, a block that is built or was closed   *)
(* is in nobody's hands, and mutex and event are there unless the names    *)
(* may have been missing.                                                  *)
BlockShape ==
  /\ Building # {} => shm # 0
  /\ stage \in {"built", "closed"} => shm # 0 /\ Building = {}
  /\ stage = "closed" => stops > 0
  /\ \A t \in Hooks : /\ pc[t] = "event" => early \/ lock # "none"
                      /\ pc[t] = "zero" => stage = "raw"
  /\ stage = "built" => early \/ (lock # "none" /\ esnd)

(* Until a connection fails or the service stops, whoever is past the      *)
(* building of the block has the block, and finds data set in it unless it *)
(* came too early.                                                         *)
WritePC == {"write", "copy", "signal"}

CleanRun ==
  ~failed /\ stops = 0 =>
    /\ stage # "freed"
    /\ \A t \in Hooks :
         /\ pc[t] \notin {"free", "null"}
         /\ pc[t] \in {"release", "call"} \cup WritePC => shm # 0
         /\ pc[t] \in WritePC => arg[t] = shm
         /\ pc[t] \in WritePC /\ stage \in {"raw", "zeroed"} => hasty[t]
         /\ pc[t] = "faulted" => hasty[t]

IInv == /\ TypeOK /\ OneBuilder /\ HalfBuiltHasBuilder /\ LeakAfterReady
        /\ LockShape /\ BlockShape /\ CleanRun

USE InitAssumption DEF LockedPC, BuildPC, WritePC, block, taken, counts
------------------------------------------------------------------------------
(* A service that has just started satisfies the invariant.                *)
LEMMA InitIInv == Init => IInv
<1> SUFFICES ASSUME Init PROVE IInv OBVIOUS
<1>1. TypeOK
  <2>1. initLock \in Mutex(Hooks) /\ initLock.count <= 1
    BY DEF Init, NewMutex, Mutex
  <2>2. pc \in [Hooks -> PC] /\ arg \in [Hooks -> Nat] /\ stage \in Stage
    BY DEF Init, PC, Stage
  <2>3. /\ running \in BOOLEAN /\ early \in BOOLEAN /\ failed \in BOOLEAN
        /\ esnd \in BOOLEAN /\ hasty \in [Hooks -> BOOLEAN]
    BY DEF Init
  <2> QED BY <2>1, <2>2, <2>3 DEF Init, TypeOK
<1>2. Building = {} BY DEF Init, Building
<1>3. OneBuilder /\ HalfBuiltHasBuilder /\ LeakAfterReady
  BY DEF Init, OneBuilder, HalfBuiltHasBuilder, LeakAfterReady, NewMutex
<1>4. LockShape /\ BlockShape /\ CleanRun
  BY <1>2 DEF Init, LockShape, BlockShape, CleanRun, NewMutex
<1> QED BY <1>1, <1>3, <1>4 DEF IInv

(* A thread between lock_wait and lock_release is alone there.             *)
LEMMA Alone ==
  ASSUME IInv, NEW t \in Hooks, pc[t] \in LockedPC
  PROVE  /\ initLock.owner = t
         /\ \A u \in Hooks : pc[u] \in LockedPC => u = t
         /\ Building \subseteq {t}
BY DEF IInv, OneBuilder, TypeOK, Mutex, Building, LockShape

(* Steps of a hook outside the mutex.                                      *)
LEMMA OutsideIInv ==
  ASSUME IInv, NEW t \in Hooks,
         \/ HookCall(t) \/ Check(t) \/ LockTimeout(t) \/ Call(t)
         \/ WriteLock(t) \/ WriteRefused(t) \/ WriteCopy(t) \/ WriteSignal(t)
         \/ WriteFaults(t) \/ Survive(t)
  PROVE  IInv'
<1> USE DEF HookCall, Check, LockTimeout, LockWaitTimeout, Call, WriteLock,
            WriteRefused, WriteCopy, WriteSignal, WriteFaults, Survive,
            WriteStep, Return, Goto
<1>1. UNCHANGED <<block, early, initLock, running, failed, stops>>
  OBVIOUS
<1>2. pc[t] \notin LockedPC /\ pc[t] # "release" OBVIOUS
<1>3. PICK to \in PC \ LockedPC : pc' = [pc EXCEPT ![t] = to]
  BY DEF PC
<1>4. TypeOK'
  <2>1. pc' \in [Hooks -> PC] BY <1>3 DEF IInv, TypeOK
  <2>2. arg' \in [Hooks -> Nat] /\ calls' \in Nat BY DEF IInv, TypeOK
  <2>3. hasty' \in [Hooks -> BOOLEAN]
    <3>1. hasty \in [Hooks -> BOOLEAN] BY DEF IInv, TypeOK
    <3>2. CASE Call(t)
      <4> DEFINE b == stage \in {"raw", "zeroed"}
      <4>1. b \in BOOLEAN OBVIOUS
      <4>2. hasty' = [hasty EXCEPT ![t] = b] BY <3>2
      <4> HIDE DEF b
      <4> QED BY ONLY <3>1, <4>1, <4>2
    <3>3. CASE hasty' = [hasty EXCEPT ![t] = FALSE] BY ONLY <3>1, <3>3
    <3>4. CASE hasty' = hasty BY <3>1, <3>4
    <3> QED BY <3>2, <3>3, <3>4
  <2> QED BY <1>1, <2>1, <2>2, <2>3 DEF IInv, TypeOK
<1>5. Building' = Building BY <1>2, <1>3 DEF Building, IInv, TypeOK
<1>6. OneBuilder' /\ HalfBuiltHasBuilder'
  BY <1>1, <1>3, <1>5 DEF IInv, TypeOK, OneBuilder, HalfBuiltHasBuilder
<1>7. LeakAfterReady'
  BY <1>1, <1>2, <1>3 DEF IInv, TypeOK, LeakAfterReady
<1>8. LockShape'
  <2>1. pc'[t] = "wait" => initLock.owner # t
    BY <1>2 DEF IInv, TypeOK, LeakAfterReady
  <2>2. running \/ FALSE BY DEF IInv, LockShape
  <2> QED BY <1>1, <1>3, <2>1, <2>2 DEF IInv, TypeOK, LockShape
<1>9. BlockShape' BY <1>1, <1>3, <1>5 DEF IInv, TypeOK, BlockShape
<1>10. CleanRun'
  <2> SUFFICES ASSUME ~failed, stops = 0, NEW u \in Hooks
               PROVE  /\ stage # "freed"
                      /\ pc'[u] \notin {"free", "null"}
                      /\ pc'[u] \in {"release", "call"} \cup WritePC => shm # 0
                      /\ pc'[u] \in WritePC => arg'[u] = shm
                      /\ pc'[u] \in WritePC /\ stage \in {"raw", "zeroed"} =>
                           hasty'[u]
                      /\ pc'[u] = "faulted" => hasty'[u]
    BY <1>1 DEF IInv, CleanRun
  <2>0. CleanRun BY DEF IInv
  <2>1. CASE u # t
    <3>1. pc'[u] = pc[u] /\ arg'[u] = arg[u] /\ (hasty[u] => hasty'[u])
      BY <2>1 DEF IInv, TypeOK
    <3> QED BY ONLY <2>0, <3>1, u \in Hooks, ~failed, stops = 0 DEF CleanRun, WritePC
  <2>2. CASE u = t
    <3>1. CASE HookCall(t) \/ Check(t) \/ LockTimeout(t) \/ WriteRefused(t)
                 \/ WriteSignal(t) \/ Survive(t)
      <4>1. /\ pc'[t] \notin {"free", "null", "faulted"} \cup WritePC
            /\ pc'[t] \in {"release", "call"} => shm # 0
        BY <3>1 DEF IInv, TypeOK
      <4> QED BY <2>0, <2>2, <4>1 DEF CleanRun
    <3>2. CASE Call(t)
      <4>1. /\ pc'[t] = "write" /\ pc[t] = "call" /\ arg'[t] = shm
            /\ stage \in {"raw", "zeroed"} => hasty'[t]
        BY <3>2 DEF IInv, TypeOK
      <4> QED BY <2>0, <2>2, <4>1 DEF CleanRun
    <3>3. CASE WriteLock(t) \/ WriteCopy(t)
      <4>1. /\ pc[t] \in WritePC /\ pc'[t] \in WritePC /\ UNCHANGED <<arg, hasty>>
        BY <3>3 DEF IInv, TypeOK
      <4> QED BY <2>0, <2>2, <4>1 DEF CleanRun
    <3>4. CASE WriteFaults(t)
      <4>1. /\ pc[t] \in WritePC /\ pc'[t] = "faulted" /\ hasty' = hasty
        BY <3>4 DEF IInv, TypeOK
      <4>2. shm # 0 /\ arg[t] = shm /\ shm = last /\ stage \notin {"freed", "closed"}
        BY <2>0, <4>1 DEF CleanRun, IInv, TypeOK, BlockShape
      <4>3. stage \in {"raw", "zeroed"} BY <3>4, <4>2 DEF Undefined
      <4> QED BY <2>0, <2>2, <4>1, <4>3 DEF CleanRun
    <3> QED BY <3>1, <3>2, <3>3, <3>4
  <2> QED BY <2>1, <2>2
<1> QED BY <1>4, <1>6, <1>7, <1>8, <1>9, <1>10 DEF IInv

(* Taking the mutex.                                                       *)
LEMMA LockIInv ==
  ASSUME IInv, NEW t \in Hooks, Lock(t)
  PROVE  IInv'
<1> USE DEF Lock, LockWaitOk, Taken, Goto
<1>1. initLock.owner = NoThread /\ initLock.count = 0
  BY DEF IInv, LockShape
<1>2. TypeOK' BY <1>1 DEF IInv, TypeOK, Mutex, PC
<1>3. Building' = Building BY DEF Building, IInv, TypeOK
<1>4. OneBuilder' /\ HalfBuiltHasBuilder'
  BY <1>1, <1>3 DEF IInv, TypeOK, OneBuilder, HalfBuiltHasBuilder
<1>5. LeakAfterReady' BY DEF IInv, TypeOK, LeakAfterReady
<1>6. LockShape' BY <1>1 DEF IInv, TypeOK, LockShape
<1>7. BlockShape' BY <1>3 DEF IInv, TypeOK, BlockShape
<1>8. CleanRun' BY DEF IInv, TypeOK, CleanRun
<1> QED BY <1>2, <1>4, <1>5, <1>6, <1>7, <1>8 DEF IInv

(* The second test finds shm set: the thread leaves with the mutex, but    *)
(* nobody else can be building, so the block is complete.                  *)
LEMMA RecheckFoundIInv ==
  ASSUME IInv, NEW t \in Hooks, RecheckFound(t)
  PROVE  IInv'
<1> USE DEF RecheckFound, Goto
<1>1. Building = {} /\ Building' = {} BY Alone DEF Building, IInv, TypeOK
<1>2. stage \in {"built", "closed"} BY <1>1 DEF IInv, HalfBuiltHasBuilder
<1>3. TypeOK' BY DEF IInv, TypeOK, PC
<1>4. OneBuilder' /\ HalfBuiltHasBuilder'
  BY <1>1 DEF IInv, TypeOK, OneBuilder, HalfBuiltHasBuilder
<1>5. LeakAfterReady' BY <1>2 DEF IInv, TypeOK, LeakAfterReady
<1>6. LockShape' BY DEF IInv, TypeOK, LockShape
<1>7. BlockShape' BY <1>1 DEF IInv, TypeOK, BlockShape
<1>8. CleanRun' BY DEF IInv, TypeOK, CleanRun
<1> QED BY <1>3, <1>4, <1>5, <1>6, <1>7, <1>8 DEF IInv

(* Building the block: each step by the one thread that owns the mutex.    *)
LEMMA BuildIInv ==
  ASSUME IInv, NEW t \in Hooks,
         \/ Malloc(t) \/ Zero(t) \/ OpenMapping(t) \/ OpenMutex(t)
         \/ ShmInitFailed(t) \/ Free(t)
  PROVE  IInv'
<1> USE DEF Malloc, Zero, OpenMapping, OpenMutex, ShmInitFailed, Free,
            Goto
<1>1. pc[t] \in LockedPC /\ UNCHANGED <<initLock, arg, running, calls, stops>>
  OBVIOUS
<1>2. PICK to \in BuildPC : pc' = [pc EXCEPT ![t] = to] OBVIOUS
<1>3. Building' = {t} BY <1>1, <1>2, Alone DEF Building, IInv, TypeOK
<1>4. /\ shm' # 0 /\ stage' \notin {"built", "closed"}
      /\ shm' \in Nat /\ last' \in Nat /\ shm' \in {0, last'} /\ stage' \in Stage
      /\ failed' \in BOOLEAN
  <2>1. CASE Malloc(t) BY <2>1 DEF IInv, TypeOK, Stage
  <2>2. CASE Zero(t) \/ OpenMapping(t) \/ OpenMutex(t) \/ Free(t)
    <3>1. t \in Building BY <2>2 DEF Building
    <3> QED BY <2>2, <3>1 DEF IInv, TypeOK, BlockShape, Stage
  <2>3. CASE ShmInitFailed(t)
    <3>1. t \in Building BY <2>3 DEF Building
    <3>2. shm # 0 /\ stage \notin {"built", "closed"} BY <3>1 DEF IInv, BlockShape
    <3> QED BY <2>3, <3>1, <3>2 DEF IInv, TypeOK, BlockShape
  <2> QED BY <2>1, <2>2, <2>3
<1>5. TypeOK'
  <2>1. /\ lock' \in {"none", "null", "open"} /\ early' \in BOOLEAN
        /\ esnd' \in BOOLEAN /\ hasty' = hasty
    <3>1. CASE Malloc(t) \/ ShmInitFailed(t) BY <3>1 DEF IInv, TypeOK
    <3>2. CASE Zero(t) \/ Free(t) BY <3>2 DEF IInv, TypeOK
    <3>3. CASE OpenMapping(t) BY <3>3 DEF IInv, TypeOK
    <3>4. CASE OpenMutex(t) BY <3>4 DEF IInv, TypeOK
    <3> QED BY <3>1, <3>2, <3>3, <3>4
  <2>2. pc' \in [Hooks -> PC] BY <1>2 DEF IInv, TypeOK, PC
  <2> QED BY ONLY <1>1, <1>4, <2>1, <2>2, IInv DEF IInv, TypeOK
<1>6. OneBuilder' BY <1>1, <1>2 DEF IInv, TypeOK, OneBuilder
<1>a. HalfBuiltHasBuilder' BY <1>3 DEF HalfBuiltHasBuilder
<1>7. LeakAfterReady' BY <1>1, <1>2, Alone DEF IInv, TypeOK, LeakAfterReady
<1>8. LockShape' BY <1>1, <1>2 DEF IInv, TypeOK, LockShape
<1>9. BlockShape'
  <2>1. ASSUME NEW u \in Hooks, pc'[u] = "event"
        PROVE  early' \/ lock' # "none"
    <3>1. u = t BY <1>3, <2>1 DEF Building
    <3>2. OpenMutex(t) BY <2>1, <3>1 DEF IInv, TypeOK
    <3> QED BY <3>2
  <2>2. ASSUME NEW u \in Hooks, pc'[u] = "zero" PROVE stage' = "raw"
    <3>1. u = t BY <1>3, <2>2 DEF Building
    <3>2. Malloc(t) BY <2>2, <3>1 DEF IInv, TypeOK
    <3> QED BY <3>2
  <2> QED BY <1>3, <1>4, <2>1, <2>2 DEF IInv, BlockShape
<1>10. CleanRun'
  <2>0. CleanRun BY DEF IInv
  <2>1. \A u \in Hooks \ {t} : pc'[u] = pc[u] BY <1>2 DEF IInv, TypeOK
  <2>2. UNCHANGED <<arg, hasty, stops>> BY <1>1
  <2>3. CASE Malloc(t)
    <3>1. shm = 0 /\ failed' = failed /\ stage' = "raw" /\ pc'[t] = "zero"
      BY <2>3 DEF IInv, TypeOK
    <3> QED BY ONLY <2>0, <2>1, <2>2, <3>1 DEF CleanRun, WritePC
  <2>4. CASE Zero(t) \/ OpenMapping(t) \/ OpenMutex(t)
    <3>1. /\ failed' = failed /\ shm' = shm
          /\ pc'[t] \in {"open", "mutex", "event"}
          /\ stage' \in {"zeroed", "viewed", "locked"}
          /\ stage' = "zeroed" => pc[t] = "zero"
      BY <2>4 DEF IInv, TypeOK
    <3>2. stage' = "zeroed" => stage = "raw"
      <4>1. pc[t] = "zero" => stage = "raw"
        BY ONLY IInv, t \in Hooks DEF IInv, BlockShape
      <4> QED BY ONLY <3>1, <4>1
    <3> QED BY ONLY <2>0, <2>1, <2>2, <3>1, <3>2 DEF CleanRun, WritePC
  <2>5. CASE ShmInitFailed(t) BY <2>5 DEF CleanRun
  <2>6. CASE Free(t)
    <3>1. failed \/ stops # 0 BY <2>0, <2>6 DEF CleanRun
    <3> QED BY <2>2, <2>6, <3>1 DEF CleanRun
  <2> QED BY <2>3, <2>4, <2>5, <2>6
<1> QED BY <1>5, <1>6, <1>a, <1>7, <1>8, <1>9, <1>10 DEF IInv

(* Completing the block.                                                   *)
LEMMA OpenEventIInv ==
  ASSUME IInv, NEW t \in Hooks, OpenEvent(t)
  PROVE  IInv'
<1> USE DEF OpenEvent, Goto
<1>1. pc[t] \in LockedPC /\ t \in Building BY DEF Building
<1>2. shm # 0 BY <1>1 DEF IInv, BlockShape
<1>3. Building' = {} BY <1>1, Alone DEF Building, IInv, TypeOK
<1>4. TypeOK'
  <2>1. esnd' \in BOOLEAN BY DEF IInv, TypeOK
  <2> QED BY <2>1 DEF IInv, TypeOK, PC, Stage
<1>a. early \/ (lock' # "none" /\ esnd')
  <2>1. pc[t] = "event" /\ lock' = lock /\ (early \/ esnd') OBVIOUS
  <2>2. pc[t] = "event" => early \/ lock # "none"
    BY ONLY IInv, t \in Hooks DEF IInv, BlockShape
  <2> QED BY ONLY <2>1, <2>2
<1>5. OneBuilder' /\ HalfBuiltHasBuilder'
  BY <1>a DEF IInv, TypeOK, OneBuilder, HalfBuiltHasBuilder
<1>6. LeakAfterReady' BY <1>2 DEF LeakAfterReady
<1>7. LockShape' BY DEF IInv, TypeOK, LockShape
<1>8. BlockShape' BY <1>2, <1>3, <1>a DEF BlockShape, Building
<1>9. CleanRun' BY <1>2 DEF IInv, TypeOK, CleanRun
<1> QED BY <1>4, <1>5, <1>6, <1>7, <1>8, <1>9 DEF IInv

(* Giving up after a failure.                                              *)
LEMMA SetNullIInv ==
  ASSUME IInv, NEW t \in Hooks, SetNull(t)
  PROVE  IInv'
<1> USE DEF SetNull, Goto
<1>1. pc[t] \in LockedPC /\ t \in Building BY DEF Building
<1>2. Building' = {} BY <1>1, Alone DEF Building, IInv, TypeOK
<1>3. stage \notin {"built", "closed"} BY <1>1 DEF IInv, BlockShape
<1>4. TypeOK' BY DEF IInv, TypeOK, PC
<1>5. OneBuilder' /\ HalfBuiltHasBuilder'
  BY DEF IInv, TypeOK, OneBuilder, HalfBuiltHasBuilder
<1>6. LeakAfterReady' BY <1>1, Alone DEF IInv, TypeOK, LeakAfterReady
<1>7. LockShape' BY DEF IInv, TypeOK, LockShape
<1>8. BlockShape' BY <1>2, <1>3 DEF BlockShape, Building
<1>9. CleanRun' BY DEF IInv, TypeOK, CleanRun
<1> QED BY <1>4, <1>5, <1>6, <1>7, <1>8, <1>9 DEF IInv

(* Releasing the mutex.                                                    *)
LEMMA ReleaseIInv ==
  ASSUME IInv, NEW t \in Hooks, Release(t)
  PROVE  IInv'
<1> USE DEF Release, Goto
<1>1. pc[t] \in LockedPC /\ initLock.owner = t BY Alone
<1>2. initLock' = NewMutex BY <1>1 DEF Released, IInv, TypeOK, Mutex
<1>3. Building' = Building BY DEF Building, IInv, TypeOK
<1>4. TypeOK'
  <2>1. initLock' \in Mutex(Hooks) /\ initLock'.count <= 1
    BY <1>2 DEF NewMutex, Mutex
  <2> QED BY <2>1 DEF IInv, TypeOK, PC
<1>5. OneBuilder' BY <1>1, Alone DEF IInv, TypeOK, OneBuilder
<1>6. HalfBuiltHasBuilder' BY <1>3 DEF IInv, HalfBuiltHasBuilder
<1>7. LeakAfterReady' /\ LockShape'
  BY <1>2 DEF IInv, TypeOK, LeakAfterReady, LockShape, NewMutex
<1>8. BlockShape' BY <1>3 DEF IInv, BlockShape
<1>9. CleanRun' BY DEF IInv, TypeOK, CleanRun
<1> QED BY <1>4, <1>5, <1>6, <1>7, <1>8, <1>9 DEF IInv

(* DHCP_CONTROL_STOP closes the block and leaves shm pointing at it.       *)
LEMMA ControlStopIInv == IInv /\ ControlStop => IInv'
<1> SUFFICES ASSUME IInv, ControlStop PROVE IInv' OBVIOUS
<1> USE DEF ControlStop
<1>1. Building = {} /\ Building' = {} BY DEF Building
<1>2. TypeOK'
  <2>1. running' \in BOOLEAN OBVIOUS
  <2>2. stage' \in Stage BY DEF IInv, TypeOK, Stage
  <2> QED BY <2>1, <2>2 DEF IInv, TypeOK
<1>3. OneBuilder' /\ HalfBuiltHasBuilder'
  BY DEF IInv, OneBuilder, HalfBuiltHasBuilder
<1>4. LeakAfterReady' /\ LockShape' BY DEF IInv, LeakAfterReady, LockShape
<1>5. BlockShape' BY <1>1 DEF IInv, TypeOK, BlockShape
<1>6. CleanRun' BY DEF IInv, TypeOK, CleanRun
<1> QED BY <1>2, <1>3, <1>4, <1>5, <1>6 DEF IInv

(* DHCP_CONTROL_START replaces the mutex while no hook is active.          *)
LEMMA ControlStartIInv == IInv /\ ControlStart => IInv'
<1> SUFFICES ASSUME IInv, ControlStart PROVE IInv' OBVIOUS
<1> USE DEF ControlStart
<1>1. Building' = Building BY DEF Building
<1>2. TypeOK'
  <2>1. initLock' \in Mutex(Hooks) /\ initLock'.count <= 1
    BY DEF NewMutex, Mutex
  <2>2. running' \in BOOLEAN OBVIOUS
  <2> QED BY <2>1, <2>2 DEF IInv, TypeOK
<1>3. OneBuilder' /\ HalfBuiltHasBuilder'
  BY <1>1 DEF IInv, LockShape, OneBuilder, HalfBuiltHasBuilder
<1>4. LeakAfterReady' /\ LockShape'
  BY DEF IInv, LeakAfterReady, LockShape, NewMutex
<1>5. BlockShape' /\ CleanRun' BY <1>1 DEF IInv, BlockShape, CleanRun
<1> QED BY <1>2, <1>3, <1>4, <1>5 DEF IInv

(* A fault that ends the process ends everything it kept.                  *)
LEMMA DieIInv == IInv /\ Die => IInv'
<1> SUFFICES ASSUME IInv, Die PROVE IInv' OBVIOUS
<1> USE DEF Die
<1>1. Building' = {} BY DEF Building
<1>2. TypeOK'
  <2>1. initLock' \in Mutex(Hooks) /\ initLock'.count <= 1
    BY DEF NewMutex, Mutex
  <2>2. pc' \in [Hooks -> PC] /\ arg' \in [Hooks -> Nat] /\ stage' \in Stage
    BY DEF PC, Stage
  <2> QED BY <2>1, <2>2 DEF IInv, TypeOK
<1>3. OneBuilder' /\ HalfBuiltHasBuilder'
  BY <1>1 DEF OneBuilder, HalfBuiltHasBuilder
<1>4. LeakAfterReady' /\ LockShape' BY DEF LeakAfterReady, LockShape, NewMutex
<1>5. BlockShape' /\ CleanRun' BY <1>1 DEF BlockShape, CleanRun
<1> QED BY <1>2, <1>3, <1>4, <1>5 DEF IInv
------------------------------------------------------------------------------
(* Every step keeps the invariant.                                         *)
LEMMA NextIInv == IInv /\ [Next]_vars => IInv'
<1> SUFFICES ASSUME IInv, [Next]_vars PROVE IInv' OBVIOUS
<1>1. CASE UNCHANGED vars
  <2>1. Building' = Building BY <1>1 DEF vars, Building
  <2> QED BY <1>1, <2>1 DEF vars, IInv, TypeOK, OneBuilder,
             HalfBuiltHasBuilder, LeakAfterReady, LockShape, BlockShape,
             CleanRun
<1>2. ASSUME NEW t \in Hooks, HookCall(t) \/ HookStep(t) PROVE IInv'
  BY <1>2, OutsideIInv, LockIInv, RecheckFoundIInv, BuildIInv, OpenEventIInv,
     SetNullIInv, ReleaseIInv
     DEF HookStep, InitShm, shm_write
<1> QED BY <1>1, <1>2, ControlStopIInv, ControlStartIInv, DieIInv DEF Next

(* The invariant holds in every reachable state.                           *)
THEOREM ConnectInvariant == Spec => []IInv
BY InitIInv, NextIInv, PTL DEF Spec

(* Hooks, the mutex and the block stay in their types.                     *)
THEOREM ConnectTypes == Spec => []TypeOK
BY ConnectInvariant, PTL DEF IInv

(* The mutex keeps builders apart: InitSHM fills in one block at a time.   *)
THEOREM ConnectOneBuilder == Spec => []OneBuilder
BY ConnectInvariant, PTL DEF IInv

(* No failure of shm_init leaves a half-built block behind: a block nobody *)
(* is building has its mutex and its event, unless the mapping was opened  *)
(* before the Monitor had filled in their names, or it was closed.         *)
THEOREM ConnectHalfBuilt == Spec => []HalfBuiltHasBuilder
BY ConnectInvariant, PTL DEF IInv

(* A thread that leaves InitSHM with the mutex does so only when no later  *)
(* call needs it.                                                          *)
THEOREM ConnectLeak == Spec => []LeakAfterReady
BY ConnectInvariant, PTL DEF IInv

(* Until a connection fails or the service stops, a hook faults only if it *)
(* took the pointer before shm_init had set data.                          *)
THEOREM ConnectFault == Spec => []FaultExplained
<1>1. IInv => FaultExplained BY DEF IInv, CleanRun, FaultExplained
<1> QED BY <1>1, ConnectInvariant, PTL

(* Nothing but DHCP_CONTROL_STOP or the end of the process changes what    *)
(* shm_init has left: no thread undoes a complete connection or repairs    *)
(* one without mutex or event.                                             *)
THEOREM ConnectFinal == Spec => ReadyIsFinal
<1> DEFINE Same == shm' = shm /\ stage' = "built" /\ lock' = lock /\ esnd' = esnd
           Kept == stage = "built" => Same \/ ControlStop \/ Die
<1>1. IInv /\ [Next]_vars => [Kept]_vars
  <2> SUFFICES ASSUME IInv, Next, stage = "built", ~ControlStop, ~Die
               PROVE  Same
    OBVIOUS
  <2>1. shm # 0 /\ Building = {} BY DEF IInv, BlockShape
  <2>2. CASE ControlStart BY <2>2 DEF ControlStart
  <2>3. ASSUME NEW t \in Hooks, HookCall(t) \/ HookStep(t)
        PROVE  Same
    <3>1. pc[t] \notin BuildPC BY <2>1 DEF Building
    <3>2. UNCHANGED block
      BY <2>1, <2>3, <3>1
       DEF HookCall, HookStep, InitShm, Check, Lock, LockTimeout, RecheckFound,
           Malloc, Zero, OpenMapping, OpenMutex, OpenEvent, Free, ShmInitFailed,
           SetNull, Release, shm_write, Call, WriteLock, WriteRefused, WriteCopy,
           WriteSignal, WriteFaults, Survive, WriteStep, Return, Goto
    <3> QED BY <3>2
  <2> QED BY <2>2, <2>3 DEF Next
<1> QED BY <1>1, ConnectInvariant, PTL DEF Spec, ReadyIsFinal
==============================================================================
