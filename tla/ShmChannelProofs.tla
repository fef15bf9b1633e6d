-------------------------- MODULE ShmChannelProofs --------------------------
(***************************************************************************)
(* Proofs about ShmChannel for any number of hook threads, messages and    *)
(* crashes of either process.                                              *)
(***************************************************************************)
EXTENDS ShmChannel, FiniteSetTheorems, TLAPS

(* A mutex nobody owns has been released as often as it was acquired, and  *)
(* only such a mutex is abandoned.                                         *)
MutexShape ==
  /\ mutex.owner = NoThread => mutex.count = 0
  /\ mutex.abandoned => mutex.owner = NoThread

(* What a process uses it has open, and a process that is not there has no *)
(* thread in a call.                                                       *)
ServerPresence ==
  /\ "map" \notin serverHas =>
       serverHas = {} /\ conn = "none" /\ \A w \in Writers : wpc[w] = "idle"
  /\ "mutex" \notin serverHas =>
       lockh # "shared" /\ \A w \in Writers : via[w] # "shared" /\ kept[w] = 0
  /\ esndh => "event" \in serverHas

MonitorPresence ==
  /\ ~mlock => kept[Monitor] = 0 /\ ~Holds(Monitor)
  /\ kept[Monitor] <= 1
  /\ mlock => mpc \in {"event"} \cup LoopPC

LockInv == /\ TypeOK /\ OwnershipAccounted /\ MutexShape
           /\ ServerPresence /\ MonitorPresence

(* As long as no hook has passed shm_lock without the mutex, those inside  *)
(* have it, and no two copies overlap.                                     *)
BareInv ==
  ~bare => /\ \A w \in Writers :
                wpc[w] \in {"copy", "copying", "unlock"} => via[w] = "shared"
           /\ mixed = {}

(* Half-written content comes from a hook at work, a dead server or a hook *)
(* without the mutex; without such hooks the block stands still while the  *)
(* Monitor copies it.                                                      *)
TornInv ==
  /\ block = Torn => serverCrashes > 0 \/ bare \/ Copying # {}
  /\ buf = Torn => serverCrashes > 0 \/ bare
  /\ mpc = "copying" => buf = block \/ bare
  /\ TornExplained

(* Whoever may make the Monitor read the block finds the newest message in *)
(* it, or a half-written one, and never an empty block; what the Monitor   *)
(* holds is no older than what it passed on, and no newer than the block.  *)
Pending == \/ esnd
           \/ \E w \in Writers : wpc[w] \in {"unlock", "signal"}
           \/ mpc \in {"lock", "copy", "copying"}

BlockInv ==
  /\ handed <= written
  /\ \A w \in Writers : msg[w] <= written
  /\ Pending => block \in {written, Torn} \ {0}
  /\ block \in Nat \ {0} => handed <= block /\ block <= written

BufInv ==
  mpc \in {"copying", "add"} /\ buf # Torn =>
    /\ buf # 0 /\ handed <= buf /\ buf <= written
    /\ block \in Nat \ {0} => buf <= block
    /\ buf = written \/ bare

NewestInv == BlockInv /\ BufInv

(* The newest message is in the block while it is neither passed on nor    *)
(* has lost its signal, unless a newer one is on its way in.               *)
DataInv ==
  /\ lost <= written
  /\ written > handed /\ written > lost /\ Copying = {} => block = written
  /\ NewestAnnounced

(* Signals outstanding for the message in the block and copies of it       *)
(* already passed on are no more than there can be at its writing.         *)
ToSignal == {w \in Writers : wpc[w] \in {"unlock", "signal"}}

SignalBudget ==
  copies + Cardinality(ToSignal) + Count(esnd)
         + Count(mpc \in {"lock", "copy", "copying", "add"})
    <= Cardinality(Writers) + 2

IInv == LockInv /\ BareInv /\ TornInv /\ NewestInv /\ DataInv /\ SignalBudget

USE ChannelAssumption DEF Threads
-----------------------------------------------------------------------------
(* Who took the mutex and is not yet out of its protection owns it, so     *)
(* nobody else does.                                                       *)
LEMMA HolderOwns ==
  ASSUME LockInv, NEW t \in Threads, Holds(t)
  PROVE  /\ mutex.owner = t /\ ~mutex.abandoned
         /\ \A u \in Threads : Holds(u) => u = t
<1>1. \A u \in Threads : Holds(u) => mutex.owner = u
  BY DEF LockInv, TypeOK, OwnershipAccounted, Count, Mutex
<1> QED BY <1>1 DEF LockInv, MutexShape

(* Without hooks that go without the mutex, a hook inside shm_write is     *)
(* alone there and the Monitor is outside.                                 *)
LEMMA WriterAlone ==
  ASSUME LockInv, BareInv, ~bare,
         NEW w \in Writers, wpc[w] \in {"copy", "copying", "unlock"}
  PROVE  /\ mpc \notin {"copy", "copying", "add", "unlock"}
         /\ \A v \in Writers :
              wpc[v] \in {"copy", "copying", "unlock"} => v = w
<1>1. \A v \in Writers :
        wpc[v] \in {"copy", "copying", "unlock"} => Holds(v)
  BY DEF BareInv, Holds
<1>2. w \in Threads /\ Holds(w) BY <1>1
<1>3. \A u \in Threads : Holds(u) => u = w BY <1>2, HolderOwns
<1>4. ~Holds(Monitor) BY <1>3
<1> QED BY <1>1, <1>3, <1>4 DEF Holds
-----------------------------------------------------------------------------
(* What the death of a process leaves of the shared objects.               *)
LEMMA ObjectsAfterTypes ==
  ASSUME TypeOK, NEW open, NEW dead, ObjectsAfter(open, dead)
  PROVE  /\ mutex' \in Mutex(Threads) /\ esnd' \in BOOLEAN
         /\ mutex'.owner = Monitor => mutex'.count <= 2
         /\ block' \in Nat \cup {Torn} /\ names' \in {"empty", "partial", "whole"}
<1>1. NewMutex \in Mutex(Threads) /\ NewMutex.owner # Monitor
  BY DEF NewMutex, Mutex
<1>2. /\ Deserted(mutex, dead) \in Mutex(Threads)
      /\ Deserted(mutex, dead).owner = Monitor =>
           Deserted(mutex, dead).count <= 2
  <2>1. CASE mutex.owner \in dead BY <2>1 DEF Deserted, Mutex
  <2>2. CASE mutex.owner \notin dead BY <2>2 DEF Deserted, TypeOK
  <2> QED BY <2>1, <2>2
<1>3. mutex' = NewMutex \/ mutex' = Deserted(mutex, dead)
  BY DEF ObjectsAfter
<1>4. esnd' \in BOOLEAN BY DEF ObjectsAfter
<1>5. block' \in Nat \cup {Torn} /\ names' \in {"empty", "partial", "whole"}
  BY DEF ObjectsAfter, TypeOK
<1> QED BY <1>1, <1>2, <1>3, <1>4, <1>5

(* Nobody owns anything before the first process starts.                   *)
LEMMA LockInvInit == Init => LockInv
<1> SUFFICES ASSUME Init PROVE LockInv OBVIOUS
<1>1. TypeOK
  <2>1. mutex \in Mutex(Threads) /\ mutex.owner # Monitor
    BY DEF Init, Mutex, NewMutex
  <2>2. /\ esnd \in BOOLEAN /\ esndh \in BOOLEAN /\ tornHanded \in BOOLEAN
        /\ bare \in BOOLEAN /\ mlock \in BOOLEAN
    BY DEF Init
  <2>3. wpc \in [Writers -> WriterPC] /\ via \in [Writers -> LockHandle]
        /\ msg \in [Writers -> Nat] /\ kept \in [Threads -> Nat]
    BY DEF Init, WriterPC, LockHandle
  <2>4. mixed \subseteq Copying /\ lockh \in LockHandle
    BY DEF Init, LockHandle
  <2> QED BY <2>1, <2>2, <2>3, <2>4 DEF Init, TypeOK
<1>2. OwnershipAccounted
  BY DEF Init, OwnershipAccounted, Holds, Count, NewMutex
<1>3. MutexShape /\ ServerPresence /\ MonitorPresence
  BY DEF Init, MutexShape, ServerPresence, MonitorPresence, NewMutex, Holds
<1> QED BY <1>1, <1>2, <1>3 DEF LockInv
-----------------------------------------------------------------------------
(* The steps of a hook keep the types.                                     *)
LEMMA HookTypes ==
  ASSUME LockInv, NEW w \in Writers, WBegin(w) \/ shm_write(w)
  PROVE  TypeOK'
<1> USE DEF LockInv, TypeOK, history, link, shared, monitor, WriterPC, LockHandle,
            Copying
<1>1. CASE WBegin(w) BY <1>1 DEF WBegin, WGoto
<1>2. CASE WPass(w)
  <2>1. bare' \in BOOLEAN BY <1>2 DEF WPass
  <2> QED BY <1>2, <2>1 DEF WPass, WGoto
<1>3. CASE WLock(w) BY <1>3 DEF WLock, LockWaitOk, Taken, WGoto, Mutex
<1>4. CASE WLockAbandoned(w)
  BY <1>4 DEF WLockAbandoned, LockWaitAbandoned, Taken, WGoto, WReturn, Mutex
<1>5. CASE WLockTimeout(w) BY <1>5 DEF WLockTimeout, LockWaitTimeout, WGoto, WReturn
<1>6. CASE WLockFails(w) BY <1>6 DEF WLockFails, WGoto, WReturn
<1>7. CASE WCopyStart(w) BY <1>7 DEF WCopyStart, WGoto
<1>8. CASE WCopyEnd(w) BY <1>8 DEF WCopyEnd, WGoto
<1>9. CASE WUnlock(w)
  <2>1. mutex' \in Mutex(Threads) /\ (mutex'.owner = Monitor => mutex'.count <= 2)
    BY <1>9 DEF WUnlock, Released, NewMutex, Mutex
  <2>2. kept' \in [Threads -> Nat]
    <3>1. kept[w] + Count(via[w] = "shared")
                  - Count(lockh = "shared" /\ mutex.owner = w) \in Nat
      BY <1>9 DEF WUnlock, WGoto, OwnershipAccounted, Holds, Count, Mutex
    <3> QED BY <1>9, <3>1 DEF WUnlock
  <2> QED BY <1>9, <2>1, <2>2 DEF WUnlock, WGoto
<1>10. CASE WSignal(w) BY <1>10 DEF WSignal, WGoto, WReturn
<1>11. CASE WNoEvent(w) BY <1>11 DEF WNoEvent, WGoto, WReturn
<1> QED BY <1>1, <1>2, <1>3, <1>4, <1>5, <1>6, <1>7, <1>8, <1>9, <1>10, <1>11
        DEF shm_write

(* So do the steps of the Monitor.                                         *)
LEMMA MonitorTypes == ASSUME LockInv, MStart \/ main_loop PROVE TypeOK'
<1> USE DEF LockInv, TypeOK, history, link, shared, hooks, StartPC, LoopPC, Copying
<1>1. CASE MStart BY <1>1 DEF MStart, MGoto
<1>2. CASE MNameStart \/ MNameEnd BY <1>2 DEF MNameStart, MNameEnd, MGoto
<1>3. CASE MOpenMutex BY <1>3 DEF MOpenMutex, MGoto
<1>4. CASE MOpenEvent BY <1>4 DEF MOpenEvent, MGoto
<1>5. CASE MWait BY <1>5 DEF MWait, MGoto
<1>6. CASE MWaitTimeout BY <1>6 DEF MWaitTimeout, MGoto
<1>7. CASE MLock
  BY <1>7 DEF MLock, LockWaitOk, Taken, MGoto, Mutex, OwnershipAccounted,
              MonitorPresence, MutexShape, Holds, Count
<1>8. CASE MLockAbandoned
  BY <1>8 DEF MLockAbandoned, LockWaitAbandoned, Taken, MGoto, Mutex, MutexShape
<1>9. CASE MLockFails BY <1>9 DEF MLockFails, LockWaitTimeout, MGoto
<1>10. CASE MCopyStart BY <1>10 DEF MCopyStart, MGoto
<1>11. CASE MCopyEnd BY <1>11 DEF MCopyEnd, MGoto
<1>12. CASE MAdd
  <2>1. CASE buf = Torn BY <1>12, <2>1 DEF MAdd, MGoto
  <2>2. CASE buf # Torn BY <1>12, <2>2 DEF MAdd, MGoto
  <2> QED BY <2>1, <2>2
<1>13. CASE MUnlock
  BY <1>13 DEF MUnlock, Released, NewMutex, MGoto, Mutex
<1> QED BY <1>1, <1>2, <1>3, <1>4, <1>5, <1>6, <1>7, <1>8, <1>9, <1>10, <1>11,
           <1>12, <1>13 DEF main_loop

(* So do connecting and the ends of the processes.                         *)
LEMMA OtherTypes ==
  ASSUME LockInv,
         \/ Connect \/ ConnectMutex \/ ConnectEvent \/ ConnectFails
         \/ MonitorCrash \/ ServerCrash \/ UNCHANGED vars
  PROVE  TypeOK'
<1> USE DEF LockInv, TypeOK, history, shared, hooks, link, monitor, Copying
<1>1. CASE Connect BY <1>1 DEF Connect, LockHandle, Objects
<1>2. CASE ConnectMutex
  <2>1. lockh' \in LockHandle BY <1>2 DEF ConnectMutex, LockHandle
  <2> QED BY <1>2, <2>1 DEF ConnectMutex, Objects
<1>3. CASE ConnectEvent
  <2>1. esndh' \in BOOLEAN BY <1>3 DEF ConnectEvent
  <2> QED BY <1>3, <2>1 DEF ConnectEvent, Objects
<1>4. CASE ConnectFails BY <1>4 DEF ConnectFails
<1>5. CASE MonitorCrash
  <2>1. /\ mutex' \in Mutex(Threads) /\ esnd' \in BOOLEAN
        /\ mutex'.owner = Monitor => mutex'.count <= 2
        /\ block' \in Nat \cup {Torn} /\ names' \in {"empty", "partial", "whole"}
    BY <1>5, ObjectsAfterTypes DEF MonitorCrash
  <2>2. mlock' \in BOOLEAN /\ lost' \in Nat BY <1>5 DEF MonitorCrash
  <2> QED BY <1>5, <2>1, <2>2 DEF MonitorCrash
<1>6. CASE ServerCrash
  <2>1. /\ mutex' \in Mutex(Threads) /\ esnd' \in BOOLEAN
        /\ mutex'.owner = Monitor => mutex'.count <= 2
        /\ block' \in Nat \cup {Torn} /\ names' \in {"empty", "partial", "whole"}
    BY <1>6, ObjectsAfterTypes DEF ServerCrash
  <2>2. /\ wpc' \in [Writers -> WriterPC] /\ via' \in [Writers -> LockHandle]
        /\ msg' \in [Writers -> Nat] /\ mixed' \subseteq Copying'
    BY <1>6 DEF ServerCrash, WriterPC, LockHandle
  <2>3. kept' \in [Threads -> Nat] /\ serverCrashes' \in Nat
    BY <1>6 DEF ServerCrash
  <2>4. /\ conn' \in {"none", "viewed", "locked", "built"}
        /\ lockh' \in LockHandle /\ serverHas' \subseteq Objects
    BY <1>6 DEF ServerCrash, LockHandle
  <2>5. esndh' \in BOOLEAN BY <1>6 DEF ServerCrash
  <2>6. lost' \in Nat BY <1>6 DEF ServerCrash
  <2>7. UNCHANGED <<monitor, written, handed, copies, tornHanded, bare,
                    monitorCrashes>>
    BY <1>6 DEF ServerCrash
  <2> HIDE DEF Copying
  <2> QED BY <2>1, <2>2, <2>3, <2>4, <2>5, <2>6, <2>7
<1>7. CASE UNCHANGED vars BY <1>7 DEF vars
<1> QED BY <1>1, <1>2, <1>3, <1>4, <1>5, <1>6, <1>7
-----------------------------------------------------------------------------
(* Steps that change neither the mutex nor who holds or keeps it.          *)
LEMMA OwnershipFrame ==
  ASSUME LockInv, UNCHANGED <<mutex, kept>>,
         \A t \in Threads : Holds(t)' = Holds(t)
  PROVE  OwnershipAccounted' /\ MutexShape'
BY DEF LockInv, OwnershipAccounted, MutexShape

(* Every step keeps the account of the mutex and what the processes have   *)
(* open.                                                                   *)
LEMMA LockInvNext == LockInv /\ [Next]_vars => LockInv'
<1> SUFFICES ASSUME LockInv, [Next]_vars PROVE LockInv' OBVIOUS
<1>0. TypeOK' BY HookTypes, MonitorTypes, OtherTypes DEF Next
<1>a. TypeOK BY DEF LockInv
<1> USE DEF history, link, shared, hooks, monitor
<1>1. CASE \/ Connect \/ ConnectMutex \/ ConnectEvent \/ ConnectFails
           \/ UNCHANGED vars
  <2>1. UNCHANGED <<mutex, kept, wpc, via, mpc, mlock>>
    BY <1>1 DEF Connect, ConnectMutex, ConnectEvent, ConnectFails, vars
  <2>2. OwnershipAccounted' /\ MutexShape' BY <2>1, OwnershipFrame DEF Holds
  <2>3. MonitorPresence' BY <2>1 DEF LockInv, MonitorPresence, Holds
  <2>4. ServerPresence'
    BY <1>1, <2>1 DEF LockInv, ServerPresence, Connect, ConnectMutex,
                      ConnectEvent, ConnectFails, vars
  <2> QED BY <1>0, <2>2, <2>3, <2>4 DEF LockInv
<1>2. ASSUME NEW w \in Writers,
             \/ WBegin(w) \/ WPass(w) \/ WLockTimeout(w) \/ WLockFails(w)
             \/ WCopyStart(w) \/ WCopyEnd(w) \/ WSignal(w) \/ WNoEvent(w)
      PROVE  LockInv'
  <2> USE <1>2 DEF WBegin, WPass, WLockTimeout, LockWaitTimeout, WLockFails,
                   WCopyStart, WCopyEnd, WSignal, WNoEvent, WReturn, WGoto
  <2>1. UNCHANGED <<mutex, kept, mpc, mlock, serverHas, conn, lockh, esndh>>
    OBVIOUS
  <2>2. \A t \in Threads : Holds(t)' = Holds(t)
    BY <1>a DEF TypeOK, Holds
  <2>3. MonitorPresence' BY <2>1 DEF LockInv, MonitorPresence, Holds
  <2>4. ServerPresence'
    BY <1>a, <2>1 DEF LockInv, TypeOK, ServerPresence
  <2> QED BY <1>0, <2>1, <2>2, <2>3, <2>4, OwnershipFrame DEF LockInv
<1>3. ASSUME NEW w \in Writers, WLock(w) \/ WLockAbandoned(w) PROVE LockInv'
  <2> USE <1>3 DEF WLock, WLockAbandoned, LockWaitOk, LockWaitAbandoned, Taken,
                   WReturn, WGoto
  <2>1. OwnershipAccounted'
    <3>1. CASE WLock(w)
      BY <1>a, <3>1 DEF LockInv, TypeOK, OwnershipAccounted, MutexShape, Holds,
                        Count, Mutex
    <3>2. CASE WLockAbandoned(w)
      BY <1>a, <3>2 DEF LockInv, TypeOK, OwnershipAccounted, MutexShape, Holds,
                        Count, Mutex
    <3> QED BY <3>1, <3>2
  <2>2. MutexShape' BY DEF LockInv, MutexShape
  <2>3. MonitorPresence'
    BY <1>a DEF LockInv, TypeOK, MonitorPresence, Holds
  <2>4. ServerPresence' BY <1>a DEF LockInv, TypeOK, ServerPresence
  <2> QED BY <1>0, <2>1, <2>2, <2>3, <2>4 DEF LockInv
<1>4. ASSUME NEW w \in Writers, WUnlock(w) PROVE LockInv'
  <2> USE <1>4 DEF WUnlock, Released, NewMutex, WGoto
  <2>1. OwnershipAccounted'
    <3>1. wpc[w] = "unlock" /\ ~Holds(w)' BY <1>a DEF TypeOK, Holds
    <3>2. \A t \in Threads \ {w} : Holds(t)' = Holds(t) /\ kept'[t] = kept[t]
      BY <1>a DEF TypeOK, Holds
    <3>3. kept'[w] = kept[w] + Count(via[w] = "shared")
                       - Count(lockh = "shared" /\ mutex.owner = w)
      BY <1>a DEF TypeOK
    <3>4. kept[w] \in Nat /\ mutex.count \in Nat BY <1>a DEF TypeOK, Mutex
    <3>5. CASE mutex.owner = w
      <4>1. \A t \in Threads \ {w} : ~Holds(t)' /\ kept'[t] = 0
        BY <1>a, <3>2, <3>5 DEF LockInv, TypeOK, OwnershipAccounted, Count
      <4>2. CASE via[w] = "shared"
        <5>1. mutex.count = 1 + kept[w]
          BY <3>1, <3>5, <4>2 DEF LockInv, OwnershipAccounted, Holds, Count
        <5>2. CASE lockh = "shared"
          <6>1. kept'[w] = kept[w] BY <3>3, <3>4, <3>5, <4>2, <5>2 DEF Count
          <6> QED BY <1>a, <3>1, <3>4, <3>5, <4>1, <5>1, <5>2, <6>1
                  DEF TypeOK, Mutex, OwnershipAccounted, Count
        <5>3. CASE lockh # "shared"
          <6>1. kept'[w] = kept[w] + 1 BY <3>3, <3>4, <4>2, <5>3 DEF Count
          <6> QED BY <3>1, <3>4, <3>5, <4>1, <5>1, <5>3, <6>1
                  DEF OwnershipAccounted, Count
        <5> QED BY <5>2, <5>3
      <4>3. CASE via[w] # "shared"
        <5>1. mutex.count = kept[w] /\ kept[w] > 0
          BY <3>4, <3>5, <4>3 DEF LockInv, OwnershipAccounted, Holds, Count
        <5>2. CASE lockh = "shared"
          <6>1. kept'[w] = kept[w] - 1 BY <3>3, <3>4, <3>5, <4>3, <5>2 DEF Count
          <6> QED BY <1>a, <3>1, <3>4, <3>5, <4>1, <5>1, <5>2, <6>1
                  DEF TypeOK, Mutex, OwnershipAccounted, Count
        <5>3. CASE lockh # "shared"
          <6>1. kept'[w] = kept[w] BY <3>3, <3>4, <4>3, <5>3 DEF Count
          <6> QED BY <3>1, <3>4, <3>5, <4>1, <5>1, <5>3, <6>1
                  DEF OwnershipAccounted, Count
        <5> QED BY <5>2, <5>3
      <4> QED BY <4>2, <4>3
    <3>6. CASE mutex.owner # w
      <4>1. kept[w] = 0 /\ ~Holds(w)
        BY <3>4, <3>6 DEF LockInv, OwnershipAccounted, Count
      <4>2. via[w] # "shared" BY <3>1, <4>1 DEF Holds
      <4>3. mutex' = mutex BY <3>6
      <4>4. kept'[w] = 0 BY <3>3, <3>6, <4>1, <4>2 DEF Count
      <4> QED BY <3>1, <3>2, <3>6, <4>1, <4>3, <4>4
              DEF LockInv, OwnershipAccounted, Count
    <3> QED BY <3>5, <3>6
  <2>2. MutexShape' BY <1>a DEF LockInv, TypeOK, MutexShape, Mutex
  <2>3. MonitorPresence' BY <1>a DEF LockInv, TypeOK, MonitorPresence, Holds
  <2>4. ServerPresence'
    BY <1>a DEF LockInv, TypeOK, ServerPresence, Count
  <2> QED BY <1>0, <2>1, <2>2, <2>3, <2>4 DEF LockInv
<1>5. CASE \/ MStart \/ MNameStart \/ MNameEnd \/ MOpenMutex \/ MOpenEvent
           \/ MWait \/ MWaitTimeout \/ MLockFails \/ MCopyStart \/ MCopyEnd
           \/ MAdd
  <2> USE <1>5 DEF MStart, MNameStart, MNameEnd, MOpenMutex, MOpenEvent, MWait,
                   MWaitTimeout, MLockFails, LockWaitTimeout, MCopyStart,
                   MCopyEnd, MAdd, MGoto
  <2>1. UNCHANGED <<mutex, kept, wpc, via, serverHas, conn, lockh, esndh>>
    OBVIOUS
  <2>2. \A t \in Threads : Holds(t)' = Holds(t)
    <3>1. mpc' \in {"copy", "copying", "add", "unlock"}
            <=> mpc \in {"copy", "copying", "add", "unlock"}
      <4>1. \/ mpc = "add" /\ mpc' = "unlock"
            \/ mpc = "copy" /\ mpc' = "copying"
            \/ mpc = "copying" /\ mpc' = "add"
            \/ /\ mpc \notin {"copy", "copying", "add", "unlock"}
               /\ mpc' \notin {"copy", "copying", "add", "unlock"}
        OBVIOUS
      <4> QED BY ONLY <4>1
    <3>2. Holds(Monitor)' = Holds(Monitor) BY ONLY <3>1 DEF Holds
    <3>3. \A w \in Writers : Holds(w)' = Holds(w)
      BY ONLY <2>1, ChannelAssumption DEF Holds
    <3> QED BY ONLY <3>2, <3>3 DEF Threads
  <2>3. MonitorPresence'
    BY <2>1 DEF LockInv, MonitorPresence, Holds, LoopPC
  <2>4. ServerPresence' BY <2>1 DEF LockInv, ServerPresence
  <2> QED BY <1>0, <2>1, <2>2, <2>3, <2>4, OwnershipFrame DEF LockInv
<1>6. CASE MLock \/ MLockAbandoned \/ MUnlock
  <2> USE <1>6 DEF MLock, MLockAbandoned, MUnlock, LockWaitOk, Released,
                   NewMutex, LockWaitAbandoned, Taken, MGoto
  <2>1. OwnershipAccounted'
    <3> USE <1>a DEF LockInv, TypeOK, OwnershipAccounted, MutexShape, Holds,
                     Count, Mutex
    <3>1. CASE MLock BY <3>1
    <3>2. CASE MLockAbandoned BY <3>2
    <3>3. CASE MUnlock BY <3>3
    <3> QED BY <1>6, <3>1, <3>2, <3>3
  <2>2. MutexShape' BY <1>a DEF LockInv, TypeOK, MutexShape, Mutex
  <2>3. MonitorPresence'
    BY <1>a DEF LockInv, TypeOK, MonitorPresence, Holds, LoopPC,
                OwnershipAccounted, Count
  <2>4. ServerPresence' BY <1>a DEF LockInv, TypeOK, ServerPresence
  <2> QED BY <1>0, <2>1, <2>2, <2>3, <2>4 DEF LockInv
<1>7. CASE MonitorCrash
  <2> USE <1>7 DEF MonitorCrash, ObjectsAfter, Deserted, NewMutex
  <2>1. OwnershipAccounted'
    <3>1. ~Holds(Monitor)' /\ kept'[Monitor] = 0 BY <1>a DEF TypeOK, Holds
    <3>2. \A w \in Writers : Holds(w)' = Holds(w) /\ kept'[w] = kept[w]
      BY <1>a DEF TypeOK, Holds
    <3>3. "mutex" \notin serverHas =>
            \A w \in Writers : ~Holds(w) /\ kept[w] = 0
      BY DEF LockInv, ServerPresence, Holds
    <3> QED BY <1>a, <3>1, <3>2, <3>3
            DEF LockInv, TypeOK, OwnershipAccounted, Count, Mutex
  <2>2. MutexShape' BY DEF LockInv, MutexShape
  <2>3. MonitorPresence' BY <1>a DEF TypeOK, MonitorPresence, Holds
  <2>4. ServerPresence' BY <1>a DEF LockInv, TypeOK, ServerPresence
  <2> QED BY <1>0, <2>1, <2>2, <2>3, <2>4 DEF LockInv
<1>8. CASE ServerCrash
  <2> USE <1>8 DEF ServerCrash, ObjectsAfter, Deserted, NewMutex
  <2>1. OwnershipAccounted'
    <3>1. Holds(Monitor)' = Holds(Monitor) /\ kept'[Monitor] = kept[Monitor]
      BY DEF Holds
    <3>2. \A w \in Writers : ~Holds(w)' /\ kept'[w] = 0 BY DEF Holds
    <3>3. "mutex" \notin MonitorHas => ~Holds(Monitor) /\ kept[Monitor] = 0
      BY DEF LockInv, MonitorPresence, MonitorHas, Objects
    <3> QED BY <1>a, <3>1, <3>2, <3>3
            DEF LockInv, TypeOK, OwnershipAccounted, Count, Mutex
  <2>2. MutexShape' BY DEF LockInv, MutexShape
  <2>3. MonitorPresence' BY DEF LockInv, MonitorPresence, Holds
  <2>4. ServerPresence' BY DEF ServerPresence
  <2> QED BY <1>0, <2>1, <2>2, <2>3, <2>4 DEF LockInv
<1> QED BY <1>1, <1>2, <1>3, <1>4, <1>5, <1>6, <1>7, <1>8
        DEF Next, shm_write, main_loop

(* The lock layer holds in every reachable state.                          *)
LEMMA ChannelLock == Spec => []LockInv
BY LockInvInit, LockInvNext, PTL DEF Spec

(* The block, the mutex, the event and their users stay in their types,    *)
(* and the Monitor owns the mutex at most twice.                           *)
THEOREM ChannelTypes == Spec => []TypeOK
BY ChannelLock, PTL DEF LockInv

(* Whoever owns the mutex is between shm_lock and shm_unlock, or was       *)
(* handed it abandoned, which lock_wait reports as a failure, or could not *)
(* give it back, since the block had lost it in the meantime.              *)
THEOREM ChannelOwnership == Spec => []OwnershipAccounted
BY ChannelLock, PTL DEF LockInv
-----------------------------------------------------------------------------
(* A hook that goes without the mutex is noted before it gets anywhere.    *)
LEMMA BareNext == LockInv /\ BareInv /\ [Next]_vars => BareInv'
<1> SUFFICES ASSUME LockInv, BareInv, [Next]_vars, ~bare' PROVE BareInv'
  BY DEF BareInv
<1> USE DEF history, link, shared, hooks, monitor
<1>0. TypeOK /\ Writers \subseteq Threads BY DEF LockInv
<1>1. ASSUME NEW w \in Writers, WCopyStart(w) PROVE BareInv'
  <2>1. ~bare /\ wpc[w] = "copy" BY <1>1 DEF WCopyStart, WGoto
  <2>2. Copying = {} BY <2>1, WriterAlone DEF Copying
  <2> QED BY <1>0, <1>1, <2>1, <2>2 DEF WCopyStart, WGoto, TypeOK, BareInv
<1>2. ASSUME NEW w \in Writers, WPass(w) PROVE BareInv' BY <1>2 DEF WPass
<1>3. ASSUME NEW w \in Writers,
             \/ WBegin(w) \/ WLock(w) \/ WLockAbandoned(w) \/ WLockTimeout(w)
             \/ WLockFails(w) \/ WCopyEnd(w) \/ WUnlock(w) \/ WSignal(w)
             \/ WNoEvent(w)
      PROVE  BareInv'
  <2>1. ~bare /\ mixed' \subseteq mixed
    BY <1>3 DEF WBegin, WLock, WLockAbandoned, WLockTimeout, WLockFails,
                WCopyEnd, WUnlock, WSignal, WNoEvent
  <2>2. \A v \in Writers : wpc'[v] \in {"copy", "copying", "unlock"} =>
          via'[v] = "shared"
    BY <1>0, <1>3, <2>1
       DEF WBegin, WLock, WLockAbandoned, WLockTimeout, WLockFails, WCopyEnd,
           WUnlock, WSignal, WNoEvent, WReturn, WGoto, TypeOK, BareInv
  <2> QED BY <2>1, <2>2 DEF BareInv
<1>4. CASE \/ Connect \/ ConnectMutex \/ ConnectEvent \/ ConnectFails
           \/ MStart \/ main_loop \/ MonitorCrash \/ UNCHANGED vars
  <2>1. UNCHANGED <<bare, wpc, via, mixed>>
    BY <1>4 DEF Connect, ConnectMutex, ConnectEvent, ConnectFails, MStart,
       main_loop, MNameStart, MNameEnd, MOpenMutex, MOpenEvent, MWait,
       MWaitTimeout, MLock, MLockAbandoned, MLockFails, MCopyStart, MCopyEnd,
       MAdd, MUnlock, MonitorCrash, vars
  <2> QED BY <2>1 DEF BareInv
<1>5. CASE ServerCrash BY <1>5 DEF ServerCrash, BareInv
<1> QED BY <1>1, <1>2, <1>3, <1>4, <1>5 DEF Next, shm_write
-----------------------------------------------------------------------------
(* Half-written content reaches the Monitor only after the server died or  *)
(* a hook went without the mutex.                                          *)
LEMMA TornNext == LockInv /\ BareInv /\ TornInv /\ [Next]_vars => TornInv'
<1> SUFFICES ASSUME LockInv, BareInv, TornInv, [Next]_vars PROVE TornInv'
  OBVIOUS
<1> USE DEF history, link, shared, hooks, monitor
<1>0. TypeOK BY DEF LockInv
<1>1. ASSUME NEW w \in Writers, WCopyStart(w) PROVE TornInv'
  <2>1. wpc'[w] = "copying" BY <1>0, <1>1 DEF WCopyStart, WGoto, TypeOK
  <2>2. mpc = "copying" => bare
    BY <1>1, WriterAlone DEF WCopyStart, WGoto
  <2> QED BY <1>1, <2>1, <2>2 DEF WCopyStart, TornInv, TornExplained, Copying
<1>2. ASSUME NEW w \in Writers, WCopyEnd(w) PROVE TornInv'
  <2>1. mpc = "copying" => bare BY <1>2, WriterAlone DEF WCopyEnd, WGoto
  <2>2. block' = Torn => bare BY <1>0, <1>2 DEF WCopyEnd, BareInv, TypeOK
  <2> QED BY <1>2, <2>1, <2>2 DEF WCopyEnd, TornInv, TornExplained
<1>3. ASSUME NEW w \in Writers,
             \/ WBegin(w) \/ WLock(w) \/ WLockAbandoned(w) \/ WLockTimeout(w)
             \/ WLockFails(w) \/ WPass(w) \/ WUnlock(w) \/ WSignal(w)
             \/ WNoEvent(w)
      PROVE  TornInv'
  <2> USE <1>3 DEF WBegin, WLock, WLockAbandoned, WLockTimeout, WLockFails,
                   WPass, WUnlock, WSignal, WNoEvent, WReturn, WGoto
  <2>1. Copying' = Copying BY <1>0 DEF Copying, TypeOK
  <2>2. UNCHANGED <<block, buf, mpc, serverCrashes, tornHanded>> OBVIOUS
  <2>3. bare => bare' OBVIOUS
  <2> QED BY ONLY TornInv, <2>1, <2>2, <2>3 DEF TornInv, TornExplained
<1>4. CASE \/ Connect \/ ConnectMutex \/ ConnectEvent \/ ConnectFails
           \/ MNameStart \/ MNameEnd \/ MOpenMutex \/ MOpenEvent \/ MWait
           \/ MWaitTimeout \/ MLock \/ MLockAbandoned \/ MLockFails \/ MUnlock
           \/ UNCHANGED vars
  <2> USE <1>4 DEF Connect, ConnectMutex, ConnectEvent, ConnectFails,
           MNameStart, MNameEnd, MOpenMutex, MOpenEvent, MWait, MWaitTimeout,
           MLock, MLockAbandoned, MLockFails, MUnlock, MGoto, vars
  <2>1. UNCHANGED <<block, buf, bare, wpc, serverCrashes, tornHanded>> OBVIOUS
  <2>2. mpc' = "copying" => mpc = "copying" OBVIOUS
  <2> QED BY ONLY TornInv, <2>1, <2>2 DEF TornInv, TornExplained, Copying
<1>5. CASE MStart BY <1>5 DEF MStart, MGoto, TornInv, TornExplained, Copying
<1>6. CASE MCopyStart
  <2>1. ~bare => Copying = {}
    BY <1>6, WriterAlone DEF MCopyStart, MGoto, Copying
  <2> QED BY <1>6, <2>1 DEF MCopyStart, MGoto, TornInv, TornExplained, Copying
<1>7. CASE MCopyEnd
  <2>1. buf' = Torn => buf = Torn \/ bare
    BY <1>7 DEF MCopyEnd, MGoto, TornInv
  <2> QED BY <1>7, <2>1 DEF MCopyEnd, MGoto, TornInv, TornExplained, Copying
<1>8. CASE MAdd BY <1>8 DEF MAdd, MGoto, TornInv, TornExplained, Copying
<1>9. CASE MonitorCrash
  BY <1>9 DEF MonitorCrash, ObjectsAfter, TornInv, TornExplained, Copying
<1>10. CASE ServerCrash
  <2>1. serverCrashes' > 0 BY <1>0, <1>10 DEF ServerCrash, TypeOK
  <2>2. mpc = "copying" => block' = block
    BY <1>10 DEF ServerCrash, ObjectsAfter, MonitorHas, Objects
  <2>3. UNCHANGED <<mpc, buf, bare>> BY <1>10 DEF ServerCrash
  <2> QED BY <2>1, <2>2, <2>3 DEF TornInv, TornExplained
<1> QED BY <1>1, <1>2, <1>3, <1>4, <1>5, <1>6, <1>7, <1>8, <1>9, <1>10
        DEF Next, shm_write, main_loop
-----------------------------------------------------------------------------
(* A block is announced only once its message is complete, the last        *)
(* announcement goes with the objects, or before them, and the Monitor     *)
(* never holds a message older than one it has passed on.                  *)
LEMMA NewestNext ==
  LockInv /\ BareInv /\ TornInv /\ NewestInv /\ [Next]_vars => NewestInv'
<1> SUFFICES ASSUME LockInv, BareInv, TornInv, NewestInv, [Next]_vars
             PROVE  NewestInv'
  OBVIOUS
<1> USE DEF history, link, shared, hooks, monitor
<1>0. TypeOK BY DEF LockInv
<1>1. ASSUME NEW w \in Writers,
             \/ WBegin(w) \/ WPass(w) \/ WLock(w) \/ WLockAbandoned(w)
             \/ WLockTimeout(w) \/ WLockFails(w) \/ WUnlock(w) \/ WSignal(w)
             \/ WNoEvent(w)
      PROVE  NewestInv'
  <2> USE <1>1 DEF WBegin, WPass, WLock, WLockAbandoned, WLockTimeout,
                   WLockFails, WUnlock, WSignal, WNoEvent, WReturn, WGoto
  <2>1. Pending' => Pending BY <1>0 DEF Pending, TypeOK
  <2>2. UNCHANGED <<block, written, handed, mpc, buf>> /\ (bare => bare')
    OBVIOUS
  <2>3. \A v \in Writers : msg'[v] \in {0, msg[v]} BY <1>0 DEF TypeOK
  <2>4. BlockInv' BY ONLY TypeOK, <1>0, NewestInv, <2>1, <2>2, <2>3
                  DEF BlockInv, NewestInv, TypeOK
  <2>5. BufInv' BY ONLY NewestInv, <2>2 DEF BufInv, NewestInv
  <2> QED BY <2>4, <2>5 DEF NewestInv
<1>2. ASSUME NEW w \in Writers, WCopyStart(w) PROVE NewestInv'
  <2>1. block' = Torn /\ UNCHANGED <<written, handed, mpc, buf, msg, bare>>
    BY <1>2 DEF WCopyStart
  <2> QED BY <2>1 DEF NewestInv, BlockInv, BufInv
<1>3. ASSUME NEW w \in Writers, WCopyEnd(w) PROVE NewestInv'
  <2>1. /\ written' = written + 1 /\ block' \in {written', Torn}
        /\ UNCHANGED <<handed, mpc, buf, bare>>
    BY <1>3 DEF WCopyEnd
  <2>2. mpc \in {"copying", "add"} => bare
    BY <1>3, WriterAlone DEF WCopyEnd, WGoto
  <2>3. \A v \in Writers : msg'[v] <= written'
    BY <1>0, <1>3 DEF WCopyEnd, TypeOK, NewestInv, BlockInv
  <2>4. BlockInv' BY <1>0, <2>1, <2>3 DEF TypeOK, NewestInv, BlockInv
  <2>5. BufInv' BY <1>0, <2>1, <2>2 DEF TypeOK, NewestInv, BufInv
  <2> QED BY <2>4, <2>5 DEF NewestInv
<1>4. CASE \/ Connect \/ ConnectMutex \/ ConnectEvent \/ ConnectFails
           \/ MStart \/ MNameStart \/ MNameEnd \/ MOpenMutex \/ MOpenEvent
           \/ MWait \/ MWaitTimeout \/ MLock \/ MLockAbandoned \/ MLockFails
           \/ MUnlock \/ UNCHANGED vars
  <2> USE <1>4 DEF Connect, ConnectMutex, ConnectEvent, ConnectFails, MStart,
           MNameStart, MNameEnd, MOpenMutex, MOpenEvent, MWait, MWaitTimeout,
           MLock, MLockAbandoned, MLockFails, MUnlock, MGoto, vars
  <2>1. Pending' => Pending BY DEF Pending
  <2>2. UNCHANGED <<block, written, handed, msg, bare>> OBVIOUS
  <2>3. mpc' \in {"copying", "add"} => UNCHANGED <<mpc, buf>> OBVIOUS
  <2> QED BY ONLY NewestInv, <2>1, <2>2, <2>3 DEF NewestInv, BlockInv, BufInv
<1>5. CASE MCopyStart
  <2>1. /\ UNCHANGED <<esnd, wpc, block, written, handed, msg, bare>>
        /\ buf' = block /\ mpc = "copy" /\ mpc' = "copying"
    BY <1>5 DEF MCopyStart, MGoto
  <2>2. block \in {written, Torn} \ {0}
    BY <2>1 DEF NewestInv, BlockInv, Pending
  <2>3. BlockInv' BY <2>1, <2>2 DEF NewestInv, BlockInv
  <2>4. BufInv' BY <1>0, <2>1, <2>2 DEF TypeOK, NewestInv, BlockInv, BufInv
  <2> QED BY <2>3, <2>4 DEF NewestInv
<1>6. CASE MCopyEnd
  <2>1. /\ UNCHANGED <<esnd, wpc, block, written, handed, msg, bare>>
        /\ buf' \in {buf, block, Torn} /\ (block = buf => buf' = buf)
        /\ mpc = "copying" /\ mpc' = "add"
    BY <1>6 DEF MCopyEnd, MGoto
  <2>2. block \in {written, Torn} \ {0} /\ (buf = block \/ bare)
    BY <2>1 DEF NewestInv, BlockInv, Pending, TornInv
  <2>3. BlockInv' BY <2>1, <2>2 DEF NewestInv, BlockInv
  <2>4. BufInv' BY <1>0, <2>1, <2>2 DEF TypeOK, NewestInv, BlockInv, BufInv
  <2> QED BY <2>3, <2>4 DEF NewestInv
<1>7. CASE MAdd
  <2>1. /\ UNCHANGED <<esnd, wpc, block, written, msg>>
        /\ mpc = "add" /\ mpc' = "unlock"
        /\ IF buf = Torn THEN handed' = handed ELSE handed' = buf
    BY <1>7 DEF MAdd, MGoto
  <2>2. Pending' => Pending BY <2>1 DEF Pending
  <2>3. BlockInv' BY <1>0, <2>1, <2>2 DEF TypeOK, NewestInv, BlockInv, BufInv
  <2> QED BY <2>1, <2>3 DEF NewestInv, BufInv
<1>8. CASE MonitorCrash
  <2>1. UNCHANGED <<wpc, written, handed, msg>> /\ mpc' = "down"
    BY <1>8 DEF MonitorCrash
  <2>2. CASE "map" \in serverHas
    <3>1. (esnd' => esnd) /\ block' = block
      BY <1>8, <2>2 DEF MonitorCrash, ObjectsAfter
    <3> QED BY <2>1, <3>1 DEF Pending, NewestInv, BlockInv, BufInv
  <2>3. CASE "map" \notin serverHas
    <3>1. serverHas = {} /\ \A w \in Writers : wpc[w] = "idle"
      BY <2>3 DEF LockInv, ServerPresence
    <3>2. esnd' = FALSE /\ block' = 0
      BY <1>8, <3>1 DEF MonitorCrash, ObjectsAfter
    <3>3. ~Pending' BY <2>1, <3>1, <3>2 DEF Pending
    <3> QED BY <2>1, <3>2, <3>3 DEF NewestInv, BlockInv, BufInv
  <2> QED BY <2>2, <2>3
<1>9. CASE ServerCrash
  <2>1. /\ UNCHANGED <<mpc, buf, written, handed, bare>>
        /\ wpc' = [w \in Writers |-> "idle"] /\ msg' = [w \in Writers |-> 0]
    BY <1>9 DEF ServerCrash
  <2>2. \A w \in Writers : msg'[w] <= written' BY <1>0, <2>1 DEF TypeOK
  <2>3. CASE mpc # "down"
    <3>1. (esnd' => esnd) /\ block' = block
      BY <1>9, <2>3 DEF ServerCrash, ObjectsAfter, MonitorHas, Objects
    <3>2. Pending' => Pending BY <2>1, <3>1 DEF Pending
    <3> QED BY <2>1, <2>2, <3>1, <3>2 DEF NewestInv, BlockInv, BufInv
  <2>4. CASE mpc = "down"
    <3>1. MonitorHas = {} BY <2>4 DEF MonitorHas, LockInv, MonitorPresence, LoopPC
    <3>2. esnd' = FALSE /\ block' = 0
      BY <1>9, <3>1 DEF ServerCrash, ObjectsAfter
    <3>3. ~Pending' BY <2>1, <2>4, <3>2 DEF Pending
    <3> QED BY <2>1, <2>2, <2>4, <3>2, <3>3 DEF NewestInv, BlockInv, BufInv
  <2> QED BY <2>3, <2>4
<1> QED BY <1>1, <1>2, <1>3, <1>4, <1>5, <1>6, <1>7, <1>8, <1>9
        DEF Next, shm_write, main_loop
-----------------------------------------------------------------------------
(* Every step keeps the newest message in the block and its announcement   *)
(* under way.                                                              *)
LEMMA DataNext == LockInv /\ NewestInv /\ DataInv /\ [Next]_vars => DataInv'
<1> SUFFICES ASSUME LockInv, NewestInv, DataInv, [Next]_vars PROVE DataInv'
  OBVIOUS
<1> USE DEF history, link, shared, hooks, monitor
<1>0. TypeOK BY DEF LockInv
<1>1. ASSUME NEW w \in Writers,
             \/ WBegin(w) \/ WPass(w) \/ WLock(w) \/ WLockAbandoned(w)
             \/ WLockTimeout(w) \/ WLockFails(w)
      PROVE  DataInv'
  <2> USE <1>1 DEF WBegin, WPass, WLock, WLockAbandoned, WLockTimeout,
                   WLockFails, WReturn, WGoto
  <2>1. UNCHANGED <<block, written, handed, lost, mpc, buf, esnd>> OBVIOUS
  <2>2. \A v \in Writers : wpc[v] \in {"unlock", "signal"} =>
          wpc'[v] = wpc[v] /\ msg'[v] = msg[v]
    BY <1>0 DEF TypeOK
  <2>3. Copying' = Copying BY <1>0 DEF Copying, TypeOK
  <2> QED BY ONLY DataInv, <2>1, <2>2, <2>3 DEF DataInv, NewestAnnounced
<1>2. ASSUME NEW w \in Writers, WCopyStart(w) PROVE DataInv'
  <2>1. Copying' # {} BY <1>0, <1>2 DEF WCopyStart, WGoto, TypeOK, Copying
  <2> QED BY <1>2, <2>1 DEF WCopyStart, DataInv, NewestAnnounced
<1>3. ASSUME NEW w \in Writers, WCopyEnd(w) PROVE DataInv'
  <2>1. /\ wpc'[w] = "unlock" /\ msg'[w] = written' /\ written' = written + 1
        /\ lost' = written' \/ (block' = written' /\ lost' = lost)
    BY <1>0, <1>3 DEF WCopyEnd, WGoto, TypeOK
  <2> QED BY <1>0, <2>1 DEF DataInv, NewestAnnounced, TypeOK
<1>4. ASSUME NEW w \in Writers, WUnlock(w) \/ WSignal(w) PROVE DataInv'
  <2> USE <1>4 DEF WUnlock, WSignal, WReturn, WGoto
  <2>1. UNCHANGED <<block, written, handed, lost, mpc, buf>> OBVIOUS
  <2>2. Copying' = Copying BY <1>0 DEF Copying, TypeOK
  <2>3. CASE WUnlock(w)
    <3>1. esnd' = esnd /\ msg' = msg BY <2>3
    <3>2. \A v \in Writers :
            wpc[v] \in {"unlock", "signal"} => wpc'[v] \in {"unlock", "signal"}
      BY <1>0, <2>3 DEF TypeOK
    <3> QED BY ONLY DataInv, <2>1, <2>2, <3>1, <3>2 DEF DataInv, NewestAnnounced
  <2>4. CASE WSignal(w)
    <3>1. esnd' = TRUE BY <2>4
    <3> QED BY ONLY DataInv, <2>1, <2>2, <3>1 DEF DataInv, NewestAnnounced
  <2> QED BY <1>4, <2>3, <2>4
<1>5. ASSUME NEW w \in Writers, WNoEvent(w) PROVE DataInv'
  <2>1. /\ UNCHANGED <<block, written, handed, mpc, buf, esnd>>
        /\ lost' = IF msg[w] > lost THEN msg[w] ELSE lost
    BY <1>5 DEF WNoEvent
  <2>2. Copying' = Copying
    BY <1>0, <1>5 DEF WNoEvent, WReturn, WGoto, Copying, TypeOK
  <2>3. \A v \in Writers \ {w} : wpc'[v] = wpc[v] /\ msg'[v] = msg[v]
    BY <1>0, <1>5 DEF WNoEvent, WReturn, WGoto, TypeOK
  <2>4. msg[w] <= written /\ msg[w] \in Nat
    BY <1>0 DEF NewestInv, BlockInv, TypeOK
  <2>5. lost' <= written' /\ lost <= lost'
    BY <1>0, <2>1, <2>4 DEF TypeOK, DataInv
  <2>6. written > lost' => msg[w] # written BY <1>0, <2>1, <2>4 DEF TypeOK
  <2>7. written > lost' => written > lost BY <1>0, <2>1, <2>4, <2>5 DEF TypeOK
  <2> QED BY ONLY DataInv, <2>1, <2>2, <2>3, <2>5, <2>6, <2>7
          DEF DataInv, NewestAnnounced
<1>6. CASE \/ Connect \/ ConnectMutex \/ ConnectEvent \/ ConnectFails
           \/ MStart \/ MNameStart \/ MNameEnd \/ MOpenMutex \/ MOpenEvent
           \/ MWait \/ MWaitTimeout \/ MLock \/ MUnlock \/ UNCHANGED vars
  <2> USE <1>6 DEF Connect, ConnectMutex, ConnectEvent, ConnectFails, MStart,
           MNameStart, MNameEnd, MOpenMutex, MOpenEvent, MWait, MWaitTimeout,
           MLock, MUnlock, MGoto, vars
  <2>1. UNCHANGED <<block, written, handed, lost, wpc, msg>> OBVIOUS
  <2>2. esnd => esnd' \/ mpc' = "lock" OBVIOUS
  <2>3. mpc \in {"lock", "copy"} => mpc' \in {"lock", "copy"} OBVIOUS
  <2>4. mpc \in {"copying", "add"} => UNCHANGED <<mpc, buf>> OBVIOUS
  <2> QED BY ONLY DataInv, <2>1, <2>2, <2>3, <2>4
          DEF DataInv, NewestAnnounced, Copying
<1>7. CASE MLockAbandoned \/ MLockFails
  <2>1. UNCHANGED <<block, written, handed>> /\ lost' = written
    BY <1>7 DEF MLockAbandoned, MLockFails
  <2> QED BY <1>0, <2>1 DEF DataInv, NewestAnnounced, TypeOK
<1>8. CASE MCopyStart
  <2>1. /\ UNCHANGED <<esnd, block, written, handed, lost, wpc, msg>>
        /\ mpc = "copy" /\ mpc' = "copying" /\ buf' = block
    BY <1>8 DEF MCopyStart, MGoto
  <2> QED BY ONLY DataInv, <2>1 DEF DataInv, NewestAnnounced, Copying
<1>9. CASE MCopyEnd
  <2>1. /\ UNCHANGED <<esnd, block, written, handed, lost, wpc, msg>>
        /\ mpc = "copying" /\ mpc' = "add" /\ (block = buf => buf' = buf)
    BY <1>9 DEF MCopyEnd, MGoto
  <2> QED BY ONLY DataInv, <2>1 DEF DataInv, NewestAnnounced, Copying
<1>10. CASE MAdd
  <2>1. /\ UNCHANGED <<esnd, block, written, lost, wpc, msg>>
        /\ mpc = "add" /\ (buf = Torn => handed' = handed)
        /\ (buf # Torn => handed' = buf)
    BY <1>10 DEF MAdd, MGoto
  <2>2. handed' \in Nat /\ handed <= handed'
    BY <1>0, <2>1 DEF TypeOK, NewestInv, BufInv
  <2>3. written > handed' => written > handed BY <1>0, <2>2 DEF TypeOK
  <2>4. buf = written => handed' = written BY <1>0, <2>1 DEF TypeOK
  <2>5. handed' = written => ~(written > handed') BY <1>0 DEF TypeOK
  <2> QED BY ONLY DataInv, <2>1, <2>3, <2>4, <2>5
          DEF DataInv, NewestAnnounced, Copying
<1>11. CASE MonitorCrash
  <2>1. UNCHANGED <<wpc, msg, written, handed>> BY <1>11 DEF MonitorCrash
  <2>2. lost' \in {lost, written} BY <1>11 DEF MonitorCrash
  <2>3. written > lost' =>
          /\ mpc \notin {"lock", "copy", "copying", "add"}
          /\ esnd => "event" \in serverHas
          /\ written > lost
    BY <1>0, <1>11 DEF MonitorCrash, TypeOK
  <2>4. ASSUME written > handed, written > lost', "map" \notin serverHas
        PROVE  FALSE
    <3>1. serverHas = {} /\ \A w \in Writers : wpc[w] = "idle"
      BY <2>4 DEF LockInv, ServerPresence
    <3> QED BY <2>3, <2>4, <3>1 DEF DataInv, NewestAnnounced, Copying
  <2>5. written > handed /\ written > lost' => block' = block
    BY <1>11, <2>4 DEF MonitorCrash, ObjectsAfter
  <2>6. esnd /\ "event" \in serverHas => esnd'
    BY <1>11 DEF MonitorCrash, ObjectsAfter
  <2>7. lost' <= written' BY <1>0, <2>1, <2>2 DEF TypeOK, DataInv
  <2> QED BY ONLY DataInv, <2>1, <2>3, <2>5, <2>6, <2>7
          DEF DataInv, NewestAnnounced, Copying
<1>12. CASE ServerCrash
  <2>1. UNCHANGED <<mpc, buf, written, handed>> BY <1>12 DEF ServerCrash
  <2>2. lost' \in {lost, written} BY <1>12 DEF ServerCrash
  <2>3. written > lost' =>
          /\ \A w \in Writers : wpc[w] \notin {"copying", "unlock", "signal"}
          /\ esnd => "event" \in MonitorHas
          /\ written > lost
    BY <1>0, <1>12 DEF ServerCrash, TypeOK
  <2>4. written > lost' => Copying = {} BY <2>3 DEF Copying
  <2>5. written > handed /\ written > lost' => mpc # "down"
    BY <2>3, <2>4 DEF DataInv, NewestAnnounced, MonitorHas, LockInv,
                      MonitorPresence, LoopPC
  <2>6. written > handed /\ written > lost' => block' = block
    BY <1>12, <2>5 DEF ServerCrash, ObjectsAfter, MonitorHas, Objects
  <2>7. esnd /\ "event" \in MonitorHas => esnd'
    BY <1>12 DEF ServerCrash, ObjectsAfter
  <2>8. lost' <= written' BY <1>0, <2>1, <2>2 DEF TypeOK, DataInv
  <2> QED BY ONLY DataInv, <2>1, <2>3, <2>4, <2>6, <2>7, <2>8
          DEF DataInv, NewestAnnounced
<1> QED BY <1>1, <1>2, <1>3, <1>4, <1>5, <1>6, <1>7, <1>8, <1>9, <1>10, <1>11,
           <1>12 DEF Next, shm_write, main_loop
-----------------------------------------------------------------------------
(* The hooks about to call SetEvent are some of finitely many.             *)
LEMMA ToSignalFinite ==
  /\ IsFiniteSet(ToSignal)
  /\ Cardinality(ToSignal) \in Nat /\ Cardinality(Writers) \in Nat
  /\ Cardinality(ToSignal) <= Cardinality(Writers)
BY FS_Subset, FS_CardinalityType DEF ToSignal

(* No signal is outstanding at first.                                      *)
LEMMA BudgetInit == Init => SignalBudget
<1> SUFFICES ASSUME Init PROVE SignalBudget OBVIOUS
<1>1. ToSignal = {} BY DEF Init, ToSignal
<1>2. Cardinality(ToSignal) = 0 BY <1>1, FS_EmptySet
<1> QED BY <1>2, ToSignalFinite DEF Init, SignalBudget, Count

(* Only writing a message creates a signal for it; a signal is set, taken  *)
(* and used up by one pass of the Monitor's loop, or is lost.              *)
LEMMA BudgetNext == TypeOK /\ SignalBudget /\ [Next]_vars => SignalBudget'
<1> SUFFICES ASSUME TypeOK, SignalBudget, [Next]_vars PROVE SignalBudget'
  OBVIOUS
<1> USE DEF history, link, shared, hooks, monitor
<1>0. Cardinality(ToSignal) \in Nat /\ Cardinality(Writers) \in Nat
  BY ToSignalFinite
<1>1. ASSUME NEW w \in Writers,
             \/ WBegin(w) \/ WPass(w) \/ WLock(w) \/ WLockAbandoned(w)
             \/ WLockTimeout(w) \/ WLockFails(w) \/ WCopyStart(w) \/ WUnlock(w)
      PROVE  SignalBudget'
  <2>1. ToSignal' = ToSignal
    BY <1>1 DEF WBegin, WPass, WLock, WLockAbandoned, WLockTimeout, WLockFails,
                WCopyStart, WUnlock, WReturn, WGoto, ToSignal, TypeOK
  <2>2. UNCHANGED <<copies, esnd, mpc>>
    BY <1>1 DEF WBegin, WPass, WLock, WLockAbandoned, WLockTimeout, WLockFails,
                WCopyStart, WUnlock
  <2> QED BY <2>1, <2>2 DEF SignalBudget
<1>2. ASSUME NEW w \in Writers, WCopyEnd(w) PROVE SignalBudget'
  <2>1. /\ Cardinality(ToSignal') \in Nat
        /\ Cardinality(ToSignal') <= Cardinality(Writers)
    BY FS_Subset, FS_CardinalityType DEF ToSignal
  <2>2. copies' = 0 BY <1>2 DEF WCopyEnd
  <2> QED BY <1>0, <2>1, <2>2 DEF SignalBudget, Count
<1>3. ASSUME NEW w \in Writers, WSignal(w) \/ WNoEvent(w) PROVE SignalBudget'
  <2>1. w \in ToSignal /\ ToSignal' = ToSignal \ {w}
    BY <1>3 DEF WSignal, WNoEvent, WReturn, WGoto, ToSignal, TypeOK
  <2>2. Cardinality(ToSignal') = Cardinality(ToSignal) - 1
    BY <2>1, ToSignalFinite, FS_RemoveElement
  <2>3. UNCHANGED <<copies, mpc>> BY <1>3 DEF WSignal, WNoEvent
  <2>4. Count(esnd') <= Count(esnd) + 1 BY DEF Count
  <2> QED BY <1>0, <2>2, <2>3, <2>4 DEF SignalBudget, Count, TypeOK
<1>4. CASE \/ UNCHANGED vars \/ Connect \/ ConnectMutex \/ ConnectEvent
           \/ ConnectFails \/ MStart \/ main_loop
  <2>1. ToSignal' = ToSignal
    BY <1>4 DEF vars, Connect, ConnectMutex, ConnectEvent, ConnectFails, MStart,
       main_loop, MNameStart, MNameEnd, MOpenMutex, MOpenEvent, MWait,
       MWaitTimeout, MLock, MLockAbandoned, MLockFails, MCopyStart, MCopyEnd,
       MAdd, MUnlock, ToSignal
  <2>2. CASE MWait
    BY <1>0, <2>1, <2>2 DEF MWait, MGoto, SignalBudget, Count, TypeOK
  <2>3. CASE MAdd
    BY <1>0, <2>1, <2>3 DEF MAdd, MGoto, SignalBudget, Count, TypeOK
  <2>4. CASE \/ UNCHANGED vars \/ Connect \/ ConnectMutex \/ ConnectEvent
             \/ ConnectFails \/ MStart \/ MNameStart \/ MNameEnd \/ MOpenMutex
             \/ MOpenEvent \/ MWaitTimeout \/ MLock \/ MLockAbandoned
             \/ MLockFails \/ MCopyStart \/ MCopyEnd \/ MUnlock
    <3> USE <2>4 DEF vars, Connect, ConnectMutex, ConnectEvent, ConnectFails,
         MStart, MNameStart, MNameEnd, MOpenMutex, MOpenEvent, MWaitTimeout,
         MLock, MLockAbandoned, MLockFails, MCopyStart, MCopyEnd, MUnlock, MGoto
    <3>1. UNCHANGED <<copies, esnd>> OBVIOUS
    <3>2. mpc' \in {"lock", "copy", "copying", "add"} =>
            mpc \in {"lock", "copy", "copying", "add"}
      OBVIOUS
    <3> QED BY ONLY TypeOK, SignalBudget, <1>0, <2>1, <3>1, <3>2
            DEF SignalBudget, Count, TypeOK
  <2> QED BY <1>4, <2>2, <2>3, <2>4 DEF main_loop
<1>5. CASE MonitorCrash
  <2>1. ToSignal' = ToSignal BY <1>5 DEF MonitorCrash, ToSignal
  <2>2. copies' = copies /\ mpc' = "down" /\ (esnd' => esnd)
    BY <1>5 DEF MonitorCrash, ObjectsAfter
  <2> QED BY <1>0, <2>1, <2>2 DEF SignalBudget, Count, TypeOK
<1>6. CASE ServerCrash
  <2>1. ToSignal' = {} BY <1>6 DEF ServerCrash, ToSignal
  <2>2. Cardinality(ToSignal') = 0 BY <2>1, FS_EmptySet
  <2>3. UNCHANGED <<copies, mpc>> /\ (esnd' => esnd)
    BY <1>6 DEF ServerCrash, ObjectsAfter
  <2> QED BY <1>0, <2>2, <2>3 DEF SignalBudget, Count, TypeOK
<1> QED BY <1>1, <1>2, <1>3, <1>4, <1>5, <1>6 DEF Next, shm_write
-----------------------------------------------------------------------------
(* The parts hold together in every reachable state.                       *)
THEOREM ChannelInvariant == Spec => []IInv
<1>1. Init => IInv
  <2> SUFFICES ASSUME Init PROVE IInv OBVIOUS
  <2>1. BareInv /\ TornInv /\ NewestInv /\ DataInv
    BY DEF Init, BareInv, TornInv, TornExplained, NewestInv, BlockInv, BufInv,
           Pending, DataInv, NewestAnnounced
  <2> QED BY <2>1, LockInvInit, BudgetInit DEF IInv
<1>2. IInv /\ [Next]_vars => IInv'
  BY LockInvNext, BareNext, TornNext, NewestNext, DataNext, BudgetNext
     DEF IInv, LockInv
<1> QED BY <1>1, <1>2, PTL DEF Spec

(* The Monitor passes on a half-written message only after the server has  *)
(* died or a hook has gone without the mutex, for lack of a name in the    *)
(* mapping or on a block that InitSHM was still filling in.                *)
THEOREM ChannelTorn == Spec => []TornExplained
<1>1. IInv => TornExplained BY DEF IInv, TornInv
<1> QED BY <1>1, ChannelInvariant, PTL

(* The newest message is passed on, has lost its signal, or is announced,  *)
(* also when hooks write without the mutex.                                *)
THEOREM ChannelAnnounced == Spec => []NewestAnnounced
<1>1. IInv => NewestAnnounced BY DEF IInv, DataInv
<1> QED BY <1>1, ChannelInvariant, PTL

(* A message is passed on at most two times more than there are hooks.     *)
THEOREM ChannelDuplicates == Spec => []DuplicatesBounded
<1>1. IInv => DuplicatesBounded
  BY ToSignalFinite
     DEF IInv, LockInv, TypeOK, SignalBudget, DuplicatesBounded, Count
<1> QED BY <1>1, ChannelInvariant, PTL

(* What the Monitor passes on is newer than all it passed on before, for   *)
(* any number of hooks, with or without the mutex, and through any ends    *)
(* and starts of both processes; and it is the newest message written as   *)
(* long as every hook has used the mutex.                                  *)
THEOREM ChannelNewest == Spec => HandsNewest
<1>1. IInv /\ [Next]_vars
      => [handed' # handed =>
            handed' > handed /\ (handed' = written \/ bare)]_vars
  <2> SUFFICES ASSUME IInv, Next, handed' # handed
               PROVE  handed' > handed /\ (handed' = written \/ bare)
    OBVIOUS
  <2>1. MAdd
    BY DEF Next, Connect, ConnectMutex, ConnectEvent, ConnectFails, WBegin,
           shm_write, WPass, WLock, WLockAbandoned, WLockTimeout, WLockFails,
           WCopyStart, WCopyEnd, WUnlock, WSignal, WNoEvent, MStart, main_loop,
           MNameStart, MNameEnd, MOpenMutex, MOpenEvent, MWait, MWaitTimeout,
           MLock, MLockAbandoned, MLockFails, MCopyStart, MCopyEnd, MUnlock,
           MonitorCrash, ServerCrash, history
  <2>2. handed' = buf /\ buf # Torn /\ mpc = "add" BY <2>1 DEF MAdd, MGoto
  <2>3. handed <= buf /\ (buf = written \/ bare)
    BY <2>2 DEF IInv, NewestInv, BufInv
  <2>4. handed \in Nat /\ buf \in Nat
    BY <2>2 DEF IInv, LockInv, TypeOK
  <2> QED BY <2>2, <2>3, <2>4
<1> QED BY <1>1, ChannelInvariant, PTL DEF Spec, HandsNewest
=============================================================================
