------------------------------ MODULE Win32Sync ------------------------------
(***************************************************************************)
(* The Win32 mutex object, as libdhcp/src/lock.cpp uses it.                *)
(*                                                                         *)
(* A mutex is owned by a thread and can be acquired by it repeatedly; it   *)
(* becomes free when it is released as often.  When its owner terminates   *)
(* the mutex becomes free and abandoned: the next wait does take ownership *)
(* but returns WAIT_ABANDONED instead of WAIT_OBJECT_0.  lock_wait takes   *)
(* every result other than WAIT_OBJECT_0 for a failure.                    *)
(***************************************************************************)
EXTENDS Integers

CONSTANT NoThread       \* owner of a mutex nobody owns

Mutex(Threads) ==
  [owner : Threads \cup {NoThread}, count : Nat, abandoned : BOOLEAN]

(* CreateMutex with bInitialOwner FALSE                                    *)
NewMutex == [owner |-> NoThread, count |-> 0, abandoned |-> FALSE]

(* What the wait leaves behind when it is satisfied for thread t.          *)
Taken(m, t) == [owner |-> t, count |-> m.count + 1, abandoned |-> FALSE]

(* ReleaseMutex by thread t; it fails and changes nothing for others.      *)
Released(m, t) ==
  IF m.owner # t THEN m
  ELSE IF m.count > 1 THEN [m EXCEPT !.count = m.count - 1]
  ELSE NewMutex

(* Termination of the threads ts.                                          *)
Deserted(m, ts) ==
  IF m.owner \in ts
    THEN [owner |-> NoThread, count |-> 0, abandoned |-> TRUE]
    ELSE m
-----------------------------------------------------------------------------
(* The three outcomes of lock_wait(lock, time), given the mutex before and *)
(* after the wait.  Only the first returns TRUE.                           *)
LockWaitOk(m, mNext, t) ==            \* WAIT_OBJECT_0
  /\ m.owner \in {NoThread, t}
  /\ ~m.abandoned
  /\ mNext = Taken(m, t)

LockWaitAbandoned(m, mNext, t) ==     \* WAIT_ABANDONED: FALSE, yet t owns it
  /\ m.owner = NoThread
  /\ m.abandoned
  /\ mNext = Taken(m, t)

LockWaitTimeout(m, mNext, t) ==       \* WAIT_TIMEOUT: FALSE
  /\ m.owner \notin {NoThread, t}
  /\ mNext = m
==============================================================================
