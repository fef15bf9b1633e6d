--------------------------- MODULE AclUpdateProofs ---------------------------
(***************************************************************************)
(* The shared access list, for any number of readers, versions, failures   *)
(* and ends of processes.                                                  *)
(*                                                                         *)
(* The invariant has layers: types, with the time stamps of the table;     *)
(* who holds the lock, dead holders included; that the list is whole when  *)
(* nobody writes it; and which rows are missing from it.                   *)
(***************************************************************************)
EXTENDS AclUpdate, FiniteSetTheorems, TLAPS

(* Rows are stamped with a second of the past.                             *)
Stamps == \A v \in Versions : ts[v] \in 1..clock

TypeInv == TypeOK /\ Stamps

(* Sets of versions are finite.                                            *)
LEMMA VersionSets ==
  ASSUME NEW S, ts \in Seq(Nat), S \subseteq Versions
  PROVE  IsFiniteSet(S) /\ Cardinality(S) \in Nat
<1>1. Len(ts) \in Nat OBVIOUS
<1>2. IsFiniteSet(Versions) BY <1>1, FS_Interval DEF Versions
<1> QED BY <1>2, FS_Subset, FS_CardinalityType

(* Torn is no set of versions.                                             *)
LEMMA TornIsNoSet ==
  ASSUME TypeOK, NEW S, S \subseteq Versions
  PROVE  S # Torn
<1>1. S \subseteq 1..MaxVersions
  BY UpdateAssumption DEF TypeOK, Versions
<1> QED BY <1>1, UpdateAssumption

(* Any state the lock may be left in is a state of a lock.                 *)
LEMMA AnythingIsWord ==
  Free \in Word /\ Anything \subseteq Word
<1>1. Cardinality(Readers) \in Nat BY UpdateAssumption, FS_CardinalityType
<1> QED BY <1>1 DEF Free, Word, Anything

LEMMA InitTypes == Init => TypeInv
<1> SUFFICES ASSUME Init PROVE TypeInv OBVIOUS
<1>1. ts = <<>> /\ Len(ts) = 0 /\ ts \in Seq(Nat) BY DEF Init
<1>2. Versions = {} BY <1>1 DEF Versions
<1>3. lock \in Word BY AnythingIsWord DEF Init
<1>4. MaxVersions \in Nat BY UpdateAssumption
<1>5. view \in [Readers -> [length : Nat, entry : {Torn} \cup SUBSET Versions]]
  BY DEF Init, Nothing
<1>6. rpc \in [Readers -> ReaderPC] /\ upc \in UpdaterPC
  BY DEF Init, ReaderPC, UpdaterPC
<1>7. last \in 0..clock /\ counter \in 0..2 /\ asof \in 0..Len(ts)
      /\ clock \in Nat \ {0} /\ length \in Nat /\ Len(ts) <= MaxVersions
      /\ failures \in Nat /\ crashes \in Nat
  BY <1>1, <1>4 DEF Init
<1>8. TypeOK
  BY <1>1, <1>2, <1>3, <1>5, <1>6, <1>7 DEF Init, TypeOK
<1>9. Stamps BY <1>2 DEF Stamps
<1> QED BY <1>8, <1>9 DEF TypeInv

(* The database.                                                           *)
LEMMA DatabaseTypes == TypeInv /\ Database => TypeInv'
<1> SUFFICES ASSUME TypeInv, Database PROVE TypeInv' OBVIOUS
<1> USE DEF TypeInv
<1>0. UNCHANGED <<updater, list, server, history>>
  BY DEF Database, WriteRow, DeleteRow, Tick, LoseConnection
<1>a. UNCHANGED <<last, upc, counter, buff, exit, length, entry, lock, acl, rpc,
                  view, failed, asof, abandoned, reset, failures, crashes>>
  BY <1>0 DEF updater, list, server, history
<1>1. CASE WriteRow
  <2>1. /\ ts' = Append(ts, clock) /\ clock' = clock /\ Len(ts) < MaxVersions
        /\ lost' = lost
    BY <1>1 DEF WriteRow
  <2>2. ts \in Seq(Nat) /\ clock \in Nat /\ Len(ts) \in Nat
    BY DEF TypeOK
  <2>3. ts' \in Seq(Nat) /\ Len(ts') = Len(ts) + 1 /\ Len(ts') <= MaxVersions
    BY <2>1, <2>2, UpdateAssumption
  <2>4. Versions' = Versions \cup {Len(ts) + 1}
    BY <2>2, <2>3 DEF Versions
  <2>5. db' \subseteq Versions' BY <1>1, <2>4 DEF WriteRow, TypeOK
  <2>6. view' \in [Readers -> [length : Nat,
                               entry : {Torn} \cup SUBSET (Versions')]]
    BY <1>a, <2>4 DEF TypeOK
  <2>7. asof' \in 0..Len(ts') BY <1>a, <2>2, <2>3 DEF TypeOK
  <2>8. /\ buff' \subseteq Versions'
        /\ (entry' = Torn \/ entry' \subseteq Versions')
    BY <1>a, <2>4 DEF TypeOK
  <2>9. TypeOK' BY <1>a, <2>1, <2>3, <2>5, <2>6, <2>7, <2>8 DEF TypeOK
  <2>10. Stamps'
    <3>1. last \in 0..clock /\ clock \in Nat BY DEF TypeOK
    <3>2. \A v \in Versions : ts'[v] = ts[v] BY <2>1, <2>2 DEF Versions
    <3>3. ts'[Len(ts) + 1] = clock BY <2>1, <2>2
    <3>4. clock \in 1..clock BY DEF TypeOK
    <3>5. \A v \in Versions : ts[v] \in 1..clock BY DEF Stamps
    <3>6. \A v \in Versions : ts'[v] \in 1..clock BY <3>2, <3>5
    <3>7. \A v \in Versions' : ts'[v] \in 1..clock BY <2>4, <3>3, <3>4, <3>6
    <3>8. clock' = clock BY <2>1
    <3> QED BY <3>7, <3>8 DEF Stamps
  <2> QED BY <2>9, <2>10
<1>2. CASE DeleteRow
  <2>1. ts' = ts /\ clock' = clock /\ lost' = lost /\ db' \subseteq db
    BY <1>2 DEF DeleteRow
  <2>2. Versions' = Versions BY <2>1 DEF Versions
  <2> QED BY <1>a, <2>1, <2>2 DEF TypeOK, Stamps
<1>3. CASE Tick
  <2>1. ts' = ts /\ db' = db /\ lost' = lost /\ clock' = clock + 1 BY <1>3 DEF Tick
  <2>2. Versions' = Versions BY <2>1 DEF Versions
  <2>3. clock \in Nat /\ last \in 0..clock BY DEF TypeOK
  <2>4. clock' \in Nat \ {0} /\ last' \in 0..clock' BY <1>a, <2>1, <2>3
  <2>5. TypeOK' BY <1>a, <2>1, <2>2, <2>4 DEF TypeOK
  <2>6. Stamps' BY <2>1, <2>2, <2>3 DEF Stamps
  <2> QED BY <2>5, <2>6
<1>4. CASE LoseConnection
  <2>1. UNCHANGED <<db, ts, clock>> /\ lost' = TRUE BY <1>4 DEF LoseConnection
  <2>2. Versions' = Versions BY <2>1 DEF Versions
  <2> QED BY <1>a, <2>1, <2>2 DEF TypeOK, Stamps
<1> QED BY <1>1, <1>2, <1>3, <1>4 DEF Database

(* The updater; it leaves the rows and the server alone.                   *)
LEMMA UpdaterTypes == TypeInv /\ (acl_update_thread \/ acl_update_stop) => TypeInv'
<1> SUFFICES ASSUME TypeInv, acl_update_thread \/ acl_update_stop PROVE TypeInv'
  OBVIOUS
<1> USE DEF TypeInv, UpdateStep, acl_update_thread
<1>0. UNCHANGED <<db, ts, clock, server>> /\ lost' \in BOOLEAN
  BY DEF acl_update_stop, Connect, ConnectFails, WaitExit, WaitOnly,
         CheckNothing, CheckFound, Load, LoadFails, WriteLock, SetLength,
         CopyStart, CopyEnd, WriteUnlock, table, TypeOK
<1>a. UNCHANGED <<db, ts, clock, acl, rpc, view>> /\ lost' \in BOOLEAN
  BY <1>0 DEF server
<1>b. Versions' = Versions BY <1>a DEF Versions
<1>c. Stamps' BY <1>a, <1>b DEF Stamps
<1>d. counter \in 0..2 => (counter + 1) % 3 \in 0..2 OBVIOUS
<1> USE DEF list, server, history
<1>1. CASE Connect
  BY <1>1, <1>a, <1>b, <1>c DEF Connect, UGoto, TypeOK, UpdaterPC
<1>2. CASE ConnectFails
  BY <1>2, <1>a, <1>b, <1>c DEF ConnectFails, UGoto, TypeOK, UpdaterPC
<1>3. CASE WaitExit
  BY <1>3, <1>a, <1>b, <1>c DEF WaitExit, UGoto, TypeOK, UpdaterPC
<1>4. CASE WaitOnly
  BY <1>4, <1>a, <1>b, <1>c, <1>d DEF WaitOnly, WaitTimeout, UGoto, TypeOK,
                                      UpdaterPC
<1>5. CASE CheckNothing
  BY <1>5, <1>a, <1>b, <1>c, <1>d DEF CheckNothing, WaitTimeout, UGoto, TypeOK,
                                      UpdaterPC
<1>6. CASE CheckFound
  <2>1. last' \in 0..clock
    <3>1. PICK v \in Newer : last' = ts[v] BY <1>6 DEF CheckFound
    <3>2. ts[v] \in 1..clock /\ clock \in Nat BY DEF Newer, TypeOK, Stamps
    <3> QED BY <3>1, <3>2
  <2> QED BY <1>6, <1>a, <1>b, <1>c, <1>d, <2>1
      DEF CheckFound, WaitTimeout, UGoto, TypeOK, UpdaterPC
<1>7. CASE Load
  <2>1. Len(ts) \in Nat /\ asof' = Len(ts) BY <1>7 DEF Load, TypeOK
  <2> QED BY <1>7, <1>a, <1>b, <1>c, <2>1 DEF Load, UGoto, TypeOK, UpdaterPC
<1>8. CASE LoadFails
  BY <1>8, <1>a, <1>b, <1>c DEF LoadFails, UGoto, TypeOK, UpdaterPC
<1>9. CASE WriteLock
  BY <1>9, <1>a, <1>b, <1>c DEF WriteLock, UGoto, TypeOK, UpdaterPC, Word
<1>10. CASE SetLength
  <2>1. length' \in Nat BY <1>10, VersionSets DEF SetLength, TypeOK
  <2> QED BY <1>10, <1>a, <1>b, <1>c, <2>1 DEF SetLength, UGoto, TypeOK, UpdaterPC
<1>11. CASE CopyStart
  BY <1>11, <1>a, <1>b, <1>c DEF CopyStart, UGoto, TypeOK, UpdaterPC
<1>12. CASE CopyEnd
  BY <1>12, <1>a, <1>b, <1>c DEF CopyEnd, UGoto, TypeOK, UpdaterPC
<1>13. CASE WriteUnlock
  <2>1. lock' \in Word
    BY <1>13, AnythingIsWord DEF WriteUnlock, ReleasedExclusive
  <2> QED BY <1>13, <1>a, <1>b, <1>c, <2>1
      DEF WriteUnlock, UGoto, TypeOK, UpdaterPC
<1>14. CASE acl_update_stop
  BY <1>14, <1>a, <1>b, <1>c DEF acl_update_stop, TypeOK, UpdaterPC
<1> QED BY <1>1, <1>2, <1>3, <1>4, <1>5, <1>6, <1>7, <1>8, <1>9, <1>10, <1>11,
           <1>12, <1>13, <1>14

(* The readers; they change the lock, their position and what they read.   *)
LEMMA ReaderTypes ==
  ASSUME TypeInv, NEW r \in Readers, Call(r) \/ acl_filter(r)
  PROVE  TypeInv'
<1> USE DEF TypeInv, ReadStep, acl_filter
<1>0. UNCHANGED <<table, updater, length, entry, acl, history>>
  BY DEF Call, ReadFaults, ReadLock, ReadLength, Search, ReadUnlock, list
<1>a. UNCHANGED <<db, ts, clock, lost, last, upc, counter, buff, exit, length,
                  entry, acl, failed, asof, abandoned, reset, failures, crashes>>
  BY <1>0 DEF table, updater, history
<1>b. Versions' = Versions BY <1>a DEF Versions
<1>c. Stamps' BY <1>a, <1>b DEF Stamps
<1>d. /\ rpc \in [Readers -> ReaderPC] /\ lock \in Word /\ length \in Nat
      /\ view \in [Readers -> [length : Nat, entry : {Torn} \cup SUBSET Versions]]
      /\ entry \in {Torn} \cup SUBSET Versions
  BY DEF TypeOK
<1>e. rpc' \in [Readers -> ReaderPC]
  BY <1>d DEF Call, ReadFaults, ReadLock, ReadLength, Search, ReadUnlock, RGoto,
              ReaderPC
<1>f. lock' \in Word
  <2>1. CASE ReadLock(r) BY <2>1, <1>d DEF ReadLock, Word
  <2>2. CASE ReadUnlock(r)
    <3>1. lock.readers > 0 => [lock EXCEPT !.readers = lock.readers - 1] \in Word
      BY <1>d DEF Word
    <3> QED BY <2>2, <3>1, <1>d, AnythingIsWord DEF ReadUnlock, ReleasedShared
  <2>3. CASE Call(r) \/ ReadFaults(r) \/ ReadLength(r) \/ Search(r)
    BY <2>3, <1>d DEF Call, ReadFaults, ReadLength, Search, list
  <2> QED BY <2>1, <2>2, <2>3
<1>g. view' \in [Readers -> [length : Nat, entry : {Torn} \cup SUBSET Versions]]
  <2>1. CASE ReadLength(r)
    BY <2>1, <1>d DEF ReadLength
  <2>2. CASE Search(r)
    BY <2>2, <1>d DEF Search
  <2>3. CASE ReadUnlock(r)
    <3>1. Nothing \in [length : Nat, entry : {Torn} \cup SUBSET Versions]
      BY DEF Nothing
    <3> QED BY <2>3, <3>1, <1>d DEF ReadUnlock
  <2>4. CASE Call(r) \/ ReadFaults(r) \/ ReadLock(r)
    BY <2>4, <1>d DEF Call, ReadFaults, ReadLock
  <2> QED BY <2>1, <2>2, <2>3, <2>4
<1>h. TypeOK' BY <1>a, <1>b, <1>e, <1>f, <1>g DEF TypeOK
<1> QED BY <1>c, <1>h

(* Ends and starts of the processes.                                       *)
LEMMA ProcessTypes == TypeInv /\ Processes => TypeInv'
<1> SUFFICES ASSUME TypeInv, Processes PROVE TypeInv' OBVIOUS
<1> USE DEF TypeInv
<1>0. UNCHANGED table
  BY DEF Processes, acl_init, acl_init_fails, ServerEnds, acl_update_start, MonitorEnds
<1>a. UNCHANGED <<db, ts, clock, lost>> BY <1>0 DEF table
<1>b. Versions' = Versions BY <1>a DEF Versions
<1>c. Stamps' BY <1>a, <1>b DEF Stamps
<1>d. Nothing \in [length : Nat, entry : {Torn} \cup SUBSET Versions]
  BY DEF Nothing
<1>e. (\/ UNCHANGED list /\ abandoned' \subseteq {"updater", "reader"}
       \/ length' = 0 /\ entry' = {} /\ lock' = Free /\ abandoned' = {})
      => /\ length' \in Nat /\ (entry' = Torn \/ entry' \subseteq Versions)
         /\ lock' \in Word /\ abandoned' \subseteq {"updater", "reader"}
  BY AnythingIsWord DEF list, TypeOK
<1>f. 0 \in 0..clock /\ 0 \in 0..2 BY DEF TypeOK
<1>1. CASE acl_init
  <2>1. /\ acl' = "list" /\ lock' = Free /\ abandoned' = {}
        /\ reset' \in BOOLEAN /\ crashes' \in Nat
        /\ UNCHANGED <<last, upc, counter, buff, exit, length, entry, rpc, view,
                       failed, asof, failures>>
    BY <1>1 DEF acl_init, Restarts, updater, TypeOK
  <2>2. TypeOK' BY <1>a, <1>b, <2>1, AnythingIsWord, Zenon DEF TypeOK
  <2> QED BY <1>c, <2>2
<1>5. CASE acl_init_fails
  <2>1. /\ acl' \in {"handle", "null"} /\ crashes' \in Nat
        /\ UNCHANGED <<last, upc, counter, buff, exit, length, entry, lock, rpc,
                       view, failed, asof, abandoned, reset, failures>>
    BY <1>5 DEF acl_init_fails, updater, list, TypeOK
  <2>2. acl' \in {"none", "null", "handle", "list"} BY <2>1
  <2>3. TypeOK' BY <1>a, <1>b, <2>1, <2>2, Zenon DEF TypeOK
  <2> QED BY <1>c, <2>3
<1>2. CASE ServerEnds
  <2>1. /\ length' \in Nat /\ (entry' = Torn \/ entry' \subseteq Versions)
        /\ lock' \in Word /\ abandoned' \subseteq {"updater", "reader"}
    <3>1. CASE upc \in Connected
      BY <1>2, <1>e, <3>1 DEF ServerEnds, Unmap, TypeOK
    <3>2. CASE upc \notin Connected
      BY <1>2, <1>e, <3>2 DEF ServerEnds, Unmap
    <3> QED BY <3>1, <3>2
  <2>2. rpc' \in [Readers -> ReaderPC] BY <1>2 DEF ServerEnds, ReaderPC
  <2>3. view' \in [Readers -> [length : Nat, entry : {Torn} \cup SUBSET Versions]]
    BY <1>2, <1>d DEF ServerEnds
  <2>4. /\ UNCHANGED <<last, upc, counter, buff, exit, failed, asof, reset,
                       failures>>
        /\ acl' = "none" /\ crashes' = crashes + 1
    BY <1>2 DEF ServerEnds, updater
  <2>5. crashes' \in Nat /\ acl' \in {"none", "null", "handle", "list"}
    BY <2>4 DEF TypeOK
  <2>6. TypeOK'
    BY <1>a, <1>b, <2>1, <2>2, <2>3, <2>4, <2>5, Zenon DEF TypeOK
  <2> QED BY <1>c, <2>6
<1>3. CASE acl_update_start
  BY <1>3, <1>a, <1>b, <1>c, <1>f
  DEF acl_update_start, UGoto, list, server, history, TypeOK, UpdaterPC
<1>4. CASE MonitorEnds
  <2>1. /\ length' \in Nat /\ (entry' = Torn \/ entry' \subseteq Versions)
        /\ lock' \in Word /\ abandoned' \subseteq {"updater", "reader"}
    <3>1. CASE Mapped BY <1>4, <1>e, <3>1 DEF MonitorEnds, Unmap, TypeOK
    <3>2. CASE ~Mapped BY <1>4, <1>e, <3>2 DEF MonitorEnds, Unmap
    <3> QED BY <3>1, <3>2
  <2>2. /\ UNCHANGED <<acl, rpc, view, asof, reset, failures>>
        /\ last' = 0 /\ counter' = 0 /\ buff' = {} /\ exit' = "none"
        /\ upc' = "down" /\ failed' = FALSE /\ crashes' = crashes + 1
    BY <1>4 DEF MonitorEnds, server
  <2>3. crashes' \in Nat BY <2>2 DEF TypeOK
  <2>4. last' \in 0..clock' /\ counter' \in 0..2 BY <1>a, <1>f, <2>2
  <2>5. TypeOK'
    BY <1>a, <1>b, <2>1, <2>2, <2>3, <2>4, Zenon DEF TypeOK, UpdaterPC
  <2> QED BY <1>c, <2>5
<1> QED BY <1>1, <1>2, <1>3, <1>4, <1>5 DEF Processes

(* Every step keeps the types.                                             *)
LEMMA StepTypes == TypeInv /\ [Next]_vars => TypeInv'
<1> SUFFICES ASSUME TypeInv, [Next]_vars PROVE TypeInv' OBVIOUS
<1>1. CASE UNCHANGED vars
  BY <1>1 DEF vars, table, updater, list, server, history, TypeInv, TypeOK,
              Stamps, Versions
<1> QED BY <1>1, DatabaseTypes, UpdaterTypes, ReaderTypes, ProcessTypes DEF Next

-----------------------------------------------------------------------------
(* Who holds the lock.  The threads that search are counted in it, and     *)
(* none but them and those that ended in it; a dead updater holds it.      *)
Idle == Mapped \/ \A r \in Readers : rpc[r] \in {"idle", "null"}

Held ==
  /\ lock.writer <=> (upc \in Writing \/ "updater" \in abandoned)
  /\ ~(upc \in Writing /\ "updater" \in abandoned)
  /\ lock.writer => lock.readers = 0
  /\ Cardinality(Searching) <= lock.readers
  /\ lock.readers # Cardinality(Searching) => "reader" \in abandoned

LockInv == Idle /\ (~reset => Held)

LEMMA SearchingFinite ==
  IsFiniteSet(Searching) /\ Cardinality(Searching) \in Nat
BY UpdateAssumption, FS_Subset, FS_CardinalityType DEF Searching

(* Nobody searches under a writer.                                         *)
LEMMA NobodySearches ==
  ASSUME TypeInv, Held, lock.writer
  PROVE  \A r \in Readers : rpc[r] \notin Reading
<1>1. lock.readers = 0 BY DEF Held
<1>2. Cardinality(Searching) <= 0 BY <1>1 DEF Held
<1>3. Cardinality(Searching) = 0 BY <1>2, SearchingFinite
<1>4. Searching = {} BY <1>3, SearchingFinite, FS_EmptySet
<1> QED BY <1>4 DEF Searching

(* A searching thread is counted, so that there is no writer.              *)
LEMMA SearcherCounted ==
  ASSUME TypeInv, Held, NEW r \in Readers, rpc[r] \in Reading
  PROVE  ~lock.writer /\ lock.readers > 0
<1>1. ~lock.writer BY NobodySearches
<1>2. r \in Searching BY DEF Searching
<1>3. Cardinality(Searching) # 0 BY <1>2, SearchingFinite, FS_EmptySet
<1>4. lock.readers \in Nat BY DEF TypeInv, TypeOK, Word
<1> QED BY <1>1, <1>3, <1>4, SearchingFinite DEF Held

(* Steps that neither touch the lock nor enter or leave its region.        *)
LEMMA LockFrame ==
  ASSUME LockInv, UNCHANGED <<lock, abandoned, reset, acl, rpc>>,
         (upc' \in Writing) <=> (upc \in Writing)
  PROVE  LockInv'
<1>1. Searching' = Searching BY DEF Searching
<1> QED BY <1>1 DEF LockInv, Idle, Held, Mapped

LEMMA InitLock == Init => LockInv
<1> SUFFICES ASSUME Init PROVE LockInv OBVIOUS
<1>1. Searching = {} BY DEF Init, Searching, Reading
<1>2. Cardinality(Searching) = 0 BY <1>1, FS_EmptySet
<1> QED BY <1>2 DEF Init, LockInv, Idle, Held, Free, Writing

(* The updater.                                                            *)
LEMMA UpdaterLock ==
  TypeInv /\ LockInv /\ (acl_update_thread \/ acl_update_stop) => LockInv'
<1> SUFFICES ASSUME TypeInv, LockInv, acl_update_thread \/ acl_update_stop
             PROVE  LockInv'
  OBVIOUS
<1> USE DEF UpdateStep, acl_update_thread
<1>1. CASE WriteLock
  <2>1. /\ lock = Free /\ lock' = [lock EXCEPT !.writer = TRUE]
        /\ upc' = "length" /\ UNCHANGED <<acl, rpc, abandoned, reset>>
    BY <1>1 DEF WriteLock, UGoto, server, history
  <2>2. lock'.writer /\ lock'.readers = 0 /\ ~lock.writer /\ lock.readers = 0
    BY <2>1 DEF Free
  <2>3. Searching' = Searching BY <2>1 DEF Searching
  <2>4. upc' \in Writing BY <2>1 DEF Writing
  <2> QED BY <2>1, <2>2, <2>3, <2>4 DEF LockInv, Idle, Held, Mapped
<1>2. CASE WriteUnlock
  <2>1. /\ lock' \in ReleasedExclusive(lock) /\ upc = "unlock" /\ upc' = "wait"
        /\ UNCHANGED <<acl, rpc, abandoned, reset>>
    BY <1>2 DEF WriteUnlock, UGoto, server, history
  <2>2. Idle' BY <2>1 DEF LockInv, Idle, Mapped
  <2>3. ASSUME ~reset PROVE Held'
    <3>1. Held BY <2>3 DEF LockInv
    <3>2. lock.writer /\ "updater" \notin abandoned BY <2>1, <3>1 DEF Held, Writing
    <3>3. lock' = Free BY <2>1, <3>2 DEF ReleasedExclusive
    <3>4. Cardinality(Searching) <= 0 BY <3>1, <3>2 DEF Held
    <3>6. Cardinality(Searching) = 0 BY <3>4, SearchingFinite
    <3>5. Searching' = Searching BY <2>1 DEF Searching
    <3> QED BY <2>1, <3>2, <3>3, <3>5, <3>6 DEF Held, Free, Writing
  <2> QED BY <2>1, <2>2, <2>3 DEF LockInv
<1>3. CASE ~WriteLock /\ ~WriteUnlock
  <2>1. UNCHANGED <<lock, abandoned, reset, acl, rpc>>
    BY <1>3 DEF acl_update_stop, Connect, ConnectFails, WaitExit, WaitOnly,
                CheckNothing, CheckFound, Load, LoadFails, SetLength, CopyStart,
                CopyEnd, list, server, history
  <2>2. (upc' \in Writing) <=> (upc \in Writing)
    BY <1>3 DEF acl_update_stop, Connect, ConnectFails, WaitExit, WaitOnly,
                CheckNothing, CheckFound, Load, LoadFails, SetLength, CopyStart,
                CopyEnd, UGoto, Writing
  <2> QED BY <2>1, <2>2, LockFrame
<1> QED BY <1>1, <1>2, <1>3

(* The readers.                                                            *)
LEMMA ReaderLock ==
  ASSUME TypeInv, LockInv, NEW r \in Readers, Call(r) \/ acl_filter(r)
  PROVE  LockInv'
<1> USE DEF ReadStep, acl_filter
<1>0. UNCHANGED <<upc, acl, abandoned, reset>>
  BY DEF Call, ReadFaults, ReadLock, ReadLength, Search, ReadUnlock, list, updater, history
<1>a. rpc \in [Readers -> ReaderPC] BY DEF TypeInv, TypeOK
<1>b. ASSUME ~Mapped PROVE Idle'
  <2>1. \A s \in Readers : rpc[s] \in {"idle", "null"} BY <1>b DEF LockInv, Idle
  <2>2. rpc'[r] \in {"idle", "null"}
    BY <1>a, <1>b, <2>1 DEF Call, ReadFaults, ReadLock, ReadLength, Search,
                            ReadUnlock, RGoto, Mapped
  <2>3. \A s \in Readers \ {r} : rpc'[s] = rpc[s]
    BY <1>a DEF Call, ReadFaults, ReadLock, ReadLength, Search, ReadUnlock, RGoto
  <2> QED BY <2>1, <2>2, <2>3 DEF Idle
<1>d. Idle' BY <1>0, <1>b DEF Idle, Mapped
<1>e. ASSUME ~reset PROVE Held'
  <2> USE <1>e
  <2>0. Held BY DEF LockInv
  <2>1. CASE ReadLock(r)
    <3>1. /\ ~lock.writer /\ lock' = [lock EXCEPT !.readers = lock.readers + 1]
          /\ rpc[r] = "lock" /\ rpc' = [rpc EXCEPT ![r] = "length"]
      BY <2>1 DEF ReadLock, RGoto
    <3>2. Searching' = Searching \cup {r} /\ r \notin Searching
      BY <1>a, <3>1 DEF Searching, Reading
    <3>3. Cardinality(Searching') = Cardinality(Searching) + 1
      BY <3>2, SearchingFinite, FS_AddElement
    <3>4. lock \in Word /\ lock.readers \in Nat BY DEF TypeInv, TypeOK, Word
    <3>5. lock'.writer = lock.writer /\ lock'.readers = lock.readers + 1
      BY <3>1, <3>4 DEF Word
    <3>6. /\ Cardinality(Searching') <= lock'.readers
          /\ lock'.readers # Cardinality(Searching') => "reader" \in abandoned
      BY <2>0, <3>3, <3>4, <3>5, SearchingFinite DEF Held
    <3> QED BY <1>0, <2>0, <3>1, <3>5, <3>6 DEF Held
  <2>2. CASE ReadUnlock(r)
    <3>1. /\ rpc[r] = "unlock" /\ rpc' = [rpc EXCEPT ![r] = "idle"]
          /\ lock' \in ReleasedShared(lock)
      BY <2>2 DEF ReadUnlock, RGoto
    <3>2. rpc[r] \in Reading BY <3>1 DEF Reading
    <3>3. ~lock.writer /\ lock.readers > 0 BY <2>0, <3>2, SearcherCounted
    <3>4. lock' = [lock EXCEPT !.readers = lock.readers - 1]
      BY <3>1, <3>3 DEF ReleasedShared
    <3>5. Searching' = Searching \ {r} /\ r \in Searching
      BY <1>a, <3>1 DEF Searching, Reading
    <3>6. Cardinality(Searching') = Cardinality(Searching) - 1
      BY <3>5, SearchingFinite, FS_RemoveElement
    <3>7. lock \in Word /\ lock.readers \in Nat BY DEF TypeInv, TypeOK, Word
    <3>8. lock'.writer = lock.writer /\ lock'.readers = lock.readers - 1
      BY <3>4, <3>7 DEF Word
    <3>9. /\ Cardinality(Searching') <= lock'.readers
          /\ lock'.readers # Cardinality(Searching') => "reader" \in abandoned
      BY <2>0, <3>6, <3>7, <3>8, SearchingFinite DEF Held
    <3> QED BY <1>0, <2>0, <3>3, <3>8, <3>9 DEF Held
  <2>3. CASE Call(r) \/ ReadFaults(r) \/ ReadLength(r) \/ Search(r)
    <3>1. lock' = lock BY <2>3 DEF Call, ReadFaults, ReadLength, Search, list
    <3>2. (rpc'[r] \in Reading) <=> (rpc[r] \in Reading)
      BY <1>a, <2>3 DEF Call, ReadFaults, ReadLength, Search, RGoto, Reading
    <3>3. \A s \in Readers \ {r} : rpc'[s] = rpc[s]
      BY <1>a, <2>3 DEF Call, ReadFaults, ReadLength, Search, RGoto
    <3>4. Searching' = Searching BY <3>2, <3>3 DEF Searching
    <3> QED BY <1>0, <2>0, <3>1, <3>4 DEF Held
  <2> QED BY <2>1, <2>2, <2>3
<1> QED BY <1>0, <1>d, <1>e DEF LockInv

(* Ends and starts of the processes.                                       *)
LEMMA ProcessLock == TypeInv /\ LockInv /\ Processes => LockInv'
<1> SUFFICES ASSUME TypeInv, LockInv, Processes PROVE LockInv' OBVIOUS
<1>0. (\A r \in Readers : rpc'[r] \in {"idle", "null"})
      => Cardinality(Searching') = 0
  <2> SUFFICES ASSUME \A r \in Readers : rpc'[r] \in {"idle", "null"}
               PROVE  Cardinality(Searching') = 0
    OBVIOUS
  <2>1. Searching' = {} BY DEF Searching, Reading
  <2> QED BY <2>1, FS_EmptySet
<1>a. lock.readers \in Nat /\ Free.readers = 0 /\ ~Free.writer
  BY DEF TypeInv, TypeOK, Word, Free
<1>1. CASE acl_init
  <2>1. /\ acl' = "list" /\ lock' = Free
        /\ reset' = (reset \/ lock.writer \/ Searching # {})
        /\ abandoned' = {} /\ upc' = upc /\ rpc' = rpc
    BY <1>1 DEF acl_init, updater
  <2>2. ~reset' => Cardinality(Searching') = 0
    BY <2>1, FS_EmptySet DEF Searching
  <2>3. ~reset' => ~lock.writer /\ ~reset BY <2>1
  <2>4. ~reset' => upc \notin Writing BY <2>3 DEF LockInv, Held
  <2>5. ~reset' => Held' BY <1>a, <2>1, <2>2, <2>4 DEF Held
  <2>6. Idle' BY <2>1 DEF Idle, Mapped
  <2> QED BY <2>5, <2>6 DEF LockInv
<1>5. CASE acl_init_fails
  <2>1. UNCHANGED <<lock, abandoned, reset, rpc, upc>> /\ (Mapped => Mapped')
    BY <1>5 DEF acl_init_fails, list, updater, Mapped
  <2>2. Searching' = Searching BY <2>1 DEF Searching
  <2> QED BY <2>1, <2>2 DEF LockInv, Idle, Held
<1>2. CASE ServerEnds
  <2>1. /\ rpc' = [r \in Readers |-> "idle"] /\ upc' = upc /\ reset' = reset
    BY <1>2 DEF ServerEnds, updater
  <2>2. Cardinality(Searching') = 0 /\ Idle' BY <1>0, <2>1 DEF Idle
  <2>3. CASE upc \in Connected
    <3>1. /\ lock' = lock
          /\ "updater" \in abandoned' <=> "updater" \in abandoned
          /\ "reader" \in abandoned' <=> "reader" \in abandoned \/ Searching # {}
      BY <1>2, <2>3 DEF ServerEnds, Unmap, list
    <3>2. Searching = {} => Cardinality(Searching) = 0 BY FS_EmptySet
    <3> QED BY <1>a, <2>1, <2>2, <3>1, <3>2 DEF LockInv, Held
  <2>4. CASE upc \notin Connected
    <3>1. lock' = Free /\ abandoned' = {} /\ upc \notin Writing
      BY <1>2, <2>4 DEF ServerEnds, Unmap, Connected
    <3> QED BY <1>a, <2>1, <2>2, <3>1 DEF LockInv, Held
  <2> QED BY <2>3, <2>4
<1>3. CASE acl_update_start
  <2>1. UNCHANGED <<lock, abandoned, reset, acl, rpc>>
        /\ upc' = "connect" /\ upc = "down"
    BY <1>3 DEF acl_update_start, UGoto, list, server, history
  <2> QED BY <2>1, LockFrame DEF Writing
<1>4. CASE MonitorEnds
  <2>1. /\ upc' = "down" /\ reset' = reset /\ acl' = acl /\ rpc' = rpc
        /\ upc' \notin Writing
    BY <1>4 DEF MonitorEnds, server, Writing
  <2>2. Idle' /\ Searching' = Searching
    BY <2>1 DEF LockInv, Idle, Searching, Mapped
  <2>3. CASE Mapped
    <3>1. /\ lock' = lock
          /\ "updater" \in abandoned' <=> ("updater" \in abandoned \/ upc \in Writing)
          /\ "reader" \in abandoned' <=> "reader" \in abandoned
      BY <1>4, <2>3 DEF MonitorEnds, Unmap, list
    <3> QED BY <2>1, <2>2, <3>1 DEF LockInv, Held
  <2>4. CASE ~Mapped
    <3>1. lock' = Free /\ abandoned' = {} BY <1>4, <2>4 DEF MonitorEnds, Unmap
    <3>2. Cardinality(Searching') = 0 BY <1>0, <2>1, <2>4 DEF LockInv, Idle
    <3> QED BY <1>a, <2>1, <2>2, <3>1, <3>2 DEF LockInv, Held
  <2> QED BY <2>3, <2>4
<1> QED BY <1>1, <1>2, <1>3, <1>4, <1>5 DEF Processes

(* Every step keeps the account of the lock.                               *)
LEMMA StepLock == TypeInv /\ LockInv /\ [Next]_vars => LockInv'
<1> SUFFICES ASSUME TypeInv, LockInv, [Next]_vars PROVE LockInv' OBVIOUS
<1>1. CASE Database \/ UNCHANGED vars
  <2>1. UNCHANGED <<lock, abandoned, reset, acl, rpc, upc>>
    BY <1>1 DEF Database, WriteRow, DeleteRow, Tick, LoseConnection, vars, updater, list, server,
                history
  <2> QED BY <2>1, LockFrame
<1> QED BY <1>1, UpdaterLock, ReaderLock, ProcessLock DEF Next

-----------------------------------------------------------------------------
(* What is in the list: whole when no writer holds it, what was loaded     *)
(* once it is copied, and what a reader has seen of it so far.             *)
Copied == {"copy", "copying", "unlock"}

WholeList == entry # Torn /\ length = Cardinality(entry)

Seen(r) ==
  /\ rpc[r] = "search" => view[r].length = length
  /\ rpc[r] = "unlock" => Whole(view[r])

ListInv ==
  /\ ~reset /\ ~lock.writer => WholeList
  /\ upc \in Copied => length = Cardinality(buff)
  /\ upc = "unlock" => entry = buff
  /\ ~reset => \A r \in Readers : Seen(r)

LEMMA InitList == Init => ListInv
<1> SUFFICES ASSUME Init PROVE ListInv OBVIOUS
<1>1. {} # Torn BY UpdateAssumption
<1>2. Cardinality({}) = 0 BY FS_EmptySet
<1> QED BY <1>1, <1>2 DEF Init, ListInv, WholeList, Seen, Copied

(* Steps that leave the list and its readers alone.                        *)
LEMMA ListFrame ==
  ASSUME ListInv, UNCHANGED <<length, entry, lock, reset, rpc, view>>,
         upc' \notin Copied \/ UNCHANGED <<upc, buff>>
  PROVE  ListInv'
BY DEF ListInv, WholeList, Seen, Whole, Copied

(* The updater.                                                            *)
LEMMA UpdaterList ==
  ASSUME TypeInv, LockInv, ListInv, acl_update_thread \/ acl_update_stop
  PROVE  ListInv'
<1> USE DEF UpdateStep, acl_update_thread
<1>0. UNCHANGED <<reset, rpc, view>>
  BY DEF acl_update_stop, Connect, ConnectFails, WaitExit, WaitOnly,
         CheckNothing, CheckFound, Load, LoadFails, WriteLock, SetLength,
         CopyStart, CopyEnd, WriteUnlock, server, history
<1>a. ~reset /\ upc \in Writing
      => lock.writer /\ \A r \in Readers : rpc[r] \notin Reading
  BY NobodySearches DEF LockInv, Held
<1>1. CASE WriteLock
  <2>1. /\ lock'.writer /\ upc' = "length" /\ UNCHANGED <<length, entry>>
    BY <1>1 DEF WriteLock, UGoto, Free
  <2> QED BY <1>0, <2>1 DEF ListInv, Seen, Whole, Copied
<1>2. CASE SetLength \/ CopyStart \/ CopyEnd
  <2>1. upc \in Writing /\ UNCHANGED <<lock, buff>>
    BY <1>2 DEF SetLength, CopyStart, CopyEnd, UGoto, Writing
  <2>2. upc' \in Copied => length' = Cardinality(buff')
    BY <1>2 DEF SetLength, CopyStart, CopyEnd, UGoto, ListInv, Copied
  <2>3. upc' = "unlock" => entry' = buff'
    BY <1>2 DEF SetLength, CopyStart, CopyEnd, UGoto
  <2>4. ~reset' => \A r \in Readers : Seen(r)'
    BY <1>0, <1>a, <2>1 DEF Seen, Reading
  <2> QED BY <1>0, <1>a, <2>1, <2>2, <2>3, <2>4 DEF ListInv
<1>3. CASE WriteUnlock
  <2>1. upc = "unlock" /\ upc' = "wait" /\ UNCHANGED <<length, entry>>
    BY <1>3 DEF WriteUnlock, UGoto
  <2>2. entry = buff /\ length = Cardinality(buff)
    BY <2>1 DEF ListInv, Copied
  <2>3. buff # Torn BY TornIsNoSet DEF TypeInv, TypeOK
  <2> QED BY <1>0, <2>1, <2>2, <2>3 DEF ListInv, WholeList, Seen, Whole, Copied
<1>4. CASE acl_update_stop
  <2>1. UNCHANGED <<length, entry, lock, upc, buff>>
    BY <1>4 DEF acl_update_stop, list
  <2> QED BY <1>0, <2>1, ListFrame
<1>5. CASE \/ Connect \/ ConnectFails \/ WaitExit \/ WaitOnly
           \/ CheckNothing \/ CheckFound \/ Load \/ LoadFails
  <2>1. UNCHANGED <<length, entry, lock>>
    BY <1>5 DEF Connect, ConnectFails, WaitExit, WaitOnly, CheckNothing,
                CheckFound, Load, LoadFails, list
  <2>2. upc' \notin Copied
    BY <1>5 DEF Connect, ConnectFails, WaitExit, WaitOnly, CheckNothing,
                CheckFound, Load, LoadFails, UGoto, Copied
  <2> QED BY <1>0, <2>1, <2>2, ListFrame
<1> QED BY <1>1, <1>2, <1>3, <1>4, <1>5

(* The readers.                                                            *)
LEMMA ReaderList ==
  ASSUME TypeInv, LockInv, ListInv, NEW r \in Readers, Call(r) \/ acl_filter(r)
  PROVE  ListInv'
<1> USE DEF ReadStep, acl_filter
<1>0. UNCHANGED <<upc, buff, length, entry, reset>>
  BY DEF Call, ReadFaults, ReadLock, ReadLength, Search, ReadUnlock, list, updater, history
<1>a. /\ rpc \in [Readers -> ReaderPC]
      /\ view \in [Readers -> [length : Nat, entry : {Torn} \cup SUBSET Versions]]
  BY DEF TypeInv, TypeOK
<1>b. \A s \in Readers \ {r} : rpc'[s] = rpc[s] /\ view'[s] = view[s]
  BY <1>a DEF Call, ReadFaults, ReadLock, ReadLength, Search, ReadUnlock, RGoto
<1>c. ASSUME ~reset PROVE lock'.writer = lock.writer
  <2>1. CASE ReadLock(r)
    BY <2>1 DEF ReadLock, TypeInv, TypeOK, Word
  <2>2. CASE ReadUnlock(r)
    <3>1. rpc[r] \in Reading BY <2>2 DEF ReadUnlock, RGoto, Reading
    <3>2. ~lock.writer /\ lock.readers > 0 BY <1>c, <3>1, SearcherCounted DEF LockInv
    <3>3. lock' = [lock EXCEPT !.readers = lock.readers - 1]
      BY <2>2, <3>2 DEF ReadUnlock, ReleasedShared
    <3> QED BY <3>3 DEF TypeInv, TypeOK, Word
  <2>3. CASE Call(r) \/ ReadFaults(r) \/ ReadLength(r) \/ Search(r)
    BY <2>3 DEF Call, ReadFaults, ReadLength, Search, list
  <2> QED BY <2>1, <2>2, <2>3
<1>d. ASSUME ~reset PROVE Seen(r)'
  <2>1. CASE Call(r) \/ ReadFaults(r) \/ ReadLock(r) \/ ReadUnlock(r)
    BY <1>a, <2>1 DEF Call, ReadFaults, ReadLock, ReadUnlock, RGoto, Seen
  <2>2. CASE ReadLength(r)
    BY <1>0, <1>a, <2>2 DEF ReadLength, RGoto, Seen
  <2>3. CASE Search(r)
    <3>1. rpc[r] = "search" /\ rpc'[r] = "unlock"
      BY <1>a, <2>3 DEF Search, RGoto
    <3>2. ~lock.writer BY <1>d, <3>1, SearcherCounted DEF LockInv, Reading
    <3>3. WholeList /\ view[r].length = length
      BY <1>d, <3>1, <3>2 DEF ListInv, Seen
    <3>4. view'[r].entry = entry /\ view'[r].length = view[r].length
      BY <1>a, <2>3 DEF Search
    <3> QED BY <3>1, <3>3, <3>4 DEF Seen, Whole, WholeList
  <2> QED BY <2>1, <2>2, <2>3
<1>e. ASSUME ~reset, NEW s \in Readers PROVE Seen(s)'
  <2>1. CASE s = r BY <1>d, <1>e, <2>1
  <2>2. CASE s # r
    <3>1. Seen(s) BY <1>e DEF ListInv
    <3> QED BY <1>0, <1>b, <2>2, <3>1 DEF Seen, Whole
  <2> QED BY <2>1, <2>2
<1>f. ~reset' /\ ~lock'.writer => WholeList'
  BY <1>0, <1>c DEF ListInv, WholeList
<1> QED BY <1>0, <1>e, <1>f DEF ListInv

(* Ends and starts of the processes.                                       *)
LEMMA ProcessList ==
  ASSUME TypeInv, LockInv, ListInv, Processes
  PROVE  ListInv'
<1>a. {} # Torn BY UpdateAssumption
<1>b. Cardinality({}) = 0 BY FS_EmptySet
<1>1. CASE acl_init
  <2>1. /\ reset' = (reset \/ lock.writer \/ Searching # {})
        /\ UNCHANGED <<length, entry, upc, buff, rpc, view>>
    BY <1>1 DEF acl_init, updater
  <2>3. ~reset' => \A r \in Readers : Seen(r)'
    BY <2>1 DEF ListInv, Seen, Whole
  <2>4. ~reset' => WholeList' BY <2>1 DEF ListInv, WholeList
  <2> QED BY <2>1, <2>3, <2>4 DEF ListInv
<1>5. CASE acl_init_fails
  <2>1. UNCHANGED <<length, entry, lock, reset, rpc, view, upc, buff>>
    BY <1>5 DEF acl_init_fails, list, updater
  <2> QED BY <2>1, ListFrame
<1>2. CASE ServerEnds
  <2>1. UNCHANGED <<upc, buff, reset>> /\ rpc' = [r \in Readers |-> "idle"]
    BY <1>2 DEF ServerEnds, updater
  <2>2. \A r \in Readers : Seen(r)' BY <2>1 DEF Seen
  <2>3. CASE upc \in Connected
    <3>1. UNCHANGED <<length, entry, lock>>
      BY <1>2, <2>3 DEF ServerEnds, Unmap, list
    <3> QED BY <2>1, <2>2, <3>1 DEF ListInv, WholeList
  <2>4. CASE upc \notin Connected
    <3>1. length' = 0 /\ entry' = {} BY <1>2, <2>4 DEF ServerEnds, Unmap
    <3>2. upc' \notin Copied BY <2>1, <2>4 DEF Connected, Writing, Copied
    <3> QED BY <1>a, <1>b, <2>2, <3>1, <3>2 DEF ListInv, WholeList, Copied
  <2> QED BY <2>3, <2>4
<1>3. CASE acl_update_start
  <2>1. UNCHANGED <<length, entry, lock, reset, rpc, view>> /\ upc' \notin Copied
    BY <1>3 DEF acl_update_start, UGoto, list, server, history, Copied
  <2> QED BY <2>1, ListFrame
<1>4. CASE MonitorEnds
  <2>1. UNCHANGED <<reset, rpc, view>> /\ upc' = "down"
    BY <1>4 DEF MonitorEnds, server
  <2>2. CASE Mapped
    <3>1. UNCHANGED <<length, entry, lock>>
      BY <1>4, <2>2 DEF MonitorEnds, Unmap, list
    <3> QED BY <2>1, <3>1, ListFrame DEF Copied
  <2>3. CASE ~Mapped
    <3>1. length' = 0 /\ entry' = {} BY <1>4, <2>3 DEF MonitorEnds, Unmap
    <3>2. \A r \in Readers : rpc'[r] \in {"idle", "null"}
      BY <2>1, <2>3 DEF LockInv, Idle
    <3>3. \A r \in Readers : Seen(r)' BY <3>2 DEF Seen
    <3> QED BY <1>a, <1>b, <2>1, <3>1, <3>3 DEF ListInv, WholeList, Copied
  <2> QED BY <2>2, <2>3
<1> QED BY <1>1, <1>2, <1>3, <1>4, <1>5 DEF Processes

(* Every step keeps the list whole outside the lock.                       *)
LEMMA StepList == TypeInv /\ LockInv /\ ListInv /\ [Next]_vars => ListInv'
<1> SUFFICES ASSUME TypeInv, LockInv, ListInv, [Next]_vars PROVE ListInv'
  OBVIOUS
<1>1. CASE Database \/ UNCHANGED vars
  <2>1. UNCHANGED <<length, entry, lock, reset, rpc, view, upc, buff>>
    BY <1>1 DEF Database, WriteRow, DeleteRow, Tick, LoseConnection, vars, updater, list, server,
                history
  <2> QED BY <2>1, ListFrame
<1> QED BY <1>1, UpdaterList, ReaderList, ProcessList DEF Next

-----------------------------------------------------------------------------
(* Which rows are missing from the list, or from buff on its way into it.  *)
Late(v) == ts[v] > last \/ (ts[v] = last /\ v > asof)

MissedInv ==
  /\ MissedExplained
  /\ upc = "connect" => last = 0
  /\ upc \in {"lock"} \cup Writing => \A v \in db \ buff : Late(v)

LEMMA InitMissed == Init => MissedInv
BY DEF Init, MissedInv, MissedExplained, Writing

(* Steps of others.                                                        *)
LEMMA MissedFrame ==
  ASSUME MissedInv,
         UNCHANGED <<db, ts, last, upc, buff, failed, asof>>,
         upc = "wait" => entry' = entry
  PROVE  MissedInv'
BY DEF MissedInv, MissedExplained, Late

(* The database.  A new row is not older than last_update, and it is newer *)
(* than the last load.                                                     *)
LEMMA DatabaseMissed ==
  ASSUME TypeInv, MissedInv, Database
  PROVE  MissedInv'
<1>0. UNCHANGED <<last, upc, buff, failed, asof, entry>>
  BY DEF Database, WriteRow, DeleteRow, Tick, LoseConnection, updater, list, history
<1>1. \A v \in db : v \in db' => v \in Versions /\ ts'[v] = ts[v]
  <2>1. db \subseteq Versions /\ ts \in Seq(Nat) /\ clock \in Nat
    BY DEF TypeInv, TypeOK
  <2>2. CASE WriteRow
    <3>1. ts' = Append(ts, clock) BY <2>2 DEF WriteRow
    <3>2. \A v \in Versions : ts'[v] = ts[v] BY <2>1, <3>1 DEF Versions
    <3> QED BY <2>1, <3>2
  <2>3. CASE DeleteRow \/ Tick \/ LoseConnection
    BY <2>1, <2>3 DEF DeleteRow, Tick, LoseConnection
  <2> QED BY <2>2, <2>3 DEF Database
<1>2. ASSUME NEW v \in db', v \notin db PROVE Late(v)'
  <2>1. CASE WriteRow
    <3>1. ts \in Seq(Nat) /\ clock \in Nat /\ Len(ts) \in Nat /\ last \in 0..clock
          /\ asof \in 0..Len(ts)
      BY DEF TypeInv, TypeOK
    <3>2. v = Len(ts) + 1 /\ ts' = Append(ts, clock) BY <1>2, <2>1 DEF WriteRow
    <3>3. ts'[v] = clock BY <3>1, <3>2
    <3>4. v > asof BY <3>1, <3>2
    <3>5. clock > last \/ clock = last BY <3>1
    <3> QED BY <1>0, <3>3, <3>4, <3>5 DEF Late
  <2>2. CASE DeleteRow \/ Tick \/ LoseConnection
    BY <1>2, <2>2 DEF DeleteRow, Tick, LoseConnection
  <2> QED BY <2>1, <2>2 DEF Database
<1>3. ASSUME NEW v \in db, v \in db', Late(v) PROVE Late(v)'
  BY <1>0, <1>1, <1>3 DEF Late
<1>4. MissedExplained'
  <2> SUFFICES ASSUME upc = "wait", ~failed,
                      NEW v \in db', entry = Torn \/ v \notin entry
               PROVE  Late(v)'
    BY <1>0 DEF MissedExplained, Late
  <2>1. CASE v \in db
    <3>1. Late(v) BY <2>1 DEF MissedInv, MissedExplained, Late
    <3> QED BY <1>3, <2>1, <3>1
  <2> QED BY <1>2, <2>1
<1>5. upc \in {"lock"} \cup Writing => \A v \in db' \ buff : Late(v)'
  BY <1>2, <1>3 DEF MissedInv
<1> QED BY <1>0, <1>4, <1>5 DEF MissedInv

(* The updater.                                                            *)
LEMMA UpdaterMissed ==
  ASSUME TypeInv, ListInv, MissedInv, acl_update_thread \/ acl_update_stop
  PROVE  MissedInv'
<1> USE DEF UpdateStep, acl_update_thread
<1>0. UNCHANGED <<db, ts>>
  BY DEF acl_update_stop, Connect, ConnectFails, WaitExit, WaitOnly,
         CheckNothing, CheckFound, Load, LoadFails, WriteLock, SetLength,
         CopyStart, CopyEnd, WriteUnlock, table
<1>1. CASE Connect
  <2>1. last' = 0 /\ upc' = "wait"
    BY <1>1 DEF Connect, UGoto, MissedInv
  <2>2. \A v \in db : ts[v] > 0
    <3>1. clock \in Nat /\ db \subseteq Versions BY DEF TypeInv, TypeOK
    <3>2. \A v \in db : ts[v] \in 1..clock BY <3>1 DEF TypeInv, Stamps
    <3> QED BY <3>1, <3>2
  <2> QED BY <1>0, <2>1, <2>2 DEF MissedInv, MissedExplained, Writing
<1>2. CASE \/ ConnectFails \/ CheckFound
  <2>1. upc' \in {"ended", "load"} BY <1>2 DEF ConnectFails, CheckFound, UGoto
  <2> QED BY <2>1 DEF MissedInv, MissedExplained, Writing
<1>3. CASE WaitExit \/ WaitOnly \/ CheckNothing \/ acl_update_stop
  <2>1. UNCHANGED <<last, upc, buff, failed, asof, entry>>
    BY <1>3 DEF WaitExit, WaitOnly, CheckNothing, acl_update_stop, UGoto, list,
                history
  <2> QED BY <1>0, <2>1, MissedFrame
<1>4. CASE Load
  <2>1. buff' = db /\ upc' = "lock" BY <1>4 DEF Load, UGoto
  <2> QED BY <1>0, <2>1 DEF MissedInv, MissedExplained
<1>5. CASE LoadFails
  <2>1. upc' = "wait" /\ failed' BY <1>5 DEF LoadFails, UGoto
  <2> QED BY <2>1 DEF MissedInv, MissedExplained, Writing
<1>6. CASE WriteLock \/ SetLength \/ CopyStart \/ CopyEnd
  <2>1. /\ UNCHANGED <<last, buff, asof>>
        /\ upc \in {"lock"} \cup Writing /\ upc' \in Writing
    BY <1>6 DEF WriteLock, SetLength, CopyStart, CopyEnd, UGoto, history, Writing
  <2>2. \A v \in db \ buff : Late(v)' BY <1>0, <2>1 DEF MissedInv, Late
  <2> QED BY <1>0, <2>1, <2>2 DEF MissedInv, MissedExplained, Writing
<1>7. CASE WriteUnlock
  <2>1. /\ UNCHANGED <<last, entry, asof>> /\ upc = "unlock" /\ upc' = "wait"
    BY <1>7 DEF WriteUnlock, UGoto, history
  <2>2. entry = buff BY <2>1 DEF ListInv
  <2>3. buff # Torn BY TornIsNoSet DEF TypeInv, TypeOK
  <2>4. \A v \in db \ buff : Late(v)' BY <1>0, <2>1 DEF MissedInv, Late, Writing
  <2> QED BY <1>0, <2>1, <2>2, <2>3, <2>4
      DEF MissedInv, MissedExplained, Late, Writing
<1> QED BY <1>1, <1>2, <1>3, <1>4, <1>5, <1>6, <1>7

(* Every step keeps the account of the missing rows.                       *)
LEMMA StepMissed == TypeInv /\ ListInv /\ MissedInv /\ [Next]_vars => MissedInv'
<1> SUFFICES ASSUME TypeInv, ListInv, MissedInv, [Next]_vars PROVE MissedInv'
  OBVIOUS
<1>1. CASE \E r \in Readers : Call(r) \/ acl_filter(r)
  <2>1. PICK r \in Readers : Call(r) \/ acl_filter(r) BY <1>1
  <2>2. UNCHANGED <<db, ts, last, upc, buff, failed, asof, entry>>
    BY <2>1 DEF acl_filter, ReadStep, Call, ReadFaults, ReadLock, ReadLength, Search,
                ReadUnlock, table, updater, list, history
  <2> QED BY <2>2, MissedFrame
<1>2. CASE UNCHANGED vars
  BY <1>2, MissedFrame DEF vars, table, updater, list, history
<1>3. CASE acl_init \/ acl_init_fails
  BY <1>3, MissedFrame DEF acl_init, acl_init_fails, table, updater, list
<1>4. CASE ServerEnds
  <2>1. UNCHANGED <<db, ts, last, upc, buff, failed, asof>>
    BY <1>4 DEF ServerEnds, table, updater
  <2>2. upc = "wait" => entry' = entry
    BY <1>4 DEF ServerEnds, Unmap, Connected, list
  <2> QED BY <2>1, <2>2, MissedFrame
<1>5. CASE acl_update_start
  BY <1>5 DEF acl_update_start, UGoto, MissedInv, MissedExplained, Writing
<1>6. CASE MonitorEnds
  BY <1>6 DEF MonitorEnds, MissedInv, MissedExplained, Writing
<1> QED BY <1>1, <1>2, <1>3, <1>4, <1>5, <1>6, DatabaseMissed, UpdaterMissed
        DEF Next, Processes

-----------------------------------------------------------------------------
IInv == TypeInv /\ LockInv /\ ListInv /\ MissedInv

LEMMA Inductive == Spec => []IInv
<1>1. Init => IInv
  BY InitTypes, InitLock, InitList, InitMissed DEF IInv
<1>2. IInv /\ [Next]_vars => IInv'
  BY StepTypes, StepLock, StepList, StepMissed DEF IInv
<1> QED BY <1>1, <1>2, PTL DEF Spec

(* The shared list and its processes stay in their types: last_update      *)
(* never passes the clock, the lock is a lock, entries are rows or torn.   *)
THEOREM UpdateTypes == Spec => []TypeOK
<1>1. IInv => TypeOK BY DEF IInv, TypeInv
<1> QED BY <1>1, Inductive, PTL

(* Whatever processes end and start, a list replaced by acl_do_update is   *)
(* not being searched, unless acl_init reset a lock that was held.         *)
THEOREM UpdateWriterAlone == Spec => []WriterAlone
<1>1. IInv => WriterAlone
  BY NobodySearches DEF IInv, LockInv, Held, WriterAlone
<1> QED BY <1>1, Inductive, PTL

(* The lock of the list is held by those inside it and by those whose      *)
(* process ended inside it, and by nobody else: no end, start or failure   *)
(* of acl_init leaves it taken without one of them, unless acl_init reset  *)
(* a lock that was held.                                                   *)
THEOREM UpdateLock == Spec => []LockAccounted
<1>1. IInv => LockAccounted BY DEF IInv, LockInv, Held, LockAccounted
<1> QED BY <1>1, Inductive, PTL

(* acl_filter never searches a list with a wrong length or a half-written  *)
(* entry, with the same exception.                                         *)
THEOREM UpdateWholeList == Spec => []SearchesWholeList
<1>1. IInv => SearchesWholeList
  BY DEF IInv, ListInv, Seen, SearchesWholeList
<1> QED BY <1>1, Inductive, PTL

(* The only rows acl_check_last_update will never notice are those written *)
(* after the last load within the second it has seen.                      *)
THEOREM UpdateMisses == Spec => []MissedExplained
<1>1. IInv => MissedExplained BY DEF IInv, MissedInv
<1> QED BY <1>1, Inductive, PTL
-----------------------------------------------------------------------------
(* The list implements SharedList.  Steps that touch neither the list, nor *)
(* what a call has read of it, nor the loaded rows.                        *)
LEMMA SharedFrame ==
  ASSUME UNCHANGED <<upc, buff, length, entry, lock, rpc, view, reset>>
  PROVE  Shared!Change /\ (~reset)' = ~reset
BY DEF Shared!Change, Content, ReadBy

(* No call has read the list while its lock is free or held by a writer.   *)
LEMMA NobodyRead ==
  ASSUME TypeInv, Held, lock = Free \/ lock.writer
  PROVE  \A r \in Readers : rpc[r] # "unlock" /\ ReadBy[r] = {}
<1>1. \A r \in Readers : rpc[r] \notin Reading
  BY NobodySearches, SearcherCounted DEF Free
<1> QED BY <1>1 DEF Reading, ReadBy

(* The updater: a load takes a snapshot, the list changes when the lock is *)
(* taken, and the snapshot is dropped when it is released.                 *)
LEMMA UpdaterShared ==
  ASSUME IInv, ~reset, acl_update_thread \/ acl_update_stop
  PROVE  /\ ~reset'
         /\ \/ Shared!Change \/ Shared!Load \/ Shared!Discard \/ Shared!Replace
<1> USE DEF UpdateStep, acl_update_thread
<1>0. UNCHANGED <<db, reset, rpc, view>>
  BY DEF acl_update_stop, Connect, ConnectFails, WaitExit, WaitOnly,
         CheckNothing, CheckFound, Load, LoadFails, WriteLock, SetLength,
         CopyStart, CopyEnd, WriteUnlock, table, server, history
<1>a. ~reset' /\ ReadBy' = ReadBy BY <1>0 DEF ReadBy
<1>b. Held /\ TypeInv /\ ListInv BY DEF IInv, LockInv
<1>1. CASE Load
  <2>1. buff' = db /\ Content' = Content
    BY <1>1 DEF Load, UGoto, list, Content, Writing
  <2> QED BY <1>0, <1>a, <2>1 DEF Shared!Load
<1>2. CASE WriteLock
  <2>1. /\ lock = Free /\ upc = "lock" /\ upc' = "length" /\ buff' = buff
    BY <1>2 DEF WriteLock, UGoto
  <2>2. Content # {} BY <2>1 DEF Content, Writing, Free
  <2>3. Content' = {ListOf(buff)}
    BY <2>1 DEF Content, Writing
  <2>4. \A r \in Readers : ReadBy[r] = {} BY <1>b, <2>1, NobodyRead
  <2> QED BY <1>0, <1>a, <2>1, <2>2, <2>3, <2>4 DEF Shared!Replace
<1>3. CASE WriteUnlock
  <2>1. /\ upc = "unlock" /\ upc' = "wait" /\ buff' = {}
        /\ UNCHANGED <<length, entry>> /\ lock' \in ReleasedExclusive(lock)
    BY <1>3 DEF WriteUnlock, UGoto
  <2>2. lock' = Free BY <1>b, <2>1 DEF Held, Writing, ReleasedExclusive
  <2>3. entry = buff /\ length = Cardinality(buff)
    BY <1>b, <2>1 DEF ListInv, Copied
  <2>4. Content' = Content BY <2>1, <2>2, <2>3 DEF Content, ListOf, Writing, Free
  <2> QED BY <1>0, <1>a, <2>1, <2>4 DEF Shared!Discard
<1>4. CASE SetLength \/ CopyStart \/ CopyEnd
  <2>1. upc \in Writing /\ upc' \in Writing /\ buff' = buff
    BY <1>4 DEF SetLength, CopyStart, CopyEnd, UGoto, Writing
  <2>2. Content' = Content BY <2>1 DEF Content
  <2> QED BY <1>a, <2>1, <2>2 DEF Shared!Change
<1>5. CASE \/ Connect \/ ConnectFails \/ WaitExit \/ WaitOnly
           \/ CheckNothing \/ CheckFound \/ LoadFails
  <2>1. upc \notin Writing /\ upc' \notin Writing
    BY <1>5 DEF Connect, ConnectFails, WaitExit, WaitOnly, CheckNothing,
                CheckFound, LoadFails, UGoto, Writing
  <2>2. UNCHANGED <<length, entry, lock, buff>>
    BY <1>5 DEF Connect, ConnectFails, WaitExit, WaitOnly, CheckNothing,
                CheckFound, LoadFails, list
  <2>3. Content' = Content BY <2>1, <2>2 DEF Content
  <2> QED BY <1>a, <2>2, <2>3 DEF Shared!Change
<1>6. CASE acl_update_stop
  <2>1. UNCHANGED <<upc, buff, length, entry, lock>>
    BY <1>6 DEF acl_update_stop, list
  <2> QED BY <1>0, <1>a, <2>1, SharedFrame
<1> QED BY <1>1, <1>2, <1>3, <1>4, <1>5, <1>6

(* The readers: a call reads the list when it searches it.                 *)
LEMMA ReaderShared ==
  ASSUME IInv, ~reset, NEW r \in Readers, Call(r) \/ acl_filter(r)
  PROVE  ~reset' /\ (Shared!Change \/ Shared!Read(r) \/ Shared!Return(r))
<1> USE DEF ReadStep, acl_filter
<1>0. UNCHANGED <<db, upc, buff, length, entry, reset>>
  BY DEF Call, ReadFaults, ReadLock, ReadLength, Search, ReadUnlock, list, table, updater,
         history
<1>a. /\ rpc \in [Readers -> ReaderPC]
      /\ view \in [Readers -> [length : Nat, entry : {Torn} \cup SUBSET Versions]]
  BY DEF IInv, TypeInv, TypeOK
<1>b. Held /\ TypeInv /\ ListInv BY DEF IInv, LockInv
<1>c. \A s \in Readers \ {r} : rpc'[s] = rpc[s] /\ view'[s] = view[s]
  BY <1>a DEF Call, ReadFaults, ReadLock, ReadLength, Search, ReadUnlock, RGoto
<1>d. \A s \in Readers \ {r} : ReadBy'[s] = ReadBy[s] BY <1>c DEF ReadBy
<1>e. DOMAIN ReadBy = Readers /\ DOMAIN ReadBy' = Readers
      /\ ReadBy = [s \in Readers |-> ReadBy[s]]
      /\ ReadBy' = [s \in Readers |-> ReadBy'[s]]
  BY DEF ReadBy
<1>f. \A x : ReadBy'[r] = x => ReadBy' = [ReadBy EXCEPT ![r] = x]
  BY <1>d, <1>e
<1>1. CASE Call(r) \/ ReadFaults(r) \/ ReadLock(r) \/ ReadLength(r)
  <2>1. rpc[r] # "unlock" /\ rpc'[r] # "unlock"
    BY <1>1, <1>a DEF Call, ReadFaults, ReadLock, ReadLength, RGoto
  <2>2. ReadBy'[r] = ReadBy[r] BY <2>1 DEF ReadBy
  <2>3. ReadBy' = ReadBy BY <1>d, <1>e, <2>2
  <2>4. lock'.writer = lock.writer
    BY <1>1, <1>b DEF Call, ReadFaults, ReadLock, ReadLength, list, TypeInv,
                      TypeOK, Word
  <2>5. Content' = Content BY <1>0, <2>4 DEF Content
  <2> QED BY <1>0, <2>3, <2>5 DEF Shared!Change
<1>2. CASE Search(r)
  <2>1. /\ rpc[r] = "search" /\ rpc'[r] = "unlock" /\ lock' = lock
        /\ view'[r] = [view[r] EXCEPT !.entry = entry]
    BY <1>2, <1>a DEF Search, RGoto, list
  <2>2. ~lock.writer BY <1>b, <2>1, SearcherCounted DEF Reading
  <2>3. upc \notin Writing BY <1>b, <2>2 DEF Held
  <2>4. Content = {[length |-> length, entry |-> entry]} /\ Content' = Content
    BY <1>0, <2>1, <2>2, <2>3 DEF Content
  <2>5. view[r].length = length BY <1>b, <2>1 DEF ListInv, Seen
  <2>6. view[r] \in [length : Nat, entry : {Torn} \cup SUBSET Versions] BY <1>a
  <2>7. view'[r] = [length |-> length, entry |-> entry] BY <2>1, <2>5, <2>6
  <2>8. ReadBy[r] = {} /\ ReadBy'[r] = Content BY <2>1, <2>4, <2>7 DEF ReadBy
  <2>9. ReadBy' = [ReadBy EXCEPT ![r] = Content] BY <1>f, <2>8
  <2>10. Shared!Read(r) BY <1>0, <2>4, <2>8, <2>9 DEF Shared!Read
  <2> QED BY <1>0, <2>10
<1>3. CASE ReadUnlock(r)
  <2>1. /\ rpc[r] = "unlock" /\ rpc'[r] = "idle"
        /\ lock' \in ReleasedShared(lock)
    BY <1>3, <1>a DEF ReadUnlock, RGoto
  <2>2. ~lock.writer /\ lock.readers > 0
    BY <1>b, <2>1, SearcherCounted DEF Reading
  <2>3. lock' = [lock EXCEPT !.readers = lock.readers - 1]
    BY <2>1, <2>2 DEF ReleasedShared
  <2>4. lock'.writer = lock.writer BY <1>b, <2>3 DEF TypeInv, TypeOK, Word
  <2>5. Content' = Content BY <1>0, <2>4 DEF Content
  <2>6. ReadBy'[r] = {} BY <2>1 DEF ReadBy
  <2>7. ReadBy' = [ReadBy EXCEPT ![r] = {}] BY <1>f, <2>6
  <2> QED BY <1>0, <2>5, <2>7 DEF Shared!Return
<1> QED BY <1>1, <1>2, <1>3

(* Ends and starts of the processes.                                       *)
LEMMA ProcessShared ==
  ASSUME IInv, Processes, ~reset'
  PROVE  /\ ~reset
         /\ \/ Shared!Change \/ Shared!Discard
            \/ Shared!UpdaterEnds \/ Shared!CallersEnd
<1>0. db' = db
  BY DEF Processes, acl_init, acl_init_fails, ServerEnds, acl_update_start,
         MonitorEnds, table
<1>a. ~reset
  BY DEF Processes, acl_init, acl_init_fails, ServerEnds, acl_update_start,
         MonitorEnds, history
<1>b. Held /\ TypeInv /\ ListInv BY <1>a DEF IInv, LockInv
<1>c. Cardinality({}) = 0 BY FS_EmptySet
<1>1. CASE acl_init
  <2>1. /\ ~lock.writer /\ lock' = Free
        /\ UNCHANGED <<length, entry, upc, buff, rpc, view>>
    BY <1>1 DEF acl_init, updater
  <2>2. Content' = Content /\ ReadBy' = ReadBy
    BY <2>1 DEF Content, ReadBy, Free
  <2> QED BY <1>a, <2>1, <2>2 DEF Shared!Change
<1>5. CASE acl_init_fails
  <2>1. UNCHANGED <<upc, buff, length, entry, lock, rpc, view, reset>>
    BY <1>5 DEF acl_init_fails, list, updater
  <2> QED BY <1>a, <2>1, SharedFrame
<1>2. CASE ServerEnds
  <2>1. UNCHANGED <<upc, buff>> /\ rpc' = [r \in Readers |-> "idle"]
    BY <1>2 DEF ServerEnds, updater
  <2>2. ReadBy' = [r \in Readers |-> {}] BY <2>1 DEF ReadBy
  <2>3. CASE upc \in Connected
    <3>1. UNCHANGED <<length, entry, lock>>
      BY <1>2, <2>3 DEF ServerEnds, Unmap, list
    <3>2. Content' = Content BY <2>1, <3>1 DEF Content
    <3> QED BY <1>0, <1>a, <2>1, <2>2, <3>2 DEF Shared!CallersEnd
  <2>4. CASE upc \notin Connected
    <3>1. length' = 0 /\ entry' = {} /\ lock' = Free
      BY <1>2, <2>4 DEF ServerEnds, Unmap
    <3>2. upc' \notin Writing BY <2>1, <2>4 DEF Connected
    <3>3. Content' = {ListOf({})}
      BY <1>c, <3>1, <3>2 DEF Content, ListOf, Free
    <3> QED BY <1>0, <1>a, <2>1, <2>2, <3>3 DEF Shared!CallersEnd
  <2> QED BY <2>3, <2>4
<1>3. CASE acl_update_start
  <2>1. /\ UNCHANGED <<length, entry, lock, rpc, view>> /\ buff' = {}
        /\ upc = "down" /\ upc' = "connect"
    BY <1>3 DEF acl_update_start, UGoto, list, server
  <2>2. Content' = Content /\ ReadBy' = ReadBy
    BY <2>1 DEF Content, ReadBy, Writing
  <2> QED BY <1>0, <1>a, <2>1, <2>2 DEF Shared!Discard
<1>4. CASE MonitorEnds
  <2>1. /\ UNCHANGED <<rpc, view>> /\ upc' = "down" /\ buff' = {}
        /\ upc' \notin Writing
    BY <1>4 DEF MonitorEnds, server, Writing
  <2>2. ReadBy' = ReadBy BY <2>1 DEF ReadBy
  <2>3. CASE Mapped /\ upc \notin Writing
    <3>1. UNCHANGED <<length, entry, lock>>
      BY <1>4, <2>3 DEF MonitorEnds, Unmap, list
    <3>2. Content' = Content BY <2>1, <2>3, <3>1 DEF Content
    <3> QED BY <1>0, <1>a, <2>1, <2>2, <3>2 DEF Shared!UpdaterEnds
  <2>4. CASE Mapped /\ upc \in Writing
    <3>1. UNCHANGED <<length, entry, lock>>
      BY <1>4, <2>4 DEF MonitorEnds, Unmap, list
    <3>2. lock.writer BY <1>b, <2>4 DEF Held
    <3>3. Content' = {} BY <2>1, <3>1, <3>2 DEF Content
    <3>4. \A r \in Readers : ReadBy[r] = {} BY <1>b, <3>2, NobodyRead
    <3> QED BY <1>0, <1>a, <2>1, <2>2, <3>3, <3>4 DEF Shared!UpdaterEnds
  <2>5. CASE ~Mapped
    <3>1. length' = 0 /\ entry' = {} /\ lock' = Free
      BY <1>4, <2>5 DEF MonitorEnds, Unmap
    <3>2. Content' = {ListOf({})}
      BY <1>c, <2>1, <3>1 DEF Content, ListOf, Free
    <3>3. \A r \in Readers : ReadBy[r] = {}
      BY <2>5 DEF IInv, LockInv, Idle, ReadBy
    <3> QED BY <1>0, <1>a, <2>1, <2>2, <3>2, <3>3
        DEF Shared!UpdaterEnds
  <2> QED BY <2>3, <2>4, <2>5
<1> QED BY <1>1, <1>2, <1>3, <1>4, <1>5 DEF Processes

(* Every step is one of the atomic list, or the end of its promise.        *)
LEMMA StepShared == IInv /\ [Next]_vars => [Shared!Next]_(Shared!vars)
<1> SUFFICES ASSUME IInv, [Next]_vars PROVE [Shared!Next]_(Shared!vars) OBVIOUS
<1> USE DEF Shared!Next, Shared!Promise
<1>1. CASE reset' BY <1>1
<1>2. CASE ~reset'
  <2>1. CASE Database \/ UNCHANGED vars
    <3>1. UNCHANGED <<upc, buff, length, entry, lock, rpc, view, reset>>
      BY <2>1 DEF Database, WriteRow, DeleteRow, Tick, LoseConnection, vars, updater, list,
                  server, history
    <3> QED BY <3>1, SharedFrame
  <2>2. CASE Processes BY <1>2, <2>2, ProcessShared
  <2>3. CASE ~Processes /\ ~Database /\ ~UNCHANGED vars
    <3>1. \/ acl_update_thread \/ acl_update_stop
          \/ \E r \in Readers : Call(r) \/ acl_filter(r)
      BY <2>3 DEF Next
    <3>2. reset' = reset
      BY <3>1 DEF acl_update_thread, UpdateStep, acl_update_stop, Connect,
                  ConnectFails, WaitExit, WaitOnly, CheckNothing, CheckFound,
                  Load, LoadFails, WriteLock, SetLength, CopyStart, CopyEnd,
                  WriteUnlock, Call, acl_filter, ReadStep, ReadFaults, ReadLock, ReadLength,
                  Search, ReadUnlock, history
    <3> QED BY <1>2, <3>1, <3>2, UpdaterShared, ReaderShared
  <2> QED BY <2>1, <2>2, <2>3
<1> QED BY <1>1, <1>2

(* The updater, the lock and the ends and starts of both processes         *)
(* implement a list that is replaced and read as a whole, for any number   *)
(* of calls of acl_filter at a time: until acl_init resets a lock that is  *)
(* held, every call searches exactly what one query of acl_do_update had   *)
(* found, or an empty list.                                                *)
THEOREM UpdateImplements == Spec => ImplementsSharedList
<1>1. Init => Shared!Init
  BY FS_EmptySet
  DEF Init, Shared!Init, Content, ListOf, ReadBy, Writing, Free
<1> QED BY <1>1, StepShared, Inductive, PTL
        DEF Spec, ImplementsSharedList, Shared!Spec
==============================================================================
