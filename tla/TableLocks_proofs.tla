-------------------------- MODULE TableLocks_proofs --------------------------
(***************************************************************************)
(* A noticed edit is not overwritten while it is locked, with any database *)
(* and whatever fails; and, with a MySQL database, tables are locked only  *)
(* where something made row and memory differ.                             *)
(***************************************************************************)
EXTENDS TableLocks, ProintegraOPC_proofs

(* What the first rests on: a noticed table is a locked one, and the table *)
(* that is being read is not.                                              *)
NoticedIsLocked == noticed \subseteq Tables /\ \A t \in noticed : locked[t] > 0
ReadIsUnlocked  == pc \in {"read", "readUse", "store"} => locked[cur] = 0
LockInv == NoticedIsLocked /\ ReadIsUnlocked

LEMMA LNextNext == LNext => [Next]_vars
BY DEF LNext, LLockTable, LDataToComm, LStoreData, LEdit, LRestart, OtherScan, OtherActor,
       Next, Scan, Others

LEMMA HistoryTypeCorrect == LSpec => []TypeOK
<1>1. LInit => TypeOK
  BY InitType DEF LInit
<1>2. TypeOK /\ [LNext]_lvars => TypeOK'
  <2>1. [LNext]_lvars => [Next]_vars
    BY LNextNext DEF lvars
  <2>. QED
    BY <2>1, NextType
<1>. QED
  BY <1>1, <1>2, PTL DEF LSpec

----------------------------------------------------------------------------
(* The steps that change neither a lock, nor a row, nor the memory of a    *)
(* table.                                                                  *)
OtherStep ==
  \/ (OtherScan \/ OtherActor) /\ UNCHANGED history
  \/ UNCHANGED lvars

LEMMA OtherStepFrame ==
  ASSUME OtherStep
  PROVE  UNCHANGED << locked, iValue, rows, noticed, touched >>
BY DEF OtherStep, OtherScan, OtherActor, LoopTop, ReadTagCheck, ReadTagUse, DataCaptured,
       TakeTriggers, DataToCommDone, PickTable, ResetTriggers, Poll, Raise, Tick, SigInt,
       Stopped, OpcUnchanged, vars, lvars, history, shared, comm, tables, triggers, work

LEMMA OtherStepReads ==
  ASSUME OtherStep, TypeOK, ReadIsUnlocked
  PROVE  ReadIsUnlocked'
<1>1. locked' = locked
  BY OtherStepFrame
<1>2. CASE PickTable
  <2>1. PICK t \in Tables :
          IF IsTableLocked(t) THEN UNCHANGED << pc, cur >> ELSE cur' = t
    BY <1>2 DEF PickTable
  <2>2. pc = "pick" /\ locked[t] \in Nat
    BY <1>2 DEF PickTable, TypeOK
  <2>. QED
    BY <1>1, <2>1, <2>2 DEF ReadIsUnlocked, IsTableLocked
<1>3. CASE ReadTagCheck \/ ReadTagUse
  <2>1. /\ pc \in {"capture", "read", "captureUse", "readUse"} /\ cur' = cur
        /\ \/ NextTurn
           \/ pc = "capture" /\ pc' = "captureUse"
           \/ pc = "read" /\ pc' = "readUse"
    BY <1>3 DEF ReadTagCheck, ReadTagUse
  <2>2. NextTurn /\ pc \in {"capture", "captureUse"} => pc' \in {"capture", "captured"}
    BY DEF NextTurn, AfterRead
  <2>. QED
    BY <1>1, <2>1, <2>2 DEF ReadIsUnlocked
<1>4. CASE LoopTop \/ DataCaptured \/ TakeTriggers \/ DataToCommDone \/ ResetTriggers
  <2>1. pc' \in {"stopped", "capture", "lock", "top", "comm", "pick"}
    BY <1>4 DEF LoopTop, DataCaptured, TakeTriggers, DataToCommDone, ResetTriggers
  <2>. QED
    BY <2>1 DEF ReadIsUnlocked
<1>5. CASE OtherActor \/ UNCHANGED lvars
  <2>1. UNCHANGED << pc, cur >>
    BY <1>5 DEF OtherActor, Poll, Raise, Tick, SigInt, Stopped, OpcUnchanged, vars, lvars, work
  <2>. QED
    BY <1>1, <2>1 DEF ReadIsUnlocked
<1>. QED
  BY <1>2, <1>3, <1>4, <1>5 DEF OtherStep, OtherScan

LEMMA LockInvNext == TypeOK /\ LockInv /\ [LNext]_lvars => LockInv'
<1>. SUFFICES ASSUME TypeOK, LockInv, [LNext]_lvars PROVE LockInv'
  OBVIOUS
<1>1. CASE LLockTable
  <2>1. idx \in Tables /\ pc = "lock" /\ pc' \in {"lock", "triggers"}
    BY <1>1 DEF LLockTable, LockTable, TypeOK
  <2>2. PICK count \in 0 .. LockLimit : locked' = [locked EXCEPT ![idx] = count]
    BY <1>1, <2>1, LockOrUnlockRange DEF LLockTable, LockTable, TypeOK
  <2>3. NoticedIsLocked'
    <3>1. locked'[idx] = count /\ locked[idx] \in 0 .. LockLimit
          /\ \A t \in Tables \ {idx} : locked'[t] = locked[t]
      BY <2>1, <2>2 DEF TypeOK
    <3>2. CASE count > locked[idx]
      BY <1>1, <2>1, <3>1, <3>2 DEF LLockTable, LockInv, NoticedIsLocked
    <3>3. CASE count < locked[idx]
      <4>1. noticed' = noticed \ {idx}
        BY <1>1, <3>1, <3>3 DEF LLockTable
      <4>. QED
        BY <3>1, <4>1 DEF LockInv, NoticedIsLocked
    <3>4. CASE count = locked[idx]
      <4>1. noticed' = noticed
        BY <1>1, <3>1, <3>4 DEF LLockTable
      <4>. QED
        BY <3>1, <3>4, <4>1 DEF LockInv, NoticedIsLocked
    <3>. QED
      BY <3>1, <3>2, <3>3, <3>4
  <2>. QED
    BY <2>1, <2>3 DEF LockInv, ReadIsUnlocked
<1>2. CASE LDataToComm
  <2>1. PICK t \in Tables : IsFirst(t, wTodo) /\ locked' = Unlocked(t) /\ wTodo' = wTodo \ {t}
    BY <1>2 DEF LDataToComm, DataToComm
  <2>2. noticed' = noticed \ {t} /\ pc' = "comm"
    BY <1>2, <2>1 DEF LDataToComm, DataToComm, IsFirst
  <2>. QED
    BY <2>1, <2>2 DEF LockInv, NoticedIsLocked, ReadIsUnlocked, Unlocked, TypeOK
<1>3. CASE LStoreData
  <2>1. locked' = locked /\ noticed' = noticed /\ pc' \in {"aborted", "pick"}
    BY <1>3 DEF LStoreData, StoreData
  <2>. QED
    BY <2>1 DEF LockInv, NoticedIsLocked, ReadIsUnlocked
<1>4. ASSUME NEW t \in Tables, LEdit(t) PROVE LockInv'
  BY <1>4 DEF LEdit, Edit, OpcUnchanged, tables, work, LockInv, NoticedIsLocked, ReadIsUnlocked
<1>5. CASE LRestart
  BY <1>5 DEF LRestart, Restart, LockInv, NoticedIsLocked, ReadIsUnlocked
<1>6. CASE OtherStep
  BY <1>6, OtherStepFrame, OtherStepReads DEF LockInv, NoticedIsLocked
<1>. QED
  BY <1>1, <1>2, <1>3, <1>4, <1>5, <1>6 DEF LNext, OtherStep

(* No step of dataToDB stores over a difference lockTables noticed and     *)
(* whose lock lasts.                                                       *)
THEOREM NoticedEditIsKept == LSpec => NoticedEditKept
<1>1. LInit => LockInv
  BY DEF LInit, Init, LockInv, NoticedIsLocked, ReadIsUnlocked
<1>2. LockInv /\ [LNext]_lvars => [StoreData => cur \notin noticed]_lvars
  BY DEF LockInv, NoticedIsLocked, ReadIsUnlocked, StoreData
<1>. QED
  BY <1>1, <1>2, LockInvNext, HistoryTypeCorrect, PTL DEF LSpec, NoticedEditKept

----------------------------------------------------------------------------
(* With MySQL an answer is the table itself (qtdatabase.cpp:264-298), and  *)
(* a query that failed gives none: lockOrUnlock sees a difference where    *)
(* the one row does not agree with memory.                                 *)
Agrees(value, content) ==
  content.n = 1 => \A f \in Fields : Atoi(content.last[f]) = value[f]

LEMMA DifferenceIsReal ==
  ASSUME Driver = "QMYSQL", NEW count, NEW value, NEW content, NEW ok \in BOOLEAN,
         Agrees(value, content)
  PROVE  LockOrUnlock(count, value, RetData(ok, content)) \in {0, count}
BY DEF Agrees, LockOrUnlock, DiffersFromMemory, RetData, NoRows

(* Setup leaves a table as it was, or with nothing but a row of NULLs, or  *)
(* empty: fresh memory agrees with the last two.                           *)
LEMMA InitValuesAgree ==
  ASSUME Driver = "QMYSQL", NEW type, NEW content, NEW deleted, NEW inserted,
         InitValues(type, content, deleted, inserted) # content
  PROVE  Agrees(NoValues, InitValues(type, content, deleted, inserted))
<1>1. \/ InitValues(type, content, deleted, inserted).n = 0
      \/ InitValues(type, content, deleted, inserted).last = NullRow
  BY DEF InitValues, Inserted, NoRows
<1>2. \A f \in Fields : NoValues[f] = 0 /\ Atoi(NullRow[f]) = 0
  BY DEF NoValues, NullRow, Atoi
<1>. QED
  BY <1>1, <1>2 DEF Agrees

(* A row stored from values that are all valid agrees with them.           *)
LEMMA StoredAgrees ==
  ASSUME NEW type, NEW value \in Values, NEW valid \in Flags,
         NEW content \in Content, \A f \in Fields : valid[f]
  PROVE  Agrees(value, Stored(type, value, valid, content))
<1>. DEFINE row == Stored(type, value, valid, content)
<1>. SUFFICES ASSUME row.n = 1, NEW f \in Fields
              PROVE  Atoi(row.last[f]) = value[f]
  BY DEF Agrees
<1>1. row.last[f] = value[f]
  <2>1. CASE type # "LASTVALUE"
    BY <2>1 DEF Stored, Inserted
  <2>2. CASE type = "LASTVALUE"
    BY <2>2 DEF Stored, Content, Row
  <2>. QED
    BY <2>1, <2>2
<1>2. value[f] # NULL
  BY NULLAssumption DEF Values
<1>. QED
  BY <1>1, <1>2 DEF Atoi

(* A row taken to memory agrees with it (piTable.cpp:776-794).             *)
LEMMA TakenAgrees ==
  ASSUME Driver = "QMYSQL", NEW value, NEW content
  PROVE  Agrees(SetAllValues(value, RetData(TRUE, content)), content)
BY DEF Agrees, SetAllValues, RetData, NoRows

Sync == \A t \in Tables : Agrees(iValue[t], rows[t]) \/ t \in touched
SyncInv == Sync /\ LockedWasTouched

(* One table at a time: memory and row of the others stay as they were.    *)
LEMMA OneTable ==
  ASSUME SyncInv, NEW t \in Tables,
         \A u \in Tables \ {t} :
           iValue'[u] = iValue[u] /\ rows'[u] = rows[u] /\ locked'[u] = locked[u]
           /\ (u \in touched => u \in touched'),
         t \in touched' \/ (locked'[t] = 0 /\ Agrees(iValue'[t], rows'[t]))
  PROVE  SyncInv'
BY DEF SyncInv, Sync, LockedWasTouched, Agrees

LEMMA SyncInvNext ==
  ASSUME Driver = "QMYSQL", TypeOK, LockInv, SyncInv, [LNext]_lvars
  PROVE  SyncInv'
<1>. USE DEF SyncInv
<1>1. CASE LLockTable
  <2>1. idx \in Tables /\ UNCHANGED << iValue, rows, touched >>
    BY <1>1 DEF LLockTable, LockTable, TypeOK, shared
  <2>2. PICK ok \in BOOLEAN :
          locked' = [locked EXCEPT ![idx] =
                       LockOrUnlock(@, iValue[idx], RetData(ok, rows[idx]))]
    BY <1>1 DEF LLockTable, LockTable
  <2>3. Sync'
    BY <2>1 DEF Sync, Agrees
  <2>4. CASE idx \in touched
    BY <2>1, <2>2, <2>3, <2>4 DEF LockedWasTouched, TypeOK
  <2>5. CASE Agrees(iValue[idx], rows[idx])
    <3>1. LockOrUnlock(locked[idx], iValue[idx], RetData(ok, rows[idx])) \in {0, locked[idx]}
      BY <2>5, DifferenceIsReal
    <3>2. \A t \in Tables : locked'[t] \in {0, locked[t]}
      BY <2>2, <3>1 DEF TypeOK
    <3>. QED
      BY <2>1, <2>3, <3>2 DEF LockedWasTouched
  <2>. QED
    BY <2>1, <2>4, <2>5 DEF Sync
<1>2. CASE LDataToComm
  <2>1. PICK t \in Tables :
          /\ IsFirst(t, wTodo) /\ wTodo' = wTodo \ {t} /\ locked' = Unlocked(t)
          /\ \E ok \in BOOLEAN :
               /\ Query(ok)
               /\ iValue' = [iValue EXCEPT ![t] = SetAllValues(@, RetData(ok, rows[t]))]
    BY <1>2 DEF LDataToComm, DataToComm
  <2>2. PICK ok \in BOOLEAN :
          /\ Query(ok)
          /\ iValue' = [iValue EXCEPT ![t] = SetAllValues(@, RetData(ok, rows[t]))]
    BY <2>1
  <2>3. rows' = rows /\ wTodo \ wTodo' = {t}
    BY <1>2, <2>1 DEF LDataToComm, DataToComm, shared, IsFirst
  <2>4. locked'[t] = 0 /\ \A u \in Tables \ {t} : locked'[u] = locked[u]
    BY <2>1 DEF Unlocked, TypeOK
  <2>5. CASE ok
    <3>1. left' = left
      BY <2>2, <2>5 DEF Query
    <3>2. touched' = touched \ {t}
      BY <1>2, <2>3, <3>1 DEF LDataToComm
    <3>3. iValue'[t] = SetAllValues(iValue[t], RetData(TRUE, rows[t]))
          /\ \A u \in Tables \ {t} : iValue'[u] = iValue[u]
      BY <2>2, <2>5 DEF TypeOK
    <3>4. Agrees(iValue'[t], rows[t])
      BY <3>3, TakenAgrees
    <3>. QED
      BY <2>3, <2>4, <3>2, <3>3, <3>4, OneTable
  <2>6. CASE ~ok
    <3>1. RetData(ok, rows[t]).n = 0
      BY <2>6 DEF RetData, NoRows
    <3>2. iValue' = iValue
      BY <2>2, <3>1 DEF SetAllValues, TypeOK
    <3>3. left' # left
      BY <2>2, <2>6 DEF Query, Spend, TypeOK, BudgetKinds
    <3>4. touched' = touched
      BY <1>2, <3>3 DEF LDataToComm
    <3>5. Sync'
      BY <2>3, <3>2, <3>4 DEF Sync, Agrees
    <3>6. LockedWasTouched'
      BY <2>4, <3>4 DEF LockedWasTouched
    <3>. QED
      BY <3>5, <3>6
  <2>. QED
    BY <2>5, <2>6
<1>3. CASE LStoreData
  <2>1. /\ pc = "store" /\ locked' = locked /\ cur \in Tables /\ locked[cur] = 0
        /\ iValue' = [iValue EXCEPT ![cur] = tags.iValue]
    BY <1>3 DEF LStoreData, StoreData, TypeOK, LockInv, ReadIsUnlocked
  <2>2. /\ \A t \in Tables \ {cur} : iValue'[t] = iValue[t] /\ rows'[t] = rows[t]
        /\ iValue'[cur] = tags.iValue
    BY <1>3, <2>1 DEF LStoreData, StoreData, TypeOK
  <2>3. CASE left' = left /\ pc' = "pick" /\ \A f \in Fields : tags.isValid[f]
    <3>1. touched' = touched \ {cur}
      BY <1>3, <2>3 DEF LStoreData
    <3>2. ~StoreThrows(tags.iValue, tags.isValid)
      BY <1>3, <2>3 DEF LStoreData, StoreData
    <3>3. PICK ok \in BOOLEAN :
            /\ ok \/ StoreHasEffect(TbType[cur], tags.isValid)
            /\ Query(ok)
            /\ rows' = IF ok /\ StoreHasEffect(TbType[cur], tags.isValid)
                       THEN [rows EXCEPT ![cur] =
                               Stored(TbType[cur], tags.iValue, tags.isValid, @)]
                       ELSE rows
      BY <1>3, <3>2 DEF LStoreData, StoreData
    <3>4. ok
      BY <2>3, <3>3 DEF Query, Spend, TypeOK, BudgetKinds
    <3>5. Agrees(tags.iValue, rows'[cur])
      <4>1. CASE StoreHasEffect(TbType[cur], tags.isValid)
        <5>1. rows'[cur] = Stored(TbType[cur], tags.iValue, tags.isValid, rows[cur])
          BY <2>1, <3>3, <3>4, <4>1 DEF TypeOK
        <5>2. /\ tags.iValue \in Values /\ tags.isValid \in Flags
              /\ rows[cur] \in Content
          BY <2>1 DEF TypeOK
        <5>. QED
          BY <2>3, <5>1, <5>2, StoredAgrees
      <4>2. CASE ~StoreHasEffect(TbType[cur], tags.isValid)
        BY <2>3, <4>2 DEF StoreHasEffect, Agrees
      <4>. QED
        BY <4>1, <4>2
    <3>. QED
      BY <2>1, <2>2, <3>1, <3>5, OneTable
  <2>4. CASE ~(left' = left /\ pc' = "pick" /\ \A f \in Fields : tags.isValid[f])
    <3>1. touched' = touched \union {cur}
      BY <1>3, <2>4 DEF LStoreData
    <3>. QED
      BY <2>1, <2>2, <3>1, OneTable
  <2>. QED
    BY <2>3, <2>4
<1>4. ASSUME NEW t \in Tables, LEdit(t) PROVE SyncInv'
  <2>1. /\ UNCHANGED << locked, iValue >> /\ touched' = touched \union {t}
        /\ \A u \in Tables \ {t} : rows'[u] = rows[u]
    BY <1>4 DEF LEdit, Edit, OpcUnchanged, tables, TypeOK
  <2>. QED
    BY <2>1, OneTable
<1>5. CASE LRestart
  <2>1. /\ \A t \in Tables : locked'[t] = 0 /\ iValue'[t] = NoValues
        /\ touched' = {t \in Tables : rows'[t] = rows[t]}
    BY <1>5 DEF LRestart, Restart
  <2>2. PICK deleted, inserted \in SUBSET Tables :
          rows' = [t \in Tables |->
                     InitValues(TbType[t], rows[t], t \in deleted, t \in inserted)]
    BY <1>5 DEF LRestart, Restart
  <2>3. ASSUME NEW t \in Tables, rows'[t] # rows[t]
        PROVE  Agrees(NoValues, rows'[t])
    BY <2>2, <2>3, InitValuesAgree
  <2>4. Sync'
    BY <2>1, <2>3 DEF Sync, Agrees
  <2>. QED
    BY <2>1, <2>4 DEF LockedWasTouched
<1>6. CASE OtherStep
  BY <1>6, OtherStepFrame DEF Sync, Agrees, LockedWasTouched
<1>. QED
  BY <1>1, <1>2, <1>3, <1>4, <1>5, <1>6 DEF LNext, OtherStep

(* With MySQL, row and memory differ, and a table is locked, only where    *)
(* something made them differ since they last agreed.                      *)
THEOREM LocksHaveACause ==
  ASSUME Driver = "QMYSQL"
  PROVE  LSpec => []UntouchedInSync /\ []LockedWasTouched
<1>1. LInit => SyncInv
  <2>. SUFFICES ASSUME LInit PROVE SyncInv
    OBVIOUS
  <2>1. \A t \in Tables : locked[t] = 0 /\ iValue[t] = NoValues
                          /\ rows[t] = InitValues(TbType[t], NoRows, TRUE, TRUE)
    BY DEF LInit, Init
  <2>2. ASSUME NEW t \in Tables PROVE Agrees(NoValues, rows[t])
    <3>1. rows[t].n = 0 \/ rows[t].last = NullRow
      BY <2>1 DEF InitValues, Inserted, NoRows
    <3>. QED
      BY <3>1 DEF Agrees, NoValues, NullRow, Atoi
  <2>3. ASSUME NEW t \in Tables PROVE Agrees(iValue[t], rows[t])
    <3>1. iValue[t] = NoValues
      BY <2>1
    <3>. QED
      BY <2>2, <3>1
  <2>4. LockedWasTouched
    BY DEF LInit, Init, LockedWasTouched
  <2>. QED
    BY <2>3, <2>4 DEF SyncInv, Sync
<1>2. TypeOK /\ LockInv /\ SyncInv /\ [LNext]_lvars => SyncInv'
  BY SyncInvNext
<1>3. LInit => LockInv
  BY DEF LInit, Init, LockInv, NoticedIsLocked, ReadIsUnlocked
<1>4. SyncInv => UntouchedInSync /\ LockedWasTouched
  BY DEF SyncInv, Sync, Agrees, UntouchedInSync, DiffersFromMemory, RetData, NoRows
<1>. QED
  BY <1>1, <1>2, <1>3, <1>4, LockInvNext, HistoryTypeCorrect, PTL DEF LSpec

(* A table nobody touched since row and memory agreed has them agree.      *)
THEOREM UntouchedStaysInSync ==
  ASSUME Driver = "QMYSQL"
  PROVE  LSpec => []UntouchedInSync
BY LocksHaveACause, PTL
=============================================================================
