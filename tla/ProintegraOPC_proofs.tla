------------------------ MODULE ProintegraOPC_proofs ------------------------
(***************************************************************************)
(* Type correctness of the OPC, for any tables, triggers, links and        *)
(* budgets: every reachable state satisfies TypeOK, the loops' index       *)
(* included, so that no access of the code to an array is out of range.    *)
(***************************************************************************)
EXTENDS ProintegraOPC, SequenceTheorems, TLAPS

USE NumTablesAssumption, NumRegsAssumption, LockLimitAssumption

(* The conversions of a tag give an integer for whatever the shared memory *)
(* or a column holds (piComm.cpp:111-176).                                 *)
LEMMA ConversionsInt ==
  /\ \A type, w : w \in Word \union {DAQ_ERROR} => FromRegister(type, w) \in Int
  /\ \A type, v : v \in Int => ToRegister(type, v) \in Int
<1>1. ASSUME NEW w \in Word \union {DAQ_ERROR}
      PROVE  w \in Int /\ gstWord2Int(w) \in Int
  BY <1>1 DEF gstWord2Int, Complement16, Word, DAQ_ERROR
<1>2. ASSUME NEW v \in Int
      PROVE  gstInt2Word(v) \in Int
  BY <1>2 DEF gstInt2Word, Clamp16, Complement16
<1>. QED
  BY <1>1, <1>2 DEF FromRegister, ToRegister

(* What memory takes from a row is integers (piTable.cpp:776-794).         *)
LEMMA SetAllValuesType ==
  ASSUME NEW value \in Values, NEW data \in Content
  PROVE  SetAllValues(value, data) \in Values
BY NULLAssumption DEF SetAllValues, Values, Content, Row, DbValue, Atoi

(* A query's answer has the shape of a table (qtdatabase.cpp:241-303).     *)
LEMMA RetDataType ==
  ASSUME NEW ok \in BOOLEAN, NEW content \in Content
  PROVE  RetData(ok, content) \in Content
BY DEF RetData, Content, NoRows, NullRow, Row, DbValue

(* The lock count stays within its limit (piTable.cpp:666-669).            *)
LEMMA LockOrUnlockRange ==
  ASSUME NEW count \in 0 .. LockLimit, NEW value, NEW data
  PROVE  LockOrUnlock(count, value, data) \in 0 .. LockLimit
BY DEF LockOrUnlock

(* The queries of setup and of store leave a table a table.                *)
LEMMA InitValuesType ==
  ASSUME NEW type, NEW content \in Content, NEW deleted, NEW inserted
  PROVE  InitValues(type, content, deleted, inserted) \in Content
BY DEF InitValues, Content, NoRows, NullRow, Row, DbValue, Inserted

LEMMA StoredType ==
  ASSUME NEW type, NEW value \in Values, NEW valid \in Flags, NEW content \in Content
  PROVE  Stored(type, value, valid, content) \in Content
BY DEF Stored, Inserted, Content, Row, DbValue, Values, Flags

(* The links of a table are a sequence of pairs.                           *)
LEMMA LinkType ==
  ASSUME NEW t \in Tables
  PROVE  /\ Links[t] \in Seq([field : Fields, reg : Regs])
         /\ DOMAIN Links[t] = 1 .. Len(Links[t]) /\ Len(Links[t]) \in Nat
         /\ \A k \in DOMAIN Links[t] : Links[t][k].field \in Fields /\ Links[t][k].reg \in Regs
<1>1. Links[t] \in Seq([field : Fields, reg : Regs])
  BY LinksAssumption
<1>2. DOMAIN Links[t] = 1 .. Len(Links[t]) /\ Len(Links[t]) \in Nat
  BY <1>1
<1>3. ASSUME NEW k \in DOMAIN Links[t]
      PROVE  Links[t][k] \in [field : Fields, reg : Regs]
  BY <1>1, <1>2, <1>3, ElementOfSeq
<1>. QED
  BY <1>1, <1>2, <1>3, ElementOfSeq

(* The messages of a table are written to registers (piComm.cpp:156-176).  *)
LEMMA MessagesType ==
  ASSUME NEW t \in Tables, NEW value \in Values
  PROVE  Messages(t, value) \in Seq(Regs \X Int)
<1> DEFINE msg(k) == << Links[t][k].reg,
                        ToRegister(DataType[Links[t][k].reg], value[Links[t][k].field]) >>
<1>1. \A k \in 1 .. Len(Links[t]) : msg(k) \in Regs \X Int
  BY LinkType, ConversionsInt DEF Values
<1>2. Messages(t, value) = [k \in 1 .. Len(Links[t]) |-> msg(k)]
  BY DEF Messages
<1>. QED
  BY <1>1, <1>2, LinkType


LEMMA InitType == Init => TypeOK
<1>. SUFFICES ASSUME Init PROVE TypeOK
  OBVIOUS
<1>1. rows \in [Tables -> Content]
  <2>1. NoRows \in Content
    BY DEF NoRows, NullRow, Content, Row, DbValue
  <2>. QED
    BY <2>1, InitValuesType DEF Init
<1>2. shm \in [Regs -> Word \union {DAQ_ERROR}]
  BY DEF Init, NoTag
<1>3. posted \in Seq(Regs \X Int)
  BY DEF Init
<1>4. /\ iValue \in [Tables -> Values] /\ isValid \in [Tables -> Flags]
      /\ tags \in [iValue : Values, isValid : Flags]
  BY DEF Init, NoValues, NoFlags, Values, Flags
<1>5. /\ locked \in [Tables -> 0 .. LockLimit] /\ cur \in Tables
  BY DEF Init, Tables
<1>6. /\ regValue \in [Regs -> Int] /\ regValid \in [Regs -> BOOLEAN]
      /\ read \in [Tables -> {"never", "recent", "old"}]
  BY DEF Init
<1>7. /\ on \subseteq TrgFields /\ done \subseteq TrgFields
      /\ triggersLst \subseteq TrgFields /\ lstDone \subseteq TrgFields
      /\ timeLst \subseteq Tables /\ trigDB \subseteq Names
      /\ wTodo \subseteq Tables /\ rTodo \subseteq Tables /\ tTodo \subseteq Tables
  BY DEF Init
<1>8. pc = "top" /\ idx = 0 /\ j = 0 /\ lExit = FALSE /\ left \in [BudgetKinds -> Nat]
  BY BudgetAssumption DEF Init
<1>. QED
  BY <1>1, <1>2, <1>3, <1>4, <1>5, <1>6, <1>7, <1>8 DEF TypeOK, Pcs

(***************************************************************************)
(* One step of the OPC, of another actor, or of whoever restarts it.       *)
(***************************************************************************)
LEMMA RestartType == TypeOK /\ Restart => TypeOK'
<1>. SUFFICES ASSUME TypeOK, Restart PROVE TypeOK'
  OBVIOUS
<1>1. rows' \in [Tables -> Content]
  BY InitValuesType DEF Restart, TypeOK
<1>2. /\ iValue' \in [Tables -> Values] /\ isValid' \in [Tables -> Flags]
      /\ tags' \in [iValue : Values, isValid : Flags]
  BY DEF Restart, NoValues, NoFlags, Values, Flags
<1>3. locked' \in [Tables -> 0 .. LockLimit] /\ cur' \in Tables
  BY DEF Restart, Tables
<1>4. trigDB' \subseteq Names
  BY DEF Restart, TypeOK
<1>5. left' \in [BudgetKinds -> Nat]
  <2>1. PICK allOk \in BOOLEAN :
          /\ left["restart"] > 0
          /\ ~allOk => left["fail"] > 0
          /\ left' = [left EXCEPT !["restart"] = @ - 1,
                                 !["fail"] = IF allOk THEN @ ELSE @ - 1]
    BY Zenon DEF Restart
  <2>2. left \in [BudgetKinds -> Nat] /\ "restart" \in BudgetKinds /\ "fail" \in BudgetKinds
    BY DEF TypeOK, BudgetKinds
  <2>. QED
    BY <2>1, <2>2
<1>6. posted' \in Seq(Regs \X Int)
  BY DEF Restart
<1>7. /\ regValue' \in [Regs -> Int] /\ regValid' \in [Regs -> BOOLEAN]
      /\ read' \in [Tables -> {"never", "recent", "old"}]
  BY DEF Restart
<1>8. /\ on' = {} /\ done' = {} /\ triggersLst' = {} /\ lstDone' = {} /\ timeLst' = {}
      /\ wTodo' = {} /\ rTodo' = {} /\ tTodo' = {}
  BY DEF Restart
<1>9. /\ pc' = "top" /\ idx' = 0 /\ j' = 0 /\ lExit' = FALSE /\ shm' = shm
  BY DEF Restart
<1>. QED
  BY <1>1, <1>2, <1>3, <1>4, <1>5, <1>6, <1>7, <1>8, <1>9 DEF TypeOK, Pcs

(* The end of a turn of the loops that read tags, once the tag is read.    *)
LEMMA NextTurnType ==
  ASSUME TypeOK, pc \in {"capture", "captureUse", "read", "readUse"}, NextTurn,
         regValue' \in [Regs -> Int], regValid' \in [Regs -> BOOLEAN],
         UNCHANGED << shared, posted, tables, triggers, wTodo, rTodo, tTodo, j, cur, left >>
  PROVE  TypeOK'
<1>. USE DEF shared, tables, triggers
<1>1. CASE AfterRead = "capture"
  <2>1. pc \in {"capture", "captureUse"}
    BY <1>1 DEF AfterRead
  <2>2. idx \in 1 .. NumRegs
    BY <2>1 DEF TypeOK, Regs
  <2>3. \/ pc' = "capture" /\ idx' \in Regs
        \/ pc' = "captured" /\ idx' = 0
    BY <1>1, <2>2 DEF NextTurn, Regs
  <2>4. idx' \in Nat /\ (pc' = "captured" => idx' \in Tables)
    BY <2>3 DEF Tables, Regs
  <2>5. tags' = tags
    BY <1>1 DEF NextTurn
  <2>. QED
    BY <2>3, <2>4, <2>5 DEF TypeOK, Pcs
<1>2. CASE AfterRead # "capture"
  <2>1. pc \in {"read", "readUse"} /\ cur \in Tables /\ idx \in DOMAIN Links[cur]
    BY <1>2 DEF AfterRead, TypeOK
  <2>2. RegAt \in Regs /\ Links[cur][idx].field \in Fields
    BY <1>2, <2>1, LinkType DEF RegAt, AfterRead
  <2>3. tags' \in [iValue : Values, isValid : Flags]
    <3>1. regValue'[RegAt] \in Int /\ regValid'[RegAt] \in BOOLEAN
      BY <2>2
    <3>2. /\ tags.iValue \in [Fields -> Int] /\ tags.isValid \in [Fields -> BOOLEAN]
      BY DEF TypeOK, Values, Flags
    <3>3. tags' = [iValue  |-> [tags.iValue EXCEPT ![Links[cur][idx].field] = regValue'[RegAt]],
                   isValid |-> [tags.isValid EXCEPT ![Links[cur][idx].field] =
                                  regValid'[RegAt]]]
      BY <1>2 DEF NextTurn
    <3>. QED
      BY <3>1, <3>2, <3>3 DEF Values, Flags
  <2>4. /\ pc' \in {"read", "store"} /\ idx' \in Nat
        /\ pc' = "read" => idx' \in DOMAIN Links[cur]
    BY <1>2, <2>1, LinkType DEF NextTurn
  <2>. QED
    BY <2>3, <2>4 DEF TypeOK, Pcs
<1>. QED
  BY <1>1, <1>2

LEMMA ReadTagCheckType == TypeOK /\ ReadTagCheck => TypeOK'
<1>. SUFFICES ASSUME TypeOK, ReadTagCheck PROVE TypeOK'
  OBVIOUS
<1>1. CASE shm[RegAt] = DAQ_ERROR
  <2>1. regValue' \in [Regs -> Int] /\ regValid' \in [Regs -> BOOLEAN]
    BY <1>1 DEF ReadTagCheck, TypeOK
  <2>. QED
    BY <1>1, <2>1, NextTurnType DEF ReadTagCheck
<1>2. CASE shm[RegAt] # DAQ_ERROR
  BY <1>2 DEF ReadTagCheck, TypeOK, Pcs, shared, tables, triggers
<1>. QED
  BY <1>1, <1>2

LEMMA ReadTagUseType == TypeOK /\ ReadTagUse => TypeOK'
<1>. SUFFICES ASSUME TypeOK, ReadTagUse PROVE TypeOK'
  OBVIOUS
<1>1. RegAt \in Regs
  <2>1. CASE AfterRead = "capture"
    BY <2>1 DEF AfterRead, RegAt, ReadTagUse, TypeOK
  <2>2. CASE AfterRead # "capture"
    BY <2>2, LinkType DEF AfterRead, RegAt, ReadTagUse, TypeOK
  <2>. QED
    BY <2>1, <2>2
<1>2. FromRegister(DataType[RegAt], shm[RegAt]) \in Int
  BY <1>1, ConversionsInt DEF TypeOK
<1>3. regValue' \in [Regs -> Int] /\ regValid' \in [Regs -> BOOLEAN]
  BY <1>2 DEF ReadTagUse, TypeOK
<1>. QED
  BY <1>3, NextTurnType DEF ReadTagUse

LEMMA SpendType ==
  ASSUME left \in [BudgetKinds -> Nat], NEW kind \in BudgetKinds, Spend(kind)
  PROVE  left' \in [BudgetKinds -> Nat]
BY DEF Spend

LEMMA QueryType ==
  ASSUME left \in [BudgetKinds -> Nat], NEW ok \in BOOLEAN, Query(ok)
  PROVE  left' \in [BudgetKinds -> Nat]
BY SpendType DEF Query, BudgetKinds

LEMMA LoopTopType == TypeOK /\ LoopTop => TypeOK'
BY DEF TypeOK, LoopTop, Pcs, Regs, shared, comm, tables, triggers, work

LEMMA DataCapturedType == TypeOK /\ DataCaptured => TypeOK'
<1>. SUFFICES ASSUME TypeOK, DataCaptured PROVE TypeOK'
  OBVIOUS
<1>1. pc' \in {"lock", "top"} /\ idx' \in Tables /\ pc = "captured"
  BY DEF DataCaptured, TypeOK
<1>. QED
  BY <1>1 DEF TypeOK, DataCaptured, Pcs, shared, comm, tables, triggers, work

LEMMA LockTableType == TypeOK /\ LockTable => TypeOK'
<1>. SUFFICES ASSUME TypeOK, LockTable PROVE TypeOK'
  OBVIOUS
<1>1. idx \in Tables /\ pc = "lock"
  BY DEF TypeOK, LockTable
<1>2. PICK ok \in BOOLEAN :
        /\ Query(ok)
        /\ locked' = [locked EXCEPT ![idx] =
                        LockOrUnlock(@, iValue[idx], RetData(ok, rows[idx]))]
  BY DEF LockTable
<1>3. left' \in [BudgetKinds -> Nat]
  BY <1>2, QueryType DEF TypeOK
<1>4. locked' \in [Tables -> 0 .. LockLimit]
  BY <1>1, <1>2, LockOrUnlockRange DEF TypeOK
<1>5. (pc' = "lock" /\ idx' \in Tables) \/ (pc' = "triggers" /\ idx' \in Nat)
  BY <1>1 DEF LockTable, Tables
<1>6. idx' \in Nat
  BY <1>5 DEF Tables
<1>. QED
  BY <1>3, <1>4, <1>5, <1>6
  DEF TypeOK, LockTable, Pcs, shared, comm, triggers, work

LEMMA TakeTriggersType == TypeOK /\ TakeTriggers => TypeOK'
<1>. SUFFICES ASSUME TypeOK, TakeTriggers PROVE TypeOK'
  OBVIOUS
<1>1. PICK ok \in BOOLEAN :
        /\ Query(ok)
        /\ on'   = UpdtTrgsOn(on, done, TriggersOn(Driver, ok, trigDB))
        /\ done' = UpdtTrgsNotDone(done, TriggersOn(Driver, ok, trigDB))
  BY DEF TakeTriggers
<1>2. left' \in [BudgetKinds -> Nat]
  BY <1>1, QueryType DEF TypeOK
<1>3. on' \subseteq TrgFields /\ done' \subseteq TrgFields
  BY <1>1 DEF TypeOK, UpdtTrgsOn, UpdtTrgsNotDone
<1>4. triggersLst' \subseteq TrgFields /\ lstDone' = {}
  BY <1>3 DEF TakeTriggers, RetTgsLst
<1>5. read' \in [Tables -> {"never", "recent", "old"}]
  BY DEF TakeTriggers, TypeOK
<1>6. timeLst' \subseteq Tables /\ wTodo' \subseteq Tables /\ pc' = "comm" /\ idx' = idx
  BY DEF TakeTriggers, TypeOK
<1>. QED
  BY <1>2, <1>3, <1>4, <1>5, <1>6 DEF TypeOK, TakeTriggers, Pcs, shared, comm

LEMMA DataToCommType == TypeOK /\ DataToComm => TypeOK'
<1>. SUFFICES ASSUME TypeOK, DataToComm PROVE TypeOK'
  OBVIOUS
<1>1. PICK t \in Tables :
        /\ \E ok \in BOOLEAN :
             /\ Query(ok)
             /\ iValue' = [iValue EXCEPT ![t] = SetAllValues(@, RetData(ok, rows[t]))]
        /\ posted' = Messages(t, iValue'[t])
        /\ locked' = Unlocked(t)
        /\ lstDone' = lstDone \union WTriggerDoneAt(t)
        /\ wTodo' = wTodo \ {t}
  BY DEF DataToComm
<1>2. PICK ok \in BOOLEAN :
        /\ Query(ok)
        /\ iValue' = [iValue EXCEPT ![t] = SetAllValues(@, RetData(ok, rows[t]))]
  BY <1>1
<1>3. left' \in [BudgetKinds -> Nat]
  BY <1>2, QueryType DEF TypeOK
<1>4. iValue' \in [Tables -> Values] /\ iValue'[t] \in Values
  <2>1. RetData(ok, rows[t]) \in Content
    BY RetDataType DEF TypeOK
  <2>2. SetAllValues(iValue[t], RetData(ok, rows[t])) \in Values
    BY <2>1, SetAllValuesType DEF TypeOK
  <2>. QED
    BY <1>2, <2>2 DEF TypeOK
<1>5. posted' \in Seq(Regs \X Int)
  BY <1>1, <1>4, MessagesType
<1>6. locked' \in [Tables -> 0 .. LockLimit]
  BY <1>1 DEF TypeOK, Unlocked
<1>7. lstDone' \subseteq TrgFields /\ wTodo' \subseteq Tables
  BY <1>1 DEF TypeOK, WTriggerDoneAt
<1>. QED
  BY <1>3, <1>4, <1>5, <1>6, <1>7 DEF TypeOK, DataToComm, shared

LEMMA DataToCommDoneType == TypeOK /\ DataToCommDone => TypeOK'
<1>. SUFFICES ASSUME TypeOK, DataToCommDone PROVE TypeOK'
  OBVIOUS
<1>1. /\ posted' \in Seq(Regs \X Int) /\ pc' = "pick" /\ j' \in Nat
      /\ rTodo' \subseteq Tables /\ tTodo' \subseteq Tables
  BY DEF DataToCommDone, TypeOK
<1>. QED
  BY <1>1 DEF TypeOK, DataToCommDone, Pcs, shared, tables, triggers

LEMMA PickTableType == TypeOK /\ PickTable => TypeOK'
<1>. SUFFICES ASSUME TypeOK, PickTable PROVE TypeOK'
  OBVIOUS
<1>1. rTodo' \subseteq Tables /\ tTodo' \subseteq Tables
  BY DEF PickTable, TypeOK
<1>2. PICK t \in Tables :
        IF IsTableLocked(t)
        THEN j' = j + 1 /\ UNCHANGED << pc, idx, cur, tags >>
        ELSE /\ cur' = t
             /\ tags' = [iValue |-> iValue[t], isValid |-> isValid[t]]
             /\ IF Links[t] = << >> THEN pc' = "store" /\ UNCHANGED idx
                                    ELSE pc' = "read" /\ idx' = 1
             /\ UNCHANGED j
  BY DEF PickTable
<1>3. CASE IsTableLocked(t)
  BY <1>1, <1>2, <1>3 DEF TypeOK, PickTable, Pcs, shared, comm, tables, triggers
<1>4. CASE ~IsTableLocked(t)
  <2>1. tags' \in [iValue : Values, isValid : Flags] /\ cur' \in Tables
    BY <1>2, <1>4 DEF TypeOK
  <2>2. idx' \in Nat /\ pc' \in {"store", "read"}
    BY <1>2, <1>4 DEF TypeOK
  <2>3. pc' = "read" => idx' \in DOMAIN Links[cur']
    BY <1>2, <1>4, LinkType, EmptySeq
  <2>. QED
    BY <1>1, <1>2, <1>4, <2>1, <2>2, <2>3
    DEF TypeOK, PickTable, Pcs, shared, comm, tables, triggers
<1>. QED
  BY <1>3, <1>4

LEMMA StoreDataType == TypeOK /\ StoreData => TypeOK'
<1>. SUFFICES ASSUME TypeOK, StoreData PROVE TypeOK'
  OBVIOUS
<1>1. /\ iValue' \in [Tables -> Values] /\ isValid' \in [Tables -> Flags]
      /\ lstDone' \subseteq TrgFields
  BY DEF StoreData, TypeOK, RTriggerDoneAt
<1>2. CASE StoreThrows(tags.iValue, tags.isValid)
  BY <1>1, <1>2 DEF TypeOK, StoreData, Pcs, comm
<1>3. CASE ~StoreThrows(tags.iValue, tags.isValid)
  <2>1. PICK ok \in BOOLEAN :
          /\ Query(ok)
          /\ \/ rows' = [rows EXCEPT ![cur] =
                          Stored(TbType[cur], tags.iValue, tags.isValid, @)]
             \/ rows' = rows
    BY <1>3 DEF StoreData
  <2>2. left' \in [BudgetKinds -> Nat]
    BY <2>1, QueryType DEF TypeOK
  <2>3. Stored(TbType[cur], tags.iValue, tags.isValid, rows[cur]) \in Content
    BY StoredType DEF TypeOK
  <2>4. rows' \in [Tables -> Content]
    BY <2>1, <2>3 DEF TypeOK
  <2>5. pc' = "pick" /\ j' \in Nat
    BY <1>3 DEF StoreData, TypeOK
  <2>. QED
    BY <1>1, <2>2, <2>4, <2>5 DEF TypeOK, StoreData, Pcs, comm
<1>. QED
  BY <1>2, <1>3

LEMMA ResetTriggersType == TypeOK /\ ResetTriggers => TypeOK'
<1>. SUFFICES ASSUME TypeOK, ResetTriggers PROVE TypeOK'
  OBVIOUS
<1>1. PICK ok \in BOOLEAN :
        /\ Query(ok)
        /\ trigDB' = IF ok THEN trigDB \ SqlTrgsDone(on, done') ELSE trigDB
  BY DEF ResetTriggers
<1>2. left' \in [BudgetKinds -> Nat] /\ trigDB' \subseteq Names
  BY <1>1, QueryType DEF TypeOK
<1>3. /\ read' \in [Tables -> {"never", "recent", "old"}]
      /\ timeLst' \subseteq Tables /\ done' \subseteq TrgFields /\ pc' = "top"
  BY DEF ResetTriggers, TypeOK, UpdtTrgsDone
<1>. QED
  BY <1>2, <1>3 DEF TypeOK, ResetTriggers, Pcs, comm, work

LEMMA OthersType == TypeOK /\ Others => TypeOK'
<1>. SUFFICES ASSUME TypeOK, Others PROVE TypeOK'
  OBVIOUS
<1>. USE DEF OpcUnchanged, comm, tables, triggers, work
<1>1. ASSUME NEW r \in Regs, Poll(r) PROVE TypeOK'
  <2>1. left' \in [BudgetKinds -> Nat]
    BY <1>1, SpendType DEF TypeOK, Poll, BudgetKinds
  <2>2. shm' \in [Regs -> Word \union {DAQ_ERROR}]
    BY <1>1, WordsAssumption DEF TypeOK, Poll
  <2>. QED
    BY <1>1, <2>1, <2>2 DEF TypeOK, Poll
<1>2. ASSUME NEW t \in Tables, Edit(t) PROVE TypeOK'
  <2>1. left' \in [BudgetKinds -> Nat]
    BY <1>2, SpendType DEF TypeOK, Edit, BudgetKinds
  <2>2. PICK f \in Fields, v \in EditValues : rows' = [rows EXCEPT ![t].last[f] = v]
    BY <1>2 DEF Edit
  <2>3. rows[t] \in Content /\ v \in DbValue
    BY EditValuesAssumption DEF TypeOK, DbValue
  <2>4. rows' \in [Tables -> Content]
    <3>1. [rows[t].last EXCEPT ![f] = v] \in Row
      BY <2>3 DEF Content, Row
    <3>2. [rows[t] EXCEPT !.last = [rows[t].last EXCEPT ![f] = v]] \in Content
      BY <2>3, <3>1 DEF Content
    <3>3. rows' = [rows EXCEPT ![t] =
                     [rows[t] EXCEPT !.last = [rows[t].last EXCEPT ![f] = v]]]
      BY <2>2
    <3>. QED
      BY <3>2, <3>3 DEF TypeOK
  <2>. QED
    BY <1>2, <2>1, <2>4 DEF TypeOK, Edit
<1>3. ASSUME NEW n \in Names, Raise(n) PROVE TypeOK'
  <2>1. left' \in [BudgetKinds -> Nat]
    BY <1>3, SpendType DEF TypeOK, Raise, BudgetKinds
  <2>. QED
    BY <1>3, <2>1 DEF TypeOK, Raise
<1>4. ASSUME NEW t \in Timed, Tick(t) PROVE TypeOK'
  BY <1>4 DEF TypeOK, Tick, shared
<1>5. ASSUME SigInt PROVE TypeOK'
  BY <1>5 DEF TypeOK, SigInt
<1>. QED
  BY <1>1, <1>2, <1>3, <1>4, <1>5 DEF Others

LEMMA StutterType == TypeOK /\ UNCHANGED vars => TypeOK'
BY DEF TypeOK, vars, shared, comm, tables, triggers, work

(***************************************************************************)
(* TypeOK is inductive as it stands.                                       *)
(***************************************************************************)
LEMMA NextType == TypeOK /\ [Next]_vars => TypeOK'
<1>. SUFFICES ASSUME TypeOK, [Next]_vars PROVE TypeOK'
  OBVIOUS
<1>1. CASE Scan
  BY <1>1, LoopTopType, ReadTagCheckType, ReadTagUseType, DataCapturedType, LockTableType,
     TakeTriggersType, DataToCommType, DataToCommDoneType, PickTableType, StoreDataType,
     ResetTriggersType
  DEF Scan
<1>2. CASE Others
  BY <1>2, OthersType
<1>3. CASE Restart
  BY <1>3, RestartType
<1>4. CASE Stopped
  BY <1>4, StutterType DEF Stopped
<1>5. CASE UNCHANGED vars
  BY <1>5, StutterType
<1>. QED
  BY <1>1, <1>2, <1>3, <1>4, <1>5 DEF Next

(* Every reachable state of the OPC has its variables in their ranges: the *)
(* lock counts within CONF_TABLE_LOCK_LIMIT, every index of the loops of   *)
(* prointegraOPC.cpp:136-230 within what it indexes.                       *)
THEOREM TypeCorrect == Spec => []TypeOK
<1>. QED
  BY InitType, NextType, PTL DEF Spec
=============================================================================
