--------------------------- MODULE ProintegraOPC ---------------------------
(***************************************************************************)
(* The OPC process: ProintegraOPC::loop (prointegraOPC.cpp) over one       *)
(* DBInterface (piDatabase.cpp) and its CommInterfaces (piComm.cpp), with  *)
(* the actors it shares state with:                                        *)
(*   - the SQL database, which an operator's SCADA edits: it changes a row *)
(*     and raises triggers;                                                *)
(*   - the shared memory, which the modbus daemon fills at any moment;     *)
(*   - the wall clock, the SIGINT handler, and whoever restarts the OPC.   *)
(*                                                                         *)
(* The OPC is one thread.  A step of it ends where another actor can see   *)
(* or change what it works on: one query of the database, or one access to *)
(* the shared memory, per step.                                            *)
(***************************************************************************)
EXTENDS Integers, Sequences, TagValues, DBDataTable, DBTriggersTable

CONSTANTS
  NumRegs,     \* the tags of all slaves, numbered slave by slave from 1
  DataType,    \* "INT" or "WORD", the type of each tag
  Links,       \* per table, the [field, reg] pairs linkTags made, in loop order
  TbType,      \* "LASTVALUE" or "LOG", per table
  Timed,       \* the tables with timeReadTrigger > 0
  Words,       \* the register words the daemon may store in shared memory
  EditValues,  \* the values an operator writes to a column
  Budget       \* bounds: [poll, edit, raise, fail, restart |-> Nat]

Regs == 1 .. NumRegs

ASSUME NumRegsAssumption == NumRegs \in Nat \ {0}
ASSUME DataTypeAssumption == DataType \in [Regs -> {"INT", "WORD"}]
ASSUME LinksAssumption == Links \in [Tables -> Seq([field : Fields, reg : Regs])]
ASSUME TbTypeAssumption == TbType \in [Tables -> {"LASTVALUE", "LOG"}]
ASSUME TimedAssumption == Timed \subseteq Tables
ASSUME WordsAssumption == Words \subseteq Word
ASSUME EditValuesAssumption == EditValues \subseteq Int
BudgetKinds == {"poll", "edit", "raise", "fail", "restart"}
ASSUME BudgetAssumption == Budget \in [BudgetKinds -> Nat]

VARIABLES
  \* shared with the other actors
  shm,         \* shm[r]: what intValue answers for the tag r
  rows,        \* rows[t]: content of the data table t in the database
  trigDB,      \* the names whose VALUE is 1 in the triggers table
  lExit,       \* set by exitHandler
  \* CommInterface
  regValue,    \* stRegisters[].iValue
  regValid,    \* stRegisters[].valueValid
  posted,      \* the messages the last dataToComm step put in the mailbox
  \* DBDataTable
  iValue, isValid,          \* stField[] of each table
  locked,      \* parameters.locked
  read,        \* time of the last timed read: "never", "recent", "old"
  \* DBTriggersTable and the lists of DBInterface
  on, done,    \* iValue and isDone of the trigger fields
  triggersLst, \* the fields selected in this scan, and of these copies
  lstDone,     \*   those marked isDone
  timeLst,     \* timeTriggersLst
  \* control
  pc,
  idx,         \* the register, table or link the current loop is at
  wTodo,       \* tables dataToComm has still to serve
  rTodo, tTodo,\* tables dataToDB has still to serve, by SQL trigger, by time
  j,           \* dataToDB's loop index
  cur, tags,   \* the table dataToDB reads, and its copy of the fields
  left         \* what is left of Budget

shared   == << shm, rows, trigDB, lExit >>
comm     == << regValue, regValid, posted >>
tables   == << iValue, isValid, locked, read >>
triggers == << on, done, triggersLst, lstDone, timeLst >>
work     == << wTodo, rTodo, tTodo, j, cur, tags >>
vars     == << shared, comm, tables, triggers, pc, idx, work, left >>

(* The shared memory before the daemon's first poll: intValue finds no tag.*)
NoTag == [r \in Regs |-> DAQ_ERROR]

Spend(kind) == left[kind] > 0 /\ left' = [left EXCEPT ![kind] = @ - 1]

(* A query succeeds, or fails while the bound on failures allows it.       *)
Query(ok) == IF ok THEN UNCHANGED left ELSE Spend("fail")

----------------------------------------------------------------------------
(* Start of the process: the members of the classes, and the queries of    *)
(* DBInterface::setup.                                                     *)

NoValues == [f \in Fields |-> 0]
NoFlags  == [f \in Fields |-> FALSE]

Init ==
  /\ shm = NoTag
  /\ rows = [t \in Tables |-> InitValues(TbType[t], NoRows, TRUE, TRUE)]
  /\ trigDB = {}
  /\ lExit = FALSE
  /\ regValue = [r \in Regs |-> 0] /\ regValid = [r \in Regs |-> FALSE]
  /\ posted = << >>
  /\ iValue = [t \in Tables |-> NoValues] /\ isValid = [t \in Tables |-> NoFlags]
  /\ locked = [t \in Tables |-> 0] /\ read = [t \in Tables |-> "never"]
  /\ on = {} /\ done = {} /\ triggersLst = {} /\ lstDone = {} /\ timeLst = {}
  /\ pc = "top" /\ idx = 0
  /\ wTodo = {} /\ rTodo = {} /\ tTodo = {} /\ j = 0 /\ cur = 0
  /\ tags = [iValue |-> NoValues, isValid |-> NoFlags]
  /\ left = Budget

(* The OPC dies, wherever it is, and is started again.  The queries of     *)
(* setup on the existing database may fail one by one: DELETE and INSERT   *)
(* of each LASTVALUE table, the reset of each trigger (all of them when    *)
(* the triggers table cannot be created).                                  *)
Restart ==
  \E deleted, inserted \in SUBSET Tables, kept \in SUBSET trigDB :
    /\ left["restart"] > 0
    /\ LET allOk == deleted = Tables /\ inserted = Tables /\ kept = {}
       IN  /\ ~allOk => left["fail"] > 0
           /\ left' = [left EXCEPT !["restart"] = @ - 1,
                                   !["fail"] = IF allOk THEN @ ELSE @ - 1]
    /\ rows' = [t \in Tables |->
                  InitValues(TbType[t], rows[t], t \in deleted, t \in inserted)]
    /\ trigDB' = kept
    /\ lExit' = FALSE
    /\ regValue' = [r \in Regs |-> 0] /\ regValid' = [r \in Regs |-> FALSE]
    /\ posted' = << >>
    /\ iValue' = [t \in Tables |-> NoValues] /\ isValid' = [t \in Tables |-> NoFlags]
    /\ locked' = [t \in Tables |-> 0] /\ read' = [t \in Tables |-> "never"]
    /\ on' = {} /\ done' = {} /\ triggersLst' = {} /\ lstDone' = {} /\ timeLst' = {}
    /\ pc' = "top" /\ idx' = 0
    /\ wTodo' = {} /\ rTodo' = {} /\ tTodo' = {} /\ j' = 0 /\ cur' = 0
    /\ tags' = [iValue |-> NoValues, isValid |-> NoFlags]
    /\ UNCHANGED shm

----------------------------------------------------------------------------
(* CommInterface::readTag(reg): intValue is compared with DAQ_ERROR, then  *)
(* read again for the value.                                               *)

AfterRead == IF pc \in {"capture", "captureUse"} THEN "capture" ELSE "read"

(* The register the loops of dataCapture or dataToDB are at.               *)
RegAt == IF AfterRead = "capture" THEN idx ELSE Links[cur][idx].reg

(* One turn of those loops is over.  dataToDB copies value and validity to *)
(* its copy of the field: the last tag linked to a field wins.             *)
NextTurn ==
  /\ IF AfterRead = "capture"
     THEN /\ IF idx < NumRegs THEN pc' = "capture" /\ idx' = idx + 1
                              ELSE pc' = "captured" /\ idx' = 0
          /\ UNCHANGED tags
     ELSE /\ IF idx < Len(Links[cur]) THEN pc' = "read" /\ idx' = idx + 1
                                      ELSE pc' = "store" /\ idx' = 0
          /\ tags' = [iValue  |-> [tags.iValue EXCEPT ![Links[cur][idx].field] =
                                     regValue'[RegAt]],
                      isValid |-> [tags.isValid EXCEPT ![Links[cur][idx].field] =
                                     regValid'[RegAt]]]

(* The comparison: an error ends the reading, the old value stays.         *)
ReadTagCheck ==
  /\ pc \in {"capture", "read"}
  /\ IF shm[RegAt] = DAQ_ERROR
     THEN /\ regValid' = [regValid EXCEPT ![RegAt] = FALSE]
          /\ UNCHANGED regValue
          /\ NextTurn
     ELSE /\ pc' = IF pc = "capture" THEN "captureUse" ELSE "readUse"
          /\ UNCHANGED << regValue, regValid, idx, tags >>
  /\ UNCHANGED << shared, posted, tables, triggers, wTodo, rTodo, tTodo, j, cur, left >>

(* The use: whatever the shared memory holds now.                          *)
ReadTagUse ==
  /\ pc \in {"captureUse", "readUse"}
  /\ regValue' = [regValue EXCEPT ![RegAt] = FromRegister(DataType[RegAt], shm[RegAt])]
  /\ regValid' = [regValid EXCEPT ![RegAt] = TRUE]
  /\ NextTurn
  /\ UNCHANGED << shared, posted, tables, triggers, wTodo, rTodo, tTodo, j, cur, left >>

----------------------------------------------------------------------------
(* ProintegraOPC::loop, top of an iteration: exit, or checkComm (which     *)
(* does nothing) and dataCapture.                                          *)
LoopTop ==
  /\ pc = "top"
  /\ IF lExit THEN pc' = "stopped" /\ UNCHANGED idx
              ELSE pc' = "capture" /\ idx' = 1
  /\ UNCHANGED << shared, comm, tables, triggers, work, left >>

(* readData starts from 0 and ANDs every result into it: it returns 0      *)
(* whatever the tags answered, and so does dataCapture with a slave.       *)
DataCaptureResult(valid) == 0

DataCaptured ==
  /\ pc = "captured"
  /\ pc' = IF DataCaptureResult(regValid) = 0 THEN "lock" ELSE "top"
  /\ UNCHANGED << shared, comm, tables, triggers, idx, work, left >>

(* DBInterface::lockTable for the table idx of lockTables' loop.           *)
LockTable ==
  /\ pc = "lock"
  /\ \E ok \in BOOLEAN :
       /\ Query(ok)
       /\ locked' = [locked EXCEPT ![idx] =
                       LockOrUnlock(@, iValue[idx], RetData(ok, rows[idx]))]
  /\ IF idx < NumTables - 1 THEN idx' = idx + 1 /\ UNCHANGED pc
                            ELSE idx' = 0 /\ pc' = "triggers"
  /\ UNCHANGED << shared, comm, iValue, isValid, read, triggers, work >>

(* DBInterface::takeTriggers.  isTimeInitialized looks at the name of the  *)
(* read trigger, not at the period.                                        *)
\* mutant: the time of the last read is not compared
MutTimeOnce(t) == t \in Timed /\ read[t] = "never"

IsTimeTriggered(t)   == t \in Timed /\ read[t] # "recent"
IsTimeInitialized(t) == RTrigger[t] # NoTrigger => read[t] # "never"

TakeTriggers ==
  /\ pc = "triggers"
  /\ timeLst' = timeLst \union {t \in Tables : IsTimeTriggered(t)}
  /\ read' = [t \in Tables |-> IF IsTimeInitialized(t) THEN read[t] ELSE "recent"]
  /\ \E ok \in BOOLEAN :
       /\ Query(ok)
       /\ LET names == TriggersOn(Driver, ok, trigDB)
          IN  /\ on'   = UpdtTrgsOn(on, done, names)
              /\ done' = UpdtTrgsNotDone(done, names)
  /\ triggersLst' = RetTgsLst(on', done')
  /\ lstDone' = {}
  /\ wTodo' = {t \in Tables : << t, "W" >> \in triggersLst'}
  /\ pc' = "comm"
  /\ UNCHANGED << shared, comm, iValue, isValid, locked, idx, rTodo, tTodo, j,
                  cur, tags >>

IsFirst(t, S) == t \in S /\ \A u \in S : t <= u

(***************************************************************************)
(* ProintegraOPC::dataToComm, one table of retWTabsList: retrieveData (a   *)
(* failed query goes unnoticed and memory is what is sent), one message    *)
(* per linked tag, unlockTable, wTriggerDoneAt.                            *)
(***************************************************************************)
Messages(t, value) ==
  [k \in 1 .. Len(Links[t]) |->
     LET l == Links[t][k]
     IN  << l.reg, ToRegister(DataType[l.reg], value[l.field]) >>]

\* mutant: the table is not unlocked after it was sent
MutKeepLocked(t) == locked

Unlocked(t) == [locked EXCEPT ![t] = 0]

\* mutant: the first table is always the one marked
MutDoneWFirst(t) == {g \in triggersLst : g = << 0, "W" >>}

WTriggerDoneAt(t) == {g \in triggersLst : g = << t, "W" >>}

DataToComm ==
  /\ pc = "comm"
  /\ \E t \in Tables :
       /\ IsFirst(t, wTodo)
       /\ \E ok \in BOOLEAN :
            /\ Query(ok)
            /\ iValue' = [iValue EXCEPT ![t] = SetAllValues(@, RetData(ok, rows[t]))]
       /\ posted' = Messages(t, iValue'[t])
       /\ locked' = Unlocked(t)
       /\ lstDone' = lstDone \union WTriggerDoneAt(t)
       /\ wTodo' = wTodo \ {t}
  /\ UNCHANGED << shared, regValue, regValid, isValid, read, on, done, triggersLst,
                  timeLst, pc, idx, rTodo, tTodo, j, cur, tags >>

DataToCommDone ==
  /\ pc = "comm" /\ wTodo = {}
  /\ posted' = << >>
  /\ rTodo' = {t \in Tables : << t, "R" >> \in triggersLst}
  /\ tTodo' = timeLst
  /\ j' = 0
  /\ pc' = "pick"
  /\ UNCHANGED << shared, regValue, regValid, tables, triggers, idx, wTodo, cur, tags,
                  left >>

----------------------------------------------------------------------------
(* ProintegraOPC::dataToDB, the next table of retRTabsList: those with a   *)
(* read trigger, then those whose time has come.  j is its place in that   *)
(* list.  A locked table is passed over.                                   *)
\* mutant: the lock is not looked at
MutNeverLocked(t) == FALSE

IsTableLocked(t) == locked[t] > 0

PickTable ==
  /\ pc = "pick"
  /\ \E t \in Tables :
       /\ \/ IsFirst(t, rTodo) /\ rTodo' = rTodo \ {t} /\ UNCHANGED tTodo
          \/ rTodo = {} /\ IsFirst(t, tTodo) /\ tTodo' = tTodo \ {t} /\ UNCHANGED rTodo
       /\ IF IsTableLocked(t)
          THEN j' = j + 1 /\ UNCHANGED << pc, idx, cur, tags >>
          ELSE /\ cur' = t
               /\ tags' = [iValue |-> iValue[t], isValid |-> isValid[t]]
               /\ IF Links[t] = << >> THEN pc' = "store" /\ UNCHANGED idx
                                      ELSE pc' = "read" /\ idx' = 1
               /\ UNCHANGED j
  /\ UNCHANGED << shared, comm, tables, triggers, wTodo, left >>

(* rTriggerDoneAt is given the place in the list, not the table.           *)
RTriggerDoneAt(index) == {g \in triggersLst : g = << index, "R" >>}

(* storeData: updateData takes the read values into memory, store builds   *)
(* the query and the database executes it, or fails.                       *)
StoreData ==
  /\ pc = "store"
  /\ lstDone' = lstDone \union RTriggerDoneAt(j)
  /\ iValue'  = [iValue EXCEPT ![cur] = tags.iValue]
  /\ isValid' = [isValid EXCEPT ![cur] = tags.isValid]
  /\ IF StoreThrows(tags.iValue, tags.isValid)
     THEN /\ pc' = "aborted"
          /\ UNCHANGED << rows, j, left >>
     ELSE /\ pc' = "pick" /\ j' = j + 1
          /\ \E ok \in BOOLEAN :
               /\ ok \/ StoreHasEffect(TbType[cur], tags.isValid)
               /\ Query(ok)
               /\ rows' = IF ok /\ StoreHasEffect(TbType[cur], tags.isValid)
                          THEN [rows EXCEPT ![cur] =
                                  Stored(TbType[cur], tags.iValue, tags.isValid, @)]
                          ELSE rows
  /\ UNCHANGED << shm, trigDB, lExit, comm, locked, read, on, done, triggersLst,
                  timeLst, idx, wTodo, rTodo, tTodo, cur, tags >>

(* DBInterface::resetTriggers: resetTimeTriggers restarts the period of    *)
(* every table of the list and empties it; resetSQLTriggers resets what    *)
(* was marked done.                                                        *)
ResetTriggers ==
  /\ pc = "pick" /\ rTodo \union tTodo = {}
  /\ read' = [t \in Tables |-> IF t \in timeLst THEN "recent" ELSE read[t]]
  /\ timeLst' = {}
  /\ done' = UpdtTrgsDone(done, lstDone)
  /\ LET names == SqlTrgsDone(on, done')
     IN  \E ok \in BOOLEAN :
           /\ ok \/ names # {}
           /\ Query(ok)
           /\ trigDB' = IF ok THEN trigDB \ names ELSE trigDB
  /\ pc' = "top"
  /\ UNCHANGED << shm, rows, lExit, comm, iValue, isValid, locked, on, triggersLst,
                  lstDone, idx, work >>

----------------------------------------------------------------------------
(* The other actors.                                                       *)

OpcUnchanged == UNCHANGED << comm, tables, triggers, pc, idx, work >>

(* The daemon stores the result of a poll: a word, or "ERR".               *)
Poll(r) ==
  /\ Spend("poll")
  /\ \E w \in Words \union {DAQ_ERROR} : w # shm[r] /\ shm' = [shm EXCEPT ![r] = w]
  /\ OpcUnchanged /\ UNCHANGED << rows, trigDB, lExit >>

(* The operator writes a column of a row.                                  *)
Edit(t) ==
  /\ Spend("edit")
  /\ rows[t].n > 0
  /\ \E f \in Fields, v \in EditValues :
       v # rows[t].last[f] /\ rows' = [rows EXCEPT ![t].last[f] = v]
  /\ OpcUnchanged /\ UNCHANGED << shm, trigDB, lExit >>

(* The operator asks for a trigger: UPDATE ... SET VALUE = 1.              *)
Raise(n) ==
  /\ Spend("raise")
  /\ trigDB' = trigDB \union {n}
  /\ OpcUnchanged /\ UNCHANGED << shm, rows, lExit >>

(* The period of a table elapses.                                          *)
Tick(t) ==
  /\ read[t] = "recent" /\ read' = [read EXCEPT ![t] = "old"]
  /\ UNCHANGED << shared, comm, iValue, isValid, locked, triggers, pc, idx, work, left >>

SigInt ==
  /\ ~lExit /\ lExit' = TRUE
  /\ OpcUnchanged /\ UNCHANGED << shm, rows, trigDB, left >>

(* After the return of loop nothing is left to do.                         *)
Stopped == pc = "stopped" /\ UNCHANGED vars

Scan ==
  \/ LoopTop \/ ReadTagCheck \/ ReadTagUse \/ DataCaptured \/ LockTable
  \/ TakeTriggers \/ DataToComm \/ DataToCommDone \/ PickTable \/ StoreData
  \/ ResetTriggers

Others ==
  \/ \E r \in Regs : Poll(r)
  \/ \E t \in Tables : Edit(t)
  \/ \E n \in Names : Raise(n)
  \/ \E t \in Timed : Tick(t)
  \/ SigInt

Next == Scan \/ Others \/ Restart \/ Stopped

Spec == Init /\ [][Next]_vars

(* The loop never waits: it runs as long as the process does.  Time goes   *)
(* on.  Nothing is assumed of the operator or of the daemon.               *)
FairSpec == Spec /\ WF_vars(Scan) /\ \A t \in Timed : WF_vars(Tick(t))

----------------------------------------------------------------------------
(* Every variable stays in its range, the loops' index in that of what the *)
(* loop goes through.                                                      *)
Pcs == {"top", "capture", "captureUse", "captured", "lock", "triggers", "comm", "pick",
        "read", "readUse", "store", "stopped", "aborted"}

Values == [Fields -> Int]
Flags  == [Fields -> BOOLEAN]

TypeOK ==
  /\ shm \in [Regs -> Word \union {DAQ_ERROR}]
  /\ rows \in [Tables -> Content]
  /\ trigDB \subseteq Names
  /\ lExit \in BOOLEAN
  /\ regValue \in [Regs -> Int] /\ regValid \in [Regs -> BOOLEAN]
  /\ posted \in Seq(Regs \X Int)
  /\ iValue \in [Tables -> Values] /\ isValid \in [Tables -> Flags]
  /\ locked \in [Tables -> 0 .. LockLimit]
  /\ read \in [Tables -> {"never", "recent", "old"}]
  /\ on \subseteq TrgFields /\ done \subseteq TrgFields
  /\ triggersLst \subseteq TrgFields /\ lstDone \subseteq TrgFields
  /\ timeLst \subseteq Tables
  /\ pc \in Pcs
  /\ idx \in Nat /\ j \in Nat
  /\ pc \in {"capture", "captureUse"} => idx \in Regs
  /\ pc \in {"captured", "lock"} => idx \in Tables
  /\ pc \in {"read", "readUse"} => idx \in DOMAIN Links[cur]
  /\ wTodo \subseteq Tables /\ rTodo \subseteq Tables /\ tTodo \subseteq Tables
  /\ cur \in Tables
  /\ tags \in [iValue : Values, isValid : Flags]
  /\ left \in [BudgetKinds -> Nat]
============================================================================
