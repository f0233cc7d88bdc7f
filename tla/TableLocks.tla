----------------------------- MODULE TableLocks -----------------------------
(***************************************************************************)
(* The life of an edit: the operator changes a row, lockTables notices     *)
(* that it differs from memory and keeps dataToDB away from it, until it   *)
(* is sent to the PLC or its time is over.  The program's module with the  *)
(* history variables that life is told with.                               *)
(***************************************************************************)
EXTENDS ProintegraOPC

VARIABLES
  noticed,     \* the tables lockTables counted a difference of, not sent or released since
  edited,      \* the tables whose row the operator changed since it agreed with memory
  touched      \* the same, whoever made row and memory differ

history == << noticed, edited, touched >>
lvars == << vars, history >>

LInit == Init /\ noticed = {} /\ edited = {} /\ touched = {}

LLockTable ==
  /\ LockTable
  /\ noticed' = CASE locked'[idx] > locked[idx] -> noticed \union {idx}
                  [] locked'[idx] < locked[idx] -> noticed \ {idx}
                  [] OTHER -> noticed
  /\ UNCHANGED << edited, touched >>

(* A table is sent; memory has been set from the row unless the query      *)
(* failed, which is what left tells.                                       *)
LDataToComm ==
  /\ DataToComm
  /\ noticed' = noticed \ (wTodo \ wTodo')
  /\ IF left' = left
     THEN edited' = edited \ (wTodo \ wTodo') /\ touched' = touched \ (wTodo \ wTodo')
     ELSE UNCHANGED << edited, touched >>

(* Memory is set from the registers and the row from memory: they agree    *)
(* when the query succeeded and every field was valid.                     *)
LStoreData ==
  /\ StoreData
  /\ IF left' = left /\ pc' = "pick" /\ \A f \in Fields : tags.isValid[f]
     THEN edited' = edited \ {cur} /\ touched' = touched \ {cur}
     ELSE touched' = touched \union {cur} /\ UNCHANGED edited
  /\ UNCHANGED noticed

LEdit(t) ==
  /\ Edit(t)
  /\ edited' = edited \union {t} /\ touched' = touched \union {t}
  /\ UNCHANGED noticed

(* Memory is cleared, and a table whose rows setup kept differs from it.   *)
LRestart ==
  /\ Restart
  /\ noticed' = {}
  /\ edited' = {t \in edited : rows'[t] = rows[t]}
  /\ touched' = {t \in Tables : rows'[t] = rows[t]}

OtherScan ==
  \/ LoopTop \/ ReadTagCheck \/ ReadTagUse \/ DataCaptured
  \/ TakeTriggers \/ DataToCommDone \/ PickTable \/ ResetTriggers

OtherActor ==
  \/ \E r \in Regs : Poll(r)
  \/ \E n \in Names : Raise(n)
  \/ \E t \in Timed : Tick(t)
  \/ SigInt \/ Stopped

LNext ==
  \/ LLockTable
  \/ LDataToComm
  \/ LStoreData
  \/ \E t \in Tables : LEdit(t)
  \/ LRestart
  \/ (OtherScan \/ OtherActor) /\ UNCHANGED history

LSpec == LInit /\ [][LNext]_lvars

----------------------------------------------------------------------------
(* A difference lockTables noticed is not overwritten by dataToDB, in this *)
(* scan or a later one, before the table was sent or its lock ran out:     *)
(* lockOrUnlock (piTable.cpp:648-672) counts up where isTableLocked        *)
(* (prointegraOPC.cpp:207) has to look, whatever fails in between.         *)
NoticedEditKept == [][StoreData => cur \notin noticed]_lvars

(* A table is locked only while something made its row and memory differ:  *)
(* an edit, a store whose query failed or that had an invalid field, a     *)
(* setup that kept old rows.  No lock outlives the reconciliation of the   *)
(* two by dataToComm or storeData.                                         *)
LockedWasTouched == \A t \in Tables : locked[t] > 0 => t \in touched

(* Row and memory of a one-row table agree unless one of these happened,   *)
(* which is what lets a difference be taken for an edit.                   *)
UntouchedInSync ==
  \A t \in Tables :
    DiffersFromMemory(iValue[t], RetData(TRUE, rows[t])) => t \in touched

(* CHANGELOG.md:10 has tables locked "when being edited".                  *)
LockedOnlyIfEdited == \A t \in Tables : locked[t] > 0 => t \in edited
=============================================================================
