----------------------------- MODULE OPCProgress -----------------------------
(***************************************************************************)
(* What the OPC does sooner or later.  The fairness is that of FairSpec:   *)
(* the loop never waits for anybody, and time goes on.                     *)
(***************************************************************************)
EXTENDS ProintegraOPC

Ended == pc \in {"stopped", "aborted"}

(* A trigger some table is written on, once raised, is reset, however the  *)
(* daemon answers and whichever queries fail: takeSQLTriggers finds it,    *)
(* dataToComm serves it, resetSQLTriggers clears it, and a scan in which   *)
(* one of the three fails is made good by a later one.                     *)
RaisedWriteIsReset ==
  \A t \in Tables : WTrigger[t] # NoTrigger =>
    (WTrigger[t] \in trigDB ~> WTrigger[t] \notin trigDB \/ Ended)

(* A table read by time whose period is over is read, or was found locked: *)
(* the locks are all that may cost a table its turn, takeTimeTriggers and  *)
(* retRTabsList (piDatabase.cpp:446, 622) lose none.                       *)
DueTableIsRead ==
  \A t \in Timed :
    (read[t] = "old" ~> (pc = "store" /\ cur = t) \/ locked[t] > 0 \/ Ended)

(* No lock is for ever (piTable.cpp:668-669): while row and memory differ  *)
(* the cycles are counted, and at the limit the table is released.         *)
LockRunsOut ==
  \A t \in Tables :
    (/\ locked[t] > 0
     /\ DiffersFromMemory(iValue[t], RetData(TRUE, rows[t])))
    ~> \/ locked[t] = 0
       \/ ~DiffersFromMemory(iValue[t], RetData(TRUE, rows[t]))
       \/ Ended
==============================================================================
