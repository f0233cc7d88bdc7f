------------------------------ MODULE OPCClaims ------------------------------
(***************************************************************************)
(* What the documents and comments of the repository say of the OPC and    *)
(* the code does not keep.  Each has a run that shows how.                 *)
(***************************************************************************)
EXTENDS OPCProgress

(* piDatabase.cpp:577 has rTriggerDoneAt "mark the reading trigger from a  *)
(* table as done": of the table just read, then, and of no other.  The     *)
(* caller (prointegraOPC.cpp:222) passes its loop index.                   *)
ReadMarkIsOfTheTable == [][StoreData => lstDone' \ lstDone \subseteq {<< cur, "R" >>}]_vars

(* CHANGELOG.md:27, "can now store INT tags values": whatever 16-bit value *)
(* the PLC holds, storing it does not end the process.                     *)
StoresEveryInt == pc # "aborted"

(* CHANGELOG.md:31, "not trying to store data when communications were     *)
(* completely wrong": no table changes while no tag is valid.              *)
NothingStoredWhenSilent ==
  [][StoreData /\ (\A r \in Regs : ~regValid[r]) => rows' = rows]_vars

(* piDatabase.cpp:350, a modified table is locked "for a period": no lock  *)
(* is for ever, that of an edit the operator took back included.           *)
LockIsPeriod == \A t \in Tables : (locked[t] > 0 ~> locked[t] = 0 \/ Ended)

(* README.md:9-10 lists sqlite3 first among the databases supported: a     *)
(* raised write trigger is served there as it is with MySQL.               *)
RaisedWriteIsResetInSqlite == RaisedWriteIsReset
==============================================================================
