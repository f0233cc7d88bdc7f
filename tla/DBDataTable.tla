---------------------------- MODULE DBDataTable ----------------------------
(***************************************************************************)
(* A data table of the OPC: piTable.cpp, piDataTable.cpp, and the answer   *)
(* qtdatabase.cpp gives to a query on it.                                  *)
(*                                                                         *)
(* Memory side: the current value and the validity of every field          *)
(* (parameters.stField[].iValue and isValid), two functions on Fields.     *)
(* Database side: the table's content [n, last], where n says whether the  *)
(* table holds 0, 1 or many (2) rows and last is its last row; the code    *)
(* tells nothing else apart.                                               *)
(***************************************************************************)
EXTENDS Integers

CONSTANTS
  Fields,      \* the columns of a table, its ID column left out
  NULL,        \* an SQL NULL
  Driver,      \* the Qt driver of the database
  LockLimit    \* CONF_TABLE_LOCK_LIMIT of config.h

ASSUME LockLimitAssumption == LockLimit \in Nat
ASSUME DriverAssumption == Driver \in {"QMYSQL", "QSQLITE"}
ASSUME NULLAssumption == NULL \notin Int

DbValue  == Int \union {NULL}
Row      == [Fields -> DbValue]
Content  == [n : 0 .. 2, last : Row]
NullRow  == [f \in Fields |-> NULL]
NoRows   == [n |-> 0, last |-> NullRow]

(* QVariant::toString makes NULL the empty string, which is not "NULL",    *)
(* and atoi makes it 0.                                                    *)
Atoi(v) == IF v = NULL THEN 0 ELSE v

(* A row added to a table.                                                 *)
Inserted(content, row) == [n |-> IF content.n = 0 THEN 1 ELSE 2, last |-> row]

(***************************************************************************)
(* qtDatabase::retData.  With MySQL the cursor stands before the first     *)
(* row.  With SQLite last() and first() were called to count the rows, so  *)
(* that next() goes to the second one: the first row is skipped and a      *)
(* record of empty values, read past the end, takes the last place.  A     *)
(* query that failed gives no rows.                                        *)
(***************************************************************************)
RetData(ok, content) ==
  IF ~ok \/ content.n = 0 THEN NoRows
  ELSE IF Driver = "QSQLITE" THEN [content EXCEPT !.last = NullRow]
  ELSE content

(* DBTable::setAllValues: the last row goes to memory.                     *)
\* mutant: a failed query is taken for a row of zeros
MutSetAllValuesZero(value, data) == [f \in Fields |-> Atoi(data.last[f])]

SetAllValues(value, data) ==
  IF data.n = 0 THEN value ELSE [f \in Fields |-> Atoi(data.last[f])]

(***************************************************************************)
(* DBTable::lockOrUnlock: a one-row table that differs from memory is      *)
(* locked one cycle more, and released once the limit is passed.           *)
(***************************************************************************)
DiffersFromMemory(value, data) ==
  data.n = 1 /\ \E f \in Fields : Atoi(data.last[f]) # value[f]

\* mutant: the limit is never tested
MutLockNoLimit(locked, value, data) ==
  IF DiffersFromMemory(value, data) THEN locked + 1 ELSE locked

\* mutant: the cycles are not counted
MutLockOnce(locked, value, data) ==
  IF DiffersFromMemory(value, data) THEN 1 ELSE locked

LockOrUnlock(locked, value, data) ==
  LET count == IF DiffersFromMemory(value, data) THEN locked + 1 ELSE locked
  IN  IF count > LockLimit THEN 0 ELSE count

(***************************************************************************)
(* The query DBDataTable::store builds from memory: an UPDATE of the valid *)
(* fields of every row of a LASTVALUE table, an INSERT of the valid fields *)
(* into any other.  With no valid field the UPDATE is not sent, and the    *)
(* INSERT, of empty lists, adds a row of NULLs in MySQL and is a syntax    *)
(* error in SQLite.                                                        *)
(***************************************************************************)
StoreHasEffect(type, valid) ==
  (\E f \in Fields : valid[f]) \/ (type # "LASTVALUE" /\ Driver = "QMYSQL")

Stored(type, value, valid, content) ==
  IF type # "LASTVALUE"
  THEN Inserted(content, [f \in Fields |-> IF valid[f] THEN value[f] ELSE NULL])
  ELSE [content EXCEPT !.last =
          [f \in Fields |-> IF valid[f] /\ content.n > 0 THEN value[f] ELSE @[f]]]

(* new char[iValue + 5]: a value under -5 asks for an array of negative    *)
(* length and the exception it raises is caught nowhere.                   *)
StoreThrows(value, valid) == \E f \in Fields : valid[f] /\ value[f] + 5 < 0

(***************************************************************************)
(* The queries of DBDataTable::create on a LASTVALUE table that exists:    *)
(* DELETE, then INSERT of a row of NULLs, which SQLite's grammar rejects.  *)
(* A LOG table keeps its rows.                                             *)
(***************************************************************************)
InitValues(type, content, deleted, inserted) ==
  LET kept == IF deleted THEN NoRows ELSE content
  IN  IF type # "LASTVALUE" THEN content
      ELSE IF inserted /\ Driver = "QMYSQL" THEN Inserted(kept, NullRow)
      ELSE kept
============================================================================
