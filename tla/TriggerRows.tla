----------------------------- MODULE TriggerRows -----------------------------
(***************************************************************************)
(* The rows of the table triggers, ID -> [name, value], as setup of        *)
(* piDatabase.cpp makes them from the triggers of database.xml: one        *)
(* statement for each name (piTriggersTable.cpp:62-146), executed on the   *)
(* rows an earlier run of the program left, maybe with other triggers.     *)
(***************************************************************************)
EXTENDS Integers, FiniteSets, SequencesExt

(* The fields whose name no field before them has.                         *)
FirstOfName(fields) == {i \in DOMAIN fields : \A k \in 1 .. i - 1 : fields[k] # fields[i]}

(* retNoRepeatedFields: their names, in the order of the fields.           *)
RetNoRepeatedFields(fields) ==
  LET first == FirstOfName(fields)
  IN  [j \in 1 .. Cardinality(first) |->
         fields[CHOOSE i \in first : Cardinality({k \in first : k <= i}) = j]]

RowsOf(table, name) == {id \in DOMAIN table : table[id].name = name}

(* Both statements put the name and 0 in a row, whatever that row held.    *)
WithRow(table, id, name) ==
  [i \in DOMAIN table \union {id} |->
     IF i = id THEN [name |-> name, value |-> 0] ELSE table[i]]

(* INSERT ... ON DUPLICATE KEY UPDATE: the i-th name has the ID i.         *)
(* INSERT OR REPLACE ... COALESCE: a name keeps the ID it has.             *)
InitRowId(dbType, table, i, name) ==
  IF dbType = "QSQLITE" /\ RowsOf(table, name) # {}
  THEN CHOOSE id \in RowsOf(table, name) : TRUE
  ELSE i

\* mutant: the row stays as it is when the name has it already
MutInitRow(dbType, table, i, name) ==
  IF RowsOf(table, name) # {} THEN table ELSE WithRow(table, i, name)

InitRow(dbType, table, i, name) ==
  WithRow(table, InitRowId(dbType, table, i, name), name)

(* What a SCADA does: UPDATE triggers SET VALUE=1 WHERE NAME=name.         *)
Raised(table, name) ==
  [id \in DOMAIN table |->
     IF table[id].name = name THEN [table[id] EXCEPT !.value = 1] ELSE table[id]]
=============================================================================
