-------------------------- MODULE DBTriggersTable --------------------------
(***************************************************************************)
(* The triggers table of the OPC: piTriggersTable.cpp and the construction *)
(* of its fields in DBInterface::createTriggersTable.                      *)
(*                                                                         *)
(* A data table may have a read trigger and a write trigger; each gives    *)
(* one field, <<table, "R">> or <<table, "W">>.  Several tables may name   *)
(* the same trigger (config/database.xml does): the fields are distinct,   *)
(* the row of the database, found by the name, is one.  Names are the IDs  *)
(* of those rows.  The state of the fields is two sets: on (iValue = 1)    *)
(* and done (isDone = 1).                                                  *)
(***************************************************************************)
EXTENDS Integers

CONSTANTS
  NumTables,   \* the tables are 0 .. NumTables-1, in the order of the XML
  Names,       \* the trigger names, as row IDs
  NoTrigger,   \* tagReadTrigger="" or tagWriteTrigger=""
  RTrigger,    \* the read trigger of each table
  WTrigger     \* the write trigger of each table

Tables == 0 .. NumTables - 1

ASSUME NumTablesAssumption == NumTables \in Nat \ {0}
ASSUME NamesAssumption == Names \subseteq Nat /\ NoTrigger \notin Names
ASSUME TriggerAssumption ==
  /\ RTrigger \in [Tables -> Names \union {NoTrigger}]
  /\ WTrigger \in [Tables -> Names \union {NoTrigger}]

TrgFields ==
  {<< t, "R" >> : t \in {u \in Tables : RTrigger[u] # NoTrigger}} \union
  {<< t, "W" >> : t \in {u \in Tables : WTrigger[u] # NoTrigger}}

NameOf(trg) == IF trg[2] = "R" THEN RTrigger[trg[1]] ELSE WTrigger[trg[1]]

(***************************************************************************)
(* The names SELECT ... WHERE VALUE = 1 returns through qtDatabase::       *)
(* retData: all those raised, but for SQLite, which loses the first.       *)
(***************************************************************************)
\* mutant: the SELECT has no WHERE
MutSelectAll(driver, ok, raised) == {n \in Names : ok}

TriggersOn(driver, ok, raised) ==
  {n \in raised : ok /\ (driver = "QSQLITE" => \E m \in raised : m < n)}

(***************************************************************************)
(* DBTriggersTable::updtTrgsOn: a field that was done is off again unless  *)
(* its name is among those selected.                                       *)
(***************************************************************************)
\* mutant: a done field keeps its iValue
MutOnKeepsDone(on, done, names) == on \union {g \in TrgFields : NameOf(g) \in names}

UpdtTrgsOn(on, done, names) ==
  (on \ done) \union {g \in TrgFields : NameOf(g) \in names}

UpdtTrgsNotDone(done, names) == {g \in done : NameOf(g) \notin names}

(* DBTriggersTable::retTgsLst: the fields to serve in this scan.           *)
RetTgsLst(on, done) == on \ done

(* DBTriggersTable::updtTrgsDone: marks every field with the name of a     *)
(* served one.                                                             *)
\* mutant: only the field that was served is marked
MutDoneNotByName(done, served) == done \union served

UpdtTrgsDone(done, served) ==
  done \union {g \in TrgFields : \E s \in served : NameOf(s) = NameOf(g)}

(* DBTriggersTable::sqlTrgsDone: the names whose VALUE is set to 0.        *)
\* mutant: the UPDATE has no WHERE
MutResetAll(on, done) == Names

SqlTrgsDone(on, done) == {NameOf(g) : g \in on \intersect done}
============================================================================
