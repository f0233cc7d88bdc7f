-------------------------- MODULE TriggerRows_proofs --------------------------
(***************************************************************************)
(* For any triggers in database.xml and any rows an earlier run left: when *)
(* setup is done each trigger has its row.  The list without repetitions   *)
(* is told by ranks, so what it holds follows from counting; the           *)
(* statements are steps of the specification and have a loop invariant.    *)
(***************************************************************************)
EXTENDS Startup, FiniteSetTheorems, WellFoundedInduction, TLAPS

----------------------------------------------------------------------------
(* The list without repetitions.                                           *)

IsList(fields) == DOMAIN fields = 1 .. Len(fields) /\ Len(fields) \in Nat

Rank(fields, i) == Cardinality({k \in FirstOfName(fields) : k <= i})

(* A finite set of numbers has a least one.                                *)
LEMMA LeastNumber ==
  ASSUME NEW T \in SUBSET Nat, IsFiniteSet(T), T # {}
  PROVE  \E m \in T : \A n \in T : m <= n
<1>. DEFINE upto(m) == {n \in T : n <= m}
            family == {upto(m) : m \in T}
            less == StrictSubsetOrdering(T)
<1>1. family \subseteq FiniteSubsetsOf(T) /\ family # {}
  <2>1. \A m \in T : upto(m) \in SUBSET T /\ IsFiniteSet(upto(m))
    BY FS_Subset
  <2>. QED
    BY <2>1 DEF FiniteSubsetsOf
<1>2. PICK U \in family : \A V \in family : << V, U >> \notin less
  <2>1. IsWellFoundedOn(less, FiniteSubsetsOf(T))
    BY FS_StrictSubsetOrderingWellFounded
  <2>. HIDE DEF family, less
  <2>. QED
    BY <1>1, <2>1, WFMin
<1>3. PICK m \in T : U = upto(m)
  OBVIOUS
<1>4. ASSUME NEW n \in T, n < m PROVE FALSE
  <2>1. upto(n) \in SUBSET T /\ upto(m) \in SUBSET T
    OBVIOUS
  <2>2. ASSUME NEW x \in upto(n) PROVE x \in upto(m)
    <3>1. x \in T /\ x \in Nat /\ n \in Nat /\ m \in Nat /\ x <= n
      OBVIOUS
    <3>. QED
      BY <1>4, <3>1
  <2>3. m \in upto(m) /\ m \notin upto(n)
    BY <1>4
  <2>4. << upto(n), upto(m) >> \in less
    BY <2>1, <2>2, <2>3 DEF StrictSubsetOrdering
  <2>5. upto(n) \in family
    OBVIOUS
  <2>. QED
    BY <1>2, <1>3, <2>4, <2>5
<1>. QED
  BY <1>4

LEMMA FirstHasName ==
  ASSUME NEW fields, IsList(fields), NEW i \in DOMAIN fields
  PROVE  \E f \in FirstOfName(fields) : fields[f] = fields[i]
<1>. DEFINE T == {k \in DOMAIN fields : fields[k] = fields[i]}
<1>1. T \in SUBSET Nat /\ T # {} /\ IsFiniteSet(T)
  <2>1. T \in SUBSET (1 .. Len(fields)) /\ IsFiniteSet(1 .. Len(fields))
    BY FS_Interval DEF IsList
  <2>. QED
    BY <2>1, FS_Subset
<1>2. PICK m \in T : \A n \in T : m <= n
  <2>. HIDE DEF T
  <2>. QED
    BY <1>1, LeastNumber
<1>3. \A k \in 1 .. m - 1 : fields[k] # fields[m]
  BY <1>2 DEF IsList
<1>. QED
  BY <1>2, <1>3 DEF FirstOfName

(* The first fields are numbered by their ranks, without a gap.            *)
LEMMA RankIsBijection ==
  ASSUME NEW fields, IsList(fields)
  PROVE  /\ IsFiniteSet(FirstOfName(fields)) /\ Cardinality(FirstOfName(fields)) \in Nat
         /\ \A i, k \in FirstOfName(fields) : Rank(fields, i) = Rank(fields, k) => i = k
         /\ \A r \in 1 .. Cardinality(FirstOfName(fields)) :
              \E i \in FirstOfName(fields) : Rank(fields, i) = r
<1>. DEFINE first == FirstOfName(fields)
            upto(i) == {k \in first : k <= i}
            rank == [i \in first |-> Rank(fields, i)]
            n == Cardinality(first)
<1>1. first \subseteq 1 .. Len(fields) /\ first \subseteq Nat
  BY DEF IsList, FirstOfName
<1>2. IsFiniteSet(first) /\ n \in Nat
  <2>1. IsFiniteSet(1 .. Len(fields))
    BY FS_Interval DEF IsList
  <2>. QED
    BY <1>1, <2>1, FS_Subset, FS_CardinalityType
<1>. HIDE DEF first
<1>3. ASSUME NEW i \in first
      PROVE  /\ IsFiniteSet(upto(i)) /\ Rank(fields, i) = Cardinality(upto(i))
             /\ Rank(fields, i) \in 1 .. n
  <2>1. upto(i) \subseteq first /\ i \in upto(i)
    BY <1>1
  <2>2. /\ IsFiniteSet(upto(i)) /\ Cardinality(upto(i)) <= n
    BY <1>2, <2>1, FS_Subset
  <2>3. Cardinality(upto(i)) \in Nat /\ Cardinality(upto(i)) # 0
    BY <2>1, <2>2, FS_CardinalityType, FS_EmptySet
  <2>4. Rank(fields, i) = Cardinality(upto(i))
    BY DEF Rank, first
  <2>. QED
    BY <1>2, <2>2, <2>3, <2>4
<1>4. ASSUME NEW i \in first, NEW k \in first, i < k
      PROVE  Rank(fields, i) < Rank(fields, k)
  <2>. i \in Nat /\ k \in Nat
    BY <1>1
  <2>1. ASSUME NEW x \in upto(i) PROVE x \in upto(k)
    <3>1. x \in first /\ x \in Nat /\ x <= i
      BY <1>1
    <3>. QED
      BY <1>4, <3>1
  <2>5. k \in upto(k) /\ k \notin upto(i)
    BY <1>4
  <2>2. IsFiniteSet(upto(k)) /\ upto(i) \in SUBSET upto(k) /\ upto(i) # upto(k)
    BY <1>3, <2>1, <2>5
  <2>3. Cardinality(upto(i)) < Cardinality(upto(k))
    <3>1. /\ Cardinality(upto(i)) <= Cardinality(upto(k))
          /\ Cardinality(upto(i)) # Cardinality(upto(k))
      BY <2>2, FS_Subset
    <3>2. Cardinality(upto(i)) \in Nat /\ Cardinality(upto(k)) \in Nat
      BY <1>3, FS_CardinalityType
    <3>. QED
      BY <3>1, <3>2
  <2>. QED
    BY <1>3, <2>3
<1>5. \A i, k \in first : Rank(fields, i) = Rank(fields, k) => i = k
  <2>. SUFFICES ASSUME NEW i \in first, NEW k \in first, Rank(fields, i) = Rank(fields, k)
                PROVE  i = k
    OBVIOUS
  <2>1. i \in Nat /\ k \in Nat
    BY <1>1
  <2>2. Rank(fields, i) \in 1 .. n /\ Rank(fields, k) \in 1 .. n
    BY <1>3
  <2>. QED
    BY <1>2, <1>4, <2>1, <2>2
<1>6. rank \in Injection(first, 1 .. n)
  BY <1>3, <1>5 DEF Injection, IsInjective
<1>7. IsFiniteSet(1 .. n) /\ Cardinality(1 .. n) = n
  BY <1>2, FS_Interval
<1>8. rank \in Surjection(first, 1 .. n)
  BY <1>6, <1>7, FS_Injection
<1>9. \A r \in 1 .. n : \E i \in first : Rank(fields, i) = r
  BY <1>8 DEF Surjection
<1>. QED
  BY <1>2, <1>5, <1>9 DEF first

(* retNoRepeatedFields gives each name once and loses none.                *)
LEMMA NoRepetitions ==
  ASSUME NEW fields, IsList(fields), NEW list, list = RetNoRepeatedFields(fields)
  PROVE  /\ IsList(list)
         /\ \A i, k \in DOMAIN list : list[i] = list[k] => i = k
         /\ \A i \in DOMAIN fields : \E k \in DOMAIN list : list[k] = fields[i]
         /\ \A k \in DOMAIN list : \E i \in DOMAIN fields : list[k] = fields[i]
<1>. DEFINE first == FirstOfName(fields)
            n == Cardinality(first)
            pos(r) == CHOOSE i \in first : Rank(fields, i) = r
<1>1. list = [r \in 1 .. n |-> fields[pos(r)]]
  BY DEF RetNoRepeatedFields, Rank
<1>2. /\ n \in Nat
      /\ \A i, k \in first : Rank(fields, i) = Rank(fields, k) => i = k
      /\ \A r \in 1 .. n : \E i \in first : Rank(fields, i) = r
  BY RankIsBijection
<1>3. first \subseteq DOMAIN fields
  BY DEF FirstOfName
<1>4. \A r \in 1 .. n : pos(r) \in first /\ Rank(fields, pos(r)) = r
  BY <1>2
<1>5. \A i, k \in first : fields[i] = fields[k] => i = k
  <2>. SUFFICES ASSUME NEW i \in first, NEW k \in first, fields[i] = fields[k], i < k
                PROVE  FALSE
    BY <1>3 DEF IsList
  <2>1. i \in 1 .. k - 1
    BY <1>3 DEF IsList
  <2>. QED
    BY <2>1 DEF FirstOfName
<1>6. \A i \in first : Rank(fields, i) \in 1 .. n
  <2>. SUFFICES ASSUME NEW i \in first PROVE Rank(fields, i) \in 1 .. n
    OBVIOUS
  <2>1. {k \in first : k <= i} \subseteq first /\ i \in {k \in first : k <= i}
    BY <1>3 DEF IsList
  <2>2. IsFiniteSet(first)
    BY RankIsBijection
  <2>3. /\ IsFiniteSet({k \in first : k <= i}) /\ Cardinality({k \in first : k <= i}) <= n
    BY <2>1, <2>2, FS_Subset
  <2>4. Cardinality({k \in first : k <= i}) \in Nat /\ Cardinality({k \in first : k <= i}) # 0
    BY <2>1, <2>3, FS_CardinalityType, FS_EmptySet
  <2>. QED
    BY <1>2, <2>3, <2>4 DEF Rank
<1>. HIDE DEF first, pos
<1>7. list \in Seq({fields[i] : i \in DOMAIN fields}) /\ Len(list) = n /\ DOMAIN list = 1 .. n
  BY <1>1, <1>2, <1>3, <1>4
<1>8. ASSUME NEW i \in 1 .. n, NEW k \in 1 .. n, list[i] = list[k] PROVE i = k
  BY <1>1, <1>4, <1>5, <1>8
<1>9. ASSUME NEW i \in DOMAIN fields PROVE \E r \in 1 .. n : list[r] = fields[i]
  <2>1. PICK f \in first : fields[f] = fields[i]
    BY FirstHasName DEF first
  <2>2. pos(Rank(fields, f)) = f /\ Rank(fields, f) \in 1 .. n
    BY <1>2, <1>4, <1>6
  <2>. QED
    BY <1>1, <2>1, <2>2
<1>10. \A k \in 1 .. n : pos(k) \in DOMAIN fields /\ list[k] = fields[pos(k)]
  BY <1>1, <1>3, <1>4
<1>. QED
  BY <1>2, <1>7, <1>8, <1>9, <1>10 DEF IsList

----------------------------------------------------------------------------
(* The rows.  Those an earlier run left stay, with their names, but for    *)
(* what the statements executed so far wrote.                              *)
IsTable(table) ==
  /\ DOMAIN table \subseteq Nat \ {0}
  /\ \A id \in DOMAIN table :
       table[id] = [name |-> table[id].name, value |-> table[id].value]

OneRowEach(table) ==
  \A a, b \in DOMAIN table : table[a].name = table[b].name => a = b

IsNew(i) == RowsOf(before, names[i]) = {}

MySQLRows ==
  /\ DOMAIN rows = DOMAIN before \union 1 .. inserts
  /\ \A i \in 1 .. inserts :
       rows[i].name = names[i] /\ (rows[i].value = 1 => names[i] \in fresh)

SQLiteRows ==
  /\ DOMAIN rows = DOMAIN before \union {i \in 1 .. inserts : IsNew(i)}
  /\ \A id \in DOMAIN before : rows[id].name = before[id].name
  /\ \A i \in 1 .. inserts : IsNew(i) => rows[i].name = names[i]
  /\ \A i \in 1 .. inserts : \A id \in RowsOf(rows, names[i]) :
       rows[id].value = 1 => names[i] \in fresh

(* In SQLite a name never has two rows, whatever fails and whatever row a  *)
(* statement overwrites: a name that has one keeps it.                     *)
TablesInv ==
  /\ IsList(config.triggers) /\ IsTable(rows) /\ IsTable(before)
  /\ config.dbType = "QSQLITE" => OneRowEach(rows)

ProgressInv ==
  /\ at = "create" =>
       /\ inserts = 0 /\ ~failed
       /\ DOMAIN rows = DOMAIN before /\ \A id \in DOMAIN rows : rows[id].name = before[id].name
  /\ at # "create" =>
       names = RetNoRepeatedFields(config.triggers) /\ inserts \in 0 .. Len(names)
  /\ at \notin {"create", "rows"} /\ ~failed => inserts = Len(names)

StatementsInv ==
  at # "create" /\ ~failed /\ RowsFit =>
    IF config.dbType = "QSQLITE" THEN SQLiteRows ELSE MySQLRows

RowsInv == TablesInv /\ ProgressInv /\ StatementsInv

LEMMA RaisedRows ==
  ASSUME NEW table, IsTable(table), NEW name
  PROVE  /\ DOMAIN Raised(table, name) = DOMAIN table /\ IsTable(Raised(table, name))
         /\ \A id \in DOMAIN table :
              /\ Raised(table, name)[id].name = table[id].name
              /\ Raised(table, name)[id].value = 1 => table[id].value = 1 \/ table[id].name = name
<1>1. ASSUME NEW id \in DOMAIN table
      PROVE  LET row == Raised(table, name)[id]
             IN  /\ row = [name |-> row.name, value |-> row.value]
                 /\ row.name = table[id].name
                 /\ row.value = 1 => table[id].value = 1 \/ table[id].name = name
  BY DEF Raised, IsTable
<1>. QED
  BY <1>1 DEF Raised, IsTable

LEMMA WrittenTable ==
  ASSUME NEW table, IsTable(table), NEW id, id \in Nat, id # 0, NEW name,
         NEW new, new = WithRow(table, id, name)
  PROVE  IsTable(new)
BY DEF WithRow, IsTable

(* The names of the statements are those of the triggers, each once.       *)
LEMMA NamesOfTriggers ==
  ASSUME TablesInv, ProgressInv, at # "create"
  PROVE  /\ IsList(names) /\ inserts \in 0 .. Len(names)
         /\ \A i, k \in DOMAIN names : names[i] = names[k] => i = k
         /\ \A n \in ToSet(config.triggers) : \E i \in DOMAIN names : names[i] = n
<1>1. /\ IsList(config.triggers) /\ names = RetNoRepeatedFields(config.triggers)
      /\ inserts \in 0 .. Len(names)
  BY DEF TablesInv, ProgressInv
<1>2. /\ IsList(names) /\ \A i, k \in DOMAIN names : names[i] = names[k] => i = k
      /\ \A i \in DOMAIN config.triggers : \E k \in DOMAIN names : names[k] = config.triggers[i]
  BY <1>1, NoRepetitions
<1>. QED
  BY <1>1, <1>2 DEF ToSet

LEMMA InitRowMySQL ==
  ASSUME RowsInv, InitValues, config.dbType # "QSQLITE", MySQLRows,
         rows' = InitRow(config.dbType, rows, inserts + 1, names[inserts + 1]),
         fresh' = fresh \ {names[inserts + 1]}
  PROVE  MySQLRows'
<1>. DEFINE i == inserts + 1
<1>1. /\ UNCHANGED << names, before >> /\ inserts' = i /\ inserts < Len(names) /\ at = "rows"
  BY DEF InitValues
<1>2. /\ IsList(names) /\ inserts \in Nat /\ i \in DOMAIN names /\ i \in Nat \ {0}
      /\ \A k, l \in DOMAIN names : names[k] = names[l] => k = l
  BY <1>1, NamesOfTriggers DEF RowsInv, IsList
<1>3. rows' = WithRow(rows, i, names[i])
  BY DEF InitRow, InitRowId
<1>4. /\ DOMAIN rows' = DOMAIN rows \union {i} /\ rows'[i].name = names[i] /\ rows'[i].value = 0
      /\ \A k \in DOMAIN rows : k # i => rows'[k] = rows[k]
  BY <1>3 DEF WithRow
<1>5. DOMAIN rows' = DOMAIN before' \union 1 .. inserts'
  <2>1. 1 .. inserts' = (1 .. inserts) \union {i}
    BY <1>1, <1>2
  <2>. QED
    BY <1>1, <1>4, <2>1 DEF MySQLRows
<1>6. ASSUME NEW k \in 1 .. inserts'
      PROVE  rows'[k].name = names'[k] /\ (rows'[k].value = 1 => names'[k] \in fresh')
  <2>1. CASE k = i
    BY <1>1, <1>4, <2>1
  <2>2. CASE k \in 1 .. inserts
    <3>1. k \in DOMAIN names /\ k # i /\ k \in DOMAIN rows
      BY <1>1, <1>2, <2>2 DEF IsList, MySQLRows
    <3>2. names[k] # names[i] /\ rows'[k] = rows[k]
      BY <1>2, <1>4, <3>1
    <3>. QED
      BY <1>1, <2>2, <3>2 DEF MySQLRows
  <2>. QED
    BY <1>1, <1>2, <2>1, <2>2
<1>. QED
  BY <1>5, <1>6 DEF MySQLRows

(* A name that had no row when the process started gets one of its own.    *)
LEMMA InitRowSQLite ==
  ASSUME RowsInv, InitValues, config.dbType = "QSQLITE", RowsFit,
         rows' = InitRow(config.dbType, rows, inserts + 1, names[inserts + 1]),
         fresh' = fresh \ {names[inserts + 1]}, SQLiteRows
  PROVE  SQLiteRows'
<1>. DEFINE i == inserts + 1
            name == names[i]
            id == InitRowId(config.dbType, rows, i, name)
<1>1. /\ UNCHANGED << names, before >> /\ inserts' = i /\ inserts < Len(names) /\ at = "rows"
  BY DEF InitValues
<1>2. /\ IsList(names) /\ inserts \in Nat /\ i \in DOMAIN names /\ i \in Nat \ {0}
      /\ \A k, l \in DOMAIN names : names[k] = names[l] => k = l
  BY <1>1, NamesOfTriggers DEF RowsInv, IsList
<1>3. rows' = WithRow(rows, id, name)
  BY DEF InitRow
<1>4. IF RowsOf(rows, name) # {} THEN id \in DOMAIN rows /\ rows[id].name = name ELSE id = i
  BY DEF InitRowId, RowsOf
<1>5. id \in Nat \ {0}
  BY <1>2, <1>4 DEF RowsInv, TablesInv, IsTable
<1>. HIDE DEF id
<1>6. /\ DOMAIN rows' = DOMAIN rows \union {id} /\ rows'[id].name = name /\ rows'[id].value = 0
      /\ \A k \in DOMAIN rows : k # id => rows'[k] = rows[k]
  BY <1>3 DEF WithRow
<1>7. \A k : IsNew(k)' <=> IsNew(k)
  BY <1>1 DEF IsNew, RowsOf
<1>8. IsNew(i) <=> RowsOf(rows, name) = {}
  <2>1. ASSUME ~IsNew(i) PROVE RowsOf(rows, name) # {}
    BY <2>1 DEF IsNew, RowsOf, SQLiteRows
  <2>2. ASSUME IsNew(i), NEW k \in RowsOf(rows, name) PROVE FALSE
    <3>1. k \in DOMAIN rows /\ rows[k].name = name
      BY <2>2 DEF RowsOf
    <3>2. k \notin DOMAIN before
      BY <2>2, <3>1 DEF IsNew, RowsOf, SQLiteRows
    <3>3. k \in 1 .. inserts /\ IsNew(k)
      BY <3>1, <3>2 DEF SQLiteRows
    <3>4. names[k] = name /\ k \in DOMAIN names /\ k # i
      BY <1>1, <1>2, <3>1, <3>3 DEF SQLiteRows, IsList
    <3>. QED
      BY <1>2, <3>4
  <2>. QED
    BY <2>1, <2>2
<1>9. IsNew(i) => i \notin DOMAIN before
  BY <1>2 DEF RowsFit, IsNew
<1>10. DOMAIN rows' = DOMAIN before' \union {k \in 1 .. inserts' : IsNew(k)'}
  <2>1. {k \in 1 .. inserts' : IsNew(k)'} =
          {k \in 1 .. inserts : IsNew(k)} \union (IF IsNew(i) THEN {i} ELSE {})
    BY <1>1, <1>2, <1>7
  <2>. QED
    BY <1>1, <1>4, <1>6, <1>8, <2>1 DEF SQLiteRows
<1>11. \A k \in DOMAIN rows : rows'[k].name = rows[k].name
  <2>1. id \in DOMAIN rows => rows[id].name = name
    <3>1. CASE RowsOf(rows, name) # {}
      BY <1>4, <3>1
    <3>2. CASE RowsOf(rows, name) = {}
      <4>1. id = i /\ IsNew(i) /\ i \notin DOMAIN before /\ i \notin 1 .. inserts
        BY <1>2, <1>4, <1>8, <1>9, <3>2
      <4>. QED
        BY <4>1 DEF SQLiteRows
    <3>. QED
      BY <3>1, <3>2
  <2>. QED
    BY <1>6, <2>1
<1>12. \A k \in DOMAIN before' : rows'[k].name = before'[k].name
  BY <1>1, <1>11 DEF SQLiteRows
<1>13. ASSUME NEW k \in 1 .. inserts', IsNew(k)' PROVE rows'[k].name = names'[k]
  <2>1. CASE k = i
    BY <1>1, <1>4, <1>6, <1>7, <1>8, <1>13, <2>1
  <2>2. CASE k \in 1 .. inserts
    BY <1>1, <1>7, <1>11, <1>13, <2>2 DEF SQLiteRows
  <2>. QED
    BY <1>1, <1>2, <2>1, <2>2
<1>14. ASSUME NEW k \in 1 .. inserts', NEW r \in RowsOf(rows', names'[k]), rows'[r].value = 1
       PROVE  names'[k] \in fresh'
  <2>1. r \in DOMAIN rows' /\ rows'[r].name = names[k]
    BY <1>1 DEF RowsOf
  <2>2. r # id
    BY <1>6, <1>14
  <2>3. r \in DOMAIN rows /\ rows'[r] = rows[r]
    BY <1>6, <2>1, <2>2
  <2>4. k # i
    <3>. SUFFICES ASSUME k = i PROVE FALSE
      OBVIOUS
    <3>1. r \in RowsOf(rows, name)
      BY <2>1, <2>3 DEF RowsOf
    <3>2. id \in DOMAIN rows /\ rows[id].name = rows[r].name
      BY <1>4, <2>1, <2>3, <3>1
    <3>. QED
      BY <2>2, <2>3, <3>2 DEF RowsInv, TablesInv, OneRowEach
  <2>5. k \in 1 .. inserts /\ r \in RowsOf(rows, names[k]) /\ rows[r].value = 1
    BY <1>1, <1>2, <1>14, <2>1, <2>3, <2>4 DEF RowsOf
  <2>6. names[k] \in fresh /\ names[k] # name
    BY <1>1, <1>2, <2>4, <2>5 DEF SQLiteRows, IsList
  <2>. QED
    BY <1>1, <2>6
<1>. QED
  BY <1>10, <1>12, <1>13, <1>14 DEF SQLiteRows

(* A statement that fails leaves the rows; the others keep what is known.  *)
LEMMA StatementExecuted ==
  ASSUME RowsInv, InitValues
  PROVE  RowsInv'
<1>. DEFINE i == inserts + 1
            name == names[i]
            id == InitRowId(config.dbType, rows, i, name)
            done == rows' = InitRow(config.dbType, rows, i, name) /\ fresh' = fresh \ {name}
                    /\ failed' = failed
            fails == failed' = TRUE /\ UNCHANGED << rows, fresh >>
<1>1. /\ UNCHANGED << at, config, names, before >> /\ inserts' = i /\ inserts < Len(names)
      /\ at = "rows" /\ (done \/ fails)
  BY DEF InitValues
<1>2. IsList(names) /\ inserts \in Nat /\ i \in Nat /\ i # 0
  BY <1>1, NamesOfTriggers DEF RowsInv, IsList
<1>3. (RowsFit' <=> RowsFit)
  BY <1>1 DEF RowsFit, RowsOf
<1>4. ProgressInv'
  BY <1>1, <1>2 DEF RowsInv, ProgressInv, IsList
<1>5. CASE fails
  <2>1. TablesInv'
    BY <1>1, <1>5 DEF RowsInv, TablesInv, IsTable, OneRowEach, IsList
  <2>2. StatementsInv'
    BY <1>5 DEF StatementsInv
  <2>. QED
    BY <1>4, <2>1, <2>2 DEF RowsInv
<1>6. CASE done
  <2>1. id \in Nat /\ id # 0
    BY <1>2 DEF InitRowId, RowsOf, RowsInv, TablesInv, IsTable
  <2>2. rows' = WithRow(rows, id, name) /\ IsTable(rows)
    BY <1>6 DEF InitRow, RowsInv, TablesInv
  <2>3. config.dbType = "QSQLITE" => id \in RowsOf(rows, name) \/ RowsOf(rows, name) = {}
    BY DEF InitRowId
  <2>. HIDE DEF id, i, name, done
  <2>4. /\ DOMAIN rows' = DOMAIN rows \union {id} /\ rows'[id].name = name
        /\ \A k \in DOMAIN rows : k # id => rows'[k] = rows[k]
    BY <2>2 DEF WithRow
  <2>8. IsTable(rows')
    BY <2>1, <2>2, WrittenTable
  <2>5. config.dbType = "QSQLITE" => OneRowEach(rows')
    BY <2>3, <2>4 DEF RowsInv, TablesInv, OneRowEach, RowsOf
  <2>6. TablesInv'
    BY <1>1, <2>5, <2>8 DEF RowsInv, TablesInv, IsTable, IsList, OneRowEach
  <2>7. StatementsInv'
    <3>. SUFFICES ASSUME ~failed, RowsFit
                  PROVE  IF config.dbType = "QSQLITE" THEN SQLiteRows' ELSE MySQLRows'
      BY <1>1, <1>3, <1>6 DEF StatementsInv, done
    <3>1. IF config.dbType = "QSQLITE" THEN SQLiteRows ELSE MySQLRows
      BY <1>1 DEF RowsInv, StatementsInv
    <3>. QED
      BY <1>6, <3>1, InitRowSQLite, InitRowMySQL DEF done, i, name
  <2>. QED
    BY <1>4, <2>6, <2>7 DEF RowsInv
<1>. QED
  BY <1>1, <1>5, <1>6

(* Nobody but setup changes the names of the rows.                         *)
LEMMA RaiseKeeps ==
  ASSUME RowsInv, NEW n, Raise(n)
  PROVE  RowsInv'
<1>1. /\ rows' = Raised(rows, n) /\ fresh' = fresh \union {n} /\ IsTable(rows)
      /\ UNCHANGED << at, config, names, inserts, before, failed >>
  BY DEF Raise, RowsInv, TablesInv
<1>2. /\ DOMAIN rows' = DOMAIN rows /\ IsTable(rows')
      /\ \A id \in DOMAIN rows : rows'[id].name = rows[id].name
      /\ \A id \in DOMAIN rows : rows'[id].value = 1 => rows[id].value = 1 \/ rows[id].name = n
  BY <1>1, RaisedRows
<1>3. TablesInv'
  BY <1>1, <1>2 DEF RowsInv, TablesInv, IsTable, IsList, OneRowEach
<1>4. ProgressInv'
  BY <1>1, <1>2 DEF RowsInv, ProgressInv, IsList
<1>5. StatementsInv'
  <2>. SUFFICES ASSUME at # "create", ~failed, RowsFit
                PROVE  IF config.dbType = "QSQLITE" THEN SQLiteRows' ELSE MySQLRows'
    BY <1>1 DEF StatementsInv, RowsFit, RowsOf
  <2>1. inserts \in Nat /\ IsList(names)
    BY NamesOfTriggers DEF RowsInv, IsList
  <2>2. CASE config.dbType = "QSQLITE"
    <3>1. SQLiteRows
      BY <2>2 DEF RowsInv, StatementsInv
    <3>2. \A k : IsNew(k)' <=> IsNew(k)
      BY <1>1 DEF IsNew, RowsOf
    <3>3. \A k : k \in 1 .. inserts /\ IsNew(k) => k \in DOMAIN rows
      BY <3>1 DEF SQLiteRows
    <3>4. ASSUME NEW k \in 1 .. inserts, NEW id \in RowsOf(rows', names[k]), rows'[id].value = 1
          PROVE  names[k] \in fresh'
      <4>1. id \in RowsOf(rows, names[k])
        BY <1>2 DEF RowsOf
      <4>2. rows[id].value = 1 \/ names[k] = n
        BY <1>2, <3>4, <4>1 DEF RowsOf
      <4>. QED
        BY <1>1, <3>1, <4>1, <4>2 DEF SQLiteRows
    <3>5. DOMAIN before \subseteq DOMAIN rows
      BY <3>1 DEF SQLiteRows
    <3>. QED
      BY <1>1, <1>2, <2>2, <3>1, <3>2, <3>3, <3>4, <3>5 DEF SQLiteRows
  <2>3. CASE config.dbType # "QSQLITE"
    <3>1. MySQLRows
      BY <2>3 DEF RowsInv, StatementsInv
    <3>2. 1 .. inserts \subseteq DOMAIN rows
      BY <3>1 DEF MySQLRows
    <3>. QED
      BY <1>1, <1>2, <2>3, <3>1, <3>2 DEF MySQLRows
  <2>. QED
    BY <2>2, <2>3
<1>. QED
  BY <1>3, <1>4, <1>5 DEF RowsInv

LEMMA TableCreated ==
  ASSUME RowsInv, CreateTable
  PROVE  RowsInv'
<1>1. /\ at = "create" /\ names' = RetNoRepeatedFields(config.triggers)
      /\ \/ at' = "rows" /\ failed' = failed
         \/ at' = "slave" /\ failed' = TRUE
      /\ UNCHANGED << config, rows, inserts, before, fresh >>
  BY DEF CreateTable
<1>2. TablesInv'
  BY <1>1 DEF RowsInv, TablesInv, IsTable, IsList, OneRowEach
<1>3. /\ inserts = 0 /\ DOMAIN rows = DOMAIN before
      /\ \A id \in DOMAIN rows : rows[id].name = before[id].name
  BY <1>1 DEF RowsInv, ProgressInv
<1>4. IsList(names')
  BY <1>1, NoRepetitions DEF RowsInv, TablesInv
<1>5. ProgressInv'
  BY <1>1, <1>3, <1>4 DEF ProgressInv, IsList
<1>6. StatementsInv'
  BY <1>1, <1>3 DEF StatementsInv, SQLiteRows, MySQLRows
<1>. QED
  BY <1>2, <1>5, <1>6 DEF RowsInv

LEMMA SetupIsDone ==
  ASSUME RowsInv, SetupDone
  PROVE  RowsInv'
<1>1. UNCHANGED << config, rows, names, inserts, before, failed, fresh >> /\ at = "rows"
      /\ inserts = Len(names) /\ at' = "slave"
  BY DEF SetupDone, database
<1>2. \A k : IsNew(k)' <=> IsNew(k)
  BY <1>1 DEF IsNew, RowsOf
<1>3. TablesInv' /\ ProgressInv'
  BY <1>1 DEF RowsInv, TablesInv, ProgressInv, IsTable, IsList, OneRowEach
<1>4. StatementsInv'
  BY <1>1, <1>2 DEF RowsInv, StatementsInv, SQLiteRows, MySQLRows, RowsFit, RowsOf
<1>. QED
  BY <1>3, <1>4 DEF RowsInv

LEMMA SetupIsOver ==
  ASSUME RowsInv, UNCHANGED database, at' = at \/ {at, at'} \intersect {"create", "rows"} = {}
  PROVE  RowsInv'
<1>1. UNCHANGED << config, rows, names, inserts, before, failed, fresh >>
  BY DEF database
<1>2. \A k : IsNew(k)' <=> IsNew(k)
  BY <1>1 DEF IsNew, RowsOf
<1>3. TablesInv' /\ ProgressInv'
  BY <1>1 DEF RowsInv, TablesInv, ProgressInv, IsTable, IsList, OneRowEach
<1>4. StatementsInv'
  BY <1>1, <1>2 DEF RowsInv, StatementsInv, SQLiteRows, MySQLRows, RowsFit, RowsOf
<1>. QED
  BY <1>3, <1>4 DEF RowsInv

LEMMA StartedAgain ==
  ASSUME RowsInv, Restart
  PROVE  RowsInv'
<1>1. PICK c \in RestartConfigs :
        c.dbType = config.dbType /\ config' = [config EXCEPT !.triggers = c.triggers]
  BY DEF Restart
<1>2. /\ at' = "create" /\ inserts' = 0 /\ failed' = FALSE /\ rows' = rows /\ before' = rows
  BY DEF Restart
<1>3. config'.triggers = c.triggers /\ config'.dbType = config.dbType
  BY <1>1 DEF RowsInv, TablesInv
<1>4. IsList(c.triggers)
  BY ConfigsAssumption DEF IsList
<1>5. TablesInv'
  BY <1>2, <1>3, <1>4 DEF RowsInv, TablesInv, IsTable, IsList, OneRowEach
<1>6. ProgressInv'
  BY <1>2 DEF ProgressInv
<1>7. StatementsInv'
  BY <1>2 DEF StatementsInv
<1>. QED
  BY <1>5, <1>6, <1>7 DEF RowsInv

LEMMA RowsInit == Init => RowsInv
<1>. SUFFICES ASSUME Init PROVE RowsInv
  OBVIOUS
<1>1. PICK c \in Configs : config = [dbType |-> c.dbType, triggers |-> c.triggers]
  BY DEF Init
<1>2. IsList(config.triggers)
  BY <1>1, ConfigsAssumption DEF IsList
<1>3. rows = << >> /\ before = << >> /\ at = "create" /\ inserts = 0 /\ failed = FALSE
  BY DEF Init
<1>4. IsTable(rows) /\ IsTable(before) /\ OneRowEach(rows)
  BY <1>3 DEF IsTable, OneRowEach
<1>. QED
  BY <1>2, <1>3, <1>4 DEF RowsInv, TablesInv, ProgressInv, StatementsInv

LEMMA RowsStep == RowsInv /\ [Next]_vars => RowsInv'
<1>. SUFFICES ASSUME RowsInv, [Next]_vars PROVE RowsInv'
  OBVIOUS
<1>1. CASE CreateTable
  BY <1>1, TableCreated
<1>2. CASE InitValues
  BY <1>2, StatementExecuted
<1>3. CASE SetupDone
  BY <1>3, SetupIsDone
<1>4. CASE \E id \in DOMAIN rows : Raise(rows[id].name)
  BY <1>4, RaiseKeeps
<1>5. CASE Restart
  BY <1>5, StartedAgain
<1>6. CASE Parse \/ CommDaemon \/ IniDaemons \/ LaunchDaemons \/ FirstScan \/ UNCHANGED vars
  <2>1. UNCHANGED database
    BY <1>6 DEF Parse, CommDaemon, IniDaemons, LaunchDaemons, FirstScan, vars
  <2>2. at' = at \/ {at, at'} \intersect {"create", "rows"} = {}
    BY <1>6 DEF Parse, RetrieveCommParams, TakeSlave, NextPass, Compare, IdFound, SlaveDone,
                CommDaemon, IniDaemons, IniMBTCPCreate, IniNotOpened, NextTag, NextParam,
                IniWritten, LaunchDaemons, FirstScan, vars
  <2>. QED
    BY <2>1, <2>2, SetupIsOver
<1>. QED
  BY <1>1, <1>2, <1>3, <1>4, <1>5, <1>6 DEF Next, Constructor

(* In MySQL the rows are those of the names, under their places; in SQLite *)
(* a name has a row, and no other.                                         *)
LEMMA ReadyFromInv == RowsInv => TriggersReady
<1>. SUFFICES ASSUME RowsInv, at \notin {"create", "rows"}, ~failed, RowsFit,
                     NEW name \in ToSet(config.triggers)
              PROVE  \E id \in DOMAIN rows :
                       RowsOf(rows, name) = {id} /\ (rows[id].value = 1 => name \in fresh)
  BY DEF TriggersReady
<1>1. PICK i \in DOMAIN names : names[i] = name
  BY NamesOfTriggers DEF RowsInv
<1>2. /\ IsList(names) /\ inserts = Len(names) /\ i \in 1 .. inserts
      /\ \A k, l \in DOMAIN names : names[k] = names[l] => k = l
  BY NamesOfTriggers DEF RowsInv, ProgressInv, IsList
<1>3. CASE config.dbType = "QSQLITE"
  <2>1. SQLiteRows /\ OneRowEach(rows)
    BY <1>3 DEF RowsInv, StatementsInv, TablesInv
  <2>2. PICK id \in DOMAIN rows : rows[id].name = name
    <3>1. CASE IsNew(i)
      BY <1>1, <1>2, <2>1, <3>1 DEF SQLiteRows
    <3>2. CASE ~IsNew(i)
      BY <1>1, <2>1, <3>2 DEF SQLiteRows, IsNew, RowsOf
    <3>. QED
      BY <3>1, <3>2
  <2>3. RowsOf(rows, name) = {id}
    BY <2>1, <2>2 DEF OneRowEach, RowsOf
  <2>. QED
    BY <1>1, <1>2, <2>1, <2>3 DEF SQLiteRows
<1>4. CASE config.dbType # "QSQLITE"
  <2>1. MySQLRows
    BY <1>4 DEF RowsInv, StatementsInv
  <2>2. DOMAIN rows = 1 .. inserts
    BY <1>2, <1>4, <2>1 DEF MySQLRows, RowsFit, RowsInv, TablesInv, IsTable, IsList
  <2>3. RowsOf(rows, name) = {i}
    BY <1>1, <1>2, <2>1, <2>2 DEF MySQLRows, RowsOf, IsList
  <2>. QED
    BY <1>1, <1>2, <2>1, <2>2, <2>3 DEF MySQLRows
<1>. QED
  BY <1>3, <1>4

(* Whatever triggers the files name, whatever rows earlier runs left and   *)
(* however often the process is killed in its setup: when a setup without  *)
(* failed statements is done and the old rows leave room, each trigger has *)
(* one row, and what is up was raised since (piTriggersTable.cpp:87).      *)
THEOREM TriggersAreReady == Spec => []TriggersReady
BY RowsInit, RowsStep, ReadyFromInv, PTL DEF Spec
=============================================================================
